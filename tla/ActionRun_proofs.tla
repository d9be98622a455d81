--------------------------- MODULE ActionRun_proofs ---------------------------
(***************************************************************************)
(* Proofs about ActionRun, for any targets, whatever they name and however *)
(* what they name falls into units.                                        *)
(***************************************************************************)
EXTENDS ActionRun, FiniteSetTheorems, TLAPS

N == Cardinality(Target)

\* The types that what follows rests on; the causes and the exit code have none here.
Types ==
  /\ pc \in {"resolve", "confirm", "act", "return", "exit"}
  /\ index \in 0 .. N
  /\ items \subseteq Thing
  /\ noted \in [Recorded -> Nat]
  /\ outcome \in [Recorded -> {"none", "done", "skipped", "failed"}]

\* A target that was reached is accounted for, or what it names is yet to be acted on.
ReachedInv ==
  \A t \in Target : t <= index => Accounted(t) \/ (noted[t] = 0 /\ Names[t] \in items)

\* While the run goes on, nothing is recorded of what is to be reached or acted on.
FreshInv ==
  pc # "exit" => /\ \A x \in items : noted[x] = 0
                 /\ \A t \in Target : t > index => noted[t] = 0

\* Nothing is acted on before all are resolved, and nothing is left in the end.
PassInv ==
  /\ pc = "resolve" => \A x \in Thing : noted[x] = 0
  /\ pc \in {"confirm", "act", "return"} => index = N
  /\ pc = "return" => items = {}

OnceInv ==
  /\ \A x \in Recorded : noted[x] <= 1
  /\ pc = "exit" => \A t \in Target : Accounted(t)

IInv == Types /\ ReachedInv /\ FreshInv /\ PassInv /\ OnceInv
-----------------------------------------------------------------------------
LEMMA Basics ==
  ASSUME Parameters
  PROVE  /\ N \in Nat /\ Target = 1 .. N
         /\ \A t \in Target : Names[t] \in Thing /\ Names[t] \notin Target
         /\ Thing \cap Target = {} /\ Recorded = Target \cup Thing
<1>1. Cardinality(Target) \in Nat
  BY FS_CardinalityType DEF Parameters
<1> QED
  BY <1>1 DEF Parameters, N, Recorded

\* What Records() does to those it records and to the rest.
Made(failed, others, o) ==
  /\ noted' \in [Recorded -> Nat]
  /\ outcome' \in [Recorded -> {"none", "done", "skipped", "failed"}]
  /\ \A x \in failed : noted'[x] = noted[x] + 1 /\ outcome'[x] = "failed"
  /\ \A x \in others : noted'[x] = noted[x] + 1 /\ outcome'[x] = o
  /\ \A x \in Recorded \ (failed \cup others) :
       noted'[x] = noted[x] /\ outcome'[x] = outcome[x]

LEMMA RecordsIs ==
  ASSUME Types, NEW failed \in SUBSET Recorded, NEW others \in SUBSET Recorded,
         failed \cap others = {}, NEW code, NEW o \in {"done", "skipped", "none"},
         Records(failed, code, others, o)
  PROVE  Made(failed, others, o)
<1>1. \A x \in Recorded : noted[x] \in Nat
  BY DEF Types
<1>2. /\ noted' = [x \in Recorded |-> noted[x] + (IF x \in failed THEN 1 ELSE 0)
                                              + (IF x \in others THEN 1 ELSE 0)]
      /\ outcome' = [x \in Recorded |-> IF x \in others THEN o
                                        ELSE IF x \in failed THEN "failed" ELSE outcome[x]]
  BY DEF Records
<1>3. noted' \in [Recorded -> Nat]
  BY <1>1, <1>2
<1>4. outcome' \in [Recorded -> {"none", "done", "skipped", "failed"}]
  BY <1>2 DEF Types
<1>5. \A x \in failed : noted'[x] = noted[x] + 1 /\ outcome'[x] = "failed"
  BY <1>1, <1>2
<1>6. \A x \in others : noted'[x] = noted[x] + 1 /\ outcome'[x] = o
  BY <1>1, <1>2
<1>7. \A x \in Recorded \ (failed \cup others) :
        noted'[x] = noted[x] /\ outcome'[x] = outcome[x]
  BY <1>1, <1>2
<1> QED
  BY <1>3, <1>4, <1>5, <1>6, <1>7 DEF Made
-----------------------------------------------------------------------------
LEMMA InitHolds ==
  ASSUME Parameters
  PROVE  Init => IInv
BY Basics DEF Init, IInv, Types, ReachedInv, FreshInv, PassInv, OnceInv, Accounted

\* A target is resolved, or is not, and the run goes on.
LEMMA ResolveStep ==
  ASSUME Parameters, IInv, NEW t \in Target, Resolve(t)
  PROVE  IInv'
<1>1. /\ t = index + 1 /\ pc = "resolve" /\ pc' = pc /\ index' = t
      /\ items' = items \cup {Names[t]}
      /\ noted' = noted /\ outcome' = outcome
  BY DEF Resolve, records
<1>2. index \in 0 .. N /\ N \in Nat /\ t \in 1 .. N
  BY Basics DEF IInv, Types
<1>3. Types'
  BY <1>1, <1>2, Basics DEF IInv, Types
<1>4. \A u \in Target : Accounted(u)' <=> Accounted(u)
  BY <1>1 DEF Accounted
<1>5. noted[t] = 0 /\ \A x \in Thing : noted[x] = 0
  BY <1>1, <1>2 DEF IInv, FreshInv, PassInv
<1>6. \A u \in Target : u <= t => u = t \/ u <= index
  BY <1>1, <1>2, Basics
<1>7. ReachedInv'
  BY <1>1, <1>4, <1>5, <1>6 DEF IInv, ReachedInv
<1>8. FreshInv' /\ PassInv'
  BY <1>1, <1>2, <1>5, Basics DEF IInv, FreshInv, PassInv, Types
<1>9. OnceInv'
  BY <1>1 DEF IInv, OnceInv
<1> QED
  BY <1>3, <1>7, <1>8, <1>9 DEF IInv

\* A target t is the one thing recorded of, as skipped or failed, and the run goes on.
LEMMA RecordedStep ==
  ASSUME Parameters, IInv, NEW t \in Target, t = index + 1, pc = "resolve", pc' = pc, index' = t,
         items' = items,
         NEW failed \in {{}, {t}}, NEW code, NEW o \in {"skipped", "none"},
         Records(failed, code, {t} \ failed, o),
         failed = {} => o = "skipped"
  PROVE  IInv'
<1>1. index \in 0 .. N /\ N \in Nat /\ t \in 1 .. N /\ t \in Recorded
  BY Basics DEF IInv, Types
<1>2. noted[t] = 0 /\ \A x \in Thing : noted[x] = 0
  BY <1>1 DEF IInv, FreshInv, PassInv
<1>3. /\ noted' \in [Recorded -> Nat]
      /\ outcome' \in [Recorded -> {"none", "done", "skipped", "failed"}]
      /\ noted'[t] = 1 /\ outcome'[t] \in {"failed", "skipped"}
      /\ \A x \in Recorded \ {t} : noted'[x] = noted[x] /\ outcome'[x] = outcome[x]
  <2>1. /\ Types /\ failed \in SUBSET Recorded /\ {t} \ failed \in SUBSET Recorded
        /\ failed \cap ({t} \ failed) = {} /\ failed \cup ({t} \ failed) = {t}
    BY <1>1 DEF IInv
  <2>2. Made(failed, {t} \ failed, o)
    BY <2>1, RecordsIs
  <2> QED
    BY <1>2, <2>1, <2>2 DEF Made
<1>4. Types'
  BY <1>1, <1>3 DEF IInv, Types
<1>5. \A u \in Target : u # t => u \in Recorded \ {t} /\ Names[u] \in Recorded \ {t}
  BY Basics
<1>6. \A u \in Target : u # t => (Accounted(u)' <=> Accounted(u))
  BY <1>3, <1>5 DEF Accounted
<1>7. \A u \in Target : u <= t => u = t \/ u <= index
  BY <1>1, Basics
<1>8. ReachedInv'
  BY <1>3, <1>5, <1>6, <1>7 DEF IInv, ReachedInv, Accounted
<1>9. FreshInv'
  <2>1. \A x \in items : noted'[x] = 0
    BY <1>2, <1>3, Basics DEF IInv, Types
  <2>2. \A u \in Target : u > t => noted'[u] = 0
    BY <1>1, <1>3, <1>5, Basics DEF IInv, FreshInv
  <2> QED
    BY <2>1, <2>2 DEF FreshInv
<1>10. PassInv'
  BY <1>2, <1>3, Basics DEF PassInv
<1>11. OnceInv'
  BY <1>3 DEF IInv, OnceInv
<1> QED
  BY <1>4, <1>8, <1>9, <1>10, <1>11 DEF IInv

\* A failure of the session while targets are resolved: all are recorded.
LEMMA SessionStep ==
  ASSUME Parameters, IInv, NEW t \in Target, t = index + 1, pc = "resolve", pc' = "exit", index' = t,
         items' = items, NEW code, Records({t}, code, items \cup Left, "skipped")
  PROVE  IInv'
<1>1. /\ index \in 0 .. N /\ N \in Nat /\ t \in 1 .. N /\ t \in Recorded
      /\ items \subseteq Thing /\ Left = {u \in Target : u > t}
  BY Basics DEF IInv, Types, Left
<1>2. /\ noted[t] = 0 /\ \A x \in Thing : noted[x] = 0
      /\ \A u \in Left : noted[u] = 0
  BY <1>1, Basics DEF IInv, FreshInv, PassInv
<1>3. /\ {t} \in SUBSET Recorded /\ items \cup Left \in SUBSET Recorded
      /\ {t} \cap (items \cup Left) = {}
  BY <1>1, Basics
<1>4. /\ noted' \in [Recorded -> Nat]
      /\ outcome' \in [Recorded -> {"none", "done", "skipped", "failed"}]
      /\ noted'[t] = 1 /\ outcome'[t] = "failed"
      /\ \A x \in items \cup Left : noted'[x] = 1 /\ outcome'[x] = "skipped"
      /\ \A x \in Recorded \ ({t} \cup items \cup Left) :
           noted'[x] = noted[x] /\ outcome'[x] = outcome[x]
  <2> DEFINE others == items \cup Left
  <2>1. Types /\ {t} \cup others = {t} \cup items \cup Left
    BY DEF IInv
  <2>2. \A x \in others : noted[x] = 0
    BY <1>1, <1>2
  <2>3. {t} \in SUBSET Recorded /\ others \in SUBSET Recorded /\ {t} \cap others = {}
    BY <1>3
  <2>4. Records({t}, code, others, "skipped")
    OBVIOUS
  <2> HIDE DEF others
  <2>5. Made({t}, others, "skipped")
    BY <2>1, <2>3, <2>4, RecordsIs
  <2>6. /\ noted'[t] = 1 /\ outcome'[t] = "failed"
        /\ \A x \in others : noted'[x] = 1 /\ outcome'[x] = "skipped"
    BY <1>2, <2>2, <2>5 DEF Made
  <2> QED
    BY <2>1, <2>5, <2>6 DEF Made, others
<1>5. Types'
  BY <1>1, <1>4 DEF IInv, Types
<1>6. \A u \in Target : Accounted(u)'
  <2> SUFFICES ASSUME NEW u \in Target PROVE Accounted(u)'
    OBVIOUS
  <2>1. CASE u = t \/ u \in Left
    BY <1>4, <2>1 DEF Accounted
  <2>2. CASE u # t /\ u \notin Left
    <3>1. u <= index /\ u \in Recorded \ ({t} \cup items \cup Left)
      BY <1>1, <2>2, Basics
    <3>2. Names[u] \in Thing /\ noted[Names[u]] = 0
      BY <1>2, Basics
    <3>3. Accounted(u) \/ (noted[u] = 0 /\ Names[u] \in items)
      BY <3>1 DEF IInv, ReachedInv
    <3> QED
      BY <1>4, <3>1, <3>2, <3>3 DEF Accounted
  <2> QED
    BY <2>1, <2>2
<1>7. OnceInv'
  BY <1>4, <1>6 DEF IInv, OnceInv
<1> QED
  BY <1>5, <1>6, <1>7 DEF IInv, ReachedInv, FreshInv, PassInv

\* Things are acted on or given up: each is recorded, and none of the targets is.
LEMMA ActStep ==
  ASSUME Parameters, IInv, pc \in {"confirm", "act"}, pc' \in {"act", "return", "exit"},
         index' = index,
         NEW failed \in SUBSET items, NEW others \in SUBSET items, failed \cap others = {},
         NEW code, NEW o \in {"done", "skipped", "none"},
         Records(failed, code, others, o),
         items' = items \ (failed \cup others),
         pc' # "act" => items' = {}
  PROVE  IInv'
<1>1. index = N /\ N \in Nat /\ items \subseteq Thing /\ Thing \subseteq Recorded
  BY Basics DEF IInv, Types, PassInv
<1>2. \A x \in items : noted[x] = 0
  BY DEF IInv, FreshInv
<1>3. /\ noted' \in [Recorded -> Nat]
      /\ outcome' \in [Recorded -> {"none", "done", "skipped", "failed"}]
      /\ \A x \in failed \cup others : noted'[x] = 1
      /\ \A x \in Recorded \ (failed \cup others) :
           noted'[x] = noted[x] /\ outcome'[x] = outcome[x]
  <2>1. Types /\ failed \in SUBSET Recorded /\ others \in SUBSET Recorded
    BY <1>1 DEF IInv
  <2>2. Made(failed, others, o)
    BY <2>1, RecordsIs
  <2> QED
    BY <1>2, <2>2 DEF Made
<1>4. Types'
  BY <1>1, <1>3 DEF IInv, Types
<1>5. \A u \in Target : u \in Recorded \ (failed \cup others)
  BY <1>1, Basics
<1>6. \A u \in Target : Accounted(u)' \/ (noted'[u] = 0 /\ Names[u] \in items')
  <2> SUFFICES ASSUME NEW u \in Target
               PROVE  Accounted(u)' \/ (noted'[u] = 0 /\ Names[u] \in items')
    OBVIOUS
  <2>1. Accounted(u) \/ (noted[u] = 0 /\ Names[u] \in items)
    BY <1>1, Basics DEF IInv, ReachedInv
  <2>2. noted'[u] = noted[u] /\ outcome'[u] = outcome[u]
    BY <1>3, <1>5
  <2>3. Names[u] \in Recorded
    BY Basics
  <2>4. CASE Names[u] \in failed \cup others
    BY <1>2, <1>3, <2>1, <2>2, <2>4 DEF Accounted
  <2>5. CASE Names[u] \notin failed \cup others
    BY <1>3, <2>1, <2>2, <2>3, <2>5 DEF Accounted
  <2> QED
    BY <2>4, <2>5
<1>7. ReachedInv'
  BY <1>6 DEF ReachedInv
<1>8. FreshInv'
  BY <1>1, <1>2, <1>3, <1>5 DEF IInv, FreshInv
<1>9. PassInv'
  BY <1>1 DEF PassInv
<1>10. OnceInv'
  BY <1>3, <1>6 DEF IInv, OnceInv
<1> QED
  BY <1>4, <1>7, <1>8, <1>9, <1>10 DEF IInv

\* The run goes from one pass to the next.
LEMMA PassStep ==
  ASSUME Parameters, IInv, AllResolved \/ Confirm \/ AllActed \/ Return
  PROVE  IInv'
<1>1. /\ index' = index /\ items' = items /\ noted' = noted /\ outcome' = outcome
      /\ pc' \in {"confirm", "act", "return", "exit"}
      /\ pc = "resolve" => index = N
      /\ pc' \in {"return", "exit"} => items = {}
      /\ pc # "exit"
  BY DEF AllResolved, Confirm, AllActed, Return, Goes, records, IInv, PassInv, N
<1>2. index = N
  BY <1>1 DEF IInv, PassInv, Types
<1>3. \A u \in Target : Accounted(u)' <=> Accounted(u)
  BY <1>1 DEF Accounted
<1>4. Types' /\ ReachedInv' /\ FreshInv' /\ PassInv'
  BY <1>1, <1>2, <1>3 DEF IInv, Types, ReachedInv, FreshInv, PassInv
<1>5. OnceInv'
  BY <1>1, <1>2, <1>3, Basics DEF IInv, OnceInv, ReachedInv
<1> QED
  BY <1>4, <1>5 DEF IInv

LEMMA StepHolds ==
  ASSUME Parameters
  PROVE  IInv /\ [Next]_vars => IInv'
<1> SUFFICES ASSUME IInv, [Next]_vars PROVE IInv'
  OBVIOUS
<1>1. ASSUME NEW t \in Target, Resolve(t) PROVE IInv'
  BY <1>1, ResolveStep
<1>2. ASSUME NEW t \in Target, Unresolved(t) PROVE IInv'
  <2>1. /\ pc = "resolve" /\ t = index + 1 /\ pc' = pc /\ index' = t /\ items' = items
        /\ \/ Records({}, SUCCESS, {t} \ {}, "skipped")
           \/ \E code \in Codes : Records({t}, code, {t} \ {t}, "none")
    <3>1. {t} \ {} = {t} /\ {t} \ {t} = {}
      OBVIOUS
    <3> QED
      BY <1>2, <3>1 DEF Unresolved
  <2> QED
    BY <2>1, RecordedStep
<1>3. ASSUME NEW t \in Target, NEW code \in Codes, LookupFails(t, code) PROVE IInv'
  <2>1. CASE code \in SESSION_FAILURES
    BY <1>3, <2>1, SessionStep DEF LookupFails, Stops
  <2>2. CASE code \notin SESSION_FAILURES
    <3>1. {t} \ {t} = {}
      OBVIOUS
    <3>2. /\ pc = "resolve" /\ t = index + 1 /\ pc' = pc /\ index' = t /\ items' = items
          /\ Records({t}, code, {t} \ {t}, "none")
      BY <1>3, <2>2, <3>1 DEF LookupFails, Goes
    <3> QED
      BY <3>2, RecordedStep
  <2> QED
    BY <2>1, <2>2
<1>4. CASE Decline
  <2>1. /\ pc = "confirm" /\ pc' = "return" /\ index' = index
        /\ items' = items \ ({} \cup items) /\ items' = {}
        /\ Records({}, SUCCESS, items, "skipped")
    BY <1>4 DEF Decline, Goes
  <2> QED
    BY <2>1, ActStep
<1>5. ASSUME NEW u \in Units, Done(u) PROVE IInv'
  <2>1. /\ pc = "act" /\ pc' = "act" /\ index' = index
        /\ items' = items \ ({} \cup ItemsOf(u)) /\ ItemsOf(u) \subseteq items
        /\ Records({}, SUCCESS, ItemsOf(u), "done")
    BY <1>5 DEF Done, ItemsOf
  <2> QED
    BY <2>1, ActStep
<1>6. ASSUME NEW u \in Units, NEW code \in Codes, Fails(u, code) PROVE IInv'
  <2> DEFINE I == ItemsOf(u)
  <2>1. I \subseteq items
    BY DEF ItemsOf
  <2>2. CASE code \in SESSION_FAILURES
    <3>1. /\ pc = "act" /\ pc' = "exit" /\ index' = index /\ items' = {}
          /\ Records(I, code, items \ I, "skipped")
      BY <1>6, <2>2 DEF Fails, Stops
    <3> HIDE DEF I
    <3>2. items \ I \subseteq items /\ I \cap (items \ I) = {} /\ items' = items \ (I \cup (items \ I))
      BY <2>1, <3>1
    <3> QED
      BY <2>1, <3>1, <3>2, ActStep
  <2>3. CASE code \notin SESSION_FAILURES
    <3>1. /\ pc = "act" /\ pc' = "act" /\ index' = index /\ items' = items \ (I \cup {})
          /\ Records(I, code, {}, "none")
      BY <1>6, <2>3 DEF Fails, Goes
    <3> HIDE DEF I
    <3> QED
      BY <2>1, <3>1, ActStep
  <2> QED
    BY <2>2, <2>3
<1>7. CASE AllResolved \/ Confirm \/ AllActed \/ Return
  BY <1>7, PassStep
<1>8. CASE UNCHANGED vars
  BY <1>8 DEF vars, records, IInv, Types, ReachedInv, FreshInv, PassInv, OnceInv, Accounted
<1> QED
  BY <1>1, <1>2, <1>3, <1>4, <1>5, <1>6, <1>7, <1>8 DEF Next

LEMMA OnceImplies == IInv => EachRecordedOnce
BY DEF IInv, OnceInv, EachRecordedOnce

\* Every target of a run is in exactly one record when the run ends, however many
\* name one thing, and whichever failure stopped it; and no record is made twice.
THEOREM RecordedOnce ==
  ASSUME Parameters
  PROVE  Spec => []EachRecordedOnce
  BY InitHolds, StepHolds, OnceImplies, PTL DEF Spec
-----------------------------------------------------------------------------
(* Failures of the session. *)

\* A failure of the session has ended the run.
SessionInv ==
  /\ causes \in Seq(Codes)
  /\ IsFiniteSet(items)
  /\ SessionFailed => pc = "exit"

Longer(s, n, code) == s \o [k \in 1 .. n |-> code]

LEMMA CausesIs ==
  ASSUME NEW s \in Seq(Codes), NEW n \in Nat, NEW code \in Codes
  PROVE  /\ Longer(s, n, code) \in Seq(Codes)
         /\ \A i \in 1 .. Len(Longer(s, n, code)) :
              \/ i \in 1 .. Len(s) /\ Longer(s, n, code)[i] = s[i]
              \/ Longer(s, n, code)[i] = code
<1> DEFINE c == [k \in 1 .. n |-> code]
<1>1. c \in Seq(Codes) /\ Len(c) = n /\ \A k \in 1 .. n : c[k] = code
  OBVIOUS
<1> HIDE DEF c
<1>2. Longer(s, n, code) = s \o c
  BY DEF c, Longer
<1> QED
  BY <1>1, <1>2

\* A cause that is recorded is of the session only if the run ends by it.
LEMMA CausesStep ==
  ASSUME SessionInv, pc # "exit", NEW failed, IsFiniteSet(failed), NEW code \in Codes,
         Causes(failed, code), code \in SESSION_FAILURES => pc' = "exit"
  PROVE  causes' \in Seq(Codes) /\ (SessionFailed' => pc' = "exit")
<1>1. Cardinality(failed) \in Nat
  BY FS_CardinalityType
<1>2. causes' = Longer(causes, Cardinality(failed), code) /\ causes \in Seq(Codes)
  BY DEF Causes, SessionInv, Longer
<1>3. /\ causes' \in Seq(Codes)
      /\ \A i \in 1 .. Len(causes') :
           (i \in 1 .. Len(causes) /\ causes'[i] = causes[i]) \/ causes'[i] = code
  BY <1>1, <1>2, CausesIs
<1>4. \A i \in 1 .. Len(causes) : causes[i] \notin SESSION_FAILURES
  BY DEF SessionInv, SessionFailed
<1> QED
  BY <1>3, <1>4 DEF SessionFailed

LEMMA SessionInvStep ==
  SessionInv /\ [Next]_vars => SessionInv'
<1> SUFFICES ASSUME SessionInv, [Next]_vars PROVE SessionInv'
  OBVIOUS
<1>1. ASSUME IsFiniteSet(items'), causes' = causes, pc # "exit" PROVE SessionInv'
  BY <1>1 DEF SessionInv, SessionFailed
<1>2. \A S : S \subseteq items => IsFiniteSet(S)
  BY FS_Subset DEF SessionInv
<1>3. \A x : IsFiniteSet({x}) /\ IsFiniteSet(items \cup {x})
  BY FS_Singleton, FS_AddElement DEF SessionInv
<1>4. ASSUME NEW t \in Target, Resolve(t) PROVE SessionInv'
  BY <1>1, <1>3, <1>4 DEF Resolve, records
<1>5. ASSUME NEW t \in Target, Unresolved(t) PROVE SessionInv'
  <2>1. pc = "resolve" /\ pc' = pc /\ items' = items
    BY <1>5 DEF Unresolved
  <2>2. CASE causes' = causes
    BY <1>1, <1>2, <2>1, <2>2
  <2>3. ASSUME NEW code \in Codes \ SESSION_FAILURES, Causes({t}, code) PROVE SessionInv'
    BY <1>2, <1>3, <2>1, <2>3, CausesStep DEF SessionInv
  <2> QED
    BY <1>5, <2>2, <2>3 DEF Unresolved
<1>6. ASSUME NEW t \in Target, NEW code \in Codes, LookupFails(t, code) PROVE SessionInv'
  <2>1. /\ pc = "resolve" /\ items' = items /\ Causes({t}, code)
        /\ code \in SESSION_FAILURES => pc' = "exit"
    BY <1>6 DEF LookupFails, Stops
  <2> QED
    BY <1>2, <1>3, <2>1, CausesStep DEF SessionInv
<1>7. ASSUME NEW u \in Units, Done(u) PROVE SessionInv'
  BY <1>1, <1>2, <1>7 DEF Done
<1>8. ASSUME NEW u \in Units, NEW code \in Codes, Fails(u, code) PROVE SessionInv'
  <2>1. /\ pc = "act" /\ items' \subseteq items /\ Causes(ItemsOf(u), code)
        /\ code \in SESSION_FAILURES => pc' = "exit"
    BY <1>8 DEF Fails, Stops
  <2>2. IsFiniteSet(ItemsOf(u)) /\ IsFiniteSet(items')
    BY <1>2, <2>1 DEF ItemsOf
  <2> QED
    BY <2>1, <2>2, CausesStep DEF SessionInv
<1>9. CASE AllResolved \/ Confirm \/ Decline \/ AllActed \/ Return
  <2>1. pc # "exit" /\ items' \subseteq items /\ causes' = causes
    BY <1>9 DEF AllResolved, Confirm, Decline, AllActed, Return, records
  <2> QED
    BY <1>1, <1>2, <2>1
<1>10. CASE UNCHANGED vars
  BY <1>10 DEF vars, records, SessionInv, SessionFailed
<1> QED
  BY <1>4, <1>5, <1>6, <1>7, <1>8, <1>9, <1>10 DEF Next

\* Once the session has failed, for whatever target or unit, nothing more is acted
\* on or recorded.
THEOREM StopsAtSession == Spec => NothingAfterSession
<1>1. Init => SessionInv
  BY FS_EmptySet DEF Init, SessionInv, SessionFailed
<1>2. SessionInv /\ [Next]_vars => SessionInv'
  BY SessionInvStep
<1>3. SessionInv /\ [Next]_vars => [SessionFailed => UNCHANGED <<index, records>>]_vars
  BY DEF SessionInv, Next, AllResolved, Confirm, Decline, AllActed, Return, Resolve,
         Unresolved, LookupFails, Done, Fails, vars, records
<1> QED
  BY <1>1, <1>2, <1>3, PTL DEF Spec, NothingAfterSession
-----------------------------------------------------------------------------
(* The exit code. *)

\* There is a cause for each failure, and it is that which its record gives.
CauseInv ==
  /\ cause \in [Recorded -> Codes \cup {SUCCESS}]
  /\ IsFiniteSet(Failed) /\ Len(causes) = Cardinality(Failed)
  /\ \A i \in 1 .. Len(causes) : \E x \in Failed : cause[x] = causes[i]
  /\ \A x \in Failed : \E i \in 1 .. Len(causes) : causes[i] = cause[x]
  /\ \A x \in Recorded : noted[x] = 0 => outcome[x] = "none"

\* A run that ended, but by a failure of its session, has what its causes make of it.
EndInv ==
  /\ SessionFailed => exit \in SESSION_FAILURES
  /\ pc = "exit" /\ ~SessionFailed =>
       exit = IF Failed = {} THEN SUCCESS ELSE FailureExitCode(Failed)

ExitInv == IInv /\ SessionInv /\ CauseInv /\ EndInv

\* The sequences of causes, of which some are as the failures added to those of before.
LEMMA LongerHas ==
  ASSUME NEW s \in Seq(Codes), NEW n \in Nat, NEW code \in Codes
  PROVE  /\ Len(Longer(s, n, code)) = Len(s) + n
         /\ \A i \in 1 .. Len(s) : Longer(s, n, code)[i] = s[i]
         /\ n > 0 => Longer(s, n, code)[Len(s) + n] = code
<1> DEFINE c == [k \in 1 .. n |-> code]
<1>1. c \in Seq(Codes) /\ Len(c) = n /\ \A k \in 1 .. n : c[k] = code
  OBVIOUS
<1> HIDE DEF c
<1>2. Longer(s, n, code) = s \o c
  BY DEF c, Longer
<1>3. Len(s) \in Nat /\ Len(s \o c) = Len(s) + n /\ \A i \in 1 .. Len(s) : (s \o c)[i] = s[i]
  BY <1>1
<1>4. ASSUME n > 0 PROVE (s \o c)[Len(s) + n] = c[n]
  BY <1>1, <1>3, <1>4
<1> QED
  BY <1>1, <1>2, <1>3, <1>4

\* What is recorded of things that were not adds those that failed, each with its cause.
LEMMA CauseStep ==
  ASSUME ExitInv, NEW failed \in SUBSET Recorded, IsFiniteSet(failed),
         NEW others \in SUBSET Recorded, failed \cap others = {},
         \A x \in failed \cup others : noted[x] = 0,
         NEW code \in Codes \cup {SUCCESS}, NEW o \in {"done", "skipped", "none"},
         Records(failed, code, others, o),
         \/ failed = {} /\ causes' = causes
         \/ code \in Codes /\ Causes(failed, code)
  PROVE  CauseInv'
<1>1. /\ Types /\ causes \in Seq(Codes) /\ cause \in [Recorded -> Codes \cup {SUCCESS}]
      /\ IsFiniteSet(Failed) /\ Len(causes) = Cardinality(Failed)
      /\ \A i \in 1 .. Len(causes) : \E x \in Failed : cause[x] = causes[i]
      /\ \A x \in Failed : \E i \in 1 .. Len(causes) : causes[i] = cause[x]
      /\ \A x \in Recorded : noted[x] = 0 => outcome[x] = "none"
  BY DEF ExitInv, IInv, SessionInv, CauseInv
<1>2. Made(failed, others, o)
  BY <1>1, RecordsIs
<1>3. cause' = [x \in Recorded |-> IF x \in failed THEN code ELSE cause[x]]
  BY DEF Records
<1>4. Failed' = Failed \cup failed /\ Failed \cap failed = {}
  <2>1. \A x \in Recorded : outcome'[x] = "failed" <=> outcome[x] = "failed" \/ x \in failed
    BY <1>1, <1>2 DEF Made
  <2> QED
    BY <1>1, <2>1 DEF Failed
<1>5. /\ IsFiniteSet(Failed') /\ Cardinality(failed) \in Nat /\ Cardinality(Failed) \in Nat
      /\ Cardinality(Failed') = Cardinality(Failed) + Cardinality(failed)
  <2>1. /\ IsFiniteSet(Failed \cup failed)
        /\ Cardinality(Failed \cup failed)
             = Cardinality(Failed) + Cardinality(failed) - Cardinality(Failed \cap failed)
    BY <1>1, FS_Union
  <2>2. Cardinality(failed) \in Nat /\ Cardinality(Failed) \in Nat
    BY <1>1, FS_CardinalityType
  <2>3. Cardinality(Failed \cap failed) = 0
    BY <1>4, FS_EmptySet
  <2> QED
    BY <1>4, <2>1, <2>2, <2>3
<1>6. \A x \in Recorded : noted'[x] = 0 => outcome'[x] = "none"
  <2>1. \A x \in Recorded : noted[x] \in Nat
    BY <1>1 DEF Types
  <2>2. \A x \in failed \cup others : noted'[x] # 0
    BY <1>2, <2>1 DEF Made
  <2> QED
    BY <1>1, <1>2, <2>2 DEF Made
<1>7. cause' \in [Recorded -> Codes \cup {SUCCESS}]
  BY <1>1, <1>3
<1>8. \A x \in Failed : x \in Recorded /\ cause'[x] = cause[x] /\ x \in Failed'
  BY <1>3, <1>4 DEF Failed
<1>9. CASE failed = {} /\ causes' = causes
  <2>1. Failed' = Failed
    BY <1>4, <1>9
  <2> QED
    BY <1>1, <1>5, <1>6, <1>7, <1>8, <1>9, <2>1, FS_EmptySet DEF CauseInv
<1>10. CASE code \in Codes /\ Causes(failed, code)
  <2> DEFINE n == Cardinality(failed)
  <2>1. n \in Nat /\ causes' = Longer(causes, n, code)
    BY <1>5, <1>10 DEF Causes, Longer
  <2> HIDE DEF n
  <2>2. /\ Len(causes') = Len(causes) + n
        /\ \A i \in 1 .. Len(causes) : causes'[i] = causes[i]
        /\ n > 0 => causes'[Len(causes) + n] = code
        /\ \A i \in 1 .. Len(causes') :
             (i \in 1 .. Len(causes) /\ causes'[i] = causes[i]) \/ causes'[i] = code
    <3>1. causes \in Seq(Codes) /\ code \in Codes
      BY <1>1, <1>10
    <3>2. \A i \in 1 .. Len(Longer(causes, n, code)) :
            \/ i \in 1 .. Len(causes) /\ Longer(causes, n, code)[i] = causes[i]
            \/ Longer(causes, n, code)[i] = code
      BY <2>1, <3>1, CausesIs
    <3> QED
      BY <2>1, <3>1, <3>2, LongerHas
  <2>3. failed = {} <=> n = 0
    BY FS_EmptySet DEF n
  <2>4. Len(causes') = Cardinality(Failed')
    BY <1>1, <1>5, <2>2 DEF n
  <2>5. \A x \in failed : x \in Failed' /\ cause'[x] = code
    BY <1>3, <1>4
  <2>6. Len(causes) \in Nat
    BY <1>1
  <2>7. ASSUME NEW i \in 1 .. Len(causes') PROVE \E x \in Failed' : cause'[x] = causes'[i]
    <3>1. CASE i \in 1 .. Len(causes) /\ causes'[i] = causes[i]
      BY <1>1, <1>8, <3>1
    <3>2. CASE i \notin 1 .. Len(causes)
      <4>1. n # 0 /\ causes'[i] = code
        BY <2>1, <2>2, <2>6, <3>2
      <4> QED
        BY <2>3, <2>5, <4>1
    <3> QED
      BY <2>2, <3>1, <3>2
  <2>8. ASSUME NEW x \in Failed' PROVE \E i \in 1 .. Len(causes') : causes'[i] = cause'[x]
    <3>1. CASE x \in Failed
      <4>1. PICK i \in 1 .. Len(causes) : causes[i] = cause[x]
        BY <1>1, <3>1
      <4>2. i \in 1 .. Len(causes')
        BY <2>1, <2>2, <2>6
      <4> QED
        BY <1>8, <2>2, <3>1, <4>1, <4>2
    <3>2. CASE x \in failed
      <4>1. n > 0 /\ Len(causes) + n \in 1 .. Len(causes')
        BY <2>1, <2>2, <2>3, <2>6, <3>2
      <4> QED
        BY <2>2, <2>5, <3>2, <4>1
    <3> QED
      BY <1>4, <3>1, <3>2
  <2> QED
    BY <1>5, <1>6, <1>7, <2>4, <2>7, <2>8 DEF CauseInv
<1> QED
  BY <1>9, <1>10

\* A failure of the session that is recorded of something is among the causes.
LEMMA StopsStep ==
  ASSUME CauseInv', NEW failed \in SUBSET Recorded, failed # {}, NEW code \in SESSION_FAILURES,
         NEW others, NEW o \in {"done", "skipped", "none"},
         failed \cap others = {}, Records(failed, code, others, o), Stops(code)
  PROVE  EndInv'
<1>1. PICK x \in failed : x \in Recorded
  OBVIOUS
<1>2. outcome'[x] = "failed" /\ cause'[x] = code
  BY <1>1 DEF Records
<1>3. x \in Failed'
  BY <1>1, <1>2 DEF Failed
<1>4. \E i \in 1 .. Len(causes') : causes'[i] = code
  BY <1>2, <1>3 DEF CauseInv
<1>5. SessionFailed'
  BY <1>4 DEF SessionFailed
<1> QED
  BY <1>5 DEF EndInv, Stops

LEMMA CauseInvStep ==
  ASSUME Parameters
  PROVE  ExitInv /\ [Next]_vars => CauseInv' /\ EndInv'
<1> SUFFICES ASSUME ExitInv, [Next]_vars PROVE CauseInv' /\ EndInv'
  OBVIOUS
<1>1. SessionInv' /\ Types /\ items \subseteq Recorded /\ IsFiniteSet(items)
  BY SessionInvStep, Basics DEF ExitInv, IInv, Types, SessionInv
<1>2. ASSUME pc' # "exit" PROVE EndInv'
  BY <1>1, <1>2 DEF EndInv, SessionInv
<1>3. ASSUME UNCHANGED records PROVE CauseInv'
  BY <1>3 DEF records, ExitInv, CauseInv, Failed
<1>4. ASSUME pc # "exit" PROVE \A x \in items : noted[x] = 0
  BY <1>4 DEF ExitInv, IInv, FreshInv
<1>5. ASSUME NEW t \in Target, t = index + 1, pc # "exit"
      PROVE  /\ Left \subseteq Recorded /\ t \notin Left /\ t \notin items
             /\ noted[t] = 0 /\ \A u \in Left : noted[u] = 0
  <2>1. index \in Int /\ Target \subseteq Int
    BY <1>1, Basics DEF Types
  <2>2. t \notin items
    BY <1>1, Basics DEF Types
  <2>3. \A u \in Left : u \in Target /\ u > index
    BY <1>5, <2>1 DEF Left
  <2>4. t > index /\ t \notin Left /\ Left \subseteq Recorded
    BY <1>5, <2>1 DEF Left, Recorded
  <2>5. \A u \in Target : u > index => noted[u] = 0
    BY <1>5 DEF ExitInv, IInv, FreshInv
  <2> QED
    BY <2>2, <2>3, <2>4, <2>5
<1>6. ASSUME NEW t \in Target, Resolve(t) PROVE CauseInv' /\ EndInv'
  BY <1>2, <1>3, <1>6 DEF Resolve
<1>7. ASSUME NEW t \in Target, Unresolved(t) PROVE CauseInv' /\ EndInv'
  <2>1. /\ pc = "resolve" /\ pc' = "resolve" /\ t = index + 1 /\ {t} \in SUBSET Recorded
        /\ IsFiniteSet({t}) /\ IsFiniteSet({}) /\ noted[t] = 0
    <3>1. pc = "resolve" /\ pc' = "resolve" /\ t = index + 1
      BY <1>7 DEF Unresolved
    <3>2. noted[t] = 0
      BY <1>5, <3>1
    <3> QED
      BY <3>1, <3>2, FS_Singleton, FS_EmptySet DEF Recorded
  <2>2. CASE Records({}, SUCCESS, {t}, "skipped") /\ UNCHANGED causes
    BY <1>2, <2>1, <2>2, CauseStep
  <2>3. ASSUME NEW code \in Codes, Records({t}, code, {}, "none"), Causes({t}, code)
        PROVE  CauseInv' /\ EndInv'
    BY <1>2, <2>1, <2>3, CauseStep
  <2> QED
    BY <1>7, <2>2, <2>3 DEF Unresolved
<1>8. ASSUME NEW t \in Target, NEW code \in Codes, LookupFails(t, code)
      PROVE  CauseInv' /\ EndInv'
  <2>1. /\ pc = "resolve" /\ t = index + 1 /\ {t} \in SUBSET Recorded /\ {t} # {}
        /\ IsFiniteSet({t}) /\ noted[t] = 0 /\ Causes({t}, code)
    <3>1. pc = "resolve" /\ t = index + 1 /\ Causes({t}, code)
      BY <1>8 DEF LookupFails
    <3>2. noted[t] = 0
      BY <1>5, <3>1
    <3> QED
      BY <3>1, <3>2, FS_Singleton DEF Recorded
  <2> DEFINE rest == items \cup Left
  <2>2. CASE code \in SESSION_FAILURES
    <3>1. Records({t}, code, rest, "skipped") /\ Stops(code)
      BY <1>8, <2>2 DEF LookupFails
    <3>2. /\ rest \in SUBSET Recorded /\ {t} \cap rest = {}
          /\ \A x \in {t} \cup rest : noted[x] = 0
      <4>1. /\ Left \subseteq Recorded /\ t \notin Left /\ t \notin items
            /\ \A u \in Left : noted[u] = 0
        BY <1>5, <2>1
      <4>2. \A x \in items : noted[x] = 0
        BY <1>4, <2>1
      <4> QED
        BY <1>1, <2>1, <4>1, <4>2
    <3> HIDE DEF rest
    <3>3. CauseInv'
      BY <2>1, <3>1, <3>2, CauseStep
    <3> QED
      BY <2>1, <2>2, <3>1, <3>2, <3>3, StopsStep
  <2>3. CASE code \notin SESSION_FAILURES
    <3>1. Records({t}, code, {}, "none") /\ pc' # "exit"
      BY <1>8, <2>1, <2>3 DEF LookupFails, Goes
    <3> QED
      BY <1>2, <2>1, <3>1, CauseStep
  <2> QED
    BY <2>2, <2>3
<1>9. ASSUME NEW u \in Units, Done(u) PROVE CauseInv' /\ EndInv'
  <2> DEFINE I == ItemsOf(u)
  <2>1. /\ pc = "act" /\ pc' = "act" /\ causes' = causes /\ I \subseteq items
        /\ Records({}, SUCCESS, I, "done")
    BY <1>9 DEF Done, ItemsOf
  <2> HIDE DEF I
  <2> QED
    BY <1>1, <1>2, <1>4, <2>1, CauseStep, FS_EmptySet
<1>10. ASSUME NEW u \in Units, NEW code \in Codes, Fails(u, code) PROVE CauseInv' /\ EndInv'
  <2> DEFINE I == ItemsOf(u)  rest == items \ I
  <2>1. pc = "act" /\ I \subseteq items /\ I # {} /\ Causes(I, code)
    BY <1>10 DEF Fails, ItemsOf, Units
  <2>2. CASE code \in SESSION_FAILURES
    <3>1. Records(I, code, rest, "skipped") /\ Stops(code)
      BY <1>10, <2>2 DEF Fails
    <3> HIDE DEF I
    <3>2. /\ I \in SUBSET Recorded /\ rest \in SUBSET Recorded /\ I \cap rest = {}
          /\ IsFiniteSet(I) /\ \A x \in I \cup rest : noted[x] = 0
      BY <1>1, <1>4, <2>1, FS_Subset
    <3> HIDE DEF rest
    <3>3. CauseInv'
      BY <2>1, <3>1, <3>2, CauseStep
    <3> QED
      BY <2>1, <2>2, <3>1, <3>2, <3>3, StopsStep
  <2>3. CASE code \notin SESSION_FAILURES
    <3>1. Records(I, code, {}, "none") /\ pc' # "exit"
      BY <1>10, <2>1, <2>3 DEF Fails, Goes
    <3> HIDE DEF I
    <3>2. I \in SUBSET Recorded /\ IsFiniteSet(I) /\ \A x \in I : noted[x] = 0
      BY <1>1, <1>4, <2>1, FS_Subset
    <3> QED
      BY <1>2, <2>1, <3>1, <3>2, CauseStep
  <2> QED
    BY <2>2, <2>3
<1>11. CASE Decline
  <2>1. /\ pc = "confirm" /\ pc' = "return" /\ causes' = causes
        /\ Records({}, SUCCESS, items, "skipped")
    BY <1>11 DEF Decline, Goes
  <2> QED
    BY <1>1, <1>2, <1>4, <2>1, CauseStep, FS_EmptySet
<1>12. CASE AllResolved \/ Confirm \/ AllActed
  <2>1. pc' # "exit" /\ UNCHANGED records
    BY <1>12 DEF AllResolved, Confirm, AllActed, Goes
  <2> QED
    BY <1>2, <1>3, <2>1
<1>13. CASE Return
  <2>1. pc = "return" /\ exit' = (IF Failed = {} THEN SUCCESS ELSE FailureExitCode(Failed))
        /\ UNCHANGED records
    BY <1>13 DEF Return
  <2>2. ~SessionFailed
    BY <2>1 DEF ExitInv, SessionInv
  <2> QED
    BY <1>3, <2>1, <2>2 DEF EndInv, Failed, FailureExitCode, SessionFailed, records
<1>14. CASE UNCHANGED vars
  BY <1>3, <1>14 DEF vars, records, ExitInv, EndInv, Failed, FailureExitCode, SessionFailed
<1> QED
  BY <1>6, <1>7, <1>8, <1>9, <1>10, <1>11, <1>12, <1>13, <1>14 DEF Next

LEMMA ExitHolds ==
  ASSUME Parameters
  PROVE  ExitInv /\ [Next]_vars => ExitInv'
BY StepHolds, SessionInvStep, CauseInvStep DEF ExitInv

LEMMA ExitBegins ==
  ASSUME Parameters
  PROVE  Init => ExitInv
<1> SUFFICES ASSUME Init PROVE SessionInv /\ CauseInv /\ EndInv
  BY InitHolds DEF ExitInv
<1>1. Failed = {} /\ causes = <<>> /\ pc = "resolve" /\ items = {}
  BY DEF Init, Failed
<1>2. ~SessionFailed
  BY <1>1 DEF SessionFailed
<1> QED
  BY <1>1, <1>2, FS_EmptySet DEF Init, SessionInv, CauseInv, EndInv

\* Of what its causes make, a run's exit code tells as much as the records do.
LEMMA ExitImplies == ExitInv => ExitCodeTold
<1> SUFFICES ASSUME ExitInv, pc = "exit"
             PROVE  /\ Failed = {} => ~SessionFailed /\ exit = SUCCESS
                    /\ SessionFailed => exit \in SESSION_FAILURES
                    /\ Failed # {} /\ ~SessionFailed =>
                         exit = IF \E c \in Codes : \A x \in Failed : cause[x] = c
                                THEN cause[CHOOSE x \in Failed : TRUE] ELSE FAILURE
  BY DEF ExitCodeTold
<1>1. /\ causes \in Seq(Codes) /\ Len(causes) \in Nat /\ Len(causes) = Cardinality(Failed)
      /\ \A i \in 1 .. Len(causes) : causes[i] \in Codes /\ \E x \in Failed : cause[x] = causes[i]
      /\ \A x \in Failed : \E i \in 1 .. Len(causes) : causes[i] = cause[x]
  BY DEF ExitInv, SessionInv, CauseInv
<1>2. Failed = {} => ~SessionFailed
  BY <1>1 DEF SessionFailed
<1>3. SessionFailed => exit \in SESSION_FAILURES
  BY DEF ExitInv, EndInv
<1>4. ~SessionFailed => exit = IF Failed = {} THEN SUCCESS ELSE FailureExitCode(Failed)
  BY DEF ExitInv, EndInv
<1>5. ASSUME Failed # {}, NEW c \in Codes, \A x \in Failed : cause[x] = c
      PROVE  FailureExitCode(Failed) = cause[CHOOSE x \in Failed : TRUE]
  <2>1. \A i \in 1 .. Len(causes) : causes[i] = c
    BY <1>1, <1>5
  <2>2. 1 \in 1 .. Len(causes)
    BY <1>1, <1>5
  <2>3. (CHOOSE x \in Failed : TRUE) \in Failed
    BY <1>5
  <2> QED
    BY <1>1, <1>5, <2>1, <2>2, <2>3 DEF FailureExitCode
<1>6. ASSUME Failed # {}, ~\E c \in Codes : \A x \in Failed : cause[x] = c
      PROVE  FailureExitCode(Failed) = FAILURE
  <2>1. SUFFICES ASSUME \A i, j \in 1 .. Len(causes) : causes[i] = causes[j] PROVE FALSE
    BY DEF FailureExitCode
  <2>2. 1 \in 1 .. Len(causes)
    BY <1>1, <1>6
  <2>3. causes[1] \in Codes /\ \A x \in Failed : cause[x] = causes[1]
    BY <1>1, <2>1, <2>2
  <2> QED
    BY <1>6, <2>3
<1> QED
  BY <1>2, <1>3, <1>4, <1>5, <1>6

\* A run exits 0 only if nothing failed, and otherwise with the failure of its session
\* that stopped it, the one cause of all its failures, or 1.
THEOREM ExitTold ==
  ASSUME Parameters
  PROVE  Spec => []ExitCodeTold
  BY ExitBegins, ExitHolds, ExitImplies, PTL DEF Spec
=============================================================================
