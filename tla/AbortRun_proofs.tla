--------------------------- MODULE AbortRun_proofs ---------------------------
(***************************************************************************)
(* Proofs about AbortRun, for any Tasks, and any units in any number and   *)
(* order, however they overlap.                                            *)
(***************************************************************************)
EXTENDS AbortRun, TLAPS

Under == {"choose", "abort"}           \* places with Tasks to handle
Outcome == [Outcomes -> Nat]

\* Where the run is says what is left of the unit under way: Tasks not handled yet.
PlaceInv ==
  /\ pc = "unit" => tasks = {} /\ unfetched = {}
  /\ pc \in Under => unfetched = {} /\ tasks \cap handled = {}
  /\ cause # 0 => pc = "exit"
  /\ pc = "exit" /\ cause = 0 /\ index > Len(Unit) => tasks = {}
  /\ pc \in Under \cup {"fetch"} =>
       /\ index \in 1 .. Len(Unit)
       /\ IF Unit[index].parent = None
          THEN Unit[index].tasks \subseteq handled \cup tasks \cup unfetched
          ELSE pc \in Under /\ listed[Unit[index].parent] # {}

\* What was attempted is handled, and so is what was left out, which is not attempted.
AttemptsInv == \A t \in Task : attempts[t] = 0 \/ (attempts[t] = 1 /\ t \in handled)
LeftInv == \A t \in Task : LeftOut(t) => t \in handled /\ attempts[t] = 0

\* What is handled is told of.
HandledInv == \A t \in handled : Told(t)

ListedInv == \A p \in Parents : listed[p] \subseteq handled \cup tasks

\* A unit that is dealt with: its Tasks are handled, or its parent is told of, or
\* its parent's Tasks are listed.
Passed(i) ==
  IF Unit[i].parent = None THEN \A t \in Unit[i].tasks : Told(t)
  ELSE Told(Unit[i].parent) \/ listed[Unit[i].parent] # {}
PassedInv == \A i \in 1 .. Len(Unit) : i < index => Passed(i)

\* A failure of the session leaves no unit and no Task listed untold.
StoppedInv ==
  cause # 0 => /\ \A i \in 1 .. Len(Unit) : Passed(i)
               /\ \A p \in Parents : listed[p] \subseteq handled

IInv ==
  /\ TypeOK /\ PlaceInv /\ AttemptsInv /\ LeftInv
  /\ HandledInv /\ ListedInv /\ PassedInv /\ StoppedInv
-----------------------------------------------------------------------------
(* Records. *)

\* A record is added, and none is lost.
Grows(recs, later) ==
  /\ later \in [Recorded -> Outcome]
  /\ \A x \in Recorded, o \in Outcomes : later[x][o] >= recs[x][o]

LEMMA WithIs ==
  ASSUME NEW recs \in [Recorded -> Outcome], NEW xs, NEW o \in Outcomes
  PROVE  /\ With(recs, xs, o) \in [Recorded -> Outcome]
         /\ \A x \in Recorded, q \in Outcomes :
              /\ With(recs, xs, o)[x][q] >= recs[x][q]
              /\ q # o \/ x \notin xs => With(recs, xs, o)[x][q] = recs[x][q]
         /\ \A x \in Recorded : x \in xs => With(recs, xs, o)[x][o] > 0
BY DEF With, Outcome

Tells(recs, x) == \E o \in Outcomes : recs[x][o] > 0

\* What is told of has a record.
LEMMA ToldIs ==
  ASSUME NEW x \in Recorded, TypeOK, TypeOK'
  PROVE  /\ Told(x) <=> Tells(records, x)
         /\ Told(x)' <=> Tells(records', x)
<1>1. \A r \in Outcome :
        (\E o \in Outcomes : r[o] > 0)
          <=> r["aborted"] + r["failed"] + r["unselected"] + r["declined"] + r["nothing"]
                + r["not attempted"] > 0
  <2> TAKE r \in Outcome
  <2> DEFINE a == r["aborted"]     b == r["failed"]   c == r["unselected"]
             d == r["declined"]    e == r["nothing"]  f == r["not attempted"]
  <2>1. a \in Nat /\ b \in Nat /\ c \in Nat /\ d \in Nat /\ e \in Nat /\ f \in Nat
    BY DEF Outcome, Outcomes
  <2>2. (\E o \in Outcomes : r[o] > 0)
          <=> (a > 0 \/ b > 0 \/ c > 0 \/ d > 0 \/ e > 0 \/ f > 0)
    BY DEF Outcomes
  <2> HIDE DEF a, b, c, d, e, f
  <2>3. (a > 0 \/ b > 0 \/ c > 0 \/ d > 0 \/ e > 0 \/ f > 0) <=> a + b + c + d + e + f > 0
    BY <2>1
  <2>4. (\E o \in Outcomes : r[o] > 0) <=> a + b + c + d + e + f > 0
    BY <2>2, <2>3
  <2> QED
    BY <2>4 DEF a, b, c, d, e, f
<1>2. /\ records[x] \in Outcome /\ records'[x] \in Outcome
  BY DEF TypeOK, Outcome
<1>3. Told(x) <=> Tells(records, x)
  BY <1>1, <1>2 DEF Told, Recs, Times, Tells
<1>4. Told(x)' <=> Tells(records', x)
  BY <1>1, <1>2 DEF Told, Recs, Times, Tells
<1> QED
  BY <1>3, <1>4

\* What a parent or the Tasks of a unit are, and what is recorded of them.
LEMMA Given ==
  ASSUME Parameters, NEW i \in 1 .. Len(Unit)
  PROVE  /\ Unit[i].tasks \subseteq Task
         /\ Unit[i].parent = None \/ Unit[i].parent \in Parents
         /\ Entities(i) \subseteq Recorded
BY DEF Parameters, Parents, Entities, Recorded

LEMMA InitHolds ==
  ASSUME Parameters
  PROVE  Init => IInv
<1> SUFFICES ASSUME Init PROVE IInv
  OBVIOUS
<1>1. TypeOK
  BY DEF Init, TypeOK, Parameters
<1>2. \A t \in Task : ~LeftOut(t)
  <2> TAKE t \in Task
  <2>1. records[t] = [o \in Outcomes |-> 0]
    BY DEF Init, Recorded
  <2>2. records[t]["unselected"] = 0 /\ records[t]["declined"] = 0
    BY <2>1 DEF Outcomes
  <2> QED
    BY <2>2 DEF LeftOut, Times
<1> QED
  BY <1>1, <1>2 DEF Init, IInv, PlaceInv, AttemptsInv, LeftInv, HandledInv, ListedInv, PassedInv, StoppedInv, Under
-----------------------------------------------------------------------------
(* Each part of the invariant, by action. *)

\* Everything but the records is of its type.
Control ==
  /\ yes \in BOOLEAN
  /\ pc \in {"unit", "fetch", "choose", "abort", "exit"}
  /\ index \in 1 .. Len(Unit) + 1
  /\ tasks \subseteq Task /\ unfetched \subseteq Task
  /\ handled \subseteq Task
  /\ cause \in {0} \cup SESSION_FAILURES
  /\ attempts \in [Task -> Nat]
  /\ listed \in [Parents -> SUBSET Task]
  /\ running \subseteq Task
  /\ pc \in {"choose", "abort"} => tasks # {} /\ (pc = "choose" => tasks \cap handled = {})

LEMMA ControlStep ==
  ASSUME Parameters
  PROVE  Control /\ PlaceInv /\ Next => Control'
<1> SUFFICES ASSUME Control, PlaceInv, Next PROVE Control'
  OBVIOUS
<1>1. Len(Unit) \in Nat /\ \A i \in 1 .. Len(Unit) : Unit[i].tasks \subseteq Task
  BY DEF Parameters
<1>4. CASE FetchIDs
  BY <1>1, <1>4 DEF FetchIDs, Control
<1>5. CASE Fetched
  BY <1>1, <1>5 DEF Fetched, Takes, NextUnit, Control, PlaceInv, Under
<1>6. CASE NoAnswer \/ Done
  BY <1>6 DEF NoAnswer, Done, Control
<1>7. ASSUME NEW p \in Parents, List(p) PROVE Control'
  BY <1>1, <1>7 DEF List, Takes, NextUnit, Records, Control
<1>8. ASSUME NEW p \in Parents, NEW code \in Codes, ListFails(p, code) PROVE Control'
  <2>1. CASE code \in SESSION_FAILURES
    BY <1>8, <2>1 DEF ListFails, Stops, Control
  <2>2. CASE code \notin SESSION_FAILURES
    BY <1>1, <1>8, <2>2 DEF ListFails, NextUnit, Control
  <2> QED
    BY <2>1, <2>2
<1>9. ASSUME NEW selected \in SUBSET tasks, NEW confirm \in BOOLEAN, Choose(selected, confirm)
      PROVE  Control'
  BY <1>1, <1>9 DEF Choose, NextUnit, Control, PlaceInv, Under
<1>10. ASSUME NEW t \in Task, Fetch(t) \/ Finishes(t) PROVE Control'
  BY <1>10 DEF Fetch, Finishes, state, Control
<1>11. ASSUME NEW t \in Task, Abort(t) PROVE Control'
  BY <1>1, <1>11 DEF Abort, Attempt, Rest, NextUnit, Control, PlaceInv, Under
<1>12. ASSUME NEW t \in Task, NEW code \in Codes, FetchFails(t, code) PROVE Control'
  BY <1>12 DEF FetchFails, Stops, Control
<1>13. ASSUME NEW t \in Task, NEW code \in Codes, AbortFails(t, code) PROVE Control'
  <2>1. CASE code \in SESSION_FAILURES
    <3>1. /\ pc' = "exit" /\ cause' = code /\ handled' = handled \cup tasks
          /\ attempts' = [attempts EXCEPT ![t] = @ + 1]
          /\ UNCHANGED <<yes, index, tasks, unfetched, listed, running>>
      BY <1>13, <2>1 DEF AbortFails, Attempt, Stops
    <3> QED
      BY <2>1, <3>1 DEF Control
  <2>2. CASE code \notin SESSION_FAILURES
    BY <1>1, <1>13, <2>2 DEF AbortFails, Attempt, Rest, NextUnit, Control, PlaceInv, Under
  <2> QED
    BY <2>1, <2>2
<1> QED
  BY <1>4, <1>5, <1>6, <1>7, <1>8, <1>9, <1>10, <1>11, <1>12, <1>13 DEF Next

\* No record is lost.
LEMMA RecordsStep ==
  ASSUME Parameters
  PROVE  TypeOK /\ Next => Grows(records, records')
<1> SUFFICES ASSUME TypeOK, Next PROVE Grows(records, records')
  OBVIOUS
<1> DEFINE Type == [Recorded -> Outcome]
<1>1. records \in Type
  BY DEF TypeOK, Outcome
<1>2. \A xs : \A recs \in Type : \A o \in Outcomes : Grows(recs, With(recs, xs, o))
  BY WithIs DEF Grows
<1>3. ASSUME NEW r1 \in Type, NEW r2, NEW r3, Grows(r1, r2), Grows(r2, r3)
      PROVE  Grows(r1, r3)
  <2> SUFFICES ASSUME NEW x \in Recorded, NEW o \in Outcomes PROVE r3[x][o] >= r1[x][o]
    BY <1>3 DEF Grows
  <2>1. r1[x][o] \in Nat /\ r2[x][o] \in Nat /\ r3[x][o] \in Nat
    BY <1>3 DEF Grows, Outcome
  <2> QED
    BY <1>3, <2>1 DEF Grows
<1>4. Grows(records, records)
  <2>1. \A x \in Recorded, o \in Outcomes : records[x][o] \in Nat
    BY <1>1 DEF Outcome
  <2> QED
    BY <1>1, <2>1 DEF Grows
<1>5. \A xs, ys : \A o, q \in Outcomes : Grows(records, With(With(records, xs, o), ys, q))
  <2> SUFFICES ASSUME NEW xs, NEW ys, NEW o \in Outcomes, NEW q \in Outcomes
               PROVE  Grows(records, With(With(records, xs, o), ys, q))
    OBVIOUS
  <2>1. Grows(records, With(records, xs, o)) /\ With(records, xs, o) \in Type
    BY <1>1, <1>2 DEF Grows
  <2>2. Grows(With(records, xs, o), With(With(records, xs, o), ys, q))
    BY <1>2, <2>1
  <2> QED
    BY <1>1, <1>3, <2>1, <2>2
<1>6. \A xs, ys, zs : \A o, q, u \in Outcomes :
        Grows(records, With(With(With(records, xs, o), ys, q), zs, u))
  <2> SUFFICES ASSUME NEW xs, NEW ys, NEW zs,
                      NEW o \in Outcomes, NEW q \in Outcomes, NEW u \in Outcomes
               PROVE  Grows(records, With(With(With(records, xs, o), ys, q), zs, u))
    OBVIOUS
  <2>1. /\ Grows(records, With(With(records, xs, o), ys, q))
        /\ With(With(records, xs, o), ys, q) \in Type
    BY <1>5 DEF Grows
  <2>2. Grows(With(With(records, xs, o), ys, q), With(With(With(records, xs, o), ys, q), zs, u))
    BY <1>2, <2>1
  <2> QED
    BY <1>1, <1>3, <2>1, <2>2
<1>7. /\ "aborted" \in Outcomes /\ "failed" \in Outcomes /\ "unselected" \in Outcomes
      /\ "declined" \in Outcomes /\ "nothing" \in Outcomes /\ "not attempted" \in Outcomes
  BY DEF Outcomes
<1> HIDE DEF Type
<1>8. CASE UNCHANGED records
  BY <1>4, <1>8
<1>9. ASSUME NEW p \in Parents, List(p) PROVE Grows(records, records')
  BY <1>1, <1>2, <1>4, <1>7, <1>9 DEF List, Records
<1>10. ASSUME NEW p \in Parents, NEW code \in Codes, ListFails(p, code)
       PROVE  Grows(records, records')
  BY <1>1, <1>2, <1>5, <1>7, <1>10 DEF ListFails, Stops
<1>11. ASSUME NEW selected \in SUBSET tasks, NEW confirm \in BOOLEAN, Choose(selected, confirm)
       PROVE  Grows(records, records')
  BY <1>1, <1>2, <1>5, <1>7, <1>11 DEF Choose
<1>12. ASSUME NEW t \in Task, Abort(t) PROVE Grows(records, records')
  BY <1>1, <1>2, <1>7, <1>12 DEF Abort, Records
<1>13. ASSUME NEW t \in Task, NEW code \in Codes, FetchFails(t, code)
       PROVE  Grows(records, records')
  <2>1. \/ records' = With(records, {t}, "failed")
        \/ records' = With(With(With(records, {t}, "failed"), tasks \cup (unfetched \ {t}), "not attempted"),
                           UNION {Entities(i) : i \in index + 1 .. Len(Unit)}, "not attempted")
    BY <1>13 DEF FetchFails, Stops
  <2>2. Grows(records, With(records, {t}, "failed"))
    BY <1>1, <1>2, <1>7
  <2>3. \A ys, zs :
          Grows(records, With(With(With(records, {t}, "failed"), ys, "not attempted"),
                              zs, "not attempted"))
    BY <1>6, <1>7
  <2> QED
    BY <2>1, <2>2, <2>3, Zenon
<1>14. ASSUME NEW t \in Task, NEW code \in Codes, AbortFails(t, code)
       PROVE  Grows(records, records')
  <2>1. \/ records' = With(records, {t}, "failed")
        \/ records' = With(With(With(records, {t}, "failed"), tasks \ {t}, "not attempted"),
                           UNION {Entities(i) : i \in index + 1 .. Len(Unit)}, "not attempted")
    BY <1>14 DEF AbortFails, Stops
  <2>2. Grows(records, With(records, {t}, "failed"))
    BY <1>1, <1>2, <1>7
  <2>3. \A ys, zs :
          Grows(records, With(With(With(records, {t}, "failed"), ys, "not attempted"),
                              zs, "not attempted"))
    BY <1>6, <1>7
  <2> QED
    BY <2>1, <2>2, <2>3, Zenon
<1> QED
  BY <1>8, <1>9, <1>10, <1>11, <1>12, <1>13, <1>14
  DEF Next, FetchIDs, Fetched, NoAnswer, Done, Fetch, Finishes, state

LEMMA TypeStep ==
  ASSUME Parameters
  PROVE  TypeOK /\ PlaceInv /\ Next => TypeOK'
<1> SUFFICES ASSUME TypeOK, PlaceInv, Next PROVE TypeOK'
  OBVIOUS
<1>1. Control' /\ Grows(records, records')
  BY ControlStep, RecordsStep DEF TypeOK, Control
<1> QED
  BY <1>1 DEF TypeOK, Control, Grows, Outcome

LEMMA PlaceStep ==
  ASSUME Parameters
  PROVE  TypeOK /\ PlaceInv /\ Next => PlaceInv'
<1> SUFFICES ASSUME TypeOK, PlaceInv, Next PROVE PlaceInv'
  OBVIOUS
<1> USE DEF Under, PlaceInv
<1>1. /\ index \in 1 .. Len(Unit) + 1 /\ Len(Unit) \in Nat
      /\ listed \in [Parents -> SUBSET Task]
      /\ \A code \in SESSION_FAILURES : code # 0
  BY DEF TypeOK, Parameters, SESSION_FAILURES
<1>2. CASE FetchIDs
  BY <1>1, <1>2 DEF FetchIDs
<1>3. CASE Fetched
  BY <1>1, <1>3 DEF Fetched, Takes, NextUnit
<1>4. CASE NoAnswer \/ Done
  BY <1>4 DEF NoAnswer, Done
<1>5. ASSUME NEW p \in Parents, List(p) PROVE PlaceInv'
  BY <1>1, <1>5 DEF List, Takes, NextUnit, Records
<1>6. ASSUME NEW p \in Parents, NEW code \in Codes, ListFails(p, code) PROVE PlaceInv'
  <2>1. CASE code \in SESSION_FAILURES
    BY <1>6, <2>1 DEF ListFails, Stops
  <2>2. CASE code \notin SESSION_FAILURES
    BY <1>6, <2>2 DEF ListFails, NextUnit
  <2> QED
    BY <2>1, <2>2
<1>7. ASSUME NEW selected \in SUBSET tasks, NEW confirm \in BOOLEAN, Choose(selected, confirm)
      PROVE  PlaceInv'
  BY <1>7 DEF Choose, NextUnit
<1>8. ASSUME NEW t \in Task, Fetch(t) PROVE PlaceInv'
  BY <1>8 DEF Fetch
<1>9. ASSUME NEW t \in Task, Finishes(t) PROVE PlaceInv'
  BY <1>9 DEF Finishes, state
<1>10. ASSUME NEW t \in Task, Abort(t) PROVE PlaceInv'
  BY <1>10 DEF Abort, Attempt, Rest, NextUnit
<1>11. ASSUME NEW t \in Task, NEW code \in Codes, FetchFails(t, code) PROVE PlaceInv'
  <2>1. CASE code \in SESSION_FAILURES
    <3>1. pc' = "exit" /\ cause' # 0
      BY <1>1, <1>11, <2>1 DEF FetchFails, Stops
    <3> QED
      BY <3>1
  <2>2. CASE code \notin SESSION_FAILURES
    BY <1>11, <2>2 DEF FetchFails
  <2> QED
    BY <2>1, <2>2
<1>12. ASSUME NEW t \in Task, NEW code \in Codes, AbortFails(t, code) PROVE PlaceInv'
  <2>1. CASE code \in SESSION_FAILURES
    <3>1. pc' = "exit" /\ cause' # 0
      BY <1>1, <1>12, <2>1 DEF AbortFails, Stops
    <3> QED
      BY <3>1
  <2>2. CASE code \notin SESSION_FAILURES
    BY <1>12, <2>2 DEF AbortFails, Attempt, Rest, NextUnit
  <2> QED
    BY <2>1, <2>2
<1> QED
  BY <1>2, <1>3, <1>4, <1>5, <1>6, <1>7, <1>8, <1>9, <1>10, <1>11, <1>12 DEF Next

\* What is told of stays so.
LEMMA ToldStays ==
  ASSUME TypeOK, TypeOK', Grows(records, records'), NEW x \in Recorded, Told(x)
  PROVE  Told(x)'
<1>1. PICK o \in Outcomes : records[x][o] > 0
  BY ToldIs DEF Tells
<1>2. records[x][o] \in Nat /\ records'[x][o] \in Nat
  BY DEF TypeOK
<1>3. records'[x][o] > 0
  BY <1>1, <1>2 DEF Grows
<1> QED
  BY <1>3, ToldIs DEF Tells

\* Only a choice leaves out a Task.
SameLeft(t, recs, later) ==
  later[t]["unselected"] = recs[t]["unselected"] /\ later[t]["declined"] = recs[t]["declined"]

LEMMA LeftOutStays ==
  ASSUME Parameters, TypeOK, Next,
         ~\E selected \in SUBSET tasks, confirm \in BOOLEAN : Choose(selected, confirm),
         NEW t \in Task
  PROVE  LeftOut(t)' <=> LeftOut(t)
<1> DEFINE Type == [Recorded -> Outcome]
<1>1. t \in Recorded /\ records \in Type
  BY DEF Recorded, TypeOK, Outcome
<1>2. \A xs : \A recs \in Type : \A o \in {"aborted", "failed", "nothing", "not attempted"} :
        With(recs, xs, o) \in Type /\ SameLeft(t, recs, With(recs, xs, o))
  <2> SUFFICES ASSUME NEW recs \in Type, NEW xs,
                      NEW o \in {"aborted", "failed", "nothing", "not attempted"}
               PROVE  With(recs, xs, o) \in Type /\ SameLeft(t, recs, With(recs, xs, o))
    OBVIOUS
  <2>1. o \in Outcomes /\ "unselected" \in Outcomes /\ "declined" \in Outcomes
    BY DEF Outcomes
  <2>2. With(recs, xs, o) \in Type
    BY <2>1, WithIs
  <2>3. \A q \in Outcomes : q # o => With(recs, xs, o)[t][q] = recs[t][q]
    <3> TAKE q \in Outcomes
    <3> HAVE q # o
    <3>1. recs[t] \in Outcome
      BY <1>1
    <3> QED
      BY <1>1, <2>1, <3>1 DEF With, Outcome
  <2> QED
    BY <2>1, <2>2, <2>3 DEF SameLeft
<1>3. \A r1, r2, r3 : SameLeft(t, r1, r2) /\ SameLeft(t, r2, r3) => SameLeft(t, r1, r3)
  BY DEF SameLeft
<1> HIDE DEF Type
<1>4. SameLeft(t, records, records')
  <2>1. CASE UNCHANGED records
    BY <2>1 DEF SameLeft
  <2>2. ASSUME NEW p \in Parents, List(p) PROVE SameLeft(t, records, records')
    <3>1. records' = records \/ records' = With(records, {p}, "nothing")
      BY <2>2 DEF List, Records
    <3> QED
      BY <1>1, <1>2, <2>1, <3>1
  <2>3. ASSUME NEW p \in Parents, NEW code \in Codes, ListFails(p, code)
        PROVE  SameLeft(t, records, records')
    <3>1. With(records, {p}, "failed") \in Type /\ SameLeft(t, records, With(records, {p}, "failed"))
      BY <1>1, <1>2
    <3>2. \A ys : SameLeft(t, records, With(With(records, {p}, "failed"), ys, "not attempted"))
      BY <1>2, <1>3, <3>1
    <3> QED
      BY <2>3, <3>1, <3>2 DEF ListFails, Stops
  <2>4. ASSUME NEW u \in Task, Abort(u) PROVE SameLeft(t, records, records')
    BY <1>1, <1>2, <2>4 DEF Abort, Records
  <2>5. ASSUME NEW u \in Task, NEW code \in Codes, FetchFails(u, code)
        PROVE  SameLeft(t, records, records')
    <3>1. With(records, {u}, "failed") \in Type /\ SameLeft(t, records, With(records, {u}, "failed"))
      BY <1>1, <1>2
    <3>2. \A ys : /\ With(With(records, {u}, "failed"), ys, "not attempted") \in Type
                  /\ SameLeft(t, records, With(With(records, {u}, "failed"), ys, "not attempted"))
      BY <1>2, <1>3, <3>1
    <3>3. \A ys, zs : SameLeft(t, records, With(With(With(records, {u}, "failed"), ys, "not attempted"),
                                         zs, "not attempted"))
      <4> TAKE ys, zs
      <4>1. SameLeft(t, With(With(records, {u}, "failed"), ys, "not attempted"),
                     With(With(With(records, {u}, "failed"), ys, "not attempted"),
                          zs, "not attempted"))
        BY <1>2, <3>2
      <4> QED
        BY <3>2, <4>1 DEF SameLeft
    <3> QED
      BY <2>5, <3>1, <3>3 DEF FetchFails, Stops
  <2>6. ASSUME NEW u \in Task, NEW code \in Codes, AbortFails(u, code)
        PROVE  SameLeft(t, records, records')
    <3>1. With(records, {u}, "failed") \in Type /\ SameLeft(t, records, With(records, {u}, "failed"))
      BY <1>1, <1>2
    <3>2. \A ys : /\ With(With(records, {u}, "failed"), ys, "not attempted") \in Type
                  /\ SameLeft(t, records, With(With(records, {u}, "failed"), ys, "not attempted"))
      BY <1>2, <1>3, <3>1
    <3>3. \A ys, zs : SameLeft(t, records, With(With(With(records, {u}, "failed"), ys, "not attempted"),
                                         zs, "not attempted"))
      <4> TAKE ys, zs
      <4>1. SameLeft(t, With(With(records, {u}, "failed"), ys, "not attempted"),
                     With(With(With(records, {u}, "failed"), ys, "not attempted"),
                          zs, "not attempted"))
        BY <1>2, <3>2
      <4> QED
        BY <3>2, <4>1 DEF SameLeft
    <3> QED
      BY <2>6, <3>1, <3>3 DEF AbortFails, Stops
  <2> QED
    BY <2>1, <2>2, <2>3, <2>4, <2>5, <2>6
    DEF Next, FetchIDs, Fetched, NoAnswer, Done, Fetch, Finishes, state
<1> QED
  BY <1>4 DEF LeftOut, Times, SameLeft

\* What is attempted was not handled before, and is after.
LEMMA AttemptsStep ==
  TypeOK /\ PlaceInv /\ AttemptsInv /\ Next => AttemptsInv'
<1> SUFFICES ASSUME TypeOK, PlaceInv, AttemptsInv, Next PROVE AttemptsInv'
  OBVIOUS
<1>1. CASE \E t \in Task : Abort(t) \/ \E code \in Codes : AbortFails(t, code)
  <2>1. PICK t \in Task : Abort(t) \/ \E code \in Codes : AbortFails(t, code)
    BY <1>1
  <2>2. pc = "abort" /\ t \in tasks /\ attempts' = [attempts EXCEPT ![t] = @ + 1]
    BY <2>1 DEF Abort, AbortFails, Attempt
  <2>3. handled \cup {t} \subseteq handled'
    BY <2>1, <2>2 DEF Abort, AbortFails
  <2>4. t \notin handled
    BY <2>2 DEF PlaceInv, Under
  <2>5. attempts[t] = 0
    BY <2>4 DEF AttemptsInv
  <2> QED
    BY <2>2, <2>3, <2>5 DEF AttemptsInv, TypeOK
<1>2. CASE ~\E t \in Task : Abort(t) \/ \E code \in Codes : AbortFails(t, code)
  <2>1. attempts' = attempts /\ handled \subseteq handled'
    BY <1>2
    DEF Next, FetchIDs, Fetched, NoAnswer, Done, List, ListFails, Choose, Fetch, Finishes,
        FetchFails, state
  <2> QED
    BY <2>1 DEF AttemptsInv
<1> QED
  BY <1>1, <1>2

\* What is left out is handled, and was not attempted.
LEMMA LeftStep ==
  ASSUME Parameters
  PROVE  TypeOK /\ PlaceInv /\ AttemptsInv /\ LeftInv /\ Next => LeftInv'
<1> SUFFICES ASSUME TypeOK, PlaceInv, AttemptsInv, LeftInv, Next PROVE LeftInv'
  OBVIOUS
<1>1. CASE \E selected \in SUBSET tasks, confirm \in BOOLEAN : Choose(selected, confirm)
  <2>1. PICK selected \in SUBSET tasks, confirm \in BOOLEAN : Choose(selected, confirm)
    BY <1>1
  <2>2. attempts' = attempts /\ handled \subseteq handled'
    BY <2>1 DEF Choose
  <2>3. \A t \in tasks : attempts[t] = 0
    BY <2>1 DEF Choose, PlaceInv, Under, AttemptsInv, TypeOK
  <2>4. ASSUME NEW t \in Task, t \notin handled' PROVE LeftOut(t)' <=> LeftOut(t)
    <3>1. t \notin (IF confirm THEN tasks \ selected ELSE tasks)
      BY <2>1, <2>4 DEF Choose
    <3>2. t \in Recorded
      BY DEF Recorded
    <3>3. records'[t] = records[t]
      BY <2>1, <3>1, <3>2 DEF Choose, With
    <3> QED
      BY <3>3 DEF LeftOut, Times
  <2>5. ASSUME NEW t \in Task \ tasks PROVE LeftOut(t)' <=> LeftOut(t)
    <3>1. t \in Recorded
      BY DEF Recorded
    <3>2. records'[t] = records[t]
      BY <2>1, <3>1 DEF Choose, With
    <3> QED
      BY <3>2 DEF LeftOut, Times
  <2> QED
    BY <2>2, <2>3, <2>4, <2>5 DEF LeftInv
<1>2. CASE ~\E selected \in SUBSET tasks, confirm \in BOOLEAN : Choose(selected, confirm)
  <2>1. \A t \in Task : LeftOut(t)' <=> LeftOut(t)
    BY <1>2, LeftOutStays
  <2>2. handled \subseteq handled' /\ \A t \in handled \cap Task : attempts'[t] = attempts[t]
    <3>1. CASE \E t \in Task : Abort(t) \/ \E code \in Codes : AbortFails(t, code)
      <4>1. PICK t \in Task : Abort(t) \/ \E code \in Codes : AbortFails(t, code)
        BY <3>1
      <4>2. pc = "abort" /\ t \in tasks /\ attempts' = [attempts EXCEPT ![t] = @ + 1]
        BY <4>1 DEF Abort, AbortFails, Attempt
      <4>3. handled \subseteq handled'
        BY <4>1 DEF Abort, AbortFails
      <4> QED
        BY <4>2, <4>3 DEF PlaceInv, Under, TypeOK
    <3>2. CASE ~\E t \in Task : Abort(t) \/ \E code \in Codes : AbortFails(t, code)
      BY <3>2
      DEF Next, FetchIDs, Fetched, NoAnswer, Done, List, ListFails, Choose, Fetch, Finishes,
          FetchFails, state
    <3> QED
      BY <3>1, <3>2
  <2> QED
    BY <2>1, <2>2 DEF LeftInv
<1> QED
  BY <1>1, <1>2

\* A Task is told of by the step that handles it.
LEMMA HandledStep ==
  ASSUME Parameters
  PROVE  TypeOK /\ PlaceInv /\ HandledInv /\ Next => HandledInv'
<1> SUFFICES ASSUME TypeOK, PlaceInv, HandledInv, Next,
                    NEW t \in handled'
             PROVE  Told(t)'
  BY DEF HandledInv
<1>1. TypeOK' /\ Grows(records, records')
  BY TypeStep, RecordsStep
<1>2. t \in Recorded
  BY <1>1 DEF TypeOK, Recorded
<1>3. CASE t \in handled
  BY <1>1, <1>2, <1>3, ToldStays DEF HandledInv
<1>4. \A o \in Outcomes : records'[t][o] > 0 => Told(t)'
  BY <1>1, <1>2, ToldIs DEF Tells
<1>5. \A xs : \A recs \in [Recorded -> Outcome] : \A o \in Outcomes :
        /\ With(recs, xs, o) \in [Recorded -> Outcome]
        /\ t \in xs => With(recs, xs, o)[t][o] > 0
        /\ \A q \in Outcomes : recs[t][q] > 0 => With(recs, xs, o)[t][q] > 0
  <2> SUFFICES ASSUME NEW recs \in [Recorded -> Outcome], NEW xs, NEW o \in Outcomes
               PROVE  /\ With(recs, xs, o) \in [Recorded -> Outcome]
                      /\ t \in xs => With(recs, xs, o)[t][o] > 0
                      /\ \A q \in Outcomes : recs[t][q] > 0 => With(recs, xs, o)[t][q] > 0
    OBVIOUS
  <2>1. /\ With(recs, xs, o) \in [Recorded -> Outcome]
        /\ t \in xs => With(recs, xs, o)[t][o] > 0
    BY <1>2, WithIs
  <2>2. ASSUME NEW q \in Outcomes, recs[t][q] > 0 PROVE With(recs, xs, o)[t][q] > 0
    <3>1. With(recs, xs, o)[t][q] >= recs[t][q]
      BY <1>2, WithIs
    <3>2. recs[t][q] \in Nat /\ With(recs, xs, o)[t][q] \in Nat
      BY <1>2, <2>1 DEF Outcome
    <3> QED
      BY <2>2, <3>1, <3>2
  <2> QED
    BY <2>1, <2>2
<1>6. records \in [Recorded -> Outcome]
  BY DEF TypeOK, Outcome
<1>7. ASSUME NEW u \in Task, NEW left, NEW rest,
             records' = With(With(With(records, {u}, "failed"), left, "not attempted"),
                             rest, "not attempted"),
             t = u \/ t \in left
      PROVE  Told(t)'
  <2> DEFINE r1 == With(records, {u}, "failed")
             r2 == With(r1, left, "not attempted")
  <2>1. "failed" \in Outcomes /\ "not attempted" \in Outcomes
    BY DEF Outcomes
  <2>2. r1 \in [Recorded -> Outcome] /\ (t = u => r1[t]["failed"] > 0)
    BY <1>5, <1>6, <2>1
  <2> HIDE DEF r1
  <2>3. /\ r2 \in [Recorded -> Outcome]
        /\ t = u => r2[t]["failed"] > 0
        /\ t \in left => r2[t]["not attempted"] > 0
    BY <1>5, <2>1, <2>2
  <2>4. records' = With(r2, rest, "not attempted")
    BY <1>7 DEF r1
  <2> HIDE DEF r2
  <2>5. records'[t]["failed"] > 0 \/ records'[t]["not attempted"] > 0
    BY <1>5, <1>7, <2>1, <2>3, <2>4
  <2> QED
    BY <1>4, <2>1, <2>5
<1>8. ASSUME NEW u \in Task, t = u, NEW o \in {"aborted", "failed"}, records' = With(records, {u}, o)
      PROVE  Told(t)'
  <2>1. o \in Outcomes
    BY DEF Outcomes
  <2> QED
    BY <1>4, <1>5, <1>6, <1>8, <2>1
<1>9. CASE t \notin handled
  <2>1. CASE \E u \in Task : Abort(u)
    BY <1>8, <1>9, <2>1 DEF Abort, Records
  <2>2. ASSUME NEW u \in Task, NEW code \in Codes, AbortFails(u, code) PROVE Told(t)'
    <3>1. CASE code \in SESSION_FAILURES
      <4>1. records' = With(With(With(records, {u}, "failed"), tasks \ {u}, "not attempted"),
                            UNION {Entities(i) : i \in index + 1 .. Len(Unit)}, "not attempted")
        BY <2>2, <3>1 DEF AbortFails, Stops
      <4>2. t = u \/ t \in tasks \ {u}
        BY <1>9, <2>2, <3>1 DEF AbortFails
      <4> QED
        BY <1>7, <4>1, <4>2
    <3>2. CASE code \notin SESSION_FAILURES
      <4>1. records' = With(records, {u}, "failed") /\ handled' = handled \cup {u}
        BY <2>2, <3>2 DEF AbortFails
      <4> QED
        BY <1>8, <1>9, <4>1
    <3> QED
      BY <3>1, <3>2
  <2>3. ASSUME NEW u \in Task, NEW code \in Codes, FetchFails(u, code) PROVE Told(t)'
    <3>1. CASE code \in SESSION_FAILURES
      <4>1. records' = With(With(With(records, {u}, "failed"), tasks \cup (unfetched \ {u}),
                                 "not attempted"),
                            UNION {Entities(i) : i \in index + 1 .. Len(Unit)}, "not attempted")
        BY <2>3, <3>1 DEF FetchFails, Stops
      <4>2. t = u \/ t \in tasks \cup (unfetched \ {u})
        BY <1>9, <2>3, <3>1 DEF FetchFails
      <4> QED
        BY <1>7, <4>1, <4>2
    <3>2. CASE code \notin SESSION_FAILURES
      <4>1. records' = With(records, {u}, "failed") /\ handled' = handled \cup {u}
        BY <2>3, <3>2 DEF FetchFails
      <4> QED
        BY <1>8, <1>9, <4>1
    <3> QED
      BY <3>1, <3>2
  <2>4. ASSUME NEW selected \in SUBSET tasks, NEW confirm \in BOOLEAN, Choose(selected, confirm)
        PROVE  Told(t)'
    <3> DEFINE recs == With(records, tasks \ selected, "unselected")
    <3>1. "unselected" \in Outcomes /\ "declined" \in Outcomes
      BY DEF Outcomes
    <3>2. /\ recs \in [Recorded -> Outcome]
          /\ t \in tasks \ selected => recs[t]["unselected"] > 0
      BY <1>5, <1>6, <3>1
    <3>3. IF confirm THEN records' = recs /\ t \in tasks \ selected
          ELSE records' = With(recs, selected, "declined") /\ t \in tasks
      BY <1>9, <2>4 DEF Choose
    <3> HIDE DEF recs
    <3>4. \/ records'[t]["unselected"] > 0
          \/ records'[t]["declined"] > 0
      BY <1>5, <3>1, <3>2, <3>3
    <3> QED
      BY <1>4, <3>1, <3>4
  <2>5. CASE UNCHANGED handled
    BY <1>9, <2>5
  <2> QED
    BY <2>1, <2>2, <2>3, <2>4, <2>5
    DEF Next, FetchIDs, Fetched, NoAnswer, Done, List, ListFails, Fetch, Finishes, state
<1> QED
  BY <1>3, <1>9

\* What is listed is handled, or is still to be.
LEMMA ListedStep ==
  ASSUME Parameters
  PROVE  TypeOK /\ PlaceInv /\ ListedInv /\ Next => ListedInv'
<1> SUFFICES ASSUME TypeOK, PlaceInv, ListedInv, Next PROVE ListedInv'
  OBVIOUS
<1> USE DEF ListedInv
<1>1. ASSUME listed' = listed, handled \cup tasks \subseteq handled' \cup tasks' PROVE ListedInv'
  BY <1>1
<1>2. CASE FetchIDs \/ NoAnswer \/ Done
  BY <1>1, <1>2 DEF FetchIDs, NoAnswer, Done
<1>3. CASE Fetched
  BY <1>1, <1>3 DEF Fetched, Takes, NextUnit
<1>4. ASSUME NEW p \in Parents, List(p) PROVE ListedInv'
  <2>1. tasks = {} /\ handled' = handled
    BY <1>4 DEF List, PlaceInv
  <2>2. Unit[index].tasks \cap running \subseteq handled' \cup tasks'
    BY <1>4 DEF List, Takes, NextUnit, Records
  <2> QED
    BY <1>4, <2>1, <2>2 DEF List, TypeOK
<1>5. ASSUME NEW p \in Parents, NEW code \in Codes, ListFails(p, code) PROVE ListedInv'
  BY <1>1, <1>5 DEF ListFails, PlaceInv
<1>6. ASSUME NEW selected \in SUBSET tasks, NEW confirm \in BOOLEAN, Choose(selected, confirm)
      PROVE  ListedInv'
  BY <1>1, <1>6 DEF Choose, NextUnit
<1>7. ASSUME NEW t \in Task, Fetch(t) \/ Finishes(t) PROVE ListedInv'
  BY <1>1, <1>7 DEF Fetch, Finishes, state
<1>8. ASSUME NEW t \in Task, Abort(t) PROVE ListedInv'
  BY <1>1, <1>8 DEF Abort, Attempt, Rest, NextUnit
<1>9. ASSUME NEW t \in Task, NEW code \in Codes, FetchFails(t, code) PROVE ListedInv'
  BY <1>1, <1>9 DEF FetchFails, Stops
<1>10. ASSUME NEW t \in Task, NEW code \in Codes, AbortFails(t, code) PROVE ListedInv'
  <2>1. CASE code \in SESSION_FAILURES
    BY <1>1, <1>10, <2>1 DEF AbortFails, Stops
  <2>2. CASE code \notin SESSION_FAILURES
    BY <1>1, <1>10, <2>2 DEF AbortFails, Attempt, Rest, NextUnit
  <2> QED
    BY <2>1, <2>2
<1> QED
  BY <1>2, <1>3, <1>4, <1>5, <1>6, <1>7, <1>8, <1>9, <1>10 DEF Next

\* What is recorded of a set of entities is told of each.
LEMMA RecordTells ==
  ASSUME TypeOK, TypeOK', NEW recs \in [Recorded -> Outcome], NEW xs, NEW o \in Outcomes,
         records' = With(recs, xs, o), NEW x \in Recorded, x \in xs
  PROVE  Told(x)'
<1>1. records'[x][o] > 0
  BY WithIs
<1> QED
  BY <1>1, ToldIs DEF Tells

\* A unit is left when its Tasks are handled, its parent told of, or its Tasks listed.
LEMMA Leaves ==
  ASSUME Parameters, TypeOK, PlaceInv, Next, NEW i, i = index, index' # index
  PROVE  /\ index' = i + 1 /\ i \in 1 .. Len(Unit)
         /\ \/ Unit[i].tasks \subseteq handled' /\ Unit[i].parent = None
            \/ Unit[i].parent # None /\ listed'[Unit[i].parent] # {}
            \/ Unit[i].parent # None /\ Told(Unit[i].parent)'
<1> DEFINE Goal == /\ index' = i + 1 /\ i \in 1 .. Len(Unit)
                   /\ \/ Unit[i].tasks \subseteq handled' /\ Unit[i].parent = None
                      \/ Unit[i].parent # None /\ listed'[Unit[i].parent] # {}
                      \/ Unit[i].parent # None /\ Told(Unit[i].parent)'
<1>1. TypeOK' /\ index \in Nat /\ index \in 1 .. Len(Unit) + 1 /\ Len(Unit) \in Nat
  BY TypeStep DEF TypeOK, Parameters
<1>2. /\ records \in [Recorded -> Outcome] /\ Parents \subseteq Recorded
      /\ listed \in [Parents -> SUBSET Task]
      /\ "failed" \in Outcomes /\ "nothing" \in Outcomes
  BY DEF TypeOK, Outcome, Outcomes, Recorded
<1>3. ASSUME pc \in Under \cup {"fetch"}, index' = i + 1, listed' = listed,
             handled \cup tasks \cup unfetched \subseteq handled'
      PROVE  Goal
  BY <1>3 DEF PlaceInv
<1>4. CASE Fetched
  BY <1>3, <1>4 DEF Fetched, Takes, NextUnit
<1>5. ASSUME NEW p \in Parents, List(p) PROVE Goal
  <2>1. pc = "unit" /\ i \in 1 .. Len(Unit) /\ Unit[i].parent = p /\ p # None
    BY <1>1, <1>5 DEF List
  <2>2. index' = i + 1
    BY <1>5 DEF List, Takes, NextUnit
  <2>3. CASE Unit[i].tasks \cap running = {}
    <3>1. records' = With(records, {p}, "nothing")
      BY <1>5, <2>3 DEF List, Records
    <3>2. Told(p)'
      BY <1>1, <1>2, <3>1, RecordTells
    <3> QED
      BY <2>1, <2>2, <3>2
  <2>4. CASE Unit[i].tasks \cap running # {}
    <3>1. listed'[p] # {}
      BY <1>2, <1>5, <2>4 DEF List
    <3> QED
      BY <2>1, <2>2, <3>1
  <2> QED
    BY <2>3, <2>4
<1>6. ASSUME NEW p \in Parents, NEW code \in Codes, ListFails(p, code) PROVE Goal
  <2>1. pc = "unit" /\ i \in 1 .. Len(Unit) /\ Unit[i].parent = p /\ p # None
    BY <1>1, <1>6 DEF ListFails
  <2>2. code \notin SESSION_FAILURES
    BY <1>6 DEF ListFails, Stops
  <2>3. records' = With(records, {p}, "failed") /\ index' = i + 1
    BY <1>6, <2>2 DEF ListFails, NextUnit
  <2>4. Told(p)'
    BY <1>1, <1>2, <2>3, RecordTells
  <2> QED
    BY <2>1, <2>3, <2>4
<1>7. ASSUME NEW selected \in SUBSET tasks, NEW confirm \in BOOLEAN, Choose(selected, confirm)
      PROVE  Goal
  BY <1>3, <1>7 DEF Choose, NextUnit, PlaceInv, Under
<1>8. ASSUME NEW t \in Task, Abort(t) PROVE Goal
  BY <1>3, <1>8 DEF Abort, Attempt, Rest, NextUnit, PlaceInv, Under
<1>9. ASSUME NEW t \in Task, NEW code \in Codes, AbortFails(t, code) PROVE Goal
  <2>1. code \notin SESSION_FAILURES
    BY <1>9 DEF AbortFails, Stops
  <2> QED
    BY <1>3, <1>9, <2>1 DEF AbortFails, Attempt, Rest, NextUnit, PlaceInv, Under
<1>10. ASSUME NEW t \in Task, NEW code \in Codes, FetchFails(t, code) PROVE FALSE
  BY <1>10 DEF FetchFails, Stops
<1>11. ASSUME NEW t \in Task, Fetch(t) \/ Finishes(t) PROVE FALSE
  BY <1>11 DEF Fetch, Finishes, state
<1>12. CASE FetchIDs \/ NoAnswer \/ Done
  BY <1>12 DEF FetchIDs, NoAnswer, Done
<1> QED
  BY <1>4, <1>5, <1>6, <1>7, <1>8, <1>9, <1>10, <1>11, <1>12 DEF Next

\* What is listed of a parent stays so.
LEMMA ListedStays ==
  TypeOK /\ Next => \A p \in Parents : listed[p] \subseteq listed'[p]
BY DEF Next, FetchIDs, Fetched, NoAnswer, Done, List, ListFails, Choose, Fetch, Abort,
       Finishes, FetchFails, AbortFails, Attempt, state, TypeOK

\* A unit that is dealt with stays so.
LEMMA PassedStays ==
  ASSUME Parameters, TypeOK, PlaceInv, Next, NEW i \in 1 .. Len(Unit), Passed(i)
  PROVE  Passed(i)'
<1>1. TypeOK' /\ Grows(records, records') /\ \A p \in Parents : listed[p] \subseteq listed'[p]
  BY TypeStep, RecordsStep, ListedStays
<1>2. \A x \in Recorded : Told(x) => Told(x)'
  BY <1>1, ToldStays
<1>3. CASE Unit[i].parent = None
  <2>1. Unit[i].tasks \subseteq Recorded
    BY DEF Parameters, Recorded
  <2> QED
    BY <1>2, <1>3, <2>1 DEF Passed
<1>4. CASE Unit[i].parent # None
  <2>1. Unit[i].parent \in Parents /\ Unit[i].parent \in Recorded
    BY <1>4 DEF Parents, Recorded
  <2> QED
    BY <1>1, <1>2, <1>4, <2>1 DEF Passed
<1> QED
  BY <1>3, <1>4

LEMMA PassedStep ==
  ASSUME Parameters
  PROVE  TypeOK /\ PlaceInv /\ HandledInv /\ PassedInv /\ Next => PassedInv'
<1> SUFFICES ASSUME TypeOK, PlaceInv, HandledInv, PassedInv, Next,
                    NEW i \in 1 .. Len(Unit), i < index'
             PROVE  Passed(i)'
  BY DEF PassedInv
<1>1. HandledInv' /\ index \in Nat
  BY HandledStep DEF TypeOK, Parameters
<1>2. CASE i < index
  BY <1>2, PassedStays DEF PassedInv
<1>3. CASE ~(i < index)
  <2>1. index' # index
    BY <1>1, <1>3
  <2>2. index' = index + 1
    BY <2>1, Leaves
  <2>3. i = index
    BY <1>1, <1>3, <2>2 DEF Parameters
  <2>4. \/ Unit[i].tasks \subseteq handled' /\ Unit[i].parent = None
        \/ Unit[i].parent # None /\ listed'[Unit[i].parent] # {}
        \/ Unit[i].parent # None /\ Told(Unit[i].parent)'
    BY <2>1, <2>3, Leaves
  <2> QED
    BY <1>1, <2>4 DEF Passed, HandledInv
<1> QED
  BY <1>2, <1>3
-----------------------------------------------------------------------------
(* A failure of the session. *)

\* A unit is before the one under way, or it, or after it.
LEMMA Units ==
  ASSUME NEW n \in Nat, NEW k \in 1 .. n + 1, NEW i \in 1 .. n
  PROVE  /\ i < k \/ i = k \/ i > k
         /\ i > k => i \in k + 1 .. n
OBVIOUS

\* Stops() tells of the units that are left.
LEMMA StopsTell ==
  ASSUME Parameters, TypeOK, TypeOK', NEW recs \in [Recorded -> Outcome],
         records' = With(recs, UNION {Entities(i) : i \in index + 1 .. Len(Unit)},
                         "not attempted"),
         NEW i \in 1 .. Len(Unit), i > index
  PROVE  Passed(i)'
<1>1. i \in index + 1 .. Len(Unit)
  <2>1. Len(Unit) \in Nat /\ index \in 1 .. Len(Unit) + 1
    BY DEF TypeOK, Parameters
  <2> QED
    BY <2>1, Units
<1>2. Entities(i) \subseteq UNION {Entities(j) : j \in index + 1 .. Len(Unit)}
  BY <1>1
<1>3. Entities(i) \subseteq Recorded /\ "not attempted" \in Outcomes
  BY Given DEF Outcomes
<1>4. \A x \in Entities(i) : Told(x)'
  <2> TAKE x \in Entities(i)
  <2>1. x \in Recorded /\ x \in UNION {Entities(j) : j \in index + 1 .. Len(Unit)}
    BY <1>2, <1>3
  <2> QED
    BY <1>3, <2>1, RecordTells
<1> QED
  BY <1>4 DEF Entities, Passed

LEMMA StoppedStep ==
  ASSUME Parameters
  PROVE  IInv /\ Next => StoppedInv'
<1> SUFFICES ASSUME IInv, Next, cause' # 0
             PROVE  /\ \A i \in 1 .. Len(Unit) : Passed(i)'
                    /\ \A p \in Parents : listed'[p] \subseteq handled'
  BY DEF StoppedInv
<1>1. /\ TypeOK' /\ HandledInv' /\ PassedInv' /\ ListedInv'
      /\ index \in Nat /\ records \in [Recorded -> Outcome]
      /\ "failed" \in Outcomes /\ "not attempted" \in Outcomes
  <2>1. TypeOK' /\ HandledInv' /\ PassedInv' /\ ListedInv'
    BY TypeStep, HandledStep, PassedStep, ListedStep DEF IInv
  <2>2. index \in Nat /\ records \in [Recorded -> Outcome]
    BY DEF IInv, TypeOK, Outcome, Parameters
  <2> QED
    BY <2>1, <2>2 DEF Outcomes
<1>2. CASE cause # 0
  <2>1. pc = "exit" /\ StoppedInv /\ \A i \in 1 .. Len(Unit) : Passed(i)
    BY <1>2 DEF IInv, PlaceInv, StoppedInv
  <2>2. UNCHANGED <<listed, handled>>
    BY <2>1
    DEF Next, FetchIDs, Fetched, NoAnswer, Done, List, ListFails, Choose, Fetch, Abort,
        Finishes, FetchFails, AbortFails, Attempt, state
  <2> QED
    BY <1>2, <2>1, <2>2, PassedStays DEF IInv, StoppedInv
<1>3. CASE cause = 0
  <2>1. ASSUME NEW recs \in [Recorded -> Outcome], NEW code, Stops(recs, code),
               listed' = listed, handled \cup tasks \subseteq handled',
               \A i \in 1 .. Len(Unit) : i = index => Passed(i)'
        PROVE  /\ \A i \in 1 .. Len(Unit) : Passed(i)'
               /\ \A p \in Parents : listed'[p] \subseteq handled'
    <3>1. \A i \in 1 .. Len(Unit) : i > index => Passed(i)'
      BY <1>1, <2>1, StopsTell DEF Stops, IInv
    <3>2. \A i \in 1 .. Len(Unit) : i < index => Passed(i)'
      BY <1>1, <2>1 DEF Stops, PassedInv
    <3>3. \A p \in Parents : listed'[p] \subseteq handled'
      BY <2>1 DEF IInv, ListedInv
    <3>4. \A i \in 1 .. Len(Unit) : i < index \/ i = index \/ i > index
      <4>1. Len(Unit) \in Nat /\ index \in 1 .. Len(Unit) + 1
        BY DEF IInv, TypeOK, Parameters
      <4> QED
        BY <4>1, Units
    <3> QED
      BY <2>1, <3>1, <3>2, <3>3, <3>4
  <2>2. \A xs : \A recs \in [Recorded -> Outcome] : \A o \in Outcomes :
          With(recs, xs, o) \in [Recorded -> Outcome]
    BY WithIs
  <2>3. ASSUME pc \in Under \cup {"fetch"}, listed' = listed,
               handled \cup tasks \cup unfetched \subseteq handled'
        PROVE  \A i \in 1 .. Len(Unit) : i = index => Passed(i)'
    <3> SUFFICES ASSUME NEW i \in 1 .. Len(Unit), i = index PROVE Passed(i)'
      OBVIOUS
    <3>1. IF Unit[i].parent = None THEN Unit[i].tasks \subseteq handled'
          ELSE listed'[Unit[i].parent] # {}
      BY <2>3 DEF IInv, PlaceInv
    <3> QED
      BY <1>1, <3>1 DEF Passed, HandledInv
  <2>4. ASSUME NEW p \in Parents, NEW code \in Codes, ListFails(p, code)
        PROVE  /\ \A i \in 1 .. Len(Unit) : Passed(i)'
               /\ \A q \in Parents : listed'[q] \subseteq handled'
    <3> DEFINE recs == With(records, {p}, "failed")
    <3>1. recs \in [Recorded -> Outcome] /\ recs[p]["failed"] > 0
      BY <1>1, WithIs DEF Recorded
    <3>2. /\ Stops(recs, code) /\ listed' = listed /\ handled' = handled
          /\ Unit[index].parent = p /\ p # None /\ index <= Len(Unit) /\ pc = "unit"
      BY <1>3, <2>4 DEF ListFails
    <3>3. tasks = {}
      BY <3>2 DEF IInv, PlaceInv
    <3>4. records'[p]["failed"] > 0
      <4>1. p \in Recorded
        BY DEF Recorded
      <4>2. records'[p]["failed"] >= recs[p]["failed"]
        BY <1>1, <3>1, <3>2, <4>1, WithIs DEF Stops
      <4>3. records'[p]["failed"] \in Nat /\ recs[p]["failed"] \in Nat
        BY <1>1, <3>1, <4>1 DEF TypeOK, Outcome
      <4> QED
        BY <3>1, <4>2, <4>3
    <3>5. Told(p)'
      <4>1. p \in Recorded /\ TypeOK
        BY DEF Recorded, IInv
      <4> QED
        BY <1>1, <3>4, <4>1, ToldIs DEF Tells
    <3>6. \A i \in 1 .. Len(Unit) : i = index => Passed(i)'
      BY <3>2, <3>5 DEF Passed
    <3> HIDE DEF recs
    <3> QED
      BY <2>1, <3>1, <3>2, <3>3, <3>6
  <2>5. ASSUME NEW t \in Task, NEW code \in Codes, FetchFails(t, code)
        PROVE  /\ \A i \in 1 .. Len(Unit) : Passed(i)'
               /\ \A p \in Parents : listed'[p] \subseteq handled'
    <3>1. code \in SESSION_FAILURES
      BY <1>3, <2>5 DEF FetchFails
    <3> DEFINE recs == With(With(records, {t}, "failed"), tasks \cup (unfetched \ {t}),
                            "not attempted")
    <3>2. /\ Stops(recs, code) /\ listed' = listed /\ pc = "fetch"
          /\ handled \cup tasks \cup unfetched \subseteq handled'
      BY <2>5, <3>1 DEF FetchFails
    <3>3. recs \in [Recorded -> Outcome]
      BY <1>1, <2>2
    <3> HIDE DEF recs
    <3> QED
      BY <2>1, <2>3, <3>2, <3>3
  <2>6. ASSUME NEW t \in Task, NEW code \in Codes, AbortFails(t, code)
        PROVE  /\ \A i \in 1 .. Len(Unit) : Passed(i)'
               /\ \A p \in Parents : listed'[p] \subseteq handled'
    <3>1. code \in SESSION_FAILURES
      BY <1>3, <2>6 DEF AbortFails
    <3> DEFINE recs == With(With(records, {t}, "failed"), tasks \ {t}, "not attempted")
    <3>2. /\ Stops(recs, code) /\ listed' = listed /\ pc \in Under
          /\ handled \cup tasks \cup unfetched \subseteq handled'
      BY <2>6, <3>1 DEF AbortFails, Attempt, IInv, PlaceInv, Under
    <3>3. recs \in [Recorded -> Outcome]
      BY <1>1, <2>2
    <3> HIDE DEF recs
    <3> QED
      BY <2>1, <2>3, <3>2, <3>3
  <2> QED
    BY <1>3, <2>4, <2>5, <2>6
    DEF Next, FetchIDs, Fetched, NoAnswer, Done, List, Choose, Fetch, Abort, Finishes, state
<1> QED
  BY <1>2, <1>3
-----------------------------------------------------------------------------
(* The theorems. *)

\* A step of the environment, or none, leaves the invariant.
LEMMA StutterStep ==
  IInv /\ UNCHANGED vars => IInv'
BY DEF IInv, vars, state, TypeOK, PlaceInv, AttemptsInv, LeftInv, HandledInv, ListedInv,
       PassedInv, StoppedInv, LeftOut, Times, Told, Recs, Passed

LEMMA StepHolds ==
  ASSUME Parameters
  PROVE  IInv /\ [Next]_vars => IInv'
<1> SUFFICES ASSUME IInv, [Next]_vars PROVE IInv'
  OBVIOUS
<1>1. CASE Next
  BY <1>1, TypeStep, PlaceStep, AttemptsStep, LeftStep, HandledStep, ListedStep, PassedStep,
     StoppedStep DEF IInv
<1>2. CASE UNCHANGED vars
  BY <1>2, StutterStep
<1> QED
  BY <1>1, <1>2

LEMMA Invariance ==
  ASSUME Parameters
  PROVE  Spec => []IInv
  BY InitHolds, StepHolds, PTL DEF Spec

LEMMA TypeImplies == IInv => TypeOK
BY DEF IInv

LEMMA AttemptedImplies == IInv => AttemptedOnce /\ LeftOutKept
BY DEF IInv, AttemptsInv, AttemptedOnce, LeftInv, LeftOutKept

LEMMA ToldImplies ==
  ASSUME Parameters
  PROVE  IInv => EveryTargetTold
<1> SUFFICES ASSUME IInv, pc = "exit", ~Unanswered, NEW i \in 1 .. Len(Unit)
             PROVE  IF Unit[i].parent = None THEN \A t \in Unit[i].tasks : Told(t)
                    ELSE \/ Told(Unit[i].parent)
                         \/ /\ listed[Unit[i].parent] # {}
                            /\ \A t \in listed[Unit[i].parent] : Told(t)
  BY DEF EveryTargetTold
<1>1. Unit[i].parent = None \/ Unit[i].parent \in Parents
  BY Given
<1>2. Passed(i) /\ \A p \in Parents : listed[p] \subseteq handled
  <2>1. CASE cause # 0
    BY <2>1 DEF IInv, StoppedInv
  <2>2. CASE cause = 0
    <3>1. index \in Nat /\ Len(Unit) \in Nat /\ index > Len(Unit)
      BY <2>2 DEF IInv, TypeOK, Parameters, Unanswered
    <3>2. tasks = {} /\ i < index
      BY <2>2, <3>1 DEF IInv, PlaceInv
    <3> QED
      BY <3>2 DEF IInv, PassedInv, ListedInv
  <2> QED
    BY <2>1, <2>2
<1> QED
  BY <1>1, <1>2 DEF Passed, IInv, HandledInv
\* The variables keep their types, and a choice is always among Tasks not yet handled.
THEOREM TypeCorrect ==
  ASSUME Parameters
  PROVE  Spec => []TypeOK
  BY TypeImplies, Invariance, PTL

\* A Task in any number of targets is the subject of one call of cancel_task().
THEOREM AttemptedOnceOnly ==
  ASSUME Parameters
  PROVE  Spec => []AttemptedOnce
  BY AttemptedImplies, Invariance, PTL

\* A Task left out or declined once is never aborted, whatever targets include it.
THEOREM LeftAlone ==
  ASSUME Parameters
  PROVE  Spec => []LeftOutKept
  BY AttemptedImplies, Invariance, PTL

\* A run that ended, but for want of an answer, has told of each of its targets.
THEOREM AllTold ==
  ASSUME Parameters
  PROVE  Spec => []EveryTargetTold
  BY ToldImplies, Invariance, PTL
=============================================================================
