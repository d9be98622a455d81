------------------------------ MODULE Lazy_proofs ------------------------------
(***************************************************************************)
(* Proofs about Lazy, for any threads, any Lazies and whichever of them    *)
(* their builders read.                                                    *)
(***************************************************************************)
EXTENDS Lazy, TLAPS

Frame == [lazy : Lazies, at : Places, unread : SUBSET Lazies]

Typed ==
  /\ stack \in [Thread -> Seq(Frame)]
  /\ owner \in [Lazies -> Thread \cup {None}]
  /\ built \in [Lazies -> BOOLEAN]
  /\ value \in [Lazies -> Nat] /\ builds \in [Lazies -> Nat]
  /\ got \in [Lazies -> SUBSET Nat]

\* What a call says of its Lazy: who has the lock, and whether it is built.
Fits(t, f, o, b, n) ==
  /\ f.at \in Locked => o[f.lazy] = t
  /\ f.at = "build" => n[f.lazy] = 0 /\ ~b[f.lazy]
  /\ f.at = "flag" => n[f.lazy] = 1 /\ ~b[f.lazy]
  /\ f.at \in {"unlock", "read"} => b[f.lazy]

FitsInv ==
  \A t \in Thread : \A i \in 1 .. Len(stack[t]) : Fits(t, stack[t][i], owner, built, builds)

\* Only the innermost call of a thread is not in a builder, and no two have one lock.
StackInv ==
  \A t \in Thread :
    /\ \A i \in 2 .. Len(stack[t]) : stack[t][i].at = "build"
    /\ \A i, j \in 1 .. Len(stack[t]) :
         /\ stack[t][i].at \in Locked /\ stack[t][j].at \in Locked
         /\ stack[t][i].lazy = stack[t][j].lazy
         => i = j

\* A Lazy that is built was built once; one that is not has not been, but for the
\* call that has yet to say so.
LazyInv ==
  \A l \in Lazies :
    /\ value[l] = builds[l] /\ builds[l] \in {0, 1}
    /\ built[l] => builds[l] = 1
    /\ builds[l] = 1 /\ ~built[l] =>
         \E t \in Thread : stack[t] # <<>> /\ stack[t][1].lazy = l /\ stack[t][1].at = "flag"
    /\ got[l] # {} => built[l] /\ got[l] = {1}

IInv == Typed /\ FitsInv /\ StackInv /\ LazyInv
-----------------------------------------------------------------------------
(* The stacks. *)

\* Only the stack of t changes, and only the place of its innermost call.
Moved(t, place) ==
  /\ stack' \in [Thread -> Seq(Frame)]
  /\ \A u \in Thread \ {t} : stack'[u] = stack[u]
  /\ Len(stack'[t]) = Len(stack[t])
  /\ stack'[t][1].lazy = stack[t][1].lazy /\ stack'[t][1].at = place
  /\ \A i \in 2 .. Len(stack[t]) : stack'[t][i] = stack[t][i]

LEMMA HeadIs ==
  ASSUME Typed, NEW t \in Thread, NEW l \in Lazies, NEW place, At(t, l, place)
  PROVE  /\ stack[t] \in Seq(Frame) /\ Len(stack[t]) \in Nat /\ 1 \in 1 .. Len(stack[t])
         /\ stack[t][1] = Head(stack[t]) /\ stack[t][1] \in Frame
         /\ stack[t][1].lazy = l /\ stack[t][1].at = place
<1>1. stack[t] \in Seq(Frame) /\ stack[t] # <<>>
  BY DEF Typed, At
<1>2. \A s \in Seq(Frame) : s # <<>> => Len(s) \in Nat /\ 1 \in 1 .. Len(s) /\ s[1] = Head(s) /\ s[1] \in Frame
  OBVIOUS
<1> QED
  BY <1>1, <1>2 DEF At

LEMMA CallsIn ==
  ASSUME Typed
  PROVE  \A u \in Thread : \A i \in 1 .. Len(stack[u]) :
           stack[u][i] \in Frame /\ stack[u][i].lazy \in Lazies
<1>1. \A q \in Seq(Frame) : \A i \in 1 .. Len(q) : q[i] \in Frame
  OBVIOUS
<1>2. \A u \in Thread : stack[u] \in Seq(Frame)
  BY DEF Typed
<1>3. \A u \in Thread : \A i \in 1 .. Len(stack[u]) : stack[u][i] \in Frame
  BY <1>1, <1>2
<1> QED
  BY <1>3 DEF Frame

LEMMA GoesIs ==
  ASSUME Typed, NEW t \in Thread, NEW l \in Lazies, NEW p, At(t, l, p),
         NEW place \in Places, Goes(t, place)
  PROVE  Moved(t, place)
<1> DEFINE s == stack[t]  r == [s EXCEPT ![1].at = place]
<1>1. s \in Seq(Frame) /\ 1 \in 1 .. Len(s) /\ s[1] \in Frame
  BY HeadIs
<1>2. stack' = [stack EXCEPT ![t] = r]
  BY DEF Goes
<1>3. r \in Seq(Frame) /\ Len(r) = Len(s) /\ r[1].lazy = s[1].lazy /\ r[1].at = place
      /\ \A i \in 2 .. Len(s) : r[i] = s[i]
  BY <1>1 DEF Frame
<1> HIDE DEF r
<1> QED
  BY <1>2, <1>3 DEF Moved, Typed

\* The calls that remain are those of before, but the innermost of t.
LEMMA Others ==
  ASSUME Typed, NEW t \in Thread, NEW place, Moved(t, place), stack[t] # <<>>,
         NEW u \in Thread, NEW i \in 1 .. Len(stack'[u])
  PROVE  /\ i \in 1 .. Len(stack[u])
         /\ u # t \/ i # 1 => stack'[u][i] = stack[u][i]
         /\ stack'[u][i].lazy = stack[u][i].lazy
<1>1. stack[u] \in Seq(Frame) /\ stack'[u] \in Seq(Frame)
  BY DEF Typed, Moved
<1>2. i = 1 \/ i \in 2 .. Len(stack'[u])
  BY <1>1
<1> QED
  BY <1>2 DEF Moved

LEMMA StackStep ==
  ASSUME IInv, NEW t \in Thread, NEW l \in Lazies, NEW p, At(t, l, p),
         NEW place, Moved(t, place),
         \/ p \in Locked \/ place \notin Locked
         \/ \A i \in 1 .. Len(stack[t]) :
              stack[t][i].at \in Locked => stack[t][i].lazy # l
  PROVE  StackInv'
<1>1. /\ Typed /\ stack[t] \in Seq(Frame) /\ Len(stack[t]) \in Nat
      /\ stack[t][1].lazy = l /\ stack[t][1].at = p
  BY HeadIs DEF IInv
<1> SUFFICES ASSUME NEW u \in Thread
             PROVE  /\ \A i \in 2 .. Len(stack'[u]) : stack'[u][i].at = "build"
                    /\ \A i, j \in 1 .. Len(stack'[u]) :
                         /\ stack'[u][i].at \in Locked /\ stack'[u][j].at \in Locked
                         /\ stack'[u][i].lazy = stack'[u][j].lazy
                         => i = j
  BY DEF StackInv
<1>2. CASE u # t
  BY <1>2 DEF Moved, IInv, StackInv
<1>3. CASE u = t
  <2>1. /\ \A i \in 2 .. Len(stack[t]) : stack[t][i].at = "build" /\ stack'[t][i] = stack[t][i]
        /\ Len(stack'[t]) = Len(stack[t])
    BY DEF Moved, IInv, StackInv
  <2>2. ASSUME NEW i \in 2 .. Len(stack[t]), stack[t][i].lazy = l, place \in Locked PROVE FALSE
    <3>1. stack[t][i].at \in Locked /\ i \in 1 .. Len(stack[t]) /\ 1 \in 1 .. Len(stack[t])
      BY <1>1, <2>1 DEF Locked
    <3>2. p \in Locked
      BY <2>2, <3>1
    <3> QED
      BY <1>1, <2>2, <3>1, <3>2 DEF IInv, StackInv
  <2>3. stack'[t][1].lazy = l /\ stack'[t][1].at = place
    BY <1>1 DEF Moved
  <2>4. \A i \in 1 .. Len(stack[t]) : i = 1 \/ i \in 2 .. Len(stack[t])
    BY <1>1
  <2>5. ASSUME NEW i \in 1 .. Len(stack[t]), NEW j \in 1 .. Len(stack[t]),
               stack'[t][i].at \in Locked, stack'[t][j].at \in Locked,
               stack'[t][i].lazy = stack'[t][j].lazy
        PROVE  i = j
    <3>1. CASE i \in 2 .. Len(stack[t]) /\ j \in 2 .. Len(stack[t])
      BY <2>1, <2>5, <3>1 DEF IInv, StackInv
    <3>2. CASE i = 1 /\ j \in 2 .. Len(stack[t])
      BY <2>1, <2>2, <2>3, <2>5, <3>2
    <3>3. CASE j = 1 /\ i \in 2 .. Len(stack[t])
      BY <2>1, <2>2, <2>3, <2>5, <3>3
    <3> QED
      BY <2>4, <3>1, <3>2, <3>3
  <2> QED
    BY <1>3, <2>1, <2>5
<1> QED
  BY <1>2, <1>3

LEMMA FitsStep ==
  ASSUME IInv, NEW t \in Thread, NEW l \in Lazies, NEW p, At(t, l, p),
         NEW place, Moved(t, place),
         \A u \in Thread : \A i \in 1 .. Len(stack[u]) :
           u # t \/ i # 1 => Fits(u, stack[u][i], owner', built', builds'),
         Fits(t, stack'[t][1], owner', built', builds')
  PROVE  FitsInv'
<1>1. Typed /\ stack[t] # <<>>
  BY DEF IInv, At
<1> SUFFICES ASSUME NEW u \in Thread, NEW i \in 1 .. Len(stack'[u])
             PROVE  Fits(u, stack'[u][i], owner', built', builds')
  BY DEF FitsInv
<1>2. CASE u # t \/ i # 1
  BY <1>1, <1>2, Others
<1>3. CASE u = t /\ i = 1
  BY <1>3
<1> QED
  BY <1>2, <1>3

\* The call under way moves on, and nothing else changes.
LEMMA QuietStep ==
  ASSUME IInv, NEW t \in Thread, NEW l \in Lazies, NEW p, At(t, l, p), p # "flag",
         NEW place, Moved(t, place),
         p \in Locked \/ place \notin Locked,
         Fits(t, stack'[t][1], owner, built, builds),
         UNCHANGED <<owner, built, value, builds, got>>
  PROVE  IInv'
<1>1. Typed' /\ StackInv'
  BY StackStep DEF IInv, Typed, Moved
<1>2. FitsInv'
  BY FitsStep DEF IInv, FitsInv
<1>3. LazyInv'
  <2>1. \A u \in Thread : stack[u] # <<>> /\ stack[u][1].at = "flag" => stack'[u] = stack[u]
    BY HeadIs DEF Moved, IInv
  <2> QED
    BY <2>1 DEF IInv, LazyInv
<1> QED
  BY <1>1, <1>2, <1>3 DEF IInv
-----------------------------------------------------------------------------
(* The actions. *)

LEMMA CheckStep ==
  ASSUME IInv, NEW t \in Thread, NEW l \in Lazies, Check(t, l)
  PROVE  IInv'
<1> DEFINE place == IF built[l] THEN "read" ELSE "lock"
<1>1. /\ At(t, l, "check") /\ Goes(t, place) /\ Typed /\ place \in Places
      /\ UNCHANGED <<owner, built, value, builds, got>>
  BY DEF Check, IInv, Places
<1>2. stack[t][1].lazy = l
  BY <1>1, HeadIs
<1>3. place \notin Locked /\ (place = "read" => built[l]) /\ place \in {"read", "lock"}
  BY DEF Locked
<1> HIDE DEF place
<1>4. Moved(t, place)
  BY <1>1, GoesIs
<1>5. Fits(t, stack'[t][1], owner, built, builds)
  BY <1>2, <1>3, <1>4 DEF Moved, Fits, Locked
<1> QED
  BY <1>1, <1>3, <1>4, <1>5, QuietStep

\* A call that has the lock is the only one that has it.
LEMMA OneHolds ==
  ASSUME IInv, NEW t \in Thread, NEW l \in Lazies, NEW p \in Locked, At(t, l, p),
         NEW u \in Thread, NEW i \in 1 .. Len(stack[u]), u # t \/ i # 1, stack[u][i].lazy = l
  PROVE  stack[u][i].at \notin Locked
<1> SUFFICES ASSUME stack[u][i].at \in Locked PROVE FALSE
  OBVIOUS
<1>1. 1 \in 1 .. Len(stack[t]) /\ stack[t][1].lazy = l /\ stack[t][1].at = p
  BY HeadIs DEF IInv
<1>2. owner[l] = u /\ owner[l] = t
  BY <1>1 DEF IInv, FitsInv, Fits
<1> QED
  BY <1>1, <1>2 DEF IInv, StackInv

LEMMA LockStep ==
  ASSUME Parameters, IInv, NEW t \in Thread, NEW l \in Lazies, Lock(t, l)
  PROVE  IInv'
<1>1. /\ At(t, l, "lock") /\ Goes(t, "again") /\ owner[l] = None /\ Typed
      /\ owner' = [owner EXCEPT ![l] = t] /\ UNCHANGED <<built, value, builds, got>>
  BY DEF Lock, IInv
<1>2. Moved(t, "again")
  BY <1>1, GoesIs DEF Places
<1>3. \A u \in Thread : \A i \in 1 .. Len(stack[u]) :
        stack[u][i].at \in Locked => stack[u][i].lazy # l
  BY <1>1 DEF IInv, FitsInv, Fits, Parameters
<1>4. StackInv'
  BY <1>1, <1>2, <1>3, StackStep
<1>5. \A u \in Thread : \A i \in 1 .. Len(stack[u]) : stack[u][i].lazy \in Lazies
  BY <1>1, CallsIn
<1>6. \A u \in Thread : \A i \in 1 .. Len(stack[u]) : Fits(u, stack[u][i], owner', built', builds')
  BY <1>1, <1>3, <1>5 DEF IInv, FitsInv, Fits, Typed
<1>7. stack'[t][1].lazy = l
  BY <1>1, <1>2, HeadIs DEF Moved
<1>8. Fits(t, stack'[t][1], owner', built', builds')
  BY <1>1, <1>2, <1>7 DEF Fits, Moved, Typed
<1>9. FitsInv'
  BY <1>1, <1>2, <1>6, <1>8, FitsStep
<1>10. LazyInv'
  <2>1. \A u \in Thread : stack[u] # <<>> /\ stack[u][1].at = "flag" => stack'[u] = stack[u]
    BY <1>1, <1>2, HeadIs DEF Moved
  <2> QED
    BY <1>1, <2>1 DEF IInv, LazyInv
<1>11. Typed'
  BY <1>1, <1>2 DEF Typed, Moved
<1> QED
  BY <1>4, <1>9, <1>10, <1>11 DEF IInv

LEMMA AgainStep ==
  ASSUME Parameters, IInv, NEW t \in Thread, NEW l \in Lazies, Again(t, l)
  PROVE  IInv'
<1>1. /\ At(t, l, "again") /\ Typed /\ UNCHANGED <<owner, built, value, builds, got>>
      /\ "again" \in Locked
  BY DEF Again, IInv, Locked
<1>2. stack[t][1].lazy = l /\ owner[l] = t
  BY <1>1, HeadIs DEF IInv, FitsInv, Fits
<1>3. CASE built[l]
  <2>1. Goes(t, "unlock")
    BY <1>3 DEF Again, Goes
  <2>2. Moved(t, "unlock")
    BY <1>1, <2>1, GoesIs DEF Places
  <2>3. Fits(t, stack'[t][1], owner, built, builds)
    BY <1>2, <1>3, <2>2 DEF Moved, Fits
  <2> QED
    BY <1>1, <2>2, <2>3, QuietStep
<1>4. CASE ~built[l]
  <2>1. Moved(t, "build")
    <3> DEFINE s == stack[t]
               r == [s EXCEPT ![1].at = "build", ![1].unread = Needs[l]]
    <3>1. s \in Seq(Frame) /\ 1 \in 1 .. Len(s) /\ s[1] \in Frame
      BY <1>1, HeadIs
    <3>2. stack' = [stack EXCEPT ![t] = r]
      BY <1>4 DEF Again
    <3>3. Needs[l] \in SUBSET Lazies /\ "build" \in Places
      BY DEF Parameters, Places
    <3>4. /\ r \in Seq(Frame) /\ Len(r) = Len(s) /\ r[1].lazy = s[1].lazy /\ r[1].at = "build"
          /\ \A i \in 2 .. Len(s) : r[i] = s[i]
      <4> DEFINE q == [s EXCEPT ![1].at = "build"]
      <4>1. /\ q \in Seq(Frame) /\ Len(q) = Len(s) /\ q[1].lazy = s[1].lazy
            /\ q[1].at = "build" /\ \A i \in 2 .. Len(s) : q[i] = s[i]
        BY <3>1, <3>3 DEF Frame
      <4>2. r = [q EXCEPT ![1].unread = Needs[l]]
        OBVIOUS
      <4>3. 1 \in 1 .. Len(q) /\ q[1] \in Frame
        BY <3>1, <4>1
      <4> HIDE DEF q, r
      <4>4. /\ r \in Seq(Frame) /\ Len(r) = Len(q) /\ r[1].lazy = q[1].lazy
            /\ r[1].at = q[1].at /\ \A i \in 2 .. Len(q) : r[i] = q[i]
        BY <3>3, <4>1, <4>2, <4>3 DEF Frame
      <4> QED
        BY <4>1, <4>4
    <3> HIDE DEF r
    <3> QED
      BY <1>1, <3>2, <3>4 DEF Moved, Typed
  <2>2. builds[l] = 0
    <3>1. SUFFICES ASSUME builds[l] # 0 PROVE FALSE
      OBVIOUS
    <3>2. PICK u \in Thread : stack[u] # <<>> /\ stack[u][1].lazy = l /\ stack[u][1].at = "flag"
      BY <1>4, <3>1 DEF IInv, LazyInv
    <3>3. 1 \in 1 .. Len(stack[u]) /\ "flag" \in Locked
      BY <1>1, <3>2 DEF Typed, Locked
    <3>4. u # t
      BY <1>1, <3>2, HeadIs
    <3> QED
      BY <1>1, <3>2, <3>3, <3>4, OneHolds
  <2>3. Fits(t, stack'[t][1], owner, built, builds)
    BY <1>2, <1>4, <2>1, <2>2 DEF Moved, Fits
  <2> QED
    BY <1>1, <2>1, <2>3, QuietStep
<1> QED
  BY <1>3, <1>4

LEMMA BuildStep ==
  ASSUME IInv, NEW t \in Thread, NEW l \in Lazies, Build(t, l)
  PROVE  IInv'
<1>1. /\ At(t, l, "build") /\ Goes(t, "flag") /\ Typed
      /\ builds' = [builds EXCEPT ![l] = @ + 1]
      /\ value' = [value EXCEPT ![l] = builds'[l]]
      /\ UNCHANGED <<owner, built, got>> /\ "build" \in Locked
  BY DEF Build, IInv, Locked
<1>2. Moved(t, "flag")
  BY <1>1, GoesIs DEF Places
<1>3. StackInv'
  BY <1>1, <1>2, StackStep
<1>4. /\ stack[t][1].lazy = l /\ builds[l] = 0 /\ ~built[l] /\ owner[l] = t
      /\ stack[t] # <<>>
  BY <1>1, HeadIs DEF IInv, FitsInv, Fits
<1>5. builds'[l] = 1 /\ value'[l] = 1 /\ builds' \in [Lazies -> Nat] /\ value' \in [Lazies -> Nat]
  BY <1>1, <1>4 DEF Typed
<1>6. \A u \in Thread : \A i \in 1 .. Len(stack[u]) :
        u # t \/ i # 1 => Fits(u, stack[u][i], owner', built', builds')
  <2> SUFFICES ASSUME NEW u \in Thread, NEW i \in 1 .. Len(stack[u]), u # t \/ i # 1
               PROVE  Fits(u, stack[u][i], owner', built', builds')
    OBVIOUS
  <2>1. stack[u][i].lazy \in Lazies /\ Fits(u, stack[u][i], owner, built, builds)
    BY <1>1, CallsIn DEF IInv, FitsInv
  <2>2. CASE stack[u][i].lazy = l
    <3>1. stack[u][i].at \notin Locked
      BY <1>1, <2>2, OneHolds
    <3> QED
      BY <1>1, <2>1, <3>1 DEF Fits, Locked
  <2>3. CASE stack[u][i].lazy # l
    BY <1>1, <2>1, <2>3 DEF Fits, Typed
  <2> QED
    BY <2>2, <2>3
<1>7. Fits(t, stack'[t][1], owner', built', builds')
  BY <1>1, <1>2, <1>4, <1>5 DEF Fits, Moved
<1>8. FitsInv'
  BY <1>1, <1>2, <1>6, <1>7, FitsStep
<1>9. LazyInv'
  <2>1. \A u \in Thread : stack[u] # <<>> /\ stack[u][1].at = "flag" => stack'[u] = stack[u]
    BY <1>1, <1>2, HeadIs DEF Moved
  <2>2. stack'[t] # <<>> /\ stack'[t][1].lazy = l /\ stack'[t][1].at = "flag"
    <3>1. stack[t] \in Seq(Frame) /\ stack'[t] \in Seq(Frame) /\ Len(stack'[t]) = Len(stack[t])
      BY <1>1, <1>2 DEF Typed, Moved
    <3>2. stack'[t] # <<>>
      BY <1>4, <3>1
    <3> QED
      BY <1>2, <1>4, <3>2 DEF Moved
  <2>3. ASSUME NEW m \in Lazies, m # l
        PROVE  /\ builds'[m] = builds[m] /\ value'[m] = value[m] /\ built'[m] = built[m]
               /\ got'[m] = got[m]
    BY <1>1, <2>3 DEF Typed
  <2>4. got'[l] = {}
    BY <1>1, <1>4 DEF IInv, LazyInv
  <2> QED
    BY <1>1, <1>4, <1>5, <2>1, <2>2, <2>3, <2>4 DEF IInv, LazyInv
<1>10. Typed'
  BY <1>1, <1>2, <1>5 DEF Typed, Moved
<1> QED
  BY <1>3, <1>8, <1>9, <1>10 DEF IInv

LEMMA FlagStep ==
  ASSUME IInv, NEW t \in Thread, NEW l \in Lazies, Flag(t, l)
  PROVE  IInv'
<1>1. /\ At(t, l, "flag") /\ Goes(t, "unlock") /\ Typed
      /\ built' = [built EXCEPT ![l] = TRUE]
      /\ UNCHANGED <<owner, value, builds, got>> /\ "flag" \in Locked
  BY DEF Flag, IInv, Locked
<1>2. Moved(t, "unlock")
  BY <1>1, GoesIs DEF Places
<1>3. StackInv'
  BY <1>1, <1>2, StackStep
<1>4. stack[t][1].lazy = l /\ builds[l] = 1 /\ ~built[l] /\ owner[l] = t
  BY <1>1, HeadIs DEF IInv, FitsInv, Fits
<1>5. \A u \in Thread : \A i \in 1 .. Len(stack[u]) :
        u # t \/ i # 1 => Fits(u, stack[u][i], owner', built', builds')
  <2> SUFFICES ASSUME NEW u \in Thread, NEW i \in 1 .. Len(stack[u]), u # t \/ i # 1
               PROVE  Fits(u, stack[u][i], owner', built', builds')
    OBVIOUS
  <2>1. stack[u][i].lazy \in Lazies /\ Fits(u, stack[u][i], owner, built, builds)
    BY <1>1, CallsIn DEF IInv, FitsInv
  <2>2. CASE stack[u][i].lazy = l
    <3>1. stack[u][i].at \notin Locked
      BY <1>1, <2>2, OneHolds
    <3>2. built'[stack[u][i].lazy] = TRUE
      BY <1>1, <2>2 DEF Typed
    <3> QED
      BY <1>1, <2>1, <3>1, <3>2 DEF Fits, Locked
  <2>3. CASE stack[u][i].lazy # l
    BY <1>1, <2>1, <2>3 DEF Fits, Typed
  <2> QED
    BY <2>2, <2>3
<1>6. Fits(t, stack'[t][1], owner', built', builds')
  BY <1>1, <1>2, <1>4 DEF Fits, Moved, Typed
<1>7. FitsInv'
  BY <1>1, <1>2, <1>5, <1>6, FitsStep
<1>8. LazyInv'
  <2>1. ASSUME NEW m \in Lazies, m # l PROVE built'[m] = built[m]
    BY <1>1, <2>1 DEF Typed
  <2>2. built'[l] = TRUE
    BY <1>1 DEF Typed
  <2>3. \A u \in Thread : stack[u] # <<>> /\ stack[u][1].lazy # l => stack'[u] = stack[u]
    BY <1>2, <1>4 DEF Moved
  <2> QED
    BY <1>1, <1>4, <2>1, <2>2, <2>3 DEF IInv, LazyInv
<1>9. Typed'
  BY <1>1, <1>2 DEF Typed, Moved
<1> QED
  BY <1>3, <1>7, <1>8, <1>9 DEF IInv

LEMMA UnlockStep ==
  ASSUME Parameters, IInv, NEW t \in Thread, NEW l \in Lazies, Unlock(t, l)
  PROVE  IInv'
<1>1. /\ At(t, l, "unlock") /\ Goes(t, "read") /\ Typed
      /\ owner' = [owner EXCEPT ![l] = None]
      /\ UNCHANGED <<built, value, builds, got>> /\ "unlock" \in Locked /\ "read" \notin Locked
  BY DEF Unlock, IInv, Locked
<1>2. Moved(t, "read")
  BY <1>1, GoesIs DEF Places
<1>3. StackInv'
  BY <1>1, <1>2, StackStep
<1>4. stack[t][1].lazy = l /\ built[l]
  BY <1>1, HeadIs DEF IInv, FitsInv, Fits
<1>5. \A u \in Thread : \A i \in 1 .. Len(stack[u]) :
        u # t \/ i # 1 => Fits(u, stack[u][i], owner', built', builds')
  <2> SUFFICES ASSUME NEW u \in Thread, NEW i \in 1 .. Len(stack[u]), u # t \/ i # 1
               PROVE  Fits(u, stack[u][i], owner', built', builds')
    OBVIOUS
  <2>1. stack[u][i].lazy \in Lazies /\ Fits(u, stack[u][i], owner, built, builds)
    BY <1>1, CallsIn DEF IInv, FitsInv
  <2>2. CASE stack[u][i].lazy = l
    <3>1. stack[u][i].at \notin Locked
      BY <1>1, <2>2, OneHolds
    <3> QED
      BY <1>1, <2>1, <3>1 DEF Fits
  <2>3. CASE stack[u][i].lazy # l
    BY <1>1, <2>1, <2>3 DEF Fits, Typed
  <2> QED
    BY <2>2, <2>3
<1>6. Fits(t, stack'[t][1], owner', built', builds')
  BY <1>1, <1>2, <1>4 DEF Fits, Moved
<1>7. FitsInv'
  BY <1>1, <1>2, <1>5, <1>6, FitsStep
<1>8. LazyInv'
  <2>1. \A u \in Thread : stack[u] # <<>> /\ stack[u][1].at = "flag" => stack'[u] = stack[u]
    BY <1>1, <1>2, HeadIs DEF Moved
  <2> QED
    BY <1>1, <2>1 DEF IInv, LazyInv
<1>9. Typed'
  BY <1>1, <1>2 DEF Typed, Moved
<1> QED
  BY <1>3, <1>7, <1>8, <1>9 DEF IInv

LEMMA BuilderStep ==
  ASSUME IInv, NEW t \in Thread, NEW l \in Lazies, NEW n \in Lazies, Builder(t, l, n)
  PROVE  IInv'
<1> DEFINE s == stack[t]
           h == [Head(s) EXCEPT !.unread = @ \ {n}]
           r == <<Call(n), h>> \o Tail(s)
<1>1. /\ At(t, l, "build") /\ Typed /\ stack' = [stack EXCEPT ![t] = r]
      /\ UNCHANGED <<owner, built, value, builds, got>>
  <2>1. stack' = [stack EXCEPT ![t] = r]
    BY DEF Builder
  <2> QED
    BY <2>1 DEF Builder, IInv
<1>2. /\ s \in Seq(Frame) /\ Len(s) \in Nat /\ 1 \in 1 .. Len(s) /\ s[1] \in Frame
      /\ s # <<>> /\ s[1].lazy = l /\ s[1].at = "build"
  BY <1>1, HeadIs DEF At
<1>3. h \in Frame /\ h.lazy = l /\ h.at = "build"
  <2>1. Head(s) = s[1]
    BY <1>1, HeadIs
  <2> QED
    BY <1>2, <2>1 DEF Frame
<1>4. Call(n) \in Frame /\ Call(n).at = "check"
  BY DEF Call, Frame, Places
<1> HIDE DEF h
<1>5. /\ r \in Seq(Frame) /\ Len(r) = Len(s) + 1 /\ r[1] = Call(n) /\ r[2] = h
      /\ \A i \in 3 .. Len(r) : r[i] = s[i - 1]
  <2>1. /\ Tail(s) \in Seq(Frame) /\ Len(Tail(s)) = Len(s) - 1
        /\ \A i \in 1 .. Len(Tail(s)) : Tail(s)[i] = s[i + 1]
    BY <1>2
  <2> DEFINE q == Tail(s)
  <2> HIDE DEF q
  <2>2. /\ <<Call(n), h>> \o q \in Seq(Frame) /\ Len(<<Call(n), h>> \o q) = 2 + Len(q)
        /\ (<<Call(n), h>> \o q)[1] = Call(n) /\ (<<Call(n), h>> \o q)[2] = h
        /\ \A i \in 3 .. 2 + Len(q) : (<<Call(n), h>> \o q)[i] = q[i - 2]
    BY <1>3, <1>4, <2>1 DEF q
  <2>3. \A i \in 3 .. Len(s) + 1 : q[i - 2] = s[i - 1]
    <3> SUFFICES ASSUME NEW i \in 3 .. Len(s) + 1 PROVE q[i - 2] = s[i - 1]
      OBVIOUS
    <3>1. i - 2 \in 1 .. Len(q) /\ (i - 2) + 1 = i - 1
      BY <1>2, <2>1 DEF q
    <3> QED
      BY <2>1, <3>1 DEF q
  <2> QED
    BY <1>2, <2>1, <2>2, <2>3 DEF q
<1> HIDE DEF r
<1>6. Typed' /\ stack'[t] = r /\ \A u \in Thread \ {t} : stack'[u] = stack[u]
  BY <1>1, <1>5 DEF Typed
<1>7. \A i \in 1 .. Len(r) :
        \/ i = 1 /\ r[i].at = "check"
        \/ i = 2 /\ r[i].at = s[1].at /\ r[i].lazy = s[1].lazy
        \/ i \in 3 .. Len(r) /\ i - 1 \in 2 .. Len(s) /\ r[i] = s[i - 1]
  <2> SUFFICES ASSUME NEW i \in 1 .. Len(r)
               PROVE  \/ i = 1 /\ r[i].at = "check"
                      \/ i = 2 /\ r[i].at = s[1].at /\ r[i].lazy = s[1].lazy
                      \/ i \in 3 .. Len(r) /\ i - 1 \in 2 .. Len(s) /\ r[i] = s[i - 1]
    OBVIOUS
  <2>1. i = 1 \/ i = 2 \/ (i \in 3 .. Len(r) /\ i - 1 \in 2 .. Len(s))
    BY <1>2, <1>5
  <2> QED
    BY <1>2, <1>3, <1>4, <1>5, <2>1
<1>8. FitsInv'
  <2> SUFFICES ASSUME NEW u \in Thread, NEW i \in 1 .. Len(stack'[u])
               PROVE  Fits(u, stack'[u][i], owner', built', builds')
    BY DEF FitsInv
  <2>1. CASE u # t
    BY <1>1, <1>6, <2>1 DEF IInv, FitsInv
  <2>2. CASE u = t
    <3>1. \A j \in 1 .. Len(s) : Fits(t, s[j], owner, built, builds)
      BY DEF IInv, FitsInv
    <3>2. CASE i = 1 /\ r[i].at = "check"
      BY <1>6, <2>2, <3>2 DEF Fits, Locked
    <3>3. CASE r[i].at = s[1].at /\ r[i].lazy = s[1].lazy
      BY <1>1, <1>2, <1>6, <2>2, <3>1, <3>3 DEF Fits
    <3>4. CASE i - 1 \in 2 .. Len(s) /\ r[i] = s[i - 1]
      BY <1>1, <1>2, <1>6, <2>2, <3>1, <3>4
    <3> QED
      BY <1>6, <1>7, <2>2, <3>2, <3>3, <3>4
  <2> QED
    BY <2>1, <2>2
<1>9. StackInv'
  <2> SUFFICES ASSUME NEW u \in Thread
               PROVE  /\ \A i \in 2 .. Len(stack'[u]) : stack'[u][i].at = "build"
                      /\ \A i, j \in 1 .. Len(stack'[u]) :
                           /\ stack'[u][i].at \in Locked /\ stack'[u][j].at \in Locked
                           /\ stack'[u][i].lazy = stack'[u][j].lazy
                           => i = j
    BY DEF StackInv
  <2>1. CASE u # t
    BY <1>6, <2>1 DEF IInv, StackInv
  <2>2. CASE u = t
    <3>1. \A i \in 2 .. Len(s) : s[i].at = "build"
      BY DEF IInv, StackInv
    <3>2. \A i \in 2 .. Len(r) : i \in 1 .. Len(r) /\ i # 1
      BY <1>2, <1>5
    <3>3. \A i \in 2 .. Len(r) : r[i].at = "build"
      BY <1>2, <1>7, <3>1, <3>2
    <3>4. \A i \in 1 .. Len(r) : r[i].at \in Locked =>
            i - 1 \in 1 .. Len(s) /\ r[i].at = s[i - 1].at /\ r[i].lazy = s[i - 1].lazy
      <4> SUFFICES ASSUME NEW i \in 1 .. Len(r), r[i].at \in Locked
                   PROVE  i - 1 \in 1 .. Len(s) /\ r[i].at = s[i - 1].at /\ r[i].lazy = s[i - 1].lazy
        OBVIOUS
      <4>1. i # 1
        BY <1>7 DEF Locked
      <4>2. i - 1 \in 1 .. Len(s)
        BY <1>2, <1>5, <4>1
      <4>3. CASE i = 2
        <5>1. i - 1 = 1
          BY <4>3
        <5> QED
          BY <1>7, <4>2, <4>3, <5>1
      <4>4. CASE i # 2
        BY <1>7, <4>1, <4>2, <4>4
      <4> QED
        BY <4>3, <4>4
    <3>5. \A i, j \in 1 .. Len(r) : i - 1 = j - 1 => i = j
      BY <1>2, <1>5
    <3>6. \A i, j \in 1 .. Len(s) :
            s[i].at \in Locked /\ s[j].at \in Locked /\ s[i].lazy = s[j].lazy => i = j
      BY DEF IInv, StackInv
    <3>7. \A i, j \in 1 .. Len(r) :
            r[i].at \in Locked /\ r[j].at \in Locked /\ r[i].lazy = r[j].lazy => i = j
      <4> SUFFICES ASSUME NEW i \in 1 .. Len(r), NEW j \in 1 .. Len(r),
                          r[i].at \in Locked, r[j].at \in Locked, r[i].lazy = r[j].lazy
                   PROVE  i = j
        OBVIOUS
      <4>1. i - 1 = j - 1
        BY <3>4, <3>6
      <4> QED
        BY <3>5, <4>1
    <3> QED
      BY <1>6, <2>2, <3>3, <3>7
  <2> QED
    BY <2>1, <2>2
<1>10. LazyInv'
  <2>1. \A u \in Thread : stack[u] # <<>> /\ stack[u][1].at = "flag" => stack'[u] = stack[u]
    BY <1>2, <1>6
  <2> QED
    BY <1>1, <2>1 DEF IInv, LazyInv
<1> QED
  BY <1>6, <1>8, <1>9, <1>10 DEF IInv

LEMMA ReadStep ==
  ASSUME IInv, NEW t \in Thread, NEW l \in Lazies, Read(t, l)
  PROVE  IInv'
<1> DEFINE s == stack[t]
           r == Tail(s)
<1>1. /\ At(t, l, "read") /\ Typed /\ stack' = [stack EXCEPT ![t] = r]
      /\ got' = [got EXCEPT ![l] = @ \cup {value[l]}]
      /\ UNCHANGED <<owner, built, value, builds>>
  BY DEF Read, IInv
<1>2. /\ s \in Seq(Frame) /\ Len(s) \in Nat /\ 1 \in 1 .. Len(s) /\ s # <<>>
      /\ s[1].lazy = l /\ s[1].at = "read"
  BY <1>1, HeadIs DEF At
<1>3. /\ r \in Seq(Frame) /\ Len(r) = Len(s) - 1
      /\ \A i \in 1 .. Len(r) : i + 1 \in 2 .. Len(s) /\ r[i] = s[i + 1]
  BY <1>2
<1> HIDE DEF r
<1>4. Typed' /\ stack'[t] = r /\ \A u \in Thread \ {t} : stack'[u] = stack[u]
  BY <1>1, <1>3 DEF Typed
<1>5. \A i \in 2 .. Len(s) : i \in 1 .. Len(s)
  BY <1>2
<1>6. FitsInv'
  <2> SUFFICES ASSUME NEW u \in Thread, NEW i \in 1 .. Len(stack'[u])
               PROVE  Fits(u, stack'[u][i], owner', built', builds')
    BY DEF FitsInv
  <2>1. CASE u # t
    BY <1>1, <1>4, <2>1 DEF IInv, FitsInv
  <2>2. CASE u = t
    BY <1>1, <1>3, <1>4, <1>5, <2>2 DEF IInv, FitsInv
  <2> QED
    BY <2>1, <2>2
<1>7. StackInv'
  <2> SUFFICES ASSUME NEW u \in Thread
               PROVE  /\ \A i \in 2 .. Len(stack'[u]) : stack'[u][i].at = "build"
                      /\ \A i, j \in 1 .. Len(stack'[u]) :
                           /\ stack'[u][i].at \in Locked /\ stack'[u][j].at \in Locked
                           /\ stack'[u][i].lazy = stack'[u][j].lazy
                           => i = j
    BY DEF StackInv
  <2>1. CASE u # t
    BY <1>4, <2>1 DEF IInv, StackInv
  <2>2. CASE u = t
    <3>1. \A i \in 2 .. Len(s) : s[i].at = "build"
      BY DEF IInv, StackInv
    <3>2. \A i \in 2 .. Len(r) : i \in 1 .. Len(r)
      BY <1>2, <1>3
    <3>3. \A i \in 2 .. Len(r) : r[i].at = "build"
      BY <1>3, <3>1, <3>2
    <3>4. \A i, j \in 1 .. Len(r) : i + 1 = j + 1 => i = j
      BY <1>2, <1>3
    <3>5. \A i, j \in 1 .. Len(s) :
            s[i].at \in Locked /\ s[j].at \in Locked /\ s[i].lazy = s[j].lazy => i = j
      BY DEF IInv, StackInv
    <3>6. \A i, j \in 1 .. Len(r) :
            r[i].at \in Locked /\ r[j].at \in Locked /\ r[i].lazy = r[j].lazy => i = j
      BY <1>3, <1>5, <3>4, <3>5
    <3> QED
      BY <1>4, <2>2, <3>3, <3>6
  <2> QED
    BY <2>1, <2>2
<1>8. LazyInv'
  <2>1. \A u \in Thread : stack[u] # <<>> /\ stack[u][1].at = "flag" => stack'[u] = stack[u]
    BY <1>2, <1>4
  <2>2. built[l]
    BY <1>2 DEF IInv, FitsInv, Fits
  <2>3. value[l] = 1 /\ got[l] \subseteq {1}
    BY <2>2 DEF IInv, LazyInv
  <2>4. got'[l] = {1}
    BY <1>1, <2>3 DEF Typed
  <2>5. ASSUME NEW m \in Lazies, m # l PROVE got'[m] = got[m]
    BY <1>1, <2>5 DEF Typed
  <2> QED
    BY <1>1, <2>1, <2>2, <2>4, <2>5 DEF IInv, LazyInv
<1>9. got' \in [Lazies -> SUBSET Nat]
  BY <1>1 DEF Typed
<1> QED
  BY <1>4, <1>6, <1>7, <1>8 DEF IInv

\* The thread has no call left, or one that has just begun.
LEMMA EmptyStep ==
  ASSUME IInv, NEW t \in Thread, NEW r, r = <<>> \/ \E l \in Lazies : r = <<Call(l)>>,
         stack' = [stack EXCEPT ![t] = r],
         stack[t] # <<>> => stack[t][1].at # "flag",
         owner' \in [Lazies -> Thread \cup {None}],
         \A u \in Thread \ {t} : \A i \in 1 .. Len(stack[u]) :
           stack[u][i].at \in Locked =>
             owner'[stack[u][i].lazy] = owner[stack[u][i].lazy],
         UNCHANGED <<built, value, builds, got>>
  PROVE  IInv'
<1>1. /\ r \in Seq(Frame) /\ Len(r) \in {0, 1}
      /\ \A i \in 1 .. Len(r) : i = 1 /\ r[i].at = "check"
  <2>1. \A l \in Lazies : Call(l) \in Frame /\ Call(l).at = "check"
    BY DEF Call, Frame, Places
  <2>2. CASE r = <<>>
    BY <2>2
  <2>3. ASSUME NEW l \in Lazies, r = <<Call(l)>>
        PROVE  /\ r \in Seq(Frame) /\ Len(r) \in {0, 1}
               /\ \A i \in 1 .. Len(r) : i = 1 /\ r[i].at = "check"
    <3>1. r \in Seq(Frame) /\ Len(r) = 1 /\ r[1] = Call(l)
      BY <2>1, <2>3
    <3>2. \A i \in 1 .. 1 : i = 1
      OBVIOUS
    <3> QED
      BY <2>1, <3>1, <3>2
  <2> QED
    BY <2>2, <2>3
<1>2. Typed' /\ stack'[t] = r /\ \A u \in Thread \ {t} : stack'[u] = stack[u]
  BY <1>1 DEF IInv, Typed
<1>3. FitsInv'
  <2> SUFFICES ASSUME NEW u \in Thread, NEW i \in 1 .. Len(stack'[u])
               PROVE  Fits(u, stack'[u][i], owner', built', builds')
    BY DEF FitsInv
  <2>1. CASE u = t
    BY <1>1, <1>2, <2>1 DEF Fits, Locked
  <2>2. CASE u # t
    BY <1>2, <2>2 DEF IInv, FitsInv, Fits
  <2> QED
    BY <2>1, <2>2
<1>4. StackInv'
  <2>1. \A i \in 2 .. Len(r) : FALSE
    BY <1>1
  <2>2. \A i, j \in 1 .. Len(r) : i = j
    BY <1>1
  <2> QED
    BY <1>2, <2>1, <2>2 DEF IInv, StackInv
<1>5. LazyInv'
  <2>1. \A u \in Thread : stack[u] # <<>> /\ stack[u][1].at = "flag" => stack'[u] = stack[u]
    BY <1>2
  <2> QED
    BY <2>1 DEF IInv, LazyInv
<1> QED
  BY <1>2, <1>3, <1>4, <1>5 DEF IInv

LEMMA UsesStep ==
  ASSUME IInv, NEW t \in Thread, NEW l \in Lazies, Uses(t, l)
  PROVE  IInv'
BY EmptyStep DEF Uses, IInv, Typed

LEMMA RaisesStep ==
  ASSUME Parameters, IInv, NEW t \in Thread, NEW l \in Lazies, Raises(t, l)
  PROVE  IInv'
<1>1. /\ At(t, l, "build") /\ Typed /\ stack' = [stack EXCEPT ![t] = <<>>]
      /\ owner' = [m \in Lazies |-> IF m \in Holds(t) THEN None ELSE owner[m]]
      /\ UNCHANGED <<built, value, builds, got>>
  BY DEF Raises, IInv
<1>2. stack[t][1].at # "flag"
  BY <1>1, HeadIs
<1>3. owner' \in [Lazies -> Thread \cup {None}]
  BY <1>1 DEF Typed
<1>4. \A m \in Holds(t) : owner[m] = t
  BY DEF Holds, IInv, FitsInv, Fits
<1>5. ASSUME NEW u \in Thread \ {t}, NEW i \in 1 .. Len(stack[u]), stack[u][i].at \in Locked
      PROVE  owner'[stack[u][i].lazy] = owner[stack[u][i].lazy]
  <2>1. stack[u][i].lazy \in Lazies /\ owner[stack[u][i].lazy] = u
    BY <1>1, <1>5, CallsIn DEF IInv, FitsInv, Fits
  <2> QED
    BY <1>1, <1>4, <2>1
<1> QED
  BY <1>1, <1>2, <1>3, <1>5, EmptyStep
-----------------------------------------------------------------------------
(* The theorem. *)

LEMMA InitHolds == Init => IInv
BY DEF Init, IInv, Typed, FitsInv, StackInv, LazyInv

LEMMA StepHolds ==
  ASSUME Parameters
  PROVE  IInv /\ [Next]_vars => IInv'
<1> SUFFICES ASSUME IInv, [Next]_vars PROVE IInv'
  OBVIOUS
<1>1. CASE UNCHANGED vars
  <2>1. UNCHANGED <<stack, owner, built, value, builds, got>>
    BY <1>1 DEF vars
  <2>2. Typed' /\ FitsInv'
    BY <2>1 DEF IInv, Typed, FitsInv
  <2>3. StackInv'
    BY <2>1 DEF IInv, StackInv
  <2>4. LazyInv'
    BY <2>1 DEF IInv, LazyInv
  <2> QED
    BY <2>2, <2>3, <2>4 DEF IInv
<1>2. ASSUME NEW t \in Thread, NEW l \in Lazies,
             \/ Check(t, l) \/ Lock(t, l) \/ Again(t, l) \/ Build(t, l) \/ Raises(t, l)
             \/ Flag(t, l) \/ Unlock(t, l) \/ Read(t, l) \/ Uses(t, l)
      PROVE  IInv'
  BY <1>2, CheckStep, LockStep, AgainStep, BuildStep, RaisesStep, FlagStep, UnlockStep,
     ReadStep, UsesStep
<1>3. ASSUME NEW t \in Thread, NEW l \in Lazies, NEW n \in Lazies, Builder(t, l, n)
      PROVE  IInv'
  BY <1>3, BuilderStep
<1> QED
  BY <1>1, <1>2, <1>3 DEF Next, Steps

LEMMA Invariance ==
  ASSUME Parameters
  PROVE  Spec => []IInv
  BY InitHolds, StepHolds, PTL DEF Spec

LEMMA Implies == IInv => BuiltOnce
<1> SUFFICES ASSUME IInv, NEW l \in Lazies
             PROVE  builds[l] <= 1 /\ got[l] \subseteq {value[l]} \ {0}
  BY DEF BuiltOnce
<1>1. builds[l] = 0 \/ builds[l] = 1
  BY DEF IInv, LazyInv
<1>2. got[l] = {} \/ (got[l] = {1} /\ value[l] = 1)
  BY DEF IInv, LazyInv
<1> QED
  BY <1>1, <1>2

THEOREM OnceBuilt ==
  ASSUME Parameters
  PROVE  Spec => []BuiltOnce
  BY Implies, Invariance, PTL
===============================================================================
