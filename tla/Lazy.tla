--------------------------------- MODULE Lazy ---------------------------------
(***************************************************************************)
(* Values built on first use (utils/lazy.py): a Lazy is read by any        *)
(* thread, and the first to find it not built builds it under its lock,    *)
(* reading the Lazies that its builder needs, each of which may have to be *)
(* built too.  A builder that raises leaves it not built.                  *)
(***************************************************************************)
EXTENDS Integers, Sequences, FiniteSets

CONSTANTS
  Thread,
  Lazies,
  Needs,             \* Needs[l]: the Lazies that l's builder reads
  None,
  MaxReads           \* a thread's own reads, those of builders apart

Parameters ==
  /\ Needs \in [Lazies -> SUBSET Lazies]
  \* No builder reads its own Lazy, by way of others either
  /\ \E rank \in [Lazies -> 1 .. Cardinality(Lazies)] :
       \A l \in Lazies : \A n \in Needs[l] : rank[n] < rank[l]
  /\ None \notin Thread
  /\ MaxReads \in Nat

VARIABLES
  stack,             \* stack[t]: its calls of _get(), the innermost first:
                     \* [lazy, at, unread], those that its builder is yet to read
  owner,             \* owner[l]: the thread that has l's lock, or None
  built,             \* Lazy._built
  value,             \* Lazy._value: which of l's builds made it; 0 for None
  builds,            \* builds[l]: times that its builder has returned
  reads,             \* reads[t]: made so far
  got                \* got[l]: for the properties: what readers were given

vars == <<stack, owner, built, value, builds, reads, got>>

Places == {"check", "lock", "again", "build", "flag", "unlock", "read"}
Locked == {"again", "build", "flag", "unlock"}

Call(l) == [lazy |-> l, at |-> "check", unread |-> {}]

TypeOK ==
  /\ \A t \in Thread : \A i \in 1 .. Len(stack[t]) :
       stack[t][i] \in [lazy : Lazies, at : Places, unread : SUBSET Lazies]
  /\ \A l \in Lazies : owner[l] \in Thread \cup {None}
  /\ \A t \in Thread, l \in Lazies :
       owner[l] = t <=> \E i \in 1 .. Len(stack[t]) :
                          stack[t][i].lazy = l /\ stack[t][i].at \in Locked
  /\ built \in [Lazies -> BOOLEAN]
  /\ value \in [Lazies -> Nat] /\ builds \in [Lazies -> Nat]
  /\ reads \in [Thread -> 0 .. MaxReads]
  /\ got \in [Lazies -> SUBSET Nat]

Init ==
  /\ stack = [t \in Thread |-> <<>>]
  /\ owner = [l \in Lazies |-> None]
  /\ built = [l \in Lazies |-> FALSE]
  /\ value = [l \in Lazies |-> 0] /\ builds = [l \in Lazies |-> 0]
  /\ reads = [t \in Thread |-> 0]
  /\ got = [l \in Lazies |-> {}]
-----------------------------------------------------------------------------
(* _get(), in a thread t whose innermost call is of l. *)

At(t, l, place) == stack[t] # <<>> /\ Head(stack[t]).lazy = l /\ Head(stack[t]).at = place

Goes(t, place) == stack' = [stack EXCEPT ![t][1].at = place]

Uses(t, l) ==
  /\ stack[t] = <<>> /\ reads[t] < MaxReads
  /\ stack' = [stack EXCEPT ![t] = <<Call(l)>>]
  /\ reads' = [reads EXCEPT ![t] = @ + 1]
  /\ UNCHANGED <<owner, built, value, builds, got>>

Check(t, l) ==
  /\ At(t, l, "check")
  /\ Goes(t, IF built[l] THEN "read" ELSE "lock")
  /\ UNCHANGED <<owner, built, value, builds, reads, got>>

Lock(t, l) ==
  /\ At(t, l, "lock") /\ owner[l] = None
  /\ owner' = [owner EXCEPT ![l] = t]
  /\ Goes(t, "again")
  /\ UNCHANGED <<built, value, builds, reads, got>>

\* Mutant: whether it is built is not asked again.
Again_NotAsked(t, l) ==
  /\ At(t, l, "again")
  /\ stack' = [stack EXCEPT ![t][1].at = "build", ![t][1].unread = Needs[l]]
  /\ UNCHANGED <<owner, built, value, builds, reads, got>>

Again(t, l) ==
  /\ At(t, l, "again")
  /\ stack' = IF built[l] THEN [stack EXCEPT ![t][1].at = "unlock"]
              ELSE [stack EXCEPT ![t][1].at = "build", ![t][1].unread = Needs[l]]
  /\ UNCHANGED <<owner, built, value, builds, reads, got>>

\* The builder reads another
Builder(t, l, n) ==
  /\ At(t, l, "build") /\ n \in Head(stack[t]).unread
  /\ LET reading == [Head(stack[t]) EXCEPT !.unread = @ \ {n}] IN
       stack' = [stack EXCEPT ![t] = <<Call(n), reading>> \o Tail(@)]
  /\ UNCHANGED <<owner, built, value, builds, reads, got>>

\* It returns, and _value is set
Build(t, l) ==
  /\ At(t, l, "build") /\ Head(stack[t]).unread = {}
  /\ builds' = [builds EXCEPT ![l] = @ + 1]
  /\ value' = [value EXCEPT ![l] = builds'[l]]
  /\ Goes(t, "flag")
  /\ UNCHANGED <<owner, built, reads, got>>

Holds(t) == {stack[t][i].lazy : i \in {j \in 1 .. Len(stack[t]) : stack[t][j].at \in Locked}}

\* Mutant: the lock is not released by a builder that raises.
Raises_Locked(t, l) ==
  /\ At(t, l, "build") /\ Head(stack[t]).unread = {}
  /\ stack' = [stack EXCEPT ![t] = <<>>]
  /\ UNCHANGED <<owner, built, value, builds, reads, got>>

\* It raises, through every builder that was reading it, and each lock is released
Raises(t, l) ==
  /\ At(t, l, "build") /\ Head(stack[t]).unread = {}
  /\ owner' = [m \in Lazies |-> IF m \in Holds(t) THEN None ELSE owner[m]]
  /\ stack' = [stack EXCEPT ![t] = <<>>]
  /\ UNCHANGED <<built, value, builds, reads, got>>

\* _built is set
Flag(t, l) ==
  /\ At(t, l, "flag")
  /\ built' = [built EXCEPT ![l] = TRUE]
  /\ Goes(t, "unlock")
  /\ UNCHANGED <<owner, value, builds, reads, got>>

Unlock(t, l) ==
  /\ At(t, l, "unlock")
  /\ owner' = [owner EXCEPT ![l] = None]
  /\ Goes(t, "read")
  /\ UNCHANGED <<built, value, builds, reads, got>>

Read(t, l) ==
  /\ At(t, l, "read")
  /\ got' = [got EXCEPT ![l] = @ \cup {value[l]}]
  /\ stack' = [stack EXCEPT ![t] = Tail(@)]
  /\ UNCHANGED <<owner, built, value, builds, reads>>

Steps(t) == \E l \in Lazies :
  \/ Check(t, l) \/ Lock(t, l) \/ Again(t, l) \/ Build(t, l) \/ Raises(t, l)
  \/ Flag(t, l) \/ Unlock(t, l) \/ Read(t, l)
  \/ \E n \in Lazies : Builder(t, l, n)

Next == \E t \in Thread : Steps(t) \/ \E l \in Lazies : Uses(t, l)

Spec == Init /\ [][Next]_vars /\ \A t \in Thread : WF_vars(Steps(t))
-----------------------------------------------------------------------------
(* What it is meant to ensure. *)

\* However many threads use a Lazy at once, it is built once, and each is given
\* what was built: only a builder that raised is called again.
BuiltOnce ==
  \A l \in Lazies : builds[l] <= 1 /\ got[l] \subseteq {value[l]} \ {0}

\* Every use of a Lazy ends, in its value or in its builder's exception,
\* whatever locks its builder's reads take.
Using(t) == stack[t] # <<>>
UsesEnd == \A t \in Thread : Using(t) ~> ~Using(t)
=============================================================================
