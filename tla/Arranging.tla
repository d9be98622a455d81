------------------------------- MODULE Arranging -----------------------------
(***************************************************************************)
(* What a command has of a sequence, arranged by a key: 'list.sort()',     *)
(* and the dictionaries that keep a thing where it was first put.          *)
(***************************************************************************)
EXTENDS Integers, Sequences, FiniteSets

\* What a sequence has at some places, by the keys of the places and then as it has them
Arranged(s, places, key) ==
  LET rank == [i \in places |->
                 Cardinality({j \in places : key[j] < key[i] \/ (key[j] = key[i] /\ j <= i)})]
  IN  [n \in 1 .. Cardinality(places) |-> s[CHOOSE i \in places : rank[i] = n]]

Picked(s, places) == Arranged(s, places, [i \in places |-> 0])

\* Where a sequence has what it has not had before
Firsts(s) == {i \in DOMAIN s : \A j \in 1 .. i - 1 : s[j] # s[i]}
=============================================================================
