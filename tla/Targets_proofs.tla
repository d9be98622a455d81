---------------------------- MODULE Targets_proofs ----------------------------
(***************************************************************************)
(* What the commands of Targets promise, for every value of its constants  *)
(* that their parameters allow: each is shown of the component that keeps  *)
(* it, and of the whole because a behaviour is that of one component.      *)
(***************************************************************************)
EXTENDS Targets, Arranging, FiniteSetTheorems, SequenceTheorems, TLAPS

(* Natural numbers. *)

\* A set of them has a least one.
LEMMA Earliest ==
  ASSUME NEW T \in SUBSET Nat, T # {}
  PROVE  \E m \in T : \A k \in T : m <= k
<1> DEFINE F == {0 .. n : n \in T}
<1>1. F \subseteq FiniteSubsetsOf(Nat) /\ F # {}
  <2>1. \A n \in Nat : 0 .. n \in FiniteSubsetsOf(Nat)
    BY FS_Interval DEF FiniteSubsetsOf
  <2> QED
    BY <2>1
<1>2. IsWellFoundedOn(StrictSubsetOrdering(Nat), FiniteSubsetsOf(Nat))
  BY FS_StrictSubsetOrderingWellFounded
<1> HIDE DEF F
<1>3. PICK X \in F : \A Y \in F : <<Y, X>> \notin StrictSubsetOrdering(Nat)
  BY <1>1, <1>2, WFMin
<1>4. PICK m \in T : X = 0 .. m
  BY DEF F
<1>5. ASSUME NEW k \in T, k < m PROVE FALSE
  <2>1. 0 .. k \in F /\ 0 .. k \subseteq 0 .. m /\ m \notin 0 .. k /\ m \in 0 .. m
    BY <1>5 DEF F
  <2>2. 0 .. k # 0 .. m
    BY <2>1
  <2>3. <<0 .. k, 0 .. m>> \in (SUBSET Nat) \X (SUBSET Nat)
    OBVIOUS
  <2> QED
    BY <2>1, <2>2, <2>3, <1>3, <1>4 DEF StrictSubsetOrdering
<1> QED
  BY <1>5

\* The quotient and the remainder of a division.
LEMMA Quotient ==
  ASSUME NEW x \in Nat, NEW n \in Nat \ {0}
  PROVE  /\ x \div n \in Nat /\ x % n \in 0 .. n - 1
         /\ x = (n * (x \div n)) + (x % n)
  OBVIOUS

LEMMA Below ==
  ASSUME NEW n \in Nat \ {0}, NEW m \in Nat, NEW q \in Nat, NEW r \in 0 .. n - 1,
         (n * q) + r < n * m
  PROVE  q < m
  BY Z3

LEMMA OnePlace ==
  ASSUME NEW n \in Nat \ {0}, NEW q \in Nat, NEW p \in Nat, NEW r \in 0 .. n - 1,
         NEW s \in 0 .. n - 1, (n * q) + r = (n * p) + s
  PROVE  q = p /\ r = s
  BY Z3

LEMMA AtPlace ==
  ASSUME NEW n \in Nat \ {0}, NEW m \in Nat, NEW q \in 0 .. m - 1, NEW r \in 0 .. n - 1
  PROVE  (n * q) + r \in Nat /\ (n * q) + r < n * m
  BY Z3
-----------------------------------------------------------------------------
(* The places of a sequence, in an order. *)

\* No two of a finite set of places have the same rank, by a key of theirs and then as
\* they come, and each rank is one's.
LEMMA Ranked ==
  ASSUME NEW P \in SUBSET Nat, IsFiniteSet(P), NEW key \in [P -> Nat]
  PROVE  LET rank == [i \in P |->
                        Cardinality({j \in P : key[j] < key[i] \/ (key[j] = key[i] /\ j <= i)})]
         IN  /\ \A n \in 1 .. Cardinality(P) : \E i \in P : rank[i] = n
             /\ \A i \in P : rank[i] \in 1 .. Cardinality(P)
             /\ \A i, j \in P : rank[i] = rank[j] => i = j
<1> DEFINE before(i) == {j \in P : key[j] < key[i] \/ (key[j] = key[i] /\ j <= i)}
           rank == [i \in P |-> Cardinality(before(i))]
           n == Cardinality(P)
<1>1. ASSUME NEW i \in P
      PROVE  /\ before(i) \in SUBSET P /\ i \in before(i) /\ IsFiniteSet(before(i))
             /\ rank[i] \in 1 .. n
  <2>1. before(i) \in SUBSET P /\ i \in before(i)
    OBVIOUS
  <2>2. IsFiniteSet(before(i)) /\ Cardinality(before(i)) <= Cardinality(P)
    BY <2>1, FS_Subset
  <2>3. Cardinality(before(i)) \in Nat /\ Cardinality(P) \in Nat
    BY <2>2, FS_CardinalityType
  <2>4. Cardinality(before(i)) # 0
    BY <2>1, <2>2, FS_EmptySet
  <2>5. QED
    BY <2>1, <2>2, <2>3, <2>4
<1>2. ASSUME NEW i \in P, NEW j \in P, key[i] < key[j] \/ (key[i] = key[j] /\ i < j)
      PROVE  rank[i] # rank[j]
  <2>1. before(i) \subseteq before(j)
    <3>1. ASSUME NEW k \in before(i) PROVE k \in before(j)
      <4>1. /\ key[i] \in Nat /\ key[j] \in Nat /\ key[k] \in Nat
            /\ i \in Nat /\ j \in Nat /\ k \in Nat /\ k \in P
        OBVIOUS
      <4>2. key[k] < key[i] \/ (key[k] = key[i] /\ k <= i)
        OBVIOUS
      <4>3. key[k] < key[j] \/ (key[k] = key[j] /\ k <= j)
        BY <1>2, <4>1, <4>2
      <4>4. QED
        BY <4>1, <4>3
    <3>2. QED
      BY <3>1
  <2>2. j \in before(j) /\ j \notin before(i)
    BY <1>2
  <2>3. IsFiniteSet(before(j)) /\ before(i) \in SUBSET before(j) /\ before(i) # before(j)
    BY <1>1, <2>1, <2>2
  <2>4. Cardinality(before(i)) # Cardinality(before(j))
    <3> HIDE DEF before
    <3>1. QED
      BY <2>3, FS_Subset
  <2>5. QED
    BY <2>4
<1>3. ASSUME NEW i \in P, NEW j \in P, i # j
      PROVE  rank[i] # rank[j]
  <2>1. i \in Nat /\ j \in Nat /\ key[i] \in Nat /\ key[j] \in Nat
    OBVIOUS
  <2>2. \/ key[i] < key[j] \/ (key[i] = key[j] /\ i < j)
        \/ key[j] < key[i] \/ (key[j] = key[i] /\ j < i)
    BY <1>3, <2>1
  <2> HIDE DEF rank
  <2>3. QED
    BY <1>2, <2>2
<1>4. rank \in [P -> 1 .. n]
  BY <1>1
<1> HIDE DEF rank
<1>5. rank \in Injection(P, 1 .. n)
  BY <1>3, <1>4 DEF Injection, IsInjective
<1>6. n \in Nat /\ IsFiniteSet(1 .. n) /\ Cardinality(1 .. n) = n
  <2>1. n \in Nat
    BY FS_CardinalityType
  <2> HIDE DEF n
  <2>2. QED
    BY <2>1, FS_Interval
<1>7. rank \in Surjection(P, 1 .. n)
  BY <1>5, <1>6, FS_Injection
<1>8. \A m \in 1 .. n : \E i \in P : rank[i] = m
  BY <1>7 DEF Surjection
<1>9. QED
  BY <1>3, <1>4, <1>8 DEF rank

\* What is arranged is what there is at the places, each once if it is there once.
LEMMA Arranges ==
  ASSUME NEW S, NEW s \in Seq(S), NEW P \in SUBSET DOMAIN s, NEW key \in [P -> Nat]
  PROVE  /\ Arranged(s, P, key) \in Seq(S)
         /\ {Arranged(s, P, key)[n] : n \in DOMAIN Arranged(s, P, key)} = {s[i] : i \in P}
         /\ (\A i, j \in P : s[i] = s[j] => i = j) =>
              \A m, n \in DOMAIN Arranged(s, P, key) :
                Arranged(s, P, key)[m] = Arranged(s, P, key)[n] => m = n
<1> DEFINE rank == [i \in P |->
                     Cardinality({j \in P : key[j] < key[i] \/ (key[j] = key[i] /\ j <= i)})]
           n == Cardinality(P)
           at == [k \in 1 .. n |-> CHOOSE i \in P : rank[i] = k]
           A == Arranged(s, P, key)
<1>1. P \in SUBSET Nat /\ IsFiniteSet(P) /\ n \in Nat
  <2>1. DOMAIN s = 1 .. Len(s) /\ Len(s) \in Nat
    OBVIOUS
  <2>2. IsFiniteSet(1 .. Len(s))
    BY <2>1, FS_Interval
  <2>3. IsFiniteSet(P)
    BY <2>1, <2>2, FS_Subset
  <2>4. QED
    BY <2>1, <2>3, FS_CardinalityType
<1>2. /\ \A k \in 1 .. n : \E i \in P : rank[i] = k
      /\ \A i \in P : rank[i] \in 1 .. n
      /\ \A i, j \in P : rank[i] = rank[j] => i = j
  BY <1>1, Ranked
<1>3. A = [k \in 1 .. n |-> s[at[k]]]
  BY DEF Arranged
<1> HIDE DEF rank, n, A
<1>4. \A k \in 1 .. n : at[k] \in P /\ rank[at[k]] = k
  BY <1>2
<1>5. \A i \in P : at[rank[i]] = i
  BY <1>2
<1> HIDE DEF at
<1>6. A \in Seq(S)
  <2>1. \A k \in 1 .. n : s[at[k]] \in S
    BY <1>4
  <2>2. QED
    BY <1>1, <1>3, <2>1
<1>7. {A[k] : k \in DOMAIN A} = {s[i] : i \in P}
  BY <1>2, <1>3, <1>4, <1>5
<1>8. ASSUME \A i, j \in P : s[i] = s[j] =>
         i = j, NEW k \in DOMAIN A, NEW m \in DOMAIN A, A[k] = A[m]
      PROVE  k = m
  BY <1>3, <1>4, <1>8
<1>9. QED
  BY <1>6, <1>7, <1>8 DEF A

LEMMA Picks ==
  ASSUME NEW S, NEW s \in Seq(S), NEW P \in SUBSET DOMAIN s
  PROVE  /\ Picked(s, P) \in Seq(S)
         /\ Range(Picked(s, P)) = {s[i] : i \in P}
         /\ (\A i, j \in P : s[i] = s[j] => i = j) =>
              \A m, n \in DOMAIN Picked(s, P) : Picked(s, P)[m] = Picked(s, P)[n] => m = n
<1> DEFINE key == [i \in P |-> 0]
<1>1. key \in [P -> Nat]
  OBVIOUS
<1>2. Picked(s, P) = Arranged(s, P, key)
  BY DEF Picked
<1> HIDE DEF key
<1>3. /\ Arranged(s, P, key) \in Seq(S)
      /\ {Arranged(s, P, key)[n] : n \in DOMAIN Arranged(s, P, key)} = {s[i] : i \in P}
      /\ (\A i, j \in P : s[i] = s[j] => i = j) =>
           \A m, n \in DOMAIN Arranged(s, P, key) :
             Arranged(s, P, key)[m] = Arranged(s, P, key)[n] => m = n
  BY <1>1, Arranges
<1>4. Range(Picked(s, P)) = {Picked(s, P)[n] : n \in DOMAIN Picked(s, P)}
  BY DEF Range
<1>5. QED
  BY <1>2, <1>3, <1>4

\* Each that a sequence has, once.
LEMMA FirstsOnce ==
  ASSUME NEW S, NEW s \in Seq(S)
  PROVE  /\ Picked(s, Firsts(s)) \in Seq(S)
         /\ Range(Picked(s, Firsts(s))) = Range(s)
         /\ \A m, n \in DOMAIN Picked(s, Firsts(s)) :
              Picked(s, Firsts(s))[m] = Picked(s, Firsts(s))[n] => m = n
<1> DEFINE P == Firsts(s)
<1>0. DOMAIN s = 1 .. Len(s) /\ Len(s) \in Nat /\ P \in SUBSET DOMAIN s
  BY DEF Firsts
<1>1. \A i, j \in P : s[i] = s[j] => i = j
  <2>1. ASSUME NEW i \in P, NEW j \in P, s[i] = s[j], i < j PROVE FALSE
    <3>1. i \in 1 .. j - 1
      BY <1>0, <2>1
    <3>2. QED
      BY <2>1, <3>1 DEF Firsts
  <2>2. ASSUME NEW i \in P, NEW j \in P PROVE i \in Nat /\ j \in Nat
    BY <1>0
  <2> HIDE DEF P
  <2>3. QED
    BY <2>1, <2>2
<1>2. \A i \in DOMAIN s : \E j \in P : s[j] = s[i]
  <2>1. ASSUME NEW i \in DOMAIN s PROVE \E j \in P : s[j] = s[i]
    <3> DEFINE T == {j \in DOMAIN s : s[j] = s[i]}
    <3>1. T \in SUBSET Nat /\ T # {}
      BY <1>0
    <3>2. PICK j \in T : \A k \in T : j <= k
      BY <3>1, Earliest
    <3>3. j \in P
      <4>1. ASSUME NEW k \in 1 .. j - 1 PROVE s[k] # s[j]
        <5>1. k \in DOMAIN s /\ ~(j <= k)
          BY <1>0
        <5>2. QED
          BY <3>2, <5>1
      <4>2. QED
        BY <4>1 DEF Firsts
    <3>4. QED
      BY <3>3
  <2>2. QED
    BY <2>1
<1> HIDE DEF P
<1>3. {s[i] : i \in P} = Range(s)
  BY <1>0, <1>2 DEF Range
<1>4. /\ Picked(s, P) \in Seq(S) /\ Range(Picked(s, P)) = {s[i] : i \in P}
      /\ \A m, n \in DOMAIN Picked(s, P) : Picked(s, P)[m] = Picked(s, P)[n] => m = n
  BY <1>0, <1>1, Picks
<1>5. QED
  BY <1>3, <1>4 DEF P
-----------------------------------------------------------------------------
(* Sequences without repetition. *)

LEMMA HeadAndTail ==
  ASSUME NEW S, NEW s \in Seq(S), s # <<>>
  PROVE  /\ Head(s) \in S /\ Tail(s) \in Seq(S) /\ Len(Tail(s)) = Len(s) - 1
         /\ Range(s) = {Head(s)} \cup Range(Tail(s))
         /\ (\A i, j \in DOMAIN s : s[i] = s[j] => i = j) =>
              /\ Head(s) \notin Range(Tail(s))
              /\ \A i, j \in DOMAIN Tail(s) : Tail(s)[i] = Tail(s)[j] => i = j
<1>1. /\ Len(s) \in Nat /\ Len(s) > 0 /\ DOMAIN s = 1 .. Len(s)
      /\ Head(s) = s[1] /\ Head(s) \in S
      /\ Tail(s) \in Seq(S) /\ Len(Tail(s)) = Len(s) - 1 /\ DOMAIN Tail(s) = 1 .. Len(s) - 1
      /\ \A k \in DOMAIN Tail(s) : Tail(s)[k] = s[k + 1]
  OBVIOUS
<1>2. Range(s) = {Head(s)} \cup Range(Tail(s))
  <2>1. ASSUME NEW k \in DOMAIN s PROVE s[k] \in {Head(s)} \cup Range(Tail(s))
    <3>1. CASE k = 1
      BY <1>1, <3>1
    <3>2. CASE k # 1
      <4>1. k - 1 \in DOMAIN Tail(s) /\ (k - 1) + 1 = k
        BY <1>1, <3>2
      <4>2. QED
        BY <1>1, <4>1 DEF Range
    <3>3. QED
      BY <3>1, <3>2
  <2>2. ASSUME NEW k \in DOMAIN Tail(s) PROVE Tail(s)[k] \in Range(s)
    <3>1. k + 1 \in DOMAIN s
      BY <1>1
    <3>2. QED
      BY <1>1, <3>1 DEF Range
  <2>3. Head(s) \in Range(s)
    BY <1>1 DEF Range
  <2>4. QED
    BY <2>1, <2>2, <2>3 DEF Range
<1>3. ASSUME \A i, j \in DOMAIN s : s[i] = s[j] => i = j
      PROVE  /\ Head(s) \notin Range(Tail(s))
             /\ \A i, j \in DOMAIN Tail(s) : Tail(s)[i] = Tail(s)[j] => i = j
  <2>1. \A k \in DOMAIN Tail(s) : k + 1 \in DOMAIN s /\ k + 1 # 1 /\ 1 \in DOMAIN s
    BY <1>1
  <2>2. Head(s) \notin Range(Tail(s))
    BY <1>1, <1>3, <2>1 DEF Range
  <2>3. ASSUME NEW i \in DOMAIN Tail(s), NEW j \in DOMAIN Tail(s), Tail(s)[i] = Tail(s)[j]
        PROVE  i = j
    <3>1. i + 1 = j + 1
      BY <1>1, <1>3, <2>1, <2>3
    <3>2. i \in Int /\ j \in Int
      BY <1>1
    <3>3. QED
      BY <3>1, <3>2
  <2>4. QED
    BY <2>2, <2>3
<1>4. QED
  BY <1>1, <1>2, <1>3

LEMMA Joined ==
  ASSUME NEW S, NEW s \in Seq(S), NEW t \in Seq(S)
  PROVE  /\ s \o t \in Seq(S)
         /\ Range(s \o t) = Range(s) \cup Range(t)
         /\ /\ \A i, j \in DOMAIN s : s[i] = s[j] => i = j
            /\ \A i, j \in DOMAIN t : t[i] = t[j] => i = j
            /\ Range(s) \cap Range(t) = {}
            => \A i, j \in DOMAIN (s \o t) : (s \o t)[i] = (s \o t)[j] => i = j
<1> DEFINE m == Len(s)
           n == Len(t)
           c == s \o t
<1>1. c \in Seq(S) /\ Range(c) = Range(s) \cup Range(t)
  BY RangeConcatenation
<1>2. /\ m \in Nat /\ n \in Nat /\ DOMAIN s = 1 .. m /\ DOMAIN t = 1 .. n
      /\ DOMAIN c = 1 .. m + n
      /\ \A k \in 1 .. m + n : c[k] = IF k <= m THEN s[k] ELSE t[k - m]
  OBVIOUS
<1> HIDE DEF m, n, c
<1>3. ASSUME \A i, j \in DOMAIN s : s[i] = s[j] => i = j,
             \A i, j \in DOMAIN t : t[i] = t[j] => i = j,
             Range(s) \cap Range(t) = {},
             NEW i \in DOMAIN c, NEW j \in DOMAIN c, c[i] = c[j]
      PROVE  i = j
  <2>1. \A a \in DOMAIN s, b \in DOMAIN t : s[a] # t[b]
    BY <1>3 DEF Range
  <2>2. i \in 1 .. m + n /\ j \in 1 .. m + n
    BY <1>2, <1>3
  <2>3. CASE i <= m /\ j <= m
    <3>1. i \in DOMAIN s /\ j \in DOMAIN s /\ s[i] = s[j]
      BY <1>2, <1>3, <2>2, <2>3
    <3>2. QED
      BY <1>3, <3>1
  <2>4. CASE ~(i <= m) /\ ~(j <= m)
    <3>1. i - m \in DOMAIN t /\ j - m \in DOMAIN t /\ t[i - m] = t[j - m]
      BY <1>2, <1>3, <2>2, <2>4
    <3>2. i - m = j - m
      BY <1>3, <3>1
    <3>3. QED
      BY <1>2, <2>2, <3>2
  <2>5. CASE i <= m /\ ~(j <= m)
    <3>1. i \in DOMAIN s /\ j - m \in DOMAIN t /\ s[i] = t[j - m]
      BY <1>2, <1>3, <2>2, <2>5
    <3>2. QED
      BY <2>1, <3>1
  <2>6. CASE ~(i <= m) /\ j <= m
    <3>1. j \in DOMAIN s /\ i - m \in DOMAIN t /\ s[j] = t[i - m]
      BY <1>2, <1>3, <2>2, <2>6
    <3>2. QED
      BY <2>1, <3>1
  <2>7. QED
    BY <2>3, <2>4, <2>5, <2>6
<1>4. QED
  BY <1>1, <1>3 DEF c

LEMMA OneAlone ==
  ASSUME NEW S, NEW x \in S
  PROVE  /\ <<x>> \in Seq(S) /\ Range(<<x>>) = {x}
         /\ \A i, j \in DOMAIN <<x>> : <<x>>[i] = <<x>>[j] => i = j
<1>1. <<x>> \in Seq(S) /\ DOMAIN <<x>> = {1} /\ <<x>>[1] = x
  OBVIOUS
<1>2. QED
  BY <1>1 DEF Range

LEMMA Added ==
  ASSUME NEW S, NEW s \in Seq(S), NEW x \in S
  PROVE  /\ Append(s, x) \in Seq(S)
         /\ Range(Append(s, x)) = Range(s) \cup {x}
         /\ (\A i, j \in DOMAIN s : s[i] = s[j] => i = j) /\ x \notin Range(s) =>
              \A i, j \in DOMAIN Append(s, x) : Append(s, x)[i] = Append(s, x)[j] => i = j
<1>1. <<x>> \in Seq(S) /\ Range(<<x>>) = {x} /\ Append(s, x) = s \o <<x>>
  BY OneAlone
<1>2. \A i, j \in DOMAIN <<x>> : <<x>>[i] = <<x>>[j] => i = j
  BY OneAlone
<1>3. ASSUME NEW t \in Seq(S)
      PROVE  /\ s \o t \in Seq(S) /\ Range(s \o t) = Range(s) \cup Range(t)
             /\ /\ \A i, j \in DOMAIN s : s[i] = s[j] => i = j
                /\ \A i, j \in DOMAIN t : t[i] = t[j] => i = j
                /\ Range(s) \cap Range(t) = {}
                => \A i, j \in DOMAIN (s \o t) : (s \o t)[i] = (s \o t)[j] => i = j
  BY Joined
<1>4. /\ s \o <<x>> \in Seq(S) /\ Range(s \o <<x>>) = Range(s) \cup Range(<<x>>)
      /\ /\ \A i, j \in DOMAIN s : s[i] = s[j] => i = j
         /\ Range(s) \cap Range(<<x>>) = {}
         => \A i, j \in DOMAIN (s \o <<x>>) : (s \o <<x>>)[i] = (s \o <<x>>)[j] => i = j
  <2> DEFINE t == <<x>>
  <2>1. t \in Seq(S) /\ \A i, j \in DOMAIN t : t[i] = t[j] => i = j
    BY <1>1, <1>2
  <2> HIDE DEF t
  <2>2. /\ s \o t \in Seq(S) /\ Range(s \o t) = Range(s) \cup Range(t)
        /\ /\ \A i, j \in DOMAIN s : s[i] = s[j] => i = j
           /\ Range(s) \cap Range(t) = {}
           => \A i, j \in DOMAIN (s \o t) : (s \o t)[i] = (s \o t)[j] => i = j
    BY <1>3, <2>1
  <2>3. QED
    BY <2>2 DEF t
<1>5. Append(s, x) = s \o <<x>>
  BY <1>1
<1>6. QED
  BY <1>1, <1>4, <1>5
-----------------------------------------------------------------------------
(* The comparisons. *)

LEMMA CmpCardinality == \A S : Cmp!Cardinality(S) = Cardinality(S)
  BY DEF Cmp!Cardinality, Cardinality

\* What one Task Group asks of a pool, when another asks for no less.
LEMMA CmpLessAsked ==
  ASSUME Cmp!Parameters, NEW a \in Cmp!RunSpecification, NEW b \in Cmp!RunSpecification,
         Cmp!AsksLess(a, b), NEW pool, NEW sources, NEW listing,
         \A i \in DOMAIN listing : listing[i] \in Cmp!Node, NEW p \in Cmp!PROPERTIES
  PROVE  LET c == Cmp!_check_worker_pool_for_match(a, pool, sources, listing)[p]
             d == Cmp!_check_worker_pool_for_match(b, pool, sources, listing)[p]
         IN  /\ c \in {"YES", "MAYBE", "NO"} /\ d \in {"YES", "MAYBE", "NO"}
             /\ c = "NO" => d = "NO"
             /\ c = "MAYBE" => d \in {"MAYBE", "NO"}
<1> DEFINE C == Cmp!_check_worker_pool_for_match(a, pool, sources, listing)[p]
           D == Cmp!_check_worker_pool_for_match(b, pool, sources, listing)[p]
           Less == /\ C \in {"YES", "MAYBE", "NO"} /\ D \in {"YES", "MAYBE", "NO"}
                   /\ C = "NO" => D = "NO"
                   /\ C = "MAYBE" => D \in {"MAYBE", "NO"}
<1>1. CASE p \in Cmp!LISTS
  <2>1. /\ C = Cmp!_match_list(a[p], Cmp!Values(p, sources))
        /\ D = Cmp!_match_list(b[p], Cmp!Values(p, sources))
    BY <1>1 DEF Cmp!_check_worker_pool_for_match, Cmp!PROPERTIES, Cmp!LISTS, Cmp!RANGES
  <2>2. Cmp!WeakerList(a[p], b[p])
    BY <1>1 DEF Cmp!AsksLess
  <2>3. QED
    BY <2>1, <2>2 DEF Cmp!_match_list, Cmp!Match, Cmp!WeakerList
<1>2. CASE p \in Cmp!MEMBERS
  <2>1. Cmp!WeakerList(a[p], b[p])
    BY <1>2 DEF Cmp!AsksLess
  <2>2. /\ p = "namespaces" => /\ C = Cmp!_match_member(a[p], pool.namespace)
                               /\ D = Cmp!_match_member(b[p], pool.namespace)
        /\ p = "workerTags" => /\ C = Cmp!_match_member(a[p], pool.tag)
                               /\ D = Cmp!_match_member(b[p], pool.tag)
    BY <1>2 DEF Cmp!_check_worker_pool_for_match, Cmp!PROPERTIES, Cmp!LISTS, Cmp!RANGES,
       Cmp!MEMBERS, Cmp!RunSpecification
  <2>3. p \in {"namespaces", "workerTags"}
    BY <1>2 DEF Cmp!MEMBERS
  <2>4. QED
    BY <2>1, <2>2, <2>3 DEF Cmp!_match_member, Cmp!Match, Cmp!WeakerList
<1>3. CASE p \in Cmp!RANGES
  <2>1. C = Cmp!_match_range(a[p], p, listing) /\ D = Cmp!_match_range(b[p], p, listing)
    BY <1>3 DEF Cmp!_check_worker_pool_for_match, Cmp!PROPERTIES, Cmp!LISTS, Cmp!RANGES
  <2>2. Cmp!WeakerRange(a[p], b[p])
    BY <1>3 DEF Cmp!AsksLess
  <2>3. a[p] \in Cmp!DoubleRange /\ b[p] \in Cmp!DoubleRange
    <3>1. p = "ram" \/ p = "vcpus"
      BY <1>3 DEF Cmp!RANGES
    <3>2. /\ a.ram \in Cmp!DoubleRange /\ a.vcpus \in Cmp!DoubleRange
          /\ b.ram \in Cmp!DoubleRange /\ b.vcpus \in Cmp!DoubleRange
      BY DEF Cmp!RunSpecification
    <3>3. QED
      BY <3>1, <3>2
  <2>4. ASSUME NEW i \in Cmp!_nodes_reporting_details(listing), a[p] # None, b[p] # None,
               Cmp!_check_in_range(listing[i].details[p], b[p])
        PROVE  Cmp!_check_in_range(listing[i].details[p], a[p])
    <3>1. i \in DOMAIN listing /\ listing[i].details # None
      BY DEF Cmp!_nodes_reporting_details
    <3>2. listing[i] \in Cmp!Node
      BY <3>1
    <3>3. listing[i].details[p] \in Cmp!Number
      BY <1>3, <3>1, <3>2 DEF Cmp!Node, Cmp!RANGES
    <3>4. /\ a[p].min \in Cmp!Number /\ a[p].max \in Cmp!Number
          /\ b[p].min \in Cmp!Number /\ b[p].max \in Cmp!Number
      <4>1. /\ a[p] \in [min : Cmp!Number, max : Cmp!Number]
            /\ b[p] \in [min : Cmp!Number, max : Cmp!Number]
        BY <2>3, <2>4 DEF Cmp!DoubleRange
      <4>2. QED
        BY <4>1
    <3>5. QED
      BY <2>2, <2>4, <3>3, <3>4 DEF Cmp!WeakerRange, Cmp!_check_in_range, Cmp!Number,
         Cmp!Parameters
  <2>5. QED
    BY <2>1, <2>2, <2>4 DEF Cmp!_match_range, Cmp!Match, Cmp!WeakerRange
<1>4. CASE p = "instancePricing"
  <2>1. /\ C = Cmp!_match_instance_pricing(a.instancePricing, sources)
        /\ D = Cmp!_match_instance_pricing(b.instancePricing, sources)
    BY <1>4 DEF Cmp!_check_worker_pool_for_match, Cmp!PROPERTIES, Cmp!LISTS, Cmp!RANGES
  <2>2. a.instancePricing = b.instancePricing \/ a.instancePricing \notin Cmp!REQUIRED_PRICING
    BY DEF Cmp!AsksLess, Cmp!REQUIRED_PRICING, Cmp!Parameters
  <2>3. QED
    BY <2>1, <2>2 DEF Cmp!_match_instance_pricing, Cmp!Match
<1>5. CASE p = "taskTypes"
  <2>1. /\ C = Cmp!_match_task_types(a.taskTypes, listing)
        /\ D = Cmp!_match_task_types(b.taskTypes, listing)
    BY <1>5 DEF Cmp!_check_worker_pool_for_match, Cmp!PROPERTIES, Cmp!LISTS, Cmp!RANGES
  <2>2. a.taskTypes \subseteq b.taskTypes
    BY DEF Cmp!AsksLess
  <2>3. QED
    BY <2>1, <2>2 DEF Cmp!_match_task_types, Cmp!Match
<1>6. Less
  BY <1>1, <1>2, <1>3, <1>4, <1>5 DEF Cmp!PROPERTIES
<1>7. QED
  BY <1>6

\* Whose turn it is.
LEMMA CmpTurn ==
  ASSUME Cmp!Parameters, Cmp!PoolsInv, r6 \in Seq(Cmp!Rows), Cmp!Comparing
  PROVE  /\ Len(r2) \in Nat \ {0} /\ Len(r1.groups) \in Nat /\ Len(r6) \in Nat
         /\ Cmp!Group = (Len(r6) \div Len(r2)) + 1 /\ Cmp!Group \in DOMAIN r1.groups
         /\ Cmp!Pool = r2[(Len(r6) % Len(r2)) + 1] /\ Cmp!Pool \in DOMAIN Pools
<1> DEFINE n == Len(r2)
           m == Len(r1.groups)
           k == Len(r6)
<1>1. /\ n \in Nat \ {0} /\ m \in Nat /\ k \in Nat /\ DOMAIN r2 = 1 .. n
      /\ DOMAIN r1.groups = 1 .. m
  BY DEF Cmp!Parameters, Cmp!PoolsInv, Cmp!Comparing
<1>2. k \div n \in Nat /\ k % n \in 0 .. n - 1 /\ k = (n * (k \div n)) + (k % n)
  BY <1>1, Quotient
<1>3. k < n * m
  BY DEF Cmp!Comparing
<1>4. k \div n < m
  <2> HIDE DEF n, m, k
  <2>1. (n * (k \div n)) + (k % n) < n * m
    BY <1>2, <1>3
  <2> QED
    BY <1>1, <1>2, <2>1, Below
<1>5. (k \div n) + 1 \in 1 .. m /\ (k % n) + 1 \in 1 .. n
  <2> HIDE DEF n, m, k
  <2> QED
    BY <1>1, <1>2, <1>4
<1>6. Cmp!Pool \in DOMAIN Pools
  BY <1>1, <1>5 DEF Cmp!Pool, Cmp!PoolsInv
<1>7. QED
  BY <1>1, <1>5, <1>6 DEF Cmp!Group, Cmp!Pool

LEMMA CmpInit ==
  ASSUME Cmp!Parameters, Cmp!Init
  PROVE  Cmp!IInv
<1> USE DEF Cmp!Init
<1>1. Cmp!PoolsInv
  BY DEF Cmp!PoolsInv
<1>2. Cmp!RowsInv
  BY DEF Cmp!RowsInv, Cmp!Parameters
<1>3. Cmp!CachedInv
  <2>1. \A p \in DOMAIN Stages : r5[p] \in DOMAIN Stages[p]
    BY DEF Cmp!Parameters
  <2>2. QED
    BY <2>1 DEF Cmp!CachedInv
<1>4. Cmp!FailuresInv
  BY DEF Cmp!FailuresInv
<1>5. r6 \in Seq(Cmp!Rows)
  OBVIOUS
<1>6. QED
  BY <1>1, <1>2, <1>3, <1>4, <1>5 DEF Cmp!IInv

LEMMA CmpAnswers ==
  ASSUME NEW a, NEW pool, NEW sources, NEW listing
  PROVE  Cmp!_check_worker_pool_for_match(a, pool, sources, listing)
           \in [Cmp!PROPERTIES -> {"YES", "MAYBE", "NO"}]
<1>1. ASSUME NEW p \in Cmp!PROPERTIES
      PROVE  Cmp!_check_worker_pool_for_match(a, pool, sources, listing)[p]
               \in {"YES", "MAYBE", "NO"}
  <2>1. CASE p \in Cmp!LISTS
    BY <2>1 DEF Cmp!_check_worker_pool_for_match, Cmp!PROPERTIES, Cmp!LISTS, Cmp!RANGES,
       Cmp!_match_list, Cmp!Match
  <2>2. CASE p \in Cmp!RANGES
    BY <2>2 DEF Cmp!_check_worker_pool_for_match, Cmp!PROPERTIES, Cmp!LISTS, Cmp!RANGES,
       Cmp!_match_range, Cmp!Match
  <2>3. CASE p = "instancePricing"
    BY <2>3 DEF Cmp!_check_worker_pool_for_match, Cmp!PROPERTIES, Cmp!LISTS, Cmp!RANGES,
       Cmp!_match_instance_pricing, Cmp!Match
  <2>4. CASE p = "taskTypes"
    BY <2>4 DEF Cmp!_check_worker_pool_for_match, Cmp!PROPERTIES, Cmp!LISTS, Cmp!RANGES,
       Cmp!_match_task_types, Cmp!Match
  <2>5. CASE p \in Cmp!MEMBERS
    BY <2>5 DEF Cmp!_check_worker_pool_for_match, Cmp!PROPERTIES, Cmp!LISTS, Cmp!RANGES,
       Cmp!MEMBERS, Cmp!_match_member, Cmp!Match
  <2>6. QED
    BY <2>1, <2>2, <2>3, <2>4, <2>5 DEF Cmp!PROPERTIES
<1>2. QED
  BY <1>1 DEF Cmp!_check_worker_pool_for_match

\* Each of the pools given is fetched in its turn.
LEMMA CmpPoolsStep ==
  ASSUME Cmp!Parameters, Cmp!IInv, Cmp!Next
  PROVE  Cmp!PoolsInv'
<1> USE DEF Cmp!IInv
<1>1. CASE Cmp!_get_provisioned_worker_pool_by_id
  <2>1. r8 = None /\ Cmp!Unasked # {} /\ r1' = r1 /\ r6' = r6 /\ r7' = r7
    BY <1>1 DEF Cmp!_get_provisioned_worker_pool_by_id
  <2>2. r6 = <<>> /\ r7 = <<>>
    BY <2>1 DEF Cmp!PoolsInv
  <2>3. CASE r2' = r2
    BY <2>1, <2>3 DEF Cmp!PoolsInv, Cmp!Unasked
  <2>4. CASE r2' = Append(r2, Cmp!Asked)
    <3>1. r1.pools \in Seq(DOMAIN Pools)
      BY DEF Cmp!PoolsInv, Cmp!Parameters
    <3>2. Cmp!Least(Cmp!Unasked) \in Cmp!Unasked
      <4>1. Cmp!Unasked \subseteq Nat
        BY <3>1 DEF Cmp!Unasked
      <4>2. PICK i \in Cmp!Unasked : \A j \in Cmp!Unasked : i <= j
        BY <2>1, <4>1, Earliest
      <4>3. QED
        BY <4>2 DEF Cmp!Least
    <3>3. Cmp!Asked \in DOMAIN Pools /\ \E i \in DOMAIN r1.pools : Cmp!Asked = r1.pools[i]
      <4>1. PICK i \in DOMAIN r1.pools : i = Cmp!Least(Cmp!Unasked)
        BY <3>2 DEF Cmp!Unasked
      <4>2. Cmp!Asked = r1.pools[i]
        BY <4>1 DEF Cmp!Asked
      <4>3. QED
        BY <3>1, <4>2
    <3>4. \A k \in DOMAIN r2 : r2[k] # Cmp!Asked
      BY <3>2 DEF Cmp!Asked, Cmp!Unasked
    <3>5. r2' \in Seq(DOMAIN Pools)
      BY <2>4, <3>3 DEF Cmp!PoolsInv
    <3>6. /\ DOMAIN r2' = 1 .. Len(r2) + 1 /\ DOMAIN r2 = 1 .. Len(r2) /\ Len(r2) \in Nat
          /\ \A k \in DOMAIN r2 : r2'[k] = r2[k]
          /\ r2'[Len(r2) + 1] = Cmp!Asked
      BY <2>4, <3>3 DEF Cmp!PoolsInv
    <3>7. \A j, k \in DOMAIN r2' : r2'[j] = r2'[k] => j = k
      BY <3>4, <3>6 DEF Cmp!PoolsInv
    <3>8. \A k \in DOMAIN r2' : \E i \in DOMAIN r1.pools : r2'[k] = r1.pools[i]
      BY <3>3, <3>6 DEF Cmp!PoolsInv
    <3>9. QED
      BY <2>1, <2>2, <3>5, <3>7, <3>8 DEF Cmp!PoolsInv
  <2>5. QED
    BY <1>1, <2>3, <2>4 DEF Cmp!_get_provisioned_worker_pool_by_id
<1>2. CASE r2' = r2 /\ r1' = r1 /\ (Cmp!Unasked # {} => r6' = r6 /\ r7' = r7)
  BY <1>2 DEF Cmp!PoolsInv, Cmp!Unasked
<1>3. QED
  BY <1>1, <1>2 DEF Cmp!Next, Cmp!_get_work_requirement_by_id, Cmp!_get_compute_requirement,
     Cmp!_get_all_nodes_in_worker_pool_cached, Cmp!Report, Cmp!_compare_task_group, Cmp!Scales,
     Cmp!ToCompare, Cmp!Comparing, Cmp!Fetched

\* A row is added for the pool and the Task Group whose turn it is.
LEMMA CmpRowsStep ==
  ASSUME Cmp!Parameters, Cmp!IInv, Cmp!Next
  PROVE  Cmp!RowsInv' /\ (r6 \in Seq(Cmp!Rows))'
<1> USE DEF Cmp!IInv
<1>1. CASE r6' = r6 /\ r2' = r2 /\ r1' = r1
  BY <1>1 DEF Cmp!RowsInv
<1>2. CASE r6' = r6 /\ r1' = r1 /\ Cmp!Unasked # {} /\ r2' \in Seq(DOMAIN Pools)
  BY <1>2, CmpPoolsStep DEF Cmp!RowsInv, Cmp!PoolsInv, Cmp!Parameters
<1>3. ASSUME NEW matches \in {None} \cup [Cmp!PROPERTIES -> {"YES", "MAYBE", "NO"}],
             Cmp!Comparing, r6' = Append(r6, Cmp!Row(matches)), r2' = r2, r1' = r1
      PROVE  Cmp!RowsInv' /\ r6' \in Seq(Cmp!Rows)
  <2>1. /\ Len(r2) \in Nat \ {0} /\ Len(r1.groups) \in Nat /\ Len(r6) \in Nat
        /\ Cmp!Group = (Len(r6) \div Len(r2)) + 1 /\ Cmp!Group \in DOMAIN r1.groups
        /\ Cmp!Pool = r2[(Len(r6) % Len(r2)) + 1] /\ Cmp!Pool \in DOMAIN Pools
    BY <1>3, CmpTurn
  <2>2. Cmp!Group \in Nat
    BY <2>1, Quotient
  <2>3. Cmp!Row(matches) \in Cmp!Rows
    BY <1>3, <2>1, <2>2 DEF Cmp!Row, Cmp!Rows
  <2>4. /\ r6' \in Seq(Cmp!Rows) /\ Len(r6') = Len(r6) + 1
        /\ DOMAIN r6' = 1 .. Len(r6) + 1 /\ DOMAIN r6 = 1 .. Len(r6)
        /\ \A k \in DOMAIN r6 : r6'[k] = r6[k]
        /\ r6'[Len(r6) + 1] = Cmp!Row(matches)
    BY <1>3, <2>1, <2>3
  <2>5. Len(r6') <= Len(r2) * Len(r1.groups)
    <3>1. Len(r2) * Len(r1.groups) \in Nat
      BY <2>1
    <3>2. QED
      BY <1>3, <2>1, <2>4, <3>1 DEF Cmp!Comparing
  <2>6. ASSUME NEW k \in DOMAIN r6'
        PROVE  /\ r6'[k].group = ((k - 1) \div Len(r2)) + 1
               /\ r6'[k].pool = r2[((k - 1) % Len(r2)) + 1]
    <3>1. CASE k \in DOMAIN r6
      BY <2>4, <3>1 DEF Cmp!RowsInv
    <3>2. CASE k = Len(r6) + 1
      <4>1. k - 1 = Len(r6)
        BY <2>1, <3>2
      <4>2. /\ (k - 1) \div Len(r2) = Len(r6) \div Len(r2)
            /\ (k - 1) % Len(r2) = Len(r6) % Len(r2)
        BY <4>1, Zenon
      <4>3. r6'[k].group = Cmp!Group /\ r6'[k].pool = Cmp!Pool
        BY <2>4, <3>2 DEF Cmp!Row
      <4>4. QED
        BY <2>1, <4>2, <4>3, Zenon
    <3>3. QED
      BY <2>1, <2>4, <3>1, <3>2
  <2>7. QED
    BY <1>3, <2>4, <2>5, <2>6 DEF Cmp!RowsInv
<1>4. CASE Cmp!Report
  BY <1>3, <1>4, CmpAnswers DEF Cmp!Report, Cmp!ToCompare, Cmp!Matched
<1>5. CASE Cmp!_get_provisioned_worker_pool_by_id
  BY <1>1, <1>2, <1>5, CmpPoolsStep DEF Cmp!_get_provisioned_worker_pool_by_id, Cmp!PoolsInv
<1>6. QED
  BY <1>1, <1>3, <1>4, <1>5 DEF Cmp!Next, Cmp!_get_work_requirement_by_id,
     Cmp!_get_compute_requirement, Cmp!_get_all_nodes_in_worker_pool_cached, Cmp!ToCompare,
     Cmp!_compare_task_group, Cmp!Scales, Cmp!FailedComparison

\* What a pool is compared by is kept, with the rows that came of it.
LEMMA CmpCachedStep ==
  ASSUME Cmp!Parameters, Cmp!IInv, Cmp!Next
  PROVE  Cmp!CachedInv'
<1> USE DEF Cmp!IInv
<1> DEFINE Check(g, p, s, n) == 
    Cmp!_check_worker_pool_for_match(r1.groups[g], Pools[p], s,
                                     Cmp!_get_all_nodes_in_worker_pool(n))
<1>0. r1' = r1
  BY DEF Cmp!Next, Cmp!_get_provisioned_worker_pool_by_id, Cmp!_get_work_requirement_by_id,
     Cmp!_get_compute_requirement, Cmp!_get_all_nodes_in_worker_pool_cached, Cmp!Report,
     Cmp!_compare_task_group, Cmp!Scales
<1>1. \A p \in DOMAIN Stages : r5'[p] \in DOMAIN Stages[p]
  <2>1. CASE r5' = r5
    BY <2>1 DEF Cmp!CachedInv
  <2>2. ASSUME NEW q \in DOMAIN Pools, Cmp!Scales(q)
        PROVE  \A p \in DOMAIN Stages : r5'[p] \in DOMAIN Stages[p]
    <3>1. ASSUME NEW p \in DOMAIN Stages PROVE r5'[p] \in DOMAIN Stages[p]
      <4>1. r5[p] \in DOMAIN Stages[p] /\ Stages[p] \in Seq(Seq(Cmp!Node))
        BY DEF Cmp!CachedInv, Cmp!Parameters
      <4>2. r5'[p] = r5[p] \/ (p = q /\ r5'[p] = r5[p] + 1)
        BY <2>2 DEF Cmp!Scales
      <4>3. QED
        BY <2>2, <4>1, <4>2 DEF Cmp!Scales
    <3>2. QED
      BY <3>1
  <2>3. QED
    BY <2>1, <2>2 DEF Cmp!Next, Cmp!_get_provisioned_worker_pool_by_id,
       Cmp!_get_work_requirement_by_id, Cmp!_get_compute_requirement,
       Cmp!_get_all_nodes_in_worker_pool_cached, Cmp!Report, Cmp!_compare_task_group
<1>2. \* What was fetched stays
      /\ \A p \in DOMAIN r3 : p \in DOMAIN r3' /\ r3'[p] = r3[p]
      /\ \A p \in DOMAIN r4 : p \in DOMAIN r4' /\ r4'[p] = r4[p]
      /\ \A p \in DOMAIN r4' : r4'[p] \in Seq(Cmp!Node)
  <2>1. CASE Cmp!_get_compute_requirement
    BY <2>1 DEF Cmp!_get_compute_requirement, Cmp!With, Cmp!CachedInv
  <2>2. CASE Cmp!_get_all_nodes_in_worker_pool_cached
    <3>1. CASE r4' = r4
      BY <2>2, <3>1 DEF Cmp!_get_all_nodes_in_worker_pool_cached, Cmp!CachedInv
    <3>2. CASE r4' = Cmp!With(r4, Cmp!Pool, Stages[Cmp!Pool][r5[Cmp!Pool]])
      <4>1. Cmp!Pool \in DOMAIN Pools
        BY <2>2, CmpTurn DEF Cmp!_get_all_nodes_in_worker_pool_cached, Cmp!ToCompare
      <4>2. Stages[Cmp!Pool] \in Seq(Seq(Cmp!Node)) /\ r5[Cmp!Pool] \in DOMAIN Stages[Cmp!Pool]
        BY <4>1 DEF Cmp!Parameters, Cmp!CachedInv
      <4>3. Stages[Cmp!Pool][r5[Cmp!Pool]] \in Seq(Cmp!Node)
        BY <4>2
      <4>4. QED
        BY <2>2, <3>2, <4>3 DEF Cmp!_get_all_nodes_in_worker_pool_cached, Cmp!With, Cmp!CachedInv
    <3>3. QED
      BY <2>2, <3>1, <3>2 DEF Cmp!_get_all_nodes_in_worker_pool_cached
  <2>3. CASE r3' = r3 /\ r4' = r4
    BY <2>3 DEF Cmp!CachedInv
  <2>4. QED
    BY <2>1, <2>2, <2>3 DEF Cmp!Next, Cmp!_get_provisioned_worker_pool_by_id,
       Cmp!_get_work_requirement_by_id, Cmp!Report, Cmp!_compare_task_group, Cmp!Scales
<1>3. ASSUME NEW k \in DOMAIN r6, r6[k].matches # None
      PROVE  /\ r6[k].pool \in DOMAIN r3' \cap DOMAIN r4'
             /\ r6[k].matches = Check(r6[k].group, r6[k].pool,
                                           r3'[r6[k].pool], r4'[r6[k].pool])
  <2>1. /\ r6[k].pool \in DOMAIN r3 \cap DOMAIN r4
        /\ r6[k].matches = Check(r6[k].group, r6[k].pool,
                                      r3[r6[k].pool], r4[r6[k].pool])
    BY <1>3 DEF Cmp!CachedInv, Cmp!Compared
  <2>2. QED
    BY <1>2, <2>1
<1>4. ASSUME NEW k \in DOMAIN r6', r6'[k].matches # None
      PROVE  /\ r6'[k].pool \in DOMAIN r3' \cap DOMAIN r4'
             /\ r6'[k].matches = Check(r6'[k].group, r6'[k].pool,
                                            r3'[r6'[k].pool], r4'[r6'[k].pool])
  <2>1. CASE r6' = r6
    BY <1>3, <1>4, <2>1
  <2>2. ASSUME NEW row, r6' = Append(r6, row)
        PROVE  (k \in DOMAIN r6 /\ r6'[k] = r6[k]) \/ r6'[k] = row
    BY <2>2
  <2>3. CASE r6' = Append(r6, Cmp!Row(None))
    <3>1. Cmp!Row(None).matches = None
      BY DEF Cmp!Row
    <3>2. k \in DOMAIN r6 /\ r6'[k] = r6[k]
      BY <1>4, <2>2, <2>3, <3>1
    <3>3. QED
      BY <1>3, <1>4, <3>2
  <2>4. CASE Cmp!Report
    <3>1. /\ Cmp!Row(Cmp!Matched).group = Cmp!Group /\ Cmp!Row(Cmp!Matched).pool = Cmp!Pool
          /\ Cmp!Row(Cmp!Matched).matches =
                Check(Cmp!Group, Cmp!Pool, r3[Cmp!Pool], r4[Cmp!Pool])
      BY DEF Cmp!Row, Cmp!Matched
    <3>2. /\ Cmp!Pool \in DOMAIN r3 \cap DOMAIN r4
          /\ r3' = r3 /\ r4' = r4 /\ r6' = Append(r6, Cmp!Row(Cmp!Matched))
      BY <2>4 DEF Cmp!Report, Cmp!ToCompare
    <3>3. CASE r6'[k] = Cmp!Row(Cmp!Matched)
      BY <3>1, <3>2, <3>3
    <3>4. CASE k \in DOMAIN r6 /\ r6'[k] = r6[k]
      BY <1>3, <1>4, <3>4
    <3>5. QED
      BY <2>2, <3>2, <3>3, <3>4
  <2>5. QED
    BY <2>1, <2>3, <2>4 DEF Cmp!Next, Cmp!_get_provisioned_worker_pool_by_id,
       Cmp!_get_work_requirement_by_id, Cmp!_get_compute_requirement,
       Cmp!_get_all_nodes_in_worker_pool_cached, Cmp!_compare_task_group, Cmp!Scales,
       Cmp!FailedComparison
<1>5. ASSUME NEW k \in DOMAIN r6', r6'[k].matches # None
      PROVE  r6'[k].matches = Cmp!Compared(r6[k].group, r6[k].pool)'
  BY <1>0, <1>4, <1>5 DEF Cmp!Compared, Cmp!_get_all_nodes_in_worker_pool
<1>6. QED
  BY <1>1, <1>2, <1>4, <1>5 DEF Cmp!CachedInv

\* What fails of its own has its row, and the run ends with the last of them.
LEMMA CmpFailuresStep ==
  ASSUME Cmp!Parameters, Cmp!IInv, Cmp!Next
  PROVE  Cmp!FailuresInv'
<1> USE DEF Cmp!IInv
<1> DEFINE Own == (CompareCodes \cup {Cmp!FAILURE}) \ Cmp!SESSION_FAILURES
           RowForEach == r7 = <<>> <=> \A k \in DOMAIN r6 : r6[k].matches # None
<1>0. r8 = None
  BY DEF Cmp!Next, Cmp!_get_provisioned_worker_pool_by_id, Cmp!_get_work_requirement_by_id,
     Cmp!Fetched, Cmp!_get_compute_requirement, Cmp!_get_all_nodes_in_worker_pool_cached,
     Cmp!Report, Cmp!ToCompare, Cmp!Comparing, Cmp!_compare_task_group, Cmp!Scales
<1>1. r7 \in Seq(Own) /\ RowForEach
  BY DEF Cmp!FailuresInv
<1>2. CASE r6' = r6 /\ r7' = r7 /\ r8' \in {None} \cup Cmp!SESSION_FAILURES
  BY <1>1, <1>2 DEF Cmp!FailuresInv
<1>3. CASE r6 = <<>> /\ r6' = r6 /\ r7' = r7 /\ r8' # Cmp!OK
  <2>1. r7' = <<>> /\ RowForEach'
    BY <1>1, <1>3
  <2>2. QED
    BY <1>1, <1>3, <2>1 DEF Cmp!FailuresInv
<1>4. ASSUME NEW code \in Own, r6' = Append(r6, Cmp!Row(None)),
             r7' = Append(r7, code), r8' = r8
      PROVE  Cmp!FailuresInv'
  <2>1. r7' \in Seq(Own) /\ r7' # <<>>
    BY <1>1, <1>4
  <2>2. r6'[Len(r6) + 1] = Cmp!Row(None) /\ Len(r6) + 1 \in DOMAIN r6'
    BY <1>4
  <2>3. ~(\A k \in DOMAIN r6' : r6'[k].matches # None)
    BY <2>2 DEF Cmp!Row
  <2>4. QED
    BY <1>0, <1>4, <2>1, <2>3 DEF Cmp!FailuresInv
<1>5. CASE Cmp!Report
  <2>1. r6' = Append(r6, Cmp!Row(Cmp!Matched)) /\ r7' = r7 /\ r8' = r8
    BY <1>5 DEF Cmp!Report
  <2>2. Cmp!Row(Cmp!Matched).matches # None
    BY CmpAnswers DEF Cmp!Row, Cmp!Matched, Cmp!Parameters
  <2>3. /\ DOMAIN r6' = 1 .. Len(r6) + 1 /\ DOMAIN r6 = 1 .. Len(r6)
        /\ \A k \in DOMAIN r6 : r6'[k] = r6[k]
        /\ r6'[Len(r6) + 1] = Cmp!Row(Cmp!Matched) /\ Len(r6) \in Nat
    BY <2>1
  <2>4. RowForEach'
    BY <1>1, <2>1, <2>2, <2>3
  <2>5. QED
    BY <1>0, <1>1, <2>1, <2>4 DEF Cmp!FailuresInv
<1>6. CASE Cmp!_compare_task_group
  <2>1. /\ Cmp!Unasked = {} /\ ~Cmp!Comparing /\ r1' = r1 /\ r2' = r2 /\ r6' = r6
        /\ r7' = r7 /\ r8' = IF r7 = <<>> THEN Cmp!OK ELSE Cmp!SharedCause
    BY <1>6 DEF Cmp!_compare_task_group, Cmp!Fetched
  <2>2. Len(r2) \in Nat /\ Len(r1.groups) \in Nat /\ Len(r6) \in Nat
    BY DEF Cmp!PoolsInv, Cmp!Parameters
  <2>3. Len(r6) = Len(r2) * Len(r1.groups)
    <3>1. CASE Len(r2) = 0
      <4>1. Len(r2) * Len(r1.groups) = 0
        BY <2>2, <3>1
      <4>2. QED
        BY <2>2, <4>1 DEF Cmp!RowsInv
    <3>2. CASE Len(r2) > 0
      <4>1. Len(r2) * Len(r1.groups) \in Nat
        BY <2>2
      <4>2. ~(Len(r6) < Len(r2) * Len(r1.groups))
        BY <1>6, <2>1, <3>2 DEF Cmp!Comparing, Cmp!_compare_task_group
      <4>3. QED
        BY <2>2, <4>1, <4>2 DEF Cmp!RowsInv
    <3>3. QED
      BY <2>2, <3>1, <3>2
  <2>4. Cmp!Unasked' = Cmp!Unasked /\ Cmp!SharedCause' = Cmp!SharedCause
    BY <2>1 DEF Cmp!Unasked, Cmp!SharedCause
  <2>5. QED
    BY <1>1, <2>1, <2>3, <2>4 DEF Cmp!FailuresInv
<1>7. CASE Cmp!_get_provisioned_worker_pool_by_id
  <2>1. r6 = <<>>
    BY <1>7 DEF Cmp!_get_provisioned_worker_pool_by_id, Cmp!PoolsInv
  <2>2. r8' # Cmp!OK
    BY <1>0, <1>7 DEF Cmp!_get_provisioned_worker_pool_by_id, Cmp!FAILURE, Cmp!NOT_FOUND, Cmp!OK,
       Cmp!Parameters
  <2>3. QED
    BY <1>3, <1>7, <2>1, <2>2 DEF Cmp!_get_provisioned_worker_pool_by_id
<1>8. CASE Cmp!_get_work_requirement_by_id
  <2>1. r8' # Cmp!OK
    BY <1>8 DEF Cmp!_get_work_requirement_by_id, Cmp!NOT_FOUND, Cmp!OK, Cmp!Parameters
  <2>2. QED
    BY <1>3, <1>8, <2>1 DEF Cmp!_get_work_requirement_by_id
<1>9. ASSUME NEW code \in CompareCodes \cup {Cmp!FAILURE}, Cmp!FailedComparison(code)
      PROVE  Cmp!FailuresInv'
  BY <1>2, <1>4, <1>9 DEF Cmp!FailedComparison
<1>10. CASE Cmp!_get_compute_requirement
  <2>1. \/ r6' = r6 /\ r7' = r7 /\ r8' = r8
        \/ \E code \in CompareCodes \cup {Cmp!FAILURE} : Cmp!FailedComparison(code)
    BY <1>10 DEF Cmp!_get_compute_requirement
  <2>2. QED
    BY <1>0, <1>2, <1>9, <2>1
<1>11. CASE Cmp!_get_all_nodes_in_worker_pool_cached
  BY <1>0, <1>2, <1>9, <1>11 DEF Cmp!_get_all_nodes_in_worker_pool_cached
<1>12. ASSUME NEW p \in DOMAIN Pools, Cmp!Scales(p) PROVE Cmp!FailuresInv'
  BY <1>0, <1>2, <1>12 DEF Cmp!Scales
<1>13. QED
  BY <1>5, <1>6, <1>7, <1>8, <1>10, <1>11, <1>12 DEF Cmp!Next

LEMMA CmpStep ==
  ASSUME Cmp!Parameters, Cmp!IInv, [Cmp!Next]_(Cmp!vars)
  PROVE  Cmp!IInv'
<1>1. CASE Cmp!Next
  BY <1>1, CmpPoolsStep, CmpRowsStep, CmpCachedStep, CmpFailuresStep DEF Cmp!IInv
<1>2. CASE UNCHANGED Cmp!vars
  <2>1. Cmp!PoolsInv' /\ Cmp!RowsInv' /\ (r6 \in Seq(Cmp!Rows))'
    BY <1>2 DEF Cmp!vars, Cmp!IInv, Cmp!PoolsInv, Cmp!RowsInv, Cmp!Unasked
  <2>2. Cmp!CachedInv'
    <3>1. \A g, p : Cmp!Compared(g, p)' = Cmp!Compared(g, p)
      BY <1>2 DEF Cmp!vars, Cmp!Compared, Cmp!_get_all_nodes_in_worker_pool
    <3>2. QED
      BY <1>2, <3>1 DEF Cmp!vars, Cmp!IInv, Cmp!CachedInv
  <2>3. Cmp!FailuresInv'
    BY <1>2 DEF Cmp!vars, Cmp!IInv, Cmp!FailuresInv, Cmp!Unasked, Cmp!SharedCause
  <2>4. QED
    BY <2>1, <2>2, <2>3 DEF Cmp!IInv
<1>3. QED
  BY <1>1, <1>2

\* The Task Group and the pool of each row.
LEMMA CmpPlaced ==
  ASSUME Cmp!Parameters, Cmp!IInv, NEW k \in DOMAIN r6
  PROVE  /\ Len(r2) \in Nat \ {0} /\ Len(r1.groups) \in Nat /\ k \in Nat \ {0}
         /\ k - 1 \in Nat /\ (k - 1) \div Len(r2) \in 0 .. Len(r1.groups) - 1
         /\ (k - 1) % Len(r2) \in 0 .. Len(r2) - 1
         /\ k - 1 = (Len(r2) * ((k - 1) \div Len(r2))) + ((k - 1) % Len(r2))
         /\ r6[k].group = ((k - 1) \div Len(r2)) + 1
         /\ r6[k].pool = r2[((k - 1) % Len(r2)) + 1]
         /\ r6[k].group \in DOMAIN r1.groups
<1> USE DEF Cmp!IInv
<1> DEFINE n == Len(r2)
           m == Len(r1.groups)
<1>1. n \in Nat /\ m \in Nat /\ DOMAIN r1.groups = 1 .. m /\ k \in Nat \ {0} /\ k <= Len(r6)
      /\ Len(r6) \in Nat
  BY DEF Cmp!PoolsInv, Cmp!Parameters
<1>2. Len(r6) <= n * m
  BY DEF Cmp!RowsInv
<1>3. r6[k].group = ((k - 1) \div n) + 1 /\ r6[k].pool = r2[((k - 1) % n) + 1]
  BY DEF Cmp!RowsInv
<1> HIDE DEF n, m
<1>4. n # 0 /\ k - 1 \in Nat /\ k - 1 < n * m
  <2>1. n = 0 => n * m = 0
    BY <1>1
  <2>2. n * m \in Nat
    BY <1>1
  <2>3. QED
    BY <1>1, <1>2, <2>1, <2>2
<1>5. /\ (k - 1) \div n \in Nat /\ (k - 1) % n \in 0 .. n - 1
      /\ k - 1 = (n * ((k - 1) \div n)) + ((k - 1) % n)
  BY <1>1, <1>4, Quotient
<1>6. (k - 1) \div n < m
  BY <1>1, <1>4, <1>5, Below
<1>7. (k - 1) \div n \in 0 .. m - 1 /\ ((k - 1) \div n) + 1 \in 1 .. m
  <2>1. \A q \in Nat : q < m => q \in 0 .. m - 1 /\ q + 1 \in 1 .. m
    BY <1>1
  <2>2. QED
    BY <1>5, <1>6, <2>1
<1>8. QED
  BY <1>1, <1>3, <1>4, <1>5, <1>7 DEF n, m

\* What is said of a pool as a whole is no worse when each property's match is none.
LEMMA CmpNoWorse ==
  ASSUME NEW a \in [Cmp!PROPERTIES -> {"YES", "MAYBE", "NO"}],
         NEW b \in [Cmp!PROPERTIES -> {"YES", "MAYBE", "NO"}],
         \A p \in Cmp!PROPERTIES : /\ a[p] = "NO" => b[p] = "NO"
                                   /\ a[p] = "MAYBE" => b[p] \in {"MAYBE", "NO"}
  PROVE  Cmp!Better(Cmp!summary(a)) >= Cmp!Better(Cmp!summary(b))
<1> DEFINE Of(m) == {m[p] : p \in Cmp!PROPERTIES}
<1>1. \A m \in [Cmp!PROPERTIES -> {"YES", "MAYBE", "NO"}] :
        Cmp!Better(Cmp!summary(m)) =
          IF "NO" \in Of(m) THEN 0 ELSE IF "MAYBE" \in Of(m) THEN 1 ELSE 2
  BY DEF Cmp!Better, Cmp!summary
<1>2. /\ "NO" \in Of(a) => "NO" \in Of(b)
      /\ "MAYBE" \in Of(a) => "MAYBE" \in Of(b) \/ "NO" \in Of(b)
  OBVIOUS
<1> HIDE DEF Of
<1>3. QED
  BY <1>1, <1>2

LEMMA CmpAlike ==
  ASSUME Cmp!Parameters, Cmp!IInv
  PROVE  Cmp!ComparedAlike
<1> SUFFICES ASSUME NEW i \in DOMAIN r6, NEW j \in DOMAIN r6,
                    r6[i].pool = r6[j].pool, r6[i].matches # None,
                    r6[j].matches # None,
                    Cmp!AsksLess(r1.groups[r6[i].group], r1.groups[r6[j].group])
             PROVE  Cmp!Better(Cmp!summary(r6[i].matches))
                      >= Cmp!Better(Cmp!summary(r6[j].matches))
  BY DEF Cmp!ComparedAlike
<1> USE DEF Cmp!IInv
<1> DEFINE p == r6[i].pool
           listing == Cmp!_get_all_nodes_in_worker_pool(r4[p])
           Check(g) == Cmp!_check_worker_pool_for_match(r1.groups[g], Pools[p], r3[p], listing)
<1>1. /\ p \in DOMAIN r4
      /\ r6[i].matches = Check(r6[i].group)
      /\ r6[j].matches = Check(r6[j].group)
  BY DEF Cmp!CachedInv, Cmp!Compared
<1>2. \A n \in DOMAIN listing : listing[n] \in Cmp!Node
  <2>1. r4[p] \in Seq(Cmp!Node)
    BY <1>1 DEF Cmp!CachedInv
  <2>2. QED
    BY <2>1 DEF Cmp!_get_all_nodes_in_worker_pool
<1>3. \A k \in DOMAIN r6 : r1.groups[r6[k].group] \in Cmp!RunSpecification
  <2>1. ASSUME NEW k \in DOMAIN r6
        PROVE  r6[k].group \in DOMAIN r1.groups
    BY CmpPlaced
  <2>2. r1.groups \in Seq(Cmp!RunSpecification)
    BY DEF Cmp!PoolsInv, Cmp!Parameters
  <2>3. QED
    BY <2>1, <2>2
<1> HIDE DEF p, listing
<1>4. \A q \in Cmp!PROPERTIES :
        /\ Check(r6[i].group)[q] = "NO" => Check(r6[j].group)[q] = "NO"
        /\ Check(r6[i].group)[q] = "MAYBE" => Check(r6[j].group)[q] \in {"MAYBE", "NO"}
  BY <1>2, <1>3, CmpLessAsked
<1>5. /\ Check(r6[i].group) \in [Cmp!PROPERTIES -> {"YES", "MAYBE", "NO"}]
      /\ Check(r6[j].group) \in [Cmp!PROPERTIES -> {"YES", "MAYBE", "NO"}]
  BY CmpAnswers
<1>6. QED
  BY <1>1, <1>4, <1>5, CmpNoWorse

\* Of a run that compared all, each Task Group and pool has its row, and only one.
LEMMA CmpOneRow ==
  ASSUME Cmp!Parameters, Cmp!IInv, Cmp!Unasked = {}, Len(r6) = Len(r2) * Len(r1.groups),
         NEW g \in DOMAIN r1.groups, NEW i \in DOMAIN r1.pools
  PROVE  \E k \in DOMAIN r6 :
           \A j \in DOMAIN r6 :
             r6[j].group = g /\ r6[j].pool = r1.pools[i] <=> j = k
<1> USE DEF Cmp!IInv
<1> DEFINE n == Len(r2)
           m == Len(r1.groups)
<1>1. PICK t \in DOMAIN r2 : r2[t] = r1.pools[i]
  BY DEF Cmp!Unasked
<1>2. n \in Nat \ {0} /\ m \in Nat /\ t \in 1 .. n /\ g \in 1 .. m
  <2>1. r2 \in Seq(DOMAIN Pools) /\ r1.groups \in Seq(Cmp!RunSpecification)
    BY DEF Cmp!PoolsInv, Cmp!Parameters
  <2>2. n \in Nat /\ m \in Nat /\ DOMAIN r2 = 1 .. n /\ DOMAIN r1.groups = 1 .. m
    BY <2>1
  <2> HIDE DEF n, m
  <2>3. QED
    BY <2>2
<1>10. DOMAIN r6 = 1 .. Len(r6) /\ Len(r6) = n * m
  OBVIOUS
<1>3. \A a, b \in 1 .. n : r2[a] = r2[b] => a = b
  BY DEF Cmp!PoolsInv
<1>4. \A k \in DOMAIN r6 :
        /\ (k - 1) \div n \in 0 .. m - 1 /\ (k - 1) % n \in 0 .. n - 1
        /\ k - 1 = (n * ((k - 1) \div n)) + ((k - 1) % n) /\ k \in Nat
        /\ r6[k].group = ((k - 1) \div n) + 1 /\ r6[k].pool = r2[((k - 1) % n) + 1]
  BY CmpPlaced
<1> HIDE DEF n, m
<1> DEFINE q == g - 1
           r == t - 1
           k == ((n * q) + r) + 1
<1> HIDE DEF k
<1>5. q \in 0 .. m - 1 /\ r \in 0 .. n - 1 /\ q + 1 = g /\ r + 1 = t
  BY <1>2
<1> HIDE DEF q, r
<1>6. (n * q) + r \in Nat /\ (n * q) + r < n * m
  BY <1>2, <1>5, AtPlace
<1>7. k \in DOMAIN r6 /\ k - 1 = (n * q) + r
  <2>1. n * m \in Nat
    BY <1>2
  <2>2. QED
    BY <1>6, <1>10, <2>1 DEF k
<1>8. ASSUME NEW j \in DOMAIN r6
      PROVE  r6[j].group = g /\ r6[j].pool = r1.pools[i] <=> j = k
  <2> DEFINE x == (j - 1) \div n
             y == (j - 1) % n
  <2>1. /\ x \in 0 .. m - 1 /\ y \in 0 .. n - 1 /\ j - 1 = (n * x) + y /\ j \in Nat
        /\ r6[j].group = x + 1 /\ r6[j].pool = r2[y + 1]
    BY <1>4
  <2> HIDE DEF x, y
  <2>2. r6[j].group = g <=> x = q
    <3>1. x \in Nat /\ q \in Nat /\ q + 1 = g /\ r6[j].group = x + 1
      BY <1>2, <1>5, <2>1
    <3>2. QED
      BY <3>1
  <2>3. r6[j].pool = r1.pools[i] <=> y = r
    <3>1. y + 1 \in 1 .. n /\ t \in 1 .. n
      <4>1. y \in 0 .. n - 1
        BY <2>1
      <4>2. QED
        BY <1>2, <4>1
    <3>2. r2[y + 1] = r2[t] <=> y + 1 = t
      BY <1>3, <3>1
    <3>3. y + 1 = t <=> y = r
      BY <1>2, <1>5, <2>1
    <3>4. QED
      BY <1>1, <2>1, <3>2, <3>3
  <2>4. x = q /\ y = r => j = k
    BY <1>2, <1>5, <1>7, <2>1 DEF k
  <2>5. j = k => x = q /\ y = r
    <3>1. j = k => (n * x) + y = (n * q) + r
      BY <1>7, <2>1
    <3>2. /\ x \in Nat /\ q \in Nat /\ y \in 0 .. n - 1 /\ r \in 0 .. n - 1
          /\ n \in Nat \ {0}
      BY <1>2, <1>5, <2>1
    <3>3. QED
      BY <3>1, <3>2, OnePlace
  <2>6. QED
    BY <2>2, <2>3, <2>4, <2>5
<1>9. QED
  BY <1>7, <1>8

LEMMA CmpAllCompared ==
  ASSUME Cmp!Parameters, Cmp!IInv
  PROVE  Cmp!AllCompared
<1> USE DEF Cmp!IInv
<1>1. ASSUME r8 = Cmp!OK \/ (r8 # None /\ r7 # <<>> /\ r8 \notin Cmp!SESSION_FAILURES)
      PROVE  /\ Cmp!Unasked = {} /\ Len(r6) = Len(r2) * Len(r1.groups)
             /\ r8 = IF r7 = <<>> THEN Cmp!OK ELSE Cmp!SharedCause
  BY <1>1 DEF Cmp!FailuresInv, Cmp!OK, Cmp!SESSION_FAILURES, Cmp!Parameters
<1>2. ASSUME Cmp!Unasked = {}, Len(r6) = Len(r2) * Len(r1.groups),
             NEW g \in DOMAIN r1.groups, NEW i \in DOMAIN r1.pools
      PROVE  Cmp!Cardinality({k \in DOMAIN r6 :
                                r6[k].group = g /\ r6[k].pool = r1.pools[i]}) = 1
  <2> DEFINE S == {k \in DOMAIN r6 : r6[k].group = g /\ r6[k].pool = r1.pools[i]}
  <2>1. PICK k \in DOMAIN r6 :
          \A j \in DOMAIN r6 : r6[j].group = g /\ r6[j].pool = r1.pools[i] <=> j = k
    BY <1>2, CmpOneRow
  <2>2. S = {k}
    BY <2>1
  <2>3. QED
    BY <2>2, FS_Singleton, CmpCardinality
<1>3. ASSUME r8 = IF r7 = <<>> THEN Cmp!OK ELSE Cmp!SharedCause
      PROVE  /\ (r8 = Cmp!OK) <=> \A k \in DOMAIN r6 : r6[k].matches # None
             /\ r8 \notin {Cmp!OK, Cmp!FAILURE} => \A k \in DOMAIN r7 : r7[k] = r8
  <2>1. r7 # <<>> => Cmp!SharedCause # Cmp!OK
    <3>1. r7 # <<>> => r7[1] \in CompareCodes \cup {Cmp!FAILURE}
      BY DEF Cmp!FailuresInv
    <3>2. QED
      BY <3>1 DEF Cmp!SharedCause, Cmp!OK, Cmp!FAILURE, Cmp!Parameters
  <2>2. (r8 = Cmp!OK) <=> r7 = <<>>
    BY <1>3, <2>1
  <2>3. QED
    BY <1>3, <2>2 DEF Cmp!FailuresInv, Cmp!SharedCause
<1>4. QED
  BY <1>1, <1>2, <1>3 DEF Cmp!AllCompared

LEMMA CmpGoesOn ==
  ASSUME Cmp!Parameters
  PROVE  (chosen = "compare" => Cmp!IInv) /\ [Next]_all => (chosen = "compare" => Cmp!IInv)'
<1> SUFFICES ASSUME chosen = "compare" => Cmp!IInv, [Next]_all, chosen' = "compare"
             PROVE  Cmp!IInv'
  OBVIOUS
<1>1. chosen = "compare" /\ [Cmp!Next]_(Cmp!vars)
  BY DEF Next, OfCmd, OfCompute, OfUpdate, OfCmp, all, Cmp!vars
<1> QED
  BY <1>1, CmpStep

LEMMA CmpInvariance ==
  ASSUME Cmp!Parameters
  PROVE  Spec => [](chosen = "compare" => Cmp!IInv)
<1>1. Init => (chosen = "compare" => Cmp!IInv)
  BY CmpInit DEF Init
<1> QED
  BY <1>1, CmpGoesOn, PTL DEF Spec

\* A Task Group that asks no more than another of a Worker Pool is told no worse of it,
\* however its Nodes come and go (compare.py).
THEOREM SameAnswers ==
  ASSUME Cmp!Parameters
  PROVE  Spec => []ComparedAlike
<1>1. (chosen = "compare" => Cmp!IInv) => ComparedAlike
  BY CmpAlike DEF ComparedAlike
<1> QED
  BY <1>1, CmpInvariance, PTL

\* A comparison of every Task Group with every Worker Pool is reported once, unless the
\* run ends before all could be (compare.py).
THEOREM EachCompared ==
  ASSUME Cmp!Parameters
  PROVE  Spec => [](chosen = "compare" => Cmp!AllCompared)
<1>1. (chosen = "compare" => Cmp!IInv) => (chosen = "compare" => Cmp!AllCompared)
  BY CmpAllCompared
<1> QED
  BY <1>1, CmpInvariance, PTL
-----------------------------------------------------------------------------
(* The updates. *)

LEMMA UpdToSetIs == \A s : Update!ToSet(s) = {s[i] : i \in DOMAIN s}
  BY DEF Update!ToSet

LEMMA UpdRangeIs == \A s : Update!ToSet(s) = Range(s)
  BY DEF Update!ToSet, Range

LEMMA UpdArrangedIs == \A s, p, key : Update!Arranged(s, p, key) = Arranged(s, p, key)
  BY DEF Update!Arranged, Arranged, Update!Cardinality, Cardinality

LEMMA UpdPickedIs == \A s, p : Update!Picked(s, p) = Picked(s, p)
  BY UpdArrangedIs DEF Update!Picked, Picked

LEMMA UpdPicks ==
  ASSUME NEW S, NEW s \in Seq(S), NEW P \in SUBSET DOMAIN s
  PROVE  /\ Update!Picked(s, P) \in Seq(S)
         /\ Update!ToSet(Update!Picked(s, P)) = {s[i] : i \in P}
         /\ (\A i, j \in P : s[i] = s[j] => i = j) =>
              \A m, n \in DOMAIN Update!Picked(s, P) :
                 Update!Picked(s, P)[m] = Update!Picked(s, P)[n] => m = n
<1>1. /\ Picked(s, P) \in Seq(S)
      /\ Range(Picked(s, P)) = {s[i] : i \in P}
      /\ (\A i, j \in P : s[i] = s[j] => i = j) =>
           \A m, n \in DOMAIN Picked(s, P) : Picked(s, P)[m] = Picked(s, P)[n] => m = n
  BY Picks
<1>2. Update!Picked(s, P) = Picked(s, P) /\ Update!ToSet(Picked(s, P)) = Range(Picked(s, P))
  BY UpdPickedIs, UpdRangeIs
<1>3. QED
  BY <1>1, <1>2

LEMMA UpdOnceIs ==
  ASSUME NEW S, NEW s \in Seq(S)
  PROVE  /\ Update!Once(s) \in Seq(S) /\ Update!ToSet(Update!Once(s)) = Update!ToSet(s)
         /\ \A m, n \in DOMAIN Update!Once(s) : Update!Once(s)[m] = Update!Once(s)[n] => m = n
<1>1. Update!Once(s) = Picked(s, Firsts(s))
  BY UpdPickedIs DEF Update!Once, Update!Firsts, Firsts
<1>2. /\ Picked(s, Firsts(s)) \in Seq(S) /\ Range(Picked(s, Firsts(s))) = Range(s)
      /\ \A m, n \in DOMAIN Picked(s, Firsts(s)) :
           Picked(s, Firsts(s))[m] = Picked(s, Firsts(s))[n] => m = n
  BY FirstsOnce
<1>3. /\ Update!ToSet(Picked(s, Firsts(s))) = Range(Picked(s, Firsts(s)))
      /\ Update!ToSet(s) = Range(s)
  BY UpdRangeIs
<1>4. QED
  BY <1>1, <1>2, <1>3

\* The groups of things are of one document each, and have each thing between them.
LEMMA UpdGroupedIs ==
  ASSUME NEW s \in Seq(Fields), \A i, j \in DOMAIN s : s[i] = s[j] => i = j
  PROVE  /\ Update!Grouped(s) \in Seq(Seq(Fields))
         /\ \A k \in DOMAIN Update!Grouped(s) :
              /\ Update!Grouped(s)[k] # <<>>
              /\ Update!ToSet(Update!Grouped(s)[k]) \subseteq Update!ToSet(s)
         /\ \A j, k \in DOMAIN Update!Grouped(s) :
              j # k =>
                 Update!ToSet(Update!Grouped(s)[j]) \cap Update!ToSet(Update!Grouped(s)[k]) = {}
         /\ r1 \in Update!Whole =>
               \A k \in DOMAIN Update!Grouped(s) : \A f \in Update!ToSet(Update!Grouped(s)[k]) :
                                   DocOf[f] = DocOf[Update!Grouped(s)[k][1]]
         /\ r1 \notin Update!Whole =>
               \A k \in DOMAIN Update!Grouped(s) : Len(Update!Grouped(s)[k]) = 1
         /\ \A f \in Update!ToSet(s) : \E k \in DOMAIN Update!Grouped(s) :
               f \in Update!ToSet(Update!Grouped(s)[k])
<1> DEFINE G == Update!Grouped(s)
           D == [k \in DOMAIN s |-> DocOf[s[k]]]
           docs == Update!Once(D)
           at(k) == {i \in DOMAIN s : DocOf[s[i]] = docs[k]}
<1>0. DOMAIN s = 1 .. Len(s) /\ Len(s) \in Nat
  OBVIOUS
<1>1. CASE r1 \notin Update!Whole
  <2>1. G = [k \in DOMAIN s |-> <<s[k]>>]
    BY <1>1 DEF Update!Grouped
  <2>2. G \in Seq(Seq(Fields))
    <3>1. \A k \in DOMAIN s : <<s[k]>> \in Seq(Fields)
      OBVIOUS
    <3>2. QED
      BY <1>0, <2>1, <3>1
  <2>3. \A k \in DOMAIN s :
           Update!ToSet(<<s[k]>>) = {s[k]} /\ <<s[k]>> # <<>> /\ Len(<<s[k]>>) = 1
    BY UpdToSetIs
  <2>4. Update!ToSet(s) = {s[k] : k \in DOMAIN s}
    BY UpdToSetIs
  <2> HIDE DEF G
  <2>5. /\ \A k \in DOMAIN G :
             G[k] # <<>> /\ Update!ToSet(G[k]) = {s[k]} /\ k \in DOMAIN s /\ Len(G[k]) = 1
        /\ DOMAIN G = DOMAIN s
    BY <2>1, <2>3
  <2>6. QED
    BY <1>1, <2>2, <2>4, <2>5 DEF G
<1>2. CASE r1 \in Update!Whole
  <2>1. D \in Seq({DocOf[s[k]] : k \in DOMAIN s})
    BY <1>0
  <2>2. /\ docs \in Seq({DocOf[s[k]] : k \in DOMAIN s})
        /\ Update!ToSet(docs) = Update!ToSet(D)
        /\ \A m, n \in DOMAIN docs : docs[m] = docs[n] => m = n
    BY <2>1, UpdOnceIs
  <2>3. G = [k \in DOMAIN docs |-> Update!Picked(s, at(k))]
    BY <1>2 DEF Update!Grouped
  <2> HIDE DEF docs, G
  <2>4. ASSUME NEW k \in DOMAIN docs
        PROVE  /\ G[k] \in Seq(Fields) /\ Update!ToSet(G[k]) = {s[i] : i \in at(k)}
               /\ at(k) # {} /\ G[k] # <<>>
    <3>1. at(k) \in SUBSET DOMAIN s
      OBVIOUS
    <3>2. G[k] = Update!Picked(s, at(k))
      BY <2>3
    <3>3. G[k] \in Seq(Fields) /\ Update!ToSet(G[k]) = {s[i] : i \in at(k)}
      <4> HIDE DEF at
      <4>1. QED
        BY <3>1, <3>2, UpdPicks
    <3>4. at(k) # {}
      <4>1. docs[k] \in Update!ToSet(D)
        BY <2>2, UpdToSetIs
      <4>2. PICK i \in DOMAIN D : docs[k] = D[i]
        BY <4>1, UpdToSetIs
      <4>3. QED
        BY <4>2
    <3>5. G[k] # <<>>
      <4>1. Update!ToSet(<<>>) = {}
        BY UpdToSetIs
      <4> HIDE DEF at
      <4>2. QED
        BY <3>3, <3>4, <4>1
    <3>6. QED
      BY <3>3, <3>4, <3>5
  <2>5. DOMAIN G = DOMAIN docs /\ DOMAIN docs = 1 .. Len(docs) /\ Len(docs) \in Nat
    BY <2>2, <2>3
  <2>6. G \in Seq(Seq(Fields))
    BY <2>3, <2>4, <2>5
  <2>7. \A k \in DOMAIN docs : \A f \in Update!ToSet(G[k]) :
           DocOf[f] = docs[k] /\ f \in Update!ToSet(s)
    <3>1. ASSUME NEW k \in DOMAIN docs, NEW f \in Update!ToSet(G[k])
          PROVE  DocOf[f] = docs[k] /\ f \in Update!ToSet(s)
      <4> HIDE DEF at
      <4>1. Update!ToSet(G[k]) = {s[i] : i \in at(k)}
        BY <2>4
      <4>2. PICK i \in at(k) : f = s[i]
        BY <4>1
      <4>3. i \in DOMAIN s /\ DocOf[s[i]] = docs[k]
        BY DEF at
      <4>4. QED
        BY <4>2, <4>3, UpdToSetIs
    <3>2. QED
      BY <3>1
  <2>8. \A k \in DOMAIN docs : G[k][1] \in Update!ToSet(G[k])
    <3>1. ASSUME NEW k \in DOMAIN docs PROVE G[k][1] \in Update!ToSet(G[k])
      <4>1. 1 \in DOMAIN G[k]
        BY <2>4
      <4>2. QED
        BY <4>1, UpdToSetIs
    <3>2. QED
      BY <3>1
  <2>9. ASSUME NEW f \in Update!ToSet(s)
        PROVE  \E k \in DOMAIN docs : f \in Update!ToSet(G[k])
    <3>1. PICK i \in DOMAIN s : f = s[i]
      BY UpdToSetIs
    <3>2. DocOf[f] \in Update!ToSet(D)
      BY <3>1, UpdToSetIs
    <3>3. PICK k \in DOMAIN docs : docs[k] = DocOf[f]
      BY <2>2, <3>2, UpdToSetIs
    <3>4. i \in at(k)
      BY <3>1, <3>3
    <3> HIDE DEF at
    <3>5. f \in Update!ToSet(G[k])
      BY <2>4, <3>1, <3>4
    <3>6. QED
      BY <3>5
  <2>10. ASSUME NEW j \in DOMAIN docs, NEW k \in DOMAIN docs, j # k
         PROVE  Update!ToSet(G[j]) \cap Update!ToSet(G[k]) = {}
    <3>1. \A f \in Update!ToSet(G[j]) \cap Update!ToSet(G[k]) : docs[j] = docs[k]
      BY <2>7
    <3>2. docs[j] # docs[k]
      BY <2>2, <2>10
    <3>3. QED
      BY <3>1, <3>2
  <2>11. \A k \in DOMAIN docs : \A f \in Update!ToSet(G[k]) : DocOf[f] = DocOf[G[k][1]]
    BY <2>7, <2>8
  <2>12. QED
    BY <1>2, <2>4, <2>5, <2>6, <2>7, <2>9, <2>10, <2>11 DEF G
<1>3. QED
  BY <1>1, <1>2

LEMMA UpdUngroupedIs ==
  ASSUME r5 \in Seq(Fields), NEW gs \in Seq(Seq(Fields))
  PROVE  /\ Update!Ungrouped(gs) \in Seq(Fields)
         /\ \A f \in Update!ToSet(r5) :
              (\E k \in DOMAIN gs : f \in Update!ToSet(gs[k])) =>
                 f \in Update!ToSet(Update!Ungrouped(gs))
<1> DEFINE P == {i \in DOMAIN r5 : \E k \in DOMAIN gs : r5[i] \in Update!ToSet(gs[k])}
           key == [i \in P |-> Update!InGroup(i, gs)]
<1>1. P \in SUBSET DOMAIN r5
  OBVIOUS
<1>2. key \in [P -> Nat]
  <2>1. ASSUME NEW i \in P PROVE Update!InGroup(i, gs) \in Nat
    <3>1. \E k \in DOMAIN gs : r5[i] \in Update!ToSet(gs[k])
      OBVIOUS
    <3>2. Update!InGroup(i, gs) \in DOMAIN gs
      BY <3>1 DEF Update!InGroup
    <3>3. QED
      BY <3>2
  <2>2. QED
    BY <2>1
<1>3. Update!Ungrouped(gs) = Arranged(r5, P, key)
  BY UpdArrangedIs DEF Update!Ungrouped
<1> HIDE DEF key
<1>4. /\ Update!Ungrouped(gs) \in Seq(Fields)
      /\ Update!ToSet(Update!Ungrouped(gs)) = {r5[i] : i \in P}
  <2> HIDE DEF P
  <2>1. /\ Arranged(r5, P, key) \in Seq(Fields)
        /\ {Arranged(r5, P, key)[n] : n \in DOMAIN Arranged(r5, P, key)}
             = {r5[i] : i \in P}
    BY <1>1, <1>2, Arranges
  <2>2. Update!ToSet(Update!Ungrouped(gs)) =
           {Update!Ungrouped(gs)[n] : n \in DOMAIN Update!Ungrouped(gs)}
    BY UpdToSetIs
  <2>3. QED
    BY <1>3, <2>1, <2>2
<1>5. ASSUME NEW f \in Update!ToSet(r5), NEW k \in DOMAIN gs, f \in Update!ToSet(gs[k])
      PROVE  f \in Update!ToSet(Update!Ungrouped(gs))
  <2>1. PICK i \in DOMAIN r5 : f = r5[i]
    BY UpdToSetIs
  <2>2. i \in P
    BY <1>5, <2>1
  <2>3. QED
    BY <1>4, <2>1, <2>2
<1>6. QED
  BY <1>4, <1>5

(* What it records, and a step. *)

LEMMA UpdRowsAre ==
  ASSUME NEW s \in Seq(Fields), NEW outcome \in {"changed", "skipped", "failed"}
  PROVE  /\ Update!Rows(s, outcome) \in Seq(Update!Sorts)
         /\ DOMAIN Update!Rows(s, outcome) = DOMAIN s
         /\ \A k \in DOMAIN s : /\ Update!Rows(s, outcome)[k].of = s[k]
                                /\ Update!Rows(s, outcome)[k].outcome = outcome
<1>1. \A k \in DOMAIN s : Update!Row(s[k], outcome, Update!Unset) \in Update!Sorts
  BY DEF Update!Row, Update!Sorts, Update!Unset
<1>2. DOMAIN s = 1 .. Len(s) /\ Len(s) \in Nat
  OBVIOUS
<1>3. Update!Rows(s, outcome) = [k \in DOMAIN s |-> Update!Row(s[k], outcome, Update!Unset)]
  BY DEF Update!Rows
<1>4. QED
  BY <1>1, <1>2, <1>3 DEF Update!Row

LEMMA UpdGrows ==
  ASSUME r9 \in Seq(Update!Sorts), NEW t \in Seq(Update!Sorts), r9' = r9 \o t
  PROVE  /\ r9' \in Seq(Update!Sorts)
         /\ \A f : Update!Told(f)' <=> Update!Told(f) \/ \E k \in DOMAIN t : t[k].of = f
         /\ \A f : Update!ToldChanged(f)' <=>
              Update!ToldChanged(f) \/ \E k \in DOMAIN t :
                 t[k].of = f /\ t[k].outcome = "changed"
<1> DEFINE has == Range(r9)
           more == Range(t)
<1>1. r9' \in Seq(Update!Sorts)
  OBVIOUS
<1>2. Range(r9') = has \cup more
  <2>1. Range(r9 \o t) = has \cup more
    BY RangeConcatenation
  <2>2. QED
    BY <2>1
<1>3. \A f : /\ Update!Told(f) <=> \E x \in has : x.of = f
             /\ Update!ToldChanged(f) <=> \E x \in has : x.of = f /\ x.outcome = "changed"
  BY DEF Update!Told, Update!ToldChanged, Range
<1>4. \A f : /\ Update!Told(f)' <=> \E x \in Range(r9') : x.of = f
             /\ Update!ToldChanged(f)' <=>
                   \E x \in Range(r9') : x.of = f /\ x.outcome = "changed"
  BY DEF Update!Told, Update!ToldChanged, Range
<1>5. \A f : /\ (\E k \in DOMAIN t : t[k].of = f) <=> \E x \in more : x.of = f
             /\ (\E k \in DOMAIN t : t[k].of = f /\ t[k].outcome = "changed")
                  <=> \E x \in more : x.of = f /\ x.outcome = "changed"
  BY DEF Range
<1> HIDE DEF more, has
<1>6. ASSUME NEW f
      PROVE  Update!Told(f)' <=> Update!Told(f) \/ \E k \in DOMAIN t : t[k].of = f
  <2>1. (\E x \in Range(r9') : x.of = f) <=>
          (\E x \in has : x.of = f) \/ (\E x \in more : x.of = f)
    BY <1>2
  <2>2. QED
    BY <1>3, <1>4, <1>5, <2>1
<1>7. ASSUME NEW f
      PROVE  Update!ToldChanged(f)' <=>
               Update!ToldChanged(f) \/ \E k \in DOMAIN t :
                  t[k].of = f /\ t[k].outcome = "changed"
  <2>1. (\E x \in Range(r9') : x.of = f /\ x.outcome = "changed") <=>
          \/ \E x \in has : x.of = f /\ x.outcome = "changed"
          \/ \E x \in more : x.of = f /\ x.outcome = "changed"
    BY <1>2
  <2>2. QED
    BY <1>3, <1>4, <1>5, <2>1
<1>8. QED
  BY <1>1, <1>6, <1>7

LEMMA UpdStays ==
  ASSUME r9' = r9
  PROVE  \A f : /\ Update!Told(f)' <=> Update!Told(f)
                /\ Update!ToldChanged(f)' <=> Update!ToldChanged(f)
  BY DEF Update!Told, Update!ToldChanged

LEMMA UpdTells ==
  ASSUME r9 \in Seq(Update!Sorts), NEW s \in Seq(Fields), NEW t \in Seq(Fields),
         NEW o \in {"skipped", "failed"}, NEW p \in {"skipped", "failed"},
         r9' = r9 \o Update!Rows(s, o) \o Update!Rows(t, p)
  PROVE  /\ r9' \in Seq(Update!Sorts)
         /\ \A f : Update!Told(f)' <=>
               Update!Told(f) \/ f \in Update!ToSet(s) \/ f \in Update!ToSet(t)
         /\ \A f : Update!ToldChanged(f)' <=> Update!ToldChanged(f)
<1> DEFINE a == Update!Rows(s, o)
           b == Update!Rows(t, p)
           c == a \o b
<1>1. /\ a \in Seq(Update!Sorts) /\ DOMAIN a = DOMAIN s
      /\ \A k \in DOMAIN s : a[k].of = s[k] /\ a[k].outcome = o
  BY UpdRowsAre
<1>2. /\ b \in Seq(Update!Sorts) /\ DOMAIN b = DOMAIN t
      /\ \A k \in DOMAIN t : b[k].of = t[k] /\ b[k].outcome = p
  BY UpdRowsAre
<1> HIDE DEF a, b
<1>3. c \in Seq(Update!Sorts) /\ Range(c) = Range(a) \cup Range(b)
  BY <1>1, <1>2, RangeConcatenation
<1>4. r9' = r9 \o c
  BY <1>1, <1>2 DEF a, b
<1> HIDE DEF c
<1>5. \A x \in Range(c) : x.outcome # "changed"
  <2>1. (\A x \in Range(a) : x.outcome # "changed") /\ \A x \in Range(b) : x.outcome # "changed"
    BY <1>1, <1>2 DEF Range
  <2>2. QED
    BY <1>3, <2>1
<1>6. \A f : (\E x \in Range(c) : x.of = f) <=> f \in Update!ToSet(s) \/ f \in Update!ToSet(t)
  <2>1. /\ \A f : (\E x \in Range(a) : x.of = f) <=> f \in Range(s)
        /\ \A f : (\E x \in Range(b) : x.of = f) <=> f \in Range(t)
    <3>1. \A f : (\E x \in Range(a) : x.of = f) <=> f \in Range(s)
      BY <1>1 DEF Range
    <3>2. \A f : (\E x \in Range(b) : x.of = f) <=> f \in Range(t)
      BY <1>2 DEF Range
    <3>3. QED
      BY <3>1, <3>2
  <2>2. ASSUME NEW f
        PROVE  (\E x \in Range(c) : x.of = f) <=>
                 (\E x \in Range(a) : x.of = f) \/ (\E x \in Range(b) : x.of = f)
    BY <1>3
  <2>3. QED
    BY <2>1, <2>2, UpdRangeIs
<1>7. /\ r9' \in Seq(Update!Sorts)
      /\ \A f : Update!Told(f)' <=> Update!Told(f) \/ \E k \in DOMAIN c : c[k].of = f
      /\ \A f : Update!ToldChanged(f)' <=>
           Update!ToldChanged(f) \/ \E k \in DOMAIN c : c[k].of = f /\ c[k].outcome = "changed"
  BY <1>3, <1>4, UpdGrows
<1>8. \A k \in DOMAIN c : c[k].outcome # "changed"
  BY <1>5 DEF Range
<1>9. \A f : (\E k \in DOMAIN c : c[k].of = f) <=> \E x \in Range(c) : x.of = f
  BY DEF Range
<1>10. QED
  BY <1>6, <1>7, <1>8, <1>9

LEMMA UpdTellsOf ==
  ASSUME r9 \in Seq(Update!Sorts), NEW s \in Seq(Fields), NEW o \in {"skipped", "failed"},
         r9' = r9 \o Update!Rows(s, o)
  PROVE  /\ r9' \in Seq(Update!Sorts)
         /\ \A f : Update!Told(f)' <=> Update!Told(f) \/ f \in Update!ToSet(s)
         /\ \A f : Update!ToldChanged(f)' <=> Update!ToldChanged(f)
<1>1. /\ Update!Rows(<<>>, o) = <<>> /\ <<>> \in Seq(Fields)
      /\ Update!Rows(s, o) \in Seq(Update!Sorts)
  <2>1. <<>> \in Seq(Fields) /\ Update!Rows(s, o) \in Seq(Update!Sorts)
    BY UpdRowsAre
  <2>2. DOMAIN Update!Rows(<<>>, o) = DOMAIN <<>> /\ Update!Rows(<<>>, o) \in Seq(Update!Sorts)
    BY <2>1, UpdRowsAre
  <2>3. QED
    BY <2>1, <2>2
<1>2. r9' = r9 \o Update!Rows(s, o) \o Update!Rows(<<>>, o)
  BY <1>1
<1>3. Update!ToSet(<<>>) = {}
  BY UpdToSetIs
<1>4. QED
  BY <1>1, <1>2, <1>3, UpdTells

\* Before anything is changed.
LEMMA UpdResolves ==
  ASSUME Update!IInv, r3 = "resolve", r1' = r1, r4' \in Seq(Fields), r5' \in Seq(Fields),
         \A i, j \in DOMAIN r5' : r5'[i] = r5'[j] => i = j,
         Update!Single => Len(r4') + Len(r5') <= 1, r9' \in Seq(Update!Sorts),
         \A f : Update!ToldChanged(f)' <=> Update!ToldChanged(f), r7' = r7, r8' = r8,
         UNCHANGED Update!platform, r3' \in {"resolve", "return", "exit"},
         r11' # Update!Unset => r3' = "exit",
         r3' # "resolve" => \A f \in Update!ToSet(r5') : Update!Told(f)'
  PROVE  Update!IInv'
<1> USE DEF Update!IInv
<1>1. Update!ItemsInv'
  BY DEF Update!ItemsInv, Update!Single, Update!platform
<1>2. r7 = <<>> /\ r7' = <<>>
  BY DEF Update!GroupsInv
<1>3. Update!GroupsInv'
  BY <1>2 DEF Update!GroupsInv, Update!Awaits
<1>4. Update!CallsInv'
  BY <1>2 DEF Update!CallsInv, Update!platform, Update!Awaits
<1>5. Update!CopyInv'
  BY DEF Update!CopyInv
<1>6. QED
  BY <1>1, <1>3, <1>4, <1>5

LEMMA UpdResolvingIs ==
  ASSUME Update!IInv, Update!Resolving
  PROVE  /\ r3 = "resolve" /\ Update!Of \in Fields /\ r4 = <<Update!Of>> \o Tail(r4)
         /\ Tail(r4) \in Seq(Fields) /\ Len(Tail(r4)) = Len(r4) - 1
         /\ Len(r4) \in Nat /\ Len(r5) \in Nat /\ r11 = Update!Unset
         /\ Update!Single => r5 = <<>> /\ Tail(r4) = <<>>
<1>1. /\ r3 = "resolve" /\ Update!Of \in Fields /\ r4 \in Seq(Fields) /\ r4 # <<>>
      /\ r5 \in Seq(Fields) /\ Len(r4) \in Nat /\ Len(r5) \in Nat /\ Len(r4) > 0
      /\ r11 = Update!Unset /\ (Update!Single => Len(r4) + Len(r5) <= 1)
  BY DEF Update!IInv, Update!ItemsInv, Update!GroupsInv, Update!Resolving, Update!Of
<1>2. Tail(r4) \in Seq(Fields) /\ Len(Tail(r4)) = Len(r4) - 1
  BY <1>1
<1>3. Update!Single => Len(r5) = 0 /\ Len(Tail(r4)) = 0
  BY <1>1, <1>2
<1>4. r4 = <<Update!Of>> \o Tail(r4)
  BY <1>1 DEF Update!Of
<1>5. QED
  BY <1>1, <1>2, <1>3, <1>4

LEMMA UpdResolveHolds ==
  ASSUME Update!IInv, Update!Resolve
  PROVE  Update!IInv'
<1>1. /\ r3 = "resolve" /\ Update!Of \in Fields /\ Tail(r4) \in Seq(Fields)
      /\ Len(Tail(r4)) = Len(r4) - 1 /\ Len(r4) \in Nat /\ Len(r5) \in Nat /\ r11 = Update!Unset
  BY UpdResolvingIs DEF Update!Resolve
<1>2. /\ r5' = Update!Adds(Update!Of) /\ r4' = Tail(r4)
      /\ UNCHANGED <<Update!line, r3, r7, r8, r11, Update!platform>>
      /\ r9' = r9
  BY DEF Update!Resolve, Update!After1, Update!told
<1>3. r5 \in Seq(Fields) /\ \A i, j \in DOMAIN r5 : r5[i] = r5[j] => i = j
  BY DEF Update!IInv, Update!ItemsInv
<1>4. /\ r5' \in Seq(Fields) /\ Len(r5') <= Len(r5) + 1
      /\ \A i, j \in DOMAIN r5' : r5'[i] = r5'[j] => i = j
  <2>1. CASE Update!Of \in Update!ToSet(r5)
    BY <1>1, <1>2, <1>3, <2>1 DEF Update!Adds
  <2>2. CASE Update!Of \notin Update!ToSet(r5)
    <3>1. r5' = Append(r5, Update!Of)
      BY <1>2, <2>2 DEF Update!Adds
    <3>2. \A i \in DOMAIN r5 : r5[i] # Update!Of
      BY <2>2, UpdToSetIs
    <3>3. /\ r5' \in Seq(Fields) /\ Len(r5') = Len(r5) + 1
          /\ DOMAIN r5' = 1 .. Len(r5) + 1 /\ DOMAIN r5 = 1 .. Len(r5)
          /\ \A i \in DOMAIN r5 : r5'[i] = r5[i]
          /\ r5'[Len(r5) + 1] = Update!Of
      BY <1>1, <1>3, <3>1
    <3>4. \A i \in DOMAIN r5' : i \in DOMAIN r5 \/ i = Len(r5) + 1
      BY <1>1, <3>3
    <3>5. QED
      BY <1>1, <1>3, <3>2, <3>3, <3>4
  <2>3. QED
    BY <2>1, <2>2
<1>5. Update!Single => Len(r4') + Len(r5') <= 1
  <2>1. Update!Single => Len(r4) + Len(r5) <= 1
    BY DEF Update!IInv, Update!ItemsInv
  <2>2. Len(r5') \in Nat
    BY <1>4
  <2>3. QED
    BY <1>1, <1>2, <1>4, <2>1, <2>2
<1>6. r9' \in Seq(Update!Sorts)
  BY <1>2 DEF Update!IInv, Update!ItemsInv
<1>7. QED
  BY <1>1, <1>2, <1>4, <1>5, <1>6, UpdStays, UpdResolves DEF Update!line

LEMMA UpdSkipsHolds ==
  ASSUME Update!IInv, Update!ResolveSkips \/ Update!ResolveRefuses
  PROVE  Update!IInv'
<1>1. Update!Resolving
  BY DEF Update!ResolveSkips, Update!ResolveRefuses
<1>2. /\ r3 = "resolve" /\ Update!Of \in Fields /\ Tail(r4) \in Seq(Fields)
      /\ Len(Tail(r4)) = Len(r4) - 1 /\ Len(r4) \in Nat /\ Len(r5) \in Nat /\ r11 = Update!Unset
  BY <1>1, UpdResolvingIs
<1>3. PICK outcome \in {"skipped", "failed"} :
         r9' = Append(r9, Update!Row(Update!Of, outcome, Update!Unset))
  BY DEF Update!ResolveSkips, Update!ResolveRefuses
<1>4. /\ r4' = Tail(r4) /\ r5' = r5
      /\ UNCHANGED <<Update!line, r3, r7, r8, r11, Update!platform>>
  BY DEF Update!ResolveSkips, Update!ResolveRefuses, Update!After1
<1>5. /\ <<Update!Row(Update!Of, outcome, Update!Unset)>> \in Seq(Update!Sorts)
      /\ r9' = r9 \o <<Update!Row(Update!Of, outcome, Update!Unset)>>
  <2>1. Update!Row(Update!Of, outcome, Update!Unset) \in Update!Sorts
    BY <1>2 DEF Update!Row, Update!Sorts, Update!Unset
  <2>2. r9 \in Seq(Update!Sorts)
    BY DEF Update!IInv, Update!ItemsInv
  <2>3. QED
    BY <1>3, <2>1, <2>2
<1>6. r9' \in Seq(Update!Sorts) /\ \A f : Update!ToldChanged(f)' <=> Update!ToldChanged(f)
  <2>1. \A k \in DOMAIN <<Update!Row(Update!Of, outcome, Update!Unset)>> :
          <<Update!Row(Update!Of, outcome, Update!Unset)>>[k].outcome # "changed"
    BY DEF Update!Row
  <2> DEFINE t == <<Update!Row(Update!Of, outcome, Update!Unset)>>
  <2>2. r9 \in Seq(Update!Sorts) /\ t \in Seq(Update!Sorts) /\ r9' = r9 \o t
    BY <1>5 DEF Update!IInv, Update!ItemsInv
  <2>3. \A k \in DOMAIN t : t[k].outcome # "changed"
    BY <2>1
  <2> HIDE DEF t
  <2>4. /\ r9' \in Seq(Update!Sorts)
        /\ \A f : Update!ToldChanged(f)' <=>
             Update!ToldChanged(f) \/ \E k \in DOMAIN t : t[k].of = f /\ t[k].outcome = "changed"
    BY <2>2, UpdGrows
  <2>5. QED
    BY <2>3, <2>4
<1>7. Update!Single => Len(r4') + Len(r5') <= 1
  <2>1. Update!Single => Len(r4) + Len(r5) <= 1
    BY DEF Update!IInv, Update!ItemsInv
  <2>2. QED
    BY <1>2, <1>4, <2>1
<1>8. r5 \in Seq(Fields) /\ \A i, j \in DOMAIN r5 : r5[i] = r5[j] => i = j
  BY DEF Update!IInv, Update!ItemsInv
<1>9. QED
  BY <1>2, <1>4, <1>6, <1>7, <1>8, UpdResolves DEF Update!line

LEMMA UpdResolveFailsHolds ==
  ASSUME Update!IInv, NEW code, Update!ResolveFails(code)
  PROVE  Update!IInv'
<1>1. /\ r3 = "resolve" /\ Update!Of \in Fields /\ Tail(r4) \in Seq(Fields)
      /\ Len(Tail(r4)) = Len(r4) - 1 /\ Len(r4) \in Nat /\ Len(r5) \in Nat /\ r11 = Update!Unset
      /\ Update!Single => r5 = <<>>
  BY UpdResolvingIs DEF Update!ResolveFails
<1>2. /\ r4' = Tail(r4) /\ r9' = r9 \o Update!Rows(<<Update!Of>>, "failed")
      /\ UNCHANGED <<Update!line, r5, r6, r7, r8, Update!platform>>
      /\ IF Update!Single THEN Update!Ends(code) ELSE Update!Goes(r3)
  BY DEF Update!ResolveFails, Update!Fails
<1>3. r9 \in Seq(Update!Sorts) /\ <<Update!Of>> \in Seq(Fields)
  BY <1>1 DEF Update!IInv, Update!ItemsInv
<1>4. r9' \in Seq(Update!Sorts) /\ \A f : Update!ToldChanged(f)' <=> Update!ToldChanged(f)
  BY <1>2, <1>3, UpdTellsOf
<1>5. Update!Single => Len(r4') + Len(r5') <= 1
  <2>1. Update!Single => Len(r4) + Len(r5) <= 1
    BY DEF Update!IInv, Update!ItemsInv
  <2>2. QED
    BY <1>1, <1>2, <2>1
<1>6. r5 \in Seq(Fields) /\ \A i, j \in DOMAIN r5 : r5[i] = r5[j] => i = j
  BY DEF Update!IInv, Update!ItemsInv
<1>7. /\ r3' \in {"resolve", "exit"}
      /\ r3' = "exit" => r5' = <<>>
  BY <1>1, <1>2 DEF Update!Ends, Update!Goes
<1>8. r3' # "resolve" => \A f \in Update!ToSet(r5') : Update!Told(f)'
  <2>1. Update!ToSet(<<>>) = {}
    BY UpdToSetIs
  <2>2. r3' # "resolve" => r5' = <<>>
    BY <1>7
  <2>3. r3' # "resolve" => Update!ToSet(r5') = {}
    BY <2>1, <2>2
  <2>4. QED
    BY <2>3
<1>9. r11' # Update!Unset => r3' = "exit"
  BY <1>1, <1>2 DEF Update!Ends, Update!Goes
<1>10. /\ r4' \in Seq(Fields) /\ r5' \in Seq(Fields) /\ r1' = r1
       /\ \A i, j \in DOMAIN r5' : r5'[i] = r5'[j] => i = j
       /\ r3' \in {"resolve", "return", "exit"} /\ r7' = r7 /\ r8' = r8
  <2>1. r4' \in Seq(Fields) /\ r1' = r1 /\ r7' = r7 /\ r8' = r8
    BY <1>1, <1>2 DEF Update!line
  <2>2. r5' = r5
    BY <1>2
  <2>3. QED
    BY <1>6, <1>7, <2>1, <2>2
<1>11. QED
  BY <1>1, <1>2, <1>4, <1>5, <1>8, <1>9, <1>10, UpdResolves

\* Nothing is changed any more.
LEMMA UpdNoMore ==
  ASSUME Update!IInv, UNCHANGED <<Update!line, Update!run, Update!platform>>,
         r9' \in Seq(Update!Sorts), \A f : Update!ToldChanged(f)' <=> Update!ToldChanged(f),
         r3' = "exit", \A f \in Update!ToSet(r5) : Update!Told(f)'
  PROVE  Update!IInv'
<1> USE DEF Update!IInv, Update!line, Update!run, Update!platform
<1>1. Update!ItemsInv'
  BY DEF Update!ItemsInv, Update!Single
<1>2. \A f : Update!Awaits(f)' <=> Update!Awaits(f)
  BY DEF Update!Awaits
<1>3. Update!GroupsInv'
  BY <1>2 DEF Update!GroupsInv
<1>4. Update!CallsInv'
  BY <1>2 DEF Update!CallsInv
<1>5. Update!CopyInv'
  BY DEF Update!CopyInv
<1>6. QED
  BY <1>1, <1>3, <1>4, <1>5

LEMMA UpdResolveStopsHolds ==
  ASSUME Update!IInv, NEW code, Update!ResolveStops(code)
  PROVE  Update!IInv'
<1>1. Update!Of \in Fields /\ Tail(r4) \in Seq(Fields)
  BY UpdResolvingIs DEF Update!ResolveStops
<1>2. r9 \in Seq(Update!Sorts) /\ r5 \in Seq(Fields)
  BY DEF Update!IInv, Update!ItemsInv
<1>3. /\ r5 \o Tail(r4) \in Seq(Fields)
      /\ Range(r5 \o Tail(r4)) = Range(r5) \cup Range(Tail(r4))
  <2>1. r5 \o Tail(r4) \in Seq(Fields)
    BY <1>1, <1>2
  <2>2. Range(r5 \o Tail(r4)) = Range(r5) \cup Range(Tail(r4))
    BY <1>1, <1>2, RangeConcatenation
  <2>3. QED
    BY <2>1, <2>2
<1> DEFINE rest == r5 \o Tail(r4)
<1>4. /\ Update!ToSet(r5) \subseteq Update!ToSet(rest) /\ rest \in Seq(Fields)
      /\ <<Update!Of>> \in Seq(Fields)
  BY <1>1, <1>3, UpdRangeIs
<1>5. r9' = r9 \o Update!Rows(<<Update!Of>>, "failed") \o Update!Rows(rest, "skipped")
  BY DEF Update!ResolveStops
<1> HIDE DEF rest
<1>6. /\ r9' \in Seq(Update!Sorts) /\ \A f : Update!ToldChanged(f)' <=> Update!ToldChanged(f)
      /\ \A f : Update!Told(f)' <=>
            Update!Told(f) \/ f \in Update!ToSet(<<Update!Of>>) \/ f \in Update!ToSet(rest)
  BY <1>2, <1>4, <1>5, UpdTells
<1>7. r3' = "exit" /\ UNCHANGED <<Update!line, Update!run, Update!platform>>
  BY DEF Update!ResolveStops, Update!Ends
<1>8. QED
  BY <1>4, <1>6, <1>7, UpdNoMore

LEMMA UpdReturnHolds ==
  ASSUME Update!IInv, Update!Return
  PROVE  Update!IInv'
<1>1. \A f \in Update!ToSet(r5) : Update!Told(f)
  BY DEF Update!Return, Update!IInv, Update!GroupsInv, Update!Awaits
<1>2. r3' = "exit" /\ r9' = r9 /\ UNCHANGED <<Update!line, Update!run, Update!platform>>
  BY DEF Update!Return, Update!Ends, Update!told
<1>3. r9' \in Seq(Update!Sorts)
  BY <1>2 DEF Update!IInv, Update!ItemsInv
<1>4. \A f : /\ Update!Told(f)' <=> Update!Told(f)
             /\ Update!ToldChanged(f)' <=> Update!ToldChanged(f)
  BY <1>2, UpdStays
<1>5. QED
  BY <1>1, <1>2, <1>3, <1>4, UpdNoMore

LEMMA UpdConfirmHolds ==
  ASSUME Update!IInv, Update!Confirm
  PROVE  Update!IInv'
<1>1. /\ r3 = "resolve" /\ r4 \in Seq(Fields) /\ r5 \in Seq(Fields) /\ r9 \in Seq(Update!Sorts)
      /\ \A i, j \in DOMAIN r5 : r5[i] = r5[j] => i = j
      /\ Update!Single => Len(r4) + Len(r5) <= 1
      /\ r11 = Update!Unset
  BY DEF Update!IInv, Update!ItemsInv, Update!GroupsInv, Update!Confirm
<1>2. /\ UNCHANGED <<Update!line, r4, r5, r6, r8, r10, Update!platform>>
      /\ r11' = r11
  BY DEF Update!Confirm, Update!Goes
<1>3. CASE r7' = Update!Grouped(r5) /\ r3' = "change" /\ r9' = r9
  <2>1. Update!ItemsInv'
    BY <1>2, <1>3 DEF Update!IInv, Update!ItemsInv, Update!Single, Update!line, Update!platform
  <2>2. Update!GroupsInv'
    <3>1. /\ r7' \in Seq(Seq(Fields))
          /\ \A k \in DOMAIN r7' :
                r7'[k] # <<>> /\ Update!ToSet(r7'[k]) \subseteq Update!ToSet(r5)
          /\ \A j, k \in DOMAIN r7' : j # k =>
                Update!ToSet(r7'[j]) \cap Update!ToSet(r7'[k]) = {}
          /\ r1 \in Update!Whole => \A k \in DOMAIN r7' : \A f \in Update!ToSet(r7'[k]) :
                                    DocOf[f] = DocOf[r7'[k][1]]
          /\ r1 \notin Update!Whole => \A k \in DOMAIN r7' : Len(r7'[k]) = 1
          /\ \A f \in Update!ToSet(r5) : \E k \in DOMAIN r7' : f \in Update!ToSet(r7'[k])
      <4>1. /\ Update!Grouped(r5) \in Seq(Seq(Fields))
            /\ \A k \in DOMAIN Update!Grouped(r5) :
                 /\ Update!Grouped(r5)[k] # <<>>
                 /\ Update!ToSet(Update!Grouped(r5)[k]) \subseteq Update!ToSet(r5)
            /\ \A j, k \in DOMAIN Update!Grouped(r5) :
                 j # k =>
                    Update!ToSet(Update!Grouped(r5)[j]) \cap Update!ToSet(Update!Grouped(r5)[k])
                      = {}
            /\ r1 \in Update!Whole =>
                 \A k \in DOMAIN Update!Grouped(r5) :
                    \A f \in Update!ToSet(Update!Grouped(r5)[k]) :
                   DocOf[f] = DocOf[Update!Grouped(r5)[k][1]]
            /\ r1 \notin Update!Whole =>
                  \A k \in DOMAIN Update!Grouped(r5) : Len(Update!Grouped(r5)[k]) = 1
            /\ \A f \in Update!ToSet(r5) :
                 \E k \in DOMAIN Update!Grouped(r5) : f \in Update!ToSet(Update!Grouped(r5)[k])
        BY <1>1, UpdGroupedIs
      <4>2. QED
        BY <1>3, <4>1
    <3>2. \A f \in Update!ToSet(r5) : Update!Awaits(f)'
      BY <3>1 DEF Update!Awaits
    <3>3. QED
      BY <1>1, <1>2, <1>3, <3>1, <3>2 DEF Update!GroupsInv, Update!line
  <2>3. Update!CallsInv'
    <3>1. \A f : Update!ToldChanged(f)' <=> Update!ToldChanged(f)
      BY <1>3, UpdStays
    <3>2. QED
      BY <1>1, <1>2, <3>1 DEF Update!IInv, Update!CallsInv, Update!platform
  <2>4. Update!CopyInv'
    BY <1>1, <1>2, <1>3 DEF Update!IInv, Update!CopyInv
  <2>5. QED
    BY <2>1, <2>2, <2>3, <2>4 DEF Update!IInv
<1>4. CASE r9' = r9 \o Update!Rows(r5, "skipped") /\ r3' = "return" /\ r7' = r7
  <2>1. /\ r9' \in Seq(Update!Sorts) /\ \A f : Update!ToldChanged(f)' <=> Update!ToldChanged(f)
        /\ \A f : Update!Told(f)' <=> Update!Told(f) \/ f \in Update!ToSet(r5)
    BY <1>1, <1>4, UpdTellsOf
  <2>2. QED
    BY <1>1, <1>2, <1>4, <2>1, UpdResolves DEF Update!line
<1>5. QED
  BY <1>3, <1>4 DEF Update!Confirm, Update!Goes

LEMMA UpdNothingToChangeHolds ==
  ASSUME Update!IInv, Update!NothingToChange
  PROVE  Update!IInv'
<1>1. /\ r3 = "resolve" /\ r4 \in Seq(Fields) /\ r5 = <<>> /\ r9 \in Seq(Update!Sorts)
      /\ Update!Single => Len(r4) + Len(r5) <= 1
      /\ r11 = Update!Unset
  BY DEF Update!IInv, Update!ItemsInv, Update!GroupsInv, Update!NothingToChange
<1>2. /\ r3' = "return" /\ r11' = r11 /\ r9' = r9
      /\ UNCHANGED <<Update!line, Update!run, Update!platform>>
  BY DEF Update!NothingToChange, Update!Goes, Update!told
<1>3. \A f : Update!ToldChanged(f)' <=> Update!ToldChanged(f)
  BY <1>2, UpdStays
<1>4. Update!ToSet(r5') = {}
  BY <1>1, <1>2, UpdToSetIs DEF Update!run
<1>5. QED
  BY <1>1, <1>2, <1>3, <1>4, UpdResolves DEF Update!line, Update!run

(* A change. *)

LEMMA UpdGroupIs ==
  ASSUME Update!IInv, r7 # <<>>
  PROVE  /\ Update!Group \in Seq(Fields) /\ Update!Group # <<>>
         /\ 1 \in DOMAIN Update!Group /\ Update!Group[1] \in Update!ToSet(Update!Group)
         /\ Update!ToSet(Update!Group) \subseteq Fields
         /\ Tail(r7) \in Seq(Seq(Fields))
         /\ Len(Tail(r7)) = Len(r7) - 1 /\ DOMAIN Tail(r7) = 1 .. Len(r7) - 1
         /\ \A k \in DOMAIN Tail(r7) :
              k + 1 \in DOMAIN r7 /\ k + 1 # 1 /\ Tail(r7)[k] = r7[k + 1]
         /\ 1 \in DOMAIN r7 /\ Update!Group = r7[1] /\ Len(r7) \in Nat
<1>1. r7 \in Seq(Seq(Fields)) /\ r7 # <<>>
  BY DEF Update!IInv, Update!GroupsInv
<1>2. Len(r7) \in Nat \ {0} /\ DOMAIN r7 = 1 .. Len(r7)
  BY <1>1
<1>3. /\ Update!Group = r7[1] /\ 1 \in DOMAIN r7 /\ Update!Group \in Seq(Fields)
      /\ Tail(r7) \in Seq(Seq(Fields)) /\ DOMAIN Tail(r7) = 1 .. Len(r7) - 1
      /\ Len(Tail(r7)) = Len(r7) - 1
      /\ \A k \in 1 .. Len(r7) - 1 : Tail(r7)[k] = r7[k + 1]
  BY <1>1, <1>2 DEF Update!Group
<1>4. \A k \in 1 .. Len(r7) - 1 : k + 1 \in DOMAIN r7 /\ k + 1 # 1
  BY <1>2
<1>5. Update!Group # <<>>
  BY <1>3 DEF Update!IInv, Update!GroupsInv
<1>6. 1 \in DOMAIN Update!Group
  BY <1>3, <1>5
<1>7. Update!ToSet(Update!Group) = {Update!Group[i] : i \in DOMAIN Update!Group}
  BY UpdToSetIs
<1>8. Update!ToSet(Update!Group) \subseteq Fields
  <2>1. \A i \in DOMAIN Update!Group : Update!Group[i] \in Fields
    BY <1>3
  <2>2. QED
    BY <1>7, <2>1
<1>9. QED
  BY <1>2, <1>3, <1>4, <1>5, <1>6, <1>7, <1>8

\* What awaits its change is in the group or in the rest, and not in both; and there is
\* one group where there is one target.
LEMMA UpdGroupsAre ==
  ASSUME Update!IInv, r7 # <<>>
  PROVE  /\ \A f : Update!Awaits(f) <=> \/ f \in Update!ToSet(Update!Group)
                                        \/ \E k \in DOMAIN Tail(r7) :
                                              f \in Update!ToSet(Tail(r7)[k])
         /\ \A k \in DOMAIN Tail(r7) :
               Update!ToSet(Update!Group) \cap Update!ToSet(Tail(r7)[k]) = {}
         /\ Update!Single => Tail(r7) = <<>>
<1>1. /\ DOMAIN Tail(r7) = 1 .. Len(r7) - 1 /\ Tail(r7) \in Seq(Seq(Fields))
      /\ \A k \in DOMAIN Tail(r7) :
           k + 1 \in DOMAIN r7 /\ k + 1 # 1 /\ Tail(r7)[k] = r7[k + 1]
      /\ 1 \in DOMAIN r7 /\ Update!Group = r7[1] /\ Len(r7) \in Nat
  BY UpdGroupIs
<1>2. \A k \in DOMAIN r7 : k = 1 \/ (k - 1 \in DOMAIN Tail(r7) /\ Tail(r7)[k - 1] = r7[k])
  <2>1. ASSUME NEW k \in DOMAIN r7, k # 1
        PROVE  k - 1 \in DOMAIN Tail(r7) /\ Tail(r7)[k - 1] = r7[k]
    <3>1. r7 \in Seq(Seq(Fields)) /\ DOMAIN r7 = 1 .. Len(r7)
      BY DEF Update!IInv, Update!GroupsInv
    <3>2. k \in 1 .. Len(r7) /\ k - 1 \in 1 .. Len(r7) - 1 /\ (k - 1) + 1 = k
      BY <1>1, <2>1, <3>1
    <3>3. QED
      BY <1>1, <3>2
  <2>2. QED
    BY <2>1
<1>3. ASSUME NEW f
      PROVE  Update!Awaits(f) <=> \/ f \in Update!ToSet(Update!Group)
                                  \/ \E k \in DOMAIN Tail(r7) : f \in Update!ToSet(Tail(r7)[k])
  BY <1>1, <1>2 DEF Update!Awaits
<1>4. \A k \in DOMAIN Tail(r7) : Update!ToSet(Update!Group) \cap Update!ToSet(Tail(r7)[k]) = {}
  BY <1>1 DEF Update!IInv, Update!GroupsInv
<1>5. Update!Single => Tail(r7) = <<>>
  <2>1. SUFFICES ASSUME Update!Single, Tail(r7) # <<>> PROVE FALSE
    OBVIOUS
  <2>2. 1 \in DOMAIN Tail(r7)
    BY <1>1, <2>1
  <2>3. 2 \in DOMAIN r7
    BY <1>1, <2>2
  <2>4. r5 \in Seq(Fields) /\ Len(r4) + Len(r5) <= 1 /\ r4 \in Seq(Fields)
    BY <2>1 DEF Update!IInv, Update!ItemsInv
  <2>5. Len(r5) <= 1 /\ Len(r5) \in Nat
    BY <2>4
  <2>6. \A i, j \in DOMAIN r5 : i = j
    BY <2>4, <2>5
  <2>7. /\ r7[1] # <<>> /\ r7[2] # <<>> /\ r7[1] \in Seq(Fields) /\ r7[2] \in Seq(Fields)
        /\ Update!ToSet(r7[1]) \subseteq Update!ToSet(r5)
        /\ Update!ToSet(r7[2]) \subseteq Update!ToSet(r5)
        /\ Update!ToSet(r7[1]) \cap Update!ToSet(r7[2]) = {}
    BY <1>1, <2>3 DEF Update!IInv, Update!GroupsInv
  <2>8. 1 \in DOMAIN r7[1] /\ 1 \in DOMAIN r7[2]
    BY <2>7
  <2>9. r7[1][1] \in Update!ToSet(r7[1]) /\ r7[2][1] \in Update!ToSet(r7[2])
    BY <2>8, UpdToSetIs
  <2>10. \A f, g \in Update!ToSet(r5) : f = g
    BY <2>6, UpdToSetIs
  <2>11. QED
    BY <2>7, <2>9, <2>10
<1>6. QED
  BY <1>3, <1>4, <1>5

LEMMA UpdChanges ==
  ASSUME Update!IInv, r7 # <<>>, NEW t \in Seq(Update!Sorts), r9' = r9 \o t,
         \A f \in Update!ToSet(Update!Group) : \E k \in DOMAIN t : t[k].of = f,
         \A f \in Fields : f \in r15' <=>
            f \in r15 \/ (\E k \in DOMAIN t : t[k].of = f /\ t[k].outcome = "changed"),
         r15' \subseteq Fields, r7' = Tail(r7), UNCHANGED <<Update!line, r4, r5>>, r8' = <<>>,
         r12' \in [Fields -> Int], r14' \in [Fields -> Nat],
         \A f \in Fields :
            r14'[f] = r14[f] \/ (f \in Update!ToSet(Update!Group) /\ r14'[f] = r14[f] + 1),
         r3' \in {"change", "exit"}, r3' = "exit" => Update!Single,
         r11' # Update!Unset => r3' = "exit"
  PROVE  Update!IInv'
<1> DEFINE rest == Tail(r7)
<1>1. /\ rest \in Seq(Seq(Fields))
      /\ \A k \in DOMAIN rest : k + 1 \in DOMAIN r7 /\ k + 1 # 1 /\ rest[k] = r7[k + 1]
  BY UpdGroupIs
<1>2. /\ \A f : Update!Awaits(f) <=> \/ f \in Update!ToSet(Update!Group)
                                     \/ \E k \in DOMAIN rest : f \in Update!ToSet(rest[k])
      /\ \A k \in DOMAIN rest : Update!ToSet(Update!Group) \cap Update!ToSet(rest[k]) = {}
      /\ Update!Single => rest = <<>>
  BY UpdGroupsAre
<1>3. r7' = rest
  OBVIOUS
<1>4. r9 \in Seq(Update!Sorts)
  BY DEF Update!IInv, Update!ItemsInv
<1>5. /\ r9' \in Seq(Update!Sorts)
      /\ \A f : Update!Told(f)' <=> Update!Told(f) \/ \E k \in DOMAIN t : t[k].of = f
      /\ \A f : Update!ToldChanged(f)' <=>
           Update!ToldChanged(f) \/ \E k \in DOMAIN t : t[k].of = f /\ t[k].outcome = "changed"
  BY <1>4, UpdGrows
<1> HIDE DEF rest
<1>6. \A f : Update!Awaits(f)' <=> \E k \in DOMAIN rest : f \in Update!ToSet(rest[k])
  BY <1>3 DEF Update!Awaits
<1>7. \A f : Update!Awaits(f)' => Update!Awaits(f) /\ f \notin Update!ToSet(Update!Group)
  BY <1>2, <1>6
<1>8. Update!ItemsInv'
  BY <1>5 DEF Update!IInv, Update!ItemsInv, Update!Single, Update!line
<1>9. Update!GroupsInv'
  <2>1. /\ r7' \in Seq(Seq(Fields))
        /\ \A k \in DOMAIN r7' :
              r7'[k] # <<>> /\ Update!ToSet(r7'[k]) \subseteq Update!ToSet(r5')
    BY <1>1, <1>3 DEF Update!IInv, Update!GroupsInv
  <2>2. \A j, k \in DOMAIN r7' : j # k => Update!ToSet(r7'[j]) \cap Update!ToSet(r7'[k]) = {}
    <3>1. ASSUME NEW j \in DOMAIN rest, NEW k \in DOMAIN rest, j # k
          PROVE  Update!ToSet(rest[j]) \cap Update!ToSet(rest[k]) = {}
      <4>1. /\ j + 1 \in DOMAIN r7 /\ k + 1 \in DOMAIN r7
            /\ rest[j] = r7[j + 1] /\ rest[k] = r7[k + 1]
        BY <1>1
      <4>2. j + 1 # k + 1
        BY <1>1, <3>1
      <4>3. QED
        BY <4>1, <4>2 DEF Update!IInv, Update!GroupsInv
    <3>2. QED
      BY <1>3, <3>1
  <2>3. /\ r1' \in Update!Whole => \A k \in DOMAIN r7' : \A f \in Update!ToSet(r7'[k]) :
                                   DocOf[f] = DocOf[r7'[k][1]]
        /\ r1' \notin Update!Whole => \A k \in DOMAIN r7' : Len(r7'[k]) = 1
    <3>1. \A k \in DOMAIN r7' : \E j \in DOMAIN r7 : r7'[k] = r7[j]
      BY <1>1, <1>3
    <3>2. r1' = r1
      BY DEF Update!line
    <3>3. r1' \in Update!Whole => \A k \in DOMAIN r7' : \A f \in Update!ToSet(r7'[k]) :
                                  DocOf[f] = DocOf[r7'[k][1]]
      BY <3>1, <3>2 DEF Update!IInv, Update!GroupsInv, Update!Whole
    <3>4. r1' \notin Update!Whole => \A k \in DOMAIN r7' : Len(r7'[k]) = 1
      <4>1. ASSUME r1 \notin Update!Whole, NEW k \in DOMAIN r7'
            PROVE  Len(r7'[k]) = 1
        <5>1. PICK j \in DOMAIN r7 : r7'[k] = r7[j]
          BY <3>1
        <5>2. Len(r7[j]) = 1
          BY <4>1 DEF Update!IInv, Update!GroupsInv
        <5>3. QED
          BY <5>1, <5>2
      <4>2. QED
        BY <3>2, <4>1 DEF Update!Whole
    <3>5. QED
      BY <3>3, <3>4
  <2>4. \A f \in Update!ToSet(r5) : Update!Awaits(f) \/ Update!Told(f)
    BY DEF Update!IInv, Update!GroupsInv, Update!Awaits
  <2>5. \A f \in Update!ToSet(r5') : Update!Awaits(f)' \/ Update!Told(f)'
    BY <1>2, <1>5, <1>6, <2>4
  <2>6. r3' = "exit" => \A f \in Update!ToSet(r5') : Update!Told(f)'
    <3>1. Update!Single => \A f : ~Update!Awaits(f)'
      BY <1>2, <1>6
    <3>2. QED
      BY <2>5, <3>1
  <2>7. QED
    BY <2>1, <2>2, <2>3, <2>5, <2>6 DEF Update!GroupsInv
<1>10. Update!CallsInv'
  <2>1. ASSUME NEW f \in Fields
        PROVE  r14'[f] <= 1 /\ (r3' = "resolve" \/ Update!Awaits(f)' => r14'[f] = 0)
    <3>1. r14[f] <= 1 /\ (Update!Awaits(f) => r14[f] = 0) /\ r14[f] \in Nat
      BY DEF Update!IInv, Update!CallsInv
    <3>2. f \in Update!ToSet(Update!Group) => Update!Awaits(f)
      BY <1>2
    <3>3. r14'[f] = r14[f] \/ (f \in Update!ToSet(Update!Group) /\ r14'[f] = r14[f] + 1)
      OBVIOUS
    <3>4. r14'[f] <= 1
      BY <3>1, <3>2, <3>3
    <3>5. Update!Awaits(f)' => r14'[f] = 0
      BY <1>7, <3>1, <3>3
    <3>6. QED
      BY <3>4, <3>5
  <2>2. \A f \in Fields : f \in r15' <=> Update!ToldChanged(f)'
    BY <1>5 DEF Update!IInv, Update!CallsInv
  <2>3. QED
    BY <2>1, <2>2 DEF Update!CallsInv
<1>11. Update!CopyInv'
  BY DEF Update!CopyInv
<1>12. QED
  BY <1>8, <1>9, <1>10, <1>11 DEF Update!IInv

LEMMA UpdSetsIs ==
  ASSUME Update!IInv, r3 \in {"change", "copied"}, r7 # <<>>, NEW fs, Update!Sets(fs)
  PROVE  /\ r12' \in [Fields -> Int] /\ r14' \in [Fields -> Nat]
         /\ \A f \in Fields : r14'[f] = r14[f] + (IF f \in fs THEN 1 ELSE 0)
<1>1. r12 \in [Fields -> Int] /\ r14 \in [Fields -> Nat]
  BY DEF Update!IInv, Update!ItemsInv, Update!CallsInv
<1>2. \A f \in DOMAIN r8 : r8[f] \in Int
  <2>1. CASE r3 = "change"
    BY <2>1 DEF Update!IInv, Update!CopyInv
  <2>2. CASE r3 = "copied"
    BY <2>2 DEF Update!IInv, Update!CopyInv
  <2>3. QED
    BY <2>1, <2>2
<1>3. \A f \in Fields :
         (IF f \in fs THEN Update!Wanted ELSE IF f \in DOMAIN r8 THEN r8[f] ELSE r12[f]) \in Int
  BY <1>1, <1>2 DEF Update!Wanted
<1>4. \A f \in Fields : r14[f] + (IF f \in fs THEN 1 ELSE 0) \in Nat
  BY <1>1
<1>5. QED
  BY <1>3, <1>4 DEF Update!Sets

LEMMA UpdSendHolds ==
  ASSUME Update!IInv, Update!Send
  PROVE  Update!IInv'
<1> DEFINE t ==
   [k \in DOMAIN Update!Group |-> Update!Row(Update!Group[k], "changed", r8[Update!Group[k]])]
<1>1. r3 = "copied" /\ r7 # <<>> /\ r1 \in Update!Whole /\ r11 = Update!Unset
  BY DEF Update!Send, Update!IInv, Update!GroupsInv
<1>2. /\ Update!Group \in Seq(Fields) /\ Update!ToSet(Update!Group) \subseteq Fields
      /\ 1 \in DOMAIN r7 /\ Update!Group = r7[1]
  BY <1>1, UpdGroupIs
<1>3. r8 \in [Update!OfDoc(Update!Doc) -> Int]
  BY <1>1 DEF Update!IInv, Update!CopyInv
<1>4. \A k \in DOMAIN Update!Group :
         Update!Group[k] \in Update!ToSet(Update!Group) /\ Update!Group[k] \in Fields
  BY <1>2, UpdToSetIs
<1>5. \A k \in DOMAIN Update!Group : r8[Update!Group[k]] \in Int
  <2>1. \A f \in Update!ToSet(Update!Group) : DocOf[f] = DocOf[Update!Group[1]]
    BY <1>1, <1>2 DEF Update!IInv, Update!GroupsInv
  <2>2. \A k \in DOMAIN Update!Group : Update!Group[k] \in Update!OfDoc(Update!Doc)
    BY <1>4, <2>1 DEF Update!OfDoc, Update!Doc
  <2>3. QED
    BY <1>3, <2>2
<1>6. \A k \in DOMAIN Update!Group :
         Update!Row(Update!Group[k], "changed", r8[Update!Group[k]]) \in Update!Sorts
  BY <1>4, <1>5 DEF Update!Row, Update!Sorts
<1>7. t \in Seq(Update!Sorts)
  BY <1>2, <1>6
<1>8. \A f : (\E k \in DOMAIN t : t[k].of = f /\ t[k].outcome = "changed") <=>
         f \in Update!ToSet(Update!Group)
  BY UpdToSetIs DEF Update!Row
<1>9. /\ r9' = r9 \o t /\ r7' = Tail(r7) /\ r8' = <<>>
      /\ r3' = "change" /\ r11' = r11 /\ UNCHANGED <<Update!line, r4, r5>>
      /\ r15' = r15 \cup Update!ToSet(Update!Group) /\ Update!Sets(Update!ToSet(Update!Group))
  BY DEF Update!Send, Update!Goes
<1>10. /\ r12' \in [Fields -> Int] /\ r14' \in [Fields -> Nat]
       /\ \A f \in Fields :
             r14'[f] = r14[f] + (IF f \in Update!ToSet(Update!Group) THEN 1 ELSE 0)
  BY <1>1, <1>9, UpdSetsIs
<1>11. \A f \in Fields :
          r14'[f] = r14[f] \/ (f \in Update!ToSet(Update!Group) /\ r14'[f] = r14[f] + 1)
  <2>1. \A f \in Fields : r14[f] \in Nat
    BY DEF Update!IInv, Update!CallsInv
  <2>2. QED
    BY <1>10, <2>1
<1>12. r15' \subseteq Fields
  BY <1>2, <1>9 DEF Update!IInv, Update!CallsInv
<1> HIDE DEF t
<1>13. \A f \in Update!ToSet(Update!Group) : \E k \in DOMAIN t : t[k].of = f
  BY <1>8
<1>14. \A f \in Fields : f \in r15' <=>
         f \in r15 \/ (\E k \in DOMAIN t : t[k].of = f /\ t[k].outcome = "changed")
  BY <1>8, <1>9
<1>15. QED
  BY <1>1, <1>7, <1>9, <1>10, <1>11, <1>12, <1>13, <1>14, UpdChanges

LEMMA UpdCallHolds ==
  ASSUME Update!IInv, Update!Call
  PROVE  Update!IInv'
<1> DEFINE row == Update!Row(Update!Group[1], "changed", r14'[Update!Group[1]])
           t == <<row>>
<1>1. r3 = "change" /\ r7 # <<>> /\ r1 \notin Update!Whole /\ r11 = Update!Unset /\ r8 = <<>>
  BY DEF Update!Call, Update!IInv, Update!GroupsInv, Update!CopyInv
<1>2. /\ Update!Group \in Seq(Fields) /\ Update!ToSet(Update!Group) \subseteq Fields
      /\ 1 \in DOMAIN r7
      /\ Update!Group = r7[1] /\ Update!Group[1] \in Update!ToSet(Update!Group)
  BY <1>1, UpdGroupIs
<1>3. Update!ToSet(Update!Group) = {Update!Group[1]}
  <2>1. Len(Update!Group) = 1
    BY <1>1, <1>2 DEF Update!IInv, Update!GroupsInv
  <2>2. DOMAIN Update!Group = {1}
    BY <1>2, <2>1
  <2>3. QED
    BY <2>2, UpdToSetIs
<1>4. /\ r9' = Append(r9, row) /\ r7' = Tail(r7) /\ r8' = <<>>
      /\ r3' = "change" /\ r11' = r11 /\ UNCHANGED <<Update!line, r4, r5>>
      /\ r15' = r15 \cup {Update!Group[1]} /\ Update!Sets({Update!Group[1]})
  BY <1>1 DEF Update!Call, Update!Goes
<1>5. /\ r12' \in [Fields -> Int] /\ r14' \in [Fields -> Nat]
      /\ \A f \in Fields : r14'[f] = r14[f] + (IF f \in {Update!Group[1]} THEN 1 ELSE 0)
  BY <1>1, <1>4, UpdSetsIs
<1>6. row \in Update!Sorts /\ row.of = Update!Group[1] /\ row.outcome = "changed"
  <2>1. Update!Group[1] \in Fields /\ r14'[Update!Group[1]] \in Nat
    BY <1>2, <1>5
  <2>2. QED
    BY <2>1 DEF Update!Row, Update!Sorts
<1> HIDE DEF row
<1>7. t \in Seq(Update!Sorts) /\ r9' = r9 \o t
  BY <1>4, <1>6 DEF Update!IInv, Update!ItemsInv
<1>8. \A f : (\E k \in DOMAIN t : t[k].of = f /\ t[k].outcome = "changed") <=>
         f \in Update!ToSet(Update!Group)
  BY <1>3, <1>6
<1>9. \A f \in Fields :
         r14'[f] = r14[f] \/ (f \in Update!ToSet(Update!Group) /\ r14'[f] = r14[f] + 1)
  <2>1. \A f \in Fields : r14[f] \in Nat
    BY DEF Update!IInv, Update!CallsInv
  <2>2. QED
    BY <1>3, <1>5, <2>1
<1>10. r15' \subseteq Fields
  BY <1>2, <1>4 DEF Update!IInv, Update!CallsInv
<1> HIDE DEF t
<1>11. \A f \in Update!ToSet(Update!Group) : \E k \in DOMAIN t : t[k].of = f
  BY <1>8
<1>12. \A f \in Fields : f \in r15' <=>
         f \in r15 \/ (\E k \in DOMAIN t : t[k].of = f /\ t[k].outcome = "changed")
  BY <1>3, <1>4, <1>8
<1>13. QED
  BY <1>1, <1>4, <1>5, <1>7, <1>9, <1>10, <1>11, <1>12, UpdChanges

LEMMA UpdChangeFailsHolds ==
  ASSUME Update!IInv, NEW code, Update!ChangeFails(code)
  PROVE  Update!IInv'
<1> DEFINE t == Update!Rows(Update!Group, "failed")
<1>1. r3 \in {"change", "copied"} /\ r7 # <<>> /\ r11 = Update!Unset
  BY DEF Update!ChangeFails, Update!IInv, Update!GroupsInv
<1>2. Update!Group \in Seq(Fields)
  BY <1>1, UpdGroupIs
<1>3. /\ t \in Seq(Update!Sorts) /\ DOMAIN t = DOMAIN Update!Group
      /\ \A k \in DOMAIN Update!Group : t[k].of = Update!Group[k] /\ t[k].outcome = "failed"
  BY <1>2, UpdRowsAre
<1>4. /\ r9' = r9 \o t /\ r7' = Tail(r7) /\ r8' = <<>>
      /\ UNCHANGED <<Update!line, r4, r5>> /\ r15' = r15
      /\ IF Update!Single THEN Update!Ends(code) ELSE Update!Goes("change")
  BY DEF Update!ChangeFails, Update!Fails, Update!platform
<1> HIDE DEF t
<1>5. /\ r12' \in [Fields -> Int] /\ r14' \in [Fields -> Nat]
      /\ \A f \in Fields :
            r14'[f] = r14[f] \/ (f \in Update!ToSet(Update!Group) /\ r14'[f] = r14[f] + 1)
  <2>1. \A f \in Fields : r14[f] \in Nat
    BY DEF Update!IInv, Update!CallsInv
  <2>2. CASE UNCHANGED Update!platform
    BY <2>2 DEF Update!IInv, Update!ItemsInv, Update!CallsInv, Update!platform
  <2>3. CASE Update!Sets(Update!ToSet(Update!Group))
    <3>1. /\ r12' \in [Fields -> Int] /\ r14' \in [Fields -> Nat]
          /\ \A f \in Fields :
                r14'[f] = r14[f] + (IF f \in Update!ToSet(Update!Group) THEN 1 ELSE 0)
      BY <1>1, <2>3, UpdSetsIs
    <3>2. QED
      BY <2>1, <3>1
  <2>4. QED
    BY <2>2, <2>3 DEF Update!ChangeFails
<1>6. \A f \in Update!ToSet(Update!Group) : \E k \in DOMAIN t : t[k].of = f
  BY <1>3, UpdToSetIs
<1>7. ~\E k \in DOMAIN t : t[k].outcome = "changed"
  BY <1>3
<1>8. \A f \in Fields : f \in r15' <=>
        f \in r15 \/ (\E k \in DOMAIN t : t[k].of = f /\ t[k].outcome = "changed")
  BY <1>4, <1>7
<1>9. r15' \subseteq Fields
  BY <1>4 DEF Update!IInv, Update!CallsInv
<1>10. /\ r3' \in {"change", "exit"}
       /\ r3' = "exit" => Update!Single
       /\ r11' # Update!Unset => r3' = "exit"
  BY <1>1, <1>4 DEF Update!Ends, Update!Goes
<1>11. QED
  BY <1>1, <1>3, <1>4, <1>5, <1>6, <1>8, <1>9, <1>10, UpdChanges

LEMMA UpdChangeStopsHolds ==
  ASSUME Update!IInv, NEW code, Update!ChangeStops(code)
  PROVE  Update!IInv'
<1> DEFINE rest == Tail(r7)
           skipped == Update!Ungrouped(rest)
<1>1. r3 \in {"change", "copied"} /\ r7 # <<>>
  BY DEF Update!ChangeStops, Update!IInv, Update!GroupsInv
<1>2. Update!Group \in Seq(Fields) /\ rest \in Seq(Seq(Fields))
  BY <1>1, UpdGroupIs
<1>3. r5 \in Seq(Fields) /\ r9 \in Seq(Update!Sorts)
  BY DEF Update!IInv, Update!ItemsInv
<1>4. \A f : Update!Awaits(f) <=>
         f \in Update!ToSet(Update!Group) \/ \E k \in DOMAIN rest : f \in Update!ToSet(rest[k])
  BY <1>1, UpdGroupsAre
<1>5. r9' = r9 \o Update!Rows(Update!Group, "failed") \o Update!Rows(skipped, "skipped")
  BY DEF Update!ChangeStops
<1> HIDE DEF rest
<1>6. /\ skipped \in Seq(Fields)
      /\ \A f \in Update!ToSet(r5) : (\E k \in DOMAIN rest : f \in Update!ToSet(rest[k])) =>
            f \in Update!ToSet(skipped)
  BY <1>2, <1>3, UpdUngroupedIs
<1> HIDE DEF skipped
<1>7. /\ r9' \in Seq(Update!Sorts)
      /\ \A f : Update!Told(f)' <=>
            Update!Told(f) \/ f \in Update!ToSet(Update!Group) \/ f \in Update!ToSet(skipped)
      /\ \A f : Update!ToldChanged(f)' <=> Update!ToldChanged(f)
  BY <1>2, <1>3, <1>5, <1>6, UpdTells
<1>8. \A f \in Update!ToSet(r5) : Update!Awaits(f) \/ Update!Told(f)
  BY <1>1 DEF Update!IInv, Update!GroupsInv
<1>9. \A f \in Update!ToSet(r5) : Update!Told(f)'
  BY <1>4, <1>6, <1>7, <1>8
<1>10. r3' = "exit" /\ UNCHANGED <<Update!line, Update!run, Update!platform>>
  BY DEF Update!ChangeStops, Update!Ends
<1>11. QED
  BY <1>7, <1>9, <1>10, UpdNoMore

\* What does not change what is recorded and called.
LEMMA UpdAtRest ==
  ASSUME Update!IInv, UNCHANGED <<Update!line, r4, r5, r7, r9, r11, r14, r15>>,
         r12' \in [Fields -> Int],
         r3' = r3 \/ (r3 = "change" /\ r3' = "copied" /\ r7 # <<>> /\ r1 \in Update!Whole),
         Update!CopyInv'
  PROVE  Update!IInv'
<1>1. Update!ItemsInv'
  BY DEF Update!IInv, Update!ItemsInv, Update!Single, Update!line
<1>2. \A f : /\ Update!Awaits(f)' <=> Update!Awaits(f)
             /\ Update!Told(f)' <=> Update!Told(f)
             /\ Update!ToldChanged(f)' <=> Update!ToldChanged(f)
  BY DEF Update!Awaits, Update!Told, Update!ToldChanged
<1>3. Update!GroupsInv'
  BY <1>2 DEF Update!IInv, Update!GroupsInv, Update!line
<1>4. Update!CallsInv'
  BY <1>2 DEF Update!IInv, Update!CallsInv
<1>5. QED
  BY <1>1, <1>3, <1>4 DEF Update!IInv

LEMMA UpdCopyHolds ==
  ASSUME Update!IInv, Update!Copy
  PROVE  Update!IInv'
<1>1. /\ r3 = "change" /\ r3' = "copied" /\ r7 # <<>> /\ r1 \in Update!Whole /\ r11' = r11
      /\ r8' = [f \in Update!OfDoc(Update!Doc) |-> r12[f]] /\ r12' = r12
      /\ UNCHANGED <<Update!line, r4, r5, r7, Update!told, r14, r15>>
  BY DEF Update!Copy, Update!Goes
<1>2. r12 \in [Fields -> Int]
  BY DEF Update!IInv, Update!ItemsInv
<1>3. /\ Update!OfDoc(Update!Doc)' = Update!OfDoc(Update!Doc)
      /\ Update!OfDoc(Update!Doc) \subseteq Fields
  BY <1>1 DEF Update!OfDoc, Update!Doc, Update!Group
<1>4. Update!CopyInv'
  BY <1>1, <1>2, <1>3 DEF Update!CopyInv
<1>5. QED
  BY <1>1, <1>2, <1>4, UpdAtRest DEF Update!told

LEMMA UpdOthersHold ==
  ASSUME Update!IInv, NEW f \in Fields, Update!OthersChange(f) \/ Update!Vanishes(f)
  PROVE  Update!IInv'
<1>1. /\ UNCHANGED <<Update!line, r3, Update!run, Update!told, r11, r14, r15>>
      /\ \/ r12' = r12 /\ r16' = r16
         \/ r12' = [r12 EXCEPT ![f] = Update!Theirs] /\ r16' = r16 \cup {f}
  BY DEF Update!OthersChange, Update!Vanishes
<1>2. r12 \in [Fields -> Int] /\ r12' \in [Fields -> Int]
  BY <1>1 DEF Update!IInv, Update!ItemsInv, Update!Theirs
<1>3. /\ Update!OfDoc(Update!Doc)' = Update!OfDoc(Update!Doc)
      /\ Update!OfDoc(Update!Doc) \subseteq Fields
  BY <1>1 DEF Update!OfDoc, Update!Doc, Update!Group, Update!run
<1>4. Update!CopyInv'
  BY <1>1, <1>2, <1>3 DEF Update!IInv, Update!CopyInv, Update!run
<1>5. QED
  BY <1>1, <1>2, <1>4, UpdAtRest DEF Update!run, Update!told

LEMMA UpdStepHolds ==
  ASSUME Update!IInv, [Update!Next]_(Update!vars)
  PROVE  Update!IInv'
<1>1. CASE Update!Next
  BY <1>1, UpdResolveHolds, UpdSkipsHolds, UpdResolveFailsHolds, UpdResolveStopsHolds,
     UpdConfirmHolds, UpdNothingToChangeHolds, UpdCopyHolds, UpdSendHolds, UpdCallHolds,
     UpdReturnHolds, UpdChangeFailsHolds, UpdChangeStopsHolds, UpdOthersHold DEF Update!Next
<1>2. CASE UNCHANGED Update!vars
  <2>1. UNCHANGED <<Update!line, r3, Update!run, Update!told, r11, Update!platform>>
    BY <1>2 DEF Update!vars
  <2>2. Update!CopyInv'
    BY <2>1 DEF Update!IInv, Update!CopyInv, Update!OfDoc, Update!Doc, Update!Group, Update!run,
       Update!platform
  <2>3. QED
    BY <2>1, <2>2, UpdAtRest DEF Update!IInv, Update!ItemsInv, Update!run, Update!told,
       Update!platform
<1>3. QED
  BY <1>1, <1>2

LEMMA UpdInitHolds ==
  ASSUME Update!Parameters, Update!Init
  PROVE  Update!IInv
<1>1. PICK l \in UpdateLines : r1 = l.command /\ r2 = l.targets
  BY DEF Update!Init
<1>2. /\ r3 = "resolve" /\ r4 = r2 /\ r5 = <<>> /\ r7 = <<>> /\ r8 = <<>>
      /\ r9 = <<>> /\ r11 = Update!Unset /\ r12 \in [Fields -> {0, Update!Wanted}]
      /\ r14 = [f \in Fields |-> 0] /\ r15 = {}
  BY DEF Update!Init
<1>3. /\ r1 \in Update!Commands /\ r4 \in Seq(Fields)
      /\ Update!Single => Len(r4) = 1
  BY <1>1, <1>2 DEF Update!Parameters, Update!Single
<1>4. Update!ItemsInv
  <2>1. r5 \in Seq(Fields) /\ r9 \in Seq(Update!Sorts) /\ Len(r5) = 0
    BY <1>2
  <2>2. r12 \in [Fields -> Int]
    BY <1>2 DEF Update!Wanted
  <2>3. \A i, j \in DOMAIN r5 : r5[i] = r5[j] => i = j
    BY <1>2
  <2>4. Update!Single => Len(r4) + Len(r5) <= 1
    <3>1. Update!Single => Len(r4) + Len(r5) = 1
      BY <1>3, <2>1
    <3>2. \A n : n = 1 => n <= 1
      OBVIOUS
    <3>3. QED
      BY <3>1, <3>2
  <2>5. QED
    BY <1>3, <2>1, <2>2, <2>3, <2>4 DEF Update!ItemsInv
<1>5. Update!GroupsInv
  BY <1>2 DEF Update!GroupsInv
<1>6. Update!CallsInv
  <2>1. \A f : ~Update!ToldChanged(f)
    BY <1>2 DEF Update!ToldChanged
  <2>2. QED
    BY <1>2, <2>1 DEF Update!CallsInv
<1>7. Update!CopyInv
  BY <1>2 DEF Update!CopyInv
<1>8. QED
  BY <1>4, <1>5, <1>6, <1>7 DEF Update!IInv

LEMMA UpdChangedOnceAndToldHolds ==
  ASSUME Update!IInv
  PROVE  Update!ChangedOnceAndTold
<1>1. \A f \in Fields : /\ r14[f] <= 1
                        /\ f \in r15 <=> Update!ToldChanged(f)
  BY DEF Update!IInv, Update!CallsInv
<1>2. r11 # Update!Unset => \A f \in Update!ToSet(r5) : Update!Told(f)
  BY DEF Update!IInv, Update!GroupsInv
<1>3. QED
  BY <1>1, <1>2 DEF Update!ChangedOnceAndTold, Update!Told, Update!ToldChanged

LEMMA UpdSetsKeeps ==
  ASSUME Update!IInv, r3 \in {"change", "copied"}, NEW fs \in SUBSET Update!ToSet(Update!Group),
         Update!Sets(fs)
  PROVE  Update!Kept
<1>1. ASSUME NEW f \in Fields, r12[f] = Update!Theirs, r12'[f] # Update!Theirs,
             f \notin Update!ToSet(Update!Group), f \notin r16
      PROVE  FALSE
  <2>1. r12'[f] = IF f \in DOMAIN r8 THEN r8[f] ELSE r12[f]
    BY <1>1 DEF Update!Sets
  <2>2. CASE r3 = "change"
    BY <1>1, <2>1, <2>2 DEF Update!IInv, Update!CopyInv
  <2>3. CASE r3 = "copied"
    BY <1>1, <2>1, <2>3 DEF Update!IInv, Update!CopyInv
  <2>4. QED
    BY <2>2, <2>3
<1>2. QED
  BY <1>1 DEF Update!Kept

LEMMA UpdStepKept ==
  ASSUME Update!IInv, [Update!Next]_(Update!vars)
  PROVE  Update!Kept
<1>1. CASE r12' = r12
  BY <1>1 DEF Update!Kept
<1>2. ASSUME NEW f \in Fields, Update!OthersChange(f)
      PROVE  Update!Kept
  <2>1. r12 \in [Fields -> Int] /\ r12' = [r12 EXCEPT ![f] = Update!Theirs]
    BY <1>2 DEF Update!OthersChange, Update!IInv, Update!ItemsInv
  <2>2. QED
    BY <2>1 DEF Update!Kept
<1>3. CASE Update!Send
  <2>1. r3 \in {"change", "copied"} /\ Update!Sets(Update!ToSet(Update!Group))
    BY <1>3 DEF Update!Send
  <2>2. QED
    BY <2>1, UpdSetsKeeps
<1>4. CASE Update!Call
  <2>1. r3 \in {"change", "copied"} /\ Update!Sets({Update!Group[1]}) /\ r7 # <<>>
    BY <1>4 DEF Update!Call
  <2>2. {Update!Group[1]} \in SUBSET Update!ToSet(Update!Group)
    BY <2>1, UpdGroupIs
  <2>3. QED
    BY <2>1, <2>2, UpdSetsKeeps
<1>5. ASSUME NEW code, Update!ChangeFails(code)
      PROVE  Update!Kept
  <2>1. CASE Update!Sets(Update!ToSet(Update!Group))
    <3>1. r3 \in {"change", "copied"}
      BY <1>5 DEF Update!ChangeFails
    <3>2. QED
      BY <2>1, <3>1, UpdSetsKeeps
  <2>2. QED
    BY <1>1, <1>5, <2>1 DEF Update!ChangeFails, Update!platform
<1>6. ASSUME Update!Next
      PROVE  r12' =
                r12 \/ Update!Send \/ Update!Call \/ (\E f \in Fields : Update!OthersChange(f))
               \/ \E code \in UpdateCodes : Update!ChangeFails(code)
  BY <1>6 DEF Update!Next, Update!Resolve, Update!ResolveSkips, Update!ResolveRefuses,
     Update!Confirm, Update!NothingToChange, Update!Copy, Update!Return, Update!ResolveFails,
     Update!ResolveStops, Update!ChangeStops, Update!Vanishes, Update!After1, Update!platform
<1>7. QED
  BY <1>1, <1>2, <1>3, <1>4, <1>5, <1>6 DEF Update!vars, Update!platform
-----------------------------------------------------------------------------
LEMMA UpdGoesOn ==
  (chosen = "update" => Update!IInv) /\ [Next]_all => (chosen = "update" => Update!IInv)'
<1> SUFFICES ASSUME chosen = "update" => Update!IInv, [Next]_all, chosen' = "update"
             PROVE  Update!IInv'
  OBVIOUS
<1>1. chosen = "update" /\ [Update!Next]_(Update!vars)
  BY DEF Next, OfCmd, OfCompute, OfUpdate, OfCmp, all, Update!vars, Update!line, Update!run,
     Update!told, Update!platform
<1> QED
  BY <1>1, UpdStepHolds

LEMMA UpdInvariance ==
  ASSUME Update!Parameters
  PROVE  Spec => [](chosen = "update" => Update!IInv)
<1>1. Init => (chosen = "update" => Update!IInv)
  BY UpdInitHolds DEF Init
<1> QED
  BY <1>1, UpdGoesOn, PTL DEF Spec

\* Hours are added, and a token issued, once at most for a thing named in any number of
\* ways; whenever an answer to that is had it is recorded; and at the end each thing to
\* change is recorded, whatever has failed (priority.py, resize.py, boost.py, token.py).
THEOREM ChangedOnce ==
  ASSUME Update!Parameters
  PROVE  Spec => [](chosen = "update" => Update!ChangedOnceAndTold)
<1>1. (chosen = "update" => Update!IInv) => (chosen = "update" => Update!ChangedOnceAndTold)
  BY UpdChangedOnceAndToldHolds
<1> QED
  BY <1>1, UpdInvariance, PTL

\* A value that others set and no target names stays as they set it, unless they set it
\* between the copy that is fetched and its being sent (priority.py, resize.py).
THEOREM OthersKept ==
  ASSUME Update!Parameters
  PROVE  Spec => OthersChangesKept
<1>1. (chosen = "update" => Update!IInv) /\ [Next]_all => [chosen = "update" => Update!Kept]_all
  <2> SUFFICES ASSUME chosen = "update", Update!IInv, [Next]_all
               PROVE  Update!Kept
    OBVIOUS
  <2>1. [Update!Next]_(Update!vars)
    BY DEF Next, OfCmd, OfCompute, OfUpdate, OfCmp, all, Update!vars, Update!line, Update!run,
       Update!told, Update!platform
  <2> QED
    BY <2>1, UpdStepKept
<1> QED
  BY <1>1, UpdInvariance, PTL DEF Spec, OthersChangesKept
-----------------------------------------------------------------------------
(* Cancellations, shutdowns, starts, holds and finishes. *)

LEMMA CmdRangeIs == \A s : Cmd!ToSet(s) = Range(s)
  BY DEF Cmd!ToSet, Range

LEMMA CmdCardinalityIs == \A S : Cmd!Cardinality(S) = Cardinality(S)
  BY DEF Cmd!Cardinality, Cardinality

LEMMA CmdFiniteIs == \A S : Cmd!IsFiniteSet(S) <=> IsFiniteSet(S)
  BY DEF Cmd!IsFiniteSet, IsFiniteSet

LEMMA CmdArrangedIs == \A s, p, key : Cmd!Arranged(s, p, key) = Arranged(s, p, key)
  BY DEF Cmd!Arranged, Arranged, Cmd!Cardinality, Cardinality

LEMMA CmdOnceIs ==
  ASSUME NEW S, NEW s \in Seq(S)
  PROVE  /\ Cmd!Once(s) \in Seq(S) /\ Cmd!ToSet(Cmd!Once(s)) = Cmd!ToSet(s)
         /\ Cmd!Distinct(Cmd!Once(s))
<1>1. Cmd!Once(s) = Picked(s, Firsts(s))
  BY CmdArrangedIs DEF Cmd!Once, Cmd!Picked, Picked, Cmd!Firsts, Firsts
<1>2. /\ Picked(s, Firsts(s)) \in Seq(S)
      /\ Range(Picked(s, Firsts(s))) = Range(s)
      /\ \A m, n \in DOMAIN Picked(s, Firsts(s)) :
           Picked(s, Firsts(s))[m] = Picked(s, Firsts(s))[n] => m = n
  BY FirstsOnce
<1>3. Cmd!Distinct(Picked(s, Firsts(s)))
  BY <1>2 DEF Cmd!Distinct
<1>4. QED
  BY <1>1, <1>2, <1>3, CmdRangeIs

LEMMA CmdInOrderIs ==
  ASSUME NEW s \in Seq(Thing), Cmd!Distinct(s)
  PROVE  /\ Cmd!InOrder(s) \in Seq(Thing) /\ Cmd!ToSet(Cmd!InOrder(s)) = Cmd!ToSet(s)
         /\ Cmd!Distinct(Cmd!InOrder(s))
<1> DEFINE P == DOMAIN s
           key == [i \in P |-> IF TypeOf[s[i]] \in Cmd!FirstTypes THEN 0 ELSE 1]
<1>1. key \in [P -> Nat] /\ P \in SUBSET DOMAIN s
  OBVIOUS
<1>2. Cmd!InOrder(s) = Arranged(s, P, key)
  BY CmdArrangedIs DEF Cmd!InOrder
<1>3. Range(s) = {s[i] : i \in P}
  BY DEF Range
<1>4. \A i, j \in P : s[i] = s[j] => i = j
  BY DEF Cmd!Distinct
<1> HIDE DEF key, P
<1>5. /\ Arranged(s, P, key) \in Seq(Thing)
      /\ {Arranged(s, P, key)[n] : n \in DOMAIN Arranged(s, P, key)} = {s[i] : i \in P}
      /\ (\A i, j \in P : s[i] = s[j] => i = j) =>
           \A m, n \in DOMAIN Arranged(s, P, key) :
             Arranged(s, P, key)[m] = Arranged(s, P, key)[n] => m = n
  BY <1>1, Arranges
<1>6. Range(Arranged(s, P, key)) = Range(s)
  BY <1>3, <1>5 DEF Range
<1>7. Cmd!Distinct(Arranged(s, P, key))
  BY <1>4, <1>5 DEF Cmd!Distinct
<1>8. QED
  BY <1>2, <1>5, <1>6, <1>7, CmdRangeIs

LEMMA CmdSetToSeqIs ==
  ASSUME IsFiniteSet(Thing), NEW S \in SUBSET Thing
  PROVE  /\ Cmd!SetToSeq(S) \in Seq(S) /\ Cmd!Distinct(Cmd!SetToSeq(S))
         /\ Cmd!ToSet(Cmd!SetToSeq(S)) \subseteq S
<1> DEFINE n == Cardinality(S)
<1>1. IsFiniteSet(S) /\ n \in Nat
  BY FS_Subset, FS_CardinalityType
<1>2. ExistsBijection(1 .. n, S)
  BY <1>1, FS_NatBijection, FS_CountingElements
<1>3. PICK f \in [1 .. n -> S] : \A i, j \in DOMAIN f : f[i] = f[j] => i = j
  <2>1. PICK f : f \in Bijection(1 .. n, S)
    BY <1>2 DEF ExistsBijection
  <2>2. f \in [1 .. n -> S] /\ \A i, j \in 1 .. n : f[i] = f[j] => i = j
    BY <2>1 DEF Bijection, Injection, IsInjective
  <2>3. QED
    BY <2>2
<1>4. Cmd!SetToSeq(S) = CHOOSE g \in [1 .. n -> S] : Cmd!IsInjective(g)
  BY CmdCardinalityIs DEF Cmd!SetToSeq
<1>5. Cmd!SetToSeq(S) \in [1 .. n -> S] /\ Cmd!IsInjective(Cmd!SetToSeq(S))
  BY <1>3, <1>4 DEF Cmd!IsInjective
<1>6. Cmd!SetToSeq(S) \in Seq(S) /\ DOMAIN Cmd!SetToSeq(S) = 1 .. n
  BY <1>1, <1>5
<1>7. QED
  BY <1>5, <1>6 DEF Cmd!IsInjective, Cmd!Distinct, Cmd!ToSet

\* The first thing of a sequence, and the rest.
LEMMA CmdParts ==
  ASSUME NEW s \in Seq(Thing), s # <<>>, Cmd!Distinct(s)
  PROVE  /\ Head(s) \in Thing /\ Tail(s) \in Seq(Thing) /\ Cmd!Distinct(Tail(s))
         /\ Cmd!ToSet(s) = {Head(s)} \cup Cmd!ToSet(Tail(s)) /\ Head(s) \notin Cmd!ToSet(Tail(s))
         /\ Cmd!ToSet(Tail(s)) \subseteq Thing
<1>1. \A i, j \in DOMAIN s : s[i] = s[j] => i = j
  BY DEF Cmd!Distinct
<1>2. /\ Head(s) \in Thing /\ Tail(s) \in Seq(Thing)
      /\ Range(s) = {Head(s)} \cup Range(Tail(s))
      /\ (\A i, j \in DOMAIN s : s[i] = s[j] => i = j) =>
           /\ Head(s) \notin Range(Tail(s))
           /\ \A i, j \in DOMAIN Tail(s) : Tail(s)[i] = Tail(s)[j] => i = j
  BY HeadAndTail
<1>3. Range(Tail(s)) \subseteq Thing
  BY <1>2 DEF Range
<1>4. Cmd!Distinct(Tail(s)) /\ Head(s) \notin Range(Tail(s))
  BY <1>1, <1>2 DEF Cmd!Distinct
<1>5. QED
  BY <1>2, <1>3, <1>4, CmdRangeIs

LEMMA CmdBoth ==
  ASSUME NEW s \in Seq(Thing), NEW t \in Seq(Thing), Cmd!Distinct(s), Cmd!Distinct(t),
         Cmd!ToSet(s) \cap Cmd!ToSet(t) = {}
  PROVE  /\ s \o t \in Seq(Thing) /\ Cmd!Distinct(s \o t)
         /\ Cmd!ToSet(s \o t) = Cmd!ToSet(s) \cup Cmd!ToSet(t)
<1>1. /\ s \o t \in Seq(Thing)
      /\ Range(s \o t) = Range(s) \cup Range(t)
      /\ /\ \A i, j \in DOMAIN s : s[i] = s[j] => i = j
         /\ \A i, j \in DOMAIN t : t[i] = t[j] => i = j
         /\ Range(s) \cap Range(t) = {}
         => \A i, j \in DOMAIN (s \o t) : (s \o t)[i] = (s \o t)[j] => i = j
  BY Joined
<1>2. Range(s) \cap Range(t) = {}
  BY CmdRangeIs
<1>3. Cmd!Distinct(s \o t)
  BY <1>1, <1>2 DEF Cmd!Distinct
<1>4. QED
  BY <1>1, <1>3, CmdRangeIs

LEMMA CmdOneMore ==
  ASSUME NEW s \in Seq(Thing), NEW x \in Thing
  PROVE  /\ Append(s, x) \in Seq(Thing) /\ Cmd!ToSet(Append(s, x)) = Cmd!ToSet(s) \cup {x}
         /\ Cmd!Distinct(s) /\ x \notin Cmd!ToSet(s) => Cmd!Distinct(Append(s, x))
<1>1. /\ Append(s, x) \in Seq(Thing)
      /\ Range(Append(s, x)) = Range(s) \cup {x}
      /\ (\A i, j \in DOMAIN s : s[i] = s[j] => i = j) /\ x \notin Range(s) =>
           \A i, j \in DOMAIN Append(s, x) : Append(s, x)[i] = Append(s, x)[j] => i = j
  BY Added
<1>2. Cmd!Distinct(s) /\ x \notin Range(s) => Cmd!Distinct(Append(s, x))
  BY <1>1 DEF Cmd!Distinct
<1>3. QED
  BY <1>1, <1>2, CmdRangeIs

LEMMA CmdAlone ==
  ASSUME NEW x \in Thing
  PROVE  <<x>> \in Seq(Thing) /\ Cmd!ToSet(<<x>>) = {x} /\ Cmd!Distinct(<<x>>)
<1>1. <<x>> \in Seq(Thing) /\ DOMAIN <<x>> = {1} /\ <<x>>[1] = x
  OBVIOUS
<1>2. QED
  BY <1>1 DEF Cmd!ToSet, Cmd!Distinct

LEMMA CmdNothing == <<>> \in Seq(Thing) /\ Cmd!ToSet(<<>>) = {} /\ Cmd!Distinct(<<>>)
  BY DEF Cmd!ToSet, Cmd!Distinct

\* What a sequence of records has of a thing, and that it has it once.
CmdIn(r, x, w, p) == \E k \in DOMAIN r : r[k].what = w /\ r[k].of = x /\ r[k].outcome \in p
CmdOnceEach(r) ==
  \A j, k \in DOMAIN r :
    /\ r[j].what # "target" /\ r[j].what = r[k].what
    /\ r[j].of = r[k].of
    => j = k

LEMMA CmdToldIs == \A x, w, p : Cmd!Told(x, w, p) <=> CmdIn(r11, x, w, p)
  BY DEF Cmd!Told, CmdIn

LEMMA CmdToldThen == \A x, w, p : Cmd!Told(x, w, p)' <=> CmdIn(r11', x, w, p)
  BY DEF Cmd!Told, CmdIn

LEMMA CmdRowsAre ==
  ASSUME NEW s \in Seq(Thing \cup {"pattern"}), NEW w \in Cmd!Whats, NEW o \in Cmd!Outcomes
  PROVE  /\ Cmd!Rows(s, w, o) \in Seq(Cmd!Sorts) /\ DOMAIN Cmd!Rows(s, w, o) = DOMAIN s
         /\ Len(Cmd!Rows(s, w, o)) = Len(s)
         /\ \A k \in DOMAIN s : Cmd!Rows(s, w, o)[k] = [of |-> s[k], what |-> w, outcome |-> o]
<1>1. \A k \in DOMAIN s : [of |-> s[k], what |-> w, outcome |-> o] \in Cmd!Sorts
  BY DEF Cmd!Sorts
<1>2. DOMAIN s = 1 .. Len(s) /\ Len(s) \in Nat
  OBVIOUS
<1>3. Cmd!Rows(s, w, o) = [k \in DOMAIN s |-> [of |-> s[k], what |-> w, outcome |-> o]]
  BY DEF Cmd!Rows
<1>4. QED
  BY <1>1, <1>2, <1>3

LEMMA CmdGrown ==
  ASSUME NEW r \in Seq(Cmd!Sorts), CmdOnceEach(r), NEW s \in Seq(Thing),
         NEW w \in {"thing", "termination"}, NEW o \in Cmd!Outcomes, Cmd!Distinct(s),
         \A x \in Cmd!ToSet(s) : ~CmdIn(r, x, w, Cmd!Outcomes)
  PROVE  /\ r \o Cmd!Rows(s, w, o) \in Seq(Cmd!Sorts)
         /\ CmdOnceEach(r \o Cmd!Rows(s, w, o))
         /\ \A x, v, p : CmdIn(r \o Cmd!Rows(s, w, o), x, v, p) <=>
              \/ CmdIn(r, x, v, p)
              \/ x \in Cmd!ToSet(s) /\ v = w /\ o \in p
<1> DEFINE t == Cmd!Rows(s, w, o)
           q == r \o t
           m == Len(r)
           n == Len(s)
<1>1. /\ t \in Seq(Cmd!Sorts) /\ DOMAIN t = DOMAIN s /\ Len(t) = n
      /\ \A k \in DOMAIN s : t[k].of = s[k] /\ t[k].what = w /\ t[k].outcome = o
  <2>1. s \in Seq(Thing \cup {"pattern"}) /\ w \in Cmd!Whats
    BY DEF Cmd!Whats
  <2>2. /\ t \in Seq(Cmd!Sorts) /\ DOMAIN t = DOMAIN s /\ Len(t) = n
        /\ \A k \in DOMAIN s : t[k] = [of |-> s[k], what |-> w, outcome |-> o]
    BY <2>1, CmdRowsAre
  <2>3. QED
    BY <2>2
<1> HIDE DEF t
<1>2. /\ q \in Seq(Cmd!Sorts) /\ m \in Nat /\ n \in Nat
      /\ DOMAIN r = 1 .. m /\ DOMAIN s = 1 .. n /\ DOMAIN q = 1 .. m + n
      /\ \A k \in 1 .. m + n : q[k] = IF k <= m THEN r[k] ELSE t[k - m]
  <2>1. m \in Nat /\ n \in Nat /\ DOMAIN r = 1 .. m /\ DOMAIN s = 1 .. n
    OBVIOUS
  <2>2. q \in Seq(Cmd!Sorts) /\ Len(t) = n
    BY <1>1
  <2>3. ASSUME NEW u \in Seq(Cmd!Sorts)
        PROVE  /\ DOMAIN (r \o u) = 1 .. Len(r) + Len(u)
               /\ \A k \in 1 .. Len(r) + Len(u) :
                    (r \o u)[k] = IF k <= Len(r) THEN r[k] ELSE u[k - Len(r)]
    OBVIOUS
  <2>4. QED
    BY <1>1, <2>1, <2>2, <2>3
<1>3. \A k \in DOMAIN r : r[k].outcome \in Cmd!Outcomes
  <2>1. \A k \in DOMAIN r : r[k] \in Cmd!Sorts
    OBVIOUS
  <2>2. QED
    BY <2>1 DEF Cmd!Sorts
<1> HIDE DEF q, m, n
<1>4. CmdOnceEach(q)
  <2>1. ASSUME NEW j \in DOMAIN q, NEW k \in DOMAIN q, q[j].what # "target",
               q[j].what = q[k].what, q[j].of = q[k].of
        PROVE  j = k
    <3>1. \A a \in DOMAIN r, b \in DOMAIN s :
             ~(r[a].what = t[b].what /\ r[a].of = t[b].of)
      <4>1. ASSUME NEW a \in DOMAIN r, NEW b \in DOMAIN s,
                   r[a].what = t[b].what, r[a].of = t[b].of
            PROVE  FALSE
        <5>1. r[a].what = w /\ r[a].of = s[b] /\ r[a].outcome \in Cmd!Outcomes
          BY <1>1, <1>3, <4>1
        <5>2. s[b] \in Cmd!ToSet(s)
          BY DEF Cmd!ToSet
        <5>3. CmdIn(r, s[b], w, Cmd!Outcomes)
          BY <5>1 DEF CmdIn
        <5>4. QED
          BY <5>2, <5>3
      <4>2. QED
        BY <4>1
    <3>2. j \in 1 .. m + n /\ k \in 1 .. m + n
      BY <1>2, <2>1
    <3>3. CASE j <= m /\ k <= m
      <4>1. j \in DOMAIN r /\ k \in DOMAIN r /\ q[j] = r[j] /\ q[k] = r[k]
        BY <1>2, <3>2, <3>3
      <4>2. QED
        BY <2>1, <4>1 DEF CmdOnceEach
    <3>4. CASE ~(j <= m) /\ ~(k <= m)
      <4>1. j - m \in DOMAIN s /\ k - m \in DOMAIN s /\ q[j] = t[j - m] /\ q[k] = t[k - m]
        BY <1>2, <3>2, <3>4
      <4>2. s[j - m] = s[k - m]
        BY <1>1, <2>1, <4>1
      <4>3. j - m = k - m
        BY <4>1, <4>2 DEF Cmd!Distinct
      <4>4. QED
        BY <1>2, <3>2, <4>3
    <3>5. CASE j <= m /\ ~(k <= m)
      <4>1. j \in DOMAIN r /\ k - m \in DOMAIN s /\ q[j] = r[j] /\ q[k] = t[k - m]
        BY <1>2, <3>2, <3>5
      <4>2. QED
        BY <2>1, <3>1, <4>1
    <3>6. CASE ~(j <= m) /\ k <= m
      <4>1. k \in DOMAIN r /\ j - m \in DOMAIN s /\ q[k] = r[k] /\ q[j] = t[j - m]
        BY <1>2, <3>2, <3>6
      <4>2. QED
        BY <2>1, <3>1, <4>1
    <3>7. QED
      BY <3>3, <3>4, <3>5, <3>6
  <2>2. QED
    BY <2>1 DEF CmdOnceEach
<1>5. Range(q) = Range(r) \cup Range(t)
  BY <1>1, RangeConcatenation DEF q
<1>6. ASSUME NEW x, NEW v, NEW p
      PROVE  CmdIn(q, x, v, p) <=> CmdIn(r, x, v, p) \/ (x \in Cmd!ToSet(s) /\ v = w /\ o \in p)
  <2>1. /\ CmdIn(q, x, v, p) <=> \E y \in Range(q) : y.what = v /\ y.of = x /\ y.outcome \in p
        /\ CmdIn(r, x, v, p) <=> \E y \in Range(r) : y.what = v /\ y.of = x /\ y.outcome \in p
    BY DEF CmdIn, Range
  <2>2. (x \in Cmd!ToSet(s) /\ v = w /\ o \in p) <=>
           \E y \in Range(t) : y.what = v /\ y.of = x /\ y.outcome \in p
    BY <1>1 DEF Range, Cmd!ToSet
  <2>3. QED
    BY <1>5, <2>1, <2>2
<1>7. QED
  BY <1>2, <1>4, <1>6 DEF q, t

LEMMA CmdCounted ==
  ASSUME r11 \in Seq(Cmd!Sorts), CmdOnceEach(r11), NEW x,
         NEW w \in {"thing", "termination"}, NEW p
  PROVE  /\ Cmd!Count(x, w, p) <= 1
         /\ Cmd!Count(x, w, p) = 1 <=> Cmd!Told(x, w, p)
<1> DEFINE K == {k \in DOMAIN r11 :
                   r11[k].what = w /\ r11[k].of = x /\ r11[k].outcome \in p}
<1>1. Cmd!Count(x, w, p) = Cardinality(K)
  BY CmdCardinalityIs DEF Cmd!Count
<1>2. \A j, k \in K : j = k
  BY DEF CmdOnceEach
<1>3. Cmd!Told(x, w, p) <=> K # {}
  BY DEF Cmd!Told
<1> HIDE DEF K
<1>4. CASE K = {}
  <2>1. Cardinality(K) = 0
    BY <1>4, FS_EmptySet
  <2>2. QED
    BY <1>1, <1>3, <1>4, <2>1
<1>5. CASE K # {}
  <2>1. PICK k : k \in K
    BY <1>5
  <2>2. K = {k}
    BY <1>2, <2>1
  <2>3. Cardinality(K) = 1
    BY <2>2, FS_Singleton
  <2>4. QED
    BY <1>1, <1>3, <1>5, <2>3
<1>6. QED
  BY <1>4, <1>5

LEMMA CmdTodoIs ==
  /\ r6 = "resolve" => Cmd!Todo = Cmd!ToSet(r9) \cup Cmd!ToSet(r7)
  /\ r6 \in {"confirm", "act"} => Cmd!Todo = Cmd!ToSet(r9)
  /\ r6 = "terminate" => Cmd!Todo = Cmd!ToSet(Tail(r9))
  /\ r6 \in {"expand", "return", "exit"} => Cmd!Todo = {}
  BY DEF Cmd!Todo

LEMMA CmdTodoThen ==
  /\ r6' = "resolve" => Cmd!Todo' = Cmd!ToSet(r9') \cup Cmd!ToSet(r7')
  /\ r6' \in {"confirm", "act"} => Cmd!Todo' = Cmd!ToSet(r9')
  /\ r6' = "terminate" => Cmd!Todo' = Cmd!ToSet(Tail(r9'))
  /\ r6' \in {"expand", "return", "exit"} => Cmd!Todo' = {}
  BY DEF Cmd!Todo, Cmd!ToSet

LEMMA CmdStays ==
  ASSUME r11' = r11
  PROVE  \A x, w, p : Cmd!Told(x, w, p)' <=> Cmd!Told(x, w, p)
  BY CmdToldIs, CmdToldThen

\* Nothing is told of a thing while there may be more of them, nor done until it is confirmed.
LEMMA CmdNoneYet ==
  ASSUME Cmd!IInv
  PROVE  /\ r6 = "expand" => \A x, p : ~Cmd!Told(x, "thing", p) /\ ~Cmd!Told(x, "termination", p)
         /\ r6 \in {"expand", "resolve", "confirm"} =>
              r13 = <<>> /\ \A x \in Thing : ~Cmd!Told(x, "thing", {"aborted"})
<1>1. r6 = "expand" => \A k \in DOMAIN r11 : r11[k].what = "target"
  BY DEF Cmd!IInv, Cmd!RecordsInv
<1>2. r6 \in {"expand", "resolve", "confirm"} => r13 = <<>>
  BY DEF Cmd!IInv, Cmd!DoneInv
<1>3. ASSUME r13 = <<>>, NEW x \in Thing, Cmd!Told(x, "thing", {"aborted"})
      PROVE  FALSE
  <2>1. Cmd!Told(x, "thing", {"done", "aborted"})
    BY <1>3 DEF Cmd!Told
  <2>2. x \in Cmd!ToSet(r13)
    BY <2>1 DEF Cmd!IInv, Cmd!DoneInv
  <2>3. QED
    BY <1>3, <2>2 DEF Cmd!ToSet
<1>4. QED
  BY <1>1, <1>2, <1>3 DEF Cmd!Told

\* How the records go on.
LEMMA CmdRecordsGoOn ==
  ASSUME Cmd!IInv, r6 \notin {"expand", "exit"}, r6' # "expand", r11' \in Seq(Cmd!Sorts),
         CmdOnceEach(r11'), NEW X \in SUBSET Cmd!Todo, \A x : Cmd!Told(x, "thing",
         Cmd!Outcomes)' <=> Cmd!Told(x, "thing", Cmd!Outcomes) \/ x \in X,
         \A x \in Thing : Cmd!Told(x, "termination", Cmd!Outcomes)' => Cmd!Told(x, "thing",
         Cmd!Outcomes)', r6' = "terminate" => ~Cmd!Told(Cmd!This, "termination", Cmd!Outcomes)',
         Cmd!Todo' = Cmd!Todo \ X, r8' = r8
  PROVE  Cmd!RecordsInv'
<1>1. \A x \in Cmd!Todo' : ~Cmd!Told(x, "thing", Cmd!Outcomes)'
  BY DEF Cmd!IInv, Cmd!RecordsInv
<1>2. \A x \in Cmd!ToSet(r8) : x \in Cmd!Todo \/ Cmd!Told(x, "thing", Cmd!Outcomes)
  BY DEF Cmd!IInv, Cmd!RecordsInv
<1>3. Cmd!ToSet(r8') = Cmd!ToSet(r8)
  OBVIOUS
<1>4. \A x \in Cmd!ToSet(r8') : x \in Cmd!Todo' \/ Cmd!Told(x, "thing", Cmd!Outcomes)'
  BY <1>2, <1>3
<1>5. \A j, k \in DOMAIN r11' :
         /\ r11'[j].what # "target" /\ r11'[j].what = r11'[k].what
         /\ r11'[j].of = r11'[k].of
         => j = k
  BY DEF CmdOnceEach
<1>6. QED
  BY <1>1, <1>4, <1>5 DEF Cmd!RecordsInv

LEMMA CmdRecordsStay ==
  ASSUME Cmd!IInv, r6 \notin {"expand", "exit"}, r6' \notin {"expand", "terminate"},
         r11' = r11, Cmd!Todo' = Cmd!Todo, r8' = r8
  PROVE  Cmd!RecordsInv'
<1>1. \A x, w, p : Cmd!Told(x, w, p)' <=> Cmd!Told(x, w, p)
  BY CmdStays
<1>2. r11' \in Seq(Cmd!Sorts) /\ CmdOnceEach(r11')
  BY DEF Cmd!IInv, Cmd!RecordsInv, CmdOnceEach
<1>3. \A x \in Thing : Cmd!Told(x, "termination", Cmd!Outcomes)' =>
         Cmd!Told(x, "thing", Cmd!Outcomes)'
  BY <1>1 DEF Cmd!IInv, Cmd!RecordsInv
<1>4. /\ {} \in SUBSET Cmd!Todo /\ Cmd!Todo' = Cmd!Todo \ {}
      /\ \A x : Cmd!Told(x, "thing", Cmd!Outcomes)' <=>
            Cmd!Told(x, "thing", Cmd!Outcomes) \/ x \in {}
  BY <1>1
<1>5. QED
  BY <1>2, <1>3, <1>4, CmdRecordsGoOn

LEMMA CmdDoneGrows ==
  ASSUME Cmd!IInv, UNCHANGED <<r3, r10, r13>>, r18' \subseteq Thing \X {"acted", "terminated"},
         r18 \subseteq r18',
         \A x \in Thing :
           /\ Cmd!Told(x, "thing", {"done", "aborted"})' <=>
                Cmd!Told(x, "thing", {"done", "aborted"})
           /\ Cmd!Told(x, "thing", {"aborted"})' <=> Cmd!Told(x, "thing", {"aborted"})
           /\ Cmd!Told(x, "termination", {"done"})' <=> Cmd!Told(x, "termination", {"done"})
           /\ <<x, "acted">> \in r18' => Cmd!Told(x, "thing", {"done", "aborted", "failed"})'
           /\ <<x, "terminated">> \in r18' => Cmd!Told(x, "termination", {"done", "failed"})',
         r6' \in {"expand", "resolve", "confirm"} => r6 \in {"expand", "resolve", "confirm"},
         r6' # "terminate"
  PROVE  Cmd!DoneInv'
<1>1. Cmd!ToSet(r13') = Cmd!ToSet(r13)
  OBVIOUS
<1>2. /\ \A x \in Thing :
           /\ x \in Cmd!ToSet(r13) <=> Cmd!Told(x, "thing", {"done", "aborted"})
           /\ x \in Cmd!ToSet(r13) => <<x, "acted">> \in r18
           /\ Cmd!Told(x, "termination", {"done"}) => <<x, "terminated">> \in r18
           /\ Cmd!Told(x, "thing", {"aborted"}) => r3 /\ r10[x] = "CANCELLING"
      /\ r6 \in {"expand", "resolve", "confirm"} => r13 = <<>>
  BY DEF Cmd!IInv, Cmd!DoneInv
<1>3. \A x \in Thing :
         /\ x \in Cmd!ToSet(r13') <=> Cmd!Told(x, "thing", {"done", "aborted"})'
         /\ x \in Cmd!ToSet(r13') => <<x, "acted">> \in r18'
         /\ Cmd!Told(x, "termination", {"done"})' => <<x, "terminated">> \in r18'
         /\ Cmd!Told(x, "thing", {"aborted"})' => r3' /\ r10'[x] = "CANCELLING"
  BY <1>1, <1>2
<1>4. QED
  BY <1>2, <1>3 DEF Cmd!DoneInv

LEMMA CmdDoneGoesOn ==
  ASSUME Cmd!IInv, UNCHANGED <<r3, r10, r13, r18>>,
         \A x \in Thing :
           /\ Cmd!Told(x, "thing", {"done", "aborted"})' <=>
                Cmd!Told(x, "thing", {"done", "aborted"})
           /\ Cmd!Told(x, "thing", {"aborted"})' <=> Cmd!Told(x, "thing", {"aborted"})
           /\ Cmd!Told(x, "termination", {"done"})' <=> Cmd!Told(x, "termination", {"done"})
           /\ Cmd!Told(x, "thing", {"done", "aborted", "failed"}) =>
                Cmd!Told(x, "thing", {"done", "aborted", "failed"})'
           /\ Cmd!Told(x, "termination", {"done", "failed"}) =>
                Cmd!Told(x, "termination", {"done", "failed"})',
         r6' \in {"expand", "resolve", "confirm"} => r6 \in {"expand", "resolve", "confirm"},
         r6' # "terminate"
  PROVE  Cmd!DoneInv'
<1>1. /\ r18' \subseteq Thing \X {"acted", "terminated"} /\ r18 \subseteq r18'
      /\ \A x \in Thing :
           /\ <<x, "acted">> \in r18' => Cmd!Told(x, "thing", {"done", "aborted", "failed"})'
           /\ <<x, "terminated">> \in r18' => Cmd!Told(x, "termination", {"done", "failed"})'
  BY DEF Cmd!IInv, Cmd!DoneInv
<1>2. QED
  BY <1>1, CmdDoneGrows

LEMMA CmdAbortGoesOn ==
  ASSUME Cmd!IInv, UNCHANGED <<r1, r3, r10, r13, r16>>,
         Cmd!ToSet(r9') \subseteq Cmd!ToSet(r9)
  PROVE  Cmd!AbortInv'
<1>1. Cmd!ToSet(r13') = Cmd!ToSet(r13)
  OBVIOUS
<1>2. QED
  BY <1>1 DEF Cmd!IInv, Cmd!AbortInv

LEMMA CmdTerminatedGoesOn ==
  ASSUME Cmd!IInv, UNCHANGED <<r4, r13, r17>>, r6 # "terminate",
         \A x \in Thing :
           /\ Cmd!Told(x, "termination", {"done"}) => Cmd!Told(x, "termination", {"done"})'
           /\ Cmd!Told(x, "termination", {"failed"}) => Cmd!Told(x, "termination", {"failed"})'
  PROVE  Cmd!TerminatedInv'
<1>1. Cmd!ToSet(r13') = Cmd!ToSet(r13)
  OBVIOUS
<1>2. Cmd!ToSet(r13) \subseteq Thing
  BY DEF Cmd!IInv, Cmd!ItemsInv, Cmd!ToSet
<1>3. QED
  BY <1>1, <1>2 DEF Cmd!IInv, Cmd!TerminatedInv

LEMMA CmdEndsGoOn ==
  ASSUME Cmd!IInv, r12' \in Seq(CommandCodes), r6 # "exit",
         \/ r6' \notin {"return", "exit"} /\ r15' = r15
         \/ r6' = "exit" /\ r15' \in CommandCodes
         \/ r6' = "return" /\ r15' = r15 /\ r13' = <<>>,
         CommandCodes \subseteq {1, 4, 5, 6, 7, 8}
  PROVE  Cmd!EndsInv'
<1>1. r15 = Cmd!Unset /\ r15 # Cmd!SUCCESS
  BY DEF Cmd!IInv, Cmd!EndsInv, Cmd!Unset, Cmd!SUCCESS
<1>2. QED
  BY <1>1 DEF Cmd!EndsInv, Cmd!Unset, Cmd!SUCCESS

LEMMA CmdListHolds ==
  ASSUME Cmd!Parameters, Cmd!IInv, Cmd!List
  PROVE  Cmd!IInv'
<1>1. PICK some \in SUBSET Thing :
         /\ \A x \in some : Cmd!Applies(x, r16[x])
         /\ r9' = Cmd!SetToSeq(some)
         /\ r10' = [x \in Thing |-> IF x \in some THEN r16[x] ELSE "none"]
  BY DEF Cmd!List
<1>2. /\ r6 = "expand" /\ r8' = r9' /\ r7' = <<>> /\ r15' = r15
      /\ IF r9' = <<>> THEN r6' = "return" ELSE r6' = "confirm"
      /\ UNCHANGED <<Cmd!line, r13, r14, Cmd!told, Cmd!platform>>
  BY DEF Cmd!List, Cmd!Goes
<1>3. r9' \in Seq(Thing) /\ Cmd!Distinct(r9') /\ Cmd!ToSet(r9') \subseteq some
  <2>1. /\ Cmd!SetToSeq(some) \in Seq(some) /\ Cmd!Distinct(Cmd!SetToSeq(some))
        /\ Cmd!ToSet(Cmd!SetToSeq(some)) \subseteq some
    BY CmdSetToSeqIs, CmdFiniteIs DEF Cmd!Parameters
  <2>2. Cmd!SetToSeq(some) \in Seq(Thing)
    BY <2>1
  <2>3. QED
    BY <1>1, <2>1, <2>2
<1>4. /\ r13 = <<>> /\ r13' = <<>>
      /\ \A x, p : ~Cmd!Told(x, "thing", p) /\ ~Cmd!Told(x, "termination", p)
      /\ \A x, w, p : Cmd!Told(x, w, p)' <=> Cmd!Told(x, w, p)
  BY <1>2, CmdNoneYet, CmdStays DEF Cmd!told
<1>5. Cmd!ItemsInv'
  BY <1>2, <1>3, <1>4, CmdNothing DEF Cmd!ItemsInv, Cmd!Distinct
<1>6. Cmd!RecordsInv'
  <2>1. r11' \in Seq(Cmd!Sorts) /\ CmdOnceEach(r11')
    BY <1>2 DEF Cmd!IInv, Cmd!RecordsInv, CmdOnceEach, Cmd!told
  <2>2. \A x \in Cmd!ToSet(r8') : x \in Cmd!Todo'
    BY <1>2, CmdTodoThen, CmdNothing
  <2>3. QED
    BY <1>2, <1>4, <2>1, <2>2 DEF Cmd!RecordsInv, CmdOnceEach
<1>7. Cmd!DoneInv'
  BY <1>2, <1>4 DEF Cmd!IInv, Cmd!DoneInv, Cmd!platform
<1>8. Cmd!AbortInv'
  <2>1. /\ r1 \in {"cancel", "shutdown", "start", "hold", "finish"}
        /\ r16 \in [Thing -> {"RUNNING", "HELD", "FINISHING", "CANCELLING", Cmd!Over}]
        /\ \A x \in Thing : r16[x] = "CANCELLING" => TypeOf[x] = "wr"
    BY DEF Cmd!IInv, Cmd!AbortInv
  <2>2. r10' \in [Thing -> {"none", "RUNNING", "HELD", "FINISHING", "CANCELLING", Cmd!Over}]
    BY <1>1, <2>1
  <2>3. \A x \in Cmd!ToSet(r9') : r1 = "cancel" /\ r10'[x] = "CANCELLING" => r3
    BY <1>1, <1>3, <2>1 DEF Cmd!Applies
  <2>4. Cmd!ToSet(r13') = {}
    BY <1>4, CmdNothing
  <2>5. QED
    BY <1>2, <2>1, <2>2, <2>3, <2>4 DEF Cmd!AbortInv, Cmd!line, Cmd!platform
<1>9. Cmd!TerminatedInv'
  <2>1. Cmd!ToSet(r13') = {}
    BY <1>4, CmdNothing
  <2>2. QED
    BY <1>2, <2>1 DEF Cmd!IInv, Cmd!TerminatedInv, Cmd!platform
<1>10. Cmd!EndsInv'
  BY <1>2, <1>4, CmdEndsGoOn DEF Cmd!IInv, Cmd!EndsInv, Cmd!Parameters, Cmd!told
<1>11. QED
  BY <1>5, <1>6, <1>7, <1>8, <1>9, <1>10 DEF Cmd!IInv

\* While patterns are expanded.
LEMMA CmdExpands ==
  ASSUME Cmd!Parameters, Cmd!IInv, r6 = "expand", r6' = "expand", r8' \in Seq(Thing),
         r7' \in Seq([by : {"name", "pattern"}, of : SUBSET Thing]), ~Cmd!Listing,
         UNCHANGED <<Cmd!line, r9, r10, r13, r15, Cmd!platform>>,
         r11' \in Seq(Cmd!Sorts), \A k \in DOMAIN r11' : r11'[k].what = "target",
         r12' \in Seq(CommandCodes)
  PROVE  Cmd!IInv'
<1>1. /\ \A x, p : ~Cmd!Told(x, "thing", p) /\ ~Cmd!Told(x, "termination", p)
      /\ \A x, p : ~Cmd!Told(x, "thing", p)' /\ ~Cmd!Told(x, "termination", p)'
  BY CmdNoneYet DEF Cmd!Told
<1>2. Cmd!ItemsInv'
  BY DEF Cmd!IInv, Cmd!ItemsInv, Cmd!Listing, Cmd!line, Cmd!Distinct
<1>3. Cmd!RecordsInv'
  BY <1>1, CmdTodoThen DEF Cmd!RecordsInv
<1>4. Cmd!DoneInv'
  BY <1>1, CmdDoneGoesOn DEF Cmd!line, Cmd!platform
<1>5. Cmd!AbortInv'
  BY CmdAbortGoesOn DEF Cmd!line, Cmd!platform
<1>6. Cmd!TerminatedInv'
  BY <1>1, CmdTerminatedGoesOn DEF Cmd!line, Cmd!platform
<1>7. Cmd!EndsInv'
  BY CmdEndsGoOn DEF Cmd!Parameters
<1>8. QED
  BY <1>2, <1>3, <1>4, <1>5, <1>6, <1>7 DEF Cmd!IInv

LEMMA CmdExpandHolds ==
  ASSUME Cmd!Parameters, Cmd!IInv, Cmd!Expand
  PROVE  Cmd!IInv'
<1>1. /\ r6 = "expand" /\ r6' = "expand" /\ ~Cmd!Listing /\ r7 # <<>> /\ r7' = Tail(r7)
      /\ UNCHANGED <<Cmd!line, r9, r10, r13, r15, Cmd!platform>>
      /\ r11' = r11 /\ r12' = r12
  BY DEF Cmd!Expand, Cmd!Expanding, Cmd!told
<1>2. r7 \in Seq([by : {"name", "pattern"}, of : SUBSET Thing]) /\ r8 \in Seq(Thing)
  BY <1>1 DEF Cmd!IInv, Cmd!ItemsInv
<1>3. /\ Head(r7) \in [by : {"name", "pattern"}, of : SUBSET Thing]
      /\ r7' \in Seq([by : {"name", "pattern"}, of : SUBSET Thing])
  <2> DEFINE T == [by : {"name", "pattern"}, of : SUBSET Thing]
  <2>1. r7 \in Seq(T)
    BY <1>2
  <2> HIDE DEF T
  <2>2. Head(r7) \in T /\ Tail(r7) \in Seq(T)
    BY <1>1, <2>1
  <2>3. QED
    BY <1>1, <2>2 DEF T
<1>4. PICK some \in SUBSET Thing : r8' = r8 \o Cmd!SetToSeq(some)
  BY <1>3 DEF Cmd!Expand
<1>5. Cmd!SetToSeq(some) \in Seq(Thing)
  <2>1. Cmd!SetToSeq(some) \in Seq(some)
    BY CmdSetToSeqIs, CmdFiniteIs DEF Cmd!Parameters
  <2>2. QED
    BY <2>1
<1>6. r8' \in Seq(Thing)
  BY <1>2, <1>4, <1>5
<1>7. /\ r11' \in Seq(Cmd!Sorts) /\ r12' \in Seq(CommandCodes)
      /\ \A k \in DOMAIN r11' : r11'[k].what = "target"
  BY <1>1 DEF Cmd!IInv, Cmd!RecordsInv, Cmd!EndsInv
<1>8. QED
  BY <1>1, <1>3, <1>6, <1>7, CmdExpands

LEMMA CmdExpandFailsHolds ==
  ASSUME Cmd!Parameters, Cmd!IInv, NEW code \in CommandCodes, Cmd!ExpandFails(code)
  PROVE  Cmd!IInv'
<1> DEFINE t == Cmd!Rows(<<"pattern">>, "target", "failed")
<1>1. /\ r6 = "expand" /\ r6' = "expand" /\ ~Cmd!Listing /\ r7 # <<>> /\ r7' = Tail(r7)
      /\ UNCHANGED <<Cmd!line, r8, r9, r10, r13, r15, Cmd!platform>>
      /\ r11' = r11 \o t /\ r12' = Append(r12, code)
  BY DEF Cmd!ExpandFails, Cmd!Expanding, Cmd!Tells, Cmd!Causes
<1>2. /\ r7' \in Seq([by : {"name", "pattern"}, of : SUBSET Thing])
      /\ r8' \in Seq(Thing) /\ r12' \in Seq(CommandCodes)
  BY <1>1 DEF Cmd!IInv, Cmd!ItemsInv, Cmd!EndsInv
<1>3. /\ r11 \in Seq(Cmd!Sorts) /\ \A k \in DOMAIN r11 : r11[k].what = "target"
  BY <1>1 DEF Cmd!IInv, Cmd!RecordsInv
<1>4. t \in Seq(Cmd!Sorts) /\ \A k \in DOMAIN t : t[k].what = "target"
  <2>1. /\ <<"pattern">> \in Seq(Thing \cup {"pattern"})
        /\ "target" \in Cmd!Whats /\ "failed" \in Cmd!Outcomes
    BY DEF Cmd!Whats, Cmd!Outcomes
  <2>2. /\ t \in Seq(Cmd!Sorts) /\ DOMAIN t = DOMAIN <<"pattern">>
        /\ \A k \in DOMAIN <<"pattern">> :
             t[k] = [of |-> <<"pattern">>[k], what |-> "target", outcome |-> "failed"]
    BY <2>1, CmdRowsAre
  <2> HIDE DEF t
  <2>3. \A k \in DOMAIN t : t[k].what = "target"
    BY <2>2
  <2>4. QED
    BY <2>2, <2>3
<1> HIDE DEF t
<1>5. r11' \in Seq(Cmd!Sorts) /\ Range(r11') = Range(r11) \cup Range(t)
  BY <1>1, <1>3, <1>4, RangeConcatenation
<1>6. \A k \in DOMAIN r11' : r11'[k].what = "target"
  <2>1. \A y \in Range(r11') : y.what = "target"
    BY <1>3, <1>4, <1>5 DEF Range
  <2>2. QED
    BY <2>1 DEF Range
<1>7. QED
  BY <1>1, <1>2, <1>5, <1>6, CmdExpands

\* What is told of things that nothing is told of yet.
LEMMA CmdTellsOf ==
  ASSUME Cmd!IInv, NEW s \in Seq(Thing), Cmd!Distinct(s), NEW w \in {"thing", "termination"},
         \A y \in Cmd!ToSet(s) : ~Cmd!Told(y, w, Cmd!Outcomes), NEW o \in Cmd!Outcomes,
         r11' = r11 \o Cmd!Rows(s, w, o)
  PROVE  /\ r11' \in Seq(Cmd!Sorts) /\ CmdOnceEach(r11')
         /\ \A y, v, p : Cmd!Told(y, v, p)' <=>
              Cmd!Told(y, v, p) \/ (y \in Cmd!ToSet(s) /\ v = w /\ o \in p)
<1>1. r11 \in Seq(Cmd!Sorts) /\ CmdOnceEach(r11)
  BY DEF Cmd!IInv, Cmd!RecordsInv, CmdOnceEach
<1>2. \A y \in Cmd!ToSet(s) : ~CmdIn(r11, y, w, Cmd!Outcomes)
  BY CmdToldIs
<1>3. /\ r11 \o Cmd!Rows(s, w, o) \in Seq(Cmd!Sorts)
      /\ CmdOnceEach(r11 \o Cmd!Rows(s, w, o))
      /\ \A y, v, p : CmdIn(r11 \o Cmd!Rows(s, w, o), y, v, p) <=>
           \/ CmdIn(r11, y, v, p)
           \/ y \in Cmd!ToSet(s) /\ v = w /\ o \in p
  BY <1>1, <1>2, CmdGrown
<1>4. QED
  BY <1>3, CmdToldIs, CmdToldThen

\* What can be told of the things of one sequence, and then of those of another.
CmdUntold(s, w, t) ==
  /\ s \in Seq(Thing) /\ Cmd!Distinct(s) /\ w \in {"thing", "termination"}
  /\ \A y \in Cmd!ToSet(s) : ~Cmd!Told(y, w, Cmd!Outcomes)
  /\ t \in Seq(Thing) /\ Cmd!Distinct(t)
  /\ \A y \in Cmd!ToSet(t) : ~Cmd!Told(y, "thing", Cmd!Outcomes)
  /\ w = "thing" => Cmd!ToSet(s) \cap Cmd!ToSet(t) = {}

LEMMA CmdTellsTwice ==
  ASSUME Cmd!IInv, NEW s, NEW w, NEW t, CmdUntold(s, w, t), NEW o \in Cmd!Outcomes,
         NEW u \in Cmd!Outcomes, r11' = r11 \o Cmd!Rows(s, w, o) \o Cmd!Rows(t, "thing", u)
  PROVE  /\ r11' \in Seq(Cmd!Sorts) /\ CmdOnceEach(r11')
         /\ \A y, v, p : Cmd!Told(y, v, p)' <=>
              \/ Cmd!Told(y, v, p)
              \/ y \in Cmd!ToSet(s) /\ v = w /\ o \in p
              \/ y \in Cmd!ToSet(t) /\ v = "thing" /\ u \in p
<1>0. /\ s \in Seq(Thing) /\ Cmd!Distinct(s) /\ w \in {"thing", "termination"}
      /\ \A y \in Cmd!ToSet(s) : ~Cmd!Told(y, w, Cmd!Outcomes)
      /\ t \in Seq(Thing) /\ Cmd!Distinct(t)
      /\ \A y \in Cmd!ToSet(t) : ~Cmd!Told(y, "thing", Cmd!Outcomes)
      /\ w = "thing" => Cmd!ToSet(s) \cap Cmd!ToSet(t) = {}
  BY DEF CmdUntold
<1> DEFINE r == r11 \o Cmd!Rows(s, w, o)
<1>1. r11 \in Seq(Cmd!Sorts) /\ CmdOnceEach(r11)
  BY DEF Cmd!IInv, Cmd!RecordsInv, CmdOnceEach
<1>2. \A y \in Cmd!ToSet(s) : ~CmdIn(r11, y, w, Cmd!Outcomes)
  BY <1>0, CmdToldIs
<1>3. /\ r \in Seq(Cmd!Sorts) /\ CmdOnceEach(r)
      /\ \A y, v, p : CmdIn(r, y, v, p) <=>
           CmdIn(r11, y, v, p) \/ (y \in Cmd!ToSet(s) /\ v = w /\ o \in p)
  BY <1>0, <1>1, <1>2, CmdGrown
<1>4. r11' = r \o Cmd!Rows(t, "thing", u)
  OBVIOUS
<1> HIDE DEF r
<1>5. \A y \in Cmd!ToSet(t) : ~CmdIn(r, y, "thing", Cmd!Outcomes)
  BY <1>0, <1>3, CmdToldIs
<1>6. /\ r \o Cmd!Rows(t, "thing", u) \in Seq(Cmd!Sorts)
      /\ CmdOnceEach(r \o Cmd!Rows(t, "thing", u))
      /\ \A y, v, p : CmdIn(r \o Cmd!Rows(t, "thing", u), y, v, p) <=>
           \/ CmdIn(r, y, v, p)
           \/ y \in Cmd!ToSet(t) /\ v = "thing" /\ u \in p
  BY <1>0, <1>3, <1>5, CmdGrown
<1>7. r11' \in Seq(Cmd!Sorts) /\ CmdOnceEach(r11')
  BY <1>4, <1>6
<1>8. ASSUME NEW y, NEW v, NEW p
      PROVE  Cmd!Told(y, v, p)' <=>
               \/ Cmd!Told(y, v, p)
               \/ y \in Cmd!ToSet(s) /\ v = w /\ o \in p
               \/ y \in Cmd!ToSet(t) /\ v = "thing" /\ u \in p
  <2>1. Cmd!Told(y, v, p)' <=> CmdIn(r \o Cmd!Rows(t, "thing", u), y, v, p)
    BY <1>4, CmdToldThen
  <2>2. Cmd!Told(y, v, p) <=> CmdIn(r11, y, v, p)
    BY CmdToldIs
  <2>3. QED
    BY <1>3, <1>6, <2>1, <2>2
<1>9. QED
  BY <1>7, <1>8

LEMMA CmdSearchFailsHolds ==
  ASSUME Cmd!Parameters, Cmd!IInv, NEW code \in CommandCodes, Cmd!SearchFails(code)
  PROVE  Cmd!IInv'
<1>1. /\ r6 = "expand" /\ r6' = "exit" /\ r15' = code /\ (Cmd!Listing \/ r7 # <<>>)
      /\ UNCHANGED <<Cmd!line, Cmd!run, Cmd!told, Cmd!platform>>
  BY DEF Cmd!SearchFails, Cmd!Ends
<1>2. /\ \A x, p : ~Cmd!Told(x, "thing", p) /\ ~Cmd!Told(x, "termination", p)
      /\ \A x, w, p : Cmd!Told(x, w, p)' <=> Cmd!Told(x, w, p)
  BY <1>1, CmdNoneYet, CmdStays DEF Cmd!told
<1>3. Cmd!ItemsInv'
  BY <1>1 DEF Cmd!IInv, Cmd!ItemsInv, Cmd!run, Cmd!Distinct
<1>4. Cmd!RecordsInv'
  <2>1. /\ r11' \in Seq(Cmd!Sorts)
        /\ \A j, k \in DOMAIN r11' :
             /\ r11'[j].what # "target" /\ r11'[j].what = r11'[k].what
             /\ r11'[j].of = r11'[k].of
             => j = k
    BY <1>1 DEF Cmd!IInv, Cmd!RecordsInv, Cmd!told
  <2>2. r7' = <<>> => Cmd!ToSet(r8') = {}
    BY <1>1, CmdNothing DEF Cmd!IInv, Cmd!ItemsInv, Cmd!run
  <2>3. QED
    BY <1>1, <1>2, <2>1, <2>2, CmdTodoThen DEF Cmd!RecordsInv
<1>5. Cmd!DoneInv'
  BY <1>1, <1>2, CmdDoneGoesOn DEF Cmd!line, Cmd!run, Cmd!platform
<1>6. Cmd!AbortInv'
  BY <1>1, CmdAbortGoesOn DEF Cmd!line, Cmd!run, Cmd!platform
<1>7. Cmd!TerminatedInv'
  BY <1>1, <1>2, CmdTerminatedGoesOn DEF Cmd!line, Cmd!run, Cmd!platform
<1>8. Cmd!EndsInv'
  <2>1. r12' \in Seq(CommandCodes)
    BY <1>1 DEF Cmd!IInv, Cmd!EndsInv, Cmd!told
  <2>2. QED
    BY <1>1, <2>1, CmdEndsGoOn DEF Cmd!Parameters
<1>9. QED
  BY <1>3, <1>4, <1>5, <1>6, <1>7, <1>8 DEF Cmd!IInv

LEMMA CmdExpandedHolds ==
  ASSUME Cmd!Parameters, Cmd!IInv, Cmd!Expanded
  PROVE  Cmd!IInv'
<1>1. /\ r6 = "expand" /\ r6' = "resolve" /\ r15' = r15 /\ r7' = Cmd!Once(r8)
      /\ UNCHANGED <<Cmd!line, r8, r9, r10, r13, r14, Cmd!told, Cmd!platform>>
  BY DEF Cmd!Expanded, Cmd!Goes
<1>2. /\ \A x, p : ~Cmd!Told(x, "thing", p) /\ ~Cmd!Told(x, "termination", p)
      /\ \A x, w, p : Cmd!Told(x, w, p)' <=> Cmd!Told(x, w, p)
  BY <1>1, CmdNoneYet, CmdStays DEF Cmd!told
<1>3. /\ r8 \in Seq(Thing) /\ r9 = <<>> /\ r13 \in Seq(Thing)
  BY <1>1 DEF Cmd!IInv, Cmd!ItemsInv
<1>4. r7' \in Seq(Thing) /\ Cmd!ToSet(r7') = Cmd!ToSet(r8) /\ Cmd!Distinct(r7')
  BY <1>1, <1>3, CmdOnceIs
<1>5. Cmd!ItemsInv'
  <2>1. Cmd!Distinct(r9') /\ Cmd!ToSet(r9') = {}
    BY <1>1, <1>3, CmdNothing
  <2>2. QED
    BY <1>1, <1>3, <1>4, <2>1 DEF Cmd!ItemsInv, Cmd!Distinct
<1>6. Cmd!RecordsInv'
  <2>1. /\ r11' \in Seq(Cmd!Sorts)
        /\ \A j, k \in DOMAIN r11' :
             /\ r11'[j].what # "target" /\ r11'[j].what = r11'[k].what
             /\ r11'[j].of = r11'[k].of
             => j = k
    BY <1>1 DEF Cmd!IInv, Cmd!RecordsInv, Cmd!told
  <2>2. Cmd!ToSet(r8') \subseteq Cmd!Todo'
    BY <1>1, <1>4, CmdTodoThen
  <2>3. QED
    BY <1>1, <1>2, <2>1, <2>2 DEF Cmd!RecordsInv
<1>7. Cmd!DoneInv'
  BY <1>1, <1>2, CmdDoneGoesOn DEF Cmd!line, Cmd!platform
<1>8. Cmd!AbortInv'
  BY <1>1, CmdAbortGoesOn DEF Cmd!line, Cmd!platform
<1>9. Cmd!TerminatedInv'
  BY <1>1, <1>2, CmdTerminatedGoesOn DEF Cmd!line, Cmd!platform
<1>10. Cmd!EndsInv'
  <2>1. r12' \in Seq(CommandCodes)
    BY <1>1 DEF Cmd!IInv, Cmd!EndsInv, Cmd!told
  <2>2. QED
    BY <1>1, <2>1, CmdEndsGoOn DEF Cmd!Parameters
<1>11. QED
  BY <1>5, <1>6, <1>7, <1>8, <1>9, <1>10 DEF Cmd!IInv

LEMMA CmdResolvingIs ==
  ASSUME Cmd!IInv, r6 = "resolve", r7 # <<>>
  PROVE  /\ Head(r7) \in Thing /\ Tail(r7) \in Seq(Thing) /\ Cmd!Distinct(Tail(r7))
         /\ Cmd!ToSet(r7) = {Head(r7)} \cup Cmd!ToSet(Tail(r7))
         /\ Head(r7) \notin Cmd!ToSet(Tail(r7)) /\ Head(r7) \notin Cmd!ToSet(r9)
         /\ Cmd!ToSet(Tail(r7)) \cap Cmd!ToSet(r9) = {}
         /\ r9 \in Seq(Thing) /\ Cmd!Distinct(r9) /\ r8 \in Seq(Thing)
         /\ Cmd!ToSet(r9) \subseteq Thing
         /\ Cmd!Todo = Cmd!ToSet(r9) \cup {Head(r7)} \cup Cmd!ToSet(Tail(r7))
         /\ \A x \in Cmd!Todo : ~Cmd!Told(x, "thing", Cmd!Outcomes)
         /\ r13 = <<>> /\ \A x \in Thing : ~Cmd!Told(x, "thing", {"aborted"})
<1>1. /\ r7 \in Seq(Thing) /\ Cmd!Distinct(r7) /\ Cmd!ToSet(r7) \cap Cmd!ToSet(r9) = {}
      /\ r9 \in Seq(Thing) /\ Cmd!Distinct(r9) /\ r8 \in Seq(Thing)
  BY DEF Cmd!IInv, Cmd!ItemsInv
<1>2. /\ Head(r7) \in Thing /\ Tail(r7) \in Seq(Thing) /\ Cmd!Distinct(Tail(r7))
      /\ Cmd!ToSet(r7) = {Head(r7)} \cup Cmd!ToSet(Tail(r7))
      /\ Head(r7) \notin Cmd!ToSet(Tail(r7))
  BY <1>1, CmdParts
<1>3. Cmd!Todo = Cmd!ToSet(r9) \cup Cmd!ToSet(r7)
  BY CmdTodoIs
<1>4. \A x \in Cmd!Todo : ~Cmd!Told(x, "thing", Cmd!Outcomes)
  BY DEF Cmd!IInv, Cmd!RecordsInv
<1>5. r13 = <<>> /\ \A x \in Thing : ~Cmd!Told(x, "thing", {"aborted"})
  BY CmdNoneYet
<1>6. Cmd!ToSet(r9) \subseteq Thing
  BY <1>1 DEF Cmd!ToSet
<1>7. Cmd!Todo = Cmd!ToSet(r9) \cup {Head(r7)} \cup Cmd!ToSet(Tail(r7))
  BY <1>2, <1>3
<1>8. QED
  BY <1>1, <1>2, <1>4, <1>5, <1>6, <1>7

LEMMA CmdResolveHolds ==
  ASSUME Cmd!Parameters, Cmd!IInv, Cmd!Resolve
  PROVE  Cmd!IInv'
<1> DEFINE x == Head(r7)
<1>1. /\ r6 = "resolve" /\ r7 # <<>> /\ Cmd!Applies(x, r16[x]) /\ r9' = Append(r9, x)
      /\ r10' = [r10 EXCEPT ![x] = r16[x]] /\ r7' = Tail(r7)
      /\ UNCHANGED <<Cmd!line, r6, r8, r13, r14, Cmd!told, r15, Cmd!platform>>
  BY DEF Cmd!Resolve
<1>2. /\ x \in Thing /\ Tail(r7) \in Seq(Thing) /\ Cmd!Distinct(Tail(r7))
      /\ x \notin Cmd!ToSet(Tail(r7)) /\ x \notin Cmd!ToSet(r9)
      /\ Cmd!ToSet(Tail(r7)) \cap Cmd!ToSet(r9) = {}
      /\ r9 \in Seq(Thing) /\ Cmd!Distinct(r9) /\ r8 \in Seq(Thing)
      /\ Cmd!Todo = Cmd!ToSet(r9) \cup {x} \cup Cmd!ToSet(Tail(r7))
      /\ r13 = <<>> /\ \A y \in Thing : ~Cmd!Told(y, "thing", {"aborted"})
      /\ Cmd!ToSet(r9) \subseteq Thing
  BY <1>1, CmdResolvingIs
<1> HIDE DEF x
<1>3. /\ r9' \in Seq(Thing) /\ Cmd!Distinct(r9') /\ Cmd!ToSet(r9') = Cmd!ToSet(r9) \cup {x}
  BY <1>1, <1>2, CmdOneMore
<1>4. Cmd!ItemsInv'
  BY <1>1, <1>2, <1>3 DEF Cmd!ItemsInv, Cmd!Distinct
<1>5. Cmd!RecordsInv'
  <2>1. Cmd!Todo' = Cmd!ToSet(r9') \cup Cmd!ToSet(r7')
    BY <1>1, CmdTodoThen
  <2>2. Cmd!Todo' = Cmd!Todo
    BY <1>1, <1>2, <1>3, <2>1
  <2>3. QED
    BY <1>1, <2>2, CmdRecordsStay DEF Cmd!told
<1>6. \A y, w, p : Cmd!Told(y, w, p)' <=> Cmd!Told(y, w, p)
  BY <1>1, CmdStays DEF Cmd!told
<1>7. Cmd!DoneInv'
  BY <1>1, <1>2, <1>6 DEF Cmd!IInv, Cmd!DoneInv, Cmd!line, Cmd!platform
<1>8. Cmd!AbortInv'
  <2>1. /\ r1 \in {"cancel", "shutdown", "start", "hold", "finish"}
        /\ r16 \in [Thing -> {"RUNNING", "HELD", "FINISHING", "CANCELLING", Cmd!Over}]
        /\ r10 \in [Thing -> {"none", "RUNNING", "HELD", "FINISHING", "CANCELLING", Cmd!Over}]
        /\ \A y \in Thing : r16[y] = "CANCELLING" => TypeOf[y] = "wr"
        /\ \A y \in Cmd!ToSet(r9) : r1 = "cancel" /\ r10[y] = "CANCELLING" => r3
    BY DEF Cmd!IInv, Cmd!AbortInv
  <2>2. r10' \in [Thing -> {"none", "RUNNING", "HELD", "FINISHING", "CANCELLING", Cmd!Over}]
    BY <1>1, <1>2, <2>1
  <2>3. \A y \in Cmd!ToSet(r9') : r1 = "cancel" /\ r10'[y] = "CANCELLING" => r3
    <3>1. ASSUME r1 = "cancel", r10'[x] = "CANCELLING" PROVE r3
      <4>1. r16[x] = "CANCELLING" /\ TypeOf[x] = "wr"
        BY <1>1, <1>2, <2>1, <3>1
      <4>2. QED
        BY <1>1, <3>1, <4>1 DEF Cmd!Applies
    <3>2. \A y \in Cmd!ToSet(r9) : r10'[y] = r10[y]
      BY <1>1, <1>2, <2>1
    <3>3. QED
      BY <1>3, <2>1, <3>1, <3>2
  <2>4. Cmd!ToSet(r13') = {}
    BY <1>1, <1>2, CmdNothing
  <2>5. QED
    BY <1>1, <2>1, <2>2, <2>3, <2>4 DEF Cmd!AbortInv, Cmd!line, Cmd!platform
<1>9. Cmd!TerminatedInv'
  BY <1>1, <1>6, CmdTerminatedGoesOn DEF Cmd!line, Cmd!platform
<1>10. Cmd!EndsInv'
  <2>1. r12' \in Seq(CommandCodes)
    BY <1>1 DEF Cmd!IInv, Cmd!EndsInv, Cmd!told
  <2>2. QED
    BY <1>1, <2>1, CmdEndsGoOn DEF Cmd!Parameters
<1>11. QED
  BY <1>4, <1>5, <1>7, <1>8, <1>9, <1>10 DEF Cmd!IInv

LEMMA CmdResolveSkipsHolds ==
  ASSUME Cmd!Parameters, Cmd!IInv, Cmd!ResolveSkips
  PROVE  Cmd!IInv'
<1> DEFINE x == Head(r7)
<1>1. /\ r6 = "resolve" /\ r7 # <<>> /\ r7' = Tail(r7)
      /\ r11' = r11 \o Cmd!Rows(<<x>>, "thing", "skipped")
      /\ UNCHANGED <<Cmd!line, r6, r8, r9, r10, r13, r14, r12, r15, Cmd!platform>>
  BY DEF Cmd!ResolveSkips, Cmd!Tells
<1>2. /\ x \in Thing /\ Tail(r7) \in Seq(Thing) /\ Cmd!Distinct(Tail(r7))
      /\ x \notin Cmd!ToSet(Tail(r7)) /\ x \notin Cmd!ToSet(r9)
      /\ Cmd!ToSet(Tail(r7)) \cap Cmd!ToSet(r9) = {}
      /\ r9 \in Seq(Thing) /\ Cmd!Distinct(r9) /\ r8 \in Seq(Thing)
      /\ Cmd!Todo = Cmd!ToSet(r9) \cup {x} \cup Cmd!ToSet(Tail(r7))
      /\ \A y \in Cmd!Todo : ~Cmd!Told(y, "thing", Cmd!Outcomes)
      /\ r13 = <<>>
  BY <1>1, CmdResolvingIs
<1> HIDE DEF x
<1>3. /\ r11' \in Seq(Cmd!Sorts) /\ CmdOnceEach(r11')
      /\ \A y, v, p : Cmd!Told(y, v, p)' <=>
           Cmd!Told(y, v, p) \/ (y = x /\ v = "thing" /\ "skipped" \in p)
  <2>1. <<x>> \in Seq(Thing) /\ Cmd!ToSet(<<x>>) = {x} /\ Cmd!Distinct(<<x>>)
    BY <1>2, CmdAlone
  <2>2. /\ "skipped" \in Cmd!Outcomes
        /\ \A y \in Cmd!ToSet(<<x>>) : ~Cmd!Told(y, "thing", Cmd!Outcomes)
    BY <1>2, <2>1 DEF Cmd!Outcomes
  <2>3. /\ r11' \in Seq(Cmd!Sorts) /\ CmdOnceEach(r11')
        /\ \A y, v, p : Cmd!Told(y, v, p)' <=>
             Cmd!Told(y, v, p) \/ (y \in Cmd!ToSet(<<x>>) /\ v = "thing" /\ "skipped" \in p)
    BY <1>1, <2>1, <2>2, CmdTellsOf
  <2>4. QED
    BY <2>1, <2>3
<1>4. Cmd!ItemsInv'
  BY <1>1, <1>2 DEF Cmd!IInv, Cmd!ItemsInv, Cmd!Distinct
<1>5. Cmd!RecordsInv'
  <2>1. Cmd!Todo' = Cmd!ToSet(r9') \cup Cmd!ToSet(r7')
    BY <1>1, CmdTodoThen
  <2>2. Cmd!Todo' = Cmd!Todo \ {x} /\ {x} \in SUBSET Cmd!Todo
    BY <1>1, <1>2, <2>1
  <2>3. \A y : Cmd!Told(y, "thing", Cmd!Outcomes)' <=>
           Cmd!Told(y, "thing", Cmd!Outcomes) \/ y \in {x}
    BY <1>3 DEF Cmd!Outcomes
  <2>4. \A y \in Thing : Cmd!Told(y, "termination", Cmd!Outcomes)' =>
           Cmd!Told(y, "thing", Cmd!Outcomes)'
    BY <1>3, <2>3 DEF Cmd!IInv, Cmd!RecordsInv
  <2>5. QED
    BY <1>1, <1>3, <2>2, <2>3, <2>4, CmdRecordsGoOn
<1>6. Cmd!DoneInv'
  BY <1>1, <1>3, CmdDoneGoesOn DEF Cmd!line, Cmd!platform
<1>7. Cmd!AbortInv'
  BY <1>1, CmdAbortGoesOn DEF Cmd!line, Cmd!platform
<1>8. Cmd!TerminatedInv'
  BY <1>1, <1>3, CmdTerminatedGoesOn DEF Cmd!line, Cmd!platform
<1>9. Cmd!EndsInv'
  <2>1. r12' \in Seq(CommandCodes)
    BY <1>1 DEF Cmd!IInv, Cmd!EndsInv
  <2>2. QED
    BY <1>1, <2>1, CmdEndsGoOn DEF Cmd!Parameters
<1>10. QED
  BY <1>4, <1>5, <1>6, <1>7, <1>8, <1>9 DEF Cmd!IInv

LEMMA CmdResolveFailsHolds ==
  ASSUME Cmd!Parameters, Cmd!IInv, NEW code \in CommandCodes, Cmd!ResolveFails(code)
  PROVE  Cmd!IInv'
<1> DEFINE x == Head(r7)
           rest == Cmd!InOrder(r9) \o Tail(r7)
<1>1. /\ r6 = "resolve" /\ r7 # <<>> /\ r7' = Tail(r7) /\ r12' = Append(r12, code)
      /\ IF code \in Cmd!SESSION_FAILURES
         THEN /\ r11' = r11 \o Cmd!Rows(<<x>>, "thing", "failed")
                              \o Cmd!Rows(rest, "thing", "skipped")
              /\ r6' = "exit" /\ r15' = code
         ELSE /\ r11' = r11 \o Cmd!Rows(<<x>>, "thing", "failed") \o <<>>
              /\ r6' = r6 /\ r15' = r15
      /\ UNCHANGED <<Cmd!line, r8, r9, r10, r13, r14, Cmd!platform>>
  BY DEF Cmd!ResolveFails, Cmd!Causes, Cmd!Ends, Cmd!Goes
<1>2. /\ x \in Thing /\ Tail(r7) \in Seq(Thing) /\ Cmd!Distinct(Tail(r7))
      /\ x \notin Cmd!ToSet(Tail(r7)) /\ x \notin Cmd!ToSet(r9)
      /\ Cmd!ToSet(Tail(r7)) \cap Cmd!ToSet(r9) = {}
      /\ r9 \in Seq(Thing) /\ Cmd!Distinct(r9) /\ r8 \in Seq(Thing)
      /\ Cmd!Todo = Cmd!ToSet(r9) \cup {x} \cup Cmd!ToSet(Tail(r7))
      /\ \A y \in Cmd!Todo : ~Cmd!Told(y, "thing", Cmd!Outcomes)
      /\ r13 = <<>>
  BY <1>1, CmdResolvingIs
<1>3. /\ rest \in Seq(Thing) /\ Cmd!Distinct(rest)
      /\ Cmd!ToSet(rest) = Cmd!ToSet(r9) \cup Cmd!ToSet(Tail(r7))
  <2>1. Cmd!InOrder(r9) \in Seq(Thing) /\ Cmd!ToSet(Cmd!InOrder(r9)) = Cmd!ToSet(r9)
        /\ Cmd!Distinct(Cmd!InOrder(r9))
    BY <1>2, CmdInOrderIs
  <2>2. Cmd!ToSet(Cmd!InOrder(r9)) \cap Cmd!ToSet(Tail(r7)) = {}
    BY <1>2, <2>1
  <2>3. /\ rest \in Seq(Thing) /\ Cmd!Distinct(rest)
        /\ Cmd!ToSet(rest) = Cmd!ToSet(Cmd!InOrder(r9)) \cup Cmd!ToSet(Tail(r7))
    BY <1>2, <2>1, <2>2, CmdBoth
  <2>4. QED
    BY <2>1, <2>3
<1> HIDE DEF x, rest
<1>4. /\ <<x>> \in Seq(Thing) /\ Cmd!ToSet(<<x>>) = {x} /\ Cmd!Distinct(<<x>>)
      /\ "skipped" \in Cmd!Outcomes /\ "failed" \in Cmd!Outcomes
      /\ \A y \in Cmd!ToSet(<<x>>) : ~Cmd!Told(y, "thing", Cmd!Outcomes)
  BY <1>2, CmdAlone DEF Cmd!Outcomes
<1>5. Cmd!ItemsInv'
  BY <1>1, <1>2 DEF Cmd!IInv, Cmd!ItemsInv, Cmd!Distinct
<1>6. r12' \in Seq(CommandCodes)
  BY <1>1 DEF Cmd!IInv, Cmd!EndsInv
<1>7. Cmd!EndsInv'
  BY <1>1, <1>6, CmdEndsGoOn DEF Cmd!Parameters
<1>8. Cmd!AbortInv'
  BY <1>1, CmdAbortGoesOn DEF Cmd!line, Cmd!platform
<1>9. SUFFICES ASSUME NEW X \in SUBSET Cmd!Todo, Cmd!Todo' = Cmd!Todo \ X,
                      r11' \in Seq(Cmd!Sorts), CmdOnceEach(r11'),
                      \A y, v, p : Cmd!Told(y, v, p) => Cmd!Told(y, v, p)',
                      \A y, v, p : Cmd!Told(y, v, p)' =>
                        Cmd!Told(y, v, p) \/ (v = "thing" /\ ("skipped" \in p \/ "failed" \in p)),
                      \A y : Cmd!Told(y, "thing", Cmd!Outcomes)' <=> Cmd!Told(y, "thing",
                      Cmd!Outcomes) \/ y \in X
               PROVE  Cmd!IInv'
  <2>1. CASE code \in Cmd!SESSION_FAILURES
    <3>1. Cmd!Todo' = {}
      BY <1>1, <2>1, CmdTodoThen
    <3>2. \A y \in Cmd!ToSet(rest) : ~Cmd!Told(y, "thing", Cmd!Outcomes)
      BY <1>2, <1>3
    <3>3. Cmd!ToSet(<<x>>) \cap Cmd!ToSet(rest) = {}
      BY <1>2, <1>3, <1>4
    <3>4. /\ r11' \in Seq(Cmd!Sorts) /\ CmdOnceEach(r11')
          /\ \A y, v, p : Cmd!Told(y, v, p)' <=>
               \/ Cmd!Told(y, v, p)
               \/ y \in Cmd!ToSet(<<x>>) /\ v = "thing" /\ "failed" \in p
               \/ y \in Cmd!ToSet(rest) /\ v = "thing" /\ "skipped" \in p
      <4> DEFINE s == <<x>>
      <4>1. /\ s \in Seq(Thing) /\ Cmd!Distinct(s)
            /\ \A y \in Cmd!ToSet(s) : ~Cmd!Told(y, "thing", Cmd!Outcomes)
            /\ Cmd!ToSet(s) \cap Cmd!ToSet(rest) = {}
        BY <1>4, <3>3
      <4>2. r11' = r11 \o Cmd!Rows(s, "thing", "failed") \o Cmd!Rows(rest, "thing", "skipped")
        BY <1>1, <2>1
      <4> HIDE DEF s
      <4>25. CmdUntold(s, "thing", rest)
        BY <1>3, <3>2, <4>1 DEF CmdUntold
      <4>3. /\ r11' \in Seq(Cmd!Sorts) /\ CmdOnceEach(r11')
            /\ \A y, v, p : Cmd!Told(y, v, p)' <=>
                 \/ Cmd!Told(y, v, p)
                 \/ y \in Cmd!ToSet(s) /\ v = "thing" /\ "failed" \in p
                 \/ y \in Cmd!ToSet(rest) /\ v = "thing" /\ "skipped" \in p
        BY <1>4, <4>2, <4>25, CmdTellsTwice
      <4>4. QED
        BY <4>3 DEF s
    <3>5. \A y : Cmd!Told(y, "thing", Cmd!Outcomes)' <=>
             Cmd!Told(y, "thing", Cmd!Outcomes) \/ y \in Cmd!Todo
      BY <1>2, <1>3, <1>4, <3>4
    <3>6. Cmd!Todo' = Cmd!Todo \ Cmd!Todo
      BY <3>1
    <3>7. /\ \A y, v, p : Cmd!Told(y, v, p) => Cmd!Told(y, v, p)'
          /\ \A y, v, p : Cmd!Told(y, v, p)' =>
               Cmd!Told(y, v, p) \/ (v = "thing" /\ ("skipped" \in p \/ "failed" \in p))
      BY <3>4
    <3>8. QED
      BY <1>9, <3>4, <3>5, <3>6, <3>7
  <2>2. CASE code \notin Cmd!SESSION_FAILURES
    <3>1. r11' = r11 \o Cmd!Rows(<<x>>, "thing", "failed")
      <4>1. <<x>> \in Seq(Thing \cup {"pattern"}) /\ "thing" \in Cmd!Whats
        BY <1>2 DEF Cmd!Whats
      <4>2. Cmd!Rows(<<x>>, "thing", "failed") \in Seq(Cmd!Sorts) /\ r11 \in Seq(Cmd!Sorts)
        BY <1>4, <4>1, CmdRowsAre DEF Cmd!IInv, Cmd!RecordsInv
      <4>3. r11 \o Cmd!Rows(<<x>>, "thing", "failed") \in Seq(Cmd!Sorts)
        BY <4>2
      <4>4. \A r \in Seq(Cmd!Sorts) : r \o <<>> = r
        OBVIOUS
      <4>5. QED
        BY <1>1, <2>2, <4>3, <4>4
    <3>2. /\ r11' \in Seq(Cmd!Sorts) /\ CmdOnceEach(r11')
          /\ \A y, v, p : Cmd!Told(y, v, p)' <=>
               Cmd!Told(y, v, p) \/ (y \in Cmd!ToSet(<<x>>) /\ v = "thing" /\ "failed" \in p)
      BY <1>4, <3>1, CmdTellsOf
    <3>3. Cmd!Todo' = Cmd!ToSet(r9') \cup Cmd!ToSet(r7')
      BY <1>1, <2>2, CmdTodoThen
    <3>4. Cmd!Todo' = Cmd!Todo \ {x} /\ {x} \in SUBSET Cmd!Todo
      BY <1>1, <1>2, <3>3
    <3>5. \A y : Cmd!Told(y, "thing", Cmd!Outcomes)' <=>
             Cmd!Told(y, "thing", Cmd!Outcomes) \/ y \in {x}
      BY <1>4, <3>2
    <3>6. /\ \A y, v, p : Cmd!Told(y, v, p) => Cmd!Told(y, v, p)'
          /\ \A y, v, p : Cmd!Told(y, v, p)' =>
               Cmd!Told(y, v, p) \/ (v = "thing" /\ ("skipped" \in p \/ "failed" \in p))
      BY <3>2
    <3>7. QED
      BY <1>9, <3>2, <3>4, <3>5, <3>6
  <2>3. QED
    BY <2>1, <2>2
<1>10. Cmd!RecordsInv'
  <2>1. \A y \in Thing : Cmd!Told(y, "termination", Cmd!Outcomes)' =>
           Cmd!Told(y, "thing", Cmd!Outcomes)'
    BY <1>9 DEF Cmd!IInv, Cmd!RecordsInv
  <2>2. QED
    BY <1>1, <1>9, <2>1, CmdRecordsGoOn
<1>11. /\ \A y \in Thing :
            /\ Cmd!Told(y, "thing", {"done", "aborted"})' <=>
                  Cmd!Told(y, "thing", {"done", "aborted"})
            /\ Cmd!Told(y, "thing", {"aborted"})' <=> Cmd!Told(y, "thing", {"aborted"})
            /\ Cmd!Told(y, "termination", {"done"})' <=> Cmd!Told(y, "termination", {"done"})
            /\ Cmd!Told(y, "thing", {"done", "aborted", "failed"}) =>
                 Cmd!Told(y, "thing", {"done", "aborted", "failed"})'
            /\ Cmd!Told(y, "termination", {"done", "failed"}) =>
                 Cmd!Told(y, "termination", {"done", "failed"})'
       /\ \A y \in Thing :
            /\ Cmd!Told(y, "termination", {"done"}) => Cmd!Told(y, "termination", {"done"})'
            /\ Cmd!Told(y, "termination", {"failed"}) => Cmd!Told(y, "termination", {"failed"})'
  BY <1>9
<1>12. Cmd!DoneInv'
  BY <1>1, <1>11, CmdDoneGoesOn DEF Cmd!line, Cmd!platform
<1>13. Cmd!TerminatedInv'
  BY <1>1, <1>11, CmdTerminatedGoesOn DEF Cmd!line, Cmd!platform
<1>14. QED
  BY <1>5, <1>7, <1>8, <1>10, <1>12, <1>13 DEF Cmd!IInv

LEMMA CmdResolvedHolds ==
  ASSUME Cmd!Parameters, Cmd!IInv, Cmd!Resolved
  PROVE  Cmd!IInv'
<1>1. /\ r6 = "resolve" /\ r7 = <<>> /\ r9' = Cmd!InOrder(r9) /\ r15' = r15
      /\ IF r9 = <<>> THEN r6' = "return" ELSE r6' = "confirm"
      /\ UNCHANGED <<Cmd!line, r7, r8, r10, r13, r14, Cmd!told, Cmd!platform>>
  BY DEF Cmd!Resolved, Cmd!Goes
<1>2. /\ r9 \in Seq(Thing) /\ Cmd!Distinct(r9) /\ r8 \in Seq(Thing) /\ r13 \in Seq(Thing)
      /\ r13 = <<>>
  BY <1>1, CmdNoneYet DEF Cmd!IInv, Cmd!ItemsInv
<1>3. r9' \in Seq(Thing) /\ Cmd!ToSet(r9') = Cmd!ToSet(r9) /\ Cmd!Distinct(r9')
  BY <1>1, <1>2, CmdInOrderIs
<1>4. Cmd!ItemsInv'
  BY <1>1, <1>2, <1>3 DEF Cmd!ItemsInv, Cmd!Distinct
<1>5. Cmd!Todo' = Cmd!Todo
  <2>1. Cmd!Todo = Cmd!ToSet(r9)
    BY <1>1, CmdTodoIs, CmdNothing
  <2>2. CASE r9 = <<>>
    BY <1>1, <2>1, <2>2, CmdTodoThen, CmdNothing
  <2>3. CASE r9 # <<>>
    BY <1>1, <1>3, <2>1, <2>3, CmdTodoThen
  <2>4. QED
    BY <2>2, <2>3
<1>6. Cmd!RecordsInv'
  BY <1>1, <1>5, CmdRecordsStay DEF Cmd!told
<1>7. \A y, w, p : Cmd!Told(y, w, p)' <=> Cmd!Told(y, w, p)
  BY <1>1, CmdStays DEF Cmd!told
<1>8. Cmd!DoneInv'
  BY <1>1, <1>7, CmdDoneGoesOn DEF Cmd!line, Cmd!platform
<1>9. Cmd!AbortInv'
  BY <1>1, <1>3, CmdAbortGoesOn DEF Cmd!line, Cmd!platform
<1>10. Cmd!TerminatedInv'
  BY <1>1, <1>7, CmdTerminatedGoesOn DEF Cmd!line, Cmd!platform
<1>11. Cmd!EndsInv'
  <2>1. r12' \in Seq(CommandCodes)
    BY <1>1 DEF Cmd!IInv, Cmd!EndsInv, Cmd!told
  <2>2. QED
    BY <1>1, <1>2, <2>1, CmdEndsGoOn DEF Cmd!Parameters
<1>12. QED
  BY <1>4, <1>6, <1>8, <1>9, <1>10, <1>11 DEF Cmd!IInv

LEMMA CmdConfirmHolds ==
  ASSUME Cmd!Parameters, Cmd!IInv, Cmd!Confirm
  PROVE  Cmd!IInv'
<1>1. /\ r6 = "confirm" /\ r15' = r15
      /\ \/ r6' = "act" /\ r9' = r9 /\ r11' = r11
         \/ r6' = "return" /\ r9' = <<>> /\ r11' = r11 \o Cmd!Rows(r9, "thing", "skipped")
      /\ UNCHANGED <<Cmd!line, r7, r8, r10, r13, r14, r12, Cmd!platform>>
  BY DEF Cmd!Confirm, Cmd!Goes
<1>2. /\ r9 \in Seq(Thing) /\ Cmd!Distinct(r9) /\ r7 = <<>> /\ Cmd!Todo = Cmd!ToSet(r9)
      /\ \A y \in Cmd!Todo : ~Cmd!Told(y, "thing", Cmd!Outcomes)
      /\ r13 = <<>>
  BY <1>1, CmdTodoIs, CmdNoneYet DEF Cmd!IInv, Cmd!ItemsInv, Cmd!RecordsInv
<1>3. Cmd!ItemsInv'
  BY <1>1, <1>2, CmdNothing DEF Cmd!IInv, Cmd!ItemsInv, Cmd!Distinct
<1>4. Cmd!AbortInv'
  <2>1. Cmd!ToSet(r9') \subseteq Cmd!ToSet(r9)
    BY <1>1, CmdNothing
  <2>2. QED
    BY <1>1, <2>1, CmdAbortGoesOn DEF Cmd!line, Cmd!platform
<1>5. Cmd!EndsInv'
  <2>1. r12' \in Seq(CommandCodes)
    BY <1>1 DEF Cmd!IInv, Cmd!EndsInv
  <2>2. QED
    BY <1>1, <1>2, <2>1, CmdEndsGoOn DEF Cmd!Parameters
<1>6. Cmd!RecordsInv' /\ \A y, v, p : /\ Cmd!Told(y, v, p) => Cmd!Told(y, v, p)'
                                      /\ Cmd!Told(y, v, p)' =>
                                            Cmd!Told(y, v, p) \/ (v = "thing" /\ "skipped" \in p)
  <2>1. CASE r11' = r11 /\ r6' = "act" /\ r9' = r9
    <3>1. Cmd!Todo' = Cmd!Todo
      BY <1>2, <2>1, CmdTodoThen
    <3>2. QED
      BY <1>1, <2>1, <3>1, CmdRecordsStay, CmdStays
  <2>2. CASE r6' = "return" /\ r11' = r11 \o Cmd!Rows(r9, "thing", "skipped")
    <3>1. /\ "skipped" \in Cmd!Outcomes
          /\ \A y \in Cmd!ToSet(r9) : ~Cmd!Told(y, "thing", Cmd!Outcomes)
      BY <1>2 DEF Cmd!Outcomes
    <3>2. /\ r11' \in Seq(Cmd!Sorts) /\ CmdOnceEach(r11')
          /\ \A y, v, p : Cmd!Told(y, v, p)' <=>
               Cmd!Told(y, v, p) \/ (y \in Cmd!ToSet(r9) /\ v = "thing" /\ "skipped" \in p)
      BY <1>2, <2>2, <3>1, CmdTellsOf
    <3>3. Cmd!Todo' = Cmd!Todo \ Cmd!Todo
      BY <2>2, CmdTodoThen
    <3>4. \A y : Cmd!Told(y, "thing", Cmd!Outcomes)' <=>
             Cmd!Told(y, "thing", Cmd!Outcomes) \/ y \in Cmd!Todo
      BY <1>2, <3>1, <3>2
    <3>5. \A y \in Thing : Cmd!Told(y, "termination", Cmd!Outcomes)' =>
             Cmd!Told(y, "thing", Cmd!Outcomes)'
      BY <3>2 DEF Cmd!IInv, Cmd!RecordsInv
    <3>6. Cmd!RecordsInv'
      BY <1>1, <2>2, <3>2, <3>3, <3>4, <3>5, CmdRecordsGoOn
    <3>7. QED
      BY <3>2, <3>6
  <2>3. QED
    BY <1>1, <2>1, <2>2
<1>7. Cmd!DoneInv'
  BY <1>1, <1>6, CmdDoneGoesOn DEF Cmd!line, Cmd!platform
<1>8. Cmd!TerminatedInv'
  BY <1>1, <1>6, CmdTerminatedGoesOn DEF Cmd!line, Cmd!platform
<1>9. QED
  BY <1>3, <1>4, <1>5, <1>6, <1>7, <1>8 DEF Cmd!IInv

LEMMA CmdActingIs ==
  ASSUME Cmd!IInv, r6 \in {"act", "terminate"}, r9 # <<>>
  PROVE  /\ Cmd!This \in Thing /\ Tail(r9) \in Seq(Thing) /\ Cmd!Distinct(Tail(r9))
         /\ Cmd!ToSet(r9) = {Cmd!This} \cup Cmd!ToSet(Tail(r9))
         /\ Cmd!This \notin Cmd!ToSet(Tail(r9))
         /\ Cmd!ToSet(Tail(r9)) \subseteq Thing /\ r7 = <<>>
         /\ r8 \in Seq(Thing) /\ r13 \in Seq(Thing) /\ r9 \in Seq(Thing)
         /\ \A x \in Cmd!Todo : ~Cmd!Told(x, "thing", Cmd!Outcomes)
         /\ ~Cmd!Told(Cmd!This, "termination", Cmd!Outcomes) /\ r15 = Cmd!Unset
         /\ r6 = "act" => Cmd!Todo = {Cmd!This} \cup Cmd!ToSet(Tail(r9))
         /\ r6 = "terminate" => Cmd!Todo = Cmd!ToSet(Tail(r9))
<1>1. /\ r9 \in Seq(Thing) /\ Cmd!Distinct(r9) /\ r7 = <<>>
      /\ r8 \in Seq(Thing) /\ r13 \in Seq(Thing)
  BY DEF Cmd!IInv, Cmd!ItemsInv
<1>2. /\ Cmd!This \in Thing /\ Tail(r9) \in Seq(Thing) /\ Cmd!Distinct(Tail(r9))
      /\ Cmd!ToSet(r9) = {Cmd!This} \cup Cmd!ToSet(Tail(r9))
      /\ Cmd!This \notin Cmd!ToSet(Tail(r9))
      /\ Cmd!ToSet(Tail(r9)) \subseteq Thing
  BY <1>1, CmdParts DEF Cmd!This
<1>3. /\ r6 = "act" => Cmd!Todo = Cmd!ToSet(r9)
      /\ r6 = "terminate" => Cmd!Todo = Cmd!ToSet(Tail(r9))
  BY CmdTodoIs
<1>4. \A x \in Cmd!Todo : ~Cmd!Told(x, "thing", Cmd!Outcomes)
  BY DEF Cmd!IInv, Cmd!RecordsInv
<1>5. ~Cmd!Told(Cmd!This, "termination", Cmd!Outcomes)
  <2>1. CASE r6 = "terminate"
    BY <2>1 DEF Cmd!IInv, Cmd!RecordsInv
  <2>2. CASE r6 = "act"
    <3>1. ~Cmd!Told(Cmd!This, "thing", Cmd!Outcomes)
      BY <1>2, <1>3, <1>4, <2>2
    <3>2. QED
      BY <1>2, <3>1 DEF Cmd!IInv, Cmd!RecordsInv
  <2>3. QED
    BY <2>1, <2>2
<1>6. r15 = Cmd!Unset
  BY DEF Cmd!IInv, Cmd!EndsInv
<1>7. QED
  BY <1>1, <1>2, <1>3, <1>4, <1>5, <1>6

LEMMA CmdEffectIs ==
  ASSUME NEW x \in Thing,
         r1 \in {"cancel", "shutdown", "start", "hold", "finish"}
  PROVE  /\ Cmd!Effect(x) \in {"RUNNING", "HELD", "FINISHING", "CANCELLING", Cmd!Over}
         /\ Cmd!Effect(x) = "CANCELLING" => TypeOf[x] = "wr"
  BY DEF Cmd!Effect, Cmd!Over

LEMMA CmdActHolds ==
  ASSUME Cmd!Parameters, Cmd!IInv, Cmd!Act
  PROVE  Cmd!IInv'
<1> DEFINE x == Cmd!This
           o == IF r1 = "cancel" /\ r10[x] = "CANCELLING" THEN "aborted" ELSE "done"
           stays == r4 /\ TypeOf[x] = "pool"
<1>1. /\ r6 = "act" /\ r9 # <<>> /\ r16[x] # Cmd!Over
      /\ r16' = [r16 EXCEPT ![x] = Cmd!Effect(x)]
      /\ r18' = r18 \cup {<<x, "acted">>}
      /\ r11' = r11 \o Cmd!Rows(<<x>>, "thing", o)
      /\ r13' = Append(r13, x) /\ r15' = r15
      /\ IF stays THEN r6' = "terminate" /\ r9' = r9 ELSE r6' = "act" /\ r9' = Tail(r9)
      /\ UNCHANGED <<Cmd!line, r7, r8, r10, r14, r12, r17>>
  BY DEF Cmd!Act, Cmd!Acting, Cmd!CarriedOut, Cmd!Tells, Cmd!Goes
<1>2. /\ x \in Thing /\ Tail(r9) \in Seq(Thing) /\ Cmd!Distinct(Tail(r9))
      /\ Cmd!ToSet(r9) = {x} \cup Cmd!ToSet(Tail(r9)) /\ x \notin Cmd!ToSet(Tail(r9))
      /\ r7 = <<>> /\ r8 \in Seq(Thing) /\ r13 \in Seq(Thing) /\ r9 \in Seq(Thing)
      /\ \A y \in Cmd!Todo : ~Cmd!Told(y, "thing", Cmd!Outcomes)
      /\ ~Cmd!Told(x, "termination", Cmd!Outcomes) /\ r15 = Cmd!Unset
      /\ Cmd!Todo = {x} \cup Cmd!ToSet(Tail(r9))
  BY <1>1, CmdActingIs
<1>3. r9' # <<>> /\ r6' = "terminate" => Cmd!This' = x
  BY <1>1 DEF Cmd!This
<1> HIDE DEF x
<1>4. o \in {"done", "aborted"} /\ o \in Cmd!Outcomes
  BY DEF Cmd!Outcomes
<1>5. o = "aborted" => r3 /\ r10[x] = "CANCELLING"
  BY <1>2 DEF Cmd!IInv, Cmd!AbortInv
<1> HIDE DEF o
<1>6. /\ r11' \in Seq(Cmd!Sorts) /\ CmdOnceEach(r11')
      /\ \A y, v, p : Cmd!Told(y, v, p)' <=>
            Cmd!Told(y, v, p) \/ (y = x /\ v = "thing" /\ o \in p)
  <2>1. <<x>> \in Seq(Thing) /\ Cmd!ToSet(<<x>>) = {x} /\ Cmd!Distinct(<<x>>)
    BY <1>2, CmdAlone
  <2>2. \A y \in Cmd!ToSet(<<x>>) : ~Cmd!Told(y, "thing", Cmd!Outcomes)
    BY <1>2, <2>1
  <2>3. /\ r11' \in Seq(Cmd!Sorts) /\ CmdOnceEach(r11')
        /\ \A y, v, p : Cmd!Told(y, v, p)' <=>
             Cmd!Told(y, v, p) \/ (y \in Cmd!ToSet(<<x>>) /\ v = "thing" /\ o \in p)
    BY <1>1, <1>4, <2>1, <2>2, CmdTellsOf
  <2>4. QED
    BY <2>1, <2>3
<1>7. /\ r13' \in Seq(Thing) /\ Cmd!ToSet(r13') = Cmd!ToSet(r13) \cup {x}
      /\ r9' \in Seq(Thing) /\ Cmd!ToSet(r9') \subseteq Cmd!ToSet(r9)
      /\ r6' = "terminate" => r9' # <<>>
  BY <1>1, <1>2, CmdOneMore
<1>8. Cmd!ItemsInv'
  BY <1>1, <1>2, <1>7 DEF Cmd!IInv, Cmd!ItemsInv, Cmd!Distinct
<1>9. Cmd!RecordsInv'
  <2>1. Cmd!Todo' = Cmd!Todo \ {x} /\ {x} \in SUBSET Cmd!Todo
    BY <1>1, <1>2, CmdTodoThen
  <2>2. \A y : Cmd!Told(y, "thing", Cmd!Outcomes)' <=>
           Cmd!Told(y, "thing", Cmd!Outcomes) \/ y \in {x}
    BY <1>4, <1>6
  <2>3. \A y \in Thing : Cmd!Told(y, "termination", Cmd!Outcomes)' =>
           Cmd!Told(y, "thing", Cmd!Outcomes)'
    BY <1>6, <2>2 DEF Cmd!IInv, Cmd!RecordsInv
  <2>4. r6' = "terminate" => ~Cmd!Told(Cmd!This, "termination", Cmd!Outcomes)'
    <3> SUFFICES ASSUME NEW y, y = x, r6' = "terminate"
                 PROVE  ~Cmd!Told(Cmd!This, "termination", Cmd!Outcomes)'
      OBVIOUS
    <3>1. ~Cmd!Told(y, "termination", Cmd!Outcomes)'
      BY <1>2, <1>6 DEF Cmd!Outcomes
    <3>2. Cmd!This' = y
      BY <1>3, <1>7
    <3>3. QED
      BY <3>1, <3>2 DEF Cmd!Told, Cmd!Outcomes
  <2>5. QED
    BY <1>1, <1>6, <2>1, <2>2, <2>3, <2>4, CmdRecordsGoOn
<1>10. Cmd!DoneInv'
  <2>1. /\ r18 \subseteq Thing \X {"acted", "terminated"}
        /\ \A y \in Thing :
             /\ y \in Cmd!ToSet(r13) <=> Cmd!Told(y, "thing", {"done", "aborted"})
             /\ y \in Cmd!ToSet(r13) => <<y, "acted">> \in r18
             /\ <<y, "acted">> \in r18 => Cmd!Told(y, "thing", {"done", "aborted", "failed"})
             /\ Cmd!Told(y, "termination", {"done"}) => <<y, "terminated">> \in r18
             /\ <<y, "terminated">> \in r18 => Cmd!Told(y, "termination", {"done", "failed"})
             /\ Cmd!Told(y, "thing", {"aborted"}) => r3 /\ r10[y] = "CANCELLING"
    BY DEF Cmd!IInv, Cmd!DoneInv
  <2>2. r18' \subseteq Thing \X {"acted", "terminated"}
    BY <1>1, <1>2, <2>1
  <2>3. ASSUME NEW y \in Thing
        PROVE  /\ y \in Cmd!ToSet(r13') <=> Cmd!Told(y, "thing", {"done", "aborted"})'
               /\ y \in Cmd!ToSet(r13') => <<y, "acted">> \in r18'
               /\ <<y, "acted">> \in r18' =>
                    Cmd!Told(y, "thing", {"done", "aborted", "failed"})'
               /\ Cmd!Told(y, "termination", {"done"})' => <<y, "terminated">> \in r18'
               /\ <<y, "terminated">> \in r18' =>
                    Cmd!Told(y, "termination", {"done", "failed"})'
               /\ Cmd!Told(y, "thing", {"aborted"})' => r3' /\ r10'[y] = "CANCELLING"
    <3>1. /\ <<y, "acted">> \in r18' <=> <<y, "acted">> \in r18 \/ y = x
          /\ <<y, "terminated">> \in r18' <=> <<y, "terminated">> \in r18
      BY <1>1
    <3>2. /\ Cmd!Told(y, "thing", {"done", "aborted"})' <=>
                Cmd!Told(y, "thing", {"done", "aborted"}) \/ y = x
          /\ Cmd!Told(y, "thing", {"done", "aborted", "failed"})' <=>
                Cmd!Told(y, "thing", {"done", "aborted", "failed"}) \/ y = x
          /\ Cmd!Told(y, "termination", {"done"})' <=> Cmd!Told(y, "termination", {"done"})
          /\ Cmd!Told(y, "termination", {"done", "failed"})' <=>
                Cmd!Told(y, "termination", {"done", "failed"})
          /\ Cmd!Told(y, "thing", {"aborted"})' =>
               Cmd!Told(y, "thing", {"aborted"}) \/ (y = x /\ o = "aborted")
      BY <1>4, <1>6
    <3>3. y \in Cmd!ToSet(r13') <=> y \in Cmd!ToSet(r13) \/ y = x
      BY <1>7
    <3>4. QED
      BY <1>1, <1>5, <2>1, <3>1, <3>2, <3>3 DEF Cmd!line
  <2>4. r6' = "terminate" => Cmd!This' \in Cmd!ToSet(r13')
    BY <1>3, <1>7
  <2>5. r6' \notin {"expand", "resolve", "confirm"}
    BY <1>1
  <2>6. QED
    BY <2>2, <2>3, <2>4, <2>5 DEF Cmd!DoneInv
<1>11. Cmd!AbortInv'
  <2>1. /\ r16 \in [Thing -> {"RUNNING", "HELD", "FINISHING", "CANCELLING", Cmd!Over}]
        /\ \A y \in Thing : r16[y] = "CANCELLING" => TypeOf[y] = "wr"
        /\ \A y \in Cmd!ToSet(r9) \cup Cmd!ToSet(r13) :
             r1 = "cancel" /\ r10[y] = "CANCELLING" => r3
        /\ r1 \in {"cancel", "shutdown", "start", "hold", "finish"}
    BY DEF Cmd!IInv, Cmd!AbortInv
  <2>2. /\ Cmd!Effect(x) \in {"RUNNING", "HELD", "FINISHING", "CANCELLING", Cmd!Over}
        /\ Cmd!Effect(x) = "CANCELLING" => TypeOf[x] = "wr"
    BY <1>2, <2>1, CmdEffectIs
  <2>3. /\ r16' \in [Thing -> {"RUNNING", "HELD", "FINISHING", "CANCELLING", Cmd!Over}]
        /\ \A y \in Thing : r16'[y] = "CANCELLING" => TypeOf[y] = "wr"
    BY <1>1, <1>2, <2>1, <2>2
  <2>4. \A y \in Cmd!ToSet(r9') \cup Cmd!ToSet(r13') :
           r1 = "cancel" /\ r10[y] = "CANCELLING" => r3
    BY <1>2, <1>7, <2>1
  <2>5. QED
    BY <1>1, <2>3, <2>4 DEF Cmd!IInv, Cmd!AbortInv, Cmd!line
<1>12. Cmd!TerminatedInv'
  <2>1. ASSUME NEW y \in Cmd!ToSet(r13'), r4, TypeOf[y] = "pool"
        PROVE  \/ r6' = "terminate" /\ y = Cmd!This'
               \/ r17[y] = "none"
               \/ r17[y] = "TERMINATED" /\ Cmd!Told(y, "termination", {"done"})'
               \/ Cmd!Told(y, "termination", {"failed"})'
    <3>1. CASE y = x
      BY <1>1, <1>3, <1>7, <2>1, <3>1
    <3>2. CASE y # x
      <4>1. y \in Cmd!ToSet(r13)
        BY <1>7, <2>1, <3>2
      <4>2. \/ r17[y] = "none"
            \/ r17[y] = "TERMINATED" /\ Cmd!Told(y, "termination", {"done"})
            \/ Cmd!Told(y, "termination", {"failed"})
        BY <1>1, <2>1, <4>1 DEF Cmd!IInv, Cmd!TerminatedInv
      <4>3. QED
        BY <1>6, <4>2
    <3>3. QED
      BY <3>1, <3>2
  <2>2. QED
    BY <1>1, <2>1 DEF Cmd!IInv, Cmd!TerminatedInv, Cmd!line
<1>13. Cmd!EndsInv'
  <2>1. r12' \in Seq(CommandCodes)
    BY <1>1 DEF Cmd!IInv, Cmd!EndsInv
  <2>2. QED
    BY <1>1, <2>1, CmdEndsGoOn DEF Cmd!Parameters
<1>14. QED
  BY <1>8, <1>9, <1>10, <1>11, <1>12, <1>13 DEF Cmd!IInv

\* What a request of a kind that fails may have done.
CmdPerhaps(w) ==
  \/ UNCHANGED <<r16, r17, r18>>
  \/ w = "thing" /\ Cmd!CarriedOut /\ r17' = r17
  \/ w = "termination" /\ Cmd!Terminated /\ r16' = r16

LEMMA CmdStoppedHolds ==
  ASSUME Cmd!Parameters, Cmd!IInv, r9 # <<>>, NEW code \in CommandCodes, NEW w,
         \/ r6 = "act" /\ w = "thing"
         \/ r6 = "terminate" /\ w = "termination",
         Cmd!Stopped(w, Cmd!This, code), CmdPerhaps(w),
         UNCHANGED <<Cmd!line, r7, r8, r10, r13, r14>>
  PROVE  Cmd!IInv'
<1> DEFINE rest == Tail(r9)
<1>0. PICK x : x = Cmd!This
  OBVIOUS
<1>1. /\ r9' = rest /\ r12' = Append(r12, code)
      /\ IF code \in Cmd!SESSION_FAILURES
         THEN /\ r11' = r11 \o Cmd!Rows(<<x>>, w, "failed") \o Cmd!Rows(rest, "thing", "skipped")
              /\ r6' = "exit" /\ r15' = code
         ELSE /\ r11' = r11 \o Cmd!Rows(<<x>>, w, "failed") \o <<>>
              /\ r6' = "act" /\ r15' = r15
  BY <1>0 DEF Cmd!Stopped, Cmd!Causes, Cmd!Ends, Cmd!Goes
<1>2. /\ x \in Thing /\ rest \in Seq(Thing) /\ Cmd!Distinct(rest)
      /\ Cmd!ToSet(r9) = {x} \cup Cmd!ToSet(rest) /\ x \notin Cmd!ToSet(rest)
      /\ r7 = <<>> /\ r8 \in Seq(Thing) /\ r13 \in Seq(Thing)
      /\ \A y \in Cmd!Todo : ~Cmd!Told(y, "thing", Cmd!Outcomes)
      /\ ~Cmd!Told(x, "termination", Cmd!Outcomes) /\ r15 = Cmd!Unset
      /\ r6 = "act" => Cmd!Todo = {x} \cup Cmd!ToSet(rest)
      /\ r6 = "terminate" => Cmd!Todo = Cmd!ToSet(rest)
  BY <1>0, CmdActingIs
<1>3. r6 = "terminate" => x \in Cmd!ToSet(r13) /\ Cmd!Told(x, "thing", Cmd!Outcomes)
  <2>1. r6 = "terminate" => x \in Cmd!ToSet(r13) /\ Cmd!Told(x, "thing", {"done", "aborted"})
    BY <1>0, <1>2 DEF Cmd!IInv, Cmd!DoneInv
  <2>2. QED
    BY <2>1 DEF Cmd!Told, Cmd!Outcomes
<1>4. /\ \/ r18' = r18
         \/ w = "thing" /\ r18' = r18 \cup {<<x, "acted">>}
         \/ w = "termination" /\ r18' = r18 \cup {<<x, "terminated">>}
      /\ r16' = r16 \/ r16' = [r16 EXCEPT ![x] = Cmd!Effect(x)]
      /\ \/ r17' = r17
         \/ /\ r6 = "terminate" /\ r17[x] # "none"
            /\ r17' = [r17 EXCEPT ![x] = "TERMINATED"]
  BY <1>0 DEF CmdPerhaps, Cmd!CarriedOut, Cmd!Terminated
<1> HIDE DEF rest
<1>5. /\ <<x>> \in Seq(Thing) /\ Cmd!ToSet(<<x>>) = {x} /\ Cmd!Distinct(<<x>>)
      /\ "skipped" \in Cmd!Outcomes /\ "failed" \in Cmd!Outcomes
  BY <1>2, CmdAlone DEF Cmd!Outcomes
<1>6. /\ w \in {"thing", "termination"} /\ Cmd!ToSet(rest) \subseteq Cmd!Todo
      /\ ~Cmd!Told(x, w, Cmd!Outcomes)
      /\ \A y \in Cmd!ToSet(rest) : ~Cmd!Told(y, "thing", Cmd!Outcomes)
  BY <1>2
<1>7. Cmd!ItemsInv'
  BY <1>1, <1>2 DEF Cmd!IInv, Cmd!ItemsInv, Cmd!Distinct
<1>8. r12' \in Seq(CommandCodes)
  BY <1>1 DEF Cmd!IInv, Cmd!EndsInv
<1>9. Cmd!EndsInv'
  BY <1>1, <1>8, CmdEndsGoOn DEF Cmd!Parameters
<1>10. Cmd!AbortInv'
  <2>1. /\ r1 \in {"cancel", "shutdown", "start", "hold", "finish"}
        /\ r10 \in [Thing -> {"none", "RUNNING", "HELD", "FINISHING", "CANCELLING", Cmd!Over}]
        /\ r16 \in [Thing -> {"RUNNING", "HELD", "FINISHING", "CANCELLING", Cmd!Over}]
        /\ \A y \in Thing : r16[y] = "CANCELLING" => TypeOf[y] = "wr"
        /\ \A y \in Cmd!ToSet(r9) \cup Cmd!ToSet(r13) :
             r1 = "cancel" /\ r10[y] = "CANCELLING" => r3
    BY DEF Cmd!IInv, Cmd!AbortInv
  <2>2. /\ Cmd!Effect(x) \in {"RUNNING", "HELD", "FINISHING", "CANCELLING", Cmd!Over}
        /\ Cmd!Effect(x) = "CANCELLING" => TypeOf[x] = "wr"
    BY <1>2, <2>1, CmdEffectIs
  <2>3. /\ r16' \in [Thing -> {"RUNNING", "HELD", "FINISHING", "CANCELLING", Cmd!Over}]
        /\ \A y \in Thing : r16'[y] = "CANCELLING" => TypeOf[y] = "wr"
    BY <1>2, <1>4, <2>1, <2>2
  <2>4. \A y \in Cmd!ToSet(r9') \cup Cmd!ToSet(r13') :
           r1 = "cancel" /\ r10[y] = "CANCELLING" => r3
    BY <1>1, <1>2, <2>1
  <2>5. QED
    BY <2>1, <2>3, <2>4 DEF Cmd!AbortInv, Cmd!line
<1>11. SUFFICES ASSUME NEW X \in SUBSET Cmd!Todo, Cmd!Todo' = Cmd!Todo \ X,
                       r11' \in Seq(Cmd!Sorts), CmdOnceEach(r11'),
                       \A y, v, p : Cmd!Told(y, v, p) => Cmd!Told(y, v, p)',
                       \A y, v, p : Cmd!Told(y, v, p)' =>
                         \/ Cmd!Told(y, v, p)
                         \/ v = "thing" /\ ("skipped" \in p \/ "failed" \in p)
                         \/ v = w /\ y = x /\ "failed" \in p,
                       \A y : Cmd!Told(y, "thing", Cmd!Outcomes)' <=> Cmd!Told(y, "thing",
                       Cmd!Outcomes) \/ y \in X, Cmd!Told(x, w, {"failed"})'
                PROVE  Cmd!IInv'
  <2>1. CASE code \in Cmd!SESSION_FAILURES
    <3> DEFINE s == <<x>>
    <3>1. /\ s \in Seq(Thing) /\ Cmd!Distinct(s) /\ Cmd!ToSet(s) = {x}
          /\ \A y \in Cmd!ToSet(s) : ~Cmd!Told(y, w, Cmd!Outcomes)
      BY <1>2, <1>5, <1>6
    <3>2. r11' = r11 \o Cmd!Rows(s, w, "failed") \o Cmd!Rows(rest, "thing", "skipped")
      BY <1>1, <2>1
    <3> HIDE DEF s
    <3>25. CmdUntold(s, w, rest)
      BY <1>2, <1>6, <3>1 DEF CmdUntold
    <3>3. /\ r11' \in Seq(Cmd!Sorts) /\ CmdOnceEach(r11')
          /\ \A y, v, p : Cmd!Told(y, v, p)' <=>
               \/ Cmd!Told(y, v, p)
               \/ y \in Cmd!ToSet(s) /\ v = w /\ "failed" \in p
               \/ y \in Cmd!ToSet(rest) /\ v = "thing" /\ "skipped" \in p
      BY <1>5, <3>2, <3>25, CmdTellsTwice
    <3>4. Cmd!Todo' = {} /\ Cmd!Todo' = Cmd!Todo \ Cmd!Todo
      BY <1>1, <2>1, CmdTodoThen
    <3>5. \A y : Cmd!Told(y, "thing", Cmd!Outcomes)' <=>
             Cmd!Told(y, "thing", Cmd!Outcomes) \/ y \in Cmd!Todo
      BY <1>2, <1>5, <3>1, <3>3
    <3>6. /\ \A y, v, p : Cmd!Told(y, v, p) => Cmd!Told(y, v, p)'
          /\ \A y, v, p : Cmd!Told(y, v, p)' =>
               \/ Cmd!Told(y, v, p)
               \/ v = "thing" /\ ("skipped" \in p \/ "failed" \in p)
               \/ v = w /\ y = x /\ "failed" \in p
          /\ Cmd!Told(x, w, {"failed"})'
      BY <3>1, <3>3
    <3>7. QED
      BY <1>11, <3>3, <3>4, <3>5, <3>6
  <2>2. CASE code \notin Cmd!SESSION_FAILURES
    <3> DEFINE s == <<x>>
    <3>1. /\ s \in Seq(Thing) /\ Cmd!Distinct(s) /\ Cmd!ToSet(s) = {x}
          /\ \A y \in Cmd!ToSet(s) : ~Cmd!Told(y, w, Cmd!Outcomes)
      BY <1>2, <1>5, <1>6
    <3>2. r11' = r11 \o Cmd!Rows(s, w, "failed") \o <<>>
      BY <1>1, <2>2
    <3>3. s \in Seq(Thing \cup {"pattern"}) /\ w \in Cmd!Whats
      BY <1>2, <1>6 DEF Cmd!Whats
    <3> HIDE DEF s
    <3>4. Cmd!Rows(s, w, "failed") \in Seq(Cmd!Sorts) /\ r11 \in Seq(Cmd!Sorts)
      BY <1>5, <3>3, CmdRowsAre DEF Cmd!IInv, Cmd!RecordsInv
    <3>5. r11 \o Cmd!Rows(s, w, "failed") \in Seq(Cmd!Sorts)
      BY <3>4
    <3>6. \A r \in Seq(Cmd!Sorts) : r \o <<>> = r
      OBVIOUS
    <3>7. r11' = r11 \o Cmd!Rows(s, w, "failed")
      BY <3>2, <3>5, <3>6
    <3>75. w \in {"thing", "termination"} /\ "failed" \in Cmd!Outcomes
      BY <1>5, <1>6
    <3>8. /\ r11' \in Seq(Cmd!Sorts) /\ CmdOnceEach(r11')
          /\ \A y, v, p : Cmd!Told(y, v, p)' <=>
               Cmd!Told(y, v, p) \/ (y \in Cmd!ToSet(s) /\ v = w /\ "failed" \in p)
      BY <3>1, <3>7, <3>75, CmdTellsOf
    <3>9. Cmd!Todo' = Cmd!ToSet(r9')
      BY <1>1, <2>2, CmdTodoThen
    <3> DEFINE Y == IF w = "thing" THEN {x} ELSE {}
    <3>10. Cmd!Todo' = Cmd!Todo \ Y /\ Y \in SUBSET Cmd!Todo
      BY <1>1, <1>2, <3>9
    <3>11. \A y : Cmd!Told(y, "thing", Cmd!Outcomes)' <=>
              Cmd!Told(y, "thing", Cmd!Outcomes) \/ y \in Y
      BY <1>5, <3>1, <3>8
    <3>12. /\ \A y, v, p : Cmd!Told(y, v, p) => Cmd!Told(y, v, p)'
           /\ \A y, v, p : Cmd!Told(y, v, p)' =>
                \/ Cmd!Told(y, v, p)
                \/ v = "thing" /\ ("skipped" \in p \/ "failed" \in p)
                \/ v = w /\ y = x /\ "failed" \in p
           /\ Cmd!Told(x, w, {"failed"})'
      BY <3>1, <3>8
    <3> HIDE DEF Y
    <3>13. QED
      BY <1>11, <3>8, <3>10, <3>11, <3>12
  <2>3. QED
    BY <2>1, <2>2
<1>12. Cmd!RecordsInv'
  <2>1. ASSUME NEW y \in Thing, Cmd!Told(y, "termination", Cmd!Outcomes)'
        PROVE  Cmd!Told(y, "thing", Cmd!Outcomes)'
    <3>1. CASE Cmd!Told(y, "termination", Cmd!Outcomes)
      BY <1>11, <3>1 DEF Cmd!IInv, Cmd!RecordsInv
    <3>2. CASE y = x /\ w = "termination"
      BY <1>3, <1>11, <3>2
    <3>3. QED
      BY <1>11, <2>1, <3>1, <3>2
  <2>2. r6' \notin {"expand", "terminate"} /\ r6 \notin {"expand", "exit"}
    BY <1>1
  <2>3. QED
    BY <1>11, <2>1, <2>2, CmdRecordsGoOn
<1>13. Cmd!DoneInv'
  <2>1. \A y \in Thing :
          /\ Cmd!Told(y, "thing", {"done", "aborted"})' <=>
                Cmd!Told(y, "thing", {"done", "aborted"})
          /\ Cmd!Told(y, "thing", {"aborted"})' <=> Cmd!Told(y, "thing", {"aborted"})
          /\ Cmd!Told(y, "termination", {"done"})' <=> Cmd!Told(y, "termination", {"done"})
          /\ Cmd!Told(y, "thing", {"done", "aborted", "failed"}) =>
                Cmd!Told(y, "thing", {"done", "aborted", "failed"})'
          /\ Cmd!Told(y, "termination", {"done", "failed"}) =>
                Cmd!Told(y, "termination", {"done", "failed"})'
    BY <1>11
  <2>2. r6' \notin {"expand", "resolve", "confirm", "terminate"}
    BY <1>1
  <2>3. /\ w = "thing" => Cmd!Told(x, "thing", {"done", "aborted", "failed"})'
        /\ w = "termination" => Cmd!Told(x, "termination", {"done", "failed"})'
    BY <1>11 DEF Cmd!Told
  <2>4. /\ r18 \subseteq Thing \X {"acted", "terminated"}
        /\ \A y \in Thing :
             /\ <<y, "acted">> \in r18 => Cmd!Told(y, "thing", {"done", "aborted", "failed"})
             /\ <<y, "terminated">> \in r18 => Cmd!Told(y, "termination", {"done", "failed"})
    BY DEF Cmd!IInv, Cmd!DoneInv
  <2>5. r18' \subseteq Thing \X {"acted", "terminated"} /\ r18 \subseteq r18'
    BY <1>2, <1>4, <2>4
  <2>6. \A y \in Thing :
          /\ <<y, "acted">> \in r18' => <<y, "acted">> \in r18 \/ (w = "thing" /\ y = x)
          /\ <<y, "terminated">> \in r18' =>
               <<y, "terminated">> \in r18 \/ (w = "termination" /\ y = x)
    BY <1>4
  <2>7. \A y \in Thing :
          /\ <<y, "acted">> \in r18' => Cmd!Told(y, "thing", {"done", "aborted", "failed"})'
          /\ <<y, "terminated">> \in r18' => Cmd!Told(y, "termination", {"done", "failed"})'
    BY <2>1, <2>3, <2>4, <2>6
  <2>8. QED
    BY <2>1, <2>2, <2>5, <2>7, CmdDoneGrows DEF Cmd!line
<1>14. Cmd!TerminatedInv'
  <2>1. /\ r17 \in [Thing -> {"none", "RUNNING", "TERMINATED"}]
        /\ \A y \in Thing : r17[y] # "none" => TypeOf[y] = "pool"
    BY DEF Cmd!IInv, Cmd!TerminatedInv
  <2>2. /\ r17' \in [Thing -> {"none", "RUNNING", "TERMINATED"}]
        /\ \A y \in Thing : r17'[y] # "none" => TypeOf[y] = "pool"
        /\ \A y \in Thing : y # x => r17'[y] = r17[y]
        /\ r6 # "terminate" => r17' = r17
    BY <1>2, <1>4, <2>1
  <2>3. Cmd!ToSet(r13') = Cmd!ToSet(r13) /\ Cmd!ToSet(r13) \subseteq Thing /\ r4' = r4
    BY <1>2 DEF Cmd!ToSet, Cmd!line
  <2>4. ASSUME NEW y \in Cmd!ToSet(r13), r4, TypeOf[y] = "pool"
        PROVE  \/ r17'[y] = "none"
               \/ r17'[y] = "TERMINATED" /\ Cmd!Told(y, "termination", {"done"})'
               \/ Cmd!Told(y, "termination", {"failed"})'
    <3>1. CASE r6 = "terminate" /\ y = x
      BY <1>11, <3>1
    <3>2. CASE ~(r6 = "terminate" /\ y = x)
      <4>1. \/ r17[y] = "none"
            \/ r17[y] = "TERMINATED" /\ Cmd!Told(y, "termination", {"done"})
            \/ Cmd!Told(y, "termination", {"failed"})
        BY <1>0, <2>4, <3>2 DEF Cmd!IInv, Cmd!TerminatedInv
      <4>2. r17'[y] = r17[y]
        BY <2>2, <2>3, <3>2
      <4>3. QED
        BY <1>11, <4>1, <4>2
    <3>3. QED
      BY <3>1, <3>2
  <2>5. QED
    BY <2>2, <2>3, <2>4 DEF Cmd!TerminatedInv
<1>15. QED
  BY <1>7, <1>9, <1>10, <1>12, <1>13, <1>14 DEF Cmd!IInv

LEMMA CmdActFailsHolds ==
  ASSUME Cmd!Parameters, Cmd!IInv, NEW code \in CommandCodes, Cmd!ActFails(code)
  PROVE  Cmd!IInv'
<1>1. /\ r6 = "act" /\ r9 # <<>> /\ Cmd!Stopped("thing", Cmd!This, code)
      /\ Cmd!CarriedOut \/ UNCHANGED <<r16, r18>>
      /\ r17' = r17
      /\ UNCHANGED <<Cmd!line, r7, r8, r10, r13, r14>>
  BY DEF Cmd!ActFails, Cmd!Acting
<1>2. CmdPerhaps("thing")
  BY <1>1 DEF CmdPerhaps
<1>3. QED
  BY <1>1, <1>2, CmdStoppedHolds

LEMMA CmdTerminateFailsHolds ==
  ASSUME Cmd!Parameters, Cmd!IInv, NEW code \in CommandCodes, Cmd!TerminateFails(code)
  PROVE  Cmd!IInv'
<1>1. /\ r6 = "terminate" /\ Cmd!Stopped("termination", Cmd!This, code)
      /\ Cmd!Terminated \/ UNCHANGED <<r17, r18>>
      /\ r16' = r16
      /\ UNCHANGED <<Cmd!line, r7, r8, r10, r13, r14>>
  BY DEF Cmd!TerminateFails, Cmd!Terminating
<1>2. r9 # <<>> /\ CmdPerhaps("termination")
  BY <1>1 DEF Cmd!IInv, Cmd!ItemsInv, CmdPerhaps
<1>3. QED
  BY <1>1, <1>2, CmdStoppedHolds

LEMMA CmdTerminatingIs ==
  ASSUME Cmd!IInv, r6 = "terminate"
  PROVE  /\ r9 # <<>> /\ Cmd!This \in Thing /\ Cmd!This \in Cmd!ToSet(r13)
         /\ Cmd!Told(Cmd!This, "thing", Cmd!Outcomes)
         /\ ~Cmd!Told(Cmd!This, "termination", Cmd!Outcomes)
         /\ Tail(r9) \in Seq(Thing) /\ Cmd!Distinct(Tail(r9))
         /\ Cmd!ToSet(Tail(r9)) \subseteq Cmd!ToSet(r9) /\ Cmd!Todo = Cmd!ToSet(Tail(r9))
         /\ r7 = <<>> /\ r8 \in Seq(Thing) /\ r13 \in Seq(Thing) /\ r15 = Cmd!Unset
<1>1. r9 # <<>>
  BY DEF Cmd!IInv, Cmd!ItemsInv
<1>2. /\ Cmd!This \in Thing /\ ~Cmd!Told(Cmd!This, "termination", Cmd!Outcomes)
      /\ Tail(r9) \in Seq(Thing) /\ Cmd!Distinct(Tail(r9))
      /\ Cmd!ToSet(Tail(r9)) \subseteq Cmd!ToSet(r9) /\ Cmd!Todo = Cmd!ToSet(Tail(r9))
      /\ r7 = <<>> /\ r8 \in Seq(Thing) /\ r13 \in Seq(Thing) /\ r15 = Cmd!Unset
  BY <1>1, CmdActingIs
<1>3. Cmd!This \in Cmd!ToSet(r13) /\ Cmd!Told(Cmd!This, "thing", {"done", "aborted"})
  BY <1>2 DEF Cmd!IInv, Cmd!DoneInv
<1>4. Cmd!Told(Cmd!This, "thing", Cmd!Outcomes)
  BY <1>3 DEF Cmd!Told, Cmd!Outcomes
<1>5. QED
  BY <1>1, <1>2, <1>3, <1>4

LEMMA CmdTerminateNoneHolds ==
  ASSUME Cmd!Parameters, Cmd!IInv, Cmd!TerminateNone
  PROVE  Cmd!IInv'
<1>1. /\ r6 = "terminate" /\ r6' = "act" /\ r15' = r15 /\ r17[Cmd!This] = "none"
      /\ r9' = Tail(r9) /\ r11' = r11 /\ r12' = r12
      /\ UNCHANGED <<Cmd!line, r7, r8, r10, r13, r14, Cmd!platform>>
  BY DEF Cmd!TerminateNone, Cmd!Terminating, Cmd!Goes, Cmd!told
<1>2. /\ r9 # <<>> /\ Tail(r9) \in Seq(Thing) /\ Cmd!Distinct(Tail(r9))
      /\ Cmd!ToSet(Tail(r9)) \subseteq Cmd!ToSet(r9) /\ Cmd!Todo = Cmd!ToSet(Tail(r9))
      /\ r7 = <<>> /\ r8 \in Seq(Thing) /\ r13 \in Seq(Thing)
  BY <1>1, CmdTerminatingIs
<1>3. \A y, v, p : Cmd!Told(y, v, p)' <=> Cmd!Told(y, v, p)
  BY <1>1, CmdStays
<1>4. Cmd!ItemsInv'
  BY <1>1, <1>2 DEF Cmd!IInv, Cmd!ItemsInv, Cmd!Distinct
<1>5. Cmd!RecordsInv'
  <2>1. Cmd!Todo' = Cmd!Todo
    BY <1>1, <1>2, CmdTodoThen
  <2>2. QED
    BY <1>1, <2>1, CmdRecordsStay
<1>6. Cmd!DoneInv'
  BY <1>1, <1>3, CmdDoneGoesOn DEF Cmd!line, Cmd!platform
<1>7. Cmd!AbortInv'
  BY <1>1, <1>2, CmdAbortGoesOn DEF Cmd!line, Cmd!platform
<1>8. Cmd!TerminatedInv'
  <2>1. UNCHANGED <<r4, r13, r17>>
    BY <1>1 DEF Cmd!line, Cmd!platform
  <2>2. ASSUME NEW y \in Cmd!ToSet(r13), r4, TypeOf[y] = "pool"
        PROVE  \/ r17[y] = "none"
               \/ r17[y] = "TERMINATED" /\ Cmd!Told(y, "termination", {"done"})'
               \/ Cmd!Told(y, "termination", {"failed"})'
    BY <1>1, <1>3, <2>2 DEF Cmd!IInv, Cmd!TerminatedInv
  <2>3. QED
    BY <2>1, <2>2 DEF Cmd!IInv, Cmd!TerminatedInv
<1>9. Cmd!EndsInv'
  <2>1. r12' \in Seq(CommandCodes)
    BY <1>1 DEF Cmd!IInv, Cmd!EndsInv
  <2>2. QED
    BY <1>1, <2>1, CmdEndsGoOn DEF Cmd!Parameters
<1>10. QED
  BY <1>4, <1>5, <1>6, <1>7, <1>8, <1>9 DEF Cmd!IInv

LEMMA CmdTerminateHolds ==
  ASSUME Cmd!Parameters, Cmd!IInv, Cmd!Terminate
  PROVE  Cmd!IInv'
<1>0. PICK x : x = Cmd!This
  OBVIOUS
<1>1. /\ r6 = "terminate" /\ r6' = "act" /\ r15' = r15 /\ r17[x] # "none"
      /\ r17' = [r17 EXCEPT ![x] = "TERMINATED"] /\ r18' = r18 \cup {<<x, "terminated">>}
      /\ r11' = r11 \o Cmd!Rows(<<x>>, "termination", "done")
      /\ r9' = Tail(r9)
      /\ UNCHANGED <<Cmd!line, r7, r8, r10, r13, r14, r12, r16>>
  BY <1>0 DEF Cmd!Terminate, Cmd!Terminating, Cmd!Terminated, Cmd!Goes, Cmd!Tells
<1>2. /\ x \in Thing /\ x \in Cmd!ToSet(r13) /\ Cmd!Told(x, "thing", Cmd!Outcomes)
      /\ ~Cmd!Told(x, "termination", Cmd!Outcomes)
      /\ r9 # <<>> /\ Tail(r9) \in Seq(Thing) /\ Cmd!Distinct(Tail(r9))
      /\ Cmd!ToSet(Tail(r9)) \subseteq Cmd!ToSet(r9) /\ Cmd!Todo = Cmd!ToSet(Tail(r9))
      /\ r7 = <<>> /\ r8 \in Seq(Thing) /\ r13 \in Seq(Thing)
  BY <1>0, <1>1, CmdTerminatingIs
<1>3. /\ r11' \in Seq(Cmd!Sorts) /\ CmdOnceEach(r11')
      /\ \A y, v, p : Cmd!Told(y, v, p)' <=>
            Cmd!Told(y, v, p) \/ (y = x /\ v = "termination" /\ "done" \in p)
  <2> DEFINE s == <<x>>
  <2>1. /\ s \in Seq(Thing) /\ Cmd!Distinct(s) /\ Cmd!ToSet(s) = {x} /\ "done" \in Cmd!Outcomes
        /\ \A y \in Cmd!ToSet(s) : ~Cmd!Told(y, "termination", Cmd!Outcomes)
    BY <1>2, CmdAlone DEF Cmd!Outcomes
  <2>2. r11' = r11 \o Cmd!Rows(s, "termination", "done")
    BY <1>1
  <2> HIDE DEF s
  <2>3. /\ r11' \in Seq(Cmd!Sorts) /\ CmdOnceEach(r11')
        /\ \A y, v, p : Cmd!Told(y, v, p)' <=>
             Cmd!Told(y, v, p) \/ (y \in Cmd!ToSet(s) /\ v = "termination" /\ "done" \in p)
    BY <2>1, <2>2, CmdTellsOf
  <2>4. QED
    BY <2>1, <2>3
<1>4. Cmd!ItemsInv'
  BY <1>1, <1>2 DEF Cmd!IInv, Cmd!ItemsInv, Cmd!Distinct
<1>5. Cmd!RecordsInv'
  <2>1. /\ {} \in SUBSET Cmd!Todo /\ Cmd!Todo' = Cmd!Todo \ {}
        /\ \A y : Cmd!Told(y, "thing", Cmd!Outcomes)' <=>
              Cmd!Told(y, "thing", Cmd!Outcomes) \/ y \in {}
    BY <1>1, <1>2, <1>3, CmdTodoThen
  <2>2. \A y \in Thing : Cmd!Told(y, "termination", Cmd!Outcomes)' =>
           Cmd!Told(y, "thing", Cmd!Outcomes)'
    BY <1>2, <1>3 DEF Cmd!IInv, Cmd!RecordsInv
  <2>3. QED
    BY <1>1, <1>3, <2>1, <2>2, CmdRecordsGoOn
<1>6. Cmd!DoneInv'
  <2>1. /\ r18 \subseteq Thing \X {"acted", "terminated"}
        /\ \A y \in Thing :
             /\ y \in Cmd!ToSet(r13) <=> Cmd!Told(y, "thing", {"done", "aborted"})
             /\ y \in Cmd!ToSet(r13) => <<y, "acted">> \in r18
             /\ <<y, "acted">> \in r18 => Cmd!Told(y, "thing", {"done", "aborted", "failed"})
             /\ Cmd!Told(y, "termination", {"done"}) => <<y, "terminated">> \in r18
             /\ <<y, "terminated">> \in r18 => Cmd!Told(y, "termination", {"done", "failed"})
             /\ Cmd!Told(y, "thing", {"aborted"}) => r3 /\ r10[y] = "CANCELLING"
    BY DEF Cmd!IInv, Cmd!DoneInv
  <2>2. r18' \subseteq Thing \X {"acted", "terminated"}
    BY <1>1, <1>2, <2>1
  <2>3. ASSUME NEW y \in Thing
        PROVE  /\ y \in Cmd!ToSet(r13') <=> Cmd!Told(y, "thing", {"done", "aborted"})'
               /\ y \in Cmd!ToSet(r13') => <<y, "acted">> \in r18'
               /\ <<y, "acted">> \in r18' =>
                    Cmd!Told(y, "thing", {"done", "aborted", "failed"})'
               /\ Cmd!Told(y, "termination", {"done"})' => <<y, "terminated">> \in r18'
               /\ <<y, "terminated">> \in r18' =>
                    Cmd!Told(y, "termination", {"done", "failed"})'
               /\ Cmd!Told(y, "thing", {"aborted"})' => r3' /\ r10'[y] = "CANCELLING"
    <3>1. /\ <<y, "acted">> \in r18' <=> <<y, "acted">> \in r18
          /\ <<y, "terminated">> \in r18' <=> <<y, "terminated">> \in r18 \/ y = x
      BY <1>1
    <3>2. /\ Cmd!Told(y, "thing", {"done", "aborted"})' <=>
                Cmd!Told(y, "thing", {"done", "aborted"})
          /\ Cmd!Told(y, "thing", {"done", "aborted", "failed"})' <=>
                Cmd!Told(y, "thing", {"done", "aborted", "failed"})
          /\ Cmd!Told(y, "termination", {"done"})' <=>
                Cmd!Told(y, "termination", {"done"}) \/ y = x
          /\ Cmd!Told(y, "termination", {"done", "failed"})' <=>
                Cmd!Told(y, "termination", {"done", "failed"}) \/ y = x
          /\ Cmd!Told(y, "thing", {"aborted"})' <=> Cmd!Told(y, "thing", {"aborted"})
      BY <1>3
    <3>3. Cmd!ToSet(r13') = Cmd!ToSet(r13)
      BY <1>1
    <3>4. QED
      BY <1>1, <2>1, <3>1, <3>2, <3>3 DEF Cmd!line
  <2>4. r6' \notin {"expand", "resolve", "confirm", "terminate"}
    BY <1>1
  <2>5. QED
    BY <2>2, <2>3, <2>4 DEF Cmd!DoneInv
<1>7. Cmd!AbortInv'
  BY <1>1, <1>2, CmdAbortGoesOn DEF Cmd!line
<1>8. Cmd!TerminatedInv'
  <2>1. /\ r17 \in [Thing -> {"none", "RUNNING", "TERMINATED"}]
        /\ \A y \in Thing : r17[y] # "none" => TypeOf[y] = "pool"
    BY DEF Cmd!IInv, Cmd!TerminatedInv
  <2>2. /\ r17' \in [Thing -> {"none", "RUNNING", "TERMINATED"}]
        /\ \A y \in Thing : r17'[y] # "none" => TypeOf[y] = "pool"
    BY <1>1, <1>2, <2>1
  <2>3. Cmd!ToSet(r13') = Cmd!ToSet(r13) /\ Cmd!ToSet(r13) \subseteq Thing /\ r4' = r4
    BY <1>1, <1>2 DEF Cmd!ToSet, Cmd!line
  <2>4. ASSUME NEW y \in Cmd!ToSet(r13), r4, TypeOf[y] = "pool"
        PROVE  \/ r17'[y] = "none"
               \/ r17'[y] = "TERMINATED" /\ Cmd!Told(y, "termination", {"done"})'
               \/ Cmd!Told(y, "termination", {"failed"})'
    <3>1. CASE y = x
      BY <1>1, <1>2, <1>3, <2>1, <3>1
    <3>2. CASE y # x
      <4>1. \/ r17[y] = "none"
            \/ r17[y] = "TERMINATED" /\ Cmd!Told(y, "termination", {"done"})
            \/ Cmd!Told(y, "termination", {"failed"})
        BY <1>0, <2>4, <3>2 DEF Cmd!IInv, Cmd!TerminatedInv
      <4>2. QED
        BY <1>1, <1>3, <2>1, <2>3, <3>2, <4>1
    <3>3. QED
      BY <3>1, <3>2
  <2>5. QED
    BY <2>2, <2>3, <2>4 DEF Cmd!TerminatedInv
<1>9. Cmd!EndsInv'
  <2>1. r12' \in Seq(CommandCodes)
    BY <1>1 DEF Cmd!IInv, Cmd!EndsInv
  <2>2. QED
    BY <1>1, <2>1, CmdEndsGoOn DEF Cmd!Parameters
<1>10. QED
  BY <1>4, <1>5, <1>6, <1>7, <1>8, <1>9 DEF Cmd!IInv

LEMMA CmdActedHolds ==
  ASSUME Cmd!Parameters, Cmd!IInv, Cmd!Acted
  PROVE  Cmd!IInv'
<1>1. /\ r6 = "act" /\ r9 = <<>> /\ r6' = "return" /\ r15' = r15
      /\ r14' = IF r5 THEN {x \in Cmd!ToSet(r13) : TypeOf[x] \in Cmd!FirstTypes} ELSE {}
      /\ r11' = r11 /\ r12' = r12
      /\ UNCHANGED <<Cmd!line, r7, r8, r9, r10, r13, Cmd!platform>>
  BY DEF Cmd!Acted, Cmd!Goes, Cmd!told
<1>2. r7 = <<>> /\ Cmd!Todo = {} /\ Cmd!Todo' = {}
  BY <1>1, CmdTodoIs, CmdTodoThen, CmdNothing DEF Cmd!IInv, Cmd!ItemsInv
<1>3. \A y, v, p : Cmd!Told(y, v, p)' <=> Cmd!Told(y, v, p)
  BY <1>1, CmdStays
<1>4. Cmd!ItemsInv'
  BY <1>1, <1>2 DEF Cmd!IInv, Cmd!ItemsInv, Cmd!Distinct
<1>5. Cmd!RecordsInv'
  BY <1>1, <1>2, CmdRecordsStay
<1>6. Cmd!DoneInv'
  BY <1>1, <1>3, CmdDoneGoesOn DEF Cmd!line, Cmd!platform
<1>7. Cmd!AbortInv'
  BY <1>1, CmdAbortGoesOn DEF Cmd!line, Cmd!platform
<1>8. Cmd!TerminatedInv'
  BY <1>1, <1>3, CmdTerminatedGoesOn DEF Cmd!line, Cmd!platform
<1>9. Cmd!EndsInv'
  <2>1. r12' \in Seq(CommandCodes) /\ r15 = Cmd!Unset
    BY <1>1 DEF Cmd!IInv, Cmd!EndsInv
  <2>2. Cmd!ToSet(r13') = Cmd!ToSet(r13) /\ r5' = r5 /\ r13' = r13
    BY <1>1 DEF Cmd!line
  <2>3. r15' # Cmd!SUCCESS /\ r15' = Cmd!Unset
    BY <1>1, <2>1 DEF Cmd!Unset, Cmd!SUCCESS
  <2>4. r5' /\ r13' # <<>> => r14' = {x \in Cmd!ToSet(r13') : TypeOf[x] \in Cmd!FirstTypes}
    BY <1>1, <2>2
  <2>5. QED
    BY <1>1, <2>1, <2>3, <2>4 DEF Cmd!EndsInv
<1>10. QED
  BY <1>4, <1>5, <1>6, <1>7, <1>8, <1>9 DEF Cmd!IInv

LEMMA CmdReturnHolds ==
  ASSUME Cmd!Parameters, Cmd!IInv, NEW code \in CommandCodes \cup {Cmd!SUCCESS}, Cmd!Return(code)
  PROVE  Cmd!IInv'
<1> DEFINE failed == {k \in DOMAIN r11 : r11[k].outcome = "failed"}
<1>1. /\ r6 = "return" /\ r6' = "exit"
      /\ r15' = IF failed = {} THEN (IF r14 = {} THEN Cmd!SUCCESS ELSE code)
                ELSE IF /\ Cmd!Cardinality(failed) = Len(r12)
                        /\ \A k \in DOMAIN r12 : r12[k] = r12[1]
                THEN r12[1] ELSE Cmd!FAILURE
      /\ UNCHANGED <<Cmd!line, Cmd!run, Cmd!told, Cmd!platform>>
  BY DEF Cmd!Return, Cmd!Ends
<1>2. r7 = <<>> /\ Cmd!Todo = {} /\ Cmd!Todo' = {}
  BY <1>1, CmdTodoIs, CmdTodoThen DEF Cmd!IInv, Cmd!ItemsInv
<1>3. \A y, v, p : Cmd!Told(y, v, p)' <=> Cmd!Told(y, v, p)
  BY <1>1, CmdStays DEF Cmd!told
<1>4. Cmd!ItemsInv'
  BY <1>1, <1>2 DEF Cmd!IInv, Cmd!ItemsInv, Cmd!Distinct, Cmd!run
<1>5. Cmd!RecordsInv'
  BY <1>1, <1>2, CmdRecordsStay DEF Cmd!told, Cmd!run
<1>6. Cmd!DoneInv'
  BY <1>1, <1>3, CmdDoneGoesOn DEF Cmd!line, Cmd!run, Cmd!platform
<1>7. Cmd!AbortInv'
  BY <1>1, CmdAbortGoesOn DEF Cmd!line, Cmd!run, Cmd!platform
<1>8. Cmd!TerminatedInv'
  BY <1>1, <1>3, CmdTerminatedGoesOn DEF Cmd!line, Cmd!run, Cmd!platform
<1>9. Cmd!EndsInv'
  <2>1. r12 \in Seq(CommandCodes) /\ r11 \in Seq(Cmd!Sorts)
    BY DEF Cmd!IInv, Cmd!EndsInv, Cmd!RecordsInv
  <2>2. r15' \in CommandCodes \cup {0, 1} /\ (failed # {} => r15' # 0)
    <3>1. CASE failed = {}
      BY <1>1, <3>1 DEF Cmd!SUCCESS
    <3>2. CASE failed # {}
      <4>1. IsFiniteSet(failed)
        <5>1. IsFiniteSet(1 .. Len(r11)) /\ failed \in SUBSET (1 .. Len(r11))
          BY <2>1, FS_Interval
        <5>2. QED
          BY <5>1, FS_Subset
      <4>2. Cmd!Cardinality(failed) # 0
        BY <3>2, <4>1, FS_EmptySet, CmdCardinalityIs
      <4> HIDE DEF failed
      <4>3. CASE Cmd!Cardinality(failed) = Len(r12) /\ \A k \in DOMAIN r12 : r12[k] = r12[1]
        <5>1. Len(r12) \in Nat /\ Len(r12) # 0
          BY <2>1, <4>2, <4>3
        <5>2. r12[1] \in CommandCodes
          BY <2>1, <5>1
        <5>3. QED
          BY <1>1, <3>2, <4>3, <5>2 DEF Cmd!Parameters
      <4>4. CASE ~(Cmd!Cardinality(failed) = Len(r12) /\ \A k \in DOMAIN r12 : r12[k] = r12[1])
        BY <1>1, <3>2, <4>4 DEF Cmd!FAILURE
      <4>5. QED
        BY <4>3, <4>4
    <3>3. QED
      BY <3>1, <3>2
  <2>3. r15' # Cmd!Unset /\ r6' = "exit"
    BY <1>1, <2>2 DEF Cmd!Parameters, Cmd!Unset
  <2>4. r15' = Cmd!SUCCESS => \A k \in DOMAIN r11' : r11'[k].outcome # "failed"
    BY <1>1, <2>2 DEF Cmd!told, Cmd!SUCCESS
  <2>5. r5 /\ r13 # <<>> => r14 = {x \in Cmd!ToSet(r13) : TypeOf[x] \in Cmd!FirstTypes}
    BY <1>1 DEF Cmd!IInv, Cmd!EndsInv
  <2>6. /\ Cmd!ToSet(r13') = Cmd!ToSet(r13) /\ r13' = r13 /\ r5' = r5
        /\ r14' = r14 /\ r12' = r12
    BY <1>1 DEF Cmd!line, Cmd!run, Cmd!told
  <2>7. QED
    BY <2>1, <2>3, <2>4, <2>5, <2>6 DEF Cmd!EndsInv
<1>10. QED
  BY <1>4, <1>5, <1>6, <1>7, <1>8, <1>9 DEF Cmd!IInv

\* What does not change the run.
LEMMA CmdStandsStill ==
  ASSUME Cmd!IInv, UNCHANGED <<Cmd!line, r6, Cmd!run, Cmd!told, r15, r17, r18>>
  PROVE  Cmd!ItemsInv' /\ Cmd!RecordsInv' /\ Cmd!DoneInv' /\ Cmd!TerminatedInv' /\ Cmd!EndsInv'
<1>1. /\ UNCHANGED <<r6, r7, r8, r9, r10, r13, r14, r11, r12, r15, r17, r18>>
      /\ UNCHANGED <<r1, r2, r3, r4, r5>>
  BY DEF Cmd!line, Cmd!run, Cmd!told
<1>2. Cmd!ItemsInv'
  BY <1>1 DEF Cmd!IInv, Cmd!ItemsInv, Cmd!Distinct, Cmd!Listing, Cmd!ToSet
<1>3. Cmd!RecordsInv'
  BY <1>1 DEF Cmd!IInv, Cmd!RecordsInv, Cmd!Todo, Cmd!Told, Cmd!This, Cmd!ToSet
<1>4. Cmd!DoneInv'
  BY <1>1 DEF Cmd!IInv, Cmd!DoneInv, Cmd!Told, Cmd!This, Cmd!ToSet
<1>5. Cmd!TerminatedInv'
  BY <1>1 DEF Cmd!IInv, Cmd!TerminatedInv, Cmd!Told, Cmd!This, Cmd!ToSet
<1>6. Cmd!EndsInv'
  BY <1>1 DEF Cmd!IInv, Cmd!EndsInv, Cmd!ToSet
<1>7. QED
  BY <1>2, <1>3, <1>4, <1>5, <1>6

LEMMA CmdMovesHolds ==
  ASSUME Cmd!IInv, NEW x \in Thing, Cmd!Moves(x)
  PROVE  Cmd!IInv'
<1>1. /\ r16' = [r16 EXCEPT ![x] =
           IF r16[x] = "HELD" THEN "RUNNING"
           ELSE IF r16[x] = "RUNNING" /\ TypeOf[x] = "wr" THEN "CANCELLING" ELSE Cmd!Over]
      /\ UNCHANGED <<Cmd!line, r6, Cmd!run, Cmd!told, r15, r17, r18>>
  BY DEF Cmd!Moves
<1>2. Cmd!ItemsInv' /\ Cmd!RecordsInv' /\ Cmd!DoneInv' /\ Cmd!TerminatedInv' /\ Cmd!EndsInv'
  BY <1>1, CmdStandsStill
<1>3. Cmd!AbortInv'
  <2>1. /\ r1 \in {"cancel", "shutdown", "start", "hold", "finish"}
        /\ r10 \in [Thing -> {"none", "RUNNING", "HELD", "FINISHING", "CANCELLING", Cmd!Over}]
        /\ r16 \in [Thing -> {"RUNNING", "HELD", "FINISHING", "CANCELLING", Cmd!Over}]
        /\ \A y \in Thing : r16[y] = "CANCELLING" => TypeOf[y] = "wr"
        /\ \A y \in Cmd!ToSet(r9) \cup Cmd!ToSet(r13) :
             r1 = "cancel" /\ r10[y] = "CANCELLING" => r3
    BY DEF Cmd!IInv, Cmd!AbortInv
  <2>2. /\ r16' \in [Thing -> {"RUNNING", "HELD", "FINISHING", "CANCELLING", Cmd!Over}]
        /\ \A y \in Thing : r16'[y] = "CANCELLING" => TypeOf[y] = "wr"
    BY <1>1, <2>1 DEF Cmd!Over
  <2>3. /\ Cmd!ToSet(r9') = Cmd!ToSet(r9) /\ Cmd!ToSet(r13') = Cmd!ToSet(r13)
        /\ r1' = r1 /\ r10' = r10 /\ r3' = r3
    BY <1>1 DEF Cmd!run, Cmd!line
  <2>4. QED
    BY <2>1, <2>2, <2>3 DEF Cmd!AbortInv
<1>4. QED
  BY <1>2, <1>3 DEF Cmd!IInv

LEMMA CmdStepHolds ==
  ASSUME Cmd!Parameters, Cmd!IInv, [Cmd!Next]_(Cmd!vars)
  PROVE  Cmd!IInv'
<1>1. CASE UNCHANGED Cmd!vars
  <2>1. /\ UNCHANGED <<Cmd!line, r6, Cmd!run, Cmd!told, r15, r17, r18>>
        /\ UNCHANGED <<r1, r3, r10, r13, r9, r16>>
    BY <1>1 DEF Cmd!vars, Cmd!platform, Cmd!line, Cmd!run
  <2>2. Cmd!ItemsInv' /\ Cmd!RecordsInv' /\ Cmd!DoneInv' /\ Cmd!TerminatedInv' /\ Cmd!EndsInv'
    BY <2>1, CmdStandsStill
  <2>3. Cmd!AbortInv'
    BY <2>1, CmdAbortGoesOn
  <2>4. QED
    BY <2>2, <2>3 DEF Cmd!IInv
<1>2. CASE \/ Cmd!List \/ Cmd!Expand \/ Cmd!Expanded \/ Cmd!Resolve \/ Cmd!ResolveSkips
           \/ Cmd!Resolved \/ Cmd!Confirm
  BY <1>2, CmdListHolds, CmdExpandHolds, CmdExpandedHolds, CmdResolveHolds, CmdResolveSkipsHolds,
     CmdResolvedHolds, CmdConfirmHolds
<1>3. CASE Cmd!Act \/ Cmd!TerminateNone \/ Cmd!Terminate \/ Cmd!Acted
  BY <1>3, CmdActHolds, CmdTerminateNoneHolds, CmdTerminateHolds, CmdActedHolds
<1>4. ASSUME NEW code \in CommandCodes,
             \/ Cmd!ExpandFails(code) \/ Cmd!SearchFails(code) \/ Cmd!ResolveFails(code)
             \/ Cmd!ActFails(code) \/ Cmd!TerminateFails(code)
      PROVE  Cmd!IInv'
  BY <1>4, CmdExpandFailsHolds, CmdSearchFailsHolds, CmdResolveFailsHolds, CmdActFailsHolds,
     CmdTerminateFailsHolds
<1>5. ASSUME NEW code \in CommandCodes \cup {Cmd!SUCCESS}, Cmd!Return(code)
      PROVE  Cmd!IInv'
  BY <1>5, CmdReturnHolds
<1>6. ASSUME NEW x \in Thing, Cmd!Moves(x)
      PROVE  Cmd!IInv'
  BY <1>6, CmdMovesHolds
<1>7. QED
  BY <1>1, <1>2, <1>3, <1>4, <1>5, <1>6 DEF Cmd!Next

LEMMA CmdInitHolds ==
  ASSUME Cmd!Parameters, Cmd!Init
  PROVE  Cmd!IInv
<1>1. /\ r6 = "expand" /\ r7 = r2 /\ r8 = <<>> /\ r9 = <<>> /\ r13 = <<>>
      /\ r10 = [x \in Thing |-> "none"] /\ r11 = <<>> /\ r12 = <<>>
      /\ r14 = {} /\ r15 = Cmd!Unset /\ r18 = {}
      /\ r16 \in [Thing -> {"RUNNING", "HELD", "CANCELLING", Cmd!Over}]
      /\ \A x \in Thing : r16[x] \in Cmd!Statuses(x)
      /\ r17 \in [Thing -> {"none", "RUNNING"}]
      /\ \A x \in Thing : TypeOf[x] # "pool" \/ r1 # "shutdown" => r17[x] = "none"
  BY DEF Cmd!Init
<1>2. PICK l \in CommandLines : r1 = l.command /\ r2 = l.targets
  BY DEF Cmd!Init
<1>3. /\ r1 \in {"cancel", "shutdown", "start", "hold", "finish"}
      /\ r2 \in Seq([by : {"name", "pattern"}, of : SUBSET Thing])
  BY <1>2 DEF Cmd!Parameters
<1>4. /\ \A y, v, p : ~Cmd!Told(y, v, p)
      /\ Cmd!Todo = {} /\ Cmd!ToSet(r13) = {} /\ Cmd!ToSet(r9) = {} /\ Cmd!ToSet(r8) = {}
  <2>1. /\ DOMAIN r11 = {} /\ Cmd!ToSet(<<>>) = {}
    BY <1>1, CmdNothing
  <2>2. QED
    BY <1>1, <2>1, CmdTodoIs DEF Cmd!Told
<1>5. Cmd!ItemsInv
  BY <1>1, <1>3 DEF Cmd!ItemsInv, Cmd!Distinct
<1>6. Cmd!RecordsInv
  BY <1>1, <1>4 DEF Cmd!RecordsInv
<1>7. Cmd!DoneInv
  BY <1>1, <1>4 DEF Cmd!DoneInv
<1>8. Cmd!AbortInv
  <2>1. \A y \in Thing : r16[y] = "CANCELLING" => TypeOf[y] = "wr"
    BY <1>1 DEF Cmd!Statuses, Cmd!Over
  <2>2. QED
    BY <1>1, <1>3, <1>4, <2>1 DEF Cmd!AbortInv
<1>9. Cmd!TerminatedInv
  BY <1>1, <1>4 DEF Cmd!TerminatedInv
<1>10. Cmd!EndsInv
  BY <1>1 DEF Cmd!EndsInv, Cmd!Unset, Cmd!SUCCESS
<1>11. QED
  BY <1>5, <1>6, <1>7, <1>8, <1>9, <1>10 DEF Cmd!IInv

LEMMA CmdToldAsDoneHolds ==
  ASSUME Cmd!IInv
  PROVE  Cmd!ToldAsDone
<1>1. r11 \in Seq(Cmd!Sorts) /\ CmdOnceEach(r11)
  BY DEF Cmd!IInv, Cmd!RecordsInv, CmdOnceEach
<1>2. \A x, p : /\ Cmd!Count(x, "thing", p) <= 1 /\ Cmd!Count(x, "termination", p) <= 1
                /\ Cmd!Count(x, "thing", p) = 1 <=> Cmd!Told(x, "thing", p)
                /\ Cmd!Count(x, "termination", p) = 1 <=> Cmd!Told(x, "termination", p)
  BY <1>1, CmdCounted
<1>3. \A x \in Thing :
        /\ Cmd!Told(x, "thing", {"done", "aborted"}) => <<x, "acted">> \in r18
        /\ <<x, "acted">> \in r18 => Cmd!Told(x, "thing", {"done", "aborted", "failed"})
        /\ Cmd!Told(x, "termination", {"done"}) => <<x, "terminated">> \in r18
        /\ <<x, "terminated">> \in r18 => Cmd!Told(x, "termination", {"done", "failed"})
        /\ Cmd!Told(x, "thing", {"aborted"}) => r3 /\ r10[x] = "CANCELLING"
  BY DEF Cmd!IInv, Cmd!DoneInv
<1>4. ASSUME r15 # Cmd!Unset, r7 = <<>>, NEW x \in Cmd!ToSet(r8)
      PROVE  /\ Cmd!Told(x, "thing", Cmd!Outcomes)
             /\ r4 /\ Cmd!Told(x, "thing", {"done"}) /\ r17[x] # "none" =>
                  Cmd!Told(x, "termination", {"done", "failed"})
  <2>1. r6 = "exit" /\ Cmd!Todo = {}
    BY <1>4, CmdTodoIs DEF Cmd!IInv, Cmd!EndsInv
  <2>2. Cmd!Told(x, "thing", Cmd!Outcomes)
    BY <1>4, <2>1 DEF Cmd!IInv, Cmd!RecordsInv
  <2>3. ASSUME r4, Cmd!Told(x, "thing", {"done"}), r17[x] # "none"
        PROVE  Cmd!Told(x, "termination", {"done", "failed"})
    <3>1. x \in Thing
      BY <1>4 DEF Cmd!IInv, Cmd!ItemsInv, Cmd!ToSet
    <3>15. Cmd!Told(x, "thing", {"done", "aborted"})
      BY <2>3 DEF Cmd!Told
    <3>2. x \in Cmd!ToSet(r13) /\ TypeOf[x] = "pool"
      BY <2>3, <3>1, <3>15 DEF Cmd!IInv, Cmd!DoneInv, Cmd!TerminatedInv
    <3>3. Cmd!Told(x, "termination", {"done"}) \/ Cmd!Told(x, "termination", {"failed"})
      BY <2>1, <2>3, <3>2 DEF Cmd!IInv, Cmd!TerminatedInv
    <3>4. QED
      BY <3>3 DEF Cmd!Told
  <2>4. QED
    BY <2>2, <2>3
<1>5. \A x \in Thing :
        /\ Cmd!Count(x, "thing", {"done", "aborted"}) = 1 => <<x, "acted">> \in r18
        /\ <<x, "acted">> \in r18 => Cmd!Count(x, "thing", {"done", "aborted", "failed"}) = 1
        /\ Cmd!Count(x, "termination", {"done"}) = 1 => <<x, "terminated">> \in r18
        /\ <<x, "terminated">> \in r18 => Cmd!Count(x, "termination", {"done", "failed"}) = 1
        /\ Cmd!Count(x, "thing", Cmd!Outcomes) <= 1
        /\ Cmd!Count(x, "termination", Cmd!Outcomes) <= 1
        /\ Cmd!Count(x, "thing", {"aborted"}) = 1 => r3 /\ r10[x] = "CANCELLING"
  BY <1>2, <1>3
<1>6. r15 # Cmd!Unset /\ r7 = <<>> =>
        \A x \in Cmd!ToSet(r8) :
          /\ Cmd!Count(x, "thing", Cmd!Outcomes) = 1
          /\ r4 /\ Cmd!Count(x, "thing", {"done"}) = 1 /\ r17[x] # "none" =>
               Cmd!Count(x, "termination", {"done", "failed"}) = 1
  BY <1>2, <1>4
<1>7. QED
  BY <1>5, <1>6 DEF Cmd!ToldAsDone

LEMMA CmdDoneMeansDoneHolds ==
  ASSUME Cmd!IInv
  PROVE  Cmd!DoneMeansDone
<1>1. ASSUME r15 = Cmd!SUCCESS
      PROVE  /\ r5 /\ r13 # <<>> => r14 = {x \in Cmd!ToSet(r13) : TypeOf[x] \in Cmd!FirstTypes}
             /\ \A x \in Cmd!ToSet(r13) : r4 /\ TypeOf[x] = "pool" => r17[x] # "RUNNING"
             /\ \A k \in DOMAIN r11 : r11[k].outcome # "failed"
  <2>1. r6 = "exit"
    BY <1>1 DEF Cmd!IInv, Cmd!EndsInv, Cmd!SUCCESS, Cmd!Unset
  <2>2. /\ r5 /\ r13 # <<>> => r14 = {x \in Cmd!ToSet(r13) : TypeOf[x] \in Cmd!FirstTypes}
        /\ \A k \in DOMAIN r11 : r11[k].outcome # "failed"
    BY <1>1 DEF Cmd!IInv, Cmd!EndsInv
  <2>3. ASSUME NEW x \in Cmd!ToSet(r13), r4, TypeOf[x] = "pool"
        PROVE  r17[x] # "RUNNING"
    <3>1. \/ r17[x] = "none" \/ r17[x] = "TERMINATED" \/ Cmd!Told(x, "termination", {"failed"})
      BY <2>1, <2>3 DEF Cmd!IInv, Cmd!TerminatedInv
    <3>2. ~Cmd!Told(x, "termination", {"failed"})
      BY <2>2 DEF Cmd!Told
    <3>3. QED
      BY <3>1, <3>2
  <2>4. QED
    BY <2>2, <2>3
<1>2. \A x \in Cmd!ToSet(r13) : r1 = "cancel" /\ r10[x] = "CANCELLING" => r3
  BY DEF Cmd!IInv, Cmd!AbortInv
<1>3. QED
  BY <1>1, <1>2 DEF Cmd!DoneMeansDone
-----------------------------------------------------------------------------
LEMMA CmdGoesOn ==
  ASSUME Cmd!Parameters
  PROVE  (chosen = "command" => Cmd!IInv) /\ [Next]_all => (chosen = "command" => Cmd!IInv)'
<1> SUFFICES ASSUME chosen = "command" => Cmd!IInv, [Next]_all, chosen' = "command"
             PROVE  Cmd!IInv'
  OBVIOUS
<1>1. chosen = "command" /\ [Cmd!Next]_(Cmd!vars)
  BY DEF Next, OfCmd, OfCompute, OfUpdate, OfCmp, all, Cmd!vars, Cmd!line, Cmd!run, Cmd!told,
     Cmd!platform
<1> QED
  BY <1>1, CmdStepHolds

LEMMA CmdInvariance ==
  ASSUME Cmd!Parameters
  PROVE  Spec => [](chosen = "command" => Cmd!IInv)
<1>1. Init => (chosen = "command" => Cmd!IInv)
  BY CmdInitHolds DEF Init
<1> QED
  BY <1>1, CmdGoesOn, PTL DEF Spec

\* What 'yd cancel', 'shutdown', 'start', 'hold' and 'finish' record is what the platform
\* did, once for each thing, and for all of them unless a search failed; so is what was
\* terminated with a Worker Pool (cancel.py, shutdown.py, start_hold_common.py).
THEOREM CommandsTold ==
  ASSUME Cmd!Parameters
  PROVE  Spec => [](chosen = "command" => Cmd!ToldAsDone)
<1>1. (chosen = "command" => Cmd!IInv) => (chosen = "command" => Cmd!ToldAsDone)
  BY CmdToldAsDoneHolds
<1> QED
  BY <1>1, CmdInvariance, PTL

\* A run of theirs that exits with 0 has left nothing undone: what it acted on is followed,
\* and no pool shut down with '--terminate' has a Compute Requirement running (shutdown.py).
THEOREM CommandsDone ==
  ASSUME Cmd!Parameters
  PROVE  Spec => [](chosen = "command" => Cmd!DoneMeansDone)
<1>1. (chosen = "command" => Cmd!IInv) => (chosen = "command" => Cmd!DoneMeansDone)
  BY CmdDoneMeansDoneHolds
<1> QED
  BY <1>1, CmdInvariance, PTL
-----------------------------------------------------------------------------
(* Compute Requirements and Instances. *)

LEMMA CompRangeIs == \A s : Compute!ToSet(s) = Range(s)
  BY DEF Compute!ToSet, Range

LEMMA CompCardinalityIs == \A S : Compute!Cardinality(S) = Cardinality(S)
  BY DEF Compute!Cardinality, Cardinality

LEMMA CompFiniteIs == \A S : Compute!IsFiniteSet(S) <=> IsFiniteSet(S)
  BY DEF Compute!IsFiniteSet, IsFiniteSet

LEMMA CompArrangedIs == \A s, p, key : Compute!Arranged(s, p, key) = Arranged(s, p, key)
  BY DEF Compute!Arranged, Arranged, Compute!Cardinality, Cardinality

LEMMA CompPickedIs ==
  ASSUME NEW S, NEW s \in Seq(S), NEW P \in SUBSET DOMAIN s
  PROVE  /\ Compute!Picked(s, P) \in Seq(S) /\ Compute!ToSet(Compute!Picked(s, P)) = {s[i] : i \in P}
         /\ Compute!Distinct(s) => Compute!Distinct(Compute!Picked(s, P))
<1>1. Compute!Picked(s, P) = Picked(s, P)
  BY CompArrangedIs DEF Compute!Picked, Picked
<1>2. /\ Picked(s, P) \in Seq(S)
      /\ Range(Picked(s, P)) = {s[i] : i \in P}
      /\ (\A i, j \in P : s[i] = s[j] => i = j) =>
           \A m, n \in DOMAIN Picked(s, P) : Picked(s, P)[m] = Picked(s, P)[n] => m = n
  BY Picks
<1>3. Compute!Distinct(s) => Compute!Distinct(Picked(s, P))
  BY <1>2 DEF Compute!Distinct
<1>4. QED
  BY <1>1, <1>2, <1>3, CompRangeIs

LEMMA CompOnceIs ==
  ASSUME NEW S, NEW s \in Seq(S)
  PROVE  Compute!Once(s) \in Seq(S) /\ Compute!ToSet(Compute!Once(s)) = Compute!ToSet(s) /\ Compute!Distinct(Compute!Once(s))
<1>1. Compute!Once(s) = Picked(s, Firsts(s))
  BY CompArrangedIs DEF Compute!Once, Compute!Picked, Picked, Compute!Firsts, Firsts
<1>2. /\ Picked(s, Firsts(s)) \in Seq(S)
      /\ Range(Picked(s, Firsts(s))) = Range(s)
      /\ \A m, n \in DOMAIN Picked(s, Firsts(s)) :
           Picked(s, Firsts(s))[m] = Picked(s, Firsts(s))[n] => m = n
  BY FirstsOnce
<1>3. Compute!Distinct(Picked(s, Firsts(s)))
  BY <1>2 DEF Compute!Distinct
<1>4. QED
  BY <1>1, <1>2, <1>3, CompRangeIs

LEMMA CompArrangedOnce ==
  ASSUME NEW S, NEW s \in Seq(S), NEW key \in [DOMAIN s -> Nat]
  PROVE  /\ Compute!Arranged(s, DOMAIN s, key) \in Seq(S)
         /\ Compute!ToSet(Compute!Arranged(s, DOMAIN s, key)) = Compute!ToSet(s)
         /\ Compute!Distinct(s) => Compute!Distinct(Compute!Arranged(s, DOMAIN s, key))
<1> DEFINE P == DOMAIN s
           A == Arranged(s, P, key)
<1>1. P \in SUBSET DOMAIN s /\ key \in [P -> Nat] /\ Range(s) = {s[i] : i \in P}
  BY DEF Range
<1>2. Compute!Arranged(s, DOMAIN s, key) = A
  BY CompArrangedIs
<1>3. (\A i, j \in P : s[i] = s[j] => i = j) <=> Compute!Distinct(s)
  BY DEF Compute!Distinct
<1> HIDE DEF P
<1>4. /\ Arranged(s, P, key) \in Seq(S)
      /\ {Arranged(s, P, key)[n] : n \in DOMAIN Arranged(s, P, key)} = {s[i] : i \in P}
      /\ (\A i, j \in P : s[i] = s[j] => i = j) =>
           \A m, n \in DOMAIN Arranged(s, P, key) :
             Arranged(s, P, key)[m] = Arranged(s, P, key)[n] => m = n
  BY <1>1, Arranges
<1>5. Range(A) = Range(s)
  BY <1>1, <1>4 DEF Range
<1>6. Compute!Distinct(s) => Compute!Distinct(A)
  BY <1>3, <1>4 DEF Compute!Distinct
<1> HIDE DEF A
<1>7. QED
  BY <1>2, <1>4, <1>5, <1>6, CompRangeIs DEF A

LEMMA CompSetToSeqIs ==
  ASSUME IsFiniteSet(Compute!Things), NEW S \in SUBSET Compute!Things
  PROVE  Compute!SetToSeq(S) \in Seq(Compute!Things) /\ Compute!Distinct(Compute!SetToSeq(S)) /\ Compute!ToSet(Compute!SetToSeq(S)) \subseteq S
<1> DEFINE n == Cardinality(S)
<1>1. IsFiniteSet(S) /\ n \in Nat
  BY FS_Subset, FS_CardinalityType
<1>2. ExistsBijection(1 .. n, S)
  BY <1>1, FS_NatBijection, FS_CountingElements
<1>3. PICK f \in [1 .. n -> S] : \A i, j \in DOMAIN f : f[i] = f[j] => i = j
  <2>1. PICK f : f \in Bijection(1 .. n, S)
    BY <1>2 DEF ExistsBijection
  <2>2. f \in [1 .. n -> S] /\ \A i, j \in 1 .. n : f[i] = f[j] => i = j
    BY <2>1 DEF Bijection, Injection, IsInjective
  <2>3. QED
    BY <2>2
<1>4. Compute!SetToSeq(S) = CHOOSE g \in [1 .. n -> S] : Compute!IsInjective(g)
  BY CompCardinalityIs DEF Compute!SetToSeq
<1>5. Compute!SetToSeq(S) \in [1 .. n -> S] /\ Compute!IsInjective(Compute!SetToSeq(S))
  BY <1>3, <1>4 DEF Compute!IsInjective
<1>6. Compute!SetToSeq(S) \in Seq(Compute!Things) /\ DOMAIN Compute!SetToSeq(S) = 1 .. n
  BY <1>1, <1>5
<1>7. QED
  BY <1>5, <1>6 DEF Compute!IsInjective, Compute!Distinct, Compute!ToSet

\* The first of a sequence, and the rest.
LEMMA CompParts ==
  ASSUME NEW S, NEW s \in Seq(S), s # <<>>
  PROVE  /\ Head(s) \in S /\ Tail(s) \in Seq(S) /\ Compute!ToSet(s) = {Head(s)} \cup Compute!ToSet(Tail(s))
         /\ Compute!Distinct(s) => Compute!Distinct(Tail(s)) /\ Head(s) \notin Compute!ToSet(Tail(s))
<1>1. /\ Head(s) \in S /\ Tail(s) \in Seq(S)
      /\ Range(s) = {Head(s)} \cup Range(Tail(s))
      /\ (\A i, j \in DOMAIN s : s[i] = s[j] => i = j) =>
           /\ Head(s) \notin Range(Tail(s))
           /\ \A i, j \in DOMAIN Tail(s) : Tail(s)[i] = Tail(s)[j] => i = j
  BY HeadAndTail
<1>2. Compute!Distinct(s) => Compute!Distinct(Tail(s)) /\ Head(s) \notin Range(Tail(s))
  BY <1>1 DEF Compute!Distinct
<1>3. QED
  BY <1>1, <1>2, CompRangeIs

LEMMA CompOneMore ==
  ASSUME NEW S, NEW s \in Seq(S), NEW x \in S
  PROVE  /\ Append(s, x) \in Seq(S) /\ Compute!ToSet(Append(s, x)) = Compute!ToSet(s) \cup {x}
         /\ Compute!Distinct(s) /\ x \notin Compute!ToSet(s) => Compute!Distinct(Append(s, x))
<1>1. /\ Append(s, x) \in Seq(S)
      /\ Range(Append(s, x)) = Range(s) \cup {x}
      /\ (\A i, j \in DOMAIN s : s[i] = s[j] => i = j) /\ x \notin Range(s) =>
           \A i, j \in DOMAIN Append(s, x) : Append(s, x)[i] = Append(s, x)[j] => i = j
  BY Added
<1>2. Compute!Distinct(s) /\ x \notin Range(s) => Compute!Distinct(Append(s, x))
  BY <1>1 DEF Compute!Distinct
<1>3. QED
  BY <1>1, <1>2, CompRangeIs

LEMMA CompBoth ==
  ASSUME NEW S, NEW s \in Seq(S), NEW t \in Seq(S), Compute!Distinct(s), Compute!Distinct(t),
         Compute!ToSet(s) \cap Compute!ToSet(t) = {}
  PROVE  s \o t \in Seq(S) /\ Compute!Distinct(s \o t) /\ Compute!ToSet(s \o t) = Compute!ToSet(s) \cup Compute!ToSet(t)
<1>1. /\ s \o t \in Seq(S)
      /\ Range(s \o t) = Range(s) \cup Range(t)
      /\ /\ \A i, j \in DOMAIN s : s[i] = s[j] => i = j
         /\ \A i, j \in DOMAIN t : t[i] = t[j] => i = j
         /\ Range(s) \cap Range(t) = {}
         => \A i, j \in DOMAIN (s \o t) : (s \o t)[i] = (s \o t)[j] => i = j
  BY Joined
<1>2. Range(s) \cap Range(t) = {}
  BY CompRangeIs
<1>3. Compute!Distinct(s \o t)
  BY <1>1, <1>2 DEF Compute!Distinct
<1>4. QED
  BY <1>1, <1>3, CompRangeIs

LEMMA CompThingsFinite ==
  ASSUME Compute!Parameters
  PROVE  /\ IsFiniteSet(Compute!Things)
         /\ \A S \in SUBSET Compute!Things : IsFiniteSet(S) /\ Cardinality(S) \in Nat
                                             /\ Compute!Cardinality(S) = Cardinality(S)
                                             /\ (S # {} => Compute!Cardinality(S) # 0)
<1>1. IsFiniteSet(Compute!Things)
  BY CompFiniteIs, FS_Union DEF Compute!Parameters, Compute!Things
<1>2. ASSUME NEW S \in SUBSET Compute!Things
      PROVE  IsFiniteSet(S) /\ Cardinality(S) \in Nat /\ (S # {} => Cardinality(S) # 0)
  BY <1>1, FS_Subset, FS_CardinalityType, FS_EmptySet
<1>3. QED
  BY <1>1, <1>2, CompCardinalityIs

\* The Compute Requirements of the Instances in a sequence.
LEMMA CompOwnersIs ==
  ASSUME Compute!Parameters, NEW s \in Seq(Compute!Things)
  PROVE  /\ Compute!OwnersOf(s) \in Seq(CRs) /\ Compute!Distinct(Compute!OwnersOf(s))
         /\ Compute!ToSet(Compute!OwnersOf(s)) = {CrOf[x] : x \in Compute!ToSet(s) \cap Instances}
<1> DEFINE P == {k \in DOMAIN s : s[k] \in Instances}
           of == Compute!Picked(s, P)
           owners == [k \in DOMAIN of |-> CrOf[of[k]]]
<1>1. of \in Seq(Compute!Things) /\ Compute!ToSet(of) = {s[i] : i \in P}
  BY CompPickedIs
<1>2. Compute!ToSet(of) = Compute!ToSet(s) \cap Instances
  BY <1>1 DEF Compute!ToSet
<1> HIDE DEF of
<1>3. of \in Seq(Instances)
  <2>1. \A i \in DOMAIN of : of[i] \in Instances
    BY <1>2 DEF Compute!ToSet
  <2>2. QED
    BY <1>1, <2>1
<1>4. owners \in Seq(CRs) /\ Compute!ToSet(owners) = {CrOf[x] : x \in Compute!ToSet(of)}
  BY <1>3 DEF Compute!ToSet, Compute!Parameters
<1>5. Compute!OwnersOf(s) = Compute!Once(owners)
  BY DEF Compute!OwnersOf, of
<1> HIDE DEF owners
<1>6. QED
  BY <1>2, <1>4, <1>5, CompOnceIs

LEMMA CompPlanIs ==
  ASSUME Compute!Parameters, NEW s \in Seq(Compute!Things), Compute!Distinct(s)
  PROVE  Compute!Plan(s) \in Seq(Compute!Things) /\ Compute!Distinct(Compute!Plan(s)) /\ Compute!ToSet(Compute!Plan(s)) = Compute!ToSet(s)
<1> DEFINE place(c) == CHOOSE n \in DOMAIN Compute!OwnersOf(s) : Compute!OwnersOf(s)[n] = c
           key == [k \in DOMAIN s |-> IF s[k] \in CRs THEN 0 ELSE place(CrOf[s[k]])]
<1>1. ASSUME NEW k \in DOMAIN s, s[k] \notin CRs
      PROVE  place(CrOf[s[k]]) \in Nat
  <2>1. s[k] \in Compute!ToSet(s) \cap Instances
    BY <1>1 DEF Compute!ToSet, Compute!Things
  <2>2. CrOf[s[k]] \in Compute!ToSet(Compute!OwnersOf(s)) /\ Compute!OwnersOf(s) \in Seq(CRs)
    BY <2>1, CompOwnersIs
  <2>3. \E n \in DOMAIN Compute!OwnersOf(s) : Compute!OwnersOf(s)[n] = CrOf[s[k]]
    BY <2>2 DEF Compute!ToSet
  <2>4. QED
    BY <2>2, <2>3
<1>2. key \in [DOMAIN s -> Nat]
  BY <1>1
<1>3. Compute!Plan(s) = Compute!Arranged(s, DOMAIN s, key)
  BY DEF Compute!Plan
<1> HIDE DEF key
<1>4. QED
  BY <1>2, <1>3, CompArrangedOnce

\* What is together is one unit, and only that.
LEMMA CompUnitsAre ==
  ASSUME Compute!Parameters, NEW s \in Seq(Compute!Things), Compute!Distinct(s)
  PROVE  /\ Compute!Units(s) \in Seq(SUBSET Compute!Things) /\ Compute!Distinct(Compute!Units(s))
         /\ \A u \in Compute!ToSet(Compute!Units(s)) : u # {} /\ u \subseteq Compute!ToSet(s)
         /\ \A u, v \in Compute!ToSet(Compute!Units(s)) : \A x \in u, y \in v : Compute!Together(x, y) <=> u = v
<1> DEFINE P == {k \in DOMAIN s : s[k] \in CRs}
           crs == Compute!Picked(s, P)
           owners == Compute!OwnersOf(s)
           ones == [k \in DOMAIN crs |-> {crs[k]}]
           groups == [k \in DOMAIN owners |-> Compute!InstancesOf(owners[k], s)]
<1>1. crs \in Seq(Compute!Things) /\ Compute!ToSet(crs) = Compute!ToSet(s) \cap CRs /\ Compute!Distinct(crs)
  <2>1. crs \in Seq(Compute!Things) /\ Compute!ToSet(crs) = {s[i] : i \in P} /\ Compute!Distinct(crs)
    BY CompPickedIs
  <2>2. QED
    BY <2>1 DEF Compute!ToSet
<1>2. owners \in Seq(CRs) /\ Compute!Distinct(owners) /\ Compute!ToSet(owners) = {CrOf[x] : x \in Compute!ToSet(s) \cap Instances}
  BY CompOwnersIs
<1> HIDE DEF crs, owners
<1>3. ones \in Seq(SUBSET Compute!Things) /\ Compute!ToSet(ones) = {{x} : x \in Compute!ToSet(s) \cap CRs} /\ Compute!Distinct(ones)
  <2>1. ones \in Seq(SUBSET Compute!Things) /\ DOMAIN ones = DOMAIN crs
    BY <1>1
  <2>2. Compute!ToSet(ones) = {{x} : x \in Compute!ToSet(crs)}
    BY DEF Compute!ToSet
  <2>3. Compute!Distinct(ones)
    BY <1>1 DEF Compute!Distinct
  <2>4. QED
    BY <1>1, <2>1, <2>2, <2>3
<1>4. groups \in Seq(SUBSET Compute!Things)
  BY <1>2 DEF Compute!InstancesOf, Compute!Things
<1>5. Compute!ToSet(groups) = {Compute!InstancesOf(c, s) : c \in Compute!ToSet(owners)}
  BY <1>2 DEF Compute!ToSet
<1>6. \A c \in Compute!ToSet(owners) : Compute!InstancesOf(c, s) # {}
  BY <1>2 DEF Compute!InstancesOf
<1>7. Compute!Distinct(groups)
  <2> SUFFICES ASSUME NEW i \in DOMAIN groups, NEW j \in DOMAIN groups, groups[i] = groups[j]
               PROVE  i = j
    BY DEF Compute!Distinct
  <2>1. i \in DOMAIN owners /\ j \in DOMAIN owners
    OBVIOUS
  <2>2. owners[i] \in Compute!ToSet(owners) /\ Compute!InstancesOf(owners[i], s) = Compute!InstancesOf(owners[j], s)
    BY <2>1, <1>2 DEF Compute!ToSet
  <2>3. owners[i] = owners[j]
    BY <2>2, <1>6 DEF Compute!InstancesOf
  <2>4. QED
    BY <2>1, <2>3, <1>2 DEF Compute!Distinct
<1> HIDE DEF ones, groups
<1>8. Compute!ToSet(ones) \cap Compute!ToSet(groups) = {}
  BY <1>3, <1>5, <1>6 DEF Compute!InstancesOf, Compute!Parameters, Compute!IsFiniteSet
<1>9. Compute!Units(s) = ones \o groups
  BY DEF Compute!Units, ones, groups, crs, owners
<1>10. /\ Compute!Units(s) \in Seq(SUBSET Compute!Things) /\ Compute!Distinct(Compute!Units(s))
       /\ Compute!ToSet(Compute!Units(s)) = Compute!ToSet(ones) \cup Compute!ToSet(groups)
  BY <1>3, <1>4, <1>7, <1>8, <1>9, CompBoth
<1>11. Compute!ToSet(s) \subseteq Compute!Things
  BY DEF Compute!ToSet
<1>12. \A u \in Compute!ToSet(Compute!Units(s)) : u # {} /\ u \subseteq Compute!ToSet(s)
  <2>1. \A u \in Compute!ToSet(ones) : u # {} /\ u \subseteq Compute!ToSet(s)
    BY <1>3
  <2>2. \A u \in Compute!ToSet(groups) : u # {} /\ u \subseteq Compute!ToSet(s)
    BY <1>5, <1>6 DEF Compute!InstancesOf
  <2>3. QED
    BY <1>10, <2>1, <2>2
<1>13. ASSUME NEW u \in Compute!ToSet(Compute!Units(s)), NEW v \in Compute!ToSet(Compute!Units(s)), NEW x \in u, NEW y \in v
       PROVE  Compute!Together(x, y) <=> u = v
  <2>1. CASE u \in Compute!ToSet(ones) /\ v \in Compute!ToSet(ones)
    <3>1. PICK c \in CRs, d \in CRs : u = {c} /\ v = {d}
      BY <2>1, <1>3
    <3>2. x = c /\ y = d /\ c \notin Instances
      BY <3>1, <1>13 DEF Compute!Parameters
    <3>3. QED
      BY <3>1, <3>2 DEF Compute!Together
  <2>2. CASE u \in Compute!ToSet(ones) /\ v \in Compute!ToSet(groups)
    BY <2>2, <1>3, <1>5, <1>8, <1>13 DEF Compute!Together, Compute!Parameters, Compute!InstancesOf
  <2>3. CASE u \in Compute!ToSet(groups) /\ v \in Compute!ToSet(ones)
    BY <2>3, <1>3, <1>5, <1>8, <1>13 DEF Compute!Together, Compute!Parameters, Compute!InstancesOf
  <2>4. CASE u \in Compute!ToSet(groups) /\ v \in Compute!ToSet(groups)
    <3>1. PICK c \in Compute!ToSet(owners), d \in Compute!ToSet(owners) :
            u = Compute!InstancesOf(c, s) /\ v = Compute!InstancesOf(d, s)
      BY <2>4, <1>5
    <3>2. x \in Instances /\ y \in Instances /\ CrOf[x] = c /\ CrOf[y] = d
      BY <3>1, <1>13 DEF Compute!InstancesOf
    <3>3. Compute!Together(x, y) <=> c = d
      BY <3>2 DEF Compute!Together
    <3>4. c = d <=> u = v
      BY <3>1, <3>2, <1>13 DEF Compute!InstancesOf
    <3>5. QED
      BY <3>3, <3>4
  <2>5. QED
    BY <2>1, <2>2, <2>3, <2>4, <1>10
<1>14. QED
  BY <1>10, <1>12, <1>13

\* The places that go before one, and itself.
CompAhead(P, key, k, before) ==
  /\ key \in [P -> Nat] /\ k \in P /\ before \in SUBSET P
  /\ \A j \in P : j \in before <=> key[j] < key[k] \/ (key[j] = key[k] /\ j <= k)

\* Where a place of a sequence goes.
LEMMA CompAtRank ==
  ASSUME NEW S, NEW s \in Seq(S), NEW P \in SUBSET DOMAIN s, NEW key, NEW k, NEW before,
         CompAhead(P, key, k, before)
  PROVE  /\ Arranged(s, P, key) \in Seq(S)
         /\ Cardinality(before) \in 1 .. Len(Arranged(s, P, key))
         /\ Arranged(s, P, key)[Cardinality(before)] = s[k]
<1> DEFINE rank == [i \in P |->
                     Cardinality({j \in P : key[j] < key[i] \/ (key[j] = key[i] /\ j <= i)})]
           n == Cardinality(P)
           A == Arranged(s, P, key)
<1>1. P \in SUBSET Nat /\ IsFiniteSet(P) /\ n \in Nat
  <2>1. DOMAIN s = 1 .. Len(s) /\ Len(s) \in Nat
    OBVIOUS
  <2>2. IsFiniteSet(1 .. Len(s))
    BY <2>1, FS_Interval
  <2>3. IsFiniteSet(P)
    BY <2>1, <2>2, FS_Subset
  <2>4. QED
    BY <2>1, <2>3, FS_CardinalityType
<1>3. rank[k] = Cardinality(before)
  <2>1. before = {j \in P : key[j] < key[k] \/ (key[j] = key[k] /\ j <= k)}
    BY DEF CompAhead
  <2>2. QED
    BY <2>1 DEF CompAhead
<1>4. /\ \A m \in 1 .. n : \E i \in P : rank[i] = m
      /\ \A i \in P : rank[i] \in 1 .. n
      /\ \A i, j \in P : rank[i] = rank[j] => i = j
  BY <1>1, Ranked DEF CompAhead
<1>5. A = [m \in 1 .. n |-> s[CHOOSE i \in P : rank[i] = m]]
  BY DEF Arranged
<1> HIDE DEF rank, n
<1>6. (CHOOSE i \in P : rank[i] = rank[k]) = k /\ rank[k] \in 1 .. n
  BY <1>4 DEF CompAhead
<1>7. A[rank[k]] = s[k] /\ DOMAIN A = 1 .. n
  BY <1>5, <1>6
<1>8. A \in Seq(S)
  BY Arranges DEF CompAhead
<1> HIDE DEF A
<1>9. rank[k] \in 1 .. Len(A)
  BY <1>1, <1>6, <1>7, <1>8
<1>10. QED
  BY <1>3, <1>7, <1>8, <1>9 DEF A

\* A Worker Pool of the Compute Requirement's name is among those that are checked.
LEMMA CompOwnChecked ==
  ASSUME Compute!Parameters, r3 \in ListedPools, NEW c \in CRs, NEW k \in DOMAIN r3,
         r3[k].named = c, r3[k].manages = c
  PROVE  Compute!Manages(c)
<1> DEFINE P == DOMAIN r3
           key == [i \in P |-> IF r3[i].named = c THEN 0 ELSE 1]
           before == {j \in P : key[j] < key[k] \/ (key[j] = key[k] /\ j <= k)}
           A == Arranged(r3, P, key)
           own == {i \in P : r3[i].named = c}
           most == AUTO_SHUTDOWN_POOLS_CHECKED
           r == Cardinality(before)
<1>1. r3 \in Seq(Compute!Listed) /\ most \in Nat /\ Compute!Cardinality(own) <= most
  BY DEF Compute!Parameters
<1>2. IsFiniteSet(P) /\ P \in SUBSET DOMAIN r3
  <2>1. DOMAIN r3 = 1 .. Len(r3) /\ Len(r3) \in Nat
    BY <1>1
  <2>2. QED
    BY <2>1, FS_Interval
<1>3. /\ before \subseteq own /\ before \in SUBSET P /\ key \in [P -> Nat] /\ k \in P
      /\ \A j \in P : j \in before <=> key[j] < key[k] \/ (key[j] = key[k] /\ j <= k)
  OBVIOUS
<1>4. IsFiniteSet(own) /\ Cardinality(own) <= most
  BY <1>1, <1>2, FS_Subset, CompCardinalityIs
<1>5. Cardinality(own) \in Nat /\ Cardinality(before) <= Cardinality(own)
  BY <1>3, <1>4, FS_Subset, FS_CardinalityType
<1>6. Compute!Checked(c) = Compute!Few(A)
  BY CompArrangedIs DEF Compute!Checked
<1> HIDE DEF key, P, before, own, most
<1> HIDE DEF A, r
<1>7. A \in Seq(Compute!Listed) /\ r \in 1 .. Len(A) /\ A[r] = r3[k]
  <2>1. r3 \in Seq(Compute!Listed) /\ P \in SUBSET DOMAIN r3
    BY <1>1, <1>2
  <2>2. CompAhead(P, key, k, before)
    BY <1>3 DEF CompAhead
  <2>3. /\ Arranged(r3, P, key) \in Seq(Compute!Listed)
        /\ Cardinality(before) \in 1 .. Len(Arranged(r3, P, key))
        /\ Arranged(r3, P, key)[Cardinality(before)] = r3[k]
    BY <2>1, <2>2, CompAtRank
  <2>4. QED
    BY <2>3 DEF A, r
<1>8. r <= most
  BY <1>1, <1>4, <1>5, <1>7 DEF r
<1>9. r \in DOMAIN Compute!Few(A) /\ Compute!Few(A)[r] = A[r]
  BY <1>1, <1>7, <1>8 DEF Compute!Few, most
<1>10. QED
  BY <1>6, <1>7, <1>9 DEF Compute!Manages

LEMMA CompNoneIn ==
  Compute!ToSet(<<>>) = {} /\ Compute!Distinct(<<>>) /\ \A S : <<>> \in Seq(S)
  BY DEF Compute!ToSet, Compute!Distinct

LEMMA CompInitHolds ==
  ASSUME Compute!Parameters, Compute!Init
  PROVE  Compute!IInv
<1>1. Compute!ItemsInv
  BY CompNoneIn DEF Compute!Init, Compute!ItemsInv, Compute!Before, Compute!Parameters
<1>2. Compute!UnitsInv
  BY CompNoneIn DEF Compute!Init, Compute!UnitsInv, Compute!Requested
<1>3. Compute!RecordsInv
  BY CompNoneIn DEF Compute!Init, Compute!RecordsInv, Compute!Recorded
<1>4. Compute!RuleInv
  BY CompNoneIn DEF Compute!Init, Compute!RuleInv, Compute!Requested
<1>5. Compute!FollowInv
  <2>1. r15 \in [asked : BOOLEAN, of : Seq(CRs), until : Compute!Untils] /\ r15.of = <<>>
        /\ r15.until = "unset"
    BY CompNoneIn DEF Compute!Init, Compute!Untils
  <2>2. QED
    BY <2>1 DEF Compute!FollowInv, Compute!FollowedToAnEnd
<1>6. Compute!EndsInv
  BY DEF Compute!Init, Compute!EndsInv, Compute!Unset, Compute!SUCCESS
<1>7. QED
  BY <1>1, <1>2, <1>3, <1>4, <1>5, <1>6 DEF Compute!IInv

\* Where nothing is asked or followed.
LEMMA CompActingStays ==
  ASSUME Compute!UnitsInv, Compute!FollowInv, UNCHANGED <<Compute!line, Compute!acting>>, r4' \in Compute!Before => r4 \in Compute!Before,
         r4' \notin {"return", "exit"} => r4 \notin {"return", "exit"}
  PROVE  Compute!UnitsInv' /\ Compute!FollowInv'
<1>1. UNCHANGED <<r10, r14, r15, r18, r1>>
  BY DEF Compute!acting, Compute!line
<1>2. Compute!UnitsInv'
  BY <1>1 DEF Compute!UnitsInv, Compute!Requested
<1>3. Compute!FollowedToAnEnd'
  BY <1>1 DEF Compute!FollowInv, Compute!FollowedToAnEnd, Compute!Asked
<1>4. QED
  BY <1>1, <1>2, <1>3 DEF Compute!FollowInv

LEMMA CompRuleStays ==
  ASSUME Compute!RuleInv, UNCHANGED <<Compute!line, Compute!rule, r10, r18>>,
         r4' = "confirm" => r4 = "confirm" /\ r7' = r7
  PROVE  Compute!RuleInv'
<1>1. UNCHANGED <<r1, r3, r8, r9>>
  BY DEF Compute!line, Compute!rule
<1>2. \A c : Compute!Manages(c)' <=> Compute!Manages(c)
  BY <1>1 DEF Compute!Manages, Compute!Checked, Compute!Few
<1>3. QED
  BY <1>1, <1>2 DEF Compute!RuleInv, Compute!Requested

LEMMA CompRecordsStay ==
  ASSUME Compute!RecordsInv, UNCHANGED <<Compute!told, r14, r18>>
  PROVE  Compute!RecordsInv'
<1>1. UNCHANGED <<r11, r12, r13, r14, r18>>
  BY DEF Compute!told
<1>2. Compute!ToSet(r14)' = Compute!ToSet(r14) /\ Compute!ToSet(r18)' = Compute!ToSet(r18)
  BY <1>1 DEF Compute!ToSet
<1>3. \A x, outcome : Compute!Recorded(x, outcome)' = Compute!Recorded(x, outcome)
  BY <1>1 DEF Compute!Recorded
<1>4. QED
  BY <1>1, <1>2, <1>3 DEF Compute!RecordsInv

\* What is recorded that is not done.
CompKept(old, new) ==
  /\ new \in Seq(Compute!Outcomes)
  /\ (\E k \in DOMAIN old : old[k] = "failed") => \E k \in DOMAIN new : new[k] = "failed"
  /\ {k \in DOMAIN new : new[k] = "done"} = {k \in DOMAIN old : old[k] = "done"}

LEMMA CompGrown ==
  ASSUME NEW s \in Seq(Compute!Outcomes), NEW t \in Seq({"skipped", "failed"})
  PROVE  CompKept(s, s \o t)
<1>1. /\ s \o t \in Seq(Compute!Outcomes) /\ Len(s) \in Nat /\ Len(t) \in Nat
      /\ DOMAIN s = 1 .. Len(s) /\ DOMAIN (s \o t) = 1 .. Len(s) + Len(t)
      /\ \A k \in 1 .. Len(s) : (s \o t)[k] = s[k]
      /\ \A k \in Len(s) + 1 .. Len(s) + Len(t) : (s \o t)[k] = t[k - Len(s)]
  BY DEF Compute!Outcomes
<1>2. \A k \in Len(s) + 1 .. Len(s) + Len(t) : t[k - Len(s)] # "done"
  <2>1. \A j \in 1 .. Len(t) : t[j] \in {"skipped", "failed"}
    OBVIOUS
  <2>2. QED
    BY <1>1, <2>1
<1>3. \A k : k \in DOMAIN (s \o t) <=> k \in 1 .. Len(s) \/ k \in Len(s) + 1 .. Len(s) + Len(t)
  BY <1>1
<1>4. {k \in DOMAIN (s \o t) : (s \o t)[k] = "done"} = {k \in DOMAIN s : s[k] = "done"}
  BY <1>1, <1>2, <1>3
<1>5. \A k \in DOMAIN s : k \in DOMAIN (s \o t) /\ (s \o t)[k] = s[k]
  BY <1>1, <1>3
<1>6. QED
  BY <1>1, <1>4, <1>5 DEF CompKept

LEMMA CompRecordsGrow ==
  ASSUME Compute!RecordsInv, r14' = r14, r13' \in Nat, r12' \in Seq(ComputeCodes \cup {Compute!FAILURE}),
         \A x \in Compute!Things, u \in Compute!ToSet(r18') : x \in u =>
           u \in Compute!ToSet(r18) \/ Compute!Recorded(x, "failed")' # {},
         DOMAIN r11' = DOMAIN r11, r11' = [x \in DOMAIN r11 |-> r11'[x]],
         \A x \in DOMAIN r11 : CompKept(r11[x], r11'[x]),
         r13' = 0 => \A x \in DOMAIN r11 : Compute!Recorded(x, "failed")' = {}
  PROVE  Compute!RecordsInv'
<1>1. DOMAIN r11 = Compute!Things \cup Nodes \cup {"pattern"}
  BY DEF Compute!RecordsInv
<1>2. r11' \in [Compute!Things \cup Nodes \cup {"pattern"} -> Seq(Compute!Outcomes)]
  BY <1>1 DEF CompKept
<1>3. \A x \in Compute!Things : Compute!Recorded(x, "done")' = Compute!Recorded(x, "done")
  BY <1>1 DEF CompKept, Compute!Recorded
<1>4. \A x \in Compute!Things : Compute!Recorded(x, "failed") # {} => Compute!Recorded(x, "failed")' # {}
  BY <1>1 DEF CompKept, Compute!Recorded
<1>5. \A x \in Compute!Things, u \in Compute!ToSet(r18') :
        x \in u => Compute!Recorded(x, "done")' # {} \/ Compute!Recorded(x, "failed")' # {}
  BY <1>3, <1>4 DEF Compute!RecordsInv
<1>6. \A x \in Compute!Things :
        /\ Compute!Recorded(x, "done")' # {} <=> \E u \in Compute!ToSet(r14') : x \in u
        /\ \A i, j \in Compute!Recorded(x, "done")' : i = j
  BY <1>3 DEF Compute!RecordsInv
<1>7. Compute!ToSet(r18)' = Compute!ToSet(r18') /\ Compute!ToSet(r14)' = Compute!ToSet(r14')
  BY DEF Compute!ToSet
<1>8. QED
  BY <1>1, <1>2, <1>5, <1>6, <1>7 DEF Compute!RecordsInv

\* One record more of each of these.
LEMMA CompToldIs ==
  ASSUME Compute!RecordsInv, NEW xs \in SUBSET DOMAIN r11, NEW outcome \in {"skipped", "failed"},
         Compute!Tells(xs, outcome), UNCHANGED <<r14, r18>>, Compute!Cardinality(xs) \in Nat,
         outcome = "failed" => Compute!Cardinality(xs) # 0, r12' \in Seq(ComputeCodes \cup {Compute!FAILURE})
  PROVE  Compute!RecordsInv'
<1>1. /\ r11' = [x \in DOMAIN r11 |->
                   IF x \in xs THEN Append(r11[x], outcome) ELSE r11[x]]
      /\ r13' = r13 + (IF outcome = "failed" THEN Compute!Cardinality(xs) ELSE 0)
  BY DEF Compute!Tells
<1>2. \A x \in DOMAIN r11 : r11[x] \in Seq(Compute!Outcomes)
  BY DEF Compute!RecordsInv
<1>3. ASSUME NEW x \in DOMAIN r11
      PROVE  CompKept(r11[x], r11'[x])
  <2>1. Append(r11[x], outcome) = r11[x] \o <<outcome>>
    BY <1>2 DEF Compute!Outcomes
  <2>2. <<outcome>> \in Seq({"skipped", "failed"})
    OBVIOUS
  <2>3. CompKept(r11[x], r11[x] \o <<outcome>>)
    BY <1>2, <2>2, CompGrown
  <2>4. CompKept(r11[x], r11[x])
    BY <1>2 DEF CompKept
  <2>5. QED
    BY <1>1, <2>1, <2>3, <2>4
<1>4. r13' \in Nat /\ (r13' = 0 => r13 = 0 /\ outcome = "skipped")
  BY <1>1 DEF Compute!RecordsInv
<1>5. ASSUME r13' = 0, NEW x \in DOMAIN r11
      PROVE  Compute!Recorded(x, "failed")' = {}
  <2>1. \A k \in DOMAIN r11[x] : r11[x][k] # "failed"
    BY <1>4, <1>5 DEF Compute!RecordsInv, Compute!Recorded
  <2>2. \A k \in DOMAIN r11'[x] : r11'[x][k] # "failed"
    <3>1. CASE x \in xs
      <4>1. r11'[x] = Append(r11[x], "skipped") /\ r11[x] \in Seq(Compute!Outcomes)
        BY <3>1, <1>1, <1>2, <1>4, <1>5
      <4>2. QED
        BY <4>1, <2>1
    <3>2. CASE x \notin xs
      BY <3>2, <1>1, <2>1
    <3>3. QED
      BY <3>1, <3>2
  <2>3. QED
    BY <2>2 DEF Compute!Recorded
<1>6. DOMAIN r11' = DOMAIN r11 /\ r11' = [x \in DOMAIN r11 |-> r11'[x]]
  BY <1>1
<1>7. \A x \in Compute!Things, u \in Compute!ToSet(r18') : x \in u =>
        u \in Compute!ToSet(r18) \/ Compute!Recorded(x, "failed")' # {}
  OBVIOUS
<1>8. r14' = r14
  OBVIOUS
<1>9. QED
  BY <1>3, <1>4, <1>5, <1>6, <1>7, <1>8, CompRecordsGrow

LEMMA CompCausesIs ==
  ASSUME NEW code \in ComputeCodes \cup {Compute!FAILURE}, NEW n \in Nat, r12 \in Seq(ComputeCodes \cup {Compute!FAILURE}),
         Compute!Cause(code, n)
  PROVE  r12' \in Seq(ComputeCodes \cup {Compute!FAILURE})
<1>1. [k \in 1 .. n |-> code] \in Seq(ComputeCodes \cup {Compute!FAILURE})
  OBVIOUS
<1>2. QED
  BY <1>1 DEF Compute!Cause

\* What is found, in the steps that find it.
LEMMA CompResolvingIs ==
  ASSUME Compute!Parameters, Compute!IInv, Compute!Resolving
  PROVE  /\ Head(r5) \in Compute!Target /\ Tail(r5) \in Seq(Compute!Target)
         /\ {Compute!Of} \in SUBSET DOMAIN r11 /\ Compute!Cardinality({Compute!Of}) = 1
         /\ r4 = "resolve" /\ r18 = <<>> /\ r8 = <<>>
<1>1. r5 \in Seq(Compute!Target) /\ r5 # <<>> /\ r4 = "resolve" /\ r18 = <<>> /\ r8 = <<>>
  BY DEF Compute!IInv, Compute!ItemsInv, Compute!UnitsInv, Compute!Resolving, Compute!Before
<1>2. Head(r5) \in Compute!Target /\ Tail(r5) \in Seq(Compute!Target)
  BY <1>1, CompParts
<1>3. Compute!Of \in Compute!Things \cup Nodes
  BY <1>2 DEF Compute!Of, Compute!Target
<1>4. DOMAIN r11 = Compute!Things \cup Nodes \cup {"pattern"}
  BY DEF Compute!IInv, Compute!RecordsInv
<1>5. Compute!Cardinality({Compute!Of}) = 1
  BY CompCardinalityIs, FS_Singleton
<1>6. QED
  BY <1>1, <1>2, <1>3, <1>4, <1>5

\* A step that finds, or fails to find, what to act on.
LEMMA CompFinds ==
  ASSUME Compute!Parameters, Compute!IInv, UNCHANGED <<Compute!line, Compute!rule, Compute!acting>>, r4 \in {"expand", "resolve"},
         r4' = r4, r16' = r16, r5' \in Seq(Compute!Target), r6' \in Seq(Compute!Target),
         r7' \in Seq(Compute!Things), Compute!Distinct(r7'), Compute!RecordsInv'
  PROVE  Compute!IInv'
<1>1. Compute!ItemsInv'
  BY DEF Compute!IInv, Compute!ItemsInv, Compute!line, Compute!rule, Compute!Distinct, Compute!Before
<1>2. Compute!UnitsInv' /\ Compute!FollowInv'
  BY CompActingStays DEF Compute!IInv, Compute!acting
<1>3. Compute!RuleInv'
  BY CompRuleStays DEF Compute!IInv, Compute!acting
<1>4. Compute!EndsInv'
  BY DEF Compute!IInv, Compute!EndsInv, Compute!Unset, Compute!SUCCESS
<1>5. QED
  BY <1>1, <1>2, <1>3, <1>4 DEF Compute!IInv

LEMMA CompSkipsIs ==
  ASSUME Compute!Parameters, Compute!IInv, NEW x \in DOMAIN r11, NEW outcome \in {"skipped", "failed"},
         Compute!Tells({x}, outcome), UNCHANGED <<r14, r18>>, r12' \in Seq(ComputeCodes \cup {Compute!FAILURE})
  PROVE  Compute!RecordsInv'
<1>1. Compute!Cardinality({x}) = 1
  BY CompCardinalityIs, FS_Singleton
<1>2. QED
  BY <1>1, CompToldIs DEF Compute!IInv

LEMMA CompAddsIs ==
  ASSUME NEW x \in Compute!Things, r7 \in Seq(Compute!Things), Compute!Distinct(r7), Compute!Adds(x)
  PROVE  r7' \in Seq(Compute!Things) /\ Compute!Distinct(r7') /\ Compute!ToSet(r7') = Compute!ToSet(r7) \cup {x}
<1>1. CASE x \in Compute!ToSet(r7)
  BY <1>1 DEF Compute!Adds
<1>2. CASE x \notin Compute!ToSet(r7)
  BY <1>2, CompOneMore DEF Compute!Adds
<1>3. QED
  BY <1>1, <1>2

LEMMA CompListHolds ==
  ASSUME Compute!Parameters, Compute!IInv, Compute!List
  PROVE  Compute!IInv'
<1>1. PICK some \in SUBSET CRs : r7' = Compute!SetToSeq(some)
  BY DEF Compute!List
<1>2. /\ r4 = "expand" /\ r4' = "rule" /\ r16' = r16 /\ r8 = <<>>
      /\ UNCHANGED <<Compute!line, Compute!finding, Compute!rule, Compute!acting, Compute!told>>
  BY DEF Compute!List, Compute!Goes, Compute!IInv, Compute!ItemsInv
<1>3. r7' \in Seq(Compute!Things) /\ Compute!Distinct(r7')
  BY <1>1, CompSetToSeqIs, CompThingsFinite DEF Compute!Things
<1>4. Compute!ItemsInv'
  BY <1>2, <1>3, CompNoneIn DEF Compute!IInv, Compute!ItemsInv, Compute!line, Compute!rule, Compute!finding, Compute!Before, Compute!Distinct
<1>5. Compute!UnitsInv' /\ Compute!FollowInv'
  BY <1>2, CompActingStays DEF Compute!IInv, Compute!Before
<1>6. Compute!RecordsInv'
  BY <1>2, CompRecordsStay DEF Compute!IInv, Compute!acting
<1>7. Compute!RuleInv'
  BY <1>2, CompRuleStays DEF Compute!IInv, Compute!acting
<1>8. Compute!EndsInv'
  BY <1>2 DEF Compute!IInv, Compute!EndsInv, Compute!told
<1>9. QED
  BY <1>4, <1>5, <1>6, <1>7, <1>8 DEF Compute!IInv

LEMMA CompExpandHolds ==
  ASSUME Compute!Parameters, Compute!IInv, Compute!Expand
  PROVE  Compute!IInv'
<1>1. /\ r5 \in Seq(Compute!Target) /\ r5 # <<>> /\ r6 \in Seq(Compute!Target) /\ r4 = "expand"
      /\ r7 \in Seq(Compute!Things) /\ Compute!Distinct(r7) /\ r12 \in Seq(ComputeCodes \cup {Compute!FAILURE})
      /\ DOMAIN r11 = Compute!Things \cup Nodes \cup {"pattern"}
  BY DEF Compute!Expand, Compute!IInv, Compute!ItemsInv, Compute!RecordsInv
<1>2. Head(r5) \in Compute!Target /\ Tail(r5) \in Seq(Compute!Target)
  BY <1>1, CompParts
<1>3. /\ r5' = Tail(r5) /\ UNCHANGED <<Compute!line, r4, r7, Compute!rule, Compute!acting, r16>>
  BY DEF Compute!Expand
<1>4. UNCHANGED <<r14, r18>>
  BY <1>3 DEF Compute!acting
<1>5. CASE UNCHANGED Compute!told
  <2>1. r6' \in Seq(Compute!Target)
    <3>1. Append(r6, Head(r5)) \in Seq(Compute!Target)
      BY <1>1, <1>2
    <3>2. Append(r6, [Head(r5) EXCEPT !.by = "id"]) \in Seq(Compute!Target)
      <4>1. [Head(r5) EXCEPT !.by = "id"] \in Compute!Target
        BY <1>2 DEF Compute!Target
      <4>2. QED
        BY <1>1, <4>1
    <3>3. r6' \in {r6, Append(r6, Head(r5)),
                  Append(r6, [Head(r5) EXCEPT !.by = "id"])}
      BY DEF Compute!Expand
    <3>4. QED
      BY <1>1, <3>1, <3>2, <3>3
  <2>2. Compute!RecordsInv'
    BY <1>4, <1>5, CompRecordsStay DEF Compute!IInv
  <2>3. QED
    BY <1>1, <1>2, <1>3, <2>1, <2>2, CompFinds
<1>6. CASE Compute!Tells({"pattern"}, "failed") /\ Compute!Cause(Compute!FAILURE, 1) /\ UNCHANGED r6
  <2>1. r12' \in Seq(ComputeCodes \cup {Compute!FAILURE})
    BY <1>1, <1>6, CompCausesIs
  <2>2. Compute!RecordsInv'
    BY <1>1, <1>4, <1>6, <2>1, CompSkipsIs
  <2>3. QED
    BY <1>1, <1>2, <1>3, <1>6, <2>2, CompFinds
<1>7. QED
  BY <1>5, <1>6 DEF Compute!Expand

LEMMA CompExpandedHolds ==
  ASSUME Compute!Parameters, Compute!IInv, Compute!Expanded
  PROVE  Compute!IInv'
<1>1. /\ r6 \in Seq(Compute!Target) /\ r4 = "expand" /\ r4' = "resolve" /\ r16' = r16
      /\ r5' = Compute!Once(r6) /\ UNCHANGED <<Compute!line, r6, r7, Compute!rule, Compute!acting, Compute!told>>
  BY DEF Compute!Expanded, Compute!Goes, Compute!IInv, Compute!ItemsInv
<1>2. r5' \in Seq(Compute!Target)
  BY <1>1, CompOnceIs
<1>3. Compute!ItemsInv'
  BY <1>1, <1>2 DEF Compute!IInv, Compute!ItemsInv, Compute!line, Compute!rule, Compute!Before, Compute!Distinct
<1>4. Compute!UnitsInv' /\ Compute!FollowInv'
  BY <1>1, CompActingStays DEF Compute!IInv, Compute!Before
<1>5. Compute!RecordsInv'
  BY <1>1, CompRecordsStay DEF Compute!IInv, Compute!acting
<1>6. Compute!RuleInv'
  BY <1>1, CompRuleStays DEF Compute!IInv, Compute!acting
<1>7. Compute!EndsInv'
  BY <1>1 DEF Compute!IInv, Compute!EndsInv, Compute!told
<1>8. QED
  BY <1>3, <1>4, <1>5, <1>6, <1>7 DEF Compute!IInv

LEMMA CompResolveHolds ==
  ASSUME Compute!Parameters, Compute!IInv, Compute!WrongKind \/ Compute!ResolveCR \/ Compute!ResolveInstance \/ Compute!ResolveNode
  PROVE  Compute!IInv'
<1>1. Compute!Resolving /\ Compute!Next1
  BY DEF Compute!WrongKind, Compute!ResolveCR, Compute!ResolveInstance, Compute!ResolveNode
<1>2. /\ Head(r5) \in Compute!Target /\ Tail(r5) \in Seq(Compute!Target)
      /\ {Compute!Of} \in SUBSET DOMAIN r11 /\ r4 = "resolve"
  BY <1>1, CompResolvingIs
<1>3. /\ r5' = Tail(r5) /\ UNCHANGED <<Compute!line, r4, r6, Compute!rule, Compute!acting, r16>>
      /\ UNCHANGED <<r14, r18>>
  BY <1>1 DEF Compute!Next1, Compute!acting
<1>4. /\ r7 \in Seq(Compute!Things) /\ Compute!Distinct(r7) /\ r6 \in Seq(Compute!Target)
      /\ r12 \in Seq(ComputeCodes \cup {Compute!FAILURE})
  BY DEF Compute!IInv, Compute!ItemsInv, Compute!RecordsInv
<1>5. ASSUME NEW x \in Compute!Things, Compute!Adds(x), UNCHANGED Compute!told
      PROVE  Compute!IInv'
  <2>1. r7' \in Seq(Compute!Things) /\ Compute!Distinct(r7')
    BY <1>4, <1>5, CompAddsIs
  <2>2. Compute!RecordsInv'
    BY <1>3, <1>5, CompRecordsStay DEF Compute!IInv
  <2>3. QED
    BY <1>2, <1>3, <1>4, <2>1, <2>2, CompFinds
<1>6. ASSUME Compute!Skips(Compute!Of)
      PROVE  Compute!IInv'
  <2>1. Compute!RecordsInv'
    BY <1>2, <1>3, <1>4, <1>6, CompSkipsIs DEF Compute!Skips
  <2>2. QED
    BY <1>2, <1>3, <1>4, <1>6, <2>1, CompFinds DEF Compute!Skips
<1>7. ASSUME Compute!Unresolved(Compute!Of, Compute!FAILURE)
      PROVE  Compute!IInv'
  <2>1. r12' \in Seq(ComputeCodes \cup {Compute!FAILURE})
    BY <1>4, <1>7, CompCausesIs DEF Compute!Unresolved
  <2>2. Compute!RecordsInv'
    BY <1>2, <1>3, <1>7, <2>1, CompSkipsIs DEF Compute!Unresolved
  <2>3. QED
    BY <1>2, <1>3, <1>4, <1>7, <2>2, CompFinds DEF Compute!Unresolved
<1>8. \/ \E x \in Compute!Things : Compute!Adds(x) /\ UNCHANGED Compute!told
      \/ Compute!Skips(Compute!Of) \/ Compute!Unresolved(Compute!Of, Compute!FAILURE)
  BY DEF Compute!WrongKind, Compute!ResolveCR, Compute!ResolveInstance, Compute!ResolveNode, Compute!FindInstance, Compute!Things
<1>9. QED
  BY <1>5, <1>6, <1>7, <1>8

LEMMA CompCodeIs ==
  ASSUME Compute!Parameters, NEW code \in ComputeCodes
  PROVE  code # Compute!Unset /\ code # Compute!SUCCESS
  BY DEF Compute!Parameters, Compute!Unset, Compute!SUCCESS

LEMMA CompResolveFailsHolds ==
  ASSUME Compute!Parameters, Compute!IInv, NEW code \in ComputeCodes, Compute!ResolveFails(code)
  PROVE  Compute!IInv'
<1>1. /\ Compute!Resolving /\ UNCHANGED <<Compute!line, r6, Compute!rule, Compute!acting, r17>>
  BY DEF Compute!ResolveFails
<1>2. /\ Tail(r5) \in Seq(Compute!Target) /\ {Compute!Of} \in SUBSET DOMAIN r11 /\ r4 = "resolve"
      /\ UNCHANGED <<r14, r18>>
  BY <1>1, CompResolvingIs DEF Compute!acting
<1>3. /\ r7 \in Seq(Compute!Things) /\ Compute!Distinct(r7) /\ r6 \in Seq(Compute!Target)
      /\ r5 \in Seq(Compute!Target) /\ r12 \in Seq(ComputeCodes \cup {Compute!FAILURE})
  BY DEF Compute!IInv, Compute!ItemsInv, Compute!RecordsInv
<1>4. CASE code \in Compute!SESSION_FAILURES
  <2> DEFINE a(x) == IF x = Compute!Of THEN <<"failed">> ELSE <<>>
             b(x) == IF x \in Compute!ToSet(r7) THEN <<"skipped">> ELSE <<>>
             n(x) == Compute!Cardinality({j \in DOMAIN Tail(r5) : Tail(r5)[j].of = x})
             c(x) == [k \in 1 .. n(x) |-> "skipped"]
             some == {"skipped", "failed"}
  <2>1. /\ r11' = [x \in DOMAIN r11 |-> r11[x] \o a(x) \o b(x) \o c(x)]
        /\ r13' = r13 + 1 /\ Compute!Cause(code, 1) /\ Compute!Ends(code) /\ UNCHANGED <<r5, r7>>
    BY <1>4 DEF Compute!ResolveFails
  <2>2. ASSUME NEW x \in DOMAIN r11
        PROVE  CompKept(r11[x], r11'[x])
    <3>1. r11[x] \in Seq(Compute!Outcomes)
      BY DEF Compute!IInv, Compute!RecordsInv
    <3>2. n(x) \in Nat
      <4>1. IsFiniteSet(DOMAIN Tail(r5))
        <5>1. DOMAIN Tail(r5) = 1 .. Len(Tail(r5)) /\ Len(Tail(r5)) \in Nat
          BY <1>2
        <5>2. QED
          BY <5>1, FS_Interval
      <4>2. QED
        BY <4>1, FS_Subset, FS_CardinalityType, CompCardinalityIs
    <3>3. a(x) \in Seq(some) /\ b(x) \in Seq(some) /\ c(x) \in Seq(some)
      <4>1. <<"failed">> \in Seq(some) /\ <<"skipped">> \in Seq(some) /\ <<>> \in Seq(some)
        OBVIOUS
      <4>2. \A m \in Nat : [k \in 1 .. m |-> "skipped"] \in Seq(some)
        OBVIOUS
      <4> HIDE DEF n, some
      <4>3. a(x) \in Seq(some)
        BY <4>1
      <4>4. b(x) \in Seq(some)
        BY <4>1
      <4>5. c(x) \in Seq(some)
        BY <3>2, <4>2
      <4>6. QED
        BY <4>3, <4>4, <4>5
    <3> HIDE DEF a, b, c
    <3>4. CompKept(r11[x], r11[x] \o a(x)) /\ r11[x] \o a(x) \in Seq(Compute!Outcomes)
      <4>1. CompKept(r11[x], r11[x] \o a(x))
        BY <3>1, <3>3, CompGrown
      <4>2. QED
        BY <4>1 DEF CompKept
    <3>5. /\ CompKept(r11[x] \o a(x), r11[x] \o a(x) \o b(x))
          /\ r11[x] \o a(x) \o b(x) \in Seq(Compute!Outcomes)
      <4>1. CompKept(r11[x] \o a(x), r11[x] \o a(x) \o b(x))
        BY <3>3, <3>4, CompGrown
      <4>2. QED
        BY <4>1 DEF CompKept
    <3>6. CompKept(r11[x] \o a(x) \o b(x), r11[x] \o a(x) \o b(x) \o c(x))
      BY <3>3, <3>5, CompGrown
    <3>7. r11'[x] = r11[x] \o a(x) \o b(x) \o c(x)
      BY <2>1
    <3>8. QED
      BY <3>4, <3>5, <3>6, <3>7 DEF CompKept
  <2> HIDE DEF a, b, c
  <2>3. r12' \in Seq(ComputeCodes \cup {Compute!FAILURE})
    BY <1>3, <2>1, CompCausesIs
  <2>4. r13' \in Nat /\ r13' # 0
    BY <2>1 DEF Compute!IInv, Compute!RecordsInv
  <2>5. DOMAIN r11' = DOMAIN r11 /\ r11' = [x \in DOMAIN r11 |-> r11'[x]]
    BY <2>1
  <2>13. \A x \in Compute!Things, u \in Compute!ToSet(r18') : x \in u =>
           u \in Compute!ToSet(r18) \/ Compute!Recorded(x, "failed")' # {}
    BY <1>2
  <2>6. Compute!RecordsInv'
    BY <1>2, <2>2, <2>3, <2>4, <2>5, <2>13, CompRecordsGrow DEF Compute!IInv
  <2>7. r4' = "exit" /\ r16' = code
    BY <2>1 DEF Compute!Ends
  <2>8. Compute!ItemsInv'
    BY <1>1, <2>1, <2>7 DEF Compute!IInv, Compute!ItemsInv, Compute!line, Compute!rule, Compute!Distinct
  <2>9. Compute!UnitsInv' /\ Compute!FollowInv'
    BY <1>1, <2>7, CompActingStays DEF Compute!IInv, Compute!Before
  <2>10. Compute!RuleInv'
    BY <1>1, <2>7, CompRuleStays DEF Compute!IInv, Compute!acting
  <2>11. Compute!EndsInv'
    BY <2>7, CompCodeIs DEF Compute!EndsInv
  <2>12. QED
    BY <2>6, <2>8, <2>9, <2>10, <2>11 DEF Compute!IInv
<1>5. CASE code \notin Compute!SESSION_FAILURES
  <2>1. Compute!Unresolved(Compute!Of, code) /\ r5' = Tail(r5) /\ UNCHANGED <<r4, r16>>
    BY <1>5 DEF Compute!ResolveFails
  <2>2. r12' \in Seq(ComputeCodes \cup {Compute!FAILURE})
    BY <1>3, <2>1, CompCausesIs DEF Compute!Unresolved
  <2>3. Compute!RecordsInv'
    BY <1>2, <2>1, <2>2, CompSkipsIs DEF Compute!Unresolved
  <2>4. QED
    BY <1>1, <1>2, <1>3, <2>1, <2>3, CompFinds DEF Compute!Unresolved
<1>6. QED
  BY <1>4, <1>5

LEMMA CompResolvedHolds ==
  ASSUME Compute!Parameters, Compute!IInv, Compute!Resolved
  PROVE  Compute!IInv'
<1>1. /\ r4 = "resolve" /\ r4' = "rule" /\ r16' = r16 /\ r7' = Compute!Plan(r7) /\ r8 = <<>>
      /\ UNCHANGED <<Compute!line, Compute!finding, Compute!rule, Compute!acting, Compute!told>>
  BY DEF Compute!Resolved, Compute!Goes, Compute!IInv, Compute!ItemsInv
<1>2. r7' \in Seq(Compute!Things) /\ Compute!Distinct(r7')
  BY <1>1, CompPlanIs DEF Compute!IInv, Compute!ItemsInv
<1>3. Compute!ItemsInv'
  BY <1>1, <1>2, CompNoneIn DEF Compute!IInv, Compute!ItemsInv, Compute!line, Compute!rule, Compute!finding, Compute!Before, Compute!Distinct
<1>4. Compute!UnitsInv' /\ Compute!FollowInv'
  BY <1>1, CompActingStays DEF Compute!IInv, Compute!Before
<1>5. Compute!RecordsInv'
  BY <1>1, CompRecordsStay DEF Compute!IInv, Compute!acting
<1>6. Compute!RuleInv'
  BY <1>1, CompRuleStays DEF Compute!IInv, Compute!acting
<1>7. Compute!EndsInv'
  BY <1>1 DEF Compute!IInv, Compute!EndsInv, Compute!told
<1>8. QED
  BY <1>3, <1>4, <1>5, <1>6, <1>7 DEF Compute!IInv

\* The thing that is ruled on, of those that are left.
LEMMA CompRulingIs ==
  ASSUME Compute!Parameters, Compute!IInv, Compute!Ruling
  PROVE  /\ r4 = "rule" /\ r1 = "autoshutdown" /\ Head(r7) \in Compute!Things
         /\ Tail(r7) \in Seq(Compute!Things) /\ Compute!Distinct(Tail(r7)) /\ r8 \in Seq(Compute!Things)
         /\ Compute!ToSet(r7) = {Head(r7)} \cup Compute!ToSet(Tail(r7)) /\ Head(r7) \notin Compute!ToSet(Tail(r7))
         /\ Compute!Distinct(r8) /\ Compute!ToSet(r8) \cap Compute!ToSet(r7) = {}
         /\ Head(r7) \in DOMAIN r11 /\ r10 = <<>> /\ r18 = <<>>
<1>1. /\ r4 = "rule" /\ r1 = "autoshutdown" /\ r7 \in Seq(Compute!Things) /\ r7 # <<>>
      /\ Compute!Distinct(r7) /\ r8 \in Seq(Compute!Things)
      /\ Compute!Distinct(r8) /\ Compute!ToSet(r8) \cap Compute!ToSet(r7) = {} /\ r10 = <<>> /\ r18 = <<>>
      /\ DOMAIN r11 = Compute!Things \cup Nodes \cup {"pattern"}
  BY DEF Compute!IInv, Compute!ItemsInv, Compute!UnitsInv, Compute!RecordsInv, Compute!Ruling, Compute!Before
<1>2. QED
  BY <1>1, CompParts

\* It is kept, or is not.
LEMMA CompRulesOn ==
  ASSUME Compute!Parameters, Compute!IInv, Compute!Ruling, UNCHANGED <<Compute!line, Compute!finding, r4, r16, Compute!acting>>, Compute!RecordsInv',
         r7' = Tail(r7),
         \/ r8' = r8 /\ r9' = r9
         \/ /\ r8' = Append(r8, Head(r7))
            /\ \/ ~Compute!Manages(Head(r7)) /\ r9' = r9
               \/ r9' = r9 \cup {Head(r7)}
  PROVE  Compute!IInv'
<1>1. /\ r4 = "rule" /\ r1 = "autoshutdown" /\ Head(r7) \in Compute!Things
      /\ Tail(r7) \in Seq(Compute!Things) /\ Compute!Distinct(Tail(r7)) /\ r8 \in Seq(Compute!Things)
      /\ Compute!ToSet(r7) = {Head(r7)} \cup Compute!ToSet(Tail(r7)) /\ Head(r7) \notin Compute!ToSet(Tail(r7))
      /\ Compute!Distinct(r8) /\ Compute!ToSet(r8) \cap Compute!ToSet(r7) = {}
      /\ r10 = <<>> /\ r18 = <<>>
  BY CompRulingIs
<1>2. /\ Append(r8, Head(r7)) \in Seq(Compute!Things) /\ Compute!Distinct(Append(r8, Head(r7)))
      /\ Compute!ToSet(Append(r8, Head(r7))) = Compute!ToSet(r8) \cup {Head(r7)}
  BY <1>1, CompOneMore
<1>3. /\ r8' \in Seq(Compute!Things) /\ Compute!Distinct(r8') /\ Compute!ToSet(r8') \cap Compute!ToSet(r7') = {}
  <2>1. CASE r8' = r8
    BY <1>1, <2>1 DEF Compute!Distinct
  <2>2. CASE r8' = Append(r8, Head(r7))
    <3>1. PICK r, t : r = Append(r8, Head(r7)) /\ t = Tail(r7)
      OBVIOUS
    <3>2. r \in Seq(Compute!Things) /\ Compute!Distinct(r) /\ Compute!ToSet(r) \cap Compute!ToSet(t) = {}
      BY <1>1, <1>2, <3>1
    <3>3. r8' = r /\ r7' = t
      BY <2>2, <3>1
    <3>4. QED
      BY <3>2, <3>3 DEF Compute!Distinct, Compute!ToSet
  <2>3. QED
    BY <2>1, <2>2
<1>4. Compute!ItemsInv'
  BY <1>1, <1>3 DEF Compute!IInv, Compute!ItemsInv, Compute!line, Compute!finding, Compute!Before, Compute!Distinct
<1>5. Compute!UnitsInv' /\ Compute!FollowInv'
  BY CompActingStays DEF Compute!IInv
<1>6. \A c : Compute!Manages(c)' <=> Compute!Manages(c)
  BY DEF Compute!Manages, Compute!Checked, Compute!Few, Compute!line
<1>7. \A c \in Compute!ToSet(r8') : c \in r9' \/ ~Compute!Manages(c)
  <2>1. \A c \in Compute!ToSet(r8) : c \in r9 \/ ~Compute!Manages(c)
    BY <1>1 DEF Compute!IInv, Compute!RuleInv
  <2>2. QED
    BY <1>2, <2>1
<1>8. Compute!RuleInv'
  BY <1>1, <1>6, <1>7, CompNoneIn DEF Compute!IInv, Compute!RuleInv, Compute!line, Compute!acting, Compute!Requested
<1>9. Compute!EndsInv'
  BY <1>1 DEF Compute!IInv, Compute!EndsInv, Compute!Unset, Compute!SUCCESS
<1>10. QED
  BY <1>4, <1>5, <1>8, <1>9 DEF Compute!IInv

LEMMA CompRuleHolds ==
  ASSUME Compute!Parameters, Compute!IInv, Compute!Rule
  PROVE  Compute!IInv'
<1>1. /\ Compute!Ruling /\ r7' = Tail(r7)
      /\ UNCHANGED <<Compute!line, Compute!finding, r4, r9, Compute!acting, r16>>
  BY DEF Compute!Rule
<1>2. Head(r7) \in DOMAIN r11 /\ r12 \in Seq(ComputeCodes \cup {Compute!FAILURE}) /\ UNCHANGED <<r14, r18>>
  BY <1>1, CompRulingIs DEF Compute!IInv, Compute!RecordsInv, Compute!acting
<1>3. CASE Compute!Manages(Head(r7))
  <2>1. Compute!Tells({Head(r7)}, "failed") /\ UNCHANGED <<r12, r8>>
    BY <1>3 DEF Compute!Rule
  <2>2. Compute!RecordsInv'
    BY <1>2, <2>1, CompSkipsIs
  <2>3. QED
    BY <1>1, <2>1, <2>2, CompRulesOn
<1>4. CASE ~Compute!Manages(Head(r7))
  <2>1. r8' = Append(r8, Head(r7)) /\ UNCHANGED Compute!told
    BY <1>4 DEF Compute!Rule
  <2>2. Compute!RecordsInv'
    BY <1>2, <2>1, CompRecordsStay DEF Compute!IInv
  <2>3. QED
    BY <1>1, <1>4, <2>1, <2>2, CompRulesOn
<1>5. QED
  BY <1>3, <1>4

LEMMA CompRuleFailsHolds ==
  ASSUME Compute!Parameters, Compute!IInv, NEW code \in ComputeCodes, Compute!RuleFails(code)
  PROVE  Compute!IInv'
<1>1. Compute!Ruling /\ UNCHANGED <<Compute!line, Compute!finding, Compute!acting, Compute!told>> /\ UNCHANGED <<r14, r18>>
  BY DEF Compute!RuleFails, Compute!acting
<1>2. Compute!RecordsInv'
  BY <1>1, CompRecordsStay DEF Compute!IInv
<1>3. CASE code \in Compute!SESSION_FAILURES
  <2>1. r4' = "exit" /\ r16' = code /\ UNCHANGED <<r7, Compute!rule>>
    BY <1>3 DEF Compute!RuleFails, Compute!Ends
  <2>2. Compute!ItemsInv'
    BY <1>1, <2>1 DEF Compute!IInv, Compute!ItemsInv, Compute!line, Compute!rule, Compute!finding, Compute!Distinct
  <2>3. Compute!UnitsInv' /\ Compute!FollowInv'
    BY <1>1, <2>1, CompActingStays DEF Compute!IInv, Compute!Before
  <2>4. Compute!RuleInv'
    BY <1>1, <2>1, CompRuleStays DEF Compute!IInv, Compute!acting
  <2>5. Compute!EndsInv'
    BY <2>1, CompCodeIs DEF Compute!EndsInv
  <2>6. QED
    BY <1>2, <2>2, <2>3, <2>4, <2>5 DEF Compute!IInv
<1>4. CASE code \notin Compute!SESSION_FAILURES
  <2>1. /\ r8' = Append(r8, Head(r7)) /\ r9' = r9 \cup {Head(r7)}
        /\ r7' = Tail(r7) /\ UNCHANGED <<r4, r16>>
    BY <1>4 DEF Compute!RuleFails, Compute!Goes
  <2>2. QED
    BY <1>1, <1>2, <2>1, CompRulesOn
<1>5. QED
  BY <1>3, <1>4

LEMMA CompRuledHolds ==
  ASSUME Compute!Parameters, Compute!IInv, Compute!Ruled
  PROVE  Compute!IInv'
<1>1. /\ r4 = "rule" /\ r4' \in {"return", "confirm"} /\ r16' = r16
      /\ r7' = IF r1 = "autoshutdown" THEN r8 ELSE r7
      /\ UNCHANGED <<Compute!line, Compute!finding, Compute!rule, Compute!acting, Compute!told>>
  BY DEF Compute!Ruled, Compute!Goes
<1>2. r7' \in Seq(Compute!Things) /\ Compute!Distinct(r7')
  BY <1>1 DEF Compute!IInv, Compute!ItemsInv
<1>3. Compute!ItemsInv'
  BY <1>1, <1>2 DEF Compute!IInv, Compute!ItemsInv, Compute!line, Compute!rule, Compute!finding, Compute!Before, Compute!Distinct
<1>4. Compute!UnitsInv' /\ Compute!FollowInv'
  BY <1>1, CompActingStays DEF Compute!IInv, Compute!Before
<1>5. Compute!RecordsInv'
  BY <1>1, CompRecordsStay DEF Compute!IInv, Compute!acting
<1>6. Compute!RuleInv'
  <2>1. \A c : Compute!Manages(c)' <=> Compute!Manages(c)
    BY <1>1 DEF Compute!Manages, Compute!Checked, Compute!Few, Compute!line
  <2>2. UNCHANGED <<r1, r3, r8, r9, r10, r18>>
    BY <1>1 DEF Compute!line, Compute!rule, Compute!acting
  <2>3. r1 = "autoshutdown" => Compute!ToSet(r7') \subseteq Compute!ToSet(r8')
    BY <1>1, <2>2
  <2>4. QED
    BY <2>1, <2>2, <2>3 DEF Compute!IInv, Compute!RuleInv, Compute!Requested
<1>7. Compute!EndsInv'
  BY <1>1 DEF Compute!IInv, Compute!EndsInv, Compute!told
<1>8. QED
  BY <1>3, <1>4, <1>5, <1>6, <1>7 DEF Compute!IInv

\* Where nothing is followed yet.
LEMMA CompNotFollowed ==
  ASSUME Compute!IInv, r4 \notin {"return", "exit"}, r15' = r15
  PROVE  Compute!FollowInv'
<1>1. /\ r15 \in [asked : BOOLEAN, of : Seq(CRs), until : Compute!Untils]
      /\ r15.of = <<>> /\ r15.until = "unset"
  BY DEF Compute!IInv, Compute!FollowInv
<1>2. QED
  BY <1>1 DEF Compute!FollowInv, Compute!FollowedToAnEnd

LEMMA CompConfirmHolds ==
  ASSUME Compute!Parameters, Compute!IInv, Compute!Confirm
  PROVE  Compute!IInv'
<1>1. /\ r4 = "confirm" /\ r7 \in Seq(Compute!Things) /\ Compute!Distinct(r7) /\ r10 = <<>> /\ r18 = <<>>
      /\ UNCHANGED <<Compute!line, Compute!finding, r7, Compute!rule, r14, r15, r18>>
      /\ DOMAIN r11 = Compute!Things \cup Nodes \cup {"pattern"}
      /\ r12 \in Seq(ComputeCodes \cup {Compute!FAILURE})
      /\ r14 \in Seq(SUBSET Compute!Things) /\ Compute!ToSet(r14) \subseteq Compute!ToSet(r18)
      /\ r16 = Compute!Unset
  BY DEF Compute!Confirm, Compute!IInv, Compute!ItemsInv, Compute!UnitsInv, Compute!RecordsInv, Compute!EndsInv, Compute!Before
<1>2. CASE r10' = Compute!Units(r7) /\ Compute!Goes("act") /\ UNCHANGED Compute!told
  <2>1. r4' = "act" /\ r16' = r16
    BY <1>2 DEF Compute!Goes
  <2>2. /\ r10' \in Seq(SUBSET Compute!Things) /\ Compute!Distinct(Compute!Units(r7))
        /\ \A u \in Compute!ToSet(Compute!Units(r7)) : u # {} /\ u \subseteq Compute!ToSet(r7)
        /\ \A u, v \in Compute!ToSet(Compute!Units(r7)) : \A x \in u, y \in v : Compute!Together(x, y) <=> u = v
    BY <1>1, <1>2, CompUnitsAre
  <2>3. Compute!Requested' = Compute!ToSet(Compute!Units(r7))
    BY <1>1, <1>2, CompNoneIn DEF Compute!Requested, Compute!ToSet
  <2>4. Compute!UnitsInv'
    <3>1. Compute!Distinct(r10)' /\ Compute!Distinct(r18)' /\ (Compute!ToSet(r10) \cap Compute!ToSet(r18))' = {}
      BY <1>1, <1>2, <2>2 DEF Compute!Distinct, Compute!ToSet
    <3>2. r4' \notin Compute!Before
      BY <2>1 DEF Compute!Before
    <3>3. (\A u, v \in Compute!Requested : \A x \in u, y \in v : Compute!Together(x, y) <=> u = v)'
      BY <2>2, <2>3 DEF Compute!Together
    <3>4. QED
      BY <1>1, <2>2, <2>3, <3>1, <3>2, <3>3 DEF Compute!UnitsInv, Compute!ToSet
  <2>5. Compute!ItemsInv'
    BY <1>1, <2>1 DEF Compute!IInv, Compute!ItemsInv, Compute!finding, Compute!rule, Compute!line, Compute!Before, Compute!Distinct
  <2>6. Compute!RecordsInv'
    BY <1>1, <1>2, CompRecordsStay DEF Compute!IInv
  <2>7. \A c : Compute!Manages(c)' <=> Compute!Manages(c)
    BY <1>1 DEF Compute!Manages, Compute!Checked, Compute!Few, Compute!line
  <2>8. Compute!RuleInv'
    <3>1. UNCHANGED <<r1, r3, r8, r9>>
      BY <1>1 DEF Compute!line, Compute!rule
    <3>2. r1 = "autoshutdown" => \A u \in Compute!ToSet(Compute!Units(r7)) : u \subseteq Compute!ToSet(r8)
      BY <1>1, <2>2 DEF Compute!IInv, Compute!RuleInv
    <3>3. QED
      BY <2>1, <2>3, <2>7, <3>1, <3>2 DEF Compute!IInv, Compute!RuleInv
  <2>9. Compute!FollowInv'
    BY <1>1, CompNotFollowed
  <2>10. Compute!EndsInv'
    BY <1>1, <2>1 DEF Compute!EndsInv, Compute!Unset, Compute!SUCCESS
  <2>11. QED
    BY <2>4, <2>5, <2>6, <2>8, <2>9, <2>10 DEF Compute!IInv
<1>3. CASE Compute!Tells(Compute!ToSet(r7), "skipped") /\ Compute!Goes("return") /\ UNCHANGED <<r10, r12>>
  <2>1. r4' = "return" /\ r16' = r16 /\ UNCHANGED <<Compute!line, Compute!rule, Compute!acting, r18>>
    BY <1>1, <1>3 DEF Compute!Goes, Compute!acting
  <2>2. Compute!ToSet(r7) \in SUBSET Compute!Things
    BY <1>1 DEF Compute!ToSet
  <2>3. Compute!ToSet(r7) \in SUBSET DOMAIN r11 /\ Compute!Cardinality(Compute!ToSet(r7)) \in Nat
    BY <1>1, <2>2, CompThingsFinite
  <2>4. Compute!RecordsInv'
    BY <1>1, <1>3, <2>1, <2>3, CompToldIs DEF Compute!IInv
  <2>5. Compute!ItemsInv'
    BY <1>1, <2>1 DEF Compute!IInv, Compute!ItemsInv, Compute!finding, Compute!rule, Compute!line, Compute!Before, Compute!Distinct
  <2>6. Compute!UnitsInv' /\ Compute!FollowInv'
    BY <1>1, <2>1, CompActingStays DEF Compute!IInv, Compute!Before
  <2>7. Compute!RuleInv'
    BY <1>1, <1>3, <2>1, CompRuleStays DEF Compute!IInv
  <2>8. Compute!EndsInv'
    BY <1>1, <2>1 DEF Compute!EndsInv, Compute!Unset, Compute!SUCCESS
  <2>9. QED
    BY <2>4, <2>5, <2>6, <2>7, <2>8 DEF Compute!IInv
<1>4. QED
  BY <1>2, <1>3 DEF Compute!Confirm

\* The request that is next.
LEMMA CompActingIs ==
  ASSUME Compute!Parameters, Compute!IInv, Compute!Acting
  PROVE  /\ r4 = "act" /\ r16 = Compute!Unset /\ Compute!Unit \in SUBSET Compute!Things /\ Compute!Unit # {} /\ Compute!Unit \notin Compute!ToSet(r18)
         /\ Tail(r10) \in Seq(SUBSET Compute!Things) /\ Compute!Distinct(Tail(r10))
         /\ Compute!ToSet(r10) = {Compute!Unit} \cup Compute!ToSet(Tail(r10)) /\ Compute!Unit \notin Compute!ToSet(Tail(r10))
         /\ \A x \in Compute!Unit : ~\E u \in Compute!ToSet(r18) : x \in u
         /\ Compute!Unit \in SUBSET DOMAIN r11 /\ Compute!Cardinality(Compute!Unit) \in Nat /\ Compute!Cardinality(Compute!Unit) # 0
<1>1. /\ r4 = "act" /\ r16 = Compute!Unset /\ r10 \in Seq(SUBSET Compute!Things) /\ r10 # <<>> /\ Compute!Distinct(r10)
      /\ Compute!ToSet(r10) \cap Compute!ToSet(r18) = {}
  BY DEF Compute!Acting, Compute!IInv, Compute!UnitsInv, Compute!EndsInv
<1>2. /\ Compute!Unit \in SUBSET Compute!Things /\ Tail(r10) \in Seq(SUBSET Compute!Things) /\ Compute!Distinct(Tail(r10))
      /\ Compute!ToSet(r10) = {Compute!Unit} \cup Compute!ToSet(Tail(r10)) /\ Compute!Unit \notin Compute!ToSet(Tail(r10))
  BY <1>1, CompParts DEF Compute!Unit
<1>3. Compute!Unit \notin Compute!ToSet(r18) /\ Compute!Unit \in Compute!Requested /\ Compute!ToSet(r18) \subseteq Compute!Requested
  BY <1>1, <1>2 DEF Compute!Requested
<1>4. Compute!Unit # {} /\ \A x \in Compute!Unit : ~\E u \in Compute!ToSet(r18) : x \in u
  <2>1. ASSUME NEW x \in Compute!Unit, NEW u \in Compute!ToSet(r18), x \in u
        PROVE  FALSE
    <3>1. Compute!Together(x, x)
      BY DEF Compute!Together
    <3>2. u = Compute!Unit
      BY <1>3, <2>1, <3>1 DEF Compute!IInv, Compute!UnitsInv
    <3>3. QED
      BY <1>3, <2>1, <3>2
  <2>2. QED
    BY <1>3, <2>1 DEF Compute!IInv, Compute!UnitsInv
<1>5. Compute!Unit \in SUBSET DOMAIN r11
  BY <1>2 DEF Compute!IInv, Compute!RecordsInv
<1>6. Compute!Cardinality(Compute!Unit) \in Nat /\ Compute!Cardinality(Compute!Unit) # 0
  BY <1>2, <1>4, CompThingsFinite
<1>7. QED
  BY <1>1, <1>2, <1>3, <1>4, <1>5, <1>6

\* What is still to be requested, or was, is as it was or less.
LEMMA CompActingOn ==
  ASSUME Compute!Parameters, Compute!IInv, Compute!Acting, UNCHANGED <<Compute!line, Compute!finding, r7, Compute!rule, r15>>,
         r10' = Tail(r10), r4' \in {"act", "exit"},
         r14' \in Seq(SUBSET Compute!Things), Compute!ToSet(r14') \subseteq Compute!ToSet(r18'),
         \/ r18' = r18
         \/ r18' = Append(r18, Compute!Unit)
  PROVE  Compute!ItemsInv' /\ Compute!UnitsInv' /\ Compute!RuleInv' /\ Compute!FollowInv'
<1>1. /\ r4 = "act" /\ Compute!Unit \in SUBSET Compute!Things /\ Compute!Unit \notin Compute!ToSet(r18)
      /\ Tail(r10) \in Seq(SUBSET Compute!Things) /\ Compute!Distinct(Tail(r10))
      /\ Compute!ToSet(r10) = {Compute!Unit} \cup Compute!ToSet(Tail(r10)) /\ Compute!Unit \notin Compute!ToSet(Tail(r10))
  BY CompActingIs
<1>2. Compute!ItemsInv'
  BY <1>1 DEF Compute!IInv, Compute!ItemsInv, Compute!finding, Compute!rule, Compute!line, Compute!Before, Compute!Distinct
<1>3. Compute!FollowInv'
  BY <1>1, CompNotFollowed
<1>4. /\ r18 \in Seq(SUBSET Compute!Things) /\ Compute!Distinct(r18) /\ Compute!ToSet(r10) \cap Compute!ToSet(r18) = {}
  BY DEF Compute!IInv, Compute!UnitsInv
<1>5. PICK new : new = r18'
  OBVIOUS
<1>6. /\ new \in Seq(SUBSET Compute!Things) /\ Compute!Distinct(new)
      /\ Compute!ToSet(new) = Compute!ToSet(r18) \/ Compute!ToSet(new) = Compute!ToSet(r18) \cup {Compute!Unit}
  <2>1. CASE r18' = r18
    BY <1>4, <1>5, <2>1
  <2>2. CASE r18' = Append(r18, Compute!Unit)
    <3>1. /\ Append(r18, Compute!Unit) \in Seq(SUBSET Compute!Things) /\ Compute!Distinct(Append(r18, Compute!Unit))
          /\ Compute!ToSet(Append(r18, Compute!Unit)) = Compute!ToSet(r18) \cup {Compute!Unit}
      BY <1>1, <1>4, CompOneMore
    <3>2. new = Append(r18, Compute!Unit)
      BY <1>5, <2>2
    <3>3. QED
      BY <3>1, <3>2
  <2>3. QED
    BY <2>1, <2>2
<1>7. Compute!Requested' = Compute!ToSet(Tail(r10)) \cup Compute!ToSet(new)
  BY <1>5 DEF Compute!Requested, Compute!ToSet
<1>8. Compute!ToSet(Tail(r10)) \cup Compute!ToSet(new) \subseteq Compute!Requested
  BY <1>1, <1>6 DEF Compute!Requested
<1>9. Compute!UnitsInv'
  <2>1. Compute!Distinct(r10)' /\ Compute!Distinct(r18)' /\ (Compute!ToSet(r10) \cap Compute!ToSet(r18))' = {}
    <3>1. Compute!ToSet(Tail(r10)) \cap Compute!ToSet(new) = {}
      BY <1>1, <1>4, <1>6
    <3>2. (Compute!ToSet(r10) \cap Compute!ToSet(r18))' = Compute!ToSet(Tail(r10)) \cap Compute!ToSet(new)
      BY <1>5 DEF Compute!ToSet
    <3>3. Compute!Distinct(r10)' /\ Compute!Distinct(r18)'
      BY <1>1, <1>5, <1>6 DEF Compute!Distinct
    <3>4. QED
      BY <3>1, <3>2, <3>3
  <2>2. r4' \notin Compute!Before
    BY DEF Compute!Before
  <2>3. \A u \in Compute!Requested' : u # {}
    BY <1>7, <1>8 DEF Compute!IInv, Compute!UnitsInv
  <2>4. \A u, v \in Compute!Requested' : \A x \in u, y \in v : Compute!Together(x, y) <=> u = v
    BY <1>7, <1>8 DEF Compute!IInv, Compute!UnitsInv
  <2>5. QED
    <3>1. Compute!ToSet(r14)' = Compute!ToSet(r14') /\ Compute!ToSet(r18)' = Compute!ToSet(r18')
      BY DEF Compute!ToSet
    <3>2. (\A u, v \in Compute!Requested : \A x \in u, y \in v : Compute!Together(x, y) <=> u = v)'
      BY <2>4 DEF Compute!Together
    <3>3. QED
      BY <1>1, <1>5, <1>6, <2>1, <2>2, <2>3, <3>1, <3>2 DEF Compute!UnitsInv
<1>10. Compute!RuleInv'
  <2>1. \A c : Compute!Manages(c)' <=> Compute!Manages(c)
    BY DEF Compute!Manages, Compute!Checked, Compute!Few, Compute!line
  <2>2. UNCHANGED <<r1, r3, r8, r9>>
    BY DEF Compute!line, Compute!rule
  <2>3. QED
    BY <1>7, <1>8, <2>1, <2>2 DEF Compute!IInv, Compute!RuleInv
<1>11. QED
  BY <1>2, <1>3, <1>9, <1>10

LEMMA CompActHolds ==
  ASSUME Compute!Parameters, Compute!IInv, Compute!Act
  PROVE  Compute!IInv'
<1>1. /\ Compute!Acting /\ r18' = Append(r18, Compute!Unit) /\ Compute!Tells(Compute!Unit, "done")
      /\ r14' = Append(r14, Compute!Unit) /\ r10' = Tail(r10)
      /\ UNCHANGED <<Compute!line, r4, Compute!finding, r7, Compute!rule, r12, r15, r16>>
  BY DEF Compute!Act, Compute!CarriedOut
<1>2. /\ r4 = "act" /\ r16 = Compute!Unset /\ Compute!Unit \in SUBSET Compute!Things
      /\ Compute!Unit \in SUBSET DOMAIN r11
      /\ \A x \in Compute!Unit : ~\E u \in Compute!ToSet(r18) : x \in u
  BY <1>1, CompActingIs
<1>3. /\ r14 \in Seq(SUBSET Compute!Things) /\ r18 \in Seq(SUBSET Compute!Things)
      /\ Compute!ToSet(r14) \subseteq Compute!ToSet(r18)
  BY DEF Compute!IInv, Compute!UnitsInv
<1>11. /\ Compute!ToSet(r18') = Compute!ToSet(r18) \cup {Compute!Unit}
       /\ Compute!ToSet(r14') = Compute!ToSet(r14) \cup {Compute!Unit}
       /\ r14' \in Seq(SUBSET Compute!Things)
  <2>1. Compute!ToSet(Append(r18, Compute!Unit)) = Compute!ToSet(r18) \cup {Compute!Unit}
    BY <1>2, <1>3, CompOneMore
  <2>2. /\ Compute!ToSet(Append(r14, Compute!Unit)) = Compute!ToSet(r14) \cup {Compute!Unit}
        /\ Append(r14, Compute!Unit) \in Seq(SUBSET Compute!Things)
    BY <1>2, <1>3, CompOneMore
  <2>3. QED
    BY <1>1, <2>1, <2>2
<1>4. Compute!ItemsInv' /\ Compute!UnitsInv' /\ Compute!RuleInv' /\ Compute!FollowInv'
  <2>1. Compute!ToSet(r14') \subseteq Compute!ToSet(r18')
    BY <1>3, <1>11
  <2>2. QED
    BY <1>1, <1>2, <1>11, <2>1, CompActingOn
<1>5. Compute!EndsInv'
  BY <1>1, <1>2 DEF Compute!EndsInv, Compute!IInv, Compute!Unset, Compute!SUCCESS
<1>6. /\ r11' = [x \in DOMAIN r11 |->
                   IF x \in Compute!Unit THEN Append(r11[x], "done") ELSE r11[x]]
      /\ r13' = r13
  <2>1. r13 \in Nat
    BY DEF Compute!IInv, Compute!RecordsInv
  <2>2. QED
    BY <1>1, <2>1 DEF Compute!Tells
<1>7. \A x \in DOMAIN r11 : r11[x] \in Seq(Compute!Outcomes)
  BY DEF Compute!IInv, Compute!RecordsInv
<1>8. \A x \in DOMAIN r11 : Append(r11[x], "done") \in Seq(Compute!Outcomes)
  BY <1>7 DEF Compute!Outcomes
<1>9. r11' \in [Compute!Things \cup Nodes \cup {"pattern"} -> Seq(Compute!Outcomes)]
  BY <1>6, <1>7, <1>8 DEF Compute!IInv, Compute!RecordsInv
<1>10. ASSUME r13' = 0, NEW x \in DOMAIN r11
       PROVE  Compute!Recorded(x, "failed")' = {}
  <2>1. \A k \in DOMAIN r11[x] : r11[x][k] # "failed"
    BY <1>6, <1>10 DEF Compute!IInv, Compute!RecordsInv, Compute!Recorded
  <2>2. \A k \in DOMAIN Append(r11[x], "done") : Append(r11[x], "done")[k] # "failed"
    BY <1>7, <2>1
  <2>3. \A k \in DOMAIN r11'[x] : r11'[x][k] # "failed"
    BY <1>6, <2>1, <2>2
  <2>4. QED
    BY <2>3 DEF Compute!Recorded
<1>12. ASSUME NEW x \in Compute!Things
       PROVE  /\ Compute!Recorded(x, "done")' # {} <=> \E u \in Compute!ToSet(r14') : x \in u
              /\ \A i, j \in Compute!Recorded(x, "done")' : i = j
  <2>1. x \in DOMAIN r11 /\ r11[x] \in Seq(Compute!Outcomes)
    BY <1>7 DEF Compute!IInv, Compute!RecordsInv
  <2>2. CASE x \in Compute!Unit
    <3>1. Compute!Recorded(x, "done") = {}
      BY <1>2, <1>3, <2>2 DEF Compute!IInv, Compute!RecordsInv
    <3>2. \A k \in DOMAIN r11[x] : r11[x][k] # "done"
      BY <3>1 DEF Compute!Recorded
    <3>3. r11'[x] = Append(r11[x], "done")
      BY <1>6, <2>1, <2>2
    <3>4. /\ DOMAIN Append(r11[x], "done") = 1 .. Len(r11[x]) + 1
          /\ Append(r11[x], "done")[Len(r11[x]) + 1] = "done"
          /\ \A k \in 1 .. Len(r11[x]) : Append(r11[x], "done")[k] = r11[x][k]
          /\ DOMAIN r11[x] = 1 .. Len(r11[x]) /\ Len(r11[x]) \in Nat
      BY <2>1
    <3>5. \A k \in DOMAIN r11'[x] : r11'[x][k] = "done" <=> k = Len(r11[x]) + 1
      BY <3>2, <3>3, <3>4
    <3>6. Compute!Recorded(x, "done")' = {Len(r11[x]) + 1}
      BY <3>3, <3>4, <3>5 DEF Compute!Recorded
    <3>7. \E u \in Compute!ToSet(r14') : x \in u
      BY <1>11, <2>2
    <3>8. QED
      BY <3>6, <3>7
  <2>3. CASE x \notin Compute!Unit
    <3>1. Compute!Recorded(x, "done")' = Compute!Recorded(x, "done")
      BY <1>6, <2>1, <2>3 DEF Compute!Recorded
    <3>2. (\E u \in Compute!ToSet(r14') : x \in u) <=> \E u \in Compute!ToSet(r14) : x \in u
      BY <1>11, <2>3
    <3>3. QED
      BY <3>1, <3>2 DEF Compute!IInv, Compute!RecordsInv
  <2>4. QED
    BY <2>2, <2>3
<1>15. ASSUME NEW x \in Compute!Things, NEW u \in Compute!ToSet(r18'), x \in u
       PROVE  Compute!Recorded(x, "done")' # {} \/ Compute!Recorded(x, "failed")' # {}
  <2>1. CASE u = Compute!Unit
    BY <1>11, <1>12, <1>15, <2>1
  <2>2. CASE u \in Compute!ToSet(r18)
    <3>1. x \in DOMAIN r11 /\ r11[x] \in Seq(Compute!Outcomes)
      BY <1>7 DEF Compute!IInv, Compute!RecordsInv
    <3>2. CASE Compute!Recorded(x, "done") # {}
      <4>1. \E v \in Compute!ToSet(r14') : x \in v
        BY <1>11, <3>2 DEF Compute!IInv, Compute!RecordsInv
      <4>2. QED
        BY <1>12, <4>1
    <3>3. CASE Compute!Recorded(x, "failed") # {}
      <4>1. PICK k \in DOMAIN r11[x] : r11[x][k] = "failed"
        BY <3>3 DEF Compute!Recorded
      <4>2. k \in DOMAIN Append(r11[x], "done") /\ Append(r11[x], "done")[k] = "failed"
        BY <3>1, <4>1
      <4>3. k \in DOMAIN r11'[x] /\ r11'[x][k] = "failed"
        BY <1>6, <3>1, <4>1, <4>2
      <4>4. QED
        BY <4>3 DEF Compute!Recorded
    <3>4. QED
      BY <1>15, <2>2, <3>2, <3>3 DEF Compute!IInv, Compute!RecordsInv
  <2>3. QED
    BY <1>11, <2>1, <2>2
<1>13. Compute!RecordsInv'
  <2>1. DOMAIN r11' = DOMAIN r11 /\ r13' \in Nat /\ r12' \in Seq(ComputeCodes \cup {Compute!FAILURE})
    BY <1>1, <1>6 DEF Compute!IInv, Compute!RecordsInv
  <2>2. Compute!ToSet(r18)' = Compute!ToSet(r18') /\ Compute!ToSet(r14)' = Compute!ToSet(r14')
    BY DEF Compute!ToSet
  <2>3. QED
    BY <1>9, <1>10, <1>12, <1>15, <2>1, <2>2 DEF Compute!RecordsInv
<1>14. QED
  BY <1>4, <1>5, <1>13 DEF Compute!IInv

LEMMA CompActFailsHolds ==
  ASSUME Compute!Parameters, Compute!IInv, NEW code \in ComputeCodes, Compute!ActFails(code)
  PROVE  Compute!IInv'
<1>1. /\ Compute!Acting /\ Compute!Cause(code, Compute!Cardinality(Compute!Unit)) /\ r13' = r13 + Compute!Cardinality(Compute!Unit)
      /\ r10' = Tail(r10)
      /\ UNCHANGED <<Compute!line, Compute!finding, r7, Compute!rule, r14, r15>>
      /\ r18' = r18 \/ r18' = Append(r18, Compute!Unit)
      /\ r11' = [x \in DOMAIN r11 |->
            IF x \in Compute!Unit THEN Append(r11[x], "failed")
            ELSE IF code \in Compute!SESSION_FAILURES /\ \E k \in DOMAIN Tail(r10) : x \in Tail(r10)[k]
            THEN Append(r11[x], "skipped") ELSE r11[x]]
      /\ IF code \in Compute!SESSION_FAILURES THEN Compute!Ends(code) ELSE Compute!Goes(r4)
  BY DEF Compute!ActFails, Compute!CarriedOut
<1>2. Compute!Unit \in SUBSET Compute!Things /\ Compute!Unit \in SUBSET DOMAIN r11 /\ r4 = "act" /\ r16 = Compute!Unset /\ Compute!Cardinality(Compute!Unit) \in Nat /\ Compute!Cardinality(Compute!Unit) # 0
  BY <1>1, CompActingIs
<1>3. \/ r4' = "exit" /\ r16' = code
      \/ r4' = "act" /\ r16' = Compute!Unset
  BY <1>1, <1>2 DEF Compute!Ends, Compute!Goes
<1>4. /\ r14' \in Seq(SUBSET Compute!Things) /\ Compute!ToSet(r14') \subseteq Compute!ToSet(r18')
      /\ \A u \in Compute!ToSet(r18') : u \in Compute!ToSet(r18) \/ u = Compute!Unit
  <2>1. /\ r14 \in Seq(SUBSET Compute!Things) /\ r18 \in Seq(SUBSET Compute!Things)
        /\ Compute!ToSet(r14) \subseteq Compute!ToSet(r18)
    BY DEF Compute!IInv, Compute!UnitsInv
  <2>2. Compute!ToSet(Append(r18, Compute!Unit)) = Compute!ToSet(r18) \cup {Compute!Unit}
    BY <1>2, <2>1, CompOneMore
  <2>3. QED
    BY <1>1, <2>1, <2>2
<1>5. Compute!ItemsInv' /\ Compute!UnitsInv' /\ Compute!RuleInv' /\ Compute!FollowInv'
  BY <1>1, <1>3, <1>4, CompActingOn
<1>6. Compute!EndsInv'
  BY <1>3, CompCodeIs DEF Compute!EndsInv, Compute!Unset, Compute!SUCCESS
<1>7. r13' \in Nat /\ r13' # 0
  BY <1>1, <1>2 DEF Compute!IInv, Compute!RecordsInv
<1>8. r12' \in Seq(ComputeCodes \cup {Compute!FAILURE})
  BY <1>1, <1>2, CompCausesIs DEF Compute!IInv, Compute!RecordsInv
<1>9. ASSUME NEW x \in DOMAIN r11
      PROVE  CompKept(r11[x], r11'[x])
  <2>1. r11[x] \in Seq(Compute!Outcomes)
    BY DEF Compute!IInv, Compute!RecordsInv
  <2>2. /\ Append(r11[x], "failed") = r11[x] \o <<"failed">>
        /\ Append(r11[x], "skipped") = r11[x] \o <<"skipped">>
    BY <2>1 DEF Compute!Outcomes
  <2>3. <<"failed">> \in Seq({"skipped", "failed"}) /\ <<"skipped">> \in Seq({"skipped", "failed"})
    OBVIOUS
  <2>4. CompKept(r11[x], Append(r11[x], "failed"))
    BY <2>1, <2>2, <2>3, CompGrown
  <2>5. CompKept(r11[x], Append(r11[x], "skipped"))
    BY <2>1, <2>2, <2>3, CompGrown
  <2>6. CompKept(r11[x], r11[x])
    BY <2>1 DEF CompKept
  <2>7. r11'[x] \in {Append(r11[x], "failed"), Append(r11[x], "skipped"), r11[x]}
    BY <1>1
  <2>8. QED
    BY <2>4, <2>5, <2>6, <2>7
<1>10. DOMAIN r11' = DOMAIN r11 /\ r11' = [x \in DOMAIN r11 |-> r11'[x]]
  BY <1>1
<1>13. ASSUME NEW x \in Compute!Unit
       PROVE  Compute!Recorded(x, "failed")' # {}
  <2>1. x \in DOMAIN r11 /\ r11[x] \in Seq(Compute!Outcomes)
    BY <1>2 DEF Compute!IInv, Compute!RecordsInv
  <2>2. r11'[x] = Append(r11[x], "failed")
    BY <1>1, <2>1
  <2>3. /\ Len(r11[x]) + 1 \in DOMAIN Append(r11[x], "failed")
        /\ Append(r11[x], "failed")[Len(r11[x]) + 1] = "failed"
    BY <2>1
  <2>4. \E k \in DOMAIN r11'[x] : r11'[x][k] = "failed"
    BY <2>2, <2>3
  <2>5. QED
    BY <2>4 DEF Compute!Recorded
<1>14. \A x \in Compute!Things, u \in Compute!ToSet(r18') : x \in u =>
         u \in Compute!ToSet(r18) \/ Compute!Recorded(x, "failed")' # {}
  BY <1>4, <1>13
<1>11. Compute!RecordsInv'
  BY <1>1, <1>7, <1>8, <1>9, <1>10, <1>14, CompRecordsGrow DEF Compute!IInv
<1>12. QED
  BY <1>5, <1>6, <1>11 DEF Compute!IInv

\* As many places as things, where none is twice.
LEMMA CompLenIs ==
  ASSUME NEW S, NEW s \in Seq(S), Compute!Distinct(s)
  PROVE  Compute!Cardinality(Compute!ToSet(s)) = Len(s)
<1>1. s \in [1 .. Len(s) -> Compute!ToSet(s)] /\ Len(s) \in Nat
  <2>1. DOMAIN s = 1 .. Len(s) /\ Len(s) \in Nat /\ s = [k \in 1 .. Len(s) |-> s[k]]
    OBVIOUS
  <2>2. \A k \in 1 .. Len(s) : s[k] \in Compute!ToSet(s)
    BY <2>1 DEF Compute!ToSet
  <2>3. QED
    BY <2>1, <2>2
<1>2. s \in Bijection(1 .. Len(s), Compute!ToSet(s))
  <2>1. s \in Injection(1 .. Len(s), Compute!ToSet(s))
    BY <1>1 DEF Injection, IsInjective, Compute!Distinct
  <2>2. s \in Surjection(1 .. Len(s), Compute!ToSet(s))
    BY <1>1 DEF Surjection, Compute!ToSet
  <2>3. QED
    BY <2>1, <2>2 DEF Bijection
<1>3. Cardinality(Compute!ToSet(s)) = Len(s)
  BY <1>1, <1>2, FS_CountingElements DEF ExistsBijection
<1>4. QED
  BY <1>3, CompCardinalityIs

\* What is together is of one Compute Requirement.
LEMMA CompOwnerIs ==
  ASSUME Compute!Parameters, NEW x \in Compute!Things, NEW y \in Compute!Things
  PROVE  Compute!Owner(x) \in CRs /\ (Compute!Together(x, y) => Compute!Owner(x) = Compute!Owner(y))
<1>1. CRs \cap Instances = {} /\ CrOf \in [Instances -> CRs]
  BY DEF Compute!Parameters
<1>2. QED
  BY <1>1 DEF Compute!Owner, Compute!Together, Compute!Things

LEMMA CompAfterHolds ==
  ASSUME Compute!Parameters, Compute!IInv, Compute!After
  PROVE  Compute!IInv'
<1>1. /\ r4 = "act" /\ r4' = "return" /\ r16' = r16 /\ r16 = Compute!Unset
      /\ UNCHANGED <<Compute!line, Compute!finding, r7, Compute!rule, r10, r14, r18, Compute!told>>
  BY DEF Compute!After, Compute!Goes, Compute!IInv, Compute!EndsInv
<1>2. Compute!ItemsInv'
  BY <1>1 DEF Compute!IInv, Compute!ItemsInv, Compute!finding, Compute!rule, Compute!line, Compute!Before, Compute!Distinct
<1>3. Compute!UnitsInv'
  BY <1>1 DEF Compute!IInv, Compute!UnitsInv, Compute!Requested, Compute!Before
<1>4. Compute!RecordsInv'
  BY <1>1, CompRecordsStay DEF Compute!IInv
<1>5. Compute!RuleInv'
  BY <1>1, CompRuleStays DEF Compute!IInv
<1>6. Compute!EndsInv'
  BY <1>1 DEF Compute!EndsInv, Compute!Unset, Compute!SUCCESS
<1>7. CASE ~(r14 # <<>> /\ r15.asked)
  <2>1. Compute!FollowInv'
    BY <1>1, <1>7, CompNotFollowed DEF Compute!After
  <2>2. QED
    BY <1>2, <1>3, <1>4, <1>5, <1>6, <2>1 DEF Compute!IInv
<1>8. CASE r14 # <<>> /\ r15.asked
  <2> DEFINE pick(k) == CHOOSE x \in r14[k] : TRUE
             owners == [k \in DOMAIN r14 |-> Compute!Owner(pick(k))]
             only == \E k \in DOMAIN r14 : r14[k] \subseteq Instances
  <2>1. r15' = [r15 EXCEPT !.of = Compute!Once(owners), !.until = Compute!Until(only)]
    BY <1>8 DEF Compute!After
  <2>2. r14 \in Seq(SUBSET Compute!Things) /\ Compute!ToSet(r14) \subseteq Compute!ToSet(r18)
    BY DEF Compute!IInv, Compute!UnitsInv
  <2>3. ASSUME NEW k \in DOMAIN r14
        PROVE  /\ pick(k) \in r14[k] /\ pick(k) \in Compute!Things /\ r14[k] \in SUBSET Compute!Things
               /\ r14[k] \in Compute!ToSet(r14)
               /\ \A y \in r14[k] : Compute!Together(pick(k), y)
    <3>1. /\ r14[k] \in Compute!ToSet(r14) /\ r14[k] \in Compute!ToSet(r18)
          /\ r14[k] \in Compute!Requested /\ r14[k] \in SUBSET Compute!Things
      <4>1. r14[k] \in Compute!ToSet(r14)
        BY DEF Compute!ToSet
      <4>2. QED
        BY <2>2, <4>1 DEF Compute!Requested
    <3>2. r14[k] # {} /\ \A x, y \in r14[k] : Compute!Together(x, y)
      BY <3>1 DEF Compute!IInv, Compute!UnitsInv
    <3>3. QED
      BY <2>2, <3>1, <3>2
  <2> HIDE DEF pick
  <2>4. owners \in Seq(CRs)
    <3>1. \A k \in DOMAIN r14 : Compute!Owner(pick(k)) \in CRs
      BY <2>3, CompOwnerIs
    <3>2. QED
      BY <2>2, <3>1
  <2>5. Compute!ToSet(owners) = UNION {{Compute!Owner(x) : x \in u} : u \in Compute!ToSet(r14)}
    <3>1. ASSUME NEW k \in DOMAIN r14
          PROVE  {Compute!Owner(x) : x \in r14[k]} = {Compute!Owner(pick(k))}
      <4>1. \A x \in r14[k] : Compute!Owner(x) = Compute!Owner(pick(k))
        BY <2>3, CompOwnerIs
      <4>2. QED
        BY <2>3, <4>1
    <3>2. Compute!ToSet(owners) = {Compute!Owner(pick(k)) : k \in DOMAIN r14}
      BY DEF Compute!ToSet
    <3>3. UNION {{Compute!Owner(x) : x \in u} : u \in Compute!ToSet(r14)}
            = UNION {{Compute!Owner(x) : x \in r14[k]} : k \in DOMAIN r14}
      BY DEF Compute!ToSet
    <3>4. QED
      BY <3>1, <3>2, <3>3
  <2>6. ASSUME Compute!Until(only) = "end", NEW k \in DOMAIN r14
        PROVE  Compute!Asked(owners[k]) # {}
    <3>1. ~only
      BY <2>6 DEF Compute!Until
    <3>2. PICK c \in r14[k] : c \notin Instances
      BY <3>1
    <3>3. pick(k) = c /\ Compute!Owner(c) = c
      BY <2>3, <3>2 DEF Compute!Together, Compute!Owner, Compute!Things
    <3>4. owners[k] = c
      BY <3>3
    <3>5. PICK j \in DOMAIN r18 : r18[j] = r14[k]
      BY <2>2, <2>3 DEF Compute!ToSet
    <3>6. j \in Compute!Asked(c)
      BY <3>2, <3>5 DEF Compute!Asked
    <3>7. QED
      BY <3>4, <3>6
  <2>7. Compute!Until(only) \in Compute!Untils
    BY DEF Compute!Until, Compute!Untils
  <2> HIDE DEF owners, only
  <2>8. /\ Compute!Once(owners) \in Seq(CRs) /\ Compute!Distinct(Compute!Once(owners)) /\ Compute!ToSet(Compute!Once(owners)) = Compute!ToSet(owners)
        /\ Compute!Cardinality(Compute!ToSet(Compute!Once(owners))) = Len(Compute!Once(owners))
    BY <2>4, CompOnceIs, CompLenIs
  <2>9. r15 \in [asked : BOOLEAN, of : Seq(CRs), until : Compute!Untils]
    BY DEF Compute!IInv, Compute!FollowInv
  <2>10. /\ r15' \in [asked : BOOLEAN, of : Seq(CRs), until : Compute!Untils]
         /\ r15'.of = Compute!Once(owners) /\ r15'.until = Compute!Until(only)
    BY <2>1, <2>7, <2>8, <2>9
  <2>11. Compute!Until(only) = "end" => \A m \in DOMAIN Compute!Once(owners) : Compute!Asked(Compute!Once(owners)[m]) # {}
    <3> SUFFICES ASSUME Compute!Until(only) = "end", NEW m \in DOMAIN Compute!Once(owners)
                 PROVE  Compute!Asked(Compute!Once(owners)[m]) # {}
      OBVIOUS
    <3>1. Compute!Once(owners)[m] \in Compute!ToSet(owners)
      BY <2>8 DEF Compute!ToSet
    <3>2. PICK k \in DOMAIN owners : owners[k] = Compute!Once(owners)[m]
      BY <3>1 DEF Compute!ToSet
    <3>3. k \in DOMAIN r14
      BY DEF owners
    <3>4. Compute!Asked(owners[k]) # {}
      BY <2>6, <3>3
    <3>5. QED
      BY <3>2, <3>4
  <2>12. \A x : Compute!Asked(x)' = Compute!Asked(x)
    BY <1>1 DEF Compute!Asked
  <2>13. Compute!FollowedToAnEnd'
    <3>1. PICK of : of = Compute!Once(owners)
      OBVIOUS
    <3>2. r15'.of = of /\ r15'.until = Compute!Until(only) /\ r14' = r14
      BY <1>1, <2>10, <3>1
    <3>3. Compute!ToSet(r15.of)' = Compute!ToSet(of) /\ Compute!ToSet(r14)' = Compute!ToSet(r14)
      BY <3>2 DEF Compute!ToSet
    <3>4. Compute!Until(only) = "end" => \A m \in DOMAIN of : Compute!Asked(of[m]) # {}
      BY <2>11, <3>1
    <3>5. Compute!ToSet(of) = UNION {{Compute!Owner(x) : x \in u} : u \in Compute!ToSet(r14)} /\ Len(of) = Compute!Cardinality(Compute!ToSet(of))
      BY <2>5, <2>8, <3>1
    <3>6. QED
      BY <2>12, <3>2, <3>3, <3>4, <3>5 DEF Compute!FollowedToAnEnd
  <2>14. Compute!FollowInv'
    BY <1>1, <2>10, <2>13 DEF Compute!FollowInv
  <2>15. QED
    BY <1>2, <1>3, <1>4, <1>5, <1>6, <2>14 DEF Compute!IInv
<1>9. QED
  BY <1>7, <1>8

LEMMA CompReturnHolds ==
  ASSUME Compute!Parameters, Compute!IInv, Compute!Return
  PROVE  Compute!IInv'
<1>1. /\ r4 = "return" /\ r4' = "exit"
      /\ UNCHANGED <<Compute!line, Compute!finding, r7, Compute!rule, Compute!acting, Compute!told>>
      /\ r16' = IF r13 = 0 THEN Compute!SUCCESS
                ELSE IF r13 = Len(r12) /\ \A k \in DOMAIN r12 : r12[k] = r12[1]
                THEN r12[1] ELSE Compute!FAILURE
  BY DEF Compute!Return, Compute!Ends
<1>2. Compute!ItemsInv'
  BY <1>1 DEF Compute!IInv, Compute!ItemsInv, Compute!finding, Compute!rule, Compute!line, Compute!Before, Compute!Distinct
<1>3. Compute!UnitsInv' /\ Compute!FollowInv'
  BY <1>1, CompActingStays DEF Compute!IInv, Compute!Before
<1>4. Compute!RecordsInv'
  BY <1>1, CompRecordsStay DEF Compute!IInv, Compute!acting
<1>5. Compute!RuleInv'
  BY <1>1, CompRuleStays DEF Compute!IInv, Compute!acting
<1>6. r13 \in Nat /\ r12 \in Seq(ComputeCodes \cup {Compute!FAILURE}) /\ r13' = r13
  BY <1>1 DEF Compute!IInv, Compute!RecordsInv, Compute!told
<1>7. r13 # 0 /\ r13 = Len(r12) => r12[1] \in ComputeCodes \cup {Compute!FAILURE}
  BY <1>6
<1>8. \A code \in ComputeCodes \cup {Compute!FAILURE} : code # Compute!Unset /\ code # Compute!SUCCESS
  BY CompCodeIs DEF Compute!FAILURE, Compute!Unset, Compute!SUCCESS
<1>9. Compute!FAILURE # Compute!Unset /\ Compute!FAILURE # Compute!SUCCESS /\ Compute!SUCCESS # Compute!Unset
  BY DEF Compute!FAILURE, Compute!Unset, Compute!SUCCESS
<1>10. Compute!EndsInv'
  <2>1. CASE r13 = 0
    BY <1>1, <1>6, <1>9, <2>1 DEF Compute!EndsInv
  <2>2. CASE r13 # 0
    <3>1. r16' \in ComputeCodes \cup {Compute!FAILURE}
      BY <1>1, <1>7, <2>2
    <3>2. QED
      BY <1>1, <1>8, <3>1 DEF Compute!EndsInv
  <2>3. QED
    BY <2>1, <2>2
<1>11. QED
  BY <1>2, <1>3, <1>4, <1>5, <1>10 DEF Compute!IInv

LEMMA CompStepHolds ==
  ASSUME Compute!Parameters, Compute!IInv, [Compute!Next]_(Compute!vars)
  PROVE  Compute!IInv'
<1>1. CASE UNCHANGED Compute!vars
  <2>1. /\ UNCHANGED <<Compute!line, Compute!finding, Compute!rule, Compute!acting, Compute!told>>
        /\ UNCHANGED <<r4, r7, r16, r18>>
    BY <1>1 DEF Compute!vars, Compute!line, Compute!finding, Compute!rule, Compute!acting, Compute!told
  <2>2. Compute!ItemsInv'
    BY <2>1 DEF Compute!IInv, Compute!ItemsInv, Compute!finding, Compute!rule, Compute!line, Compute!Before, Compute!Distinct
  <2>3. Compute!UnitsInv' /\ Compute!FollowInv'
    BY <2>1, CompActingStays DEF Compute!IInv
  <2>4. Compute!RecordsInv'
    BY <2>1, CompRecordsStay DEF Compute!IInv, Compute!acting
  <2>5. Compute!RuleInv'
    BY <2>1, CompRuleStays DEF Compute!IInv, Compute!acting
  <2>6. Compute!EndsInv'
    BY <2>1 DEF Compute!IInv, Compute!EndsInv, Compute!told
  <2>7. QED
    BY <2>2, <2>3, <2>4, <2>5, <2>6 DEF Compute!IInv
<1>2. CASE Compute!Next
  BY <1>2, CompListHolds, CompExpandHolds, CompExpandedHolds, CompResolveHolds, CompResolvedHolds, CompRuleHolds, CompRuledHolds,
     CompConfirmHolds, CompActHolds, CompAfterHolds, CompReturnHolds, CompResolveFailsHolds, CompRuleFailsHolds, CompActFailsHolds
     DEF Compute!Next
<1>3. QED
  BY <1>1, <1>2

\* What the invariant says of the requests.
LEMMA CompOneRequestEachHolds ==
  ASSUME Compute!Parameters, Compute!IInv
  PROVE  Compute!OneRequestEach
<1>1. /\ r18 \in Seq(SUBSET Compute!Things) /\ Compute!Distinct(r18)
      /\ \A k \in DOMAIN r18 : r18[k] \in Compute!ToSet(r18) /\ r18[k] \in Compute!Requested
  BY DEF Compute!IInv, Compute!UnitsInv, Compute!Requested, Compute!ToSet
<1>2. ASSUME NEW x, NEW y, Compute!Together(x, y), NEW k \in Compute!Asked(x), NEW l \in Compute!Asked(y)
      PROVE  k = l
  <2>1. k \in DOMAIN r18 /\ l \in DOMAIN r18 /\ x \in r18[k] /\ y \in r18[l]
    BY DEF Compute!Asked
  <2>2. r18[k] = r18[l]
    BY <1>1, <1>2, <2>1 DEF Compute!IInv, Compute!UnitsInv
  <2>3. QED
    BY <1>1, <2>1, <2>2 DEF Compute!Distinct
<1>3. \A S : (\A i, j \in S : i = j) => Compute!Cardinality(S) = IF S = {} THEN 0 ELSE 1
  <2>1. \A S : (\A i, j \in S : i = j) => S = {} \/ \E i : S = {i}
    OBVIOUS
  <2>2. Cardinality({}) = 0 /\ \A i : Cardinality({i}) = 1
    BY FS_EmptySet, FS_Singleton
  <2>3. QED
    BY <2>1, <2>2, CompCardinalityIs
<1>4. ASSUME NEW x \in Compute!Things
      PROVE  /\ Compute!Cardinality(Compute!Asked(x)) <= 1
             /\ Compute!Cardinality(Compute!Recorded(x, "done")) <= Compute!Cardinality(Compute!Asked(x))
             /\ Compute!Asked(x) # {} => Compute!Recorded(x, "done") \cup Compute!Recorded(x, "failed") # {}
  <2>1. Compute!Together(x, x)
    BY DEF Compute!Together
  <2>2. \A i, j \in Compute!Asked(x) : i = j
    BY <1>2, <2>1
  <2>3. /\ \A i, j \in Compute!Recorded(x, "done") : i = j
        /\ Compute!Recorded(x, "done") # {} => \E u \in Compute!ToSet(r18) : x \in u
        /\ \A u \in Compute!ToSet(r18) :
             x \in u => Compute!Recorded(x, "done") # {} \/ Compute!Recorded(x, "failed") # {}
    BY DEF Compute!IInv, Compute!RecordsInv, Compute!UnitsInv
  <2>4. Compute!Asked(x) # {} <=> \E u \in Compute!ToSet(r18) : x \in u
    BY DEF Compute!Asked, Compute!ToSet
  <2>5. QED
    BY <1>3, <2>2, <2>3, <2>4
<1>5. ASSUME NEW i \in Instances, NEW j \in Instances, CrOf[i] = CrOf[j], Compute!Asked(i) # {}, Compute!Asked(j) # {}
      PROVE  Compute!Asked(i) = Compute!Asked(j)
  <2>1. Compute!Together(i, j) /\ Compute!Together(i, i) /\ Compute!Together(j, j)
    BY <1>5 DEF Compute!Together
  <2>2. QED
    BY <1>2, <1>5, <2>1
<1>6. r16 = Compute!SUCCESS => \A x \in DOMAIN r11 : Compute!Recorded(x, "failed") = {}
  BY DEF Compute!IInv, Compute!EndsInv, Compute!RecordsInv
<1>7. QED
  BY <1>4, <1>5, <1>6 DEF Compute!OneRequestEach

LEMMA CompPoolsOwnLeftHolds ==
  ASSUME Compute!Parameters, Compute!IInv
  PROVE  Compute!PoolsOwnLeft
<1> SUFFICES ASSUME r1 = "autoshutdown", NEW c \in CRs, NEW k \in DOMAIN r3,
                    r3[k].named = c, r3[k].manages = c, Compute!Asked(c) # {}
             PROVE  c \in r9
  BY DEF Compute!PoolsOwnLeft
<1>1. PICK u \in Compute!ToSet(r18) : c \in u
  BY DEF Compute!Asked, Compute!ToSet
<1>2. c \in Compute!ToSet(r8)
  BY <1>1 DEF Compute!IInv, Compute!RuleInv, Compute!Requested
<1>3. r3 \in ListedPools /\ (c \in r9 \/ ~Compute!Manages(c))
  BY <1>2 DEF Compute!IInv, Compute!RuleInv
<1>4. QED
  BY <1>3, CompOwnChecked
-----------------------------------------------------------------------------
LEMMA CompGoesOn ==
  ASSUME Compute!Parameters
  PROVE  (chosen = "compute" => Compute!IInv) /\ [Next]_all => (chosen = "compute" => Compute!IInv)'
<1> SUFFICES ASSUME chosen = "compute" => Compute!IInv, [Next]_all, chosen' = "compute"
             PROVE  Compute!IInv'
  OBVIOUS
<1>1. chosen = "compute" /\ [Compute!Next]_(Compute!vars)
  BY DEF Next, OfCmd, OfCompute, OfUpdate, OfCmp, all, Compute!vars
<1> QED
  BY <1>1, CompStepHolds

LEMMA CompInvariance ==
  ASSUME Compute!Parameters
  PROVE  Spec => [](chosen = "compute" => Compute!IInv)
<1>1. Init => (chosen = "compute" => Compute!IInv)
  BY CompInitHolds DEF Init
<1> QED
  BY <1>1, CompGoesOn, PTL DEF Spec

\* A Compute Requirement takes one request of an action, and its Instances one between
\* them, however they are named; and none is sent that would set the auto shutdown of a
\* Worker Pool's own Compute Requirement (compute_action_common.py).
THEOREM ComputeAskedOnce ==
  ASSUME Compute!Parameters
  PROVE  Spec => []ComputeAsAsked
<1>1. (chosen = "compute" => Compute!IInv) => ComputeAsAsked
  BY CompOneRequestEachHolds, CompPoolsOwnLeftHolds DEF ComputeAsAsked
<1> QED
  BY <1>1, CompInvariance, PTL
-----------------------------------------------------------------------------
\* Whatever fails or is named twice, each thing named has one record at the end, which
\* says what was done of it; and each comparison is reported once.
THEOREM AllTold ==
  ASSUME Cmd!Parameters, Update!Parameters, Cmp!Parameters
  PROVE  Spec => []EachTold
<1>1. /\ chosen = "command" => Cmd!ToldAsDone
      /\ chosen = "update" => Update!ChangedOnceAndTold
      /\ chosen = "compare" => Cmp!AllCompared
      => EachTold
  BY DEF EachTold
<1> QED
  BY <1>1, CommandsTold, ChangedOnce, EachCompared, PTL

\* What is followed comes to an end, and what a command says is done is done: a stream is
\* followed to its end only where the Compute Requirement itself was terminated
\* (compute_action_common.py, cancel.py, shutdown.py, start_hold_common.py).
THEOREM FollowsToTheEnd ==
  ASSUME Cmd!Parameters, Compute!Parameters
  PROVE  Spec => []FollowedIsFinished
<1>1. (chosen = "compute" => Compute!IInv) /\ (chosen = "command" => Cmd!DoneMeansDone)
      => FollowedIsFinished
  BY DEF FollowedIsFinished, Compute!IInv, Compute!FollowInv
<1> QED
  BY <1>1, CompInvariance, CommandsDone, PTL
=============================================================================
