-------------------------------- MODULE Names --------------------------------
(***************************************************************************)
(* How names and name patterns are read: utils/named_targets.py ('yd work  *)
(* show', 'follow', 'wait', 'compare'), utils/work_targets.py ('abort',    *)
(* 'priority') and the lookups of utils/entity_utils.py that they make.    *)
(*                                                                         *)
(* A name can be reused once what had it has finished; 'a/b' reads as Task *)
(* Group b of Work Requirement a, or as Work Requirement b of namespace a; *)
(* the Task Groups of a Work Requirement are fetched once in a run.  The   *)
(* Platform goes on between two lookups.                                   *)
(*                                                                         *)
(* A name is the sequence of its parts, and a pattern has "*" for the last.*)
(***************************************************************************)
EXTENDS Integers, Sequences, FiniteSets, SequencesExt

CONSTANTS
  Works,             \* Work Requirements
  Of,                \* Of[w]: its [ns, name], and when it was made
  Groups,
  In,                \* In[g]: a Task Group's [work, name]
  Families, Fam,     \* Image Families: [ns, name, groups, public]
  Asked,             \* what is looked up: [type, liveOnly, targets]
  Namespace          \* the configured namespace

Parameters ==
  /\ \A w \in Works : Of[w].made \in Nat
  /\ \A g \in Groups : In[g].work \in Works
  /\ \A a \in Asked : a.type \in {"work", "group", "either", "act", "image"}

VARIABLES
  type, liveOnly,    \* of the command
  left,              \* the targets still to be looked up
  found,             \* what those before it gave, in order
  refused,           \* why those that gave none did
  code,
  families,          \* external: the Image Families there are
  works, live,       \* external: the Work Requirements, and what is unfinished
  known              \* known[w]: the Task Groups of w, and what was then
                     \* unfinished, as they were fetched, or NotFetched

vars == <<type, liveOnly, left, found, refused, code, families, works, live, known>>
platform == <<works, live, families>>

Running == -1
OK == 0
FAILURE == 1
NOT_FOUND == 6
None == "none"
Ambiguous == "ambiguous"
Malformed == "malformed"
NotOne == {None, Ambiguous, Malformed}
NotFetched == [done |-> FALSE, groups |-> {}, live |-> {}]

IsPattern(t) == t # <<>> /\ t[Len(t)] = "*"
Matches(name, p) == p = "*" \/ name = p

Init ==
  /\ \E a \in Asked : type = a.type /\ liveOnly = a.liveOnly /\ left = a.targets
  /\ works \in (IF type = "image" THEN {{}} ELSE SUBSET Works)
  /\ live \in SUBSET (works \cup {g \in Groups : In[g].work \in works})
  /\ families \in (IF type = "image" THEN SUBSET Families ELSE {{}})
  /\ \A g \in Groups : g \in live => In[g].work \in live
  /\ found = <<>> /\ refused = <<>> /\ code = Running
  /\ known = [w \in Works |-> NotFetched]
-----------------------------------------------------------------------------
(* Work Requirements and Task Groups. *)

GroupsOf(w) == {g \in Groups : In[g].work = w}
Newest(ws) == CHOOSE w \in ws : \A v \in ws : Of[v].made <= Of[w].made
Named(ns, name) == {w \in works : Of[w].ns = ns /\ Of[w].name = name}

\* Mutant: the newest of a name, whether it is finished or not.
Find_Newest(ns, name) ==
  IF Named(ns, name) = {} THEN None ELSE Newest(Named(ns, name))

\* find_work_requirement_by_name(): one that is unfinished, else the newest
Find(ns, name) ==
  LET candidates == Named(ns, name)
      preferred == candidates \cap live
  IN CASE candidates = {} -> None
       [] Cardinality(preferred) > 1 -> Ambiguous
       [] Cardinality(preferred) = 1 -> CHOOSE w \in preferred : TRUE
       [] OTHER -> Newest(candidates)

\* The Task Groups fetched, with what was unfinished when they were
Fetched(w) == IF known[w].done THEN known[w] ELSE [done |-> TRUE, groups |-> GroupsOf(w), live |-> live]

GroupNamed(w, name) == LET gs == {g \in Fetched(w).groups : In[g].name = name}
                       IN IF w \in NotOne \/ gs = {} THEN None ELSE CHOOSE g \in gs : TRUE

\* A leading "/" names no namespace
Parts(t) == IF Len(t) > 1 /\ t[1] = "" THEN Tail(t) ELSE t

\* resolve_named_target() of 'a/b': the Task Group first
TwoParts(x, y) ==
  LET w == Find(Namespace, x)
      other == Find(x, y)
  IN IF w \notin NotOne /\ GroupNamed(w, y) # None THEN GroupNamed(w, y)
     ELSE IF other # None THEN other
     ELSE IF w = Ambiguous THEN Ambiguous ELSE None

Resolve(t) ==
  LET p == Parts(t) IN
  CASE Len(p) = 1 -> Find(Namespace, p[1])
    [] Len(p) = 2 -> TwoParts(p[1], p[2])
    [] Len(p) = 3 -> LET w == Find(p[1], p[2])
                     IN IF w \in NotOne THEN w ELSE GroupNamed(w, p[3])
    [] OTHER -> Malformed

\* Whose Task Groups that reading fetches
Reads(t) ==
  LET p == Parts(t)
      w == IF Len(p) = 3 THEN Find(p[1], p[2]) ELSE IF Len(p) = 2 THEN Find(Namespace, p[1]) ELSE None
  IN {w} \ NotOne

MatchingWorks(ns, p, all) == {w \in works : Of[w].ns = ns /\ Matches(Of[w].name, p) /\ (all \/ w \in live)}
MatchingGroups(w, p, all) ==
  {g \in Fetched(w).groups : Matches(In[g].name, p) /\ (all \/ g \in Fetched(w).live)}

\* matching_work_ids(): the unfinished that an action's pattern stands for
MatchingIds(t) ==
  LET p == Parts(t)
      last == p[Len(p)]
  IN CASE Len(p) = 1 -> MatchingWorks(Namespace, last, FALSE)
       [] Len(p) = 2 -> LET w == Find(Namespace, p[1])
                            gs == IF w \in NotOne THEN {} ELSE MatchingGroups(w, last, FALSE)
                        IN IF gs # {} THEN gs ELSE MatchingWorks(p[1], last, FALSE)
       [] OTHER -> LET w == Find(p[1], p[2])
                   IN IF w \in NotOne THEN {w} ELSE MatchingGroups(w, last, FALSE)

WellFormed(t) == Len(t) \in (IF type = "work" THEN {1, 2} ELSE {2, 3})

\* _matching_ids(): the Work Requirement of a Task Group's pattern is read only as one
PatternIds(t, all) ==
  IF ~WellFormed(t) THEN {Malformed}
  ELSE IF type = "work"
  THEN MatchingWorks(IF Len(t) = 2 THEN t[1] ELSE Namespace, t[Len(t)], all)
  ELSE LET w == IF Len(t) = 3 THEN Find(t[1], t[2]) ELSE Find(Namespace, t[1])
       IN IF w \in NotOne THEN {w} ELSE MatchingGroups(w, t[Len(t)], all)

\* target_id(), or work_target_id() of yd-compare
TargetId(t) ==
  CASE type = "either" -> IF IsPattern(t) THEN Malformed ELSE Resolve(t)
    [] type = "work" -> IF Len(t) = 1 THEN Find(Namespace, t[1])
                        ELSE IF Len(t) = 2 THEN Find(t[1], t[2]) ELSE Malformed
    [] type = "group" -> IF ~WellFormed(t) THEN Malformed
                         ELSE IF Resolve(t) \in Groups \cup NotOne THEN Resolve(t) ELSE None
    [] OTHER -> Resolve(t)

\* _ids_of(): one for a name; a pattern all of whose matches have finished gives none
IdsOf(t) ==
  IF ~IsPattern(t) \/ type = "either" THEN {TargetId(t)}
  ELSE IF type = "act" THEN MatchingIds(t)
  ELSE LET ids == PatternIds(t, ~liveOnly)
       IN IF ids # {} THEN ids
          ELSE IF liveOnly /\ PatternIds(t, TRUE) # {} THEN {} ELSE {None}
-----------------------------------------------------------------------------
(* Images: get_image_name_or_id(). *)

\* A family, or a group of one: <<family, group>>
One(fs) == IF fs = {} THEN <<None, "">> ELSE IF Cardinality(fs) = 1 THEN CHOOSE f \in fs : TRUE
           ELSE <<Ambiguous, "">>
Plain(fs) == {<<f, "">> : f \in fs}

NamespaceFamily(ns, name) == {f \in families : Fam[f].ns = ns /\ Fam[f].name = name}
FamilyGroup(name, group) == {f \in families : Fam[f].name = name /\ group \in Fam[f].groups}

\* Mutant: 'family/group' is tried before 'namespace/family'.
Image_GroupFirst(t) ==
  CASE Len(t) = 1 -> One(Plain({f \in families : Fam[f].name = t[1]}))
    [] Len(t) = 2 -> LET fs == FamilyGroup(t[1], t[2])
                     IN IF fs # {} THEN One({<<f, t[2]>> : f \in fs})
                        ELSE One(Plain(NamespaceFamily(t[1], t[2])))
    [] OTHER -> LET fs == NamespaceFamily(t[1], t[2])
                IN IF fs = {} THEN <<None, "">>
                   ELSE One({<<f, t[3]>> : f \in {h \in fs : t[3] \in Fam[h].groups}})

Image(t) ==
  CASE Len(t) = 1 -> One(Plain({f \in families : Fam[f].name = t[1]}))
    [] Len(t) = 2 -> LET fs == NamespaceFamily(t[1], t[2])
                     IN IF Cardinality(fs) = 1 THEN One(Plain(fs))
                        ELSE One({<<f, t[2]>> : f \in FamilyGroup(t[1], t[2])})
    [] Len(t) = 3 -> LET fs == NamespaceFamily(t[1], t[2])
                     IN IF fs = {} THEN <<None, "">>
                        ELSE IF \E f \in fs : t[3] \in Fam[f].groups
                        THEN One({<<f, t[3]>> : f \in {h \in fs : t[3] \in Fam[h].groups}})
                        ELSE <<Malformed, "">>
    [] OTHER -> <<None, "">>
-----------------------------------------------------------------------------
(* A target at a time. *)

Once(s) == FoldLeft(LAMBDA acc, x : IF x \in ToSet(acc) THEN acc ELSE Append(acc, x), <<>>, s)
Causes(x) == IF x = None THEN NOT_FOUND ELSE FAILURE

\* resolved_each(): every name refused is reported
Lookup ==
  /\ left # <<>> /\ code = Running /\ type # "image"
  /\ LET ids == IdsOf(Head(left)) IN
       IF ids \cap NotOne # {}
       THEN /\ refused' = Append(refused, CHOOSE x \in ids \cap NotOne : TRUE)
            /\ UNCHANGED found
       ELSE /\ found' = Once(found \o SetToSeq(ids))
            /\ UNCHANGED refused
  /\ known' = [w \in Works |-> IF w \in Reads(Head(left)) THEN Fetched(w) ELSE known[w]]
  /\ left' = Tail(left)
  /\ UNCHANGED <<type, liveOnly, code, platform>>

\* A name that is no Image's is passed on; one that could be two stops the command
LookupImage ==
  /\ left # <<>> /\ code = Running /\ type = "image"
  /\ IF Image(Head(left))[1] \in {Ambiguous, Malformed}
     THEN refused' = Append(refused, Image(Head(left))[1]) /\ left' = <<>> /\ UNCHANGED found
     ELSE found' = Append(found, Image(Head(left))) /\ left' = Tail(left) /\ UNCHANGED refused
  /\ UNCHANGED <<type, liveOnly, code, platform, known>>

\* With any refused, the cause that they share
Finish ==
  /\ left = <<>> /\ code = Running
  /\ LET causes == {Causes(refused[k]) : k \in DOMAIN refused} IN
       code' = IF causes = {} THEN OK
               ELSE IF Cardinality(causes) = 1 THEN CHOOSE c \in causes : TRUE ELSE FAILURE
  /\ UNCHANGED <<type, liveOnly, left, found, refused, platform, known>>

\* External: something finishes, a Work Requirement with its Task Groups
Finishes(x) ==
  /\ code = Running /\ left # <<>>
  /\ x \in live
  /\ live' = live \ ({x} \cup GroupsOf(x))
  /\ UNCHANGED <<type, liveOnly, left, found, refused, code, works, families, known>>

Next == Lookup \/ LookupImage \/ Finish \/ \E x \in Works \cup Groups : Finishes(x)

Spec == Init /\ [][Next]_vars
-----------------------------------------------------------------------------
(* What it is meant to ensure. *)

\* The things a name can mean, by each of its readings
WorksMeant(t) ==
  LET p == Parts(t) IN
  IF Len(p) = 1 THEN Named(Namespace, p[1]) ELSE IF Len(p) = 2 THEN Named(p[1], p[2]) ELSE {}
GroupsMeant(t) ==
  LET p == Parts(t)
      owners == IF Len(p) = 2 THEN Named(Namespace, p[1]) ELSE IF Len(p) = 3 THEN Named(p[1], p[2]) ELSE {}
  IN {g \in Groups : In[g].work \in owners /\ In[g].name = p[Len(p)]}

\* A name gives what it means, and no more than one thing: a Work Requirement only if
\* no Task Group was meant of one that could be told; one that has finished only if
\* none of its name is unfinished; the newest of those that have.  A name refused as
\* not found means nothing that could have been given.
Meant ==
  \A x \in ToSet(found') \ ToSet(found) :
       type # "image" /\ ~IsPattern(Head(left)) =>
         LET t == Head(left) IN
         /\ x \in WorksMeant(t) \cup GroupsMeant(t)
         /\ x \in Works => /\ \A w \in WorksMeant(t) : w # x => w \notin live
                           /\ x \notin live => \A w \in WorksMeant(t) : Of[w].made <= Of[x].made
                           /\ \A g \in GroupsMeant(t) : g \in live /\ type # "work" =>
                                Cardinality(Named(Of[In[g].work].ns, Of[In[g].work].name) \cap live) > 1
         /\ x \in Groups => In[x].work \in live
              \/ Named(Of[In[x].work].ns, Of[In[x].work].name) \cap live = {}
MeansWhatItGives == [][Meant]_vars

\* An Image name gives the one Image that it is the name of, read with a namespace
\* before it is read with a group; where it could be several, none is picked.
ImagesMean ==
  type = "image" /\ found' # found =>
       LET t == Head(left)
           x == found'[Len(found')]
           plain == {f \in families : t = <<Fam[f].name>> \/ t = <<Fam[f].ns, Fam[f].name>>}
           inGroup == {f \in families : \E g \in Fam[f].groups :
                         t = <<Fam[f].name, g>> \/ t = <<Fam[f].ns, Fam[f].name, g>>}
       IN IF plain # {} THEN Plain(plain) = {x}
          ELSE IF inGroup # {} THEN inGroup = {x[1]} /\ x[2] = t[Len(t)] ELSE x[1] = None
ImageMeant == [][ImagesMean]_vars
=============================================================================
