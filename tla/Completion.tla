------------------------------ MODULE Completion ------------------------------
(***************************************************************************)
(* Tab completion's lookups of what is on the Platform                     *)
(* (src/yellowdog_cli/completion.py, utils/completion.py,                  *)
(* utils/completion_lookups.py and utils/completion_cache.py).             *)
(*                                                                         *)
(* Each Tab is a process of its own. Its lookup runs on a thread, which is *)
(* abandoned after LOOKUP_TIMEOUT_SECONDS: the process then answers        *)
(* without it, and its end stops the thread wherever it is. What lookups   *)
(* find is kept in one file each, in a directory that the processes share, *)
(* while the Platform changes and time passes by a clock that may be put   *)
(* back.                                                                   *)
(*                                                                         *)
(* A name or an ID is the sequence of its parts, as typed between '/' or   *)
(* '.'; and a part typed is whole, or empty and begins any.                *)
(***************************************************************************)
EXTENDS Integers, Sequences, FiniteSets

CONSTANTS
  Tabs,           \* how many Tabs are pressed
  Lines,          \* sets of what may be completed together, with the options typed
  Entity,         \* what may be on the Platform: [id, kind, name, ns, tag, of,
                  \* configured, made], 'of' being its parent's id
  Worlds,         \* what may be there at a time: its status for each that is
  CacheSeconds,   \* COMPLETION_CACHE_SECONDS
  Timeout,        \* LOOKUP_TIMEOUT_SECONDS
  MaxItems,       \* LOOKUP_MAX_ITEMS
  MaxParents,     \* LOOKUP_MAX_PARENTS
  MaxTime,        \* bound: the time that passes
  MaxBack,        \* bound: how far the clock is put back
  MaxChanges,     \* bound: the changes of the Platform
  None

\* The Tabs, as they are numbered when pressed
Tab == 1 .. Tabs

Parameters ==
  /\ Tabs \in Nat
  /\ Timeout \in Nat \ {0} /\ CacheSeconds \in Nat \ {0}
  /\ MaxItems \in Nat \ {0} /\ MaxParents \in Nat \ {0}
  /\ \A e, f \in Entity : e.id = f.id \/ e.made = f.made => e = f

VARIABLES
  lines,      \* what may be completed in this behaviour
  there,      \* the Platform: the status of each entity on it
  changes,    \* how often it has changed
  held,       \* what was there at each time, as a set (of no use to the program)
  back,       \* how far the clock has been put back
  pc,         \* where each Tab's lookup is
  request,    \* what it completes
  began,      \* when it was pressed
  todo,       \* its searches, each made only if those before it find nothing
  parents,    \* the entities that its search is within, once found
  items,      \* what its lookup has found
  writing,    \* when it began to write, by the clock
  stale,      \* the files that it found to be too old
  answer,     \* what it has offered, once it has answered
  cache,      \* the answers kept, by their key: [written, items]
  partial     \* the files that the Tabs are writing: the time of each

vars == <<lines, there, changes, held, back, pc, request, began, todo, parents, items,
          writing, stale, answer, cache, partial>>

elapsed == Len(held)
time == elapsed - back
-----------------------------------------------------------------------------
(* What is looked up, for what is typed. *)

Begins(typed, name) == typed \in {"", name}

\* The newest of a set of entities, as many as a page holds
Newest(es, n) == {e \in es : Cardinality({f \in es : f.made > e.made}) < n}

\* Whether names of the lookup's kind may be led by a namespace
Named(lookup) ==
  lookup.kind \in {"WorkRequirement", "ComputeRequirement", "WorkerPool"} /\ ~lookup.ids

\* As a key that did not hold the statuses would be
Key_AnyStatus(s) == [s EXCEPT !.lookup.statuses = {}]

\* What a search depends on, and so the key of its answer
Key(s) == s

Search(of, r, ns, path, typed) ==
  [of |-> of, ns |-> ns, path |-> path, typed |-> typed, tag |-> IF r.lookup.tagged THEN r.tag ELSE "",
   lookup |-> [r.lookup EXCEPT !.groups = FALSE, !.tasks = FALSE]]

\* A namespace typed ahead of '/' is where the user looks, whatever the tag
InNamespace(r, ns) == [Search("entities", r, ns, <<>>, "") EXCEPT !.tag = "", !.lookup.tagged = FALSE]

\* The searches that a request calls for, in order: with what is typed read as the
\* commands read it. None where the configuration does not load, and none for a
\* namespace pattern
Searches(r) ==
  LET l == r.lookup
      \* Of what is asked within 'path' alone: whatever the tag
      within(of, path, typed) == [Search(of, r, r.namespace, path, typed) EXCEPT !.tag = ""]
      depth == Len(r.before)
  IN  CASE ~r.loads                                 -> <<>>
        [] r.loads /\ r.scope # None                -> <<within("pool nodes", r.scope, "")>>
        [] r.loads /\ r.scope = None /\ l.kind = "Instance" /\ depth > 0
                                                    -> <<within("instances of", r.before, "")>>
        [] r.loads /\ l.tasks /\ depth >= 2         -> <<within("tasks", r.before, r.typed),
                                                         within("groups", r.before, "")>>
        [] r.loads /\ l.groups /\ depth = 1         -> <<within("groups", r.before, ""),
                                                         InNamespace(r, r.before[1])>>
        [] r.loads /\ l.groups /\ depth > 1 /\ ~l.tasks
                                                    -> <<within("groups", r.before, "")>>
        [] r.loads /\ Named(l) /\ ~l.groups /\ depth = 1
                                                    -> <<InNamespace(r, r.before[1])>>
        [] r.loads /\ l.kind = "Credential" /\ depth > 0
                                                    -> <<within("credentials", r.before, "")>>
        [] r.loads /\ l.kind = "Credential" /\ depth = 0
                                                    -> <<[within("entities", <<>>, "") EXCEPT !.lookup.kind = "Keyring"]>>
        [] OTHER                                    -> <<Search("entities", r, r.namespace, <<>>, "")>>

\* The entities on the Platform that a search asks for: in a namespace, of a tag, in
\* the statuses that the verb acts on, and a Worker Pool that has a token if it must
Selected(kind, ns, tag, statuses, configured, w) ==
  {e \in Entity : /\ e.id \in DOMAIN w /\ e.kind = kind /\ e.ns \in {ns, None}
                  /\ tag \in {"", e.tag} /\ w[e.id] \in statuses
                  /\ configured => e.configured}

Parental == [Instance |-> "ComputeRequirement", Node |-> "WorkerPool"]
OfParents(lookup) == lookup.kind \in DOMAIN Parental

\* The one of a name that is typed: in the namespace that leads it, else that of
\* the configuration
AtPath(kind, ns, path, w) ==
  {e \in Entity : /\ e.id \in DOMAIN w /\ e.kind = kind
                  /\ path \in {<<e.name>>, <<e.ns, e.name>>}
                  /\ Len(path) = 1 => e.ns = ns}

\* The entities that the search is within
ParentsOf(s, w) ==
  CASE s.of = "entities"     -> IF OfParents(s.lookup)
                                THEN Newest(Selected(Parental[s.lookup.kind], s.ns, s.tag, s.lookup.parents, FALSE, w), MaxParents)
                                ELSE {}
    [] s.of = "pool nodes"   -> AtPath("WorkerPool", s.ns, s.path, w)
    [] s.of = "instances of" -> {e \in Entity : e.id \in DOMAIN w /\ <<e.id>> = s.path /\ e.kind = "ComputeRequirement"}
    [] s.of = "groups"       -> Newest(AtPath("WorkRequirement", s.ns, s.path, w), 1)
    [] s.of = "tasks"        -> {e \in Entity : /\ e.id \in DOMAIN w /\ e.kind = "TaskGroup"
                                                /\ e.name = s.path[Len(s.path)]
                                                /\ \E f \in Newest(AtPath("WorkRequirement", s.ns, SubSeq(s.path, 1, Len(s.path) - 1), w), 1) : e.of = f.id}
    [] s.of = "credentials"  -> {e \in Entity : e.id \in DOMAIN w /\ e.kind = "Keyring" /\ <<e.name>> = s.path}

Children(ps, kind, statuses, w) ==
  {e \in Entity : e.id \in DOMAIN w /\ e.kind = kind /\ w[e.id] \in statuses
                  /\ e.of \in {f.id : f \in ps}}

\* What the search finds within them, or for itself: each as it is offered
ItemsOf(s, ps, w) ==
  LET l == s.lookup
      under(es, path) == {path \o <<e.name>> : e \in Newest(es, MaxItems)}
      byId(es) == {IF e.kind = "Instance" THEN <<e.of, e.id>> ELSE <<e.id>> : e \in Newest(es, MaxItems)}
      asked == Selected(l.kind, s.ns, s.tag, l.statuses, FALSE, w)
  IN  CASE s.of = "entities" /\ OfParents(l)     -> byId(Children(ps, l.kind, l.statuses, w))
        \* A page is filled before those that are not Configured are passed over
        [] s.of = "entities" /\ ~OfParents(l)    ->
             LET es == {e \in Newest(asked, MaxItems) : l.configured => e.configured}
             IN  IF l.ids THEN byId(es) ELSE {<<e.name>> : e \in es}
        [] s.of \in {"pool nodes", "instances of"} -> byId(Children(ps, l.kind, l.statuses, w))
        [] s.of = "groups"                       -> under(Children(ps, "TaskGroup", {w[i] : i \in DOMAIN w}, w), s.path)
        [] s.of = "tasks"                        ->
             under({e \in Children(ps, "Task", l.taskStatuses, w) : Begins(s.typed, e.name)}, s.path)
        [] s.of = "credentials"                  -> under(Children(ps, "Credential", l.statuses, w), s.path)

\* As if what is found were offered whatever is given already
Offered_Again(r, found) ==
  {v \in found : Len(v) > Len(r.before) /\ SubSeq(v, 1, Len(r.before)) = r.before
                 /\ Begins(r.typed, v[Len(r.before) + 1])}

\* Of what is found, what the word begins and the line does not give already
Offered(r, found) ==
  {v \in found : /\ v \notin r.given /\ Len(v) > Len(r.before)
                 /\ SubSeq(v, 1, Len(r.before)) = r.before
                 /\ Begins(r.typed, v[Len(r.before) + 1])}
-----------------------------------------------------------------------------
NoFile == [kept |-> {}, partial |-> {}]

Init ==
  /\ lines \in Lines /\ there \in Worlds /\ changes = 0 /\ held = <<{there}>> /\ back = 0
  /\ pc = [p \in Tab |-> "idle"] /\ request = [p \in Tab |-> None]
  /\ began = [p \in Tab |-> 0] /\ todo = [p \in Tab |-> <<>>]
  /\ parents = [p \in Tab |-> {}] /\ items = [p \in Tab |-> {}]
  /\ writing = [p \in Tab |-> 0] /\ stale = [p \in Tab |-> NoFile]
  /\ answer = [p \in Tab |-> None]
  /\ cache = <<>> /\ partial = <<>>

world == <<lines, there, changes, held, back>>
files == <<cache, partial>>

\* A word is completed by lookup: a thread is begun for it
Press(p) ==
  /\ pc[p] = "idle" /\ \A q \in 1 .. p - 1 : pc[q] # "idle"
  /\ \E r \in lines :
       /\ request' = [request EXCEPT ![p] = r]
       /\ todo' = [todo EXCEPT ![p] = Searches(r)]
       /\ pc' = [pc EXCEPT ![p] = IF Searches(r) = <<>> THEN "found" ELSE "read"]
  /\ began' = [began EXCEPT ![p] = elapsed]
  /\ UNCHANGED <<world, parents, items, writing, stale, answer, files>>

\* As if nothing expired
Fresh_Anyhow(entry) == entry.written <= time

\* An entry of the future, of before the clock was put back, has no known age
Fresh(entry) == time - entry.written \in 0 .. CacheSeconds - 1

\* Whether the answer to a search is kept, and can be used
Kept(s) == Key(s) \in DOMAIN cache /\ Fresh(cache[Key(s)])

\* The answer kept is used, if it is not too old; else the Platform is asked, or the
\* first that a search is within is
Read(p) ==
  /\ pc[p] = "read"
  /\ LET s == Head(todo[p])
     IN  \/ /\ Kept(s)
            /\ items' = [items EXCEPT ![p] = cache[Key(s)].items]
            /\ pc' = [pc EXCEPT ![p] = "found"]
            /\ UNCHANGED parents
         \/ /\ ~Kept(s)
            /\ parents' = [parents EXCEPT ![p] = ParentsOf(s, there)]
            /\ pc' = [pc EXCEPT ![p] = "ask"]
            /\ UNCHANGED items
  /\ UNCHANGED <<world, request, began, todo, writing, stale, answer, files>>

\* The items are asked for. What is found is kept; where nothing is, the search that
\* is left, if any, is made
Ask(p) ==
  /\ pc[p] = "ask"
  /\ LET found == ItemsOf(Head(todo[p]), parents[p], there)
     IN  /\ items' = [items EXCEPT ![p] = found]
         /\ todo' = [todo EXCEPT ![p] = IF found = {} THEN Tail(@) ELSE @]
         /\ pc' = [pc EXCEPT ![p] = IF found # {} THEN "write" ELSE IF todo'[p] = <<>> THEN "found" ELSE "read"]
  /\ parents' = [parents EXCEPT ![p] = {}]
  /\ UNCHANGED <<world, request, began, writing, stale, answer, files>>

\* Anything that goes wrong with a request leaves nothing to offer
Fail(p) ==
  /\ pc[p] = "ask"
  /\ parents' = [parents EXCEPT ![p] = {}] /\ todo' = [todo EXCEPT ![p] = <<>>]
  /\ pc' = [pc EXCEPT ![p] = "found"]
  /\ UNCHANGED <<world, request, began, items, writing, stale, answer, files>>

\* A file of its own is written first; or cannot be, and the answer is not kept
Write(p) ==
  /\ pc[p] = "write"
  /\ \/ /\ partial' = [q \in DOMAIN partial \cup {p} |-> IF q = p THEN time ELSE partial[q]]
        /\ writing' = [writing EXCEPT ![p] = time]
        /\ pc' = [pc EXCEPT ![p] = "replace"]
     \/ pc' = [pc EXCEPT ![p] = "found"] /\ UNCHANGED <<partial, writing>>
  /\ UNCHANGED <<world, request, began, todo, parents, items, stale, answer, cache>>

Without(f, gone) == [x \in DOMAIN f \ gone |-> f[x]]

\* It takes the place of the answer kept before, whole; unless another Tab took it
\* for one that a process left when it ended
Replace(p) ==
  /\ pc[p] = "replace"
  /\ \/ /\ p \in DOMAIN partial
        /\ LET k == Key(Head(todo[p]))
           IN  cache' = [x \in DOMAIN cache \cup {k} |->
                           IF x = k THEN [written |-> writing[p], items |-> items[p]] ELSE cache[x]]
        /\ pc' = [pc EXCEPT ![p] = "look"]
     \/ p \notin DOMAIN partial /\ pc' = [pc EXCEPT ![p] = "found"] /\ UNCHANGED cache
  /\ partial' = Without(partial, {p})
  /\ UNCHANGED <<world, request, began, todo, parents, items, writing, stale, answer>>

\* The files that are too old are looked for, those that ended processes left among them
Look(p) ==
  /\ pc[p] = "look"
  /\ stale' = [stale EXCEPT ![p] =
                 [kept    |-> {k \in DOMAIN cache : writing[p] - cache[k].written >= CacheSeconds},
                  partial |-> {q \in DOMAIN partial : writing[p] - partial[q] >= CacheSeconds}]]
  /\ pc' = [pc EXCEPT ![p] = "remove"]
  /\ UNCHANGED <<world, request, began, todo, parents, items, writing, answer, files>>

\* And removed by name, whatever has taken its place since
Remove(p) ==
  /\ pc[p] = "remove"
  /\ cache' = Without(cache, stale[p].kept) /\ partial' = Without(partial, stale[p].partial)
  /\ stale' = [stale EXCEPT ![p] = NoFile]
  /\ pc' = [pc EXCEPT ![p] = "found"]
  /\ UNCHANGED <<world, request, began, todo, parents, items, writing, answer>>

\* The process answers: with what the lookup found, or without it when its time is
\* up, and then whatever can be offered without it
Answer(p) ==
  /\ answer[p] = None /\ pc[p] # "idle"
  /\ \/ pc[p] = "found" /\ answer' = [answer EXCEPT ![p] = Offered(request[p], items[p])]
     \/ /\ pc[p] # "found" /\ elapsed - began[p] >= Timeout
        /\ answer' = [answer EXCEPT ![p] = {}]
  /\ UNCHANGED <<world, pc, request, began, todo, parents, items, writing, stale, files>>

\* And ends, its thread with it wherever that is: its file is left as it is
Exit(p) ==
  /\ answer[p] # None /\ pc[p] # "done"
  /\ pc' = [pc EXCEPT ![p] = "done"]
  /\ request' = [request EXCEPT ![p] = None] /\ began' = [began EXCEPT ![p] = 0]
  /\ todo' = [todo EXCEPT ![p] = <<>>] /\ parents' = [parents EXCEPT ![p] = {}]
  /\ items' = [items EXCEPT ![p] = {}] /\ writing' = [writing EXCEPT ![p] = 0]
  /\ stale' = [stale EXCEPT ![p] = NoFile] /\ answer' = [answer EXCEPT ![p] = {}]
  /\ UNCHANGED <<world, files>>

\* What is on the Platform changes, by others; before the first Tab it is another
\* Platform to begin with
Change ==
  /\ changes < MaxChanges /\ pc[1] # "idle"
  /\ there' \in Worlds \ {there}
  /\ changes' = changes + 1
  /\ held' = [held EXCEPT ![elapsed] = @ \cup {there'}]
  /\ UNCHANGED <<lines, back, pc, request, began, todo, parents, items, writing, stale, answer, files>>

\* Time passes, but not past that at which a Tab answers; it is of no consequence
\* before the first
Tick ==
  /\ elapsed < MaxTime /\ pc[1] # "idle"
  /\ \A p \in Tab : pc[p] \notin {"idle", "done"} => elapsed - began[p] < Timeout
  /\ held' = Append(held, {there})
  /\ UNCHANGED <<lines, there, changes, back, pc, request, began, todo, parents, items, writing, stale, answer, files>>

\* The clock is put back, which is of no consequence before an answer is kept
PutBack ==
  /\ back < MaxBack /\ cache # <<>>
  /\ back' = back + 1
  /\ UNCHANGED <<lines, there, changes, held, pc, request, began, todo, parents, items, writing, stale, answer, files>>

TabStep(p) ==
  \/ Press(p) \/ Read(p) \/ Ask(p) \/ Fail(p) \/ Write(p) \/ Replace(p)
  \/ Look(p) \/ Remove(p) \/ Answer(p) \/ Exit(p)

\* What follows the last answer is of consequence to no Tab
Next ==
  /\ \E p \in Tab : answer[p] = None
  /\ (\E p \in Tab : TabStep(p)) \/ Change \/ Tick \/ PutBack

Spec == Init /\ [][Next]_vars
-----------------------------------------------------------------------------
\* Each variable holds values of its kind.
TypeOK ==
  /\ lines \in Lines /\ there \in Worlds /\ held \in Seq(SUBSET Worlds) /\ back \in 0 .. MaxBack
  /\ pc \in [Tab -> {"idle", "read", "ask", "write", "replace", "look", "remove", "found", "done"}]
  /\ DOMAIN partial \subseteq Tab
  /\ \A k \in DOMAIN cache : cache[k].written \in Int /\ cache[k].items # {}

\* What the command would take for the word, in what was there at two moments: the
\* one that it is within (u), and itself (w).
WouldTake(r, v, u, w) ==
  LET l == r.lookup
      n == Len(v)
      at(kind, of) == {e \in Entity : e.id \in DOMAIN w /\ e.kind = kind /\ e.of = of}
      in(kind, ns, name) == {e \in Entity : e.id \in DOMAIN u /\ e.kind = kind /\ e.ns = ns /\ e.name = name}
      own(kind, statuses) == {e \in Entity : /\ e.kind = kind /\ e.id \in DOMAIN u /\ e.ns \in {r.namespace, None}
                                             /\ u[e.id] \in statuses
                                             /\ l.tagged => r.tag \in {"", e.tag}}
      named(kind, name) == IF Len(name) = 1 THEN in(kind, r.namespace, name[1]) ELSE in(kind, name[1], name[2])
  IN  CASE OfParents(l) ->
             \E e \in Entity : /\ e.id = v[n] /\ e.kind = l.kind /\ e.id \in DOMAIN w /\ w[e.id] \in l.statuses
                               /\ \/ \E f \in own(Parental[l.kind], l.parents) : e.of = f.id
                                  \/ r.scope # None /\ \E f \in named("WorkerPool", r.scope) : e.of = f.id
                                  \/ r.before = <<e.of>>
        [] l.groups /\ n = 1 -> \E e \in own(l.kind, l.statuses) : e.name = v[1]
        [] l.groups /\ n > 1 ->
             \/ \E f \in named("WorkRequirement", SubSeq(v, 1, n - 1)) : \E e \in at("TaskGroup", f.id) : e.name = v[n]
             \/ n = 2 /\ \E e \in in(l.kind, v[1], v[2]) : u[e.id] \in l.statuses
             \/ /\ l.tasks /\ n > 2
                /\ \E f \in named("WorkRequirement", SubSeq(v, 1, n - 2)) :
                     \E g \in Entity : /\ g.of = f.id /\ g.name = v[n - 1]
                                       /\ \E e \in at("Task", g.id) : e.name = v[n] /\ w[e.id] \in l.taskStatuses
        [] Named(l) /\ ~l.groups /\ n = 2 ->
             \E e \in in(l.kind, v[1], v[2]) : u[e.id] \in l.statuses /\ (l.configured => e.configured)
        [] l.kind = "Credential" ->
             IF n = 1 THEN \E e \in own("Keyring", l.statuses) : e.name = v[1]
             ELSE \E f \in in("Keyring", None, v[1]) : \E e \in at("Credential", f.id) : e.name = v[2]
        [] OTHER -> \E e \in own(l.kind, l.statuses) :
                      (l.configured => e.configured) /\ v = <<IF l.ids THEN e.id ELSE e.name>>

\* A Tab offers what the command would take, of its own namespace, tag and statuses,
\* as it was no longer ago than an answer is kept and two lookups take, and as long
\* again as the clock was put back meanwhile: however the lookups of other Tabs, and
\* their ends, fall between the steps of its own.
OffersWhatWasThere ==
  \A p \in Tab :
    answer[p] = None /\ answer'[p] # None =>
      LET lately == UNION {held[t] : t \in {u \in DOMAIN held : u > elapsed - (CacheSeconds + 2 * Timeout + back)}}
      IN  \A v \in answer'[p] : /\ v \notin request[p].given
                                /\ \E u, w \in lately : WouldTake(request[p], v, u, w)
=============================================================================
