----------------------------- MODULE ResourceRun -----------------------------
(***************************************************************************)
(* A run of 'yd create' or 'yd remove' over a list of resources            *)
(* (utils/resource_processing.py): the list is put in the order of         *)
(* reference (utils/load_resources.py), and each resource is created,      *)
(* updated or removed by its type (utils/resource_creation.py and          *)
(* utils/resource_removal.py), a failure recorded and the run carried on   *)
(* past it, unless it is one of the session.                               *)
(*                                                                         *)
(* What one type's creation or removal does is a sequence of steps, each a *)
(* request of the Platform, a question to the user or a record.  Lookups   *)
(* by name go through the caches of utils/entity_utils.py, which a change  *)
(* clears.  Names that do not refer to one another are not looked for, and *)
(* an interruption is not modelled.                                        *)
(***************************************************************************)
EXTENDS Integers, Sequences, FiniteSets

CONSTANTS
  Name,              \* the resources, by their names or IDs
  TypeOf,            \* TypeOf[n]: the type of n's specification
  Refs,              \* Refs[n]: those it refers to by name
  Lists,             \* the lists that may be given: sequences of [name, by]
  Codes              \* the exit codes of failures, of 1, 4, 5, 6, 7 and 8

SUCCESS == 0
FAILURE == 1
NOT_FOUND == 6
SESSION_FAILURES == {4, 8}
Unset == -1

RESOURCE_CREATION_ORDER ==
  <<"Namespace", "Keyring", "Credential", "Image", "Attribute", "Source",
    "Requirement", "Allowance", "Policy", "Pool", "Group", "Application", "User">>
Types == {RESOURCE_CREATION_ORDER[k] : k \in DOMAIN RESOURCE_CREATION_ORDER}

Parameters ==
  /\ DOMAIN TypeOf = Name          \* a type may be unknown
  /\ Refs \in [Name -> SUBSET Name]
  /\ \A l \in Lists : l \in Seq([name : Name, by : {"specification", "ID"}])
  /\ Codes \subseteq {1, 4, 5, 6, 7, 8}

VARIABLES
  creating,          \* whether the command creates or removes
  resequence,        \* without '--no-resequence'
  items,             \* the list, in the order of the run
  index,             \* the item under way
  program,           \* the steps that are left of it
  found,             \* it exists already
  cache,             \* what the cached lookups of each name found
  told,              \* told[i]: the actions recorded of the item i
  failures,          \* the codes of those that failed
  exit,              \* the exit code
  exists,            \* external: what is on the Platform
  added, changed,    \* for the properties: the items whose creation was
                     \* acknowledged, and those that changed anything
  missed,            \* for the properties: lookups that found nothing, [item, name]
  replaced           \* for the properties: items whose old Allowance has gone

input == <<creating, resequence, items>>
history == <<added, changed, missed, replaced>>
vars == <<input, index, program, found, cache, told, failures, exit, exists, history>>

Item == DOMAIN items
Actions == {"created", "updated", "removed", "skipped", "failed"}

TypeOK ==
  /\ index \in 0 .. Len(items)
  /\ found \in BOOLEAN
  /\ cache \in [Name -> {"unset", "there", "absent"}]
  /\ told \in [Item -> SUBSET Actions]
  /\ failures \in Seq(Codes \cup {FAILURE, NOT_FOUND})
  /\ exit \in {Unset, SUCCESS, FAILURE, NOT_FOUND} \cup Codes
  /\ exists \subseteq Name
  /\ added \subseteq changed /\ changed \subseteq Item /\ replaced \subseteq Item
  /\ missed \subseteq [item : Item, name : Name]
-----------------------------------------------------------------------------
(* The order of the run. *)

\* Unknown types are last, and first on removal
Rank(n) == IF TypeOf[n] \in Types
           THEN CHOOSE k \in DOMAIN RESOURCE_CREATION_ORDER :
                  RESOURCE_CREATION_ORDER[k] = TypeOf[n]
           ELSE Len(RESOURCE_CREATION_ORDER) + 1

\* The order that a stable sort by 'before' gives
Sorted(l, before(_, _)) ==
  LET Earlier(i, j) == before(l[i], l[j]) \/ (~before(l[j], l[i]) /\ i < j)
      Place(k) == CHOOSE i \in DOMAIN l :
                    Cardinality({j \in DOMAIN l : Earlier(j, i)}) = k - 1
  IN [k \in DOMAIN l |-> l[Place(k)]]

\* Mutant: resources are removed in the order of creation.
Sequenced_AsCreated(l, create) ==
  Sorted(l, LAMBDA a, b : Rank(a.name) < Rank(b.name))

\* _resequence_resources(), and remove_resources_and_ids() with IDs too
Sequenced(l, create) ==
  IF create THEN Sorted(l, LAMBDA a, b : Rank(a.name) < Rank(b.name))
            ELSE Sorted(l, LAMBDA a, b : Rank(a.name) > Rank(b.name))

\* An ID is removed only, and once
Givable(l, create) ==
  /\ create => \A i \in DOMAIN l : l[i].by = "specification"
  /\ \A i, j \in DOMAIN l : l[i].by = "ID" /\ l[i] = l[j] => i = j

\* What else is on the Platform does not matter
Concerned == UNION {{items[i].name} \cup Refs[items[i].name] : i \in DOMAIN items}

Init ==
  /\ creating \in BOOLEAN /\ resequence \in BOOLEAN
  /\ \E l \in Lists :
       /\ Givable(l, creating)
       /\ items = IF resequence THEN Sequenced(l, creating) ELSE l
  /\ index = 0 /\ program = <<>> /\ found = FALSE
  /\ cache = [n \in Name |-> "unset"]
  /\ told = [i \in DOMAIN items |-> {}]
  /\ failures = <<>> /\ exit = Unset
  /\ exists \in SUBSET Concerned
  /\ added = {} /\ changed = {} /\ missed = {} /\ replaced = {}
-----------------------------------------------------------------------------
(* What each type's creation does: the steps up to those that depend on    *)
(* whether it exists, and the steps to add it and to update it.            *)

CreateSource == [look |-> <<"images", "find">>, add |-> <<"put", "clear", "record">>,
                 update |-> <<"confirm", "put", "clear", "record">>]

CreateRequirement ==
  [look |-> <<"resolve", "images", "find">>, add |-> <<"put", "clear", "record">>,
   update |-> <<"confirm", "put", "clear", "record">>]

CreateKeyring == [look |-> <<"find">>, add |-> <<"put", "clear", "record">>,
                  update |-> <<"confirm", "put", "clear", "record">>]

\* A put, refused if there is no such Keyring
CreateCredential == [look |-> <<>>, add |-> <<"put in", "record">>, update |-> <<>>]

\* Its Image Groups and Images are changed once it is, each recorded as it is
CreateImageFamily ==
  [look |-> <<"get">>, add |-> <<"put", "clear", "record", "members">>,
   update |-> <<"confirm", "put", "clear", "record", "members">>]

CreatePool == [look |-> <<>>, add |-> <<"put", "record">>, update |-> <<>>]

\* Mutant: the Allowances to replace are removed first.
CreateAllowance_RemovesFirst ==
  [look |-> <<"resolve", "choose">>, add |-> <<"replace", "put", "record">>, update |-> <<>>]

\* The Allowances it replaces are chosen before it is added, and removed after
CreateAllowance ==
  [look |-> <<"resolve", "choose">>, add |-> <<"put", "record", "replace">>, update |-> <<>>]

\* One that exists is found out by the conflict
CreateAttribute == [look |-> <<>>, add |-> <<"post", "record">>,
                    update |-> <<"confirm", "put", "record">>]

CreatePolicy == [look |-> <<"get">>, add |-> <<"put", "record">>,
                 update |-> <<"confirm", "put", "record">>]

\* Mutant: a new Group is recorded once its roles are added, if they are.
CreateGroup_ToldAtEnd ==
  [look |-> <<"check", "find">>, add |-> <<"put", "clear", "members", "record">>,
   update |-> <<"confirm", "put", "clear", "members", "clear", "record">>]

\* Its roles are resolved first, and are added once it is
CreateGroup ==
  [look |-> <<"check", "find">>, add |-> <<"put", "clear", "roles", "record">>,
   update |-> <<"confirm", "put", "clear", "members", "clear", "record">>]

\* Its Groups, then its Keyring grants, which need a new key
CreateApplication ==
  [look |-> <<"resolve", "find">>,
   add |-> <<"put", "record", "clear", "members", "members">>,
   update |-> <<"check", "confirm", "put", "clear", "members", "record", "members">>]

UpdateUser == [look |-> <<"resolve", "fetch">>, add |-> <<"confirm", "members", "record">>,
               update |-> <<>>]

CreateNamespace == [look |-> <<>>, add |-> <<"post", "record">>, update |-> <<"skip">>]

Unknown == [look |-> <<"refuse">>, add |-> <<>>, update |-> <<>>]

\* _create_resource()
Creation(type) ==
  CASE type = "Source" -> CreateSource
    [] type = "Requirement" -> CreateRequirement
    [] type = "Keyring" -> CreateKeyring
    [] type = "Credential" -> CreateCredential
    [] type = "Image" -> CreateImageFamily
    [] type = "Pool" -> CreatePool
    [] type = "Allowance" -> CreateAllowance
    [] type = "Attribute" -> CreateAttribute
    [] type = "Policy" -> CreatePolicy
    [] type = "Group" -> CreateGroup
    [] type = "Application" -> CreateApplication
    [] type = "User" -> UpdateUser
    [] type = "Namespace" -> CreateNamespace
    [] OTHER -> Unknown
-----------------------------------------------------------------------------
(* What each type's removal does: it is skipped if it is not found. *)

RemoveSource == <<"find", "confirm", "delete", "clear", "record">>
RemoveRequirement == <<"find", "confirm", "delete", "clear", "record">>
RemoveKeyring == <<"find", "confirm", "delete", "clear", "record">>

\* Skipped too if the Keyring is not found: it may have been removed already
RemoveCredential == <<"confirm", "delete from", "record">>
RemoveImageFamily == <<"get", "confirm", "delete", "clear", "record">>

\* Those of the name that have not finished are shut down
RemovePool == <<"get", "confirm", "delete", "record">>

\* Those of the description, if the command matches on it
RemoveAllowance == <<"get", "confirm", "delete", "record">>
RemoveAttribute == <<"confirm", "delete", "record">>
RemovePolicy == <<"get", "confirm", "delete", "record">>
RemoveGroup == <<"find", "confirm", "delete", "clear", "record">>
RemoveApplication == <<"find", "confirm", "delete", "clear", "record">>
RemoveNamespace == <<"get", "confirm", "delete", "record">>

\* _remove_resource(): a User is not removed
Removal(type) ==
  CASE type = "Source" -> RemoveSource
    [] type = "Requirement" -> RemoveRequirement
    [] type = "Keyring" -> RemoveKeyring
    [] type = "Credential" -> RemoveCredential
    [] type = "Image" -> RemoveImageFamily
    [] type = "Pool" -> RemovePool
    [] type = "Allowance" -> RemoveAllowance
    [] type = "Attribute" -> RemoveAttribute
    [] type = "Policy" -> RemovePolicy
    [] type = "Group" -> RemoveGroup
    [] type = "Application" -> RemoveApplication
    [] type = "Namespace" -> RemoveNamespace
    [] type = "User" -> <<"skip">>
    [] OTHER -> <<"refuse">>

\* _remove_and_record_by_id(): one that is not found fails
RemoveById == <<"fetch", "confirm", "delete", "clear", "record">>
-----------------------------------------------------------------------------
(* The run. *)

This == items[index].name
Type == TypeOf[This]
At(step) == exit = Unset /\ program # <<>> /\ Head(program) = step
Tells(i, actions) == told' = [told EXCEPT ![i] = @ \cup actions]

Goes(steps) == program' = steps /\ UNCHANGED <<index, failures, exit>>
On == Goes(Tail(program))

\* process_each(): the next item
Begin ==
  /\ exit = Unset /\ program = <<>> /\ index < Len(items)
  /\ LET item == items[index + 1] IN
       program' = IF creating
                  THEN LET c == Creation(TypeOf[item.name]) IN
                       IF c.look = <<>> THEN c.add ELSE c.look
                  ELSE IF item.by = "ID" THEN RemoveById ELSE Removal(TypeOf[item.name])
  /\ index' = index + 1 /\ found' = FALSE
  /\ UNCHANGED <<input, cache, told, failures, exit, exists, history>>

\* The rest are recorded as not attempted
Stops(actions, code) ==
  /\ told' = [i \in Item |-> IF i = index THEN told[i] \cup actions
                             ELSE IF i > index THEN {"skipped"} ELSE told[i]]
  /\ exit' = code
  /\ program' = <<>> /\ UNCHANGED index

Fails(actions, code) ==
  /\ failures' = Append(failures, code)
  /\ IF code \in SESSION_FAILURES THEN Stops(actions \cup {"failed"}, code)
     ELSE /\ Tells(index, actions \cup {"failed"})
          /\ program' = <<>> /\ UNCHANGED <<index, exit>>

Skips == Tells(index, {"skipped"}) /\ Goes(<<>>)

\* The shared cause's exit code, or FAILURE for different causes
Finish ==
  /\ exit = Unset /\ program = <<>> /\ index = Len(items)
  /\ exit' = IF failures = <<>> THEN SUCCESS
             ELSE IF \A k \in DOMAIN failures : failures[k] = failures[1] THEN failures[1]
             ELSE FAILURE
  /\ UNCHANGED <<input, index, program, found, cache, told, failures, exists, history>>
-----------------------------------------------------------------------------
(* Lookups. *)

\* A lookup of n by its name, which is cached
Seen(n) == CASE cache[n] = "there" -> TRUE
             [] cache[n] = "absent" -> FALSE
             [] OTHER -> n \in exists
Caches(ns) == cache' = [n \in Name |-> IF n \in ns /\ cache[n] = "unset"
                                       THEN IF n \in exists THEN "there" ELSE "absent"
                                       ELSE cache[n]]
Misses(ns) == missed' = missed \cup {[item |-> index, name |-> n] : n \in ns}

Images == {r \in Refs[This] : TypeOf[r] = "Image"}
Referred == Refs[This] \ Images

\* Every reference is looked up: one that is not found fails the resource
Resolve ==
  /\ At("resolve")
  /\ Caches(Referred)
  /\ LET absent == {r \in Referred : ~Seen(r)} IN
       /\ Misses(absent)
       /\ IF absent = {} THEN On /\ UNCHANGED told ELSE Fails({}, NOT_FOUND)
  /\ UNCHANGED <<input, found, exists, added, changed, replaced>>

\* get_image_name_or_id(): a name that is not found is passed on as it is
LookUpImages ==
  /\ At("images")
  /\ Caches(Images)
  /\ Misses({r \in Images : ~Seen(r)})
  /\ On
  /\ UNCHANGED <<input, found, told, exists, added, changed, replaced>>

\* Whether it exists decides between adding and updating, or whether it is removed
Exists(there) ==
  /\ found' = there
  /\ IF creating
     THEN LET c == Creation(Type) IN
          Goes(IF there THEN c.update ELSE c.add) /\ UNCHANGED told
     ELSE IF there THEN On /\ UNCHANGED told ELSE Skips

Find ==
  /\ At("find")
  /\ Caches({This})
  /\ Exists(Seen(This))
  /\ UNCHANGED <<input, exists, history>>

Get ==
  /\ At("get")
  /\ Exists(This \in exists)
  /\ UNCHANGED <<input, cache, exists, history>>

\* By its ID, or a User: one that is not found fails
Fetch ==
  /\ At("fetch")
  /\ IF This \notin exists THEN Fails({}, NOT_FOUND)
     ELSE Goes(IF creating THEN Creation(Type).add ELSE Tail(program)) /\ UNCHANGED told
  /\ found' = (This \in exists)
  /\ UNCHANGED <<input, cache, exists, history>>

\* The roles of a Group are found, or an Application's key is to be had
Check ==
  /\ At("check")
  /\ On
  /\ UNCHANGED <<input, found, cache, told, exists, history>>
-----------------------------------------------------------------------------
(* Questions. *)

Confirm ==
  /\ At("confirm")
  /\ \/ On /\ UNCHANGED told
     \/ Skips
  /\ UNCHANGED <<input, found, cache, exists, history>>

\* allowances_to_remove(): with none, or none chosen, there is none to replace
Choose ==
  /\ At("choose")
  /\ LET add == Creation(Type).add IN
       \/ This \in exists /\ Goes(add)
       \/ Goes(SelectSeq(add, LAMBDA step : step # "replace"))
  /\ UNCHANGED <<input, found, cache, told, exists, history>>

\* Stdin is at its end; an Image Family's members are asked about too
NoAnswer ==
  /\ At("confirm") \/ At("choose") \/ (At("members") /\ Type = "Image")
  /\ Stops({"failed"}, FAILURE)
  /\ UNCHANGED <<input, found, cache, failures, exists, history>>
-----------------------------------------------------------------------------
(* Changes. *)

Adds == /\ exists' = exists \cup {This}
        /\ changed' = changed \cup {index}
        /\ added' = IF found THEN added ELSE added \cup {index}
        /\ UNCHANGED <<missed, replaced>>

Put ==
  /\ At("put")
  /\ Adds
  /\ On
  /\ UNCHANGED <<input, found, cache, told>>

PutIn ==
  /\ At("put in")
  /\ IF Refs[This] \subseteq exists THEN Adds /\ On /\ UNCHANGED told
     ELSE /\ Misses(Refs[This] \ exists)
          /\ Fails({}, NOT_FOUND)
          /\ UNCHANGED <<exists, added, changed, replaced>>
  /\ UNCHANGED <<input, found, cache>>

\* A conflict tells that it exists
Post ==
  /\ At("post")
  /\ IF This \in exists
     THEN /\ found' = TRUE
          /\ Goes(Creation(Type).update)
          /\ UNCHANGED <<exists, history>>
     ELSE Adds /\ On /\ UNCHANGED found
  /\ UNCHANGED <<input, cache, told>>

\* Mutant: the lookups of the type are not forgotten.
Clear_Kept ==
  /\ At("clear")
  /\ On
  /\ UNCHANGED <<input, found, cache, told, exists, history>>

\* The type's lookups are forgotten
Clear ==
  /\ At("clear")
  /\ cache' = [n \in Name |-> IF TypeOf[n] = Type THEN "unset" ELSE cache[n]]
  /\ On
  /\ UNCHANGED <<input, found, told, exists, history>>

Record ==
  /\ At("record")
  /\ Tells(index, {IF ~creating THEN "removed"
                   ELSE IF found THEN "updated" ELSE "created"})
  /\ On
  /\ UNCHANGED <<input, found, cache, exists, history>>

\* What a resource holds is changed: roles, Groups, grants, Image Groups
Members ==
  /\ At("members") \/ At("roles")
  /\ changed' = changed \cup {index}
  /\ On
  /\ UNCHANGED <<input, found, cache, told, exists, added, missed, replaced>>

\* remove_allowances()
Replace ==
  /\ At("replace")
  /\ replaced' = replaced \cup {index} /\ changed' = changed \cup {index}
  /\ Tells(index, {"removed"})
  /\ On
  /\ UNCHANGED <<input, found, cache, exists, added, missed>>

\* External: a Keyring's Credentials go with it
Held(n) == {c \in Name : TypeOf[c] = "Credential" /\ TypeOf[n] = "Keyring" /\ n \in Refs[c]}

Delete ==
  /\ \/ At("delete")
     \/ At("delete from") /\ Refs[This] \subseteq exists
  /\ exists' = exists \ ({This} \cup Held(This))
  /\ changed' = changed \cup {index}
  /\ On
  /\ UNCHANGED <<input, found, cache, told, added, missed, replaced>>

\* An Attribute Definition, or a Credential's Keyring, that is not found
DeleteFindsNone ==
  /\ \/ At("delete") /\ Type = "Attribute" /\ This \notin exists
     \/ At("delete from") /\ ~(Refs[This] \subseteq exists)
  /\ Skips
  /\ UNCHANGED <<input, found, cache, exists, history>>

\* A Namespace that exists, and a User to be removed, are warned of
Skip ==
  /\ At("skip")
  /\ Skips
  /\ UNCHANGED <<input, found, cache, exists, history>>

\* An unknown type
Refuse ==
  /\ At("refuse")
  /\ Fails({}, FAILURE)
  /\ UNCHANGED <<input, found, cache, exists, history>>

\* Mutant: a failure leaves the items after it unrecorded.
RequestFails_RestForgotten(code) ==
  /\ exit = Unset /\ program # <<>>
  /\ Head(program) \notin {"clear", "record", "skip", "refuse", "confirm"}
  /\ failures' = Append(failures, code)
  /\ Tells(index, (IF At("roles") THEN {"created"} ELSE {}) \cup {"failed"})
  /\ program' = <<>> /\ UNCHANGED index
  /\ exit' = IF code \in SESSION_FAILURES THEN code ELSE exit
  /\ UNCHANGED <<input, found, cache, exists, history>>

\* A request fails: create_group() records a Group whose roles are not added
RequestFails(code) ==
  /\ exit = Unset /\ program # <<>>
  /\ Head(program) \notin {"clear", "record", "skip", "refuse", "confirm"}
  /\ Fails(IF At("roles") THEN {"created"} ELSE {}, code)
  /\ UNCHANGED <<input, found, cache, exists, history>>

\* External: the change was made, and the response lost
ResponseLost(code) ==
  /\ At("put") \/ At("delete")
  /\ exists' = IF At("put") THEN exists \cup {This} ELSE exists \ ({This} \cup Held(This))
  /\ changed' = changed \cup {index}
  /\ Fails({}, code)
  /\ UNCHANGED <<input, found, cache, added, missed, replaced>>

Next ==
  \/ Begin \/ Finish
  \/ Resolve \/ LookUpImages \/ Find \/ Get \/ Fetch \/ Check
  \/ Confirm \/ Choose \/ NoAnswer
  \/ Put \/ PutIn \/ Post \/ Clear \/ Record \/ Members \/ Replace
  \/ Delete \/ DeleteFindsNone \/ Skip \/ Refuse
  \/ \E code \in Codes : RequestFails(code) \/ ResponseLost(code)

Spec == Init /\ [][Next]_vars
-----------------------------------------------------------------------------
(* What it is meant to ensure. *)

\* What the Platform said was created, or removed in another's place, is
\* recorded as that once the item is done with, whatever failed after it.
CreatedIsTold ==
  \A i \in added \cup replaced :
    program = <<>> \/ i < index =>
      /\ i \in added => "created" \in told[i]
      /\ i \in replaced => "removed" \in told[i]

\* Put in order, a resource is not looked for in vain by one that refers to it
\* if the run creates or updates it, and is not removed before one of the run
\* that refers to it.
InReferenceOrder ==
  resequence =>
    \A i \in Item :
      /\ creating => (\A m \in missed :
           items[i].name = m.name => told[i] \cap {"created", "updated"} = {})
      /\ ~creating /\ i \in changed => (\A j \in Item :
           items[i].name \in Refs[items[j].name] => j < i /\ told[j] # {})

\* Nothing is changed for a resource that refers to what is not found, and an
\* Allowance is gone only once the one in its place is there.
NothingLost ==
  /\ \A m \in missed : TypeOf[m.name] # "Image" => m.item \notin changed
  /\ replaced \subseteq added

\* When the run ends every item is recorded, those not reached as skipped and
\* unchanged, and the exit code is 0 only if none failed.
EachItemTold ==
  exit # Unset =>
    /\ \A i \in Item : told[i] # {}
    /\ \A i \in index + 1 .. Len(items) : told[i] = {"skipped"} /\ i \notin changed
    /\ exit = SUCCESS <=> \A i \in Item : "failed" \notin told[i]
=============================================================================
