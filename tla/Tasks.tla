-------------------------------- MODULE Tasks --------------------------------
(***************************************************************************)
(* The Task Groups and Tasks that 'yd workrequirement submit' makes of a   *)
(* specification: CSV files and counts expand it, each property is taken   *)
(* from the lowest level that sets it, and the variables of a Task Group   *)
(* and of a Task are substituted as each is built (submit.py,              *)
(* utils/task_groups.py, utils/task_generation.py, utils/csv_data.py,      *)
(* utils/submit_utils.py).  With '--add-to', a Task Group named as one     *)
(* that is there takes its Tasks.                                          *)
(*                                                                         *)
(* A value is a sequence of texts, the names of variables among them; that *)
(* of a table is a function of its keys; one that is null, or empty, is    *)
(* the empty sequence.  The properties are one of each kind: 'tags' is of  *)
(* a Task Group, 'args' of a Task, 'timeout' of a Task that inherits it    *)
(* from the configuration alone, 'data' and 'file' two forms of one.       *)
(* Names are taken to be formatted as the platform requires.               *)
(***************************************************************************)
EXTENDS Integers, Sequences, SequencesExt

CONSTANTS
  Cases              \* what is given: specifications, configurations and options

Parameters ==
  \A c \in Cases : /\ c.countLine \in Nat /\ c.groupsLine \in Nat /\ c.groupCount \in Nat
                 /\ c.existing # <<>> => c.adding

VARIABLES
  case,              \* what is given
  pc,                \* the step that is next
  at,                \* the CSV file, the Task Group or the Task of that step
  given, cache,      \* the Task Groups given a CSV file; the files held, how far read
  config, wr, groups,\* the levels, as they are substituted
  vars,              \* the variables that are defined as a submission proceeds
  positions,         \* where each Task Group stands
  made,              \* the Task Groups built
  additions,         \* the Tasks to add, by Task Group
  tasks              \* the Tasks built

state == <<case, pc, at, given, cache, config, wr, groups, vars, positions, made, additions, tasks>>

Nothing == [p \in {} |-> <<>>]
Tables == {"env", "add"}

TypeOK ==
  /\ pc \in {"csv", "override", "expand", "group", "check", "add", "task", "done", "exit"}
  /\ given \subseteq DOMAIN groups /\ Len(cache) <= 2
  /\ Len(made) <= Len(groups) /\ DOMAIN positions \subseteq DOMAIN groups
  /\ \A t \in ToSet(tasks) : t.number \in Nat

\* Without a specification file: one Task Group of one Task, which takes all that it
\* has from the configuration
Unspecified == ~case.specified /\ case.csv = <<>>

Init ==
  /\ case \in Cases /\ pc = "csv" /\ at = 1
  /\ given = {} /\ cache = <<>>
  /\ config = case.config /\ wr = case.wr /\ groups = case.groups
  /\ vars = [v \in {} |-> ""]
  /\ positions = <<>> /\ made = <<>> /\ additions = <<>> /\ tasks = <<>>
-----------------------------------------------------------------------------
(* Values and levels *)

\* A value with the variables substituted that are defined, and the text of one
Made(defined, v) == [i \in DOMAIN v |-> IF v[i] \in DOMAIN defined THEN defined[v[i]] ELSE v[i]]
Value(defined, p, v) ==
  CASE p = "count" -> v
    [] p \in Tables -> [k \in DOMAIN v |-> Made(defined, v[k])]
    [] OTHER -> Made(defined, v)
MadeAll(defined, ps) == [p \in DOMAIN ps |-> Value(defined, p, ps[p])]
TextOf(v) == FoldLeft(LAMBDA s, t : s \o t, "", v)
With(f, g) == [x \in DOMAIN f \cup DOMAIN g |-> IF x \in DOMAIN g THEN g[x] ELSE f[x]]
MadeGroup(defined, g) ==
  [g EXCEPT !.props = MadeAll(defined, @),
            !.tasks = [k \in DOMAIN @ |-> MadeAll(defined, @[k])]]

\* Cascade: the levels, from the lowest, that the dictionary allows a property at,
\* and its value at the lowest that sets it, a null among them
Allowed(p) == CASE p \in {"tags", "prefix", "add", "policy", "retries", "count", "types"} -> {"group", "wr"}
                [] p = "timeout" -> {"task"}
                [] OTHER -> {"task", "group", "wr"}
Lowest(p, task, group, whole, default) ==
  LET levels == << <<"task", task>>, <<"group", group>>, <<"wr", whole>>, <<"config", default>> >>
      setting == SelectSeq(levels, LAMBDA l : p \in DOMAIN l[2] /\ l[1] \in Allowed(p) \cup {"config"})
  IN IF setting = <<>> THEN <<>> ELSE setting[1][2][p]

\* Cascade.merged(): a table accumulates down the levels, and a null clears it
Merged(p, levels) ==
  FoldLeft(LAMBDA table, level : IF p \notin DOMAIN level THEN table
                                 ELSE IF level[p] = <<>> THEN Nothing ELSE With(table, level[p]),
           Nothing, levels)

\* formatted_number_str()
Padded(n, count) == <<"", "0", "00">>[1 + Len(ToString(count)) - Len(ToString(n))] \o ToString(n)
-----------------------------------------------------------------------------
(* CSV files *)

Exit == pc' = "exit" /\ UNCHANGED <<case, at, given, cache, config, wr, groups, vars, positions,
                                   made, additions, tasks>>

\* get_csv_file_index(): by number, by name, or by position
Named(name) == {i \in DOMAIN groups : groups[i].props["name"] = <<name>>}
Indexes(file) ==
  IF file.number # 0 THEN {file.number} \cap DOMAIN groups
  ELSE IF file.name # "" THEN {i \in Named(file.name) : \A j \in Named(file.name) : i <= j}
  ELSE {at}

Columns(file) == DOMAIN file.rows[1]
Holds(columns, v) == \E i \in DOMAIN v : v[i] \in columns
Present(columns, task) ==
  \E p \in DOMAIN task : p # "count" /\ IF p \in Tables THEN \E k \in DOMAIN task[p] : Holds(columns, task[p][k])
                         ELSE Holds(columns, task[p])
FromRow(row, v) == FlattenSeq([i \in DOMAIN v |-> IF v[i] \in DOMAIN row THEN row[v[i]] ELSE <<v[i]>>])
OfRow(row, task) ==
  [p \in DOMAIN task |-> IF p \in Tables THEN [k \in DOMAIN task[p] |-> FromRow(row, task[p][k])]
                         ELSE FromRow(row, task[p])]

\* csv_expand_toml_tasks(): the prototype that a configuration makes
Prototype(columns) == [p \in {q \in DOMAIN config : Present(columns, [r \in {q} |-> config[q]])} |-> config[p]]

\* CSVDataCache: two files, the oldest leaving first; one that is held is rewound
Held(file) == \E i \in DOMAIN cache : cache[i].of = file
Cached(file) ==
  IF Held(file) THEN [i \in DOMAIN cache |-> IF cache[i].of = file THEN [cache[i] EXCEPT !.read = 0] ELSE cache[i]]
  ELSE Append(IF Len(cache) = 2 THEN Tail(cache) ELSE cache, [of |-> file, read |-> 0])
ReadFrom(held, file) == held[CHOOSE i \in DOMAIN held : held[i].of = file].read

ExpandCsv ==
  LET file == case.csv[at]
      index == CHOOSE i \in Indexes(file) : TRUE
      held == Cached(file.of)
      task == IF case.specified THEN groups[index].tasks[1] ELSE Prototype(Columns(file))
      rows == SubSeq(file.rows, ReadFrom(held, file.of) + 1, Len(file.rows))
  IN /\ pc = "csv" /\ at <= Len(case.csv) /\ Len(case.csv) <= Len(groups)
     /\ Indexes(file) # {} /\ index \notin given /\ Len(groups[index].tasks) = 1
     /\ given' = given \cup {index}
     /\ IF Present(Columns(file), task)
          THEN /\ groups' = [groups EXCEPT ![index].tasks = [k \in DOMAIN rows |-> OfRow(rows[k], task)]]
               /\ cache' = [i \in DOMAIN held |-> IF held[i].of = file.of THEN [held[i] EXCEPT !.read = Len(file.rows)] ELSE held[i]]
          ELSE /\ groups' = [groups EXCEPT ![index].tasks = <<task>>] /\ cache' = held
     /\ at' = at + 1
     /\ UNCHANGED <<case, pc, config, wr, vars, positions, made, additions, tasks>>

CsvRefused ==
  /\ pc = "csv" /\ at <= Len(case.csv)
  /\ \/ Len(case.csv) > Len(groups)
     \/ \A i \in Indexes(case.csv[at]) : i \in given \/ Len(groups[i].tasks) # 1
  /\ Exit

CsvDone ==
  /\ pc = "csv" /\ at > Len(case.csv) /\ pc' = "override" /\ at' = 1
  /\ UNCHANGED <<case, given, cache, config, wr, groups, vars, positions, made, additions, tasks>>
-----------------------------------------------------------------------------
(* Task Groups *)

\* apply_property_overrides(): of what a level sets; and promote_task_type()
Overridden(ps) == [p \in DOMAIN ps |-> IF p \in DOMAIN case.overrides THEN case.overrides[p] ELSE ps[p]]
Promoted(ps) ==
  IF "type" \in DOMAIN ps /\ ps["type"] # <<>> /\ ("types" \in DOMAIN ps => ps["types"] = <<>>)
    THEN With(ps, [p \in {"types"} |-> ps["type"]])
  ELSE ps
Override ==
  /\ pc = "override" /\ pc' = "expand"
  /\ config' = With(config, case.overrides)
  /\ wr' = Promoted(Overridden(wr))
  /\ groups' = [i \in DOMAIN groups |->
       [props |-> Overridden(groups[i].props),
        tasks |-> [k \in DOMAIN groups[i].tasks |-> Overridden(groups[i].tasks[k])]]]
  /\ UNCHANGED <<case, at, given, cache, vars, positions, made, additions, tasks>>

\* task_count_for() and _name_and_task_count()
CountFor(group) ==
  IF case.countLine # 0 THEN <<case.countLine>> ELSE Lowest("count", Nothing, group.props, wr, config)
NumTasks(group) ==
  IF Len(group.tasks) = 1 /\ CountFor(group) # <<>> THEN CountFor(group)[1] ELSE Len(group.tasks)

\* get_task_group_name(), of number 'n' of 'count'
GroupName(group, n, count) ==
  LET inTask == IF group.tasks # <<>> /\ "group name" \in DOMAIN group.tasks[1]
                  THEN group.tasks[1]["group name"] ELSE <<>>
      inConfig == IF "group name" \in DOMAIN config THEN config["group name"] ELSE <<>>
      name == IF group.props["name"] # <<>> THEN group.props["name"]
              ELSE IF inTask # <<>> THEN inTask ELSE inConfig
      numbers == [v \in {"{group number}", "{group count}", "{task count}"} |->
                    CASE v = "{group number}" -> Padded(n, count)
                      [] v = "{group count}" -> ToString(count)
                      [] OTHER -> ToString(NumTasks(group))]
  IN IF name = <<>> THEN "task_group_" \o Padded(n, count) ELSE TextOf(Made(numbers, name))

\* _positions_for_adding(): by the names that they would have if each were new
Positions(all) ==
  LET there == Len(case.existing)
      asIfNew == [i \in DOMAIN all |-> GroupName(all[i], there + i, there + Len(all))]
      Is(i) == {e \in DOMAIN case.existing : case.existing[e].name = asIfNew[i]}
      new == SelectSeq([i \in DOMAIN all |-> i], LAMBDA i : Is(i) = {})
  IN [i \in DOMAIN all |->
        [number |-> IF Is(i) # {} THEN CHOOSE e \in Is(i) : TRUE
                    ELSE there + (CHOOSE k \in DOMAIN new : new[k] = i),
         count |-> there + Len(new)]]

\* _name_the_run(), and _task_groups() up to the Task Groups: substituted with the
\* Work Requirement's name, and expanded
GroupCount ==
  IF case.groupsLine # 0 THEN case.groupsLine
  ELSE IF case.groupCount # 0 THEN case.groupCount ELSE case.configGroups
\* A single Task Group as that many copies of itself
Copies(gs) == IF GroupCount > 1 /\ Len(gs) = 1 THEN [i \in 1 .. GroupCount |-> gs[1]] ELSE gs

Expand ==
  LET named == [v \in {"{wr}"} |-> case.named]
      substituted == [i \in DOMAIN groups |-> MadeGroup(named, groups[i])]
      expanded == Copies(substituted)
  IN /\ pc = "expand" /\ pc' = IF expanded = <<>> THEN "check" ELSE "group"
     /\ vars' = named /\ config' = MadeAll(named, config) /\ wr' = MadeAll(named, wr)
     /\ groups' = expanded
     /\ UNCHANGED <<case, at, given, cache, positions, made, additions, tasks>>

\* TaskGroupPosition.substitute()
OfGroup(name, position, count) ==
  [v \in {"{group name}", "{group number}", "{group count}", "{task count}"} |->
     CASE v = "{group name}" -> name
       [] v = "{group number}" -> Padded(position.number, position.count)
       [] v = "{group count}" -> ToString(position.count)
       [] OTHER -> ToString(count)]

\* _task_types(): those declared, those of the Tasks, the configuration's, the template's
TypesOf(group, whole, own, default) ==
  LET declared == ToSet(Lowest("types", Nothing, group, whole, Nothing)) \cup own
      Or(set, p) == IF set # {} \/ p \notin DOMAIN default THEN set ELSE ToSet(default[p])
  IN Or(Or(declared, "type"), "template")

\* _retry_policies(): one mechanism, at any of the levels
Sets(p, levels) == \E i \in DOMAIN levels : p \in DOMAIN levels[i] /\ levels[i][p] # <<>>
TwoMechanisms(group, whole, default) ==
  Lowest("policy", Nothing, group, whole, default) # <<>> /\ Sets("retries", <<group, whole, default>>)

\* create_task_group(): the Tasks' types as they are before it is substituted
Standing == IF case.adding THEN Positions(groups) ELSE [i \in DOMAIN groups |-> [number |-> i, count |-> Len(groups)]]
CreateGroup ==
  LET places == IF at = 1 THEN Standing ELSE positions
      group == [groups[at] EXCEPT !.props = Promoted(@)]
      own == {group.tasks[k]["type"][1] : k \in {j \in DOMAIN group.tasks :
                "type" \in DOMAIN group.tasks[j] /\ group.tasks[j]["type"] # <<>>}}
      name == GroupName(group, places[at].number, places[at].count)
      defined == With(vars, OfGroup(name, places[at], NumTasks(group)))
      default == MadeAll(defined, config)
      substituted == MadeGroup(defined, group)
      types == TypesOf(substituted.props, wr, own, default)
      refused == \/ types = {} /\ NumTasks(group) > 0
                 \/ TwoMechanisms(substituted.props, wr, default)
  IN /\ pc = "group" /\ vars' = defined /\ positions' = places
     /\ groups' = [groups EXCEPT ![at] = substituted]
     /\ made' = IF refused THEN made
                ELSE Append(made, [name |-> name, types |-> types,
                                   tags |-> Lowest("tags", Nothing, substituted.props, wr, default)])
     /\ pc' = IF refused THEN "exit" ELSE IF at = Len(groups) THEN "check" ELSE "group"
     /\ at' = IF at = Len(groups) THEN 1 ELSE at + 1
     /\ UNCHANGED <<case, given, cache, config, wr, additions, tasks>>

\* _refuse_renamed_by_numbering() and _refuse_duplicate_names(); _plan_extension(),
\* which refuses a type that the Task Group there does not allow
There(name) == {e \in DOMAIN case.existing : case.adding /\ case.existing[e].name = name}
Placed(i) ==
  case.adding =>
    IF positions[i].number <= Len(case.existing)
      THEN case.existing[positions[i].number].name = made[i].name
    ELSE There(made[i].name) = {}
Accepted ==
  /\ \A i, j \in DOMAIN made : made[i].name = made[j].name => i = j
  /\ \A i \in DOMAIN made : Placed(i) /\ \A e \in There(made[i].name) : made[i].types \subseteq case.existing[e].types
Check ==
  LET Addition(i) ==
        LET there == There(made[i].name)
            e == CHOOSE e \in there : TRUE
        IN [spec |-> i, name |-> made[i].name, number |-> positions[i].number, count |-> positions[i].count,
            existing |-> IF there = {} THEN 0 ELSE case.existing[e].tasks,
            types |-> IF there = {} THEN made[i].types ELSE case.existing[e].types,
            begun |-> FALSE, tasks |-> 0]
      IsNew(i) == There(made[i].name) = {}
      each == [i \in DOMAIN made |-> i]
      ordered == SelectSeq(each, IsNew) \o SelectSeq(each, LAMBDA i : ~IsNew(i))
  IN /\ pc = "check" /\ Accepted /\ at' = 1
     /\ additions' = [k \in DOMAIN ordered |-> Addition(ordered[k])]
     /\ pc' = IF made = <<>> THEN "done" ELSE "add"
     /\ UNCHANGED <<case, given, cache, config, wr, groups, vars, positions, made, tasks>>
Refused == pc = "check" /\ ~Accepted /\ Exit
-----------------------------------------------------------------------------
(* Tasks *)

\* add_tasks_to_task_group(): the one Task expanded, and the variables defined again.
\* Without a specification, each Task is generated from the first
BeginAddition ==
  LET adding == additions[at]
      group == groups[adding.spec]
      count == CountFor(group)
      expanded == IF Len(group.tasks) = 1 /\ count # <<>> /\ count[1] > 1 /\ ~Unspecified
                    THEN [k \in 1 .. count[1] |-> group.tasks[1]] ELSE group.tasks
      number == IF Unspecified THEN CountFor([props |-> Nothing])[1] ELSE Len(expanded)
  IN /\ pc = "add"
     /\ groups' = [groups EXCEPT ![adding.spec].tasks = expanded]
     /\ additions' = [additions EXCEPT ![at].tasks = number, ![at].begun = TRUE]
     /\ vars' = With(vars, OfGroup(adding.name, adding, adding.existing + number))
     /\ pc' = IF number > 0 THEN "task" ELSE IF at = Len(additions) THEN "done" ELSE "add"
     /\ at' = IF number > 0 \/ at = Len(additions) THEN at ELSE at + 1
     /\ UNCHANGED <<case, given, cache, config, wr, positions, made, tasks>>

\* get_task_name()
TaskName(task, named, defined, n, count) ==
  LET name == IF "name" \in DOMAIN task THEN task["name"]
              ELSE IF "task name" \in DOMAIN task THEN task["task name"]
              ELSE IF "task name" \in DOMAIN config THEN config["task name"] ELSE <<>>
  IN IF name # <<>> THEN TextOf(Made(With(defined, [v \in {"{task number}", "{task count}"} |->
                            IF v = "{task number}" THEN Padded(n, count) ELSE ToString(count)]), name))
     ELSE IF named THEN "task_" \o Padded(n, count) ELSE ""

\* As if what a Task inherits were substituted with the Task Group's variables alone
Own_OfTheGroup(p, task, group, default, defined) ==
  IF p \in DOMAIN task /\ "task" \in Allowed(p) THEN task[p] ELSE Lowest(p, Nothing, group, wr, default)

\* _TaskLevels: what a Task inherits is substituted for it, in a copy
Own(p, task, group, default, defined) ==
  IF p \in DOMAIN task /\ "task" \in Allowed(p) THEN task[p]
  ELSE Value(defined, p, Lowest(p, Nothing, group, wr, default))

\* get_task_data_property(): from the first level that sets either form of it
DataLevel(levels) ==
  LET setting == SelectSeq(levels, LAMBDA ps : {"data", "file"} \cap DOMAIN ps # {})
  IN IF setting = <<>> THEN Nothing ELSE setting[1]
TwoForms(level) == "data" \in DOMAIN level /\ "file" \in DOMAIN level /\ level["data"] # <<>> /\ level["file"] # <<>>
DataOf(level) ==
  IF "data" \in DOMAIN level /\ level["data"] # <<>> THEN level["data"]
  ELSE IF "file" \in DOMAIN level THEN level["file"] ELSE <<>>

\* _task_type_of(): its own, the sole one of the Task Group, or the configuration's if
\* it is one of them; else none, and the template has one
TypeOf(task, types, default) ==
  CASE "type" \in DOMAIN task /\ task["type"] # <<>> -> {task["type"][1]}
    [] ~("type" \in DOMAIN task /\ task["type"] # <<>>) /\ \E t \in types : types = {t} -> types
    [] OTHER -> IF "type" \in DOMAIN default THEN ToSet(default["type"]) \cap types ELSE {}

Generate ==
  LET adding == additions[at]
      group == groups[adding.spec]
      built == Len(SelectSeq(tasks, LAMBDA t : t.group = adding.name))
      source == IF Unspecified THEN 1 ELSE built + 1
      task == group.tasks[source]
      n == adding.existing + built + 1
      count == adding.existing + adding.tasks
      named == Lowest("named", task, group.props, wr, config) # <<"no">>
      name == TaskName(task, named, vars, n, count)
      defined == With(vars, [v \in {"{task name}", "{task number}"} |->
                   IF v = "{task number}" THEN Padded(n, count) ELSE IF name = "" THEN "none" ELSE name])
      own == MadeAll(defined, task)
      default == MadeAll(defined, config)
      Inherits(p) == Own(p, own, group.props, default, defined)
      data == DataLevel(<<own, MadeAll(defined, group.props), MadeAll(defined, wr), default>>)
      type == TypeOf(own, adding.types, default)
      env == Inherits("env")
      added == Merged("add", <<default, MadeAll(defined, wr), MadeAll(defined, group.props)>>)
      refused == TwoForms(data) \/ (type = {} /\ "template" \notin DOMAIN config)
      last == built + 1 = adding.tasks
  IN /\ pc = "task" /\ vars' = defined
     /\ groups' = [groups EXCEPT ![adding.spec].tasks[source] = own]
     /\ tasks' = IF refused THEN tasks
                 ELSE Append(tasks, [group |-> adding.name, of |-> at, number |-> n, name |-> name, type |-> type,
                                     args |-> Inherits("prefix") \o Inherits("args"),
                                     env |-> With(added, env), data |-> DataOf(data),
                                     timeout |-> Inherits("timeout")])
     /\ pc' = IF refused THEN "exit" ELSE IF ~last THEN "task" ELSE IF at = Len(additions) THEN "done" ELSE "add"
     /\ at' = IF ~refused /\ last /\ at < Len(additions) THEN at + 1 ELSE at
     /\ UNCHANGED <<case, given, cache, config, wr, positions, made, additions>>

Next ==
  \/ ExpandCsv \/ CsvRefused \/ CsvDone \/ Override \/ Expand \/ CreateGroup \/ Check \/ Refused
  \/ BeginAddition \/ Generate

Spec == Init /\ [][Next]_state
-----------------------------------------------------------------------------
(* What is asked for, from what is written, whatever is substituted where *)

\* The Task Group and the Task that one of those built is a copy of, with its row
Copied(i) == IF GroupCount > 1 /\ Len(case.groups) = 1 THEN 1 ELSE i
FileOf(i) ==
  {f \in DOMAIN case.csv : LET file == case.csv[f]
                           IN IF file.number # 0 THEN file.number = i
                              ELSE IF file.name # "" THEN case.groups[i].props["name"] = <<file.name>> ELSE f = i}
WrittenTask(i, k) ==
  LET copies == case.groups[Copied(i)].tasks
      one == IF Len(copies) = 1 THEN copies[1] ELSE copies[k]
      file == case.csv[CHOOSE f \in FileOf(Copied(i)) : TRUE]
      whole == IF case.specified THEN one ELSE [p \in DOMAIN case.config \ {"count"} |-> case.config[p]]
  IN IF FileOf(Copied(i)) = {} \/ ~Present(Columns(file), whole) THEN one ELSE OfRow(IF Len(file.rows) = 1 THEN file.rows[1] ELSE file.rows[k], whole)
\* The Tasks that one is to be given: those listed, a row each of a CSV file's, or, of
\* a single one, as many as are counted
Expected(i) ==
  LET group == case.groups[Copied(i)]
      file == case.csv[CHOOSE f \in FileOf(Copied(i)) : TRUE]
      prototype == IF case.specified THEN group.tasks[1] ELSE case.config
      count == IF case.countLine # 0 THEN <<case.countLine>>
               ELSE Lowest("count", Nothing, Overridden(group.props), Overridden(case.wr), With(case.config, case.overrides))
      listed == IF FileOf(Copied(i)) # {} /\ Present(Columns(file), prototype) THEN Len(file.rows) ELSE Len(group.tasks)
  IN IF listed = 1 /\ count # <<>> THEN count[1] ELSE listed

\* What a Task is, by the levels as they are written and by its own variables
AsWritten ==
  pc = "done" =>
    \A t \in ToSet(tasks) :
      LET adding == additions[t.of]
          task == Overridden(WrittenTask(adding.spec, t.number - adding.existing))
          group == Overridden(case.groups[Copied(adding.spec)].props)
          whole == Overridden(case.wr)
          default == With(case.config, case.overrides)
          own == With(OfGroup(adding.name, adding, adding.existing + adding.tasks),
                      [v \in {"{wr}", "{task name}", "{task number}"} |->
                         CASE v = "{wr}" -> case.named
                           [] v = "{task name}" -> IF t.name = "" THEN "none" ELSE t.name
                           [] OTHER -> Padded(t.number, adding.existing + adding.tasks)])
          Is(p) == Value(own, p, Lowest(p, task, group, whole, default))
      IN /\ t.args = Is("prefix") \o Is("args") /\ t.timeout = Is("timeout")
         /\ \A k \in DOMAIN Is("env") : t.env[k] = Is("env")[k]
         /\ \A k \in DOMAIN t.env \ DOMAIN Is("env") :
              t.env[k] = Made(own, IF "add" \in DOMAIN group /\ k \in DOMAIN group["add"] THEN group["add"][k]
                                   ELSE IF "add" \in DOMAIN whole /\ k \in DOMAIN whole["add"] THEN whole["add"][k]
                                   ELSE default["add"][k])
         /\ t.data = Made(own, DataOf(DataLevel(<<task, group, whole, default>>)))
         /\ LET name == Lowest("name", task, Nothing, Nothing,
                               [p \in {"name"} |-> Lowest("task name", task, Nothing, Nothing, default)])
            IN t.name = IF name # <<>> THEN TextOf(Made(own, name))
                        ELSE IF Is("named") = <<"no">> THEN ""
                        ELSE "task_" \o Padded(t.number, adding.existing + adding.tasks)

\* Every Task Group has a name and a number of its own, the new ones numbered on from
\* those there in the order given, and its Tasks are as many as are asked for, numbered
\* on from those it has
Numbered ==
  pc = "done" =>
    /\ Len(additions) = (IF GroupCount > 1 /\ Len(case.groups) = 1 THEN GroupCount ELSE Len(case.groups))
    /\ \A i, j \in DOMAIN additions :
         i # j => /\ additions[i].name # additions[j].name /\ additions[i].number # additions[j].number
                  /\ i < j /\ There(additions[j].name) = {} => additions[i].spec < additions[j].spec
    /\ \A i \in DOMAIN additions :
         LET a == additions[i]
             numbers == [k \in DOMAIN SelectSeq(tasks, LAMBDA t : t.of = i) |-> SelectSeq(tasks, LAMBDA t : t.of = i)[k].number]
         IN /\ a.number <= a.count
            /\ There(a.name) # {} => There(a.name) = {a.number} /\ a.existing = case.existing[a.number].tasks
            /\ There(a.name) = {} => a.existing = 0 /\ (case.adding => a.number > Len(case.existing))
            /\ numbers = [k \in 1 .. Expected(a.spec) |-> a.existing + k]

\* A Task has a type that its Task Group, new or there already, allows
TypesAllowed ==
  \A t \in ToSet(tasks) : pc = "done" =>
    IF t.type = {} THEN "template" \in DOMAIN case.config ELSE t.type \subseteq additions[t.of].types

\* What may be wrong with what is given: a Task Group with no CSV file of its own or no
\* one prototype, two retry mechanisms, two forms of a Task's data, a Task of no type,
\* Task Groups of one name, one whose number would change its name, a type not allowed
Misgiven ==
  \/ \E f \in DOMAIN case.csv : \A i \in DOMAIN case.groups : f \notin FileOf(i)
  \/ \E i \in DOMAIN case.groups : FileOf(i) # {} /\ (Len(case.groups[i].tasks) # 1 \/ \E f, g \in FileOf(i) : f # g)
Default == With(case.config, case.overrides)
Levels(i) == <<Overridden(case.groups[i].props), Overridden(case.wr), Default>>
Mixed == \E i \in DOMAIN case.groups : TwoMechanisms(Levels(i)[1], Levels(i)[2], Default)
Twice ==
  \E i \in DOMAIN case.groups : \E k \in DOMAIN case.groups[i].tasks :
    TwoForms(DataLevel(<<case.groups[i].tasks[k]>> \o Levels(i)))
TypesWritten(i) ==
  ToSet(Lowest("types", Nothing, Promoted(Levels(i)[1]), Promoted(Levels(i)[2]), Nothing))
    \cup {case.groups[i].tasks[k]["type"][1] : k \in {j \in DOMAIN case.groups[i].tasks :
            "type" \in DOMAIN case.groups[i].tasks[j] /\ case.groups[i].tasks[j]["type"] # <<>>}}
Untyped ==
  /\ "template" \notin DOMAIN case.config
  /\ \E i \in DOMAIN case.groups : TypesWritten(i) = {} /\ "type" \notin DOMAIN Default /\ case.groups[i].tasks # <<>>
Untold ==
  \E i \in DOMAIN case.groups : \E k \in DOMAIN case.groups[i].tasks :
    ("type" \in DOMAIN case.groups[i].tasks[k] => case.groups[i].tasks[k]["type"] = <<>>)
    /\ Len(SetToSeq(TypesWritten(i))) > 1
Alike == \E i, j \in DOMAIN made : i # j /\ made[i].name = made[j].name
Renumbered ==
  /\ case.adding
  /\ \E i \in DOMAIN case.groups : Holds({"{group number}", "{group count}"}, case.groups[i].props["name"])
NotAllowed ==
  \E i \in DOMAIN made : \E e \in There(made[i].name) : ~(made[i].types \subseteq case.existing[e].types)

\* What is given ends the command if it is wrong, and for no other cause
EndsForItsCause ==
  /\ pc = "exit" => Misgiven \/ Mixed \/ Twice \/ Untyped \/ Untold \/ Alike \/ Renumbered \/ NotAllowed
  /\ pc = "done" => ~Misgiven /\ ~Mixed /\ ~Untyped /\ ~Alike /\ ~NotAllowed
                    /\ \A t \in ToSet(tasks) : ~TwoForms(DataLevel(<<WrittenTask(additions[t.of].spec, t.number - additions[t.of].existing)>>
                                                                  \o Levels(Copied(additions[t.of].spec))))
\* The documentation's "{task count}" of a Task Group that is added to: all of its
\* Tasks, those there and those added, wherever it is written
WholeCount ==
  pc = "done" =>
    \A t \in ToSet(tasks) :
      LET adding == additions[t.of]
          args == Lowest("args", case.groups[Copied(adding.spec)].tasks[1],
                         case.groups[Copied(adding.spec)].props, case.wr, case.config)
      IN \A i \in DOMAIN args :
           args[i] = "{task count}" => t.args[i] = ToString(adding.existing + adding.tasks)
=============================================================================
