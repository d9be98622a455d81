------------------------------ MODULE Variables ------------------------------
(***************************************************************************)
(* Variables and their substitution (utils/variable_substitution.py): the  *)
(* places that define them, read one after another into one table          *)
(* (utils/file_substitution.py, utils/load_config.py), and the passes that *)
(* substitute them in a specification until it settles.                    *)
(*                                                                         *)
(* A value is a sequence of pieces: text, and the expressions in it, whose *)
(* names may be built from others'.  A name is the sequence of its texts.  *)
(* Type tags, the escapes of each kind of file and 'env:' are left out.    *)
(* What is told of a variable left undefined is its name and whether it is *)
(* for the '::' that unset it, since only its definition as written knows. *)
(***************************************************************************)
EXTENDS Integers, Sequences, SequencesExt

CONSTANTS
  Cases,             \* what is written where: records of definitions and values
  Defaults,          \* the default variables, as definitions
  Reserved,          \* the names that only the configuration defines
  Tag,               \* one of them, 'tag'
  Lazy,              \* a name that is defined as Tasks are built, 'wr_name'
  MaxPasses,         \* VAR_SUBSTITUTION_MAX_PASSES
  MaxText            \* VARIABLE_TABLE_MAX_TEXT, in pieces

\* The pieces of a value: text; '{{name}}', '{{name:=default}}' and '{{name::}}';
\* '{{raw:...}}' and what it gives, which no pass substitutes; and what stands for
\* an unset expression within another
Text(t) == [kind |-> "text", text |-> t]
Ref(name) == [kind |-> "ref", name |-> name, mode |-> "plain", default |-> <<>>]
RefOr(name, default) == [Ref(name) EXCEPT !.mode = "default", !.default = default]
RefUnset(name) == [Ref(name) EXCEPT !.mode = "unset"]
Raw(v) == [kind |-> "raw", of |-> v]
Literal(v) == [kind |-> "literal", of |-> v]
Unset == [kind |-> "unset"]

HasA(kind, v) == \E i \in DOMAIN v : v[i].kind = kind
IsUnset(v) == HasA("unset", v)
IsName(v) == v # <<>> /\ \A i \in DOMAIN v : v[i].kind = "text"
NameOf(v) == [i \in DOMAIN v |-> v[i].text]

\* A definition: a name and its value; and the names that some of them define
Names(ds) == {ds[i][1] : i \in DOMAIN ds}
Final(ds, n) == ds[CHOOSE i \in DOMAIN ds : ds[i][1] = n /\ \A j \in DOMAIN ds : ds[j][1] = n => j <= i][2]

Parameters ==
  /\ Tag \in Reserved /\ Lazy \notin Reserved
  /\ MaxPasses \in Nat \ {0} /\ MaxText \in Nat

VARIABLES
  case,              \* what is written where
  pc,                \* what is read next
  table, order,      \* VARIABLE_SUBSTITUTIONS, and the order of its names
  written,           \* _DEFINITIONS
  fromCli, fromEnv, fromFile,  \* the names that each defines
  properties,        \* the specification's, those removed left out
  round,             \* the times it has been resolved
  reported           \* the undefined expressions that were warned of, in order

vars == <<case, pc, table, order, written, fromCli, fromEnv, fromFile, properties, round,
          reported>>

TypeOK ==
  /\ pc \in {"register", "file", "import", "common", "specify", "done", "exit"}
  /\ DOMAIN table \subseteq ToSet(order) /\ IsInjective(order)
  /\ fromCli \cup fromEnv \cup fromFile \subseteq DOMAIN written
  /\ round \in 0 .. 2

Init ==
  /\ case \in Cases /\ pc = "register"
  /\ order = [i \in DOMAIN Defaults |-> Defaults[i][1]]
  /\ table = [n \in Names(Defaults) |-> Final(Defaults, n)]
  /\ written = table
  /\ fromCli = {} /\ fromEnv = {} /\ fromFile = {}
  /\ properties = [i \in DOMAIN case.specification |-> <<case.specification[i]>>]
  /\ round = 0 /\ reported = <<>>
-----------------------------------------------------------------------------
(* The engine *)

Lookup(t, v) == IF IsName(v) /\ NameOf(v) \in DOMAIN t THEN <<t[NameOf(v)]>> ELSE <<>>

\* process_untyped_variable_substitutions(), of a piece, and _resolve_nested(), of
\* what is within one: a value is never read as the syntax
RECURSIVE Substituted(_, _)
PieceValue(t, p) ==
  CASE p.kind = "raw" -> <<Literal(p.of)>>
    [] p.kind = "ref" ->
         LET name == Substituted(t, p.name)
             known == Lookup(t, name)
             value == IF known # <<>> THEN known[1]
                      ELSE IF p.mode = "default" THEN Substituted(t, p.default)
                      ELSE IF p.mode = "unset" \/ IsUnset(name) THEN <<Unset>>
                      ELSE <<Ref(name)>>
         IN IF IsUnset(value) THEN <<Unset>> ELSE value
    [] OTHER -> <<p>>
Substituted(t, v) == FlattenSeq([i \in DOMAIN v |-> PieceValue(t, v[i])])

\* _update_and_resolve_substitutions(): what resolves to nothing is removed, and then
\* the rest are substituted where they stand until they settle
RECURSIVE WithoutUnset(_)
WithoutUnset(t) ==
  LET unset == {n \in DOMAIN t : IsUnset(Substituted(t, t[n]))}
  IN IF unset = {} THEN t ELSE WithoutUnset([n \in DOMAIN t \ unset |-> t[n]])

Size(t, names) == FoldLeft(LAMBDA total, n : total + Len(t[n]), 0, names)

RECURSIVE Settled(_, _, _)
Settled(t, names, passes) ==
  LET after == FoldLeft(LAMBDA s, n : [s EXCEPT ![n] = Substituted(s, s[n])], t, names)
  IN IF passes = 0 THEN t
     ELSE IF after = t \/ Size(after, names) > MaxText THEN after
     ELSE Settled(after, names, passes - 1)

Within(t, names) == SelectSeq(names, LAMBDA n : n \in DOMAIN t)

Update(merged, names) ==
  LET left == WithoutUnset(merged)
      ordered == Within(left, names)
  IN /\ written' = [n \in DOMAIN written \cup DOMAIN merged |->
                      IF n \in DOMAIN written /\ n \in DOMAIN table /\ merged[n] = table[n]
                        THEN written[n]
                      ELSE IF n \in DOMAIN merged THEN merged[n] ELSE written[n]]
     /\ table' = Settled(left, ordered, Len(ordered) + 1)
     /\ order' = ordered

\* resolve_variables_insitu(): passes over the properties until one changes nothing,
\* those unset removed; and none, if they do not settle
Pass(t, ps) ==
  [i \in DOMAIN ps |->
     IF ps[i] = <<>> \/ IsUnset(Substituted(t, ps[i][1])) THEN <<>>
     ELSE <<Substituted(t, ps[i][1])>>]
RECURSIVE Resolved(_, _, _)
Resolved(t, ps, passes) ==
  IF passes = 0 THEN <<>>
  ELSE IF Pass(t, ps) = ps THEN <<ps>> ELSE Resolved(t, Pass(t, ps), passes - 1)

\* _unsubstituted_references(): the names of the references left, of those that are
\* no more than a name, and of those inside one that is
RECURSIVE References(_)
References(v) ==
  UNION {IF v[i].kind # "ref" THEN {}
         ELSE IF v[i].mode = "plain" /\ IsName(v[i].name) THEN {NameOf(v[i].name)}
         ELSE References(v[i].name) \cup References(v[i].default) : i \in DOMAIN v}
Left(ps) == UNION {IF ps[i] = <<>> THEN {} ELSE References(ps[i][1]) : i \in DOMAIN ps}

\* Resolved, with no reference to a variable that is defined, which is circular
Accepted(t, ps) ==
  LET resolved == Resolved(t, ps, MaxPasses)
  IN resolved # <<>> /\ Left(resolved[1]) \cap DOMAIN t = {}
-----------------------------------------------------------------------------
(* What is read, in order *)

Exit == pc' = "exit" /\ UNCHANGED <<case, table, order, written, fromCli, fromEnv, fromFile,
                                   properties, round, reported>>

\* register_user_variables(): YD_VAR_*, then '-v' and '--property', neither resolved
Defined(t, ds) == [n \in DOMAIN t \cup Names(ds) |-> IF n \in Names(ds) THEN Final(ds, n) ELSE t[n]]
Appended(names, ds) ==
  FoldLeft(LAMBDA s, d : IF d[1] \in ToSet(s) THEN s ELSE Append(s, d[1]), names, ds)
Register ==
  LET both == case.environment \o case.commandLine
  IN /\ pc = "register" /\ Names(both) \cap Reserved = {}
     /\ table' = Defined(table, both) /\ written' = Defined(written, both)
     /\ order' = Appended(order, both)
     /\ fromEnv' = Names(case.environment) /\ fromCli' = Names(case.commandLine)
     /\ pc' = "file"
     /\ UNCHANGED <<case, fromFile, properties, round, reported>>
RegisterRefused ==
  /\ pc = "register" /\ Names(case.environment \o case.commandLine) \cap Reserved # {}
  /\ Exit

\* As if a file that is selected outranked the environment no more than another
Taken_NoneSelected(ds, imported) ==
  SelectSeq(ds, LAMBDA d : d[1] \notin fromCli \cup fromEnv /\ (imported => d[1] \notin fromFile))

\* add_substitutions_from_config_file(), of the configuration file or one that it
\* imports: what outranks it is kept
Taken(ds, imported) ==
  SelectSeq(ds, LAMBDA d :
    /\ d[1] \notin fromCli /\ (d[1] \in fromEnv => case.selected)
    /\ imported => d[1] \notin fromFile)
Add(ds, imported) ==
  LET taken == Taken(ds, imported)
  IN /\ IF ds = <<>> THEN UNCHANGED <<table, order, written>>
        ELSE Update(Defined(table, taken), Appended(order, taken))
     /\ fromFile' = IF imported THEN fromFile ELSE Names(taken)

\* load_toml_file_with_variable_substitutions(): then the passes over the file, whose
\* variables are properties too
Values(ds) == [i \in DOMAIN ds |-> <<ds[i][2]>>]
Read ==
  LET ds == IF pc = "file" THEN case.file ELSE case.imported
  IN /\ pc \in {"file", "import"} /\ Names(ds) \cap Reserved = {}
     /\ Add(ds, pc = "import")
     /\ pc' = IF ~Accepted(table', Values(ds)) THEN "exit"
              ELSE IF pc = "file" THEN "import" ELSE "common"
     /\ UNCHANGED <<case, fromCli, fromEnv, properties, round, reported>>
ReadRefused ==
  /\ \/ pc = "file" /\ Names(case.file) \cap Reserved # {}
     \/ pc = "import" /\ Names(case.imported) \cap Reserved # {}
  /\ Exit

\* load_config_common(): 'tag' resolved, and added without overwriting another
Common ==
  LET resolved == Resolved(table, <<<<case.tag>>>>, MaxPasses)
  IN /\ pc = "common" /\ Accepted(table, <<<<case.tag>>>>)
     /\ Update([n \in DOMAIN table \cup {Tag} |->
                  IF n \in DOMAIN table THEN table[n] ELSE resolved[1][1][1]],
               IF Tag \in ToSet(order) THEN order ELSE <<Tag>> \o order)
     /\ pc' = "specify"
     /\ UNCHANGED <<case, fromCli, fromEnv, fromFile, properties, round, reported>>
CommonRefused == pc = "common" /\ ~Accepted(table, <<<<case.tag>>>>) /\ Exit

\* A specification is resolved as it is loaded, and again once its Work Requirement
\* is named; what is left undefined is warned of once, and why
Undefined(t, ps) == {n \in Left(ps) : n \notin DOMAIN t /\ n # Lazy}
Warning(n) == [of |-> n, unset |-> n \in DOMAIN written \ DOMAIN table]
Specify ==
  LET resolved == Resolved(table, properties, MaxPasses)
      unreported == Undefined(table, resolved[1]) \ {reported[i].of : i \in DOMAIN reported}
  IN /\ pc = "specify" /\ Accepted(table, properties)
     /\ properties' = resolved[1] /\ round' = round + 1
     /\ reported' = reported \o SetToSeq({Warning(n) : n \in unreported})
     /\ IF round = 0
          THEN /\ table' = Defined(table, <<<<Lazy, case.named>>>>) \* add_or_update_substitution()
               /\ written' = Defined(written, <<<<Lazy, case.named>>>>)
               /\ order' = Appended(order, <<<<Lazy, case.named>>>>) /\ pc' = "specify"
          ELSE UNCHANGED <<table, written, order>> /\ pc' = "done"
     /\ UNCHANGED <<case, fromCli, fromEnv, fromFile>>
SpecifyRefused == pc = "specify" /\ ~Accepted(table, properties) /\ Exit

Next ==
  \/ Register \/ RegisterRefused \/ Read \/ ReadRefused
  \/ Common \/ CommonRefused \/ Specify \/ SpecifyRefused

Spec == Init /\ [][Next]_vars
-----------------------------------------------------------------------------
(* What the definitions mean, whatever the order of the reading and the passes *)

\* The definitions that stand, by the rank of the place each is written in
Ranked ==
  LET common == [n \in {Tag} |-> case.tag]
      file == IF case.selected
                THEN Defined(Defined(Defined(common, case.environment), case.imported), case.file)
              ELSE Defined(Defined(Defined(common, case.imported), case.file), case.environment)
      own == Defined(file, case.commandLine)
  IN Defined(Defined(own, SelectSeq(Defaults, LAMBDA d : d[1] \notin DOMAIN own)),
             <<<<Lazy, case.named>>>>)

\* What a value means under them: a reference to a variable that is being read is a
\* circle
Circle == [kind |-> "circle"]
RECURSIVE Means(_, _, _)
Means(ds, v, within) ==
  FlattenSeq([i \in DOMAIN v |->
    LET name == Means(ds, v[i].name, within)
        defined == IsName(name) /\ NameOf(name) \in DOMAIN ds
        value == IF defined
                   THEN IF NameOf(name) \in within THEN <<Circle>>
                        ELSE Means(ds, ds[NameOf(name)], within \cup {NameOf(name)})
                 ELSE CASE v[i].mode = "default" -> Means(ds, v[i].default, within)
                        [] v[i].mode = "unset" \/ IsUnset(name) -> <<Unset>>
                        [] OTHER -> <<Ref(name)>>
    IN CASE v[i].kind = "raw" -> <<Literal(v[i].of)>>
         [] v[i].kind = "ref" -> IF IsUnset(value) THEN <<Unset>> ELSE value
         [] OTHER -> <<v[i]>>])

\* Those that '::' does not unset: a variable is unset if it needs one that is not
\* there, and no other for merely referring to it
Standing ==
  LET ranked == Ranked
      Without(names) == [n \in DOMAIN ranked \ names |-> ranked[n]]
      unset == {n \in DOMAIN ranked : IsUnset(Means(Without({n}), ranked[n], {n}))}
      Closed(names) == \A n \in DOMAIN ranked \ names :
                         ~IsUnset(Means(Without(names), ranked[n], {n}))
  IN Without(CHOOSE names \in SUBSET unset :
               Closed(names) /\ \A other \in SUBSET names : Closed(other) => other = names)

Meaning(v) == Means(Standing, v, {})
HasCircle(ds, v) == HasA("circle", Means(ds, v, {}))

\* A specification's properties are what the definitions of the highest rank give
\* them, to any depth, those that are unset left out, and nothing is resolved with a
\* definition that another was meant to replace (docs/variables.md).
MeansWhatIsWritten ==
  LET standing == Standing
  IN pc = "done" =>
       \A i \in DOMAIN properties :
         properties[i] = LET v == Means(standing, case.specification[i], {})
                         IN IF IsUnset(v) THEN <<>> ELSE <<v>>

\* A circular reference of those that are read, or a name that is reserved, ends the
\* command, and nothing else does.
EndsForItsCause ==
  LET standing == Standing
      places == case.environment \o case.commandLine \o case.file \o case.imported
      specified == ToSet(case.specification)
      read == {places[i][2] : i \in DOMAIN places} \cup specified \cup {case.tag}
  IN /\ pc = "exit" => \/ \E v \in read : HasCircle(standing, v)
                        \/ Names(places) \cap Reserved # {}
     /\ pc = "done" => /\ Names(places) \cap Reserved = {}
                        /\ \A v \in specified : ~HasCircle(standing, v)

\* A reference that is left is warned of, once, as unset if '::' removed a definition
\* of it and as not defined if there was none.
LeftIsTold ==
  pc = "done" =>
    /\ {reported[i].of : i \in DOMAIN reported} = Left(properties)
    /\ \A i, j \in DOMAIN reported : reported[i].of = reported[j].of => i = j
    /\ \A i \in DOMAIN reported : reported[i].unset <=> reported[i].of \in DOMAIN Ranked
=============================================================================
