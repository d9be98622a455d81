------------------------------ MODULE Settings -------------------------------
(***************************************************************************)
(* The configuration a command acts on (utils/load_config.py): the command *)
(* line, the environment and its .env file, the configuration file and the *)
(* one it imports, and the data client's profiles.  A setting of [common]  *)
(* and a field of [dataClient] stand for all of theirs, and a value is the *)
(* name of the place that it is from, which no two places share.           *)
(***************************************************************************)
EXTENDS Integers, Sequences, FiniteSets

CONSTANTS
  Lines              \* what is given: a command, its options, and what each place holds

\* What a place has for a setting: nothing, a null (from '--property x=null'), or a value
Absent == "absent"
Null == "null"
Value(v) == v \notin {Absent, Null}
First(vs) == IF \E i \in DOMAIN vs : Value(vs[i])
               THEN vs[CHOOSE i \in DOMAIN vs : Value(vs[i]) /\ \A j \in 1 .. i - 1 : ~Value(vs[j])]
             ELSE Absent

Parameters ==
  \A l \in Lines : l.chosen => l.file  \* one chosen and not found ends the command before

VARIABLES
  line,              \* what is given
  pc,                \* what is loaded next
  environment,       \* the environment, with its .env file
  common,            \* the setting in the configuration's [common], and in the file it imports
  base, profile,     \* the field in [dataClient], and in the profile that is selected
  used,              \* what the command acts on
  sources,           \* CONFIG_SOURCES
  outranked,         \* ENVIRONMENT_OUTRANKED
  table              \* the variables that the configuration defines

vars == <<line, pc, environment, common, base, profile, used, sources, outranked, table>>

Settings == {"setting", "field", "destination"}
Names == {"setting", "field", "dataClient.field", "dataClient.profile.field"}

TypeOK ==
  /\ pc \in {"environment", "file", "common", "variables", "data", "destination", "done", "exit"}
  /\ DOMAIN used \subseteq Settings /\ DOMAIN table \subseteq Names
  /\ outranked \subseteq Settings

Init ==
  /\ line \in Lines /\ pc = "environment"
  /\ environment = [setting |-> Absent, field |-> Absent]
  /\ common = [own |-> Absent, imported |-> Absent] /\ base = Absent /\ profile = [there |-> FALSE, value |-> Absent]
  /\ used = [n \in {} |-> Absent] /\ sources = Absent /\ outranked = {}
  /\ table = [n \in {} |-> Absent]
-----------------------------------------------------------------------------
With(f, n, v) == [m \in DOMAIN f \cup {n} |-> IF m = n THEN v ELSE f[m]]

\* add_substitutions_without_overwriting()
Add(t, n, v) == IF n \in DOMAIN t \/ ~Value(v) THEN t ELSE With(t, n, v)

\* load_dotenv_file(): a value of the .env file's, where there is none or it overrides
Loaded(p) == First(IF line.envOverride THEN <<p.dotenv, p.environment>> ELSE <<p.environment, p.dotenv>>)
LoadEnvironment ==
  /\ pc = "environment" /\ pc' = "file"
  /\ environment' = [setting |-> Loaded(line.setting), field |-> Loaded(line.field)]
  /\ UNCHANGED <<line, common, base, profile, used, sources, outranked, table>>

\* _load_config_file(): and _apply_property_overrides(), which makes the section, or
\* the profile, that it names; a file's profile that is named and not there is absent
Overridden(property, v) == IF property = Absent THEN v ELSE property
InFile(v) == IF line.file THEN v ELSE Absent
LoadFile ==
  /\ pc = "file" /\ pc' = IF line.command = "other" THEN "common" ELSE "variables"
  /\ common' = [own |-> Overridden(line.setting.property, InFile(line.setting.own)),
                imported |-> InFile(line.setting.imported)]
  /\ base' = Overridden(line.field.property, InFile(line.field.own))
  /\ profile' = [there |-> (line.file /\ line.field.hasProfile) \/ line.field.profileProperty # Absent,
                 value |-> Overridden(line.field.profileProperty, InFile(line.field.profile))]
  /\ UNCHANGED <<line, environment, used, sources, outranked, table>>

\* _common_section(): a local value, a null among them, supersedes an imported one
Section == IF common.own = Absent THEN common.imported ELSE common.own
FileSource == IF common.own = Absent /\ common.imported # Absent THEN "imported" ELSE "own"

\* _apply_common_overrides() and _load_namespace_and_tag(), which choose alike; and
\* _apply_common_defaults()
Setting ==
  IF line.setting.option # Absent THEN [value |-> line.setting.option, source |-> "command line"]
  ELSE IF Value(line.setting.property) THEN [value |-> Section, source |-> "--property"]
  ELSE IF line.chosen /\ Value(Section) THEN [value |-> Section, source |-> FileSource]
  ELSE IF Value(environment.setting) THEN [value |-> environment.setting, source |-> "environment"]
  ELSE IF Value(Section) THEN [value |-> Section, source |-> FileSource]
  ELSE [value |-> "default", source |-> "default"]
SettingOutranks ==
  line.setting.option = Absent /\ ~Value(line.setting.property) /\ line.chosen /\ Value(Section)
  /\ Value(environment.setting)

LoadSetting ==
  /\ used' = With(used, "setting", Setting.value)
  /\ outranked' = outranked \cup (IF SettingOutranks THEN {"setting"} ELSE {})

\* _build_dc_substitutions() and register_dc_substitutions(): from the file alone,
\* a profile's unset fields inherited, and the default for one that nothing names
Scalar == IF base = Absent THEN line.field.default ELSE base
Inherited == IF profile.value # Absent THEN profile.value ELSE Scalar
Registered(t) ==
  LET registered == Add(t, "dataClient.field", Scalar)
  IN IF profile.there THEN Add(registered, "dataClient.profile.field", Inherited) ELSE registered

\* load_config_common(), of a command other than the data client's
LoadCommon ==
  /\ pc = "common" /\ pc' = "done"
  /\ LoadSetting /\ sources' = Setting.source
  /\ table' = Registered(Add(table, "setting", Setting.value))
  /\ UNCHANGED <<line, environment, common, base, profile>>

\* _load_namespace_and_tag() and register_dc_substitutions(), of the data client's
LoadVariables ==
  /\ pc = "variables" /\ pc' = "data"
  /\ LoadSetting
  /\ table' = Registered(Add(table, "setting", Setting.value))
  /\ UNCHANGED <<line, environment, common, base, profile, sources>>

\* _data_client_value(): of a section that _select_dc_section() merges
Selected(named) == IF named /\ profile.value # Absent THEN profile.value ELSE base
OverriddenByProperty(named) == Value(line.field.property) \/ (named /\ Value(line.field.profileProperty))
OwnToProfile(named) == named /\ profile.value # Absent
\* As if a profile's own field were no more than the base section's
FileFirst_NotOwn(named) == line.chosen \/ OverriddenByProperty(named)

FileFirst(named) == line.chosen \/ OwnToProfile(named) \/ OverriddenByProperty(named)
Field(named, option) ==
  First(<<option, IF FileFirst(named) THEN Selected(named) ELSE Absent, environment.field, Selected(named)>>)
FieldOutranks(named, option) ==
  /\ option = Absent /\ line.chosen /\ Value(Selected(named)) /\ Value(environment.field)
  /\ ~OwnToProfile(named) /\ ~OverriddenByProperty(named)

\* load_config_data_client(): a profile that is not there ends the command; the
\* variables of the active profile replace those of the base section
Named == line.field.select # "none"
LoadData ==
  LET value == IF line.field.noPrefix THEN Absent
               ELSE First(<<Field(Named, line.field.option), line.field.default>>)
      variable == IF line.field.noPrefix THEN "empty" ELSE value
      added == Add(table, "field", variable)
  IN /\ pc = "data" /\ (Named => profile.there)
     /\ pc' = IF line.command = "copy" THEN "destination" ELSE "done"
     /\ used' = With(used, "field", value)
     /\ outranked' = outranked
          \cup (IF FieldOutranks(Named, line.field.option) /\ ~line.field.noPrefix THEN {"field"} ELSE {})
     /\ table' = IF Value(variable) THEN With(added, "dataClient.field", variable) ELSE added
     /\ UNCHANGED <<line, environment, common, base, profile, sources>>

\* load_config_data_client_for_profile(): the options of the source take no part
LoadDestination ==
  /\ pc = "destination" /\ (line.field.destination => profile.there) /\ pc' = "done"
  /\ used' = With(used, "destination",
                  First(<<Field(line.field.destination, Absent), line.field.default>>))
  /\ outranked' = outranked
       \cup (IF FieldOutranks(line.field.destination, Absent) THEN {"field"} ELSE {})
  /\ UNCHANGED <<line, environment, common, base, profile, sources, table>>

NoProfile ==
  /\ \/ pc = "data" /\ Named
     \/ pc = "destination" /\ line.field.destination
  /\ ~profile.there /\ pc' = "exit"
  /\ UNCHANGED <<line, environment, common, base, profile, used, sources, outranked, table>>

Next ==
  \/ LoadEnvironment \/ LoadFile \/ LoadCommon \/ LoadVariables \/ LoadData \/ LoadDestination
  \/ NoProfile

Spec == Init /\ [][Next]_vars
-----------------------------------------------------------------------------
(* Which value wins (docs/configuration.md): the places that hold a setting, by *)
(* the rank of each, whichever command reads it and whatever loads it           *)

\* What the environment has, in the order of its two places, and the file
ByEnvironment(p) == IF line.envOverride THEN <<p.dotenv, p.environment>> ELSE <<p.environment, p.dotenv>>
Found(v, property) == IF line.file /\ property # Null THEN v ELSE Absent

RankedSetting ==
  LET file == First(<<Found(line.setting.own, line.setting.property),
                      Found(line.setting.imported, line.setting.property)>>)
  IN First(<<line.setting.option, line.setting.property>>
           \o <<IF line.chosen THEN file ELSE Absent>>
           \o ByEnvironment(line.setting) \o <<file, "default">>)

\* A field that the profile sets itself, '--property dataClient.<profile>' first, then
\* what it inherits: '--property dataClient.<field>', and the rest in their order; a
\* null in the profile inherits nothing, and leaves the environment's
RankedField(named, option) ==
  LET masked == named /\ line.field.profileProperty = Null
      inherited == IF masked THEN Absent ELSE Found(line.field.own, line.field.property)
      ofProfile == First(<<line.field.profileProperty, Found(line.field.profile, line.field.profileProperty)>>)
  IN First(<<option, IF named THEN ofProfile ELSE Absent, IF masked THEN Absent ELSE line.field.property,
             IF line.chosen THEN inherited ELSE Absent>>
           \o ByEnvironment(line.field) \o <<inherited, line.field.default>>)

\* Every loader comes to the value of the highest rank, for the settings that a
\* command acts on as for the variables that stand for them; where it came from, and
\* the environment's value that a file chosen with '--config' replaced, are as told.
HighestRankWins ==
  pc = "done" =>
    /\ used["setting"] = RankedSetting /\ table["setting"] = used["setting"]
    /\ line.command = "other" =>
         /\ (sources = "environment") <=> (used["setting"] \in {line.setting.environment, line.setting.dotenv})
         /\ sources \in {"own", "imported", "default"} => used["setting"] = sources
    /\ "field" \in DOMAIN used =>
         /\ ~line.field.noPrefix => used["field"] = RankedField(Named, line.field.option)
         /\ Value(used["field"]) => /\ table["field"] = used["field"]
                                    /\ table["dataClient.field"] = used["field"]
    /\ "destination" \in DOMAIN used =>
         used["destination"] = RankedField(line.field.destination, Absent)
    /\ "setting" \in outranked <=>
         /\ used["setting"] \in {"own", "imported"} /\ line.chosen
         /\ First(ByEnvironment(line.setting)) # Absent
=============================================================================
