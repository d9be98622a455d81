------------------------------- MODULE Doctor -------------------------------
(***************************************************************************)
(* A run of 'yd doctor' (doctor.py, utils/doctor_checks.py): the checks in *)
(* their table's order, each a row that is OK, WARN, FAIL or SKIP, a check *)
(* that fails or exits included.  The configuration is loaded before any   *)
(* of them; what a check finds (no credentials, an SDK that does not       *)
(* import, a Platform that does not answer) skips those it stops.  A       *)
(* network call is given up after '--timeout', its thread left running: a  *)
(* PAC file's may still be at work, setting HTTPS_PROXY and restoring it,  *)
(* while later checks make their calls.                                    *)
(*                                                                         *)
(* What is wrong with a machine is chosen as the run begins, and the       *)
(* checks of what nothing else depends on are wrong at most MaxWrong at a  *)
(* time.  The texts, and how the rows are laid out, are not modelled.      *)
(***************************************************************************)
EXTENDS Integers, Sequences, FiniteSets, SequencesExt, TLC

CONSTANTS
  None,
  Machines,          \* what a machine may have, and the Platform do
  MaxWrong           \* of the checks that concern themselves alone

Parameters ==
  /\ MaxWrong \in Nat
  /\ \A m \in Machines :
       /\ {m.sdk, m.rclone, m.key, m.use_pac} \subseteq BOOLEAN
       /\ m.config \in {"loads", "exits"} /\ m.profiles \in Seq(STRING)
       /\ m.client \in {"none", "ill", "there"}
       /\ m.platform \in {"up", "silent", "in trouble", "refusing"}

Check(name, group, needs) == [name |-> name, group |-> group, needs |-> needs]
Each(names, group, needs) ==
  [i \in DOMAIN names |-> Check(names[i], group, needs)]
CONFIG_LOADS == Check("Configuration loads", "Configuration", "NOTHING")

CHECKS ==
  Each(<<"Python version", "Install kind", "CLI and SDK versions", "SDK imports",
         "Jsonnet", "Cloud Wizard", "Commander", "MCP Server", "rclone", "yd on PATH",
         "Shell completion", "Proxy">>, "Installation", "NOTHING")
  \o <<Check("Certificates", "Installation", "CONFIG"),
       Check("Newer CLI on PyPI", "Installation", "NETWORK"), CONFIG_LOADS>>
  \o Each(<<"Config schema", "Key", "Secret", "Namespace", "Tag", "URL", "Variable references",
            ".env file", "Environment outranked", "Tag is a legal name">>, "Configuration", "CONFIG")
  \o <<Check("Reachable", "Platform", "CONFIG_AND_NETWORK")>>
  \o Each(<<"Authenticated", "Groups and roles", "Namespace granted", "Keyrings">>,
          "Platform", "CREDENTIALS_AND_NETWORK")
  \o <<Check("Remote reachable", "Data client", "DATA_CLIENT")>>

NETWORK_NEEDS ==
  {"NETWORK", "CONFIG_AND_NETWORK", "CREDENTIALS_AND_NETWORK", "DATA_CLIENT"}
\* What each of those that concern themselves alone may be, an exception of its own
\* and an exit included
Result(names, statuses) == [name \in names |-> statuses]
OfInterpreter ==
  Result({"Python version"}, {"OK", "WARN", "FAIL"}) @@ Result({"Install kind"}, {"OK", "WARN"})
  @@ Result({"CLI and SDK versions"}, {"OK"})
OfPackages ==
  Result({"Jsonnet", "Cloud Wizard", "Commander", "MCP Server"}, {"OK", "FAIL"})
  @@ Result({"Newer CLI on PyPI"}, {"OK", "WARN", "SKIP"})
OfShell == Result({"yd on PATH", "Shell completion"}, {"OK", "WARN", "SKIP"})
OfCertificates == Result({"Certificates"}, {"OK", "FAIL"})
OfSchema == Result({"Config schema"}, {"OK", "WARN", "FAIL"})
OfValues == Result({"Namespace"}, {"OK", "WARN"}) @@ Result({"Tag", "URL"}, {"OK"})
OfVariables ==
  Result({"Variable references", "Environment outranked", "Tag is a legal name"}, {"OK", "WARN"})
  @@ Result({".env file"}, {"OK"})
OfApplication ==
  Result({"Groups and roles", "Namespace granted"}, {"OK", "WARN", "FAIL"})
  @@ Result({"Keyrings"}, {"OK", "WARN", "FAIL", "SKIP"})
MayBe ==
  OfInterpreter @@ OfPackages @@ OfShell @@ OfCertificates @@ OfSchema @@ OfValues
  @@ OfVariables @@ OfApplication

VARIABLES
  offline,           \* '--offline'
  machine,           \* what there is: the SDK, rclone, the configuration, its credentials...
  loaded,            \* the configuration was
  sdk_error, reachable, application, \* what checks found
  checks,            \* those still to run
  rows,              \* a row for each that ran
  HTTPS_PROXY,
  pac,               \* external: the PAC file's thread, once given up: "none", "fetching" or what it restores
  wrong,             \* how many concern themselves alone
  exit

found == <<loaded, sdk_error, reachable, application>>
vars == <<offline, machine, found, checks, rows, HTTPS_PROXY, pac, wrong, exit>>

Statuses == {"OK", "WARN", "FAIL", "SKIP"}

TypeOK ==
  /\ offline \in BOOLEAN /\ machine \in Machines
  /\ loaded \in BOOLEAN /\ sdk_error \in BOOLEAN /\ application \in BOOLEAN
  /\ reachable \in {None, TRUE, FALSE}
  /\ \A i \in DOMAIN rows : rows[i].status \in Statuses
  /\ HTTPS_PROXY \in {"own", "PAC's"} /\ wrong \in 0 .. MaxWrong
  /\ pac \in {"none", "fetching", "within"}
  /\ exit \in {None, 0, 1}
-----------------------------------------------------------------------------
(* Which checks can run, and what else there is to check.                    *)
_need_unmet(check) ==
  LET needs == check.needs IN
  CASE needs = "NOTHING" -> None
    [] needs \in NETWORK_NEEDS /\ offline -> "--offline"
    [] needs = "NETWORK" /\ ~offline -> None
    [] OTHER ->
       IF ~loaded THEN "configuration did not load"
       ELSE IF needs = "CREDENTIALS_AND_NETWORK" /\ ~machine.key THEN "no credentials"
       ELSE IF needs = "DATA_CLIENT" /\ machine.client = "ill" THEN "profile did not load"
       ELSE IF needs = "DATA_CLIENT" /\ machine.client = "none" THEN "no data client configured"
       ELSE None

Profile(name) == Check(name, "Data client", "CONFIG")
dynamic_checks ==
  IF ~loaded THEN <<>>
  ELSE IF machine.profiles = <<>> THEN <<Profile("Data client profile")>>
  ELSE [i \in DOMAIN machine.profiles |-> Profile(machine.profiles[i])]

Init ==
  /\ offline \in BOOLEAN /\ machine \in Machines
  /\ loaded = FALSE /\ sdk_error = FALSE /\ reachable = None /\ application = FALSE
  /\ checks = <<CONFIG_LOADS>>
  /\ rows = <<>> /\ HTTPS_PROXY = "own" /\ pac = "none" /\ wrong = 0 /\ exit = None

\* A row, with the reason of one that did not run and the proxy of one that asked the network
Row(check, status, reason) ==
  [name |-> check.name, group |-> check.group, status |-> status, reason |-> reason,
   via |-> IF check.needs \in NETWORK_NEEDS /\ status # "SKIP" THEN HTTPS_PROXY ELSE None]
Told(check, status) ==
  /\ rows' = Append(rows, Row(check, status, IF status = "SKIP" THEN "its own" ELSE None))
  /\ checks' = Tail(checks)
Alone == UNCHANGED <<offline, machine, loaded, exit>>

\* The configuration, before any other check: its row waits for its place
check_config_loads ==
  /\ rows = <<>> /\ checks = <<CONFIG_LOADS>>
  /\ loaded' = (machine.config = "loads")
  /\ checks' = CHECKS
  /\ UNCHANGED <<offline, machine, sdk_error, reachable, application, rows,
                 HTTPS_PROXY, pac, wrong, exit>>

Begun == checks # <<>> /\ checks # <<CONFIG_LOADS>> /\ exit = None
\* The profiles come before the first check of their group
Dynamic ==
  /\ Begun /\ Head(checks).name = "Remote reachable"
  /\ ~\E i \in DOMAIN rows : rows[i].group = "Data client"
  /\ dynamic_checks # <<>>
Runs(name) == Begun /\ ~Dynamic /\ Head(checks).name = name /\ _need_unmet(Head(checks)) = None

ConfigRow ==
  /\ Runs("Configuration loads")
  /\ Told(CONFIG_LOADS, IF loaded THEN "OK" ELSE "FAIL")
  /\ Alone /\ UNCHANGED <<sdk_error, reachable, application, HTTPS_PROXY, pac, wrong>>

Skips ==
  /\ Begun /\ ~Dynamic
  /\ LET check == Head(checks) IN
     /\ _need_unmet(check) # None
     /\ rows' = Append(rows, Row(check, "SKIP", _need_unmet(check)))
  /\ checks' = Tail(checks)
  /\ Alone /\ UNCHANGED <<sdk_error, reachable, application, HTTPS_PROXY, pac, wrong>>

check_sdk_imports ==
  /\ Runs("SDK imports")
  /\ sdk_error' = ~machine.sdk
  /\ Told(Head(checks), IF machine.sdk THEN "OK" ELSE "FAIL")
  /\ Alone /\ UNCHANGED <<reachable, application, HTTPS_PROXY, pac, wrong>>

check_rclone ==
  /\ Runs("rclone")
  /\ Told(Head(checks), IF machine.rclone THEN "OK" ELSE "WARN")
  /\ Alone /\ UNCHANGED <<sdk_error, reachable, application, HTTPS_PROXY, pac, wrong>>

\* The proxy that PAC resolves is kept for the checks to come; a resolution given
\* up is left to its thread
check_proxy_Dropped ==
  /\ Runs("Proxy")
  /\ \E status \in {"OK"} \cup (IF loaded /\ machine.use_pac /\ ~offline THEN {"WARN", "FAIL"} ELSE {}) :
       Told(Head(checks), status)
  /\ Alone /\ UNCHANGED <<sdk_error, reachable, application, HTTPS_PROXY, pac, wrong>>
check_proxy ==
  /\ Runs("Proxy")
  /\ IF loaded /\ machine.use_pac /\ ~offline
     THEN \/ Told(Head(checks), "OK") /\ HTTPS_PROXY' = "PAC's" /\ UNCHANGED pac
          \/ \E status \in {"WARN", "FAIL"} :
               Told(Head(checks), status) /\ UNCHANGED <<HTTPS_PROXY, pac>>
          \/ Told(Head(checks), "FAIL") /\ pac' = "fetching" /\ UNCHANGED HTTPS_PROXY
     ELSE Told(Head(checks), "OK") /\ UNCHANGED <<HTTPS_PROXY, pac>>
  /\ Alone /\ UNCHANGED <<sdk_error, reachable, application, wrong>>

\* pac_context_for_url(), which the thread enters late, and leaves
Late ==
  /\ exit = None
  /\ \/ pac = "fetching" /\ pac' = "within" /\ HTTPS_PROXY' = "PAC's"
     \/ pac = "within" /\ pac' = "none" /\ HTTPS_PROXY' = "own"
     \/ pac = "fetching" /\ pac' = "none" /\ UNCHANGED HTTPS_PROXY
  /\ UNCHANGED <<offline, machine, found, checks, rows, wrong, exit>>

check_config_value(name) ==
  /\ name \in {"Key", "Secret"} /\ Runs(name)
  /\ Told(Head(checks), IF machine.key THEN "OK" ELSE "FAIL")
  /\ Alone /\ UNCHANGED <<sdk_error, reachable, application, HTTPS_PROXY, pac, wrong>>

Answers == CASE machine.platform = "silent" -> "FAIL" [] machine.platform = "in trouble" -> "WARN" [] OTHER -> "OK"
check_platform_reachable ==
  /\ Runs("Reachable")
  /\ Told(Head(checks), Answers) /\ reachable' = (Answers # "FAIL")
  /\ Alone /\ UNCHANGED <<sdk_error, application, HTTPS_PROXY, pac, wrong>>

check_authenticated_Anyhow ==
  /\ Runs("Authenticated")
  /\ Told(Head(checks), IF machine.platform = "up" THEN "OK" ELSE "FAIL")
  /\ application' = (machine.platform = "up")
  /\ Alone /\ UNCHANGED <<sdk_error, reachable, HTTPS_PROXY, pac, wrong>>
check_authenticated ==
  /\ Runs("Authenticated")
  /\ IF reachable = FALSE \/ sdk_error THEN Told(Head(checks), "SKIP") /\ UNCHANGED application
     ELSE /\ Told(Head(checks), IF machine.platform = "up" THEN "OK" ELSE "FAIL")
          /\ application' = (machine.platform = "up")
  /\ Alone /\ UNCHANGED <<sdk_error, reachable, HTTPS_PROXY, pac, wrong>>

\* What only an Application that was authenticated can be asked of
NotAuthenticated ==
  /\ ~application /\ \E name \in DOMAIN OfApplication : Runs(name)
  /\ Told(Head(checks), "SKIP")
  /\ Alone /\ UNCHANGED <<sdk_error, reachable, application, HTTPS_PROXY, pac, wrong>>

\* A check that concerns itself alone
Own ==
  /\ Begun
  /\ LET name == Head(checks).name IN
     /\ name \in DOMAIN MayBe /\ Runs(name)
     /\ name \in DOMAIN OfApplication => application
     /\ \E status \in MayBe[name] :
          /\ wrong' = wrong + (IF status = "OK" THEN 0 ELSE 1) /\ wrong' <= MaxWrong
          /\ Told(Head(checks), status)
  /\ Alone /\ UNCHANGED <<sdk_error, reachable, application, HTTPS_PROXY, pac>>

OpenDataClient ==
  /\ Dynamic
  /\ checks' = dynamic_checks \o checks
  /\ Alone /\ UNCHANGED <<sdk_error, reachable, application, rows, HTTPS_PROXY, pac, wrong>>

_profile_check ==
  /\ Begun /\ Head(checks) \in ToSet(dynamic_checks)
  /\ IF machine.profiles = <<>> THEN Told(Head(checks), "SKIP") /\ UNCHANGED wrong
     ELSE \E status \in {"OK", "FAIL"} \cup (IF machine.rclone THEN {} ELSE {"SKIP"}) :
            /\ wrong' = wrong + (IF status = "FAIL" THEN 1 ELSE 0) /\ wrong' <= MaxWrong
            /\ Told(Head(checks), status)
  /\ Alone /\ UNCHANGED <<sdk_error, reachable, application, HTTPS_PROXY, pac>>

check_data_client_remote ==
  /\ Runs("Remote reachable")
  /\ IF ~machine.rclone THEN Told(Head(checks), "SKIP")
     ELSE \E status \in {"OK", "FAIL"} : Told(Head(checks), status)
  /\ Alone /\ UNCHANGED <<sdk_error, reachable, application, HTTPS_PROXY, pac, wrong>>

exit_code ==
  /\ checks = <<>> /\ exit = None
  /\ exit' = IF \E i \in DOMAIN rows : rows[i].status = "FAIL" THEN 1 ELSE 0
  /\ UNCHANGED <<offline, machine, found, checks, rows, HTTPS_PROXY, pac, wrong>>

Next ==
  \/ check_config_loads \/ ConfigRow \/ Skips \/ Late
  \/ check_sdk_imports \/ check_rclone \/ check_proxy
  \/ \E name \in {"Key", "Secret"} : check_config_value(name)
  \/ check_platform_reachable \/ check_authenticated
  \/ NotAuthenticated
  \/ Own
  \/ OpenDataClient \/ _profile_check \/ check_data_client_remote
  \/ exit_code

Spec == Init /\ [][Next]_vars
-----------------------------------------------------------------------------
Failed(groups) == {i \in DOMAIN rows : rows[i].status = "FAIL" /\ rows[i].group \in groups}
RowsOf(name) == {i \in DOMAIN rows : rows[i].name = name}

(* At the end each check, and each profile of a configuration that loads,    *)
(* has one row, in the order in which their groups are shown; one that did   *)
(* not run says why, and the exit code is 1 for a row that is FAIL           *)
(* (docs/commands.md, 'yd doctor': "says why (SKIP) rather than              *)
(* disappearing"; run_checks, "in the order the table ... shows them").      *)
EveryCheckTold ==
  exit # None =>
    /\ \A name \in {CHECKS[i].name : i \in DOMAIN CHECKS}
                     \cup {dynamic_checks[i].name : i \in DOMAIN dynamic_checks} :
         Cardinality(RowsOf(name)) = 1
    /\ \A i \in 2 .. Len(rows) :
         rows[i].group # rows[i - 1].group => \A j \in 1 .. i - 1 : rows[j].group # rows[i].group
    /\ \A i \in DOMAIN rows : rows[i].status = "SKIP" => rows[i].reason # None
    /\ (exit = 1) <=> Failed({rows[i].group : i \in DOMAIN rows}) # {}

(* One cause is one failure: a configuration that does not load fails        *)
(* nothing of the Platform or the data client, and a Platform that does not  *)
(* answer, or refuses the credentials, fails one check (check_authenticated, *)
(* "which would cost a second timeout to report what Reachable already has").*)
CauseToldOnce ==
  /\ ~loaded => Failed({"Platform", "Data client"}) = {}
  /\ Cardinality(Failed({"Platform"})) <= wrong + (IF machine.platform = "up" THEN 0 ELSE 1)

(* The proxy that the Proxy row says PAC resolved is the one that each check *)
(* after it goes through (check_proxy, "kept in HTTPS_PROXY for the later    *)
(* checks"; docs/commands.md, "the PyPI one included").                      *)
ViaAsTold ==
  \A p \in RowsOf("Proxy") :
    rows[p].status = "OK" /\ loaded /\ machine.use_pac
      => \A i \in DOMAIN rows : rows[i].via # None => rows[i].via = "PAC's"

DoctorTells == EveryCheckTold /\ CauseToldOnce /\ ViaAsTold
=============================================================================
