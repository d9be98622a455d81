------------------------------- MODULE Wizard -------------------------------
(***************************************************************************)
(* The Cloud Wizard (cloudwizard.py, utils/cloudwizard/): a setup of a     *)
(* cloud provider's account and of the YellowDog account for it, and a     *)
(* teardown, each a sequence of steps that mostly carry on past one that   *)
(* fails, and may be run again; and the SSH rules of AWS and Azure.        *)
(*                                                                         *)
(* A step is one action, of every request it makes.  The accounts are      *)
(* external, and only runs of the wizard change them.  Of the seven        *)
(* Compute Requirement Templates, what they refer to is kept; waits,       *)
(* dry-run validation and what the templates hold are abstracted.  A       *)
(* prompt with no answer, and an interruption, are not modelled.           *)
(***************************************************************************)
EXTENDS Integers, Sequences, FiniteSets

CONSTANTS
  Provider,          \* those to consider, of "AWS", "AZURE" and "GCP"
  Zone,              \* availability zones (AWS), or regions (Azure, GCP)
  NoGroup,           \* those of AWS with no default security group
  Key,               \* access keys of the IAM user
  Codes,             \* the exit codes of the Platform's failures
  MaxRuns,           \* bound: runs of the wizard
  None

SUCCESS == 0
FAILURE == 1
SESSION_FAILURES == {4, 8}
Unset == -1
Account == "account"     \* the credential of a provider other than AWS

Parameters ==
  /\ Provider \subseteq {"AWS", "AZURE", "GCP"} /\ NoGroup \subseteq Zone
  /\ Codes \subseteq {1, 4, 5, 6, 7, 8} /\ MaxRuns \in Nat
  /\ None \notin Key /\ Account \notin Key

VARIABLES
  provider, operation,
  todo,              \* the steps that are left
  pending,           \* the regions that a step has still to see to
  self,              \* what the run knows: see Memory
  reported,          \* _ERRORS_REPORTED > 0
  recorded,          \* a "failed" outcome has been recorded
  failure,           \* platform_failure, by its exit code
  raised,            \* the exit code of what was raised out of a step
  exit,              \* the exit code
  runs,              \* the runs that have begun
  cloud, deleting,   \* external: the provider's account, and groups on their way out
  platform,          \* external: the YellowDog account
  credential,        \* external: the key that the Credential holds
  refers,            \* external: the zones of the Requirement Templates
  file,              \* external: the zones of the resource file
  declined,          \* for the properties: what the user said no to
  failedOn,          \* for the properties: what a request failed for
  made,              \* for the properties: the resource groups this run made
  shown              \* for the properties: the Keyring's password was shown

asked == <<provider, operation, runs>>
errors == <<reported, recorded, failure, raised>>
accounts == <<cloud, deleting, platform, credential, refers, file>>
history == <<declined, failedOn, made, shown>>
vars == <<asked, todo, pending, self, errors, exit, accounts, history>>

Memory == [policy : BOOLEAN, keys : SUBSET Key, secret : Key \cup {None},
           zones : SUBSET Zone, password : BOOLEAN]
NothingKnown == [policy |-> FALSE, keys |-> {}, secret |-> None, zones |-> {}, password |-> FALSE]

User == <<"user">>
Policy == <<"policy">>
Attached == <<"attached">>
Role == <<"role">>
KeyOf(k) == <<"key", k>>
Group(z) == <<"group", z>>
Rule(z) == <<"ssh", z>>
Part(z, n) == <<"network", z, n>>      \* 1 to 4: network, security group, rule, subnet
Network(z, n) == {Part(z, m) : m \in 1 .. n}
Keyring == <<"keyring">>
Source(z) == <<"source", z>>
Requirements == <<"requirements">>
File == <<"file">>
KeysThere == {k \in Key : KeyOf(k) \in cloud}
CloudAssets == {User, Policy, Attached, Role} \cup {KeyOf(k) : k \in Key}
                 \cup {Group(z) : z \in Zone}

TypeOK ==
  /\ provider \in Provider
  /\ operation \in {"setup", "teardown", "add-ssh", "remove-ssh"}
  /\ pending \subseteq Zone /\ self \in Memory
  /\ reported \in BOOLEAN /\ recorded \in BOOLEAN
  /\ {failure, raised, exit} \subseteq Codes \cup {Unset, SUCCESS, FAILURE}
  /\ runs \in 1 .. MaxRuns
  /\ credential \in Key \cup {None, Account}
  /\ refers \subseteq Zone /\ file \subseteq Zone
  /\ made \subseteq Zone /\ shown \in BOOLEAN
-----------------------------------------------------------------------------
(* The steps of each operation, in their order. *)

Load == <<"load policy", "load keys", "load user">>
CreateAWS == <<"create user", "create policy", "attach policy", "create key", "add role">>
RemoveAWS == <<"delete keys", "detach policy", "delete policy", "delete user", "delete role">>
RemoveAzure == <<"list groups", "delete groups">>

Templates == <<"create sources", "create requirements">>
RemovePlatform == <<"agree", "remove requirements", "remove sources", "remove keyring">>

OfAWS(op) ==
  CASE op = "setup" -> Load \o CreateAWS \o <<"select">> \o Templates
                         \o <<"create keyring", "add credential", "save">>
    [] op = "teardown" -> Load \o RemovePlatform \o RemoveAWS
OfAzure(op) ==
  CASE op = "setup" -> <<"create keyring", "select", "create groups">> \o Templates
                         \o <<"add credential", "save">>
    [] op = "teardown" -> RemovePlatform \o RemoveAzure
OfGCP(op) ==
  CASE op = "setup" -> <<"select">> \o Templates \o <<"create keyring", "add credential", "save">>
    [] op = "teardown" -> RemovePlatform

Steps(p, op) ==
  CASE op = "add-ssh" -> <<"agree ssh", "set rules">>
    [] op = "remove-ssh" -> <<"set rules">>
    [] OTHER -> CASE p = "AWS" -> OfAWS(op) [] p = "AZURE" -> OfAzure(op) [] p = "GCP" -> OfGCP(op)

\* GCP has no SSH rules, and Azure's are of one region
Operations(p) == {"setup", "teardown"} \cup IF p = "GCP" THEN {} ELSE {"add-ssh", "remove-ssh"}

Begins(p, op) ==
  /\ todo' = Steps(p, op)
  /\ pending' \in CASE op \in {"setup", "teardown"} -> {{}}
                    [] p = "AWS" -> {Zone} \cup {{z} : z \in Zone}
                    [] OTHER -> {{z} : z \in Zone}

Init ==
  /\ provider \in Provider /\ operation \in Operations(provider) \ {"teardown", "remove-ssh"}
  /\ todo = Steps(provider, operation)
  /\ pending \in CASE operation = "setup" -> {{}}
                   [] provider = "AWS" -> {Zone} \cup {{z} : z \in Zone}
                   [] OTHER -> {{z} : z \in Zone}
  /\ self = NothingKnown
  /\ reported = FALSE /\ recorded = FALSE /\ failure = Unset /\ raised = Unset
  /\ exit = Unset /\ runs = 1
  /\ cloud = {} /\ deleting = {} /\ platform = {} /\ credential = None
  /\ refers = {} /\ file = {}
  /\ declined = {} /\ failedOn = {} /\ made = {} /\ shown = FALSE

At(s) == todo # <<>> /\ Head(todo) = s
Done == todo' = Tail(todo) /\ UNCHANGED <<raised>>
Raises(code) == todo' = <<>> /\ raised' = code
Returns == todo' = <<>> /\ UNCHANGED <<raised>>

\* print_error() of utils/cloudwizard/common.py, for what could not be done
Reports(what) == reported' = TRUE /\ failedOn' = failedOn \cup what
Quietly == UNCHANGED <<reported, failedOn>>

Knows(known) == self' = known
Declines(what) == declined' = declined \cup what
-----------------------------------------------------------------------------
(* AWS: what is there already. *)

LoadPolicy ==
  /\ At("load policy") /\ Done
  /\ \/ Knows([self EXCEPT !.policy = Policy \in cloud]) /\ Quietly
     \/ Reports({Policy, Attached}) /\ UNCHANGED self
  /\ UNCHANGED <<asked, pending, recorded, failure, exit, accounts, declined, made, shown>>

LoadKeys ==
  /\ At("load keys") /\ Done
  /\ \/ Knows([self EXCEPT !.keys = KeysThere]) /\ Quietly
     \/ Reports({KeyOf(k) : k \in Key}) /\ UNCHANGED self
  /\ UNCHANGED <<asked, pending, recorded, failure, exit, accounts, declined, made, shown>>

LoadUser ==
  /\ At("load user") /\ Done
  /\ Quietly \/ Reports({})
  /\ UNCHANGED <<asked, pending, self, recorded, failure, exit, accounts, declined, made, shown>>
-----------------------------------------------------------------------------
(* AWS: _create_aws_resources() *)

Unaffected == <<asked, recorded, failure, exit, deleting, platform, credential, refers,
                file, made, shown>>

\* One that exists already is left as it is, if its details can be fetched
CreateUser ==
  /\ At("create user") /\ Done
  /\ \/ cloud' = cloud \cup {User} /\ Quietly
     \/ Reports({User}) /\ UNCHANGED cloud
  /\ UNCHANGED <<Unaffected, pending, self, declined>>

\* One that exists already is looked for, in the first page of the account's, and if it
\* is not there, what was known of it stands; a failure of that is not caught
CreatePolicy ==
  /\ At("create policy")
  /\ \/ /\ Done /\ Quietly
        /\ cloud' = cloud \cup {Policy}
        /\ Knows([self EXCEPT !.policy = TRUE])
     \/ Done /\ Reports({Policy}) /\ UNCHANGED <<cloud, self>>
     \/ Policy \in cloud /\ Done /\ Quietly /\ UNCHANGED <<cloud, self>>
     \/ Policy \in cloud /\ Raises(FAILURE) /\ UNCHANGED <<cloud, self, reported, failedOn>>
  /\ UNCHANGED <<Unaffected, pending, declined>>

\* External: there is no such user, or no such policy
Attachable == User \in cloud /\ Policy \in cloud

AttachPolicy ==
  /\ At("attach policy") /\ Done
  /\ \/ ~self.policy /\ Quietly /\ UNCHANGED cloud
     \/ self.policy /\ Attachable /\ cloud' = cloud \cup {Attached} /\ Quietly
     \/ self.policy /\ Reports({Attached}) /\ UNCHANGED cloud
  /\ UNCHANGED <<Unaffected, pending, self, declined>>

\* _delete_access_keys(): each confirmed, and those that are not gone are kept.
\* 'gone' are deleted, and deletion fails for 'stuck'.
Deletes(gone, stuck) ==
  /\ gone \subseteq self.keys /\ stuck \subseteq self.keys \ gone
  /\ IF stuck = {} THEN Quietly ELSE Reports({KeyOf(k) : k \in stuck})
  /\ Declines({KeyOf(k) : k \in self.keys \ (gone \cup stuck)})

\* External: AWS allows a user two keys. Before any is known, one is as another
Makeable(k, keys) ==
  /\ User \in cloud /\ Cardinality(keys) < 2 /\ k \notin keys /\ k # credential
  /\ KeysThere \cup self.keys = {} /\ credential = None => k = CHOOSE any \in Key : TRUE

MakesKey(k) ==
  /\ Makeable(k, KeysThere)
  /\ cloud' = cloud \cup {KeyOf(k)}
  /\ Knows([self EXCEPT !.keys = {k}, !.secret = k])
  /\ Quietly /\ UNCHANGED declined

\* A new key is made if there is none, or if all that there are were deleted for it
CreateKey ==
  /\ At("create key") /\ Done
  /\ \/ self.keys = {} /\ \E k \in Key : MakesKey(k)
     \/ self.keys = {} /\ Reports({}) /\ UNCHANGED <<cloud, self, declined>>
     \/ self.keys # {} /\ Quietly /\ UNCHANGED <<cloud, self, declined>>     \* declined
     \/ \E gone, stuck \in SUBSET self.keys :
          /\ self.keys # {} /\ Deletes(gone, stuck)
          /\ gone # self.keys
          /\ cloud' = cloud \ {KeyOf(k) : k \in gone}
          /\ Knows([self EXCEPT !.keys = @ \ gone])
     \/ /\ self.keys # {}
        /\ UNCHANGED declined
        /\ LET without == cloud \ {KeyOf(k) : k \in self.keys} IN
             \/ \E k \in Key :
                  /\ Makeable(k, KeysThere \ self.keys) /\ k \notin self.keys
                  /\ cloud' = without \cup {KeyOf(k)}
                  /\ Knows([self EXCEPT !.keys = {k}, !.secret = k])
                  /\ Quietly
             \/ /\ cloud' = without
                /\ Knows([self EXCEPT !.keys = {}])
                /\ Reports({})
  /\ UNCHANGED <<Unaffected, pending>>

AddRole ==
  /\ At("add role") /\ Done
  /\ \/ cloud' = cloud \cup {Role} /\ Quietly
     \/ Reports({Role}) /\ UNCHANGED cloud
  /\ UNCHANGED <<Unaffected, pending, self, declined>>
-----------------------------------------------------------------------------
(* Where: the zones of AWS, Azure's regions and GCP's default subnets, and *)
(* the selection from them.                                                *)

SelectAWS(zones) == Knows([self EXCEPT !.zones = zones \ NoGroup]) /\ UNCHANGED pending
SelectAzure(regions) == regions # {} /\ pending' = regions /\ UNCHANGED self
SelectGCP(subnets) == Knows([self EXCEPT !.zones = subnets]) /\ UNCHANGED pending

Select ==
  /\ At("select")
  /\ \/ /\ \E selected \in SUBSET Zone :
             CASE provider = "AWS" -> SelectAWS(selected)
               [] provider = "AZURE" -> SelectAzure(selected)
               [] provider = "GCP" -> SelectGCP(selected)
        /\ Done
     \/ Raises(FAILURE) /\ UNCHANGED <<pending, self>>
  /\ UNCHANGED <<asked, reported, recorded, failure, exit, accounts, history>>
-----------------------------------------------------------------------------
(* Azure: _create_resource_groups_and_network_resources(), one region *)

\* External: a group on its way out takes nothing more
Takes(z, n) == Group(z) \in deleting => n = 0

\* Mutant: a group is removed when its network fails, whoever made it.
ExistingGroup_Removed(z) ==
  /\ Group(z) \in cloud
  /\ \E n \in 0 .. 4 :
       /\ Takes(z, n)
       /\ IF n = 4
          THEN /\ cloud' = cloud \cup Network(z, 4)
               /\ Knows([self EXCEPT !.zones = @ \cup {z}])
               /\ UNCHANGED deleting
          ELSE deleting' = deleting \cup {Group(z)} /\ UNCHANGED <<cloud, self>>
       /\ IF n = 4 THEN Quietly ELSE Quietly \/ Reports({Group(z)})
  /\ UNCHANGED made

\* One that exists already is never deleted
ExistingGroup(z) ==
  /\ Group(z) \in cloud
  /\ \E n \in 0 .. 4 :
       /\ Takes(z, n)
       /\ cloud' = cloud \cup Network(z, n)
       /\ IF n = 4 THEN Knows([self EXCEPT !.zones = @ \cup {z}]) /\ Quietly
                   ELSE UNCHANGED self /\ (Quietly \/ Reports({Group(z)}))
  /\ UNCHANGED <<deleting, made>>

\* Mutant: a region whose network was not completed is used all the same.
NewGroup_AnyNetwork(z) ==
  /\ Group(z) \notin cloud
  /\ made' = made \cup {z}
  /\ \E n \in 0 .. 4 :
       /\ cloud' = cloud \cup {Group(z)} \cup Network(z, n)
       /\ Knows([self EXCEPT !.zones = @ \cup {z}])
       /\ IF n = 4 THEN Quietly ELSE Quietly \/ Reports({Group(z)})
  /\ UNCHANGED deleting

\* One that the run makes is removed again if its network is not completed.  A
\* network that could not be made for its location is not an error.
NewGroup(z) ==
  /\ Group(z) \notin cloud
  /\ made' = made \cup {z}
  /\ \E n \in 0 .. 4 :
       /\ cloud' = cloud \cup {Group(z)} \cup Network(z, n)
       /\ \/ /\ n = 4 /\ Quietly
             /\ Knows([self EXCEPT !.zones = @ \cup {z}])
             /\ UNCHANGED deleting
          \/ /\ n < 4 /\ (Quietly \/ Reports({Group(z)}))
             /\ deleting' = deleting \cup {Group(z)}
             /\ UNCHANGED self
          \/ n < 4 /\ Reports({Group(z)}) /\ UNCHANGED <<deleting, self>>

\* Its existence cannot be checked, or it is not made: because its location is
\* unavailable or disallowed, which is not an error, or for another reason
NoGroupMade(z) ==
  /\ Reports({Group(z)}) \/ (Group(z) \notin cloud /\ Quietly)
  /\ UNCHANGED <<cloud, deleting, self, made>>

CreateGroups ==
  /\ At("create groups")
  /\ \/ \E z \in pending :
          /\ ExistingGroup(z) \/ NewGroup(z) \/ NoGroupMade(z)
          /\ pending' = pending \ {z}
          /\ UNCHANGED <<todo, raised>>
     \/ pending = {} /\ Done /\ Quietly /\ UNCHANGED <<pending, cloud, deleting, self, made>>
  /\ UNCHANGED <<asked, recorded, failure, exit, platform, credential, refers, file, declined, shown>>

\* External: the deletion of a group, asynchronous, ends.
Vanishes(z) ==
  /\ Group(z) \in deleting
  /\ deleting' = deleting \ {Group(z)}
  /\ cloud' = cloud \ ({Group(z), Rule(z)} \cup Network(z, 4))
  /\ UNCHANGED <<asked, todo, pending, self, errors, exit, platform, credential, refers, file, history>>
-----------------------------------------------------------------------------
(* The YellowDog account: _create_yellowdog_resources() *)

\* create_resources(): those that fail are recorded, and the failure is raised once
\* the rest have been tried, or at once if it is the session's
CreateSources ==
  /\ At("create sources")
  /\ \/ self.zones = {} /\ Returns /\ UNCHANGED <<platform, recorded>>
     \/ /\ self.zones # {} /\ Done
        /\ platform' = platform \cup {Source(z) : z \in self.zones}
        /\ UNCHANGED recorded
     \/ \E put \in SUBSET self.zones \ {self.zones}, code \in Codes :
          /\ platform' = platform \cup {Source(z) : z \in put}
          /\ recorded' = TRUE
          /\ Raises(code)
  /\ UNCHANGED <<asked, pending, self, reported, failure, exit, cloud, deleting, credential,
                 refers, file, history>>

CreateRequirements ==
  /\ At("create requirements")
  /\ platform' = platform \cup {Requirements}
  /\ \/ refers' = self.zones /\ Done /\ UNCHANGED recorded
     \/ \E code \in Codes :
          refers' = refers \cup self.zones /\ recorded' = TRUE /\ Raises(code)
  /\ UNCHANGED <<asked, pending, self, reported, failure, exit, cloud, deleting, credential,
                 file, history>>

CreateKeyring ==
  /\ At("create keyring") /\ Done
  /\ \/ Keyring \in platform /\ Quietly /\ UNCHANGED <<platform, self>>
     \/ /\ Keyring \notin platform /\ Quietly
        /\ platform' = platform \cup {Keyring}
        /\ Knows([self EXCEPT !.password = TRUE])
     \/ Reports({Keyring}) /\ UNCHANGED <<platform, self>>
  /\ UNCHANGED <<asked, pending, recorded, failure, exit, cloud, deleting, credential, refers,
                 file, declined, made, shown>>

\* _add_credential()
AddsCredential(value) ==
  \/ /\ Keyring \in platform
     /\ credential' = value
     /\ UNCHANGED <<reported, recorded, failure, failedOn>>
  \/ \E code \in Codes :
       /\ recorded' = TRUE /\ UNCHANGED credential
       /\ IF code \in SESSION_FAILURES
          THEN failure' = code /\ UNCHANGED <<reported, failedOn>>
          ELSE Reports({}) /\ UNCHANGED failure

\* Of AWS, only with a key whose secret is known, once it is valid for EC2
AddCredential ==
  /\ At("add credential") /\ Done
  /\ \/ provider # "AWS" /\ AddsCredential(Account)
     \/ /\ provider = "AWS" /\ self.secret # None
        /\ AddsCredential(self.secret)
           \/ (Reports({}) /\ UNCHANGED <<credential, recorded, failure>>)
     \/ /\ provider = "AWS" /\ self.secret = None
        /\ IF self.keys = {} THEN Reports({}) ELSE Quietly
        /\ UNCHANGED <<credential, recorded, failure>>
  /\ UNCHANGED <<asked, pending, self, exit, cloud, deleting, platform, refers, file,
                 declined, made, shown>>

\* _save_resource_list(): a file that is there is replaced if the user agrees
Save ==
  /\ At("save") /\ Done
  /\ \/ file' = self.zones /\ Quietly /\ UNCHANGED declined
     \/ file # {} /\ Declines({File}) /\ Quietly /\ UNCHANGED file
     \/ Reports({File}) /\ UNCHANGED <<file, declined>>
  /\ UNCHANGED <<asked, pending, self, recorded, failure, exit, cloud, deleting, platform,
                 credential, refers, made, shown>>
-----------------------------------------------------------------------------
(* A teardown: the YellowDog account first. *)

TemplatesThere == {Requirements} \cup {Source(z) : z \in Zone}

Agree ==
  /\ At("agree") /\ UNCHANGED raised
  /\ \/ todo' = Tail(todo) /\ UNCHANGED declined
     \/ todo' = Tail(Tail(Tail(todo))) /\ Declines(TemplatesThere)
  /\ UNCHANGED <<asked, pending, self, reported, recorded, failure, exit, accounts, failedOn,
                 made, shown>>

\* The removals of templates that are left are not attempted
SkipTemplates ==
  todo' = SelectSeq(todo, LAMBDA s : s \notin {"remove requirements", "remove sources"})

\* Mutant: a failure of the session ends the teardown.
SessionFails_Raises(code) == todo' = <<>> /\ failure' = code /\ UNCHANGED raised

\* It ends the removal of templates, and is kept for the exit code
SessionFails(code) == SkipTemplates /\ failure' = code /\ UNCHANGED raised

\* _remove_templates_by_prefix(), for one kind: 'goes' are removed and 'stays' are
\* declined or failed, each recorded
RemoveTemplates(s, of) ==
  /\ At(s)
  /\ \/ \E goes \in SUBSET of, stuck \in SUBSET of :
          /\ stuck \cap goes = {} /\ Done
          /\ platform' = platform \ goes
          /\ recorded' = (recorded \/ stuck # {})
          /\ failedOn' = failedOn \cup stuck
          /\ Declines(of \ (goes \cup stuck))
          /\ UNCHANGED <<failure, reported>>
     \/ \E code \in Codes \cap SESSION_FAILURES, goes \in SUBSET of :   \* of a removal
          /\ goes # of /\ SessionFails(code)
          /\ platform' = platform \ goes
          /\ recorded' = TRUE
          /\ UNCHANGED <<reported, failedOn, declined>>
     \/ \E code \in Codes \cap SESSION_FAILURES :                       \* of the listing
          /\ SessionFails(code)
          /\ Reports({})
          /\ UNCHANGED <<platform, recorded, declined>>
     \/ \E code \in Codes \ SESSION_FAILURES :                          \* not caught
          /\ Raises(code)
          /\ UNCHANGED <<platform, recorded, failure, reported, failedOn, declined>>
  /\ UNCHANGED <<asked, pending, self, exit, cloud, deleting, credential, refers, file, made, shown>>

RemoveRequirements == RemoveTemplates("remove requirements", platform \cap {Requirements})
RemoveSources == RemoveTemplates("remove sources", platform \cap {Source(z) : z \in Zone})

\* _remove_keyring(), and the Credential with it
RemoveKeyring ==
  /\ At("remove keyring") /\ Done
  /\ \/ failure # Unset /\ UNCHANGED <<platform, credential, failure, reported, failedOn, declined>>
     \/ /\ failure = Unset /\ Quietly
        /\ platform' = platform \ {Keyring} /\ credential' = None
        /\ UNCHANGED <<failure, declined>>
     \/ /\ failure = Unset /\ Declines({Keyring}) /\ Quietly
        /\ UNCHANGED <<platform, credential, failure>>
     \/ /\ failure = Unset /\ Reports({Keyring})
        /\ \E code \in Codes : failure' = IF code \in SESSION_FAILURES THEN code ELSE Unset
        /\ UNCHANGED <<platform, credential, declined>>
  /\ UNCHANGED <<asked, pending, self, recorded, exit, cloud, deleting, refers, file, made, shown>>
-----------------------------------------------------------------------------
(* A teardown: then the provider's account. *)

DeleteKeys ==
  /\ At("delete keys") /\ Done
  /\ \E gone, stuck \in SUBSET self.keys :
       /\ Deletes(gone, stuck)
       /\ cloud' = cloud \ {KeyOf(k) : k \in gone}
       /\ Knows([self EXCEPT !.keys = @ \ gone])
  /\ UNCHANGED <<Unaffected, pending>>

\* A confirmed removal of one asset, which AWS refuses while others need it.  One
\* that is not there is not an error.
Removes(asset, refused) ==
  \/ ~refused /\ cloud' = cloud \ {asset} /\ Quietly /\ UNCHANGED declined
  \/ asset \in cloud /\ Reports({asset}) /\ UNCHANGED <<cloud, declined>>
  \/ Declines({asset}) /\ Quietly /\ UNCHANGED cloud

DetachPolicy ==
  /\ At("detach policy") /\ Done
  /\ IF self.policy THEN Removes(Attached, FALSE) ELSE Quietly /\ UNCHANGED <<cloud, declined>>
  /\ UNCHANGED <<Unaffected, pending, self>>

DeletePolicy ==
  /\ At("delete policy") /\ Done
  /\ IF self.policy THEN Removes(Policy, Attached \in cloud)
                    ELSE Quietly /\ UNCHANGED <<cloud, declined>>
  /\ UNCHANGED <<Unaffected, pending, self>>

DeleteUser ==
  /\ At("delete user") /\ Done
  /\ Removes(User, User \in cloud /\ (Attached \in cloud \/ KeysThere # {}))
  /\ UNCHANGED <<Unaffected, pending, self>>

DeleteRole ==
  /\ At("delete role") /\ Done
  /\ Removes(Role, FALSE)
  /\ UNCHANGED <<Unaffected, pending, self>>

\* _remove_resource_groups(): a failure of the listing ends it
ListGroups ==
  /\ At("list groups") /\ UNCHANGED raised
  /\ \/ todo' = Tail(todo) /\ pending' = {z \in Zone : Group(z) \in cloud} /\ Quietly
     \/ todo' = <<>> /\ Reports({Group(z) : z \in Zone}) /\ UNCHANGED pending
  /\ UNCHANGED <<asked, self, recorded, failure, exit, accounts, declined, made, shown>>

DeleteGroups ==
  /\ At("delete groups")
  /\ \/ \E z \in pending :
          /\ pending' = pending \ {z}
          /\ \/ deleting' = deleting \cup ({Group(z)} \cap cloud) /\ Quietly /\ UNCHANGED declined
             \/ Reports({Group(z)}) /\ UNCHANGED <<deleting, declined>>
             \/ Declines({Group(z)}) /\ Quietly /\ UNCHANGED deleting
          /\ UNCHANGED <<todo, raised>>
     \/ pending = {} /\ Done /\ Quietly /\ UNCHANGED <<pending, deleting, declined>>
  /\ UNCHANGED <<asked, self, recorded, failure, exit, cloud, platform, credential, refers,
                 file, made, shown>>
-----------------------------------------------------------------------------
(* set_ssh_ingress_rule() *)

\* Mutant: the rules are added whatever the answer.
AgreeSsh_Ignored ==
  /\ At("agree ssh") /\ Done
  /\ Declines({Rule("any")}) \/ UNCHANGED declined
  /\ UNCHANGED <<asked, pending, self, reported, recorded, failure, exit, accounts, failedOn,
                 made, shown>>

\* To open a port is asked first, once for all the regions
AgreeSsh ==
  /\ At("agree ssh")
  /\ \/ Done /\ UNCHANGED declined
     \/ Returns /\ Declines({Rule("any")})
  /\ UNCHANGED <<asked, pending, self, reported, recorded, failure, exit, accounts, failedOn,
                 made, shown>>

\* AWS's rules are of default groups, and Azure's of the wizard's own
RuledAWS(z) == z \notin NoGroup
RuledAzure(z) == Part(z, 2) \in cloud
Ruled(z) == IF provider = "AWS" THEN RuledAWS(z) ELSE RuledAzure(z)

SetRules ==
  /\ At("set rules")
  /\ \/ \E z \in pending :
          /\ pending' = pending \ {z}
          /\ \/ /\ Ruled(z) /\ Quietly
                /\ cloud' = IF operation = "add-ssh" THEN cloud \cup {Rule(z)}
                                                     ELSE cloud \ {Rule(z)}
             \/ Reports({Rule(z)}) /\ UNCHANGED cloud
             \/ provider = "AWS" /\ Quietly /\ UNCHANGED cloud     \* no group, or not enabled
          /\ UNCHANGED <<todo, raised>>
     \/ pending = {} /\ Done /\ Quietly /\ UNCHANGED <<pending, cloud>>
  /\ UNCHANGED <<Unaffected, self, declined>>
-----------------------------------------------------------------------------
(* AWS: the failures of a request that no step catches *)

Less(keys) == cloud \ {KeyOf(k) : k \in keys}

\* What the requests of a step may make of the account: of the keys, some, and of all
\* of them a new one
CarriedOut(s) ==
  CASE s = "create user" -> {cloud \cup {User}}
    [] s = "create policy" -> {cloud \cup {Policy}}
    [] s = "attach policy" /\ Attachable -> {cloud \cup {Attached}}
    [] s = "create key" ->
         {Less(gone) : gone \in SUBSET self.keys}
           \cup {Less(self.keys) \cup {KeyOf(k)} : k \in {k \in Key \ self.keys : Makeable(k, KeysThere \ self.keys)}}
    [] s = "add role" -> {cloud \cup {Role}}
    [] s = "delete keys" -> {Less(gone) : gone \in SUBSET self.keys}
    [] s = "detach policy" -> {cloud \ {Attached}}
    [] s = "delete policy" /\ Attached \notin cloud -> {cloud \ {Policy}}
    [] s = "delete user" /\ Attached \notin cloud /\ KeysThere = {} -> {cloud \ {User}}
    [] s = "delete role" -> {cloud \ {Role}}
    [] s = "set rules" /\ operation = "add-ssh" -> {cloud \cup {Rule(z)} : z \in pending \ NoGroup}
    [] s = "set rules" /\ operation = "remove-ssh" -> {cloud \ {Rule(z)} : z \in pending \ NoGroup}
    [] OTHER -> {}

\* One that is not of AWS's own telling, its connection lost, say: it ends the run,
\* whether or not the request was carried out
BreaksOff ==
  /\ provider = "AWS" /\ todo # <<>>
  /\ LET s == Head(todo)
         requesting == Load \o CreateAWS \o RemoveAWS \o <<"set rules">>
     IN
       /\ \E i \in DOMAIN requesting : s = requesting[i]
       /\ s \in {"attach policy", "detach policy", "delete policy"} => self.policy
       /\ s = "delete keys" => self.keys # {}
       /\ cloud' \in {cloud} \cup CarriedOut(s)
  /\ Raises(FAILURE)
  /\ UNCHANGED <<Unaffected, pending, self, reported, failedOn, declined>>
-----------------------------------------------------------------------------
(* run_operation() *)

\* Mutant: the password is shown at the end of a setup that raised nothing.
Ends_PasswordLast ==
  /\ todo = <<>> /\ exit = Unset
  /\ shown' = (operation = "setup" /\ self.password /\ raised = Unset)
  /\ exit' = CASE raised # Unset -> raised
               [] raised = Unset /\ failure # Unset -> failure
               [] raised = Unset /\ failure = Unset -> IF reported \/ recorded THEN FAILURE ELSE SUCCESS
  /\ UNCHANGED <<asked, todo, pending, self, errors, accounts, declined, failedOn, made>>

\* The exit code: of what was raised, then of what stopped the Platform's side,
\* then of the errors that were only reported or recorded
Ends ==
  /\ todo = <<>> /\ exit = Unset
  /\ shown' = (operation = "setup" /\ self.password)
  /\ exit' = CASE raised # Unset -> raised
               [] raised = Unset /\ failure # Unset -> failure
               [] raised = Unset /\ failure = Unset -> IF reported \/ recorded THEN FAILURE ELSE SUCCESS
  /\ UNCHANGED <<asked, todo, pending, self, errors, accounts, declined, failedOn, made>>

\* The user runs the wizard again.
Again ==
  /\ exit # Unset /\ runs < MaxRuns
  /\ \E op \in Operations(provider) : operation' = op /\ Begins(provider, op)
  /\ runs' = runs + 1
  /\ self' = NothingKnown
  /\ reported' = FALSE /\ recorded' = FALSE /\ failure' = Unset /\ raised' = Unset
  /\ exit' = Unset
  /\ declined' = {} /\ failedOn' = {} /\ made' = {} /\ shown' = FALSE
  /\ UNCHANGED <<provider, accounts>>

StepsOfAWS == LoadPolicy \/ LoadKeys \/ LoadUser \/ CreateUser \/ CreatePolicy \/ AttachPolicy
                \/ CreateKey \/ AddRole \/ DeleteKeys \/ DetachPolicy \/ DeletePolicy
                \/ DeleteUser \/ DeleteRole \/ BreaksOff
StepsOfAzure == CreateGroups \/ ListGroups \/ DeleteGroups
CreatesResources ==
  CreateSources \/ CreateRequirements \/ CreateKeyring \/ AddCredential \/ Save
RemovesResources == Agree \/ RemoveRequirements \/ RemoveSources \/ RemoveKeyring

Next ==
  \/ StepsOfAWS \/ StepsOfAzure \/ CreatesResources \/ RemovesResources \/ Select \/ AgreeSsh \/ SetRules \/ Ends \/ Again
  \/ \E z \in Zone : Vanishes(z)

Spec == Init /\ [][Next]_vars
-----------------------------------------------------------------------------
(* What it is meant to ensure. *)

Ended(op) == operation = op /\ exit # Unset

\* The password of a Keyring that a setup created is shown, however the setup ends.
PasswordShown == Ended("setup") /\ self.password => Keyring \in platform /\ shown

\* A setup that exits 0 has made everything that its templates need, whatever was
\* there before it: for the zones selected, their templates, the networks of Azure,
\* the user and the role of AWS, and a Credential that holds the key just made.
SetupIsWhole ==
  Ended("setup") /\ exit = SUCCESS /\ self.zones # {} =>
    /\ Keyring \in platform
    /\ {Source(z) : z \in self.zones} \subseteq platform /\ refers = self.zones
    /\ file = self.zones \/ File \in declined
    /\ provider = "AZURE" => \A z \in self.zones :
         Network(z, 4) \subseteq cloud \/ Group(z) \in deleting \/ Group(z) \notin cloud
    /\ provider = "AWS" =>
         /\ {User, Policy, Attached, Role} \subseteq cloud
         /\ self.secret # None =>
              credential = self.secret /\ KeyOf(credential) \in cloud /\ self.keys = KeysThere
    /\ provider # "AWS" => credential = Account

\* A teardown that exits 0 leaves nothing but what the user kept.
TeardownIsWhole ==
  Ended("teardown") /\ exit = SUCCESS =>
    /\ (cloud \cap CloudAssets) \ deleting \subseteq declined
    /\ platform \subseteq declined

\* A teardown carries on past a step that fails, of the YellowDog account or of the
\* provider's: what is left of the provider's was kept, or its own removal failed.
\* One that raised is not of these.
CarriesOn ==
  Ended("teardown") /\ raised = Unset =>
    /\ cloud \cap {Attached, Role} \subseteq declined \cup failedOn
    /\ {KeyOf(k) : k \in KeysThere} \subseteq declined \cup failedOn
    /\ {a \in cloud \ deleting : \E z \in Zone : a = Group(z)} \subseteq declined \cup failedOn
    /\ Keyring \in platform => Keyring \in declined \cup failedOn \/ failure # Unset

\* What is left over when a run exits 0 is what it was asked to leave.
WholeOrTold == PasswordShown /\ SetupIsWhole /\ TeardownIsWhole /\ CarriesOn

\* A setup removes no resource group but one that it made, a rule is added only if
\* the user agreed, and nothing is removed that the user kept.
Step ==
  /\ operation = "setup" =>
       \A z \in Zone : Group(z) \in deleting' \ deleting => z \in made'
  /\ Rule("any") \in declined => cloud \cap {Rule(z) : z \in Zone} = cloud' \cap {Rule(z) : z \in Zone}
  /\ runs' = runs => (declined \cap (cloud \cup platform)) \ deleting \subseteq cloud' \cup platform'
OnlyWhatWasAgreed == [][Step]_vars

\* "If there are multiple invocations of setup, then the AWS access key and YellowDog
\* Credential will be updated": the Credential holds a key that there is.
CredentialOfAKey ==
  Ended("setup") /\ exit = SUCCESS /\ credential # None => KeyOf(credential) \in cloud
=============================================================================
