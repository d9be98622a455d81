# Verification of yellowdog-cli

TLA+ models of `yellowdog-cli`, the TLC runs that check them, and TLAPS proofs about
the upload of Tasks, submissions, input files, event streams, following and waiting, runs
of actions, the commands that act on what they name, updates, comparisons, aborts, node
actions, provisioning, the MCP server's runs, Commander and lazy values.
Paths are under `src/`; `utils/` is short for `src/yellowdog_cli/utils/`.

1. [The system](#the-system)
2. [Modules](#modules)
3. [Runs](#runs)
4. [Proofs](#proofs)
5. [Where the code and its documentation part](#where-the-code-and-its-documentation-part)
6. [What is not modelled](#what-is-not-modelled)
7. [What could follow](#what-could-follow)

To check a run: `tlc -config TaskBatches_lost.cfg TaskBatches` (and likewise
for the others, named in the table of runs); to check the proofs:
`tlapm TaskBatches_proofs.tla` (and the other `*_proofs` modules).

## The system

The CLI is a family of commands (`yd submit`, `yd follow`, `yd resize`, ...),
each a short-lived process that talks to one YellowDog Platform account over
HTTP and, for files, to a remote through rclone. Nothing is persisted by a
command but caches and files at the remote; the state worth protecting is on the
Platform, and other runs of the CLI, the Platform's own workers and the user's
Ctrl-C change it or cut a command short at any moment. What makes the code hard
is therefore not storage but *partial failure* (a run of many requests, one of
which fails or is interrupted), *ambiguity* (a request with no answer), *staleness*
(a summary, a count or a listing read earlier), a few *threads and processes* (the
batch pool, one thread for each followed stream, the MCP server, Commander, the Tabs of
several shells), and *precedence* (a setting, a variable, a property or a name that
several places could give).

| Component | State it keeps | Operations | What is hard | What makes it correct | Modules |
|---|---|---|---|---|---|
| Task batch upload, `utils/task_batches.py` | `_stop`, futures, the running count | `submit()`, `total()`, `submit_with_retries()` | a pool of threads; responses lost; Ctrl-C in the main thread alone | a return means every batch is there once; nothing is sent after a failure is known | `TaskUpload`, `TaskBatches` |
| Submission, `submit.py`, `utils/json_raw.py` | the Work Requirement's ID, the uploaded files | create, hold, add Tasks, clean up | a step failing after the Work Requirement exists; a second Ctrl-C | new: all or cancelled and cleaned; added to: never harmed | `Submission`, `AddTo` |
| Task Groups and Tasks, `utils/task_groups.py`, `utils/task_generation.py`, `utils/property_cascade.py`, `utils/csv_data.py` | the levels of a specification, substituted in place | expand, inherit, substitute, number | one built earlier must leave nothing in those built later | each property is what the lowest level that sets it says | `Tasks` |
| Input files, `utils/submit_utils.py` | `_uploaded`, `_rcloned_files` | `upload_file()`, `delete()` | check-then-copy at a remote shared with other runs; clean-up of what may not be ours | what was there before stays; no Task reads another's file | `InputFiles` |
| Event streams, `utils/follow_utils.py` | `_Outage`, `_STOP_FOLLOWING` | `follow_events()` | drops, silence, early closes, stop | an end is an end; outages are bounded; a stop is obeyed | `EventStream` |
| Following and waiting, `follow.py`, `wait.py` | failures by entity, threads | `follow_ids()`, `_wait_for_streams()`, exit codes | deadline against late answers | the exit code tells the outcome | `Waiting` |
| Capacity waits, `utils/capacity_wait.py` | what was seen so far | `capacity_reached()`, `wait_for_capacity()` | a change between two tests, in an outage or before the stream | returns when the action is done, no sooner | `Capacity` |
| Action runner, results and exit codes, `utils/action_runner.py`, `utils/results.py` | records, causes | `resolve()`, `run_units()` | a session failure part-way | every target in one record; an exit code with one cause | `ActionRun` |
| Compute actions, `utils/compute_action_common.py` | targets, units | resolve, refuse, group, act, follow | Instances named alone and by what holds them; the pool that owns a Compute Requirement | one request each; a pool's own is left to the pool | `ComputeActions` |
| Task aborts, `abort.py` | `handled`, records | `_run_units()` | Tasks that are in several targets | attempted once; what was left out is left | `AbortRun` |
| Cancellation, shutdown, start, hold, finish | records, what is followed | select, resolve, confirm, act, terminate, follow | states that change after selection; the second of two steps failing | recorded as done is done | `CommandRun` |
| Node actions, `nodeaction.py` | pending, finished, unfetched | submit groups, poll queues | queues polled while they change, fetches failing, a deadline | submitted once, told as it ended | `NodeActions` |
| Priority, token, boost, resize | the copy fetched | fetch, change, send back | changes by others; requests not to be made twice | others' changes kept; made once | `Updates` |
| Provisioning, `provision.py`, `instantiate.py` | counts, batches | rationalise, divide, provision, follow | counts that contradict; a batch that fails after others | what was asked for, what was made told | `Provision` |
| Resources, `create.py`, `remove.py`, `utils/resource_*.py` | records by resource, lookup caches | `process_each()`, every type's creation and removal | resources that refer to each other; answers lost; caches | in the order of references; what was made is told | `ResourceRun` |
| Data client, `utils/dataclient/`, `download.py`, `upload.py`, `delete.py` | failures, records by path | list, plan, transfer, delete | partial transfers; paths within others; `--sync` deleting | recorded is so; nothing unasked goes | `Trees`, `Downloads`, `Uploads`, `Deletions` |
| Entity lookups, `utils/entity_utils.py`, `utils/named_targets.py` | caches | find by name, path, pattern, ID | names reused, and that read two ways | the one thing it means, or none | `Names` |
| Variables, `utils/variable_substitution.py` | `VARIABLE_SUBSTITUTIONS`, `_DEFINITIONS` | register, read, substitute | precedence, nesting, circles, lazily defined ones | highest rank; told of what is undefined | `Variables` |
| Configuration, `utils/load_config.py` | `CONFIG_SOURCES`, `ENVIRONMENT_OUTRANKED` | load each section | loaders written apart that must choose alike | highest rank, and its place named | `Settings` |
| Comparison, `compare.py` | pools, Nodes, sources fetched | fetch when needed, compare | a pool that scales meanwhile; failed fetches | all compared, and alike | `Compare` |
| Doctor, `utils/doctor_checks.py` | rows, what checks found | each check | checks that depend on others; calls given up | each told once, failures at their cause | `Doctor` |
| Completion, `utils/completion*.py` | files of answers | look up, read, write, expire | processes at once, abandoned lookups, clocks | what the command would take, no older than it may be | `Completion` |
| Lazy values, `utils/lazy.py`, `utils/context.py` | value, built, lock | `_get()` | first uses at once, nested builders, exceptions | built once, no deadlock | `Lazy` |
| MCP runs, `mcp/runner.py` | process, pipes, deadline | `run_command()` | timeout against flush; grandchildren holding pipes | returns, with what was flushed, leaving nothing | `McpRun` |
| Commander, `commander/` | nested loops, discoveries, helpers | click, list, confirm, discover, close | re-entrant event loops | acts on what was agreed; the newer stands; closes | `Commander` |
| Cloud Wizard, `cloudwizard.py`, `utils/cloudwizard/` | what the account has | setup, teardown, SSH rules | a step failing with the rest carried on; a second run | whole, or told; nothing not its own removed | `Wizard` |
| Registry and dispatch, schemas, Jsonnet and JSON utilities, listing | - | - | none: data, display, or text made of text | - | not modelled |

`PROJECT.json` lists every component with its sources and status, and the
hazards, each at the line where it bites, with the properties that would catch it.

How the parts meet. A specification becomes Task Groups and Tasks (`Tasks`), with the
variables (`Variables`) and the settings (`Settings`) that hold. A submission uploads
input files as it builds batches, adds them through the batch pool, cleans up through
both, and may then follow the Work Requirement through an event stream, whose thread
records the failures that the exit code is made of. Every action command reads names
(`Names`), resolves targets and acts by the runner's rules (`ActionRun`): `CommandRun`,
`ComputeActions`, `NodeActions`, `AbortRun` and `Updates` are what each makes of them.
Compute actions follow the same streams, with a test of the capacity after each event.
The MCP server and Commander run commands as processes and see only their output and
exit codes. The commands share no memory: they meet on the Platform, at the remote and
in the files of a cache, and there another's step is an action of the model (another
run's `--add-to`, upload, deletion, update or Tab).

## Modules

Each module's heading says what it stands for; here is how they correspond.
Definitions that model code have their source lines in `PROJECT.json` under `map`.
Operators commented `Mutant:` are the wrong versions of the definition below them
that the properties are known to catch; they are no part of the model.

### Submitting

**`TaskUpload`** is the abstract specification of uploading a Task Group's
Tasks: batches are added at most once, and the call returns only when all are there.
**`TaskBatches`** is `utils/task_batches.py`: the main thread's `pc` runs through
the building loop, `total()` and the pool's exit; `state[b]` is a batch from
unbuilt through queued, taken, sending and backing off to its future's result;
`copies` and `late` are the Platform's (the requests it has carried out, and those
whose response was lost that it may still carry out). `stop` is `Batches._stop`; a
thread's check of it (`Start`) is a step apart from the first request (`Send`), so that a
failure may fall between the two, and the batch is then sent all the same.
`ImplementsUpload` is the refinement, with `contents <- copies` and the outcome
read off `pc` and `failure`.

**`Submission`** is `submit.py`'s order of things, with `--hold`, `--add-to` and
`--json-raw`. It uses an instance of `TaskUpload` for the Task Group under way (the
composition that the refinement justifies): it may raise, or be interrupted, with
any of its batches added and others yet to be. The `wr` and `bucket` are the
Platform's and the remote's.
**`AddTo`** is how `--add-to` numbers Tasks: the count from the summary, the
search for the first new name, the polls, and the adding, with another run that
does the same.
**`InputFiles`** is `UploadedFiles` in two runs that share a remote; `origin`
remembers, for the properties, who put a file there.
**`Tasks`** is what a specification becomes: CSV files expand Task Groups, counts
expand the rest, `Override`, `CreateGroup` and `Generate` are the steps that
substitute *in place*, so that what one leaves behind is there for the next. One
property of each kind (inherited by all, by a Task alone, a table, two forms of one)
stands for the others. The properties compare with a reference definition that reads
the specification as it was given, level by level, and never as it was left.

### Following

**`EventStream`** is `follow_events()` and `_Outage` for one stream, with time
passing in whole units in connections, reads and sleeps. A line read with no stop set
(`Line`) and the handling of its event (`Handle`) are two steps, so that a stop may fall
between them; in the second, `settled()`'s own request may fail, and a lost connection of
it is caught as the stream's. A connection that is made takes no time of the model's.
**`Waiting`** is what is made of streams that have ended: threads, deadline, final
statuses and exit codes, for `yd wait`, `yd follow` and `yd submit --follow`. An
`EventStream` is abstracted in it to the ways it can end (`thread[i]`).
**`Capacity`** is `utils/capacity_wait.py` with the rule each compute action and a
resize gives it; `platform` is the Compute Requirement's Instances and the phase of
the action (accepted, begun, over).

### Acting on what is named

**`ActionRun`** is `utils/action_runner.py` with `utils/results.py` and
`utils/exit_codes.py`: the targets resolved one by one, the units acted on, the
records and the exit code. The next five are what commands make of it:
**`CommandRun`** `yd cancel`, `shutdown`, `start`, `hold` and `finish`, with the
Compute Requirements that a shutdown terminates and the following of what was done,
while the Platform moves things on (`Moves`), and a request that fails may have been
carried out, its answer lost (`CarriedOut`);
**`ComputeActions`** the Compute Requirement and Instance actions: the rule of the
Worker Pool that manages one, the units, one request for all the Instances of a
Compute Requirement;
**`NodeActions`** the submission of action groups and the polling of queues;
**`AbortRun`** Work Requirements, Task Groups and Task IDs that overlap, with
selection, confirmation and session failures;
**`Updates`** the commands that change one value: a copy fetched and sent back whole
(`Copy`, `Send`), or a request that is not to be made twice (`Call`), with the
changes of others in between.
**`Names`** is what a name, a path of two or three parts or a pattern gives, against
all that it could mean; Task Groups are kept as fetched while the Platform goes on.

### Making and removing

**`Provision`** is the counts of nodes (from the configuration, `--property`, a
specification and `--target`), made consistent, divided and sent batch by batch.
**`ResourceRun`** gives each type of resource its program of steps for creation and
for removal (`Program`), which the actions carry out one by one, with the lookup
caches and every request failing or losing its answer.
**`Trees`** is files as functions from paths to sizes; **`Downloads`**, **`Uploads`**
and **`Deletions`** are the three commands over them, where rclone may fail with any
part of a run done, and others upload and delete meanwhile.
**`Wizard`** is a setup and a teardown for each provider, run twice over one account,
every step failing, and every answer of the user's.

### Reading

**`Variables`** is the table of definitions as each place is read into it, and the
passes over a specification; a value is a sequence of texts and expressions. It is the
one module that declares RECURSIVE operators, for nested expressions.
**`Settings`** loads one setting of `[common]` and one field of `[dataClient]`, with
every place holding its own name for a value, so that the value tells its origin.
**`Compare`** and **`Doctor`** are a run each of `compare` and `yd doctor`; the actions
have the names of the functions, `check_*` and `_get_*`.
**`Completion`** is two Tabs, each a process with its lookup's thread, and the cache
files between them, with a clock.

### Processes

**`McpRun`** is `mcp/runner.py` on POSIX: the process group, the pipes and who
holds them, the deadline, the interrupt and the kill.
**`Lazy`** is `utils/lazy.py`: a lock for each value (never re-entered: no builder
reads its own), the check outside it and the check inside, and builders that read
other values.
**`Commander`** is the window: `nested` is the stack of event loops and dialogs
running, and only what the innermost waits for lets it return, so that a discovery
begun within another ends before it. `inputs` counts the edits of the fields and of the
configuration, and `fields` is the one that the fields and the file selected stand at: a
command is built of them as it is run, and a listing and a dialog remember (`from`, `of`)
what they were at the click and as the dialog was shown. A name pattern or path is read at
the click in the code and the rest at the run; the two are one here.

### For TLC

`MCSubmission` gives the constants of one module their values.
**`Processes`**, **`Targets`** and **`MCResources`** are sums of components: a
behaviour is that of one of them, `chosen` as it begins, in variables `r1`, `r2`, ...
that each instance takes as its own; the properties say, for the one that was
chosen, what it promises (`chosen = "abort" => Abort!AttemptedOnce`). Components of one
sum promise the same kind of thing, under one name, and none reads another's state:
in the code they are programs of their own, so nothing is lost by not interleaving them.

**`Processes`** holds `Lazy`, `McpRun`, `EventStream`, `Capacity`, `AddTo`, `Waiting`,
`Commander`, `ActionRun`, `AbortRun`, `InputFiles`, `NodeActions` and `Provision`, and
**`Targets`** `CommandRun`, `ComputeActions`, `Updates` and `Compare`. They declare the
components' constants, so that the theorems about them are for all their values;
**`MCProcesses`** and **`MCTargets`** have the values that TLC takes. `MCResources` holds
the others, with their values in itself and in `MCReading` (of what reads: `Names`,
`Variables`, `Settings`, `Tasks`, `Doctor` and `Completion`). **`Arranging`** has what
`CommandRun`, `ComputeActions` and `Updates` do to lists (first mentions, sorting by type),
as sets and functions that can be proved about.

Each component's constants are constrained by its operator `Parameters`, which `MCProcesses`
and the other sums ASSUME of their instances. Each module defines `TypeOK`. It is what the
proofs rest on, where there are any; in the others it documents the values of the variables, and holds
when it is added to a run of the module.

## Runs

| Run | Modules | What it asks | Bounds |
|---|---|---|---|
| `batches_lost` | `TaskBatches`, `TaskUpload` | whether an upload that returns has put every batch there once, whatever was lost, resent or interrupted; and whether it implements `TaskUpload` | 5 Tasks in batches of 2 (the last one short), 1 thread or 2, 3 attempts, one Ctrl-C; two batches named, one not |
| `submission` | `Submission`, `TaskUpload` | what a submission leaves behind when any step of it fails or is interrupted | new, raw and added to; 2 Task Groups of 2 batches, 3 files (one shared by two groups, one there already), 2 Ctrl-Cs |
| `targets` | `MCTargets`, `Targets`: `CommandRun`, `ComputeActions`, `Updates`, `Compare` | what each command acts on, records and follows, whatever fails or is carried out unanswered | below; 500,337 states |
| `processes` | `MCProcesses`, `Processes`: `Lazy`, `McpRun`, `EventStream`, `Capacity`, `AddTo`, `Waiting`, `Commander`, `ActionRun`, `AbortRun`, `InputFiles`, `NodeActions`, `Provision` | whether what is done is done once and told, and what is waited for comes and is what was waited for | below; 363,320 states |
| `resources` | `MCResources`: `ResourceRun`, `Downloads`, `Uploads`, `Deletions`, `Wizard`, `Names`, `Variables`, `Settings`, `Tasks`, `Doctor`, `Completion` | whether what is made and removed is what was asked, and what is written and there is read alike by every route | below; 1,954,404 states |
| `waiting_submit`, `autoshutdown`, `discovery`, `scope_confirmed`, `nested`, `whole_count`, `credential` | `Waiting`, `MCTargets`, `Commander` (twice), `MCResources` (twice), `Wizard` | each one sentence of the documentation, [which does not hold](#where-the-code-and-its-documentation-part) | the smallest in which it fails |

What they show, property by property, is in the comments of the modules. In short:

**`batches_lost`.** `ReturnsWhole`, `AtMostOnce`: the retry of a batch refused for its
names, the read timeouts that are not resent and the late requests together
neither lose nor double a batch. `NoneSentAfterFailure`: once the main thread has met a
failure, a batch that was not past its thread's check by then never has a request go out;
one that was past it may be sent, as in the code. `EndsClean`: a failure or Ctrl-C,
wherever it falls in the collection of results, stops what was queued, leaves
nothing under way, and is raised. Three attempts are enough for a first, a middle and a
last; three batches for one failed, one under way and one queued with two threads.

**`submission`.** The clean-up is exactly what the kind of submission calls for, and
where it is not carried through, `undone` says which step failed. Two Ctrl-Cs are
one in the work and one in the clean-up. `HeldBeforeTasks` and
`LiveTasksHaveInputs` relate the Work Requirement's state to its Tasks and their
files at every moment, not only at the end.

**`targets`.**

- `EachTold`: what `CommandRun` did against what it recorded: what is recorded as done was
  done, and what was done is recorded as done or, where its answer did not come, as failed;
  an update made once and told; and each comparison reported.
- `ComputeAsAsked`: one request for an Instance named alone, by a Node, and within a Compute
  Requirement; and an auto shutdown is not set on a Worker Pool's Compute Requirement.
- `FollowedIsFinished`: of Compute Requirements and what a command followed.
- `OthersChangesKept` allows only the moment between a copy and its sending, which no
  client can close.
- `ComparedAlike`: two Task Groups that ask the same, of a pool in each stage of scaling.

**`processes`.**

- `BuiltOnce` with 3 Lazies that read each other in the code's order and 2 threads of 2 uses,
  where every builder may raise. `NoneLeft` covers the three ways a command's output comes
  back (in time, on the interrupt, from pipes that something else holds open), with 2
  children.
- `OutageBounded` measures by `down`, a clock the code does not have, the time without a
  stream, `NotGivenUpEarly` by `silent` the time without an event, and `StopHeeded` by
  `after` what a thread still does once told to stop. The times are the code's, in units of
  5 s, so the bounds on delays and attempts are real ones: `MaxAttempts` is where the delay
  has reached its maximum, after which attempts are all alike.
- `ReturnsDone` of 2 Instances running, stopped or off, every action, any target, 2 drops of
  the stream; of `yd wait`; and of the queues of 2 Nodes.
- `EachRecordedOnce`: the runner's records (4 targets that name 3 things in 2 units, 3
  codes), an abort's, the submission to each Node (one given twice), and each batch that was
  provisioned. `ExitTellsCause`: an action's exit code has one cause, and a following's
  holds through all orders of 2 streams ending, the deadline and the entities finishing.
- `AttemptedOnce`: a Task in a Work Requirement, a list of IDs and a Task Group.
- `OwnInputs` and `FoundKept` of two runs with duplicates and clashes.
- `ProvisionedAsAsked`: seven configurations by five specifications, with counts that
  contradict, `--target` of 0, of 6 and of none, and batches of 2, which divide the counts
  evenly, unevenly and not at all; the proof is for batches of any size.
- `NumberedOn`: Task Groups with none to four Tasks, whole or with gaps, 2 to add, 2 by
  another run, 2 polls; it is checked with numbers of one width (see below).
- `ActsOnWhatWasAgreed` and `NewerStands`: 2 nested loops, which is one within another, 2
  commands, an edit of a field or of the configuration.
- `Ends` is the liveness of each: a use of a Lazy, a run of the MCP server, an event stream
  (no mix of drops, refusals, quiet spells and early closes keeps its thread for ever once
  its entity has finished or it is told to stop), a following whose end is due, a numbering,
  and a window being closed.

Every property here but `NumberedOn` and `Ends` is proved for all values of the constants,
so these bounds need only reach each of the actions.

**`resources`.** `CreatedIsTold` and `InReferenceOrder`: six lists of three resources,
among them a resource of every type, out of order, by name and by ID, created and
removed, with every request failing or unanswered. `TransferredAsTold`: files and
directories that meet, contain one another and have one name, in every mode, a run failing
with any part of it done. `WholeOrTold` and the Wizard's part of `OnlyWhatWasAsked`: two
runs for each of 3 providers, with 2 regions, one without a security group, and 2 access
keys; a step of AWS's may fail by a ClientError, which is reported and passed over, or
otherwise (its connection lost, say), which ends the run with the request carried out or
not (`BreaksOff`). `WholeOrTold` is of `yd doctor` too: it tells each check, and a failure
once. `OnlyWhatWasAsked` is what a `--sync`, a deletion and a teardown may take away.
`MeansWhatItGives`: names of two Namespaces that are one another's, reused names, and
those reading two ways; Tab offers only what was there and would be taken, within the
cache's time. With two Tabs, a cache that lasts 1, lookups that are given up after 1, one
setting back of the clock and one change of the Platform, over a time of 4: every way
for an answer to be read, expired, replaced and abandoned halfway happens.
`AsWritten`: of a variable (chains, circles, defaults, unset, computed names; 3 places
that define and one imported), a setting (every combination of the places that may hold
it), and a Task (each property at each level, CSV files, counts, `--add-to`), the
reference definition and the code's steps agree, and what is refused is refused for
its cause.

Deadlock checking is off where the program ends: every run here is of a command
that does, but the window, which is closed.

### Fairness

Only of what the code or its libraries ensure.

- `TaskBatches`: the main thread and each pool thread. An attempt ends at the latest by
  its read timeout, and a sleep is over in time. The Platform owes a lost request nothing.
- In `Processes`, `Fairness` is of `EventStream`, its thread, each of whose connections,
  reads and sleeps has a timeout; of `Lazy`, each thread; of `McpRun`, the run alone (the
  processes may hang for ever); of `Capacity`, the requests, the sleeps and the deadline,
  and the Platform, which completes what it began unless the provider is stuck (a state of
  the model, where nothing is owed); of `AddTo`, the run, whose requests time out, and
  nothing of the summary or other runs; of `Waiting`, the main thread, which polls with
  timeouts, and the stream of an entity that has finished, by `Leaves` of `EventStream`;
  of `Commander`, the return of an event loop whose condition holds, and its timers. A
  helper process and the user owe nothing: `Ends` is of a window that closes, which
  terminates the helpers itself. Its other components have none.
- All the others: none, safety only.

### What is assumed of the outside

The Platform refuses a batch whole if one of its names is in use, carries out a lost
request at most once but at any later time, and delivers no event of a finished
entity for ever. In `Capacity` a stream begins with an event, the Platform begins an
action on all its Instances together, and a replaced Instance is changing until its
replacement runs. In `McpRun` a child can leave the process group only by its own act.
In the data client's modules a directory exists as long as a file is in it, as in a
bucket, and rclone deletes nothing of a sync that fails. In `NodeActions` the actions of a
submission are in the queue when the first delay of a following is over, and nothing else
submits to it. In `Wizard` only the wizard changes the accounts, but for what vanishes, and
the page of the account's policies that is listed as a run begins holds the wizard's own if
it is there; that it is not in the page `_create_iam_policy()` looks in is modelled, and
leaves what was known of it. In `Commander` a native dialog for a file takes no time.

## Proofs

| Module | Theorem | States | Assumes |
|---|---|---|---|
| `TaskBatches_proofs` | `TypeCorrect` | `Spec => []TypeOK` | - |
| | `InterruptsRaised` | `Spec => []InterruptRaised` | - |
| | `LeavesNoneUnderWay` | `Spec => []NoneUnderWay` | - |
| | `CallsEndClean` | `Spec => []EndsClean` | - |
| | `NoneSent` | `Spec => NoneSentAfterFailure` | - |
| | `ReturnsTheWhole` | `Spec => []ReturnsWhole` | `Taken = {}`, `Drops \subseteq Named` |
| | `AddedAtMostOnce` | `Spec => []AtMostOnce` | the same |
| | `Refinement` | `Spec => Upload!Init /\ [][Upload!Next]_Upload!vars` | the same |
| `Submission_proofs` | `TypeCorrect` | `Spec => []TypeOK` | - |
| | `EndsWell`, `HeldFirst`, `FailureCancels`, `AddToLeaves`, `InputsStay`, `LeavesNothing` | the six properties of its run | - |
| `EventStream` | `TypeCorrect` | `Spec => []TypeOK` | `Parameters` |
| `ActionRun_proofs` | `RecordedOnce` | `Spec => []EachRecordedOnce` | - |
| | `ExitTold` | `Spec => []ExitCodeTold` | - |
| | `StopsAtSession` | `Spec => NothingAfterSession` | - |
| `AbortRun_proofs` | `TypeCorrect`, `AttemptedOnceOnly`, `LeftAlone`, `AllTold` | `TypeOK`, `AttemptedOnce`, `LeftOutKept`, `EveryTargetTold` | - |
| `Lazy_proofs` | `OnceBuilt` | `Spec => []BuiltOnce` | - |
| `Processes_proofs` | `LazyBuiltOnce`, `McpLeavesNone`, `ReturnedDone`, `CauseTold`, `RecordedOnce`, `AbortedOnce`, `InputsOwn`, `ProvisionedWhole` | `BuiltOnce`, `NoneLeft`, `ReturnsDone`, `ExitTellsCause`, `EachRecordedOnce`, `AttemptedOnce`, `OwnInputs`, `ProvisionedAsAsked` | `Parameters` |
| | `OutagesBounded`, `GivenUpInTime`, `StopIsHeeded` | `OutageBounded`, `NotGivenUpEarly`, `StopHeeded` | `Stream!Parameters` |
| | `InputsKept`, `CommandsAgreed`, `FoundIsNewer` | `FoundKept`, `ActsOnWhatWasAgreed`, `NewerStands` | `Parameters` |
| `Targets_proofs` | `CommandsTold`, `CommandsDone` | `Cmd!ToldAsDone`, `Cmd!DoneMeansDone` | `Cmd!Parameters` |
| | `ChangedOnce`, `OthersKept` | `Update!ChangedOnceAndTold`, `OthersChangesKept` | `Update!Parameters` |
| | `EachCompared`, `SameAnswers` | `Cmp!AllCompared`, `ComparedAlike` | `Cmp!Parameters` |
| | `ComputeAskedOnce` | `ComputeAsAsked` | `Compute!Parameters`, and that as many pools are checked as have a Compute Requirement's name |
| | `AllTold`, `FollowsToTheEnd` | `EachTold`, `FollowedIsFinished` | the `Parameters` of those they are about |

Each holds for every value of the constants that satisfies the module's `Parameters`,
which a run evaluates for the instance it checks (an ASSUME of the module, or of the sum
that instantiates it). The theorems of `Processes_proofs` are about the properties of the
run `processes` themselves, and each assumes the `Parameters` of the components that it is
about.

**`TaskBatches_proofs`**: every number of Tasks, batch size, number of threads, attempts
and interrupts. The two further assumptions say that no other Task of the group has a
name of the upload, and that an unnamed batch loses its response to a read timeout alone;
what happens without them is told [below](#where-the-code-and-its-documentation-part).
The properties are not inductive. `IInv` adds to `TypeOK`:

- `total <= Upto(cursor)`: the count never exceeds the Tasks of the batches whose results
  were read;
- `AttemptInv`: a batch backing off has an attempt left;
- `MainInv`: where the main thread can be, with a pool and without, and that the batches
  from `next` on are unbuilt;
- `StopInv`: if the stop event is set, there is a failure for `total()` to raise, recorded
  already or among the batches built; a skipped batch means that it is set, and the loop
  is left early only for it;
- `ReadInv`: while nothing has failed, every result read is of a batch added or skipped,
  the total is exactly theirs if none was skipped, and with `pc` at the exit all are added;
- `FailInv`: after a failure `stop` is set, an interrupt leaves a failure, and
  `NoneUnderWay`;
- `UnsentInv`: no request for a batch goes out before its thread has let it past the check.
  With `FailInv` it gives `NoneSent`: from the failure on `stop` stays set, and what is not
  past its check then can only be skipped.

`StopInv` is what makes `ReadInv` inductive: a batch skipped returns 0 without an error, and
only the failure that set `stop` keeps the call from returning a total without it.
With the two assumptions, `PlatformInv` holds as well: a named batch has one
copy at most, because the Platform refuses the second; an unnamed one has one copy, or one
request that may yet be carried out and no attempt to follow, or neither; and a batch
counted as added is held once. `BatchesCover` is the arithmetic of the last, short batch.
The proof has a lemma for each part of the invariant, with a case for each action.

**`Submission_proofs`**: every set of kinds, Task Groups, batches and files, and any
number of interrupts. `IInv` adds to `TypeOK` and `CancelledOnFailure`:

- `StartInv`: until Tasks can be added nothing is built, copied, failed or undone;
- `StageInv`: what the Work Requirement is at each place of the program, so that files are
  deleted only once it is cancelled or could not be;
- `UploadInv`: the Platform holds only what was built, all of it once the upload returned,
  and a Work Requirement to be held has nothing built while it is not;
- `BuiltInv`: the files of every batch *built*, and not only of those added, are in place
  while the Tasks may run. `LiveTasksHaveInputs` is about the Tasks added, which a
  request still under way can add to later, so it is not inductive without this;
- `FilesInv`: what is at the upload paths is what was there and what the run knows it created.

**`EventStream`**: all intervals, limits and timeouts. The invariant adds to `TypeOK` three
parts. `ClockInv` relates two clocks: the time without a stream never exceeds the outage's
own clock while that is within its limit, and past it by one last sleep at most. `SilentInv`
is that the outage's clock is never ahead of the time without an event, since an event alone
ends it and nothing else stops it: what is given up on at the limit has been silent as long.
`AfterInv` says what may have been done since the stop, and for how long, by where the
thread is: there is no way back from it to a connection or to an event. `Parameters` says
that the limits are positive, as the code's constants are.

**`ActionRun_proofs`**: any targets, however many name one thing, and any division of the
things into units. `ReachedInv` says of every target reached that it is accounted for or
that what it names is still to be acted on; `FreshInv` that nothing that is still to be
resolved or acted on has a record, so that none gets a second; `PassInv` that no thing has a
record before all are resolved: without it, a thing named again by a later target could be
among the `items` once more after it was recorded. `ExitTold` rests on `CauseInv`, which
ties `_FAILURE_CAUSES` to the records of failures, as many as there are and with the causes that
they have, and on `EndInv`, that a run ends with what its causes make of it, or with the
session's failure. `StopsAtSession` rests on
`SessionInv`: a cause of the session in `_FAILURE_CAUSES` means that the run has ended.

**`AbortRun_proofs`**: any Tasks, and any units, in any order and however they overlap.
`PlaceInv` is what is left of the unit under way at each place of the program: Tasks not
handled, the rest of its Tasks handled. `AttemptsInv` and `LeftInv` tie `attempts` and the
choices to `handled`, which is what the code asks, and `HandledInv` ties `handled` to the
records. `ListedInv`, `PassedInv` and `StoppedInv` lead to `EveryTargetTold`: each unit
passed is told of by its parent or by its Tasks, and the failure of a session leaves
neither a unit nor a Task listed untold. `RecordsStep` (no record is lost, through as many
as three sets of records in one step) is the lemma that the rest use most.

**`Lazy_proofs`**: any threads, and any Lazies. The invariant is about the calls in the
threads' stacks. `FitsInv`: a call that is past the lock has it, the builder of a call has
not returned and the Lazy is not built, and a call that reads or unlocks has it built.
`StackInv`: only the innermost call of a thread is outside its builder, so that what an
exception unwinds has built nothing. `LazyInv`: a Lazy built and not yet flagged has a call
about to set the flag, which has the lock; so the second check, made with the lock, finds
that there is nothing to build or that nothing was. That no builder reads its own Lazy is
not needed for this, but for `Ends`.

**`Processes_proofs`**. A step of the sum is a step of the component chosen and leaves
`chosen` as it is, so an invariant `chosen = "..." => IInv` of each is preserved by them all
if `IInv` is by the component's own steps. Of `Lazy`, `ActionRun`, `AbortRun` and `EventStream`
that is a theorem of their modules, which `Processes` or its proofs instantiate; of the others
it is proved here, from the `IInv` that closes the component's module:

- `InputFiles`: any number of runs, whatever each uploads. `SeenInv` says that a run has seen
  exactly the uploads it has dealt with, `CreatedInv` that it deletes only at paths of its
  own, `OwnInv` is `OwnInputs` at every step of an upload, and `FoundInv` adds to `FoundKept`
  that a run about to copy over a file that was there first has found it there: the check and
  the copy are two steps, and between them the property alone does not tell what is to be
  put into `created`.
- `McpRun`: `GroupInv` is that the command is in its process group while it lives, so that a
  kill of the group is of the command too, and that a run that has its output has no command
  left; `FlushedInv` that what is flushed was all that was recorded, and that what was read is
  all that was written. The properties are of a run that has returned, and say nothing
  of the kill before.
- `Waiting`: `ChargeInv` is that nothing is charged with success but what is done, that
  another charge is one recorded of it or a failure to fetch it, and that the exit code is made
  of the charges; `StreamInv` why a stream that has ended did, and that none runs once a
  following without a deadline is over; `SubmitInv` that a submission follows one stream.
  `FollowExitCodeIs` is the lemma on exit codes: 0 of no failures alone, and a code of its own
  only if all have it.
- `Capacity`: `AcceptedInv` is that, until the Platform begins an action, its Compute
  Requirement reads as it did: if it was at its target, not settled for an action that is
  done once settled, and settled, with no change seen, for the others, so that neither rule
  can hold; `BegunInv` that after it an Instance that was asked is changing or as it was
  asked. Nothing is assumed of the states of the Instances or of the target before the
  action: `ReturnsDone` says itself that of one not at its target, and of none other, a
  following may return before the action has begun (*A second stop*, below).
- `Commander`: `Types` is of the stack of loops and dialogs, whatever its depth; `ActionInv`
  that a listing or its dialog is outermost on the stack, so that what a command was begun
  with stands until it ends, and that the fields are as they were when its dialog was shown:
  a dialog is modal, and a file changing on disk meanwhile changes no field;
  `DiscoveryInv` that what was found is older than what the
  discovery of the present generation was begun with, and not of the last edit while that is
  to be discovered, and that no two discoveries on the stack are of one generation. The lemmas
  about pushing, popping and changing the stack are what the actions have in common.
- `NodeActions`: `RowsInv` is the record that each Node to act on has, by how far the run is:
  none before its turn, one after it, which a failure of the session gives to those that come
  later at once. It needs the Nodes to be different (`NodeOnce`: of a Node given twice the
  later mention is dropped). `SentInv` ties what was put in a queue to the record
  "submitted", both ways; `FollowInv` says of each queue that was put to that its Node is
  polled, seen done, or given up, and of what is seen done that it stays so; with
  `NodeOutcome`, that the exit code is not 0 if any was given up, `FollowedIsFinished` follows.
- `Provision`: `MadeInv` is that the batches that exist are the first of them, and while the
  run goes on are those that are told. For `ProvisionedAsAsked`, `InputInv` is what was
  configured, specified and asked for, and `DividedInv` how far the counts have come from it
  and that what is sent is what they are divided into. That the batches' shares add up to the
  whole is an induction over the batches; `EveryNatural` has it from the least element of a
  set of naturals, which `Least` finds by the well-foundedness of the finite subsets
  (`FS_StrictSubsetOrderingWellFounded` and `WFMin` of the library, which take no operator).

What a run tells of its causes, what a following polls and how batches are counted is in
terms of finite sets: `Id`, `Nodes` and the exit codes are finite by `Parameters`.

**`Targets_proofs`** is about the sum of `CommandRun`, `ComputeActions`, `Updates` and
`Compare` in the same way. Its first part is about lists: `Ranked` gives the members of a
sequence their places, by `Earliest` (as `Least` above) instead of an induction over its
length, and `Arranges` that sorting by type keeps what is in it, and how often. Then, by
component:

- `CommandRun`: `ItemsInv` (each thing is resolved once and is to be acted on once) and
  `RecordsInv` (recorded once, unless it still is to be) carry the rest; `DoneInv` ties what
  the Platform did to the records: done or aborted means that it did, and that it did means
  done, aborted or failed, a failed request having been carried out or not. `TerminatedInv`
  is what became of each pool's Compute Requirement, `AbortInv` that a Work Requirement being
  cancelled is cancelled again only to abort, `EndsInv` that a run ends with 0 only if
  nothing failed.
- `ComputeActions`: `ItemsInv`, `UnitsInv` (what is together is in one request, made once),
  `RecordsInv`, `RuleInv` (no other is asked than those that the Worker Pools' rule kept),
  `FollowInv` and `EndsInv`. `ComputeAskedOnce` assumes that as many pools are checked
  (`AUTO_SHUTDOWN_POOLS_CHECKED`) as have the Compute Requirement's name: one beyond them is
  missed, as the code says.
- `Updates`: `ItemsInv`, `GroupsInv` (each thing to change is in one group until it has been
  recorded), `CallsInv` (it has not been set before, nor has an answer been had) and
  `CopyInv` (the copy that is sent back is what the Platform held, but for what changed since).
- `Compare`: `PoolsInv`, `RowsInv` (the rows so far are those of the first comparisons),
  `CachedInv` (what was fetched of a pool is what it is compared by, for every Task Group)
  and `FailuresInv`.

Checked by TLC alone:

- liveness, which is out of the prover's reach: `Ends`, and the fairness in
  `ImplementsUpload`;
- `NumberedOn`: it is true only while the numbers keep one width (*Numbers of two widths*,
  below), so that there is no theorem about all values to prove;
- the properties of `MCResources`: `CreatedIsTold`, `InReferenceOrder`, `TransferredAsTold`,
  `WholeOrTold`, `AsWritten`, `OnlyWhatWasAsked` and `MeansWhatItGives`. `Variables` declares
  RECURSIVE operators, and nothing can be proved in a module that reaches it, as
  `MCResources` does. `ResourceRun`, `Names`, `Tasks`, `Settings` and the modules of the data
  client are made of folds over what they are given; `Doctor`, `Completion` and `Wizard`
  could be proved about, and are only checked.

## Where the code and its documentation part

Seven runs check a sentence of the documentation that does not hold; `PROJECT.json`
quotes each under `findings`.

- `waiting_submit`: a followed submission whose stream closes and whose status cannot be
  fetched is taken to have concluded, and exits 0 with the Work Requirement still live
  (`docs/commands.md:280`).
- `autoshutdown`: a failure of the session in the lookup of the Worker Pool that manages a
  Compute Requirement leaves every target without a record (`docs/json-output.md:98`).
- `discovery`: a field edited while a discovery runs is not discovered at all if that
  discovery ends before the edit's delay is over (`CHANGELOG.md:235`).
- `scope_confirmed`: a field edited while an action's listing runs changes what the command
  acts on, but not the scope that the dialog shows if the listing fails
  (`commander/window_dialogs.py:611`).
- `nested`: two `--sync` downloads of which one goes into the other's directory are not
  refused, and the second deletes what the first downloaded (`download.py:237`).
- `whole_count`: `{{task_count}}` in a matched Task Group's own properties is the count of
  the Tasks added, and elsewhere the whole (`docs/work-requirements.md:1154`).
- `credential`: a setup that replaces the access key and selects no availability zone leaves
  the Credential of the key it deleted (`README_CLOUDWIZARD.md:251`).

These were met while modelling as well. Each shows in its module when the named
condition is dropped, and is why a run, a theorem or a property has that condition:

- *A name taken before the first attempt* (`TaskBatches`, `Taken # {}`). A first attempt that
  never reached the Platform and a retry refused for a name another Task has is read as
  "the previous attempt ... did in fact add the batch" (`utils/task_batches.py:237`): the
  batch is reported added with nothing added.
- *Unnamed batches and dropped connections* (`TaskBatches`, `Drops` not within `Named`).
  Only a read timeout keeps an unnamed batch from being resent; after a reset connection
  or a gateway's 5xx its Tasks can be added twice (`CHANGELOG.md:294`: "not one that may
  have been carried out").
- *Quiet spells in an outage* (`EventStream`, of a bound from below on an outage). After
  one drop, a reconnected stream that stays quiet for its read timeout has used up the
  outage's limit, and the next drop ends it as lost (`CHANGELOG.md:368`).
- *Two runs, one empty path* (`InputFiles`, of files put there by the other run). Both
  find it empty, both copy, and the one that fails deletes what the other's live Work
  Requirement reads (`docs/work-requirements.md:1297`).
- *Numbers of two widths* (`AddTo`, five Tasks held and ten to add). The first new name is
  padded for the new total and so is free although its number is taken: a stale count is not
  waited for, and the Tasks are numbered from 1 (`docs/work-requirements.md:1122`).
- *A Task ID after a failure of the session* (`AbortRun`). A Task aborted for an earlier target
  is recorded "not attempted" for the later one (`docs/json-output.md:56`).
- *A second stop* (`Capacity`, a Compute Requirement that is not at its target as an action is
  asked, one with an Instance stopped already, say). It is unsettled and quiet, or settled
  with the action's target, before the action begins: the first event ends the following,
  which `docs/commands.md:190` has return "when the action is done". `ReturnsDone` allows it
  of these alone (`AtTarget`).
- *A restart not seen* (`Capacity`, actions that end as they began). One that runs its course
  between two tests, or in an outage, is never seen, and the following does not return.
- *Syncs into one another's directories* (`Uploads`, `--sync` of `../o` and `.`). As in
  `nested`, only equal paths are refused.
- *A file beside a flattened directory* (`Downloads`, `--flatten -d D file dir`). The file
  named literally is not among those that flattening compares, and one of that name in the
  directory replaces it without a warning.
- *A timeout with queues not fetched* (`NodeActions`, `--status --follow` with `--json`).
  Nodes whose queue could not be fetched have no row (`CHANGELOG.md:218`).
- *Definitions in another order* (`Variables`). A name that is computed through a chain may
  be registered before what it is made of; a default is taken for a tag or an imported name
  that is registered later; and a circle that passes through a default or an unset
  expression is not reported (`docs/variables.md:225`, `:350`).
- *A property of a section against a profile's* (`Settings`). `--property
  dataClient.<field>` gives way to the field of a selected profile, which
  `docs/configuration.md` ranks below it; and a field that a profile sets to null leaves
  `{{dataClient.<field>}}` holding the base section's value.
- *Variables of a Task Group above it* (`Tasks`). The Task Group properties set at the Work
  Requirement's level are not substituted with `{{task_group_name}}` and its like
  (`docs/work-requirements.md:979`), and a `taskType` that holds one enters the Task Group's
  `taskTypes` as written. `taskCount: 0` on a single Task still makes one.
- *Teardown and setup of the Wizard* (`Wizard`). A template that cannot be removed ends a
  teardown with 1 but without the count of errors (`README_CLOUDWIZARD.md:700`), a setup
  whose network cannot be made deletes the resource group it has just created (`:602` has it
  that `setup` never deletes one), and stops where resources cannot be created. A failure
  that is not a ClientError in a step of AWS's ends a teardown there, although `:700` has it
  remove everything it can: the `CarriesOn` part of `WholeOrTold` leaves out the runs that
  raise, of which it is checked that they do not exit with 0.
- *Properties made unusable during a listing* (`Commander`, `Unusable # {}`). With a quote left
  open meanwhile the command's arguments cannot be built: the error is raised in a handler of
  the window's (`window_base.py:436`). The model takes it that nothing is run.
- *A configuration that does not load* (`Doctor`). The rows of the profiles are absent, and
  not skipped with a reason (`docs/commands.md`, of `yd doctor`).
- *What completion offers* (`Completion`). `docs/commands.md:2210` says that Tasks,
  Instances and Nodes are not completed from the Platform, and `:2196` and the code that they
  are; and after `wr/` Task Groups in every status are offered, whatever the verb.

## What is not modelled

- Formatting, progress, logging, the wording of prompts, the output of lists and reports, and
  dry runs, which change no state; `--pause-between-batches`.
- The command registry and dispatch, the schemas, Jsonnet and the JSON utilities, `yd init`,
  the MCP server's catalogue: tables, data, or one text made of another. `schema_cache.py`
  keeps its files as `completion_cache.py` does, with content that the key determines, so
  that what is old is never wrong.
- Of the data client, `yd data copy` and `ls`, and the installation of the rclone binary.
- The checks that refuse a specification before anything is built, types in variables
  (`num:`, `bool:`), and the parsing of their syntax.
- The interactive choice of what to act on, where it does no more than shorten a list of
  targets; and Ctrl-C in commands that hold nothing to clean up.
- The following of a pool's Compute Requirement (`--auto-follow-compute-requirements`), which
  adds streams of the same kind; the flush of the JSON document; Windows' process handling.
- Commander's widgets, output pane, filters and dialogs for files, its Submit and
  Provision, which list nothing first, and the previews that the dry-run boxes ask for.

`PROJECT.json` has the reason for each component that is partly modelled or not at all.

## What could follow

1. Proofs about `ResourceRun` and `Wizard`, with their folds put as relations, as `Once` of
   `NodeActions` is; and of `Doctor` and `Completion`.
2. An abstract run of actions (each target told of once), implemented by `ActionRun`,
   `AbortRun` and `ResourceRun`; and an abstract wait (returns when done, or fails),
   implemented by `Waiting` and `Capacity`.
3. A second following after a stop: `_STOP_FOLLOWING` is cleared as it begins, and a thread
   of the one before, blocked in a read until then, goes on (`EventStream`, twice).
4. The installation of the rclone binary by several processes at once.
