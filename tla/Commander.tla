------------------------------ MODULE Commander ------------------------------
(***************************************************************************)
(* The window of yd commander: actions that list what they would act on in *)
(* a nested event loop (command_running.py, window_dialogs.py,             *)
(* compute_panel.py, work_panel.py, results_panel.py), the discovery of    *)
(* the namespace and tag (config_discovery.py), and closing (commander.py).*)
(*                                                                         *)
(* There is one thread.  While a nested event loop or a modal dialog runs, *)
(* timers, signals and, but for a dialog, the user's clicks are delivered  *)
(* inside it, and may begin another: a loop returns only when those begun  *)
(* inside it have.                                                         *)
(***************************************************************************)
EXTENDS Integers, Sequences, FiniteSets, SequencesExt

CONSTANTS
  Unusable,          \* the edits that leave a quote open in the Properties field
  Unattended,        \* '--yes': _confirmations_disabled
  MaxEdits, MaxNested, MaxCommands

Parameters ==
  /\ Unattended \in BOOLEAN /\ MaxEdits \in Nat /\ MaxNested \in Nat \ {0} /\ MaxCommands \in Nat
  /\ Unusable \subseteq 0 .. MaxEdits

VARIABLES
  nested,            \* the event loops and dialogs running, innermost last
  inputs,            \* which edit of the fields and the configuration is the last
  fields,            \* which one the fields, and the file selected, are of
  found,             \* ConfigDiscovery.namespace and tag: of which edit; Nothing
  invalid, timedOut, retried, generation,   \* its other attributes
  debounce, retry,   \* its timers, running
  skip,              \* _skip_confirmations: whether the user chose not to be asked
  count,             \* how many commands were run
  last,              \* the one that the step taken last ran: [act, target, of]
  running,           \* _running_commands(): whether any of them still is
  shuttingDown       \* _shutting_down

discovery == <<found, invalid, timedOut, retried, generation, debounce, retry>>
commands == <<count, last, running>>
vars == <<nested, inputs, fields, discovery, skip, commands, shuttingDown>>

Nothing == -1
Acts == {"destroy", "download", "choose"}   \* choose: Add to and Resize
Loops == {"discover", "list", "show"}

\* A loop or dialog: of the discovery `of`, begun at edit `from`; or of an action, begun
\* with the fields as `from`, and its dialog shown with them as `of`
Frame(kind, act, of, from) ==
  [kind |-> kind, act |-> act, of |-> of, from |-> from,
   result |-> "running", quit |-> FALSE, late |-> FALSE]

NoCommand == [act |-> "none", target |-> "none", of |-> 0]
RunsNone == last' = NoCommand /\ UNCHANGED <<count, running>>

\* Nothing discovered yet, by the first discovery
Undiscovered ==
  /\ found = Nothing /\ invalid = TRUE /\ timedOut = FALSE /\ retried = FALSE
  /\ generation = 1 /\ debounce = FALSE /\ retry = FALSE

\* The window shown, and the discovery that it starts with begun
Init ==
  /\ nested = <<Frame("discover", "none", 1, 0)>> /\ inputs = 0 /\ fields = 0
  /\ Undiscovered
  /\ skip = FALSE
  /\ count = 0 /\ last = NoCommand /\ running = FALSE
  /\ shuttingDown = FALSE

Modal == \E k \in DOMAIN nested : nested[k].kind \notin Loops

\* Mutant: a dialog does not keep the user from the rest of the window.
Clickable_InDialogs == ~shuttingDown

Clickable == ~Modal /\ ~shuttingDown

\* Mutant: an action is not refused while another's listing is under way.
InFlight_Never == FALSE

\* _operation_in_flight(): _nested_depth
InFlight == \E k \in DOMAIN nested : nested[k].kind \in Loops

Room == Len(nested) < MaxNested
Pops == nested' = Front(nested)
Top == Last(nested)
-----------------------------------------------------------------------------
(* Commands: _run_command_in_subprocess(), whose namespace, tag, variables, properties
   and configuration file are those of the fields as it is called. *)

\* Mutant: a command is started though the window is closing.
Run_Closing(act, target) ==
  /\ fields \notin Unusable
  /\ last' = [act |-> act, target |-> target, of |-> fields]
  /\ count' = count + 1 /\ running' = TRUE

\* With a quote left open meanwhile the arguments cannot be built: it raises
Run(act, target) ==
  IF shuttingDown \/ fields \in Unusable THEN RunsNone
  ELSE /\ last' = [act |-> act, target |-> target, of |-> fields]
       /\ count' = count + 1 /\ running' = TRUE

\* The last of them does
CommandEnds ==
  /\ running
  /\ running' = FALSE
  /\ last' = NoCommand
  /\ UNCHANGED <<nested, inputs, fields, discovery, skip, count, shuttingDown>>

\* Of the actions under way, each may yet run a command
Pending == Cardinality({k \in DOMAIN nested : nested[k].act \in Acts})
MayRun == count + Pending < MaxCommands
-----------------------------------------------------------------------------
(* Actions. *)

Suppressed(act) == Unattended \/ (act = "destroy" /\ skip)

\* The whole scope at once if nobody is to be asked, otherwise a listing first
Click(act) ==
  /\ Clickable /\ MayRun
  /\ ~InFlight /\ fields \notin Unusable
  /\ IF Suppressed(act) /\ act # "choose"
     THEN Run(act, "scope") /\ UNCHANGED nested
     ELSE Room /\ nested' = Append(nested, Frame("list", act, 0, fields)) /\ RunsNone
  /\ UNCHANGED <<inputs, fields, discovery, skip, shuttingDown>>

\* A configuration's data file, for the Show buttons, which nothing holds back
Show ==
  /\ Clickable /\ Room
  /\ nested' = Append(nested, Frame("show", "none", 0, 0))
  /\ UNCHANGED <<inputs, fields, discovery, skip, shuttingDown>> /\ RunsNone

\* The command that a loop waits for has ended
HelperEnds(k) ==
  /\ k \in DOMAIN nested /\ nested[k].kind \in Loops /\ nested[k].result = "running"
  /\ ~shuttingDown \/ ~nested[k].quit
  /\ \E r \in IF nested[k].kind = "list" THEN {"ok", "empty", "failed"} ELSE {"ok", "failed"} :
       nested' = [nested EXCEPT ![k].result = r, ![k].quit = TRUE]
  /\ UNCHANGED <<inputs, fields, discovery, skip, shuttingDown>> /\ RunsNone

Returns(kind) == nested # <<>> /\ Top.kind = kind /\ Top.quit

ShowReturns ==
  /\ Returns("show")
  /\ Pops
  /\ UNCHANGED <<inputs, fields, discovery, skip, shuttingDown>> /\ RunsNone

Asks ==
  nested' = Append(Front(nested), [Top EXCEPT !.kind = "dialog", !.quit = FALSE, !.of = fields])

Ends == Pops /\ RunsNone
Asked == Asks /\ RunsNone

\* Cancel and the like, on all that was listed or, if it could not be, on its scope
DestroyListed(result) ==
  CASE shuttingDown /\ result = "failed" -> Ends
    [] ~shuttingDown /\ Suppressed("destroy") -> Pops /\ Run("destroy", "scope")
    [] OTHER -> Asked

DownloadListed(result) ==
  IF result = "failed" THEN Pops /\ Run("download", "scope") ELSE Asked

\* Add to, and Resize: of what could not be listed there is none to choose
ChooseListed(result) ==
  CASE result = "failed" -> Ends
    [] result # "failed" /\ Unattended -> Pops /\ (Run("choose", "listed") \/ RunsNone)
    [] OTHER -> Asked

ListReturns ==
  /\ Returns("list")
  /\ LET result == IF shuttingDown \/ Top.result = "running" THEN "failed" ELSE Top.result
     IN CASE result = "empty" -> Ends
          [] result # "empty" /\ Top.act = "destroy" -> DestroyListed(result)
          [] result # "empty" /\ Top.act = "download" -> DownloadListed(result)
          [] OTHER -> ChooseListed(result)
  /\ UNCHANGED <<inputs, fields, discovery, skip, shuttingDown>>

\* The user answers
Answers(a) ==
  /\ Modal
  /\ \E k \in DOMAIN nested :
       /\ nested[k].kind \in {"dialog", "quit"} /\ ~nested[k].quit
       /\ a \in {"yes", "no"} \cup (IF nested[k].act = "destroy" THEN {"all"} ELSE {})
       /\ nested' = [nested EXCEPT ![k].quit = TRUE, ![k].act = IF a = "no" THEN "none" ELSE @,
                                   ![k].late = a = "all"]
  /\ UNCHANGED <<inputs, fields, discovery, skip, shuttingDown>> /\ RunsNone

\* _confirm_destructive(), _choose_one(), _choose_objects(): what was chosen of what
\* was listed, unless none was or its names are not safe; or the whole scope
DialogReturns ==
  /\ Returns("dialog")
  /\ Pops
  /\ \/ Top.act = "none" /\ RunsNone
     \/ Top.act # "none" /\ Top.result = "ok" /\ (Run(Top.act, "listed") \/ RunsNone)
     \/ Top.act # "none" /\ Top.result # "ok" /\ Run(Top.act, "scope")
  /\ skip' = (skip \/ (Top.late /\ Top.act = "destroy"))
  /\ UNCHANGED <<inputs, fields, discovery, shuttingDown>>
-----------------------------------------------------------------------------
(* Discovery of the namespace and the tag. *)

\* _parse_yd_config(), of what is stale
Discover ==
  /\ generation' = generation + 1 /\ timedOut' = FALSE
  /\ nested' = IF fields' \in Unusable THEN nested
               ELSE Append(nested, Frame("discover", "none", generation', inputs'))

\* A field edited
Edit ==
  /\ Clickable /\ inputs < MaxEdits
  /\ inputs' = inputs + 1 /\ fields' = inputs'
  /\ invalid' = TRUE /\ retried' = FALSE /\ debounce' = TRUE
  /\ UNCHANGED <<nested, found, timedOut, generation, retry, skip, shuttingDown>> /\ RunsNone

\* _on_config_file_changed(): at once, in a dialog too
ConfigChanges ==
  /\ inputs < MaxEdits /\ Room
  /\ inputs' = inputs + 1 /\ UNCHANGED fields
  /\ invalid' = TRUE /\ retried' = FALSE
  /\ Discover
  /\ UNCHANGED <<found, debounce, retry, skip, shuttingDown>> /\ RunsNone

\* _set_config_file(): at once; the Properties field is as it was
Selects ==
  /\ Clickable /\ inputs < MaxEdits /\ Room
  /\ inputs' = inputs + 1 /\ fields' = inputs'
  /\ (fields' \in Unusable) = (fields \in Unusable)
  /\ invalid' = TRUE /\ retried' = FALSE
  /\ Discover
  /\ UNCHANGED <<debounce, retry, skip, shuttingDown>> /\ RunsNone

Chooses == Selects /\ UNCHANGED found

\* _set_config_file(None): what was found is forgotten first
Deselects == Selects /\ found' = Nothing

\* _reparse_placeholders_after_edit(), its timer 600 ms after the edit
Debounced ==
  /\ debounce /\ Room
  /\ debounce' = FALSE
  /\ UNCHANGED <<inputs, fields>>
  /\ IF invalid /\ fields \notin Unusable THEN Discover ELSE UNCHANGED <<nested, timedOut, generation>>
  /\ UNCHANGED <<found, invalid, retried, retry, skip, shuttingDown>> /\ RunsNone

\* _retry_discovery()
Retries ==
  /\ retry /\ Room
  /\ retry' = FALSE
  /\ UNCHANGED <<inputs, fields>>
  /\ IF invalid THEN Discover ELSE UNCHANGED <<nested, timedOut, generation>>
  /\ UNCHANGED <<found, invalid, retried, debounce, skip, shuttingDown>> /\ RunsNone

\* on_timeout(): its command may have ended, and a loop begun inside it be running
TimesOut(k) ==
  /\ k \in DOMAIN nested /\ nested[k].kind = "discover" /\ ~nested[k].late
  /\ nested' = [nested EXCEPT ![k].late = TRUE, ![k].result = "failed", ![k].quit = TRUE]
  /\ UNCHANGED <<inputs, fields, discovery, skip, shuttingDown>> /\ RunsNone

\* _schedule_discovery_retry(): once, after a timeout
Schedule ==
  IF shuttingDown \/ retried \/ ~timedOut' THEN UNCHANGED <<retried, retry>>
  ELSE retried' = TRUE /\ retry' = TRUE

\* Mutant: whether a later discovery has begun is not asked.
DiscoverReturns_Stands ==
  /\ Returns("discover")
  /\ Pops
  /\ IF Top.late \/ shuttingDown
     THEN timedOut' = (timedOut \/ ~shuttingDown) /\ Schedule /\ UNCHANGED <<found, invalid>>
     ELSE IF Top.result # "ok"
     THEN UNCHANGED timedOut /\ Schedule /\ UNCHANGED <<found, invalid>>
     ELSE found' = Top.from /\ invalid' = FALSE /\ UNCHANGED <<timedOut, retried, retry>>
  /\ UNCHANGED <<inputs, fields, generation, debounce, skip, shuttingDown>>
  /\ RunsNone

\* The rest of _parse_yd_config(), and of reparse_placeholders()
DiscoverReturns ==
  /\ Returns("discover")
  /\ Pops
  /\ CASE Top.of # generation ->
            /\ UNCHANGED <<found, invalid, timedOut>>
            /\ IF invalid THEN Schedule ELSE UNCHANGED <<retried, retry>>
       [] Top.of = generation /\ (Top.late \/ shuttingDown) ->
            /\ timedOut' = (timedOut \/ ~shuttingDown)
            /\ Schedule /\ UNCHANGED <<found, invalid>>
       [] Top.of = generation /\ ~Top.late /\ ~shuttingDown /\ Top.result # "ok" ->
            UNCHANGED timedOut /\ Schedule /\ UNCHANGED <<found, invalid>>
       [] OTHER ->
            found' = Top.from /\ invalid' = FALSE /\ UNCHANGED <<timedOut, retried, retry>>
  /\ UNCHANGED <<inputs, fields, generation, debounce, skip, shuttingDown>>
  /\ RunsNone
-----------------------------------------------------------------------------
(* Closing. *)

\* Mutant: only the innermost event loop is released.
Released_Innermost(frames) ==
  [k \in DOMAIN frames |-> [frames[k] EXCEPT !.quit = @ \/ k = Len(frames)]]

Released(frames) ==
  [k \in DOMAIN frames |-> [frames[k] EXCEPT !.quit = @ \/ frames[k].kind \in Loops]]

\* shutdown()
ShutsDown(frames) ==
  /\ shuttingDown' = TRUE
  /\ debounce' = FALSE /\ retry' = FALSE
  /\ nested' = Released(frames)
  /\ running' = FALSE /\ last' = NoCommand
  /\ UNCHANGED <<inputs, fields, found, invalid, timedOut, retried, generation, skip, count>>

\* closeEvent()
Close ==
  /\ Clickable
  /\ IF running /\ ~Unattended
     THEN /\ Room /\ nested' = Append(nested, Frame("quit", "quit", 0, 0))
          /\ UNCHANGED <<inputs, fields, discovery, skip, shuttingDown>> /\ RunsNone
     ELSE ShutsDown(nested)

\* _confirm_quit()
QuitReturns ==
  /\ Returns("quit")
  /\ IF Top.act = "quit" THEN ShutsDown(Front(nested))
     ELSE Pops /\ UNCHANGED <<inputs, fields, discovery, skip, shuttingDown>> /\ RunsNone

Return == ShowReturns \/ ListReturns \/ DialogReturns \/ DiscoverReturns \/ QuitReturns

\* The discovery's own timers
Timer == \E k \in 1 .. MaxNested : TimesOut(k)

Next ==
  \/ CommandEnds
  \/ \E act \in Acts : Click(act)
  \/ Show \/ \E k \in 1 .. MaxNested : HelperEnds(k)
  \/ Timer
  \/ \E a \in {"yes", "no", "all"} : Answers(a)
  \/ Edit \/ ConfigChanges \/ Chooses \/ Deselects \/ Debounced \/ Retries
  \/ Close \/ Return

Spec == Init /\ [][Next]_vars /\ WF_vars(Return) /\ WF_vars(Timer)
-----------------------------------------------------------------------------
(* What it is meant to ensure. *)

\* A command acts on what the user was shown and agreed to: on what was listed; or on
\* its whole scope, and then only if that is what was asked of the user, with the fields
\* as they stood when it was asked, or the user had chosen, as the action began, not to
\* be asked; for Download, as nothing could be listed.  Nothing is run once the window
\* is closing.
Agreed ==
  count' # count =>
       LET c == last'
           answered == nested # <<>> /\ Top.kind = "dialog" /\ Top.act = c.act
       IN /\ ~shuttingDown
          /\ c.target = "listed" => Top.result = "ok" /\ (answered \/ Unattended)
          /\ c.target = "scope" =>
               \/ ~InFlight /\ nested' = nested /\ Suppressed(c.act)
               \/ answered /\ Top.result = "failed" /\ c.of = Top.of
               \/ c.act = "download" /\ Top.kind = "list" /\ Top.result = "failed"
ActsOnWhatWasAgreed == [][Agreed]_vars

\* The scope that the user confirms, where nothing could be listed, is the one that the
\* dialog names, taken of the fields as the action began: it is what is run over.
ScopeShown ==
  count' # count /\ last'.target = "scope" /\ nested # <<>> /\ Top.kind = "dialog" =>
    last'.of = Top.from
RunsTheScopeShown == [][ScopeShown]_vars

\* What a discovery found is never replaced by what one begun before it finds, or by
\* what one begun with a configuration deselected since does.
Newer == found' \notin {found, Nothing} => Top.of = generation /\ found' > found
NewerStands == [][Newer]_vars

\* A window that closes leaves every event loop that it was in, however deep.
Closing == shuttingDown
Left == nested = <<>>
Leaves == Closing ~> Left

\* An edited field is discovered again, so that what is shown and acted on follows it
FollowsTheFields ==
  nested = <<>> /\ ~debounce /\ ~invalid => found = inputs
-----------------------------------------------------------------------------
(* Why it does: the invariant that the proofs rest on. *)

Results == {"running", "ok", "empty", "failed"}
Frames ==
  [kind : Loops \cup {"dialog", "quit"}, act : Acts \cup {"none", "quit"}, of : Nat,
   from : Nat, result : Results, quit : BOOLEAN, late : BOOLEAN]

Types ==
  /\ nested \in Seq(Frames) /\ inputs \in Nat /\ fields \in Nat /\ generation \in Nat
  /\ found \in Nat \cup {Nothing} /\ invalid \in BOOLEAN
  /\ count \in Nat /\ skip \in BOOLEAN /\ shuttingDown \in BOOLEAN

\* An action is begun in no other loop, and its dialog follows its listing: so what it
\* was begun with, and whether the user was to be asked, stands until it ends, and the
\* fields do while it asks.
ActionInv ==
  \A k \in DOMAIN nested :
    /\ nested[k].kind \in {"list", "dialog"} => k = 1
    /\ nested[k].kind = "list" =>
         /\ nested[k].act \in Acts
         /\ nested[k].act = "destroy" => ~Suppressed("destroy")
         /\ nested[k].quit /\ nested[k].result = "running" => shuttingDown
    /\ nested[k].kind = "dialog" =>
         /\ nested[k].act \in Acts \cup {"none"} /\ nested[k].result \in {"ok", "failed"}
         /\ nested[k].of = fields

\* What was found is not of the last edit while that is to be discovered, and it is
\* older than what the discovery under way was begun with.
DiscoveryInv ==
  /\ found <= inputs /\ (invalid => found < inputs)
  /\ \A k \in DOMAIN nested :
       nested[k].kind = "discover" =>
         /\ nested[k].of <= generation /\ nested[k].from <= inputs
         /\ nested[k].of = generation => found < nested[k].from
  /\ \A j, k \in DOMAIN nested :
       /\ nested[j].kind = "discover" /\ nested[k].kind = "discover"
       /\ nested[j].of = nested[k].of
       => j = k

IInv == Types /\ ActionInv /\ DiscoveryInv
=============================================================================
