----------------------------- MODULE EventStream -----------------------------
(***************************************************************************)
(* follow_events() and its _Outage (utils/follow_utils.py): one entity's   *)
(* event stream followed by one thread, reconnected when it drops, falls   *)
(* silent or closes early, until the entity finishes, what was asked of it *)
(* is done, it is told to stop, or it gives up.                            *)
(*                                                                         *)
(* Time passes in whole units while the thread connects, reads or sleeps.  *)
(* The network and the Platform are external: a connection may be made,    *)
(* refused or time out, a stream may deliver, stay silent, drop or close   *)
(* at any moment; once the entity has finished, its stream delivers        *)
(* nothing more and does not stay open.                                    *)
(***************************************************************************)
EXTENDS Integers, FiniteSetTheorems, TLAPS

CONSTANTS
  RetryInterval,     \* EVENT_STREAM_RETRY_INTERVAL
  MaxRetryInterval,  \* EVENT_STREAM_MAX_RETRY_INTERVAL
  MaxOutage,         \* EVENT_STREAM_MAX_OUTAGE
  ReadTimeout,       \* EVENT_STREAM_READ_TIMEOUT
  ConnectTimeout,    \* EVENT_STREAM_CONNECT_TIMEOUT
  MaxAttempts,       \* bound: attempts at which the delay has reached its maximum
  Settling           \* whether 'settled' is given

Parameters ==
  /\ RetryInterval \in Nat \ {0}
  /\ MaxRetryInterval \in Nat \ {0}
  /\ {MaxOutage, ReadTimeout, ConnectTimeout} \subseteq Nat \ {0}
  /\ MaxAttempts \in Nat /\ RetryInterval * 2 ^ MaxAttempts >= MaxRetryInterval
  /\ Settling \in BOOLEAN

VARIABLES
  phase,             \* where the thread is
  result,            \* how it ended
  connected,         \* whether it was ever connected
  started,           \* _Outage._started, as how long ago; NotStarted when not in an outage
  attempts,          \* _Outage._attempts
  stop,              \* _STOP_FOLLOWING
  entity,            \* external: "live" or "finished"
  done,              \* external: whether what 'settled' tests for is done
  down,              \* for the properties: time without a stream, this outage
  silent,            \* for the properties: time without an event, up to MaxOutage
  after              \* for the properties: what was done, and how long, after 'stop'

outage == <<started, attempts>>
clocks == <<down, silent, after>>
vars == <<phase, result, connected, outage, stop, entity, done, clocks>>

NotStarted == -1
\* The longest the thread can be without a stream before wait() can see it
MaxDown == MaxOutage + MaxRetryInterval + ConnectTimeout + ReadTimeout

Failed == {"unreachable", "refused", "lost", "unchecked", "error"}
Results == {"none", "concluded", "assumed", "settled", "stopped"} \cup Failed

TypeOK ==
  /\ phase \in {"loop", "connect", "read", "handle", "closed", "pause", "wait", "ended"}
  /\ result \in Results
  /\ connected \in BOOLEAN
  /\ started \in {NotStarted} \cup 0 .. MaxOutage
  /\ attempts \in 0 .. MaxAttempts
  /\ stop \in BOOLEAN
  /\ entity \in {"live", "finished"}
  /\ done \in BOOLEAN
  /\ down \in 0 .. MaxDown
  /\ silent \in 0 .. MaxOutage
  /\ after \in [events : Nat, connections : Nat, time : Nat]

Init ==
  /\ phase = "loop" /\ result = "none" /\ connected = FALSE
  /\ started = NotStarted /\ attempts = 0 /\ down = 0 /\ silent = 0
  /\ stop = FALSE
  /\ after = [events |-> 0, connections |-> 0, time |-> 0]
  /\ entity \in {"live", "finished"}
  /\ done = FALSE

AtMost(x, y) == IF x < y THEN x ELSE y

\* Time passing, with a stream or without one; 'started' past MaxOutage is all one
Passes(d, open) ==
  /\ started' = IF started = NotStarted THEN NotStarted ELSE AtMost(started + d, MaxOutage)
  /\ down' = IF open \/ started = NotStarted THEN down ELSE AtMost(down + d, MaxDown)

Elapses(d) ==
  /\ silent' = AtMost(silent + d, MaxOutage)
  /\ after' = [after EXCEPT !.time = IF stop THEN @ + d ELSE @]

Ends(r) == phase' = "ended" /\ result' = r
Continues(p) == phase' = p /\ UNCHANGED result
-----------------------------------------------------------------------------
(* _Outage *)

Delay == AtMost(RetryInterval * 2 ^ attempts, MaxRetryInterval)

\* Mutant: every drop starts the outage's clock afresh.
WaitOr_Restarted(r, d, open) ==
  /\ Continues("wait")
  /\ started' = 0
  /\ down' = IF started = NotStarted THEN 0 ELSE AtMost(down + d, MaxDown)

\* wait(), of an outage that 'd' more units have passed in: sleep, or give up
WaitOr(r, d, open) ==
  \/ /\ started = NotStarted
     /\ Continues("wait")
     /\ started' = 0 /\ down' = 0
  \/ /\ started # NotStarted /\ started + d < MaxOutage
     /\ Continues("wait")
     /\ Passes(d, open)
  \/ /\ started # NotStarted /\ started + d >= MaxOutage
     /\ Ends(r)
     /\ Passes(d, open)

\* The sleep in wait() ends
Waited ==
  /\ phase = "wait"
  /\ Continues("loop")
  /\ Passes(Delay, FALSE)
  /\ Elapses(Delay)
  /\ attempts' = AtMost(attempts + 1, MaxAttempts)
  /\ UNCHANGED <<connected, stop, entity, done>>
-----------------------------------------------------------------------------
(* Connecting. *)

\* 'while not _STOP_FOLLOWING.is_set()'
Check ==
  /\ phase = "loop"
  /\ IF stop THEN Ends("stopped") ELSE Continues("connect")
  /\ UNCHANGED <<connected, outage, stop, entity, done, clocks>>

OneConnection == after' = [after EXCEPT !.connections = IF stop THEN @ + 1 ELSE @]

\* Mutant: a connection made ends the outage, before any event.
Connects_EndsOutage ==
  /\ phase = "connect"
  /\ Continues("read")
  /\ connected' = TRUE
  /\ started' = NotStarted /\ attempts' = 0
  /\ OneConnection
  /\ UNCHANGED <<stop, entity, done, down, silent>>

Connects ==
  /\ phase = "connect"
  /\ Continues("read")
  /\ connected' = TRUE
  /\ OneConnection
  /\ UNCHANGED <<outage, stop, entity, done, down, silent>>

\* No connection, or no response to it, after 'd'; the first is reported at once
ConnectFails(d) ==
  /\ phase = "connect"
  /\ IF connected
     THEN WaitOr("unreachable", d, FALSE)
     ELSE Ends("unreachable") /\ UNCHANGED <<started, down>>
  /\ Elapses(d)
  /\ UNCHANGED <<connected, attempts, stop, entity, done>>

\* 'response.status_code != 200'
Refused ==
  /\ phase = "connect"
  /\ Ends("refused")
  /\ UNCHANGED <<connected, outage, stop, entity, done, clocks>>
-----------------------------------------------------------------------------
(* Reading the stream. *)

\* Mutant: the stop is looked at only before connecting.
Line_Unchecked ==
  /\ phase = "read" /\ entity = "live"
  /\ Continues("handle")
  /\ UNCHANGED <<connected, outage, stop, entity, done, clocks>>

\* A line of an event, read with no stop set: it is going to be handled
Line ==
  /\ phase = "read" /\ entity = "live" /\ ~stop
  /\ Continues("handle")
  /\ UNCHANGED <<connected, outage, stop, entity, done, clocks>>

OneEvent ==
  /\ silent' = 0
  /\ after' = [after EXCEPT !.events = IF stop THEN @ + 1 ELSE @]

\* Mutant: the outage is not ended by an event, but runs on to its limit.
Handle_OutageGoesOn ==
  /\ phase = "handle"
  /\ OneEvent
  /\ \/ Settling /\ done /\ Ends("settled")
     \/ Ends("error")
     \/ Continues("read")
  /\ UNCHANGED <<connected, outage, stop, entity, done, down>>

\* An event ends the outage, is printed, and may be the last needed.  A failure of
\* settled()'s lookup ends the following, but one of its connection is caught as
\* the stream's own: a drop, or, timed out, a quiet spell.
Handle ==
  /\ phase = "handle"
  /\ OneEvent
  /\ attempts' = 0 /\ down' = 0
  /\ \/ /\ started' = NotStarted
        /\ \/ Settling /\ done /\ Ends("settled")
           \/ Ends("error")
           \/ Settling /\ Continues("loop")
           \/ Continues("read")       \* not done, or not to be told from this line
     \/ Settling /\ started' = 0 /\ Continues("wait")
  /\ UNCHANGED <<connected, stop, entity, done>>

\* Any line, an empty one too, is where a stop is seen
LineAfterStop ==
  /\ phase = "read" /\ entity = "live" /\ stop
  /\ Ends("stopped")
  /\ UNCHANGED <<connected, outage, stop, entity, done, clocks>>

\* A read timeout: reconnected at once, with no word and no wait
Quiet ==
  /\ phase = "read" /\ entity = "live"
  /\ Continues("loop")
  /\ Passes(ReadTimeout, TRUE) /\ Elapses(ReadTimeout)
  /\ UNCHANGED <<connected, attempts, stop, entity, done>>

Drops(d) ==
  /\ phase = "read"
  /\ WaitOr("lost", d, TRUE) /\ Elapses(d)
  /\ UNCHANGED <<connected, attempts, stop, entity, done>>

\* 'except Exception': anything else, bytes that cannot be decoded, say
StreamError ==
  /\ phase = "read"
  /\ Ends("error")
  /\ UNCHANGED <<connected, outage, stop, entity, done, clocks>>

Closes(d) ==
  /\ phase = "read"
  /\ Continues("closed")
  /\ Passes(d, TRUE) /\ Elapses(d)
  /\ UNCHANGED <<connected, attempts, stop, entity, done>>

\* _entity_finished(): its status, or a failure to fetch it
CheckEntity ==
  /\ phase = "closed"
  /\ \/ stop /\ Ends("stopped")
     \/ ~stop /\ entity = "finished" /\ Ends("concluded")
     \/ ~stop /\ entity = "live" /\ Continues("pause")
     \/ ~stop /\ Ends("unchecked")     \* a session failure
     \/ ~stop /\ Ends("assumed")       \* any other: taken as finished
  /\ UNCHANGED <<connected, outage, stop, entity, done, clocks>>

\* EVENT_STREAM_RECONNECT_DELAY, shorter than a unit, is over
Paused ==
  /\ phase = "pause"
  /\ Continues("loop")
  /\ UNCHANGED <<connected, outage, stop, entity, done, clocks>>
-----------------------------------------------------------------------------
(* What goes on around the thread. *)

\* The deadline of _wait_for_streams()
SetStop ==
  /\ ~stop
  /\ stop' = TRUE
  /\ UNCHANGED <<phase, result, connected, outage, entity, done, clocks>>

\* External: the entity finishes, or what was asked of it is done.
EntityChanges ==
  /\ entity = "live"
  /\ \/ entity' = "finished" /\ UNCHANGED done
     \/ done' = TRUE /\ UNCHANGED entity
  /\ UNCHANGED <<phase, result, connected, outage, stop, clocks>>

\* How long a connection or a read may take to fail: at once, or at its limit
ConnectTimes == {0, ConnectTimeout, ConnectTimeout + ReadTimeout}
ReadTimes == {0, ReadTimeout}

ThreadStep ==
  \/ Check \/ Connects \/ Refused \/ Waited \/ Line \/ Handle \/ LineAfterStop
  \/ Quiet \/ StreamError \/ CheckEntity \/ Paused
  \/ \E d \in ConnectTimes : ConnectFails(d)
  \/ \E d \in ReadTimes : Drops(d) \/ Closes(d)

Next == ThreadStep \/ SetStop \/ EntityChanges

\* The thread runs, and each of its waits has a timeout.
Spec == Init /\ [][Next]_vars /\ WF_vars(ThreadStep)
-----------------------------------------------------------------------------
(* What it is meant to ensure. *)

\* A stream that stays down is given up on: no outage goes on without one for
\* longer than its limit, a last delay and a last connection.
OutageBounded ==
  started # NotStarted /\ phase # "ended" =>
    down < MaxOutage + MaxRetryInterval + ConnectTimeout + ReadTimeout

\* A stream is given up on only when it has delivered nothing for as long as an
\* outage may last, whatever drops there were before the last event of it.
GivenUp == result = "lost" \/ (result = "unreachable" /\ connected)
NotGivenUpEarly == GivenUp => silent >= MaxOutage

\* Once told to stop, wherever that finds it, the thread handles at most the event
\* it has in hand, makes at most the connection it was making, and goes on for no
\* longer than that connection, a response and one sleep can take.
StopHeeded ==
  stop => /\ after.events <= 1 /\ after.connections <= 1
          /\ after.time <= ConnectTimeout + ReadTimeout + MaxRetryInterval

\* A finished entity's stream, or one told to stop, is left in the end: no mix
\* of drops, refusals and early closes keeps the thread reconnecting for ever.
Leaving == entity = "finished" \/ stop
Ended == phase = "ended"
Leaves == Leaving ~> Ended
-----------------------------------------------------------------------------
(* Proofs, for all intervals, limits and timeouts. *)

\* The outage's clock runs ahead of the time without a stream, until the clock
\* is past its limit: nothing but one last sleep can be missing from it then.
ClockInv ==
  /\ phase = "wait" => started # NotStarted /\ started < MaxOutage
  /\ started # NotStarted /\ phase # "ended" =>
       \/ down <= started
       \/ started = MaxOutage /\ down < MaxOutage + MaxRetryInterval /\ phase # "wait"

\* The clock, which an event alone ends, is never ahead of the silence.
SilentInv ==
  /\ phase # "ended" => result = "none"
  /\ started # NotStarted => started <= silent
  /\ NotGivenUpEarly

\* What can have been done since the stop was set, and how long it can have been,
\* by where the thread is: there is no way back to a connection or to an event.
AfterInv ==
  /\ ~stop => after.events = 0 /\ after.connections = 0 /\ after.time = 0
  /\ after.events <= 1 /\ (phase = "handle" => after.events = 0)
  /\ after.connections <= 1 /\ (phase = "connect" => after.connections = 0)
  /\ phase \in {"connect", "read", "handle", "pause"} => after.time = 0
  /\ phase = "closed" => after.time <= ReadTimeout
  /\ phase = "wait" => after.time <= ConnectTimeout + ReadTimeout
  /\ after.time <= ConnectTimeout + ReadTimeout + MaxRetryInterval

IInv == TypeOK /\ ClockInv /\ SilentInv /\ AfterInv
-----------------------------------------------------------------------------
LEMMA Constants ==
  ASSUME Parameters
  PROVE  /\ RetryInterval \in Nat /\ MaxRetryInterval \in Nat /\ MaxAttempts \in Nat
         /\ MaxOutage \in Nat /\ MaxOutage > 0 /\ ReadTimeout \in Nat /\ ReadTimeout > 0
         /\ ConnectTimeout \in Nat /\ ConnectTimeout > 0
         /\ MaxDown \in Nat /\ MaxDown > MaxOutage + MaxRetryInterval
         /\ MaxDown = MaxOutage + MaxRetryInterval + ConnectTimeout + ReadTimeout
<1>1. /\ RetryInterval \in Nat /\ MaxRetryInterval \in Nat /\ MaxAttempts \in Nat
      /\ MaxOutage \in Nat /\ MaxOutage > 0 /\ ReadTimeout \in Nat /\ ReadTimeout > 0
      /\ ConnectTimeout \in Nat /\ ConnectTimeout > 0
  BY DEF Parameters
<1> QED
  BY <1>1 DEF MaxDown

\* 2 ^ n counts the subsets of 1 .. n.
LEMMA PowersOfTwo == \A n \in Nat : 2 ^ n \in Nat
<1> SUFFICES ASSUME NEW n \in Nat PROVE 2 ^ n \in Nat
  OBVIOUS
<1>1. IsFiniteSet(1 .. n) /\ Cardinality(1 .. n) = n
  BY FS_Interval
<1>2. IsFiniteSet(SUBSET (1 .. n)) /\ Cardinality(SUBSET (1 .. n)) = 2 ^ n
  BY <1>1, FS_SUBSET
<1> QED
  BY <1>2, FS_CardinalityType

\* A sleep is never longer than the maximum, however many attempts were made.
LEMMA DelayIs ==
  ASSUME Parameters, attempts \in Nat
  PROVE  Delay \in 0 .. MaxRetryInterval
<1> DEFINE power == 2 ^ attempts
<1>1. power \in Nat
  BY PowersOfTwo
<1>2. Delay = AtMost(RetryInterval * power, MaxRetryInterval)
  BY DEF Delay
<1> HIDE DEF power
<1>3. RetryInterval * power \in Nat
  BY <1>1, Constants
<1> QED
  BY <1>2, <1>3, Constants DEF AtMost

\* What time passing does to an outage.
LEMMA PassesIs ==
  ASSUME Parameters, TypeOK, NEW d \in Nat, NEW open \in BOOLEAN, Passes(d, open)
  PROVE  /\ started' \in {NotStarted} \cup 0 .. MaxOutage
         /\ down' \in 0 .. MaxDown
         /\ started' = NotStarted <=> started = NotStarted
         /\ started # NotStarted => started' >= started
         /\ started # NotStarted /\ started + d < MaxOutage => started' = started + d
         /\ started # NotStarted /\ started + d >= MaxOutage => started' = MaxOutage
         /\ open => down' = down
         /\ down' <= down + d
<1>1. /\ started \in {NotStarted} \cup 0 .. MaxOutage /\ down \in 0 .. MaxDown
      /\ MaxOutage \in Nat /\ MaxDown \in Nat
  BY Constants DEF TypeOK
<1> QED
  BY <1>1 DEF Passes, NotStarted, AtMost

\* What it does to the silence, and to the time since the stop.
LEMMA ElapsesIs ==
  ASSUME Parameters, TypeOK, NEW d \in Nat, Elapses(d)
  PROVE  /\ silent' \in 0 .. MaxOutage
         /\ silent' >= silent
         /\ silent + d < MaxOutage => silent' = silent + d
         /\ silent + d >= MaxOutage => silent' = MaxOutage
         /\ after' \in [events : Nat, connections : Nat, time : Nat]
         /\ after'.events = after.events /\ after'.connections = after.connections
         /\ stop => after'.time = after.time + d
         /\ ~stop => after'.time = after.time
<1>1. silent \in 0 .. MaxOutage /\ after \in [events : Nat, connections : Nat, time : Nat]
  BY DEF TypeOK
<1>2. /\ silent' \in 0 .. MaxOutage /\ silent' >= silent
      /\ silent + d < MaxOutage => silent' = silent + d
      /\ silent + d >= MaxOutage => silent' = MaxOutage
  BY <1>1, Constants DEF Elapses, AtMost
<1>3. after.time + d \in Nat
  BY <1>1
<1> QED
  BY <1>1, <1>2, <1>3 DEF Elapses

\* What a wait, or giving up, does to it.
LEMMA WaitOrIs ==
  ASSUME Parameters, IInv, phase \in {"connect", "read"}, NEW r \in Failed, NEW d \in Nat,
         NEW open \in BOOLEAN, WaitOr(r, d, open)
  PROVE  /\ started' \in 0 .. MaxOutage /\ down' \in 0 .. MaxDown
         /\ \/ phase' = "wait" /\ result' = result /\ started' < MaxOutage /\ down' <= started'
            \/ phase' = "ended" /\ result' = r
<1>1. CASE started = NotStarted
  BY <1>1, Constants DEF WaitOr, Continues
<1>2. CASE started # NotStarted
  <2>1. Passes(d, open)
    BY <1>2 DEF WaitOr
  <2>2. started' \in 0 .. MaxOutage /\ down' \in 0 .. MaxDown
    BY <1>2, <2>1, PassesIs DEF IInv, NotStarted
  <2>3. CASE started + d < MaxOutage
    <3>1. started' = started + d /\ down' <= down + d
      BY <1>2, <2>1, <2>3, PassesIs DEF IInv
    <3>2. down <= started
      BY <1>2, <2>3, Constants DEF IInv, ClockInv, TypeOK, NotStarted
    <3>3. phase' = "wait" /\ result' = result
      BY <1>2, <2>3, Constants DEF WaitOr, Continues, IInv, TypeOK, NotStarted
    <3> QED
      BY <1>2, <2>2, <2>3, <3>1, <3>2, <3>3, Constants DEF IInv, TypeOK, NotStarted
  <2>4. CASE started + d >= MaxOutage
    BY <1>2, <2>2, <2>4, Constants DEF WaitOr, Ends, IInv, TypeOK, NotStarted
  <2> QED
    BY <1>2, <2>3, <2>4, Constants DEF IInv, TypeOK, NotStarted
<1> QED
  BY <1>1, <1>2

LEMMA InitHolds ==
  ASSUME Parameters
  PROVE  Init => IInv
<1> SUFFICES ASSUME Init PROVE IInv
  OBVIOUS
<1>1. TypeOK
  <2>1. attempts \in 0 .. MaxAttempts /\ down \in 0 .. MaxDown /\ silent \in 0 .. MaxOutage
    BY Constants DEF Init
  <2> QED
    BY <2>1 DEF Init, TypeOK, Results
<1>2. ClockInv /\ SilentInv /\ AfterInv
  BY Constants DEF Init, ClockInv, SilentInv, AfterInv, NotGivenUpEarly, GivenUp, NotStarted
<1> QED
  BY <1>1, <1>2 DEF IInv

\* Every step keeps the types of what the thread keeps, and its clock.
LEMMA ThreadHolds ==
  ASSUME Parameters, IInv, [Next]_vars
  PROVE  ClockInv' /\ (silent' \in 0 .. MaxOutage /\
           after' \in [events : Nat, connections : Nat, time : Nat] => TypeOK')
<1> DEFINE Goal == ClockInv' /\ (silent' \in 0 .. MaxOutage /\
                     after' \in [events : Nat, connections : Nat, time : Nat] => TypeOK')
<1> SUFFICES Goal
  OBVIOUS
<1> USE Constants DEF IInv, TypeOK, ClockInv, Results, Failed, Ends, Continues, outage,
     clocks
<1>1. CASE Check
  BY <1>1 DEF Check
<1>2. CASE Connects
  BY <1>2 DEF Connects
<1>3. CASE Refused
  BY <1>3 DEF Refused
<1>4. CASE Waited
  <2>1. Delay \in 0 .. MaxRetryInterval
    BY DelayIs
  <2>2. Passes(Delay, FALSE)
    BY <1>4 DEF Waited
  <2>3. /\ started' \in 0 .. MaxOutage /\ down' \in 0 .. MaxDown
        /\ started + Delay < MaxOutage => started' = started + Delay
        /\ started + Delay >= MaxOutage => started' = MaxOutage
        /\ down' <= down + Delay
    <3> DEFINE d == Delay
    <3>1. d \in Nat
      BY <2>1
    <3>2. Passes(d, FALSE)
      BY <2>2, Zenon
    <3>3. started # NotStarted
      BY <1>4 DEF Waited
    <3> HIDE DEF d
    <3>4. /\ started' \in 0 .. MaxOutage /\ down' \in 0 .. MaxDown
          /\ started + d < MaxOutage => started' = started + d
          /\ started + d >= MaxOutage => started' = MaxOutage
          /\ down' <= down + d
      BY <3>1, <3>2, <3>3, PassesIs DEF NotStarted
    <3> QED
      BY <3>4 DEF d
  <2>4. down <= started /\ started < MaxOutage
    BY <1>4 DEF Waited
  <2>5. attempts' \in 0 .. MaxAttempts
    BY <1>4 DEF Waited, AtMost
  <2>6. \/ down' <= started'
        \/ started' = MaxOutage /\ down' < MaxOutage + MaxRetryInterval
    BY <2>1, <2>3, <2>4, <1>4 DEF Waited, NotStarted
  <2> QED
    BY <1>4, <2>3, <2>5, <2>6 DEF Waited
<1>5. CASE Line \/ Handle
  BY <1>5 DEF Line, Handle, NotStarted
<1>6. CASE LineAfterStop
  BY <1>6 DEF LineAfterStop
<1>7. CASE Quiet
  <2>1. /\ started' \in {NotStarted} \cup 0 .. MaxOutage /\ down' = down
        /\ started' = NotStarted <=> started = NotStarted
        /\ started # NotStarted => started' >= started
    BY <1>7, PassesIs DEF Quiet
  <2> QED
    BY <1>7, <2>1 DEF Quiet, NotStarted
<1>8. CASE StreamError
  BY <1>8 DEF StreamError
<1>9. CASE CheckEntity
  BY <1>9 DEF CheckEntity
<1>10. CASE Paused
  BY <1>10 DEF Paused
<1>11. ASSUME NEW d \in ConnectTimes, ConnectFails(d) PROVE Goal
  <2>1. d \in Nat
    BY DEF ConnectTimes
  <2>2. CASE connected
    <3>1. WaitOr("unreachable", d, FALSE)
      BY <1>11, <2>2 DEF ConnectFails
    <3>2. /\ started' \in 0 .. MaxOutage /\ down' \in 0 .. MaxDown
          /\ \/ phase' = "wait" /\ result' = result /\ started' < MaxOutage /\ down' <= started'
             \/ phase' = "ended" /\ result' = "unreachable"
      BY <1>11, <2>1, <3>1, WaitOrIs DEF ConnectFails
    <3> QED
      BY <1>11, <3>2 DEF ConnectFails, NotStarted
  <2>3. CASE ~connected
    BY <1>11, <2>3 DEF ConnectFails
  <2> QED
    BY <2>2, <2>3
<1>12. ASSUME NEW d \in ReadTimes, Drops(d) PROVE Goal
  <2>1. d \in Nat
    BY DEF ReadTimes
  <2>2. /\ started' \in 0 .. MaxOutage /\ down' \in 0 .. MaxDown
        /\ \/ phase' = "wait" /\ result' = result /\ started' < MaxOutage /\ down' <= started'
           \/ phase' = "ended" /\ result' = "lost"
    BY <1>12, <2>1, WaitOrIs DEF Drops
  <2> QED
    BY <1>12, <2>2 DEF Drops, NotStarted
<1>13. ASSUME NEW d \in ReadTimes, Closes(d) PROVE Goal
  <2>1. d \in Nat
    BY DEF ReadTimes
  <2>2. /\ started' \in {NotStarted} \cup 0 .. MaxOutage /\ down' = down
        /\ started' = NotStarted <=> started = NotStarted
        /\ started # NotStarted => started' >= started
    BY <1>13, <2>1, PassesIs DEF Closes
  <2> QED
    BY <1>13, <2>2 DEF Closes, NotStarted
<1>14. CASE SetStop
  BY <1>14 DEF SetStop
<1>15. CASE EntityChanges
  <2>1. UNCHANGED <<phase, result, connected, started, attempts, stop, down>>
        /\ entity' \in {"live", "finished"} /\ done' \in BOOLEAN
    BY <1>15 DEF EntityChanges
  <2> QED
    BY <2>1
<1>16. CASE UNCHANGED vars
  BY <1>16 DEF vars
<1> QED
  BY <1>1, <1>2, <1>3, <1>4, <1>5, <1>6, <1>7, <1>8, <1>9, <1>10, <1>11, <1>12, <1>13,
     <1>14, <1>15, <1>16 DEF Next, ThreadStep

-----------------------------------------------------------------------------
(* The silence, and what follows a stop. *)

\* A step that takes no time and neither connects nor handles an event.
LEMMA NoTime ==
  ASSUME Parameters, IInv, UNCHANGED <<silent, after, connected>>,
         started' = started \/ (started = NotStarted /\ started' = 0),
         phase # "ended" \/ UNCHANGED <<phase, result>>,
         \/ phase' # "ended" /\ result' = result
         \/ phase' = "ended" /\ result' \in Results \ {"lost", "unreachable"}
         \/ UNCHANGED <<phase, result>>,
         stop => stop',
         \/ ~stop
         \/ phase' \in {"loop", "ended"}
         \/ phase' = phase
  PROVE  SilentInv' /\ AfterInv'
<1> USE Constants DEF IInv, TypeOK, SilentInv, AfterInv, NotGivenUpEarly, GivenUp, NotStarted
<1>1. SilentInv'
  OBVIOUS
<1>2. AfterInv'
  OBVIOUS
<1> QED
  BY <1>1, <1>2

\* A step that takes 'd' units, and what it leaves of the outage's clock.
StartedAfter(d) ==
  \/ started' = started \/ (started = NotStarted /\ started' = 0)
  \/ started # NotStarted /\ started + d < MaxOutage /\ started' = started + d
  \/ started # NotStarted /\ started + d >= MaxOutage /\ started' = MaxOutage

TimedStep(d) ==
  /\ Elapses(d) /\ UNCHANGED stop
  /\ \/ phase = "wait" /\ d <= MaxRetryInterval /\ phase' = "loop"
     \/ phase = "connect" /\ d <= ConnectTimeout + ReadTimeout /\ phase' \in {"wait", "ended"}
     \/ phase = "read" /\ d <= ReadTimeout /\ phase' \in {"loop", "closed", "wait", "ended"}
  /\ phase' # "ended" => result' = result
  /\ StartedAfter(d)
  /\ GivenUp' => started' = MaxOutage

\* Every step keeps what the silence and the stop are bounded by.
LEMMA HistoryHolds ==
  ASSUME Parameters, IInv, [Next]_vars
  PROVE  /\ silent' \in 0 .. MaxOutage
         /\ after' \in [events : Nat, connections : Nat, time : Nat]
         /\ SilentInv' /\ AfterInv'
<1> DEFINE Typed == /\ silent' \in 0 .. MaxOutage
                    /\ after' \in [events : Nat, connections : Nat, time : Nat]
           Goal == Typed /\ SilentInv' /\ AfterInv'
<1>0. /\ silent \in 0 .. MaxOutage /\ stop \in BOOLEAN
      /\ after \in [events : Nat, connections : Nat, time : Nat]
      /\ started \in {NotStarted} \cup 0 .. MaxOutage
  BY DEF IInv, TypeOK
<1>1. CASE Check \/ Refused \/ Line \/ LineAfterStop \/ StreamError \/ CheckEntity
           \/ Paused \/ SetStop \/ EntityChanges \/ UNCHANGED vars
  <2>1. Typed
    BY <1>0, <1>1 DEF Check, Refused, Line, LineAfterStop, StreamError, CheckEntity, Paused,
       SetStop, EntityChanges, vars, clocks
  <2>2. SilentInv' /\ AfterInv'
    BY <1>1, NoTime DEF Check, Refused, Line, LineAfterStop, StreamError, CheckEntity, Paused,
       SetStop, EntityChanges, vars, clocks, outage, Ends, Continues, Results, Failed
  <2> QED
    BY <2>1, <2>2
<1>2. CASE Connects
  <2>1. /\ phase = "connect" /\ phase' = "read" /\ UNCHANGED <<result, started, stop, silent>>
        /\ after' = [after EXCEPT !.connections = IF stop THEN @ + 1 ELSE @]
    BY <1>2 DEF Connects, OneConnection, Continues, outage
  <2> QED
    BY <1>0, <2>1, Constants DEF IInv, SilentInv, AfterInv, NotGivenUpEarly, GivenUp
<1>3. CASE Handle
  <2>1. /\ phase = "handle" /\ UNCHANGED stop /\ silent' = 0 /\ started' \in {NotStarted, 0}
        /\ after' = [after EXCEPT !.events = IF stop THEN @ + 1 ELSE @]
        /\ \/ phase' \in {"loop", "read", "wait"} /\ result' = result
           \/ phase' = "ended" /\ result' \in {"settled", "error"}
    BY <1>3 DEF Handle, OneEvent, Ends, Continues
  <2> QED
    BY <1>0, <2>1, Constants DEF IInv, SilentInv, AfterInv, NotGivenUpEarly, GivenUp
<1>4. ASSUME NEW d \in Nat, TimedStep(d) PROVE Goal
  <2>1. /\ silent' \in 0 .. MaxOutage /\ silent' >= silent
        /\ silent + d < MaxOutage => silent' = silent + d
        /\ silent + d >= MaxOutage => silent' = MaxOutage
        /\ after' \in [events : Nat, connections : Nat, time : Nat]
        /\ after'.events = after.events /\ after'.connections = after.connections
        /\ stop => after'.time = after.time + d
        /\ ~stop => after'.time = after.time
    BY <1>4, ElapsesIs DEF IInv, TimedStep
  <2>2. started' # NotStarted => started' <= silent'
    BY <1>0, <1>4, <2>1, Constants DEF TimedStep, StartedAfter, IInv, SilentInv, NotStarted
  <2>3. SilentInv'
    BY <1>0, <1>4, <2>1, <2>2, Constants DEF TimedStep, StartedAfter, IInv, SilentInv, NotGivenUpEarly, NotStarted
  <2>4. AfterInv'
    BY <1>0, <1>4, <2>1, Constants DEF TimedStep, IInv, AfterInv
  <2> QED
    BY <2>1, <2>3, <2>4
<1>11. ASSUME NEW d \in Nat, NEW open \in BOOLEAN, Passes(d, open) PROVE StartedAfter(d)
  BY <1>0, <1>11, PassesIs, Constants DEF StartedAfter, IInv, NotStarted
<1>5. CASE Waited
  <2> DEFINE d == Delay
  <2>1. d \in 0 .. MaxRetryInterval
    BY DelayIs, Constants DEF IInv, TypeOK
  <2>2. Elapses(d) /\ Passes(d, FALSE)
    BY <1>5 DEF Waited
  <2>3. started # NotStarted /\ result = "none"
    BY <1>5 DEF Waited, IInv, ClockInv, SilentInv
  <2>4. phase = "wait" /\ phase' = "loop" /\ UNCHANGED <<result, stop, connected>>
    BY <1>5 DEF Waited, Continues
  <2> HIDE DEF d
  <2>5. d \in Nat
    BY <2>1, Constants
  <2>6. TimedStep(d)
    <3>1. StartedAfter(d)
      BY <1>11, <2>2, <2>5
    <3> QED
      BY <2>1, <2>2, <2>3, <2>4, <2>5, <3>1, Constants DEF TimedStep, GivenUp
  <2> QED
    BY <1>4, <2>5, <2>6
<1>6. CASE Quiet
  <2>1. TimedStep(ReadTimeout)
    <3>1. StartedAfter(ReadTimeout)
      BY <1>6, <1>11, Constants DEF Quiet
    <3> QED
      BY <1>6, <3>1, Constants DEF Quiet, TimedStep, GivenUp, IInv, SilentInv, Continues
  <2> QED
    BY <1>4, <2>1, Constants
<1>7. ASSUME NEW d \in ReadTimes, Closes(d) PROVE Goal
  <2>1. d \in Nat /\ d <= ReadTimeout
    BY Constants DEF ReadTimes
  <2>2. TimedStep(d)
    <3>1. StartedAfter(d)
      BY <1>7, <1>11, <2>1 DEF Closes
    <3> QED
      BY <1>7, <2>1, <3>1, Constants DEF Closes, TimedStep, GivenUp, IInv, SilentInv, Continues
  <2> QED
    BY <1>4, <2>1, <2>2
<1>8. ASSUME NEW d \in Nat, NEW r \in Failed, NEW open \in BOOLEAN, WaitOr(r, d, open),
             phase \in {"connect", "read"}
      PROVE  /\ phase' \in {"wait", "ended"} /\ (phase' # "ended" => result' = result)
             /\ StartedAfter(d)
             /\ phase' = "ended" => started' = MaxOutage
  <2>1. CASE started = NotStarted
    BY <1>8, <2>1, Constants DEF WaitOr, Continues, StartedAfter
  <2>2. CASE started # NotStarted
    <3>1. Passes(d, open)
      BY <1>8, <2>2 DEF WaitOr
    <3>2. /\ started + d < MaxOutage => started' = started + d
          /\ started + d >= MaxOutage => started' = MaxOutage
      BY <2>2, <3>1, PassesIs DEF IInv
    <3> QED
      BY <1>0, <1>8, <2>2, <3>2, Constants DEF WaitOr, Continues, Ends, StartedAfter, NotStarted
  <2> QED
    BY <2>1, <2>2
<1>9. ASSUME NEW d \in ReadTimes, Drops(d) PROVE Goal
  <2>1. d \in Nat /\ d <= ReadTimeout /\ "lost" \in Failed
    BY Constants DEF ReadTimes, Failed
  <2>2. /\ phase = "read" /\ WaitOr("lost", d, TRUE) /\ Elapses(d) /\ result = "none"
        /\ UNCHANGED <<stop, connected>>
    BY <1>9 DEF Drops, IInv, SilentInv
  <2>3. TimedStep(d)
    <3>1. /\ phase' \in {"wait", "ended"} /\ (phase' # "ended" => result' = result)
          /\ StartedAfter(d)
          /\ phase' = "ended" => started' = MaxOutage
      BY <1>8, <2>1, <2>2
    <3> QED
      BY <2>1, <2>2, <3>1, Constants DEF TimedStep, GivenUp
  <2> QED
    BY <1>4, <2>1, <2>3
<1>10. ASSUME NEW d \in ConnectTimes, ConnectFails(d) PROVE Goal
  <2>1. d \in Nat /\ d <= ConnectTimeout + ReadTimeout /\ "unreachable" \in Failed
    BY Constants DEF ConnectTimes, Failed
  <2>2. /\ phase = "connect" /\ Elapses(d) /\ result = "none"
        /\ UNCHANGED <<stop, connected>>
    BY <1>10 DEF ConnectFails, IInv, SilentInv
  <2>3. CASE connected
    <3>1. WaitOr("unreachable", d, FALSE)
      BY <1>10, <2>3 DEF ConnectFails
    <3>2. TimedStep(d)
      BY <1>8, <2>1, <2>2, <3>1, Constants DEF TimedStep, GivenUp
    <3> QED
      BY <1>4, <2>1, <3>2
  <2>4. CASE ~connected
    <3>1. phase' = "ended" /\ result' = "unreachable" /\ started' = started
      BY <1>10, <2>4 DEF ConnectFails, Ends
    <3>2. TimedStep(d)
      BY <2>1, <2>2, <2>4, <3>1, Constants DEF TimedStep, StartedAfter, GivenUp
    <3> QED
      BY <1>4, <2>1, <3>2
  <2> QED
    BY <2>3, <2>4
<1> QED
  BY <1>1, <1>2, <1>3, <1>5, <1>6, <1>7, <1>9, <1>10 DEF Next, ThreadStep

LEMMA StepHolds ==
  ASSUME Parameters
  PROVE  IInv /\ [Next]_vars => IInv'
BY ThreadHolds, HistoryHolds DEF IInv

\* What the invariant is for.
LEMMA Implies ==
  ASSUME Parameters
  PROVE  IInv => OutageBounded /\ NotGivenUpEarly /\ StopHeeded
<1> USE DEF IInv
<1>1. IInv => OutageBounded
  BY Constants DEF TypeOK, ClockInv, OutageBounded, NotStarted
<1> QED
  BY <1>1 DEF SilentInv, AfterInv, StopHeeded

\* An outage's clock stays within its limit, and the count of attempts within that at
\* which the delay no longer grows.
THEOREM TypeCorrect ==
  ASSUME Parameters
  PROVE  Spec => []TypeOK
<1>1. IInv => TypeOK
  BY DEF IInv
<1> QED
  BY <1>1, InitHolds, StepHolds, PTL DEF Spec
=============================================================================
