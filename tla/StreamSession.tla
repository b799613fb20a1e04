---------------------------- MODULE StreamSession ----------------------------
(* The LIVE stream session of services/stream_session.py with the connection *)
(* task of services/stream_client.py and the watchdog of services/watchdog.py.*)
(*                                                                           *)
(* The gateway is one asyncio event loop.  A task runs alone from one await  *)
(* to the next, so an action is what a task does between two awaits and      *)
(* tasks interleave only there.  task.cancel() takes effect at the victim's  *)
(* next step: it is a pending flag for the supervisor, whose handlers react  *)
(* to it, and immediate for the announcer and the watchdog, which end at     *)
(* that step without touching anything.                                      *)
(*                                                                           *)
(* Each accepted start() creates a generation of tasks; a member of Run      *)
(* names one and may be used again once its tasks have ended.                *)
EXTENDS Naturals

CONSTANTS
  Run,            \* names for generations of session tasks
  NoRun,          \* "None" where a generation is expected
  PubSub,         \* TRUE: publish() may await Pub/Sub; FALSE: stub, no await
  SerialControl,  \* TRUE: nobody calls start() while a stop() has not returned
  MaxBackoff      \* settings.reconnect_max_backoff_s

ASSUME RunAssumption == NoRun \notin Run
ASSUME ModeAssumption == PubSub \in BOOLEAN /\ SerialControl \in BOOLEAN
ASSUME BackoffAssumption == MaxBackoff \in Nat \ {0}

VARIABLES
  running,          \* StreamSession._running
  was_connected,    \* ._was_connected
  watchdog_drop,    \* ._watchdog_drop
  drop_announced,   \* ._drop_announced
  conn_established, \* ._conn_established
  tasks,            \* ._tasks: the generation it lists, NoRun when empty
  current,          \* ._current_conn: the generation whose connection it is
  stopping,         \* generations whose end a stop() call is awaiting
  sup,              \* sup[r]: where generation r's supervisor is suspended
  cancelling,       \* supervisors with a CancelledError pending
  backoff,          \* backoff[r]: the supervisor's local variable
  conn,             \* conn[r]: the connection task the supervisor awaits
  announcer,        \* announcer[r]: the _announce_connected task
  watchdog,         \* watchdog[r]: the run_watchdog task
  stream_status,    \* app_state.stream_status
  last_message_at,  \* app_state.last_message_at, by its age
  attempt,          \* attempt[r]: how far r's latest connection attempt got
  lastEvent         \* the session's last published connection event

sessionVars == <<running, was_connected, watchdog_drop, drop_announced,
                 conn_established, tasks, current, stopping>>
taskVars    == <<sup, cancelling, backoff, conn, announcer, watchdog>>
appVars     == <<stream_status, last_message_at>>
ghostVars   == <<attempt, lastEvent>>
vars        == <<sessionVars, taskVars, appVars, ghostVars>>

SupState      == {"none", "new", "await", "publish", "sleep"}
ConnState     == {"none", "opening", "subscribed", "reading",
                  "failing", "cancelling", "failed", "cancelled"}
AnnounceState == {"none", "polling", "reconnected", "recovered"}
WatchState    == {"none", "sleeping", "publishing"}
Status        == {"disconnected", "connecting", "connected", "reconnecting"}
Age           == {"none", "fresh", "stale"}
Attempt       == {"dialled", "reached", "observed"}
Event         == {"none", "dropped", "reconnected", "recovered"}

LiveConn == {"opening", "subscribed", "reading", "failing", "cancelling"}
DoneConn == {"failed", "cancelled"}

ConnAlive(r) == conn[r] \in LiveConn
Idle(r) == /\ sup[r] = "none" /\ conn[r] = "none"
           /\ announcer[r] = "none" /\ watchdog[r] = "none"

\* Mutant: the doubling is not capped.
MinOfUncapped(a, b) == a

MinOf(a, b) == IF a <= b THEN a ELSE b

Init ==
  /\ running = FALSE /\ was_connected = FALSE /\ watchdog_drop = FALSE
  /\ drop_announced = FALSE /\ conn_established = FALSE
  /\ tasks = NoRun /\ current = NoRun /\ stopping = {}
  /\ sup = [r \in Run |-> "none"] /\ cancelling = {}
  /\ backoff = [r \in Run |-> 1]
  /\ conn = [r \in Run |-> "none"]
  /\ announcer = [r \in Run |-> "none"]
  /\ watchdog = [r \in Run |-> "none"]
  /\ stream_status = "disconnected" /\ last_message_at = "none"
  /\ attempt = [r \in Run |-> "dialled"] /\ lastEvent = "none"

-----------------------------------------------------------------------------
(* Control calls.                                                            *)

\* Mutant: start() does not look at _running.
MayStartAgain == SerialControl => stopping = {}

\* start() is accepted when no session is running, whatever a stop() in
\* progress still waits for; SerialControl is the operator's own discipline.
MayStart == ~running /\ (SerialControl => stopping = {})

Start(r) ==
  /\ MayStart
  /\ Idle(r) /\ r \notin stopping /\ current # r
  /\ running' = TRUE
  /\ was_connected' = FALSE /\ watchdog_drop' = FALSE
  /\ drop_announced' = FALSE /\ conn_established' = FALSE
  /\ stream_status' = "connecting"
  /\ tasks' = r
  /\ sup' = [sup EXCEPT ![r] = "new"]
  /\ backoff' = [backoff EXCEPT ![r] = 1]
  /\ watchdog' = [watchdog EXCEPT ![r] = "sleeping"]
  /\ lastEvent' = "none"
  /\ UNCHANGED <<current, stopping, cancelling, conn, announcer,
                 last_message_at, attempt>>

\* task.cancel() on a supervisor that awaits a live connection cancels that
\* connection; on any other supervisor it leaves a CancelledError pending.
PropagatesCancel(r) == sup[r] = "await" /\ ConnAlive(r)

\* Mutant: the connection is not cancelled.
HungUpNobody(victims) == conn

HungUp(victims) ==
  [r \in Run |-> IF r \in victims /\ ConnAlive(r) THEN "cancelling" ELSE conn[r]]

\* What stop() does once gather() has returned.
StopTail ==
  /\ tasks' = NoRun
  /\ current' = NoRun
  /\ stream_status' = "disconnected"

\* stop() up to its await: with nothing to gather it does not suspend.
Stop ==
  /\ running
  /\ running' = FALSE
  /\ conn' = HungUp({r \in Run : r = current \/ (r = tasks /\ PropagatesCancel(r))})
  /\ cancelling' = cancelling \cup
       {r \in Run : r = tasks /\ sup[r] # "none" /\ ~PropagatesCancel(r)}
  /\ watchdog' = [r \in Run |-> IF r = tasks THEN "none" ELSE watchdog[r]]
  /\ stopping' = stopping \cup ({tasks} \cap Run)
  /\ IF tasks = NoRun THEN StopTail ELSE UNCHANGED <<tasks, current, stream_status>>
  /\ UNCHANGED <<was_connected, watchdog_drop, drop_announced, conn_established,
                 sup, backoff, announcer, last_message_at, ghostVars>>

\* Mutant: stop() does not await its tasks.
GatheredEarly(r) == TRUE

\* gather() is over when the supervisor is; the other tasks end at their first
\* step after the cancellation.
Gathered(r) == sup[r] = "none"

StopReturns(r) ==
  /\ r \in stopping
  /\ Gathered(r)
  /\ stopping' = stopping \ {r}
  /\ StopTail
  /\ UNCHANGED <<running, was_connected, watchdog_drop, drop_announced,
                 conn_established, taskVars, last_message_at, ghostVars>>

\* POST /admin/control/reconnect_stream: force_disconnect() with a reason that
\* is not the watchdog's.
ReconnectStream ==
  /\ running
  /\ current \in Run /\ ConnAlive(current)
  /\ conn' = HungUp({current})
  /\ UNCHANGED <<sessionVars, sup, cancelling, backoff, announcer, watchdog,
                 appVars, ghostVars>>

-----------------------------------------------------------------------------
(* The supervisor.                                                           *)

\* The loop ends: nothing of generation r's connection is left.
SupervisorEnds(r) ==
  /\ sup' = [sup EXCEPT ![r] = "none"]
  /\ cancelling' = cancelling \ {r}

\* The head of the loop up to `await self._current_conn`.
Dial(r) ==
  /\ stream_status' = "connecting"
  /\ current' = r
  /\ conn' = [conn EXCEPT ![r] = "opening"]
  /\ announcer' = [announcer EXCEPT ![r] = "polling"]
  /\ sup' = [sup EXCEPT ![r] = "await"]
  /\ attempt' = [attempt EXCEPT ![r] = "dialled"]
  /\ UNCHANGED cancelling

\* First step of the task: cancelled before it ran, or into the loop.
SupervisorBegins(r) ==
  /\ sup[r] = "new"
  /\ \/ /\ running /\ r \notin cancelling
        /\ Dial(r)
     \/ /\ ~running \/ r \in cancelling
        /\ SupervisorEnds(r)
        /\ UNCHANGED <<current, conn, announcer, stream_status, attempt>>
  /\ UNCHANGED <<running, was_connected, watchdog_drop, drop_announced,
                 conn_established, tasks, stopping, backoff, watchdog,
                 last_message_at, lastEvent>>

\* Mutant: _conn_established is not cleared for the next attempt.
BackOffKeepsFlag(r) ==
  /\ current' = NoRun
  /\ backoff' = [backoff EXCEPT ![r] = IF conn_established THEN 1 ELSE @]
  /\ UNCHANGED conn_established
  /\ sup' = [sup EXCEPT ![r] = "sleep"]

\* The end of an iteration: forget the connection, reset the backoff if the
\* attempt was seen to connect, sleep.
BackOff(r) ==
  /\ current' = NoRun
  /\ backoff' = [backoff EXCEPT ![r] = IF conn_established THEN 1 ELSE @]
  /\ conn_established' = FALSE
  /\ sup' = [sup EXCEPT ![r] = "sleep"]

\* The connection task is done and the supervisor resumes; in each of the next
\* three it first cancels the announcer.
Reap(r) ==
  /\ sup[r] = "await" /\ conn[r] \in DoneConn
  /\ conn' = [conn EXCEPT ![r] = "none"]
  /\ announcer' = [announcer EXCEPT ![r] = "none"]

SeesCancel(r) == conn[r] = "cancelled" \/ r \in cancelling

\* Mutant: the CancelledError handler returns without asking _running.
EndsOnAnyCancel(r) == SeesCancel(r)

\* CancelledError means stop() only while the session is not running.
EndsOnCancel(r) == SeesCancel(r) /\ ~running

ReapStopped(r) ==
  /\ Reap(r)
  /\ EndsOnCancel(r)
  /\ SupervisorEnds(r)
  /\ current' = NoRun
  /\ UNCHANGED <<running, was_connected, watchdog_drop, drop_announced,
                 conn_established, tasks, stopping, backoff, watchdog,
                 appVars, ghostVars>>

\* Mutant: the status of the lost connection is left standing.
MarkNothing == UNCHANGED stream_status

MarkReconnecting ==
  stream_status' = IF stream_status = "disconnected"
                   THEN "disconnected" ELSE "reconnecting"

\* Mutant: a drop that is already announced is announced again.
UnannouncedAlways == was_connected

Unannounced == was_connected /\ ~drop_announced

\* A drop the consumers have not been told of: publish gateway_session_dropped.
\* With Pub/Sub too, a publish() that fails at once does not suspend.
ReapAnnounce(r) ==
  /\ Reap(r)
  /\ ~EndsOnCancel(r)
  /\ Unannounced
  /\ cancelling' = cancelling \ {r}
  /\ MarkReconnecting
  /\ lastEvent' = "dropped"
  /\ \/ /\ PubSub
        /\ sup' = [sup EXCEPT ![r] = "publish"]
        /\ UNCHANGED <<current, backoff, conn_established, drop_announced>>
     \/ /\ drop_announced' = TRUE
        /\ BackOff(r)
  /\ UNCHANGED <<running, was_connected, watchdog_drop, tasks, stopping,
                 watchdog, last_message_at, attempt>>

\* Never connected yet, or the outage is already announced: no event.
ReapQuietly(r) ==
  /\ Reap(r)
  /\ ~EndsOnCancel(r)
  /\ ~Unannounced
  /\ cancelling' = cancelling \ {r}
  /\ MarkReconnecting
  /\ BackOff(r)
  /\ UNCHANGED <<running, was_connected, watchdog_drop, drop_announced, tasks,
                 stopping, watchdog, last_message_at, ghostVars>>

\* Back from publish() in the exception handler.  A CancelledError raised
\* there leaves the task through the handler's `finally`.
DropPublished(r) ==
  /\ sup[r] = "publish"
  /\ \/ /\ r \notin cancelling
        /\ drop_announced' = TRUE
        /\ BackOff(r)
        /\ UNCHANGED cancelling
     \/ /\ r \in cancelling
        /\ SupervisorEnds(r)
        /\ current' = NoRun
        /\ UNCHANGED <<drop_announced, backoff, conn_established>>
  /\ UNCHANGED <<running, was_connected, watchdog_drop, tasks, stopping, conn,
                 announcer, watchdog, appVars, ghostVars>>

\* The backoff sleep is over or was cancelled.
SleepEnds(r) ==
  /\ sup[r] = "sleep"
  /\ \/ /\ r \in cancelling
        /\ stream_status' = "disconnected"
        /\ SupervisorEnds(r)
        /\ UNCHANGED <<backoff, current, conn, announcer, attempt>>
     \/ /\ r \notin cancelling
        /\ backoff' = [backoff EXCEPT ![r] = MinOf(2 * @, MaxBackoff)]
        /\ \/ running /\ Dial(r)
           \/ /\ ~running
              /\ SupervisorEnds(r)
              /\ UNCHANGED <<stream_status, current, conn, announcer, attempt>>
  /\ UNCHANGED <<running, was_connected, watchdog_drop, drop_announced,
                 conn_established, tasks, stopping, watchdog, last_message_at,
                 lastEvent>>

-----------------------------------------------------------------------------
(* The connection task, run_connection().                                    *)

\* Everything but the connection task's own state and what it reports.
RestOfConn == <<sessionVars, sup, cancelling, backoff, announcer, watchdog,
                lastEvent>>

\* Authenticated and subscribed.
ConnSubscribed(r) ==
  /\ conn[r] = "opening"
  /\ conn' = [conn EXCEPT ![r] = "subscribed"]
  /\ stream_status' = "connected"
  /\ attempt' = [attempt EXCEPT ![r] = "reached"]
  /\ UNCHANGED <<RestOfConn, last_message_at>>

\* An mcm (a change or a heartbeat) is read.
ConnMessage(r) ==
  /\ conn[r] \in {"subscribed", "reading"}
  /\ conn' = [conn EXCEPT ![r] = "reading"]
  /\ last_message_at' = "fresh"
  /\ UNCHANGED <<RestOfConn, stream_status, attempt>>

\* A refused handshake, EOF, the heartbeat timeout, an auth error: the task
\* enters its `finally` and closes the socket.
ConnFails(r) ==
  /\ conn[r] \in {"opening", "subscribed", "reading"}
  /\ conn' = [conn EXCEPT ![r] = "failing"]
  /\ UNCHANGED <<RestOfConn, appVars, attempt>>

\* wait_closed() is over and the task is done.
ConnDone(r) ==
  /\ conn[r] \in {"failing", "cancelling"}
  /\ conn' = [conn EXCEPT ![r] = IF @ = "failing" THEN "failed" ELSE "cancelled"]
  /\ UNCHANGED <<RestOfConn, appVars, attempt>>

\* Time passes: the last message is now older than stream_stale_threshold_s.
MessageAges ==
  /\ last_message_at = "fresh"
  /\ last_message_at' = "stale"
  /\ UNCHANGED <<sessionVars, taskVars, stream_status, ghostVars>>

-----------------------------------------------------------------------------
(* The announcer, _announce_connected().                                     *)

\* What it does once its event is out.
RecoveryPublished(event) ==
  /\ watchdog_drop' = IF event = "reconnected" THEN FALSE ELSE watchdog_drop
  /\ drop_announced' = FALSE

\* One turn of the poll loop that ends it or sends it to publish().
AnnouncerPolls(r) ==
  /\ announcer[r] = "polling"
  /\ \/ /\ ~running
        /\ announcer' = [announcer EXCEPT ![r] = "none"]
        /\ UNCHANGED <<conn_established, was_connected, drop_announced,
                       watchdog_drop, ghostVars>>
     \/ /\ running /\ stream_status = "connected"
        /\ conn_established' = TRUE
        /\ attempt' = [attempt EXCEPT ![r] = "observed"]
        /\ \/ /\ ~was_connected
              /\ was_connected' = TRUE
              /\ drop_announced' = FALSE
              /\ announcer' = [announcer EXCEPT ![r] = "none"]
              /\ UNCHANGED <<watchdog_drop, lastEvent>>
           \/ /\ was_connected
              /\ lastEvent' = IF watchdog_drop THEN "reconnected" ELSE "recovered"
              /\ \/ /\ PubSub
                    /\ announcer' = [announcer EXCEPT ![r] = lastEvent']
                    /\ UNCHANGED <<watchdog_drop, drop_announced>>
                 \/ /\ announcer' = [announcer EXCEPT ![r] = "none"]
                    /\ RecoveryPublished(lastEvent')
              /\ UNCHANGED was_connected
  /\ UNCHANGED <<running, tasks, current, stopping, sup, cancelling, backoff,
                 conn, watchdog, appVars>>

AnnouncerPublished(r) ==
  /\ announcer[r] \in {"reconnected", "recovered"}
  /\ RecoveryPublished(announcer[r])
  /\ announcer' = [announcer EXCEPT ![r] = "none"]
  /\ UNCHANGED <<running, was_connected, conn_established, tasks, current,
                 stopping, sup, cancelling, backoff, conn, watchdog, appVars,
                 ghostVars>>

-----------------------------------------------------------------------------
(* The watchdog, run_watchdog().                                             *)

\* Mutant: the flag is set and the connection left alone.
ForceDisconnectFlagOnly == watchdog_drop' = TRUE /\ UNCHANGED conn

\* force_disconnect("stale ...").
ForceDisconnect ==
  IF current \in Run /\ ConnAlive(current)
  THEN conn' = HungUp({current}) /\ watchdog_drop' = TRUE
  ELSE UNCHANGED <<conn, watchdog_drop>>

WatchdogTrips == running /\ stream_status = "connected" /\ last_message_at = "stale"

\* The check finds a stale stream: publish gateway_stream_stale, then cut it.
WatchdogChecks(r) ==
  /\ watchdog[r] = "sleeping"
  /\ WatchdogTrips
  /\ \/ /\ PubSub
        /\ watchdog' = [watchdog EXCEPT ![r] = "publishing"]
        /\ UNCHANGED <<conn, watchdog_drop>>
     \/ /\ ForceDisconnect
        /\ UNCHANGED watchdog
  /\ UNCHANGED <<running, was_connected, drop_announced, conn_established,
                 tasks, current, stopping, sup, cancelling, backoff, announcer,
                 appVars, ghostVars>>

WatchdogCuts(r) ==
  /\ watchdog[r] = "publishing"
  /\ watchdog' = [watchdog EXCEPT ![r] = "sleeping"]
  /\ ForceDisconnect
  /\ UNCHANGED <<running, was_connected, drop_announced, conn_established,
                 tasks, current, stopping, sup, cancelling, backoff, announcer,
                 appVars, ghostVars>>

-----------------------------------------------------------------------------
Supervisor(r) ==
  SupervisorBegins(r) \/ ReapStopped(r) \/ ReapAnnounce(r) \/ ReapQuietly(r)
    \/ DropPublished(r) \/ SleepEnds(r)

Connection(r) == ConnSubscribed(r) \/ ConnMessage(r) \/ ConnFails(r) \/ ConnDone(r)

Announcer(r) == AnnouncerPolls(r) \/ AnnouncerPublished(r)

Watchdog(r) == WatchdogChecks(r) \/ WatchdogCuts(r)

Next ==
  \/ Stop \/ ReconnectStream \/ MessageAges
  \/ \E r \in Run : \/ Start(r) \/ StopReturns(r)
                    \/ Supervisor(r) \/ Connection(r)
                    \/ Announcer(r) \/ Watchdog(r)

Spec == Init /\ [][Next]_vars

TypeOK ==
  /\ running \in BOOLEAN /\ was_connected \in BOOLEAN
  /\ watchdog_drop \in BOOLEAN /\ drop_announced \in BOOLEAN
  /\ conn_established \in BOOLEAN
  /\ tasks \in Run \cup {NoRun} /\ current \in Run \cup {NoRun}
  /\ stopping \in SUBSET Run /\ cancelling \in SUBSET Run
  /\ sup \in [Run -> SupState] /\ backoff \in [Run -> 1..MaxBackoff]
  /\ conn \in [Run -> ConnState] /\ announcer \in [Run -> AnnounceState]
  /\ watchdog \in [Run -> WatchState]
  /\ stream_status \in Status /\ last_message_at \in Age
  /\ attempt \in [Run -> Attempt] /\ lastEvent \in Event

-----------------------------------------------------------------------------
(* Safety.                                                                   *)

\* One LIVE session: one supervisor, which stop() can reach through _tasks
\* while the session runs, and one connection, which is the one that
\* force_disconnect() and stop() would cancel.
OneSession ==
  /\ \A r, q \in Run : sup[r] # "none" /\ sup[q] # "none" => r = q
  /\ \A r \in Run : running /\ sup[r] # "none" => tasks = r
  /\ \A r \in Run : ConnAlive(r) => current = r /\ sup[r] = "await"

\* Once the last stop() has returned, nothing of the session is left alive
\* and /admin/status says so.
StoppedIsQuiet ==
  ~running /\ stopping = {} =>
    /\ \A r \in Run : Idle(r)
    /\ tasks = NoRun /\ current = NoRun
    /\ stream_status = "disconnected"

\* The gateway never holds two subscribed streams ("Singleton orchestrator for
\* the LIVE-key stream").
OneSubscription ==
  \A r, q \in Run : conn[r] \in {"subscribed", "reading"}
                   /\ conn[q] \in {"subscribed", "reading"} => r = q

\* While the session runs, a subscribed connection shows as "connected", and
\* "connected" is only shown of an attempt that got that far and that the
\* supervisor has not taken leave of.
StatusHonest ==
  running =>
    /\ \A r \in Run : conn[r] \in {"subscribed", "reading"} => stream_status = "connected"
    /\ stream_status = "connected" =>
         \E r \in Run : sup[r] = "await" /\ attempt[r] # "dialled"

\* gateway_session_dropped is never published twice without a recovery
\* published in between, over any number of failed attempts.
DropsNeverRepeat ==
  [][\A r \in Run : ReapAnnounce(r) => lastEvent # "dropped"]_vars

\* The pause after an attempt restarts at one second exactly when the
\* announcer saw that attempt connected; an earlier attempt's success, or a
\* success nobody saw, never shortens it.
BackoffEarned ==
  [][\A r \in Run : sup[r] # "sleep" /\ sup'[r] = "sleep" =>
       backoff'[r] = IF attempt[r] = "observed" THEN 1 ELSE backoff[r]]_vars

\* While a session that has been connected is between attempts, the last
\* thing the consumers heard is that it dropped.
OutageAnnounced ==
  \A r \in Run : sup[r] = "sleep" /\ running /\ was_connected => lastEvent = "dropped"

-----------------------------------------------------------------------------
(* What the session promises: one link at most, gone when the session is.    *)

LinkPhase(r) == CASE conn[r] = "opening" -> "opening"
                  [] conn[r] \in {"subscribed", "reading"} -> "open"
                  [] OTHER -> "closing"

Links == {<<r, LinkPhase(r)>> : r \in {q \in Run : ConnAlive(q)}}

Active == running \/ stopping # {}

Link == INSTANCE SingleLink WITH
          Owner <- Run, wanted <- running, active <- Active, links <- Links

\* Every step of the session is a step of SingleLink or leaves it alone.
KeepsLinkPromise == Link!Spec

-----------------------------------------------------------------------------
(* Liveness.  The event loop runs every ready task, sleeps end, publish() has *)
(* a 10 s timeout and asyncio bounds the TLS shutdown that wait_closed()      *)
(* waits for.  Nothing is assumed of Betfair or of the operator.              *)
Fairness ==
  \A r \in Run : /\ WF_vars(Supervisor(r))
                 /\ WF_vars(ConnDone(r))
                 /\ WF_vars(Announcer(r))
                 /\ WF_vars(Watchdog(r))
                 /\ WF_vars(StopReturns(r))

FairSpec == Spec /\ Fairness

\* A stop() request returns.
StopTerminates == \A r \in Run : r \in stopping ~> r \notin stopping

\* A running session never gives up: however its connection ended, it dials
\* again unless it is stopped.
NeverGivesUp ==
  \A r \in Run : tasks = r /\ running /\ sup[r] # "none" /\ conn[r] # "opening" ~>
    ~running \/ conn[r] \in {"opening", "subscribed", "reading"}

\* The watchdog cuts a connected stream that has gone silent, unless a message
\* comes or something else ends it first.
StaleIsCut ==
  \A r \in Run : running /\ conn[r] = "reading" /\ last_message_at = "stale" ~>
    ~running \/ conn[r] # "reading" \/ last_message_at = "fresh"
=============================================================================
