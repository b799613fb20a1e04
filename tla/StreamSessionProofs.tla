------------------------- MODULE StreamSessionProofs -------------------------
(* Proofs about StreamSession for any set of generations, either publishing  *)
(* mode and any cap on the backoff.                                          *)
EXTENDS StreamSession, TLAPS

-----------------------------------------------------------------------------
(* Types.                                                                    *)

LEMMA MinOfBound ==
  /\ 1 \in 1..MaxBackoff
  /\ \A n \in 1..MaxBackoff : MinOf(2 * n, MaxBackoff) \in 1..MaxBackoff
BY BackoffAssumption DEF MinOf

LEMMA BackOffTypes ==
  ASSUME NEW r \in Run, TypeOK, BackOff(r)
  PROVE  /\ sup' \in [Run -> SupState]
         /\ backoff' \in [Run -> 1..MaxBackoff]
         /\ conn_established' \in BOOLEAN
         /\ current' \in Run \cup {NoRun}
BY MinOfBound DEF BackOff, TypeOK, SupState

LEMMA ReapTypes ==
  ASSUME NEW r \in Run, TypeOK, Reap(r)
  PROVE  conn' \in [Run -> ConnState] /\ announcer' \in [Run -> AnnounceState]
BY DEF Reap, TypeOK, ConnState, AnnounceState

\* The variables keep their types through every interleaving, overlapping
\* start() and stop() calls included; the supervisor's backoff stays within
\* reconnect_max_backoff_s.
THEOREM TypeCorrect == Spec => []TypeOK
<1>1. Init => TypeOK
  <2> SUFFICES ASSUME Init
               PROVE  TypeOK
    OBVIOUS
  <2>1. backoff \in [Run -> 1..MaxBackoff]
    BY MinOfBound DEF Init
  <2>2. /\ sup \in [Run -> SupState] /\ conn \in [Run -> ConnState]
        /\ announcer \in [Run -> AnnounceState] /\ watchdog \in [Run -> WatchState]
        /\ attempt \in [Run -> Attempt]
    BY DEF Init, SupState, ConnState, AnnounceState, WatchState, Attempt
  <2>3. /\ tasks \in Run \cup {NoRun} /\ current \in Run \cup {NoRun}
        /\ stopping \in SUBSET Run /\ cancelling \in SUBSET Run
        /\ stream_status \in Status /\ last_message_at \in Age
        /\ lastEvent \in Event
    BY DEF Init, Status, Age, Event
  <2>4. /\ running \in BOOLEAN /\ was_connected \in BOOLEAN
        /\ watchdog_drop \in BOOLEAN /\ drop_announced \in BOOLEAN
        /\ conn_established \in BOOLEAN
    BY DEF Init
  <2> QED
    BY <2>1, <2>2, <2>3, <2>4 DEF TypeOK
<1>2. ASSUME TypeOK, [Next]_vars
      PROVE  TypeOK'
  <2> USE <1>2 DEF TypeOK
  <2>1. CASE Stop
    BY <2>1 DEF Stop, StopTail, HungUp, ConnAlive, ConnState, WatchState, Status,
                ghostVars
  <2>2. CASE ReconnectStream
    BY <2>2 DEF ReconnectStream, HungUp, ConnState, sessionVars, appVars, ghostVars
  <2>3. CASE MessageAges
    BY <2>3 DEF MessageAges, Age, sessionVars, taskVars, ghostVars
  <2>4. ASSUME NEW r \in Run, Start(r)
        PROVE  TypeOK'
    BY <2>4, MinOfBound DEF Start, SupState, WatchState, Status, Event
  <2>5. ASSUME NEW r \in Run, StopReturns(r)
        PROVE  TypeOK'
    BY <2>5 DEF StopReturns, StopTail, Status, taskVars, ghostVars
  <2>6. ASSUME NEW r \in Run, Supervisor(r)
        PROVE  TypeOK'
    <3>1. CASE SupervisorBegins(r)
      BY <3>1 DEF SupervisorBegins, Dial, SupervisorEnds, SupState, ConnState,
                  AnnounceState, Status, Attempt
    <3>2. CASE ReapStopped(r)
      BY <3>2, ReapTypes DEF ReapStopped, SupervisorEnds, SupState, appVars, ghostVars
    <3>3. CASE ReapAnnounce(r)
      <4>1. conn' \in [Run -> ConnState] /\ announcer' \in [Run -> AnnounceState]
        BY <3>3, ReapTypes DEF ReapAnnounce
      <4>2. /\ sup' \in [Run -> SupState] /\ backoff' \in [Run -> 1..MaxBackoff]
            /\ conn_established' \in BOOLEAN /\ current' \in Run \cup {NoRun}
        BY <3>3, BackOffTypes DEF ReapAnnounce, SupState
      <4> QED
        BY <3>3, <4>1, <4>2 DEF ReapAnnounce, MarkReconnecting, Status, Event
    <3>4. CASE ReapQuietly(r)
      <4>1. conn' \in [Run -> ConnState] /\ announcer' \in [Run -> AnnounceState]
        BY <3>4, ReapTypes DEF ReapQuietly
      <4>2. /\ sup' \in [Run -> SupState] /\ backoff' \in [Run -> 1..MaxBackoff]
            /\ conn_established' \in BOOLEAN /\ current' \in Run \cup {NoRun}
        BY <3>4, BackOffTypes DEF ReapQuietly
      <4> QED
        BY <3>4, <4>1, <4>2 DEF ReapQuietly, MarkReconnecting, Status, ghostVars
    <3>5. CASE DropPublished(r)
      <4>1. /\ sup' \in [Run -> SupState] /\ backoff' \in [Run -> 1..MaxBackoff]
            /\ conn_established' \in BOOLEAN /\ current' \in Run \cup {NoRun}
        BY <3>5, BackOffTypes DEF DropPublished, SupervisorEnds, SupState
      <4> QED
        BY <3>5, <4>1 DEF DropPublished, SupervisorEnds, appVars, ghostVars
    <3>6. CASE SleepEnds(r)
      <4>1. backoff' \in [Run -> 1..MaxBackoff]
        BY <3>6, MinOfBound DEF SleepEnds
      <4>2. /\ sup' \in [Run -> SupState] /\ conn' \in [Run -> ConnState]
            /\ announcer' \in [Run -> AnnounceState] /\ attempt' \in [Run -> Attempt]
            /\ stream_status' \in Status
        BY <3>6 DEF SleepEnds, Dial, SupervisorEnds, SupState, ConnState,
                    AnnounceState, Attempt, Status
      <4> QED
        BY <3>6, <4>1, <4>2 DEF SleepEnds, Dial, SupervisorEnds
    <3> QED
      BY <2>6, <3>1, <3>2, <3>3, <3>4, <3>5, <3>6 DEF Supervisor
  <2>7. ASSUME NEW r \in Run, Connection(r)
        PROVE  TypeOK'
    BY <2>7 DEF Connection, ConnSubscribed, ConnMessage, ConnFails, ConnDone,
                RestOfConn, ConnState, Status, Age, Attempt, sessionVars, appVars
  <2>8. ASSUME NEW r \in Run, Announcer(r)
        PROVE  TypeOK'
    <3>1. CASE AnnouncerPolls(r)
      BY <3>1 DEF AnnouncerPolls, RecoveryPublished, AnnounceState, Event, Attempt,
                  appVars, ghostVars
    <3>2. CASE AnnouncerPublished(r)
      BY <3>2 DEF AnnouncerPublished, RecoveryPublished, AnnounceState, appVars,
                  ghostVars
    <3> QED
      BY <2>8, <3>1, <3>2 DEF Announcer
  <2>9. ASSUME NEW r \in Run, Watchdog(r)
        PROVE  TypeOK'
    <3>1. CASE WatchdogChecks(r)
      BY <3>1 DEF WatchdogChecks, ForceDisconnect, HungUp, WatchState, ConnState,
                  appVars, ghostVars
    <3>2. CASE WatchdogCuts(r)
      BY <3>2 DEF WatchdogCuts, ForceDisconnect, HungUp, WatchState, ConnState,
                  appVars, ghostVars
    <3> QED
      BY <2>9, <3>1, <3>2 DEF Watchdog
  <2>10. CASE UNCHANGED vars
    BY <2>10 DEF vars, sessionVars, taskVars, appVars, ghostVars
  <2> QED
    BY <1>2, <2>1, <2>2, <2>3, <2>4, <2>5, <2>6, <2>7, <2>8, <2>9, <2>10 DEF Next
<1> QED
  BY <1>1, <1>2, PTL DEF Spec

-----------------------------------------------------------------------------
(* One session at a time, when start() and stop() do not overlap.  OneSession *)
(* and StoppedIsQuiet are not inductive: they do not say whom a stop() waits  *)
(* for nor that everything it cancelled is bound to end.                      *)

\* Every task belongs to the generation in _tasks.
OneGeneration == \A r \in Run : r # tasks => Idle(r) /\ r \notin cancelling

\* The connection is the one its supervisor awaits, and _current_conn is it.
ConnOwned ==
  /\ current \in {NoRun, tasks}
  /\ \A r \in Run : /\ sup[r] = "await" <=> conn[r] # "none"
                    /\ sup[r] = "await" => current = r
                    /\ announcer[r] # "none" => sup[r] = "await"

InService ==
  /\ running /\ stopping = {}
  /\ tasks \in Run
  /\ sup[tasks] # "none" /\ tasks \notin cancelling

\* One stop() waits, and whatever its supervisor does next ends it.
BeingStopped ==
  /\ ~running
  /\ tasks \in Run /\ stopping = {tasks}
  /\ watchdog[tasks] = "none"
  /\ sup[tasks] = "none" => tasks \notin cancelling
  /\ sup[tasks] \in {"new", "publish", "sleep"} => tasks \in cancelling
  /\ sup[tasks] = "await" =>
       \/ conn[tasks] \in {"cancelling", "cancelled"}
       \/ conn[tasks] = "failed" /\ tasks \in cancelling

OutOfService ==
  /\ ~running /\ stopping = {}
  /\ tasks = NoRun /\ current = NoRun
  /\ stream_status = "disconnected"

SessionInv ==
  /\ OneGeneration
  /\ ConnOwned
  /\ InService \/ BeingStopped \/ OutOfService

LEMMA SessionInvInit == Init => SessionInv
BY RunAssumption DEF Init, SessionInv, OneGeneration, ConnOwned, OutOfService, Idle

LEMMA SessionInvStep ==
  ASSUME SerialControl, TypeOK, SessionInv, [Next]_vars
  PROVE  SessionInv'
<1> USE RunAssumption DEF SessionInv, OneGeneration, ConnOwned, Idle
<1>1. CASE Stop
  BY <1>1 DEF Stop, StopTail, HungUp, PropagatesCancel, ConnAlive, LiveConn,
              TypeOK, InService, BeingStopped, OutOfService, ConnState
<1>2. CASE ReconnectStream
  BY <1>2 DEF ReconnectStream, HungUp, ConnAlive, LiveConn, TypeOK, InService,
              BeingStopped, OutOfService, sessionVars, appVars
<1>3. CASE MessageAges
  BY <1>3 DEF MessageAges, InService, BeingStopped, OutOfService, sessionVars, taskVars
<1>4. ASSUME NEW r \in Run, Start(r)
      PROVE  SessionInv'
  BY <1>4 DEF Start, MayStart, TypeOK, InService, BeingStopped, OutOfService
<1>5. ASSUME NEW r \in Run, StopReturns(r)
      PROVE  SessionInv'
  BY <1>5 DEF StopReturns, Gathered, StopTail, TypeOK, InService, BeingStopped,
              OutOfService, taskVars
<1>6. ASSUME NEW r \in Run, Supervisor(r)
      PROVE  SessionInv'
  <2>1. CASE SupervisorBegins(r)
    BY <2>1 DEF SupervisorBegins, Dial, SupervisorEnds, TypeOK, InService,
                BeingStopped, OutOfService
  <2>2. CASE ReapStopped(r)
    BY <2>2 DEF ReapStopped, Reap, EndsOnCancel, SeesCancel, DoneConn,
                SupervisorEnds, TypeOK, InService, BeingStopped, OutOfService, appVars
  <2>3. CASE ReapAnnounce(r)
    BY <2>3 DEF ReapAnnounce, Reap, EndsOnCancel, SeesCancel, DoneConn, BackOff,
                TypeOK, InService, BeingStopped, OutOfService
  <2>4. CASE ReapQuietly(r)
    BY <2>4 DEF ReapQuietly, Reap, EndsOnCancel, SeesCancel, DoneConn, BackOff,
                TypeOK, InService, BeingStopped, OutOfService
  <2>5. CASE DropPublished(r)
    BY <2>5 DEF DropPublished, BackOff, SupervisorEnds, TypeOK, InService,
                BeingStopped, OutOfService, appVars
  <2>6. CASE SleepEnds(r)
    BY <2>6 DEF SleepEnds, Dial, SupervisorEnds, TypeOK, InService, BeingStopped,
                OutOfService
  <2> QED
    BY <1>6, <2>1, <2>2, <2>3, <2>4, <2>5, <2>6 DEF Supervisor
<1>7. ASSUME NEW r \in Run, Connection(r)
      PROVE  SessionInv'
  BY <1>7 DEF Connection, ConnSubscribed, ConnMessage, ConnFails, ConnDone,
              RestOfConn, TypeOK, InService, BeingStopped, OutOfService,
              sessionVars, appVars
<1>8. ASSUME NEW r \in Run, Announcer(r)
      PROVE  SessionInv'
  <2>1. UNCHANGED <<running, tasks, current, stopping, sup, cancelling, conn,
                    watchdog, stream_status>>
    BY <1>8 DEF Announcer, AnnouncerPolls, AnnouncerPublished, appVars
  <2>2. \A q \in Run : announcer'[q] # "none" => announcer[q] # "none"
    BY <1>8 DEF Announcer, AnnouncerPolls, AnnouncerPublished, TypeOK
  <2> QED
    BY <2>1, <2>2 DEF InService, BeingStopped, OutOfService
<1>9. ASSUME NEW r \in Run, Watchdog(r)
      PROVE  SessionInv'
  BY <1>9 DEF Watchdog, WatchdogChecks, WatchdogCuts, WatchdogTrips,
              ForceDisconnect, HungUp, ConnAlive, LiveConn, TypeOK, InService,
              BeingStopped, OutOfService, appVars
<1>10. CASE UNCHANGED vars
  BY <1>10 DEF vars, sessionVars, taskVars, appVars, InService, BeingStopped,
               OutOfService
<1> QED
  BY <1>1, <1>2, <1>3, <1>4, <1>5, <1>6, <1>7, <1>8, <1>9, <1>10 DEF Next

LEMMA SessionInvariant == SerialControl => (Spec => []SessionInv)
<1> SUFFICES ASSUME SerialControl
             PROVE  Spec => []SessionInv
  OBVIOUS
<1>1. TypeOK /\ SessionInv /\ [Next]_vars => SessionInv'
  BY SessionInvStep
<1> QED
  BY <1>1, SessionInvInit, TypeCorrect, PTL DEF Spec

\* When start() and stop() calls do not overlap there is one supervisor and
\* one connection, and stop() and force_disconnect() can reach them.
THEOREM OneSessionHolds == SerialControl => (Spec => []OneSession)
<1>1. SessionInv => OneSession
  BY DEF SessionInv, OneGeneration, ConnOwned, OneSession, Idle, ConnAlive, LiveConn
<1> QED
  BY <1>1, SessionInvariant, PTL

\* When start() and stop() calls do not overlap, a stop() that has returned
\* has left no task, no connection and no status but "disconnected".
THEOREM StoppedIsQuietHolds == SerialControl => (Spec => []StoppedIsQuiet)
<1>1. SessionInv => StoppedIsQuiet
  BY RunAssumption
  DEF SessionInv, OneGeneration, StoppedIsQuiet, InService, BeingStopped, OutOfService
<1> QED
  BY <1>1, SessionInvariant, PTL

-----------------------------------------------------------------------------
(* What the session says of itself.  Only a session in service says anything; *)
(* one being stopped ends at whatever its supervisor is woken by.             *)

\* The status belongs to the attempt the supervisor awaits.
StatusKept ==
  /\ \A r \in Run : conn[r] \in {"subscribed", "reading"} => stream_status = "connected"
  /\ \A r \in Run : conn[r] = "opening" =>
                     stream_status # "connected" /\ attempt[r] = "dialled"
  /\ stream_status = "connected" => sup[tasks] = "await" /\ attempt[tasks] # "dialled"

\* _conn_established is what the announcer made of the latest attempt.
FlagKept ==
  /\ sup[tasks] \in {"new", "sleep"} => conn_established = FALSE
  /\ sup[tasks] \in {"await", "publish"} =>
       (conn_established = TRUE <=> attempt[tasks] = "observed")

\* After a drop event, _drop_announced is set or the supervisor has still to.
DropKept ==
  /\ lastEvent = "dropped" =>
       was_connected = TRUE /\ (drop_announced = TRUE \/ sup[tasks] = "publish")
  /\ \A r \in Run : announcer[r] \in {"reconnected", "recovered"} => lastEvent # "dropped"

SpeechInv == running => StatusKept /\ FlagKept /\ DropKept

LEMMA SpeechInvStep ==
  ASSUME SerialControl, TypeOK, SessionInv, SpeechInv, [Next]_vars
  PROVE  SpeechInv'
<1> SUFFICES ASSUME running'
             PROVE  StatusKept' /\ FlagKept' /\ DropKept'
  BY DEF SpeechInv
<1>1. ASSUME NEW r \in Run, Start(r)
      PROVE  StatusKept' /\ FlagKept' /\ DropKept'
  <2>1. OutOfService
    BY <1>1 DEF Start, MayStart, SessionInv, InService, BeingStopped
  <2>2. \A q \in Run : conn[q] = "none" /\ announcer[q] = "none"
    BY <2>1, RunAssumption DEF OutOfService, SessionInv, OneGeneration, Idle
  <2>3. sup'[r] = "new" /\ tasks' = r
    BY <1>1 DEF Start, TypeOK
  <2> QED
    BY <1>1, <2>2, <2>3 DEF Start, StatusKept, FlagKept, DropKept
<1>2. CASE ~running
  BY <1>1, <1>2
  DEF Next, Stop, ReconnectStream, MessageAges, StopReturns, Supervisor, SupervisorBegins,
      ReapStopped, ReapAnnounce, ReapQuietly, DropPublished, SleepEnds, Connection,
      ConnSubscribed, ConnMessage, ConnFails, ConnDone, RestOfConn, Announcer, AnnouncerPolls,
      AnnouncerPublished, Watchdog, WatchdogChecks, WatchdogCuts, vars, sessionVars
<1>3. CASE running
  <2>1. InService /\ StatusKept /\ FlagKept /\ DropKept
    BY <1>3 DEF SpeechInv, SessionInv, BeingStopped, OutOfService
  <2>2. /\ tasks \in Run /\ tasks \notin cancelling
        /\ \A r \in Run : r # tasks => Idle(r)
        /\ \A r \in Run : /\ conn[r] # "none" <=> sup[r] = "await"
                          /\ announcer[r] # "none" => sup[r] = "await"
    BY <2>1 DEF SessionInv, InService, OneGeneration, ConnOwned
  <2> USE <1>3, <2>1, <2>2 DEF Idle
  <2>3. CASE Stop
    BY <2>3 DEF Stop
  <2>4. CASE ReconnectStream
    BY <2>2, <2>4 DEF ReconnectStream, HungUp, sessionVars, appVars, ghostVars, TypeOK,
                      StatusKept, FlagKept, DropKept
  <2>5. CASE MessageAges
    BY <2>2, <2>5 DEF MessageAges, sessionVars, taskVars, ghostVars, StatusKept, FlagKept,
                      DropKept
  <2>6. ASSUME NEW r \in Run, StopReturns(r)
        PROVE  StatusKept' /\ FlagKept' /\ DropKept'
    <3>1. running /\ stopping # {}
      BY <2>6 DEF StopReturns
    <3> QED
      BY <3>1 DEF SessionInv, InService, BeingStopped, OutOfService
  <2>7. ASSUME NEW r \in Run, Supervisor(r)
        PROVE  StatusKept' /\ FlagKept' /\ DropKept'
    <3>1. /\ running /\ UNCHANGED tasks /\ sup[r] # "none"
      BY <2>7 DEF Supervisor, SupervisorBegins, Reap, ReapStopped, ReapAnnounce, ReapQuietly,
                  DropPublished, SleepEnds
    <3>2. r = tasks /\ r \notin cancelling
      BY <2>2, <3>1
    <3>3. CASE SupervisorBegins(r)
      BY <2>2, <3>1, <3>2, <3>3 DEF SupervisorBegins, Dial, TypeOK, StatusKept, FlagKept,
                                    DropKept
    <3>4. CASE ReapStopped(r)
      BY <3>1, <3>4 DEF ReapStopped, EndsOnCancel
    <3>5. CASE ReapAnnounce(r)
      BY <2>2, <3>1, <3>2, <3>5 DEF ReapAnnounce, Reap, MarkReconnecting, BackOff, Unannounced,
                                    TypeOK, StatusKept, FlagKept, DropKept
    <3>6. CASE ReapQuietly(r)
      BY <2>2, <3>1, <3>2, <3>6 DEF ReapQuietly, Reap, MarkReconnecting, BackOff, Unannounced,
                                    ghostVars, TypeOK, StatusKept, FlagKept, DropKept
    <3>7. CASE DropPublished(r)
      BY <2>2, <3>1, <3>2, <3>7 DEF DropPublished, BackOff, appVars, ghostVars, TypeOK,
                                    StatusKept, FlagKept, DropKept
    <3>8. CASE SleepEnds(r)
      BY <2>2, <3>1, <3>2, <3>8 DEF SleepEnds, Dial, TypeOK, StatusKept, FlagKept, DropKept
    <3> QED
      BY <2>7, <3>3, <3>4, <3>5, <3>6, <3>7, <3>8 DEF Supervisor
  <2>8. ASSUME NEW r \in Run, Connection(r)
        PROVE  StatusKept' /\ FlagKept' /\ DropKept'
    <3>1. running /\ UNCHANGED <<RestOfConn, tasks, sup>> /\ conn[r] # "none"
      BY <2>8 DEF Connection, ConnSubscribed, ConnMessage, ConnFails, ConnDone, RestOfConn,
                  sessionVars
    <3>2. r = tasks /\ sup[r] = "await"
      BY <2>2, <3>1
    <3> QED
      BY <2>2, <2>8, <3>1, <3>2
      DEF Connection, ConnSubscribed, ConnMessage, ConnFails, ConnDone, RestOfConn,
          sessionVars, appVars, TypeOK, StatusKept, FlagKept, DropKept
  <2>9. ASSUME NEW r \in Run, Announcer(r)
        PROVE  StatusKept' /\ FlagKept' /\ DropKept'
    <3>1. running /\ UNCHANGED <<tasks, sup, conn, stream_status>> /\ announcer[r] # "none"
      BY <2>9 DEF Announcer, AnnouncerPolls, AnnouncerPublished, appVars
    <3>2. r = tasks /\ sup[r] = "await"
      BY <2>2, <3>1
    <3>3. CASE AnnouncerPolls(r)
      <4>1. /\ stream_status = "connected" /\ conn_established' = TRUE
            /\ attempt' = [attempt EXCEPT ![r] = "observed"]
        BY <3>1, <3>3 DEF AnnouncerPolls
      <4>2. attempt'[r] = "observed"
        BY <4>1 DEF TypeOK
      <4>3. StatusKept'
        BY <3>1, <3>2, <4>1, <4>2 DEF StatusKept
      <4>4. FlagKept'
        BY <3>1, <3>2, <4>1, <4>2 DEF FlagKept
      <4>5. CASE ~was_connected
        <5>1. was_connected' = TRUE /\ lastEvent' = lastEvent /\ lastEvent # "dropped"
          BY <3>1, <3>3, <4>5 DEF AnnouncerPolls, DropKept
        <5> QED
          BY <4>3, <4>4, <5>1 DEF DropKept
      <4>6. CASE was_connected
        <5>1. lastEvent' \in {"reconnected", "recovered"}
          BY <3>1, <3>3, <4>6 DEF AnnouncerPolls
        <5> QED
          BY <4>3, <4>4, <5>1 DEF DropKept
      <4> QED
        BY <4>5, <4>6
    <3>4. CASE AnnouncerPublished(r)
      BY <2>2, <3>1, <3>2, <3>4
      DEF AnnouncerPublished, RecoveryPublished, appVars, ghostVars, TypeOK, StatusKept,
          FlagKept, DropKept
    <3> QED
      BY <2>9, <3>3, <3>4 DEF Announcer
  <2>10. ASSUME NEW r \in Run, Watchdog(r)
         PROVE  StatusKept' /\ FlagKept' /\ DropKept'
    BY <2>2, <2>10 DEF Watchdog, WatchdogChecks, WatchdogCuts, ForceDisconnect, HungUp,
                       appVars, ghostVars, TypeOK, StatusKept, FlagKept, DropKept
  <2>11. CASE UNCHANGED vars
    BY <2>2, <2>11 DEF vars, sessionVars, taskVars, appVars, ghostVars, StatusKept, FlagKept,
                       DropKept
  <2> QED
    BY <1>1, <2>3, <2>4, <2>5, <2>6, <2>7, <2>8, <2>9, <2>10, <2>11 DEF Next
<1> QED
  BY <1>2, <1>3

LEMMA SpeechInvariant == SerialControl => (Spec => []SpeechInv)
<1> SUFFICES ASSUME SerialControl
             PROVE  Spec => []SpeechInv
  OBVIOUS
<1>1. Init => SpeechInv
  BY DEF Init, SpeechInv
<1>2. TypeOK /\ SessionInv /\ SpeechInv /\ [Next]_vars => SpeechInv'
  BY SpeechInvStep
<1> QED
  BY <1>1, <1>2, SessionInvariant, TypeCorrect, PTL DEF Spec

\* When start() and stop() calls do not overlap, /ready and /admin/status show a
\* running session "connected" exactly of the attempt that is.
THEOREM StatusHonestHolds == SerialControl => (Spec => []StatusHonest)
<1>1. SessionInv /\ SpeechInv => StatusHonest
  BY DEF SessionInv, InService, BeingStopped, OutOfService, SpeechInv, StatusKept, StatusHonest
<1> QED
  BY <1>1, SessionInvariant, SpeechInvariant, PTL

\* A supervisor that goes on after its connection is one in service.
LEMMA GoesOnInService ==
  ASSUME SessionInv, NEW r \in Run, sup[r] \in {"await", "publish"},
         ReapAnnounce(r) \/ ReapQuietly(r) \/ (DropPublished(r) /\ r \notin cancelling)
  PROVE  running /\ r = tasks
<1>1. r = tasks
  BY DEF SessionInv, OneGeneration, Idle
<1>2. ~BeingStopped
  BY <1>1 DEF BeingStopped, ReapAnnounce, ReapQuietly, DropPublished, Reap, DoneConn,
              EndsOnCancel, SeesCancel
<1>3. ~OutOfService
  BY <1>1, RunAssumption DEF OutOfService
<1> QED
  BY <1>1, <1>2, <1>3 DEF SessionInv, InService

\* When start() and stop() calls do not overlap, the supervisor does not publish
\* gateway_session_dropped again before a recovery has been published.
THEOREM DropsNeverRepeatHolds == SerialControl => (Spec => DropsNeverRepeat)
<1> SUFFICES ASSUME SerialControl
             PROVE  Spec => DropsNeverRepeat
  OBVIOUS
<1>1. SessionInv /\ SpeechInv => \A r \in Run : ReapAnnounce(r) => lastEvent # "dropped"
  <2> SUFFICES ASSUME SessionInv, SpeechInv, NEW r \in Run, ReapAnnounce(r)
               PROVE  lastEvent # "dropped"
    OBVIOUS
  <2>1. sup[r] = "await" /\ ~drop_announced
    BY DEF ReapAnnounce, Reap, Unannounced
  <2>2. running /\ r = tasks
    BY <2>1, GoesOnInService
  <2> QED
    BY <2>1, <2>2 DEF SpeechInv, DropKept
<1> QED
  BY <1>1, SessionInvariant, SpeechInvariant, PTL DEF DropsNeverRepeat

\* When start() and stop() calls do not overlap, _supervisor_loop() restarts its
\* backoff after the attempts _announce_connected() saw connected and no others.
THEOREM BackoffEarnedHolds == SerialControl => (Spec => BackoffEarned)
<1> DEFINE A == \A r \in Run : sup[r] # "sleep" /\ sup'[r] = "sleep" =>
                  backoff'[r] = IF attempt[r] = "observed" THEN 1 ELSE backoff[r]
<1> SUFFICES ASSUME SerialControl
             PROVE  Spec => [][A]_vars
  BY DEF BackoffEarned
<1>1. TypeOK /\ SessionInv /\ SpeechInv /\ [Next]_vars => [A]_vars
  <2> SUFFICES ASSUME TypeOK, SessionInv, SpeechInv, [Next]_vars, NEW r \in Run,
                      sup[r] # "sleep", sup'[r] = "sleep"
               PROVE  backoff'[r] = IF attempt[r] = "observed" THEN 1 ELSE backoff[r]
    OBVIOUS
  <2>1. PICK q \in Run : Supervisor(q) \/ Start(q)
    BY DEF Next, Stop, ReconnectStream, MessageAges, StopReturns, Connection,
           ConnSubscribed, ConnMessage, ConnFails, ConnDone, RestOfConn, Announcer,
           AnnouncerPolls, AnnouncerPublished, Watchdog, WatchdogChecks, WatchdogCuts, vars,
           sessionVars, taskVars
  <2>2. /\ sup[r] \in {"await", "publish"} /\ BackOff(r)
        /\ ReapAnnounce(r) \/ ReapQuietly(r) \/ (DropPublished(r) /\ r \notin cancelling)
    BY <2>1 DEF Supervisor, Start, SupervisorBegins, Dial, SupervisorEnds, Reap, ReapStopped,
                ReapAnnounce, ReapQuietly, DropPublished, SleepEnds, BackOff, TypeOK
  <2>3. running /\ r = tasks
    BY <2>2, GoesOnInService
  <2>4. conn_established = TRUE <=> attempt[r] = "observed"
    BY <2>2, <2>3 DEF SpeechInv, FlagKept
  <2> QED
    BY <2>2, <2>4 DEF BackOff, TypeOK
<1> QED
  BY <1>1, SessionInvariant, SpeechInvariant, TypeCorrect, PTL DEF Spec

-----------------------------------------------------------------------------
(* The session keeps the promise of SingleLink.                              *)

\* All the links there are: the one of the generation in _tasks.
OneLink ==
  /\ Links = IF tasks \in Run /\ ConnAlive(tasks) THEN {<<tasks, LinkPhase(tasks)>>} ELSE {}
  /\ tasks \in Run => LinkPhase(tasks) = CASE conn[tasks] = "opening" -> "opening"
                                           [] conn[tasks] \in {"subscribed", "reading"} -> "open"
                                           [] OTHER -> "closing"

LEMMA SessionHasOneLink == SessionInv => OneLink
<1> SUFFICES ASSUME SessionInv
             PROVE  OneLink
  OBVIOUS
<1>1. {q \in Run : ConnAlive(q)} = IF tasks \in Run /\ ConnAlive(tasks) THEN {tasks} ELSE {}
  BY DEF SessionInv, OneGeneration, Idle, ConnAlive, LiveConn
<1> QED
  BY <1>1 DEF OneLink, Links, LinkPhase

LEMMA LinkStep ==
  ASSUME SerialControl, TypeOK, SessionInv, SessionInv', [Next]_vars
  PROVE  [Link!Next]_<<running, Active, Links>>
<1>1. OneLink /\ OneLink'
  BY SessionHasOneLink, PTL
<1>2. ASSUME UNCHANGED <<running, stopping, Links>>
      PROVE  UNCHANGED <<running, Active, Links>>
  BY <1>2 DEF Active
\* The connection of the generation in _tasks changes, and nothing else does.
<1>3. ASSUME UNCHANGED <<running, stopping, tasks>>, tasks \in Run
      PROVE  /\ UNCHANGED <<running, Active>>
             /\ conn'[tasks] = conn[tasks] => UNCHANGED Links
             /\ \A old, new \in {"opening", "open", "closing"} :
                  ConnAlive(tasks) /\ LinkPhase(tasks) = old /\ ConnAlive(tasks)' /\ LinkPhase(tasks)' = new
                    => Links = {<<tasks, old>>} /\ Links' = {<<tasks, new>>}
             /\ ~ConnAlive(tasks) => Links = {}
             /\ ~ConnAlive(tasks)' => Links' = {}
  BY <1>1, <1>3 DEF Active, OneLink, ConnAlive
<1>4. CASE Stop
  <2>1. running /\ running' = FALSE /\ InService /\ tasks \in Run
    BY <1>4 DEF Stop, SessionInv, InService, BeingStopped, OutOfService
  <2>2. /\ tasks' = tasks /\ stopping' # {}
        /\ conn'[tasks] = IF ConnAlive(tasks) THEN "cancelling" ELSE conn[tasks]
    BY <1>4, <2>1, RunAssumption
    DEF Stop, HungUp, PropagatesCancel, SessionInv, ConnOwned, InService, ConnAlive, LiveConn
  <2>3. Links' = {<<l[1], "closing">> : l \in Links}
    <3>1. CASE ConnAlive(tasks)
      <4>1. ConnAlive(tasks)' /\ LinkPhase(tasks)' = "closing"
        BY <1>1, <2>1, <2>2, <3>1 DEF OneLink, ConnAlive, LiveConn
      <4>2. Links' = {<<tasks, "closing">>} /\ \E p : Links = {<<tasks, p>>}
        BY <1>1, <2>1, <2>2, <3>1, <4>1 DEF OneLink
      <4> QED
        BY <4>2
    <3>2. CASE ~ConnAlive(tasks)
      BY <1>1, <2>1, <2>2, <3>2 DEF OneLink, ConnAlive
    <3> QED
      BY <3>1, <3>2
  <2>4. Active /\ Active'
    BY <2>1, <2>2 DEF Active
  <2>5. Link!Stop
    BY <2>1, <2>3, <2>4 DEF Link!Stop
  <2> QED
    BY <2>5 DEF Link!Next
<1>5. ASSUME NEW r \in Run, Start(r)
      PROVE  Link!Start
  <2>1. OutOfService /\ running' = TRUE /\ tasks' = r /\ UNCHANGED <<stopping, conn>> /\ conn[r] = "none"
    BY <1>5 DEF Start, MayStart, Idle, SessionInv, InService, BeingStopped
  <2>2. Links = {} /\ Links' = {}
    BY <1>1, <2>1, RunAssumption DEF OneLink, OutOfService, ConnAlive, LiveConn
  <2> QED
    BY <2>1, <2>2 DEF OutOfService, Active, Link!Start
<1>6. ASSUME NEW r \in Run, StopReturns(r)
      PROVE  Link!Quiesce
  <2>1. /\ BeingStopped /\ tasks = r /\ sup[r] = "none" /\ stopping' = {} /\ UNCHANGED <<running, conn>>
        /\ tasks' = NoRun
    BY <1>6 DEF StopReturns, StopTail, Gathered, taskVars, SessionInv, InService, BeingStopped,
                OutOfService
  <2>2. Links = {} /\ Links' = {}
    BY <1>1, <2>1, RunAssumption DEF OneLink, ConnAlive, LiveConn, SessionInv, ConnOwned
  <2> QED
    BY <2>1, <2>2 DEF BeingStopped, Active, Link!Quiesce
<1>7. ASSUME UNCHANGED <<running, stopping, tasks>>, tasks \in Run,
             ConnAlive(tasks) /\ conn'[tasks] \in {"failing", "cancelling"}
      PROVE  [Link!Next]_<<running, Active, Links>>
  <2>1. ConnAlive(tasks)' /\ LinkPhase(tasks)' = "closing"
    BY <1>1, <1>7 DEF ConnAlive, LiveConn, OneLink
  <2>2. LinkPhase(tasks) \in {"opening", "open", "closing"}
    BY DEF LinkPhase
  <2>3. CASE LinkPhase(tasks) = "closing"
    BY <1>3, <1>7, <2>1, <2>3
  <2>4. CASE LinkPhase(tasks) \in {"opening", "open"}
    <3>1. Link!Drop
      BY <1>3, <1>7, <2>1, <2>4 DEF Link!Drop
    <3> QED
      BY <3>1 DEF Link!Next
  <2> QED
    BY <2>2, <2>3, <2>4
<1>8. ASSUME UNCHANGED <<running, stopping, tasks>>, running, tasks \in Run,
             ~ConnAlive(tasks), conn'[tasks] = "opening"
      PROVE  Link!Dial
  <2>1. ConnAlive(tasks)' /\ LinkPhase(tasks)' = "opening"
    BY <1>1, <1>8 DEF ConnAlive, LiveConn, OneLink
  <2>2. Links = {} /\ Links' = {<<tasks, "opening">>}
    BY <1>1, <1>8, <2>1 DEF OneLink
  <2> QED
    BY <1>3, <1>8, <2>2 DEF Link!Dial
<1>9. ASSUME NEW r \in Run, Supervisor(r)
      PROVE  [Link!Next]_<<running, Active, Links>>
  <2>1. /\ UNCHANGED <<running, stopping, tasks>> /\ r = tasks /\ ~ConnAlive(r)
        /\ \/ conn'[r] = conn[r]
           \/ conn'[r] = "none"
           \/ running /\ conn'[r] = "opening"
    BY <1>9 DEF Supervisor, SupervisorBegins, Dial, Reap, DoneConn, ReapStopped, ReapAnnounce,
                ReapQuietly, DropPublished, SleepEnds, SessionInv, OneGeneration, ConnOwned,
                Idle, ConnAlive, LiveConn, TypeOK
  <2>2. CASE conn'[r] \in {conn[r], "none"}
    BY <1>3, <2>1, <2>2 DEF ConnAlive, LiveConn
  <2>3. CASE running /\ conn'[r] = "opening"
    BY <1>8, <2>1, <2>3 DEF Link!Next
  <2> QED
    BY <2>1, <2>2, <2>3
<1>10. ASSUME NEW r \in Run, Connection(r)
       PROVE  [Link!Next]_<<running, Active, Links>>
  <2>1. UNCHANGED <<running, stopping, tasks>> /\ r = tasks /\ ConnAlive(r)
    BY <1>10 DEF Connection, ConnSubscribed, ConnMessage, ConnFails, ConnDone, RestOfConn,
                 sessionVars, SessionInv, OneGeneration, Idle, ConnAlive, LiveConn
  <2>2. CASE ConnSubscribed(r)
    <3>1. conn[r] = "opening" /\ conn'[r] = "subscribed"
      BY <2>2 DEF ConnSubscribed, TypeOK
    <3>2. Links = {<<r, "opening">>} /\ Links' = {<<r, "open">>}
      BY <1>1, <2>1, <3>1 DEF OneLink, ConnAlive, LiveConn
    <3>3. CASE running
      BY <1>3, <2>1, <3>2, <3>3 DEF Link!Open, Link!Next
    <3>4. CASE ~running
      <4>1. BeingStopped
        BY <2>1, <3>4, RunAssumption DEF SessionInv, InService, OutOfService
      <4>2. sup[tasks] = "await" /\ conn[tasks] = "opening"
        BY <2>1, <3>1 DEF SessionInv, ConnOwned
      <4> QED
        BY <4>1, <4>2 DEF BeingStopped
    <3> QED
      BY <3>3, <3>4
  <2>3. CASE ConnMessage(r)
    <3>1. conn[r] \in {"subscribed", "reading"} /\ conn'[r] = "reading"
      BY <2>3 DEF ConnMessage, TypeOK
    <3>2. Links = {<<r, "open">>} /\ Links' = {<<r, "open">>}
      BY <1>1, <2>1, <3>1 DEF OneLink, ConnAlive, LiveConn
    <3> QED
      BY <1>3, <2>1, <3>2
  <2>4. CASE ConnFails(r)
    BY <1>7, <2>1, <2>4 DEF ConnFails, TypeOK
  <2>5. CASE ConnDone(r)
    <3>1. conn[r] \in {"failing", "cancelling"} /\ conn'[r] \in {"failed", "cancelled"}
      BY <2>5 DEF ConnDone, TypeOK
    <3>2. Links = {<<r, "closing">>} /\ Links' = {}
      BY <1>1, <2>1, <3>1 DEF OneLink, ConnAlive, LiveConn
    <3> QED
      BY <1>3, <2>1, <3>2 DEF Link!Closed, Link!Next
  <2> QED
    BY <1>10, <2>2, <2>3, <2>4, <2>5 DEF Connection
<1>11. CASE ReconnectStream
  <2>1. /\ UNCHANGED <<running, stopping, tasks>> /\ current \in Run /\ ConnAlive(current)
        /\ conn' = HungUp({current})
    BY <1>11 DEF ReconnectStream, sessionVars
  <2>2. current = tasks
    BY <2>1, RunAssumption DEF SessionInv, ConnOwned
  <2>3. conn'[tasks] = "cancelling"
    BY <2>1, <2>2 DEF HungUp
  <2> QED
    BY <1>7, <2>1, <2>2, <2>3
<1>12. ASSUME NEW r \in Run, Watchdog(r)
       PROVE  [Link!Next]_<<running, Active, Links>>
  <2>1. /\ UNCHANGED <<running, stopping, tasks, current>>
        /\ \/ UNCHANGED conn
           \/ current \in Run /\ ConnAlive(current) /\ conn' = HungUp({current})
    BY <1>12 DEF Watchdog, WatchdogChecks, WatchdogCuts, ForceDisconnect
  <2>2. CASE UNCHANGED conn
    <3>1. UNCHANGED Links
      BY <2>2 DEF Links, LinkPhase, ConnAlive
    <3> QED
      BY <1>2, <2>1, <3>1
  <2>3. CASE current \in Run /\ ConnAlive(current) /\ conn' = HungUp({current})
    <3>1. current = tasks
      BY <2>3, RunAssumption DEF SessionInv, ConnOwned
    <3>2. conn'[tasks] = "cancelling"
      BY <2>3, <3>1 DEF HungUp
    <3> QED
      BY <1>7, <2>1, <2>3, <3>1, <3>2
  <2> QED
    BY <2>1, <2>2, <2>3
<1>13. CASE MessageAges \/ (\E r \in Run : Announcer(r)) \/ UNCHANGED vars
  <2>1. UNCHANGED <<running, stopping, conn>>
    BY <1>13 DEF MessageAges, Announcer, AnnouncerPolls, AnnouncerPublished, vars, sessionVars,
                 taskVars
  <2>2. UNCHANGED Links
    BY <2>1 DEF Links, LinkPhase, ConnAlive
  <2> QED
    BY <1>2, <2>1, <2>2
<1> QED
  BY <1>4, <1>5, <1>6, <1>9, <1>10, <1>11, <1>12, <1>13 DEF Next, Link!Next

\* When start() and stop() calls do not overlap, the session implements
\* SingleLink: it dials only while the stream is wanted and no other connection
\* exists, and stop() is over only when the connection is gone.
THEOREM KeepsLinkPromiseHolds == SerialControl => (Spec => KeepsLinkPromise)
<1> SUFFICES ASSUME SerialControl
             PROVE  Spec => KeepsLinkPromise
  OBVIOUS
<1>1. Init => Link!Init
  BY DEF Init, Link!Init, Active, Links, ConnAlive, LiveConn
<1>2. TypeOK /\ SessionInv /\ SessionInv' /\ [Next]_vars
        => [Link!Next]_<<running, Active, Links>>
  BY LinkStep
<1> QED
  BY <1>1, <1>2, SessionInvariant, TypeCorrect, PTL
  DEF Spec, KeepsLinkPromise, Link!Spec, Link!linkVars
=============================================================================
