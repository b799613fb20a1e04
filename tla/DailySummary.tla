---------------------------- MODULE DailySummary ----------------------------
(* The daily summary loop of services/stream_session.py, with the per-day    *)
(* counters of core/state.py and a clock.                                    *)
(*                                                                           *)
(* Time is the UTC clock in ticks; day d is the ticks d*Day to (d+1)*Day - 1.*)
(* The loop computes its wait in whole seconds, Second ticks each.  The      *)
(* counters, which are reset together, are the set of messages they count.   *)
EXTENDS Integers, Sequences

CONSTANTS
  Day,          \* ticks in a day
  Second,       \* ticks in a second
  MinWait,      \* the 60 s the loop waits at least, in ticks
  Latency,      \* bound: how late the event loop resumes a task
  MaxPublish,   \* the timeout of a publish()
  Days,         \* bound: days the clock runs
  MaxMessages   \* bound: messages received

ASSUME ClockAssumption ==
  /\ {Day, Second, MinWait, Latency, MaxPublish, Days, MaxMessages} \subseteq Nat \ {0}
  /\ MinWait % Second = 0 /\ Latency <= Second
  /\ MinWait + 2 * Latency + MaxPublish < Day

VARIABLES
  now,         \* the clock
  running,     \* StreamSession._running
  loop,        \* where the summary loop is suspended
  next_tick,   \* its local: the midnight it waits for
  due,         \* when its sleep is over, or its publish() times out
  payload,     \* its local: the counters as the summary being published has them
  counters,    \* app_state.mcm_count, mcm_count_by_event_type, reconnect_count
  received,    \* messages received since the process started
  overlapped,  \* the messages received while a summary was being published
  told,        \* the messages of the summaries that Pub/Sub confirmed
  unsent,      \* those of the summaries whose publish failed or timed out
  since,       \* the day this session was started
  published    \* published[d]: when this session summarised day d

history == <<received, overlapped, told, unsent>>
summaries == <<since, published>>
vars == <<now, running, loop, next_tick, due, payload, counters, history, summaries>>

Date == 0..(Days - 1)
Today == now \div Day

Init ==
  /\ now = 0 /\ running = FALSE /\ loop = "none" /\ next_tick = 0 /\ due = 0
  /\ payload = {} /\ since = 0
  /\ counters = {} /\ received = 0 /\ overlapped = {} /\ told = {} /\ unsent = {}
  /\ published = [d \in Date |-> <<>>]

-----------------------------------------------------------------------------
\* Mutant: the shorter of the two.
MaxOfSwapped(a, b) == IF a <= b THEN a ELSE b

MaxOf(a, b) == IF a >= b THEN a ELSE b

\* Mutant: no least wait.
WaitExact(until) == Second * ((until - now) \div Second)

\* max(60, int(seconds until then)): whole seconds, rounded down.
Wait(until) == MaxOf(MinWait, Second * ((until - now) \div Second))

\* Mutant: the same time tomorrow.
MidnightDayLater == now + Day

Midnight == (Today + 1) * Day

\* The head of the loop, up to its sleep.
TurnBegins ==
  /\ next_tick' = Midnight
  /\ due' = now + Wait(Midnight)
  /\ loop' = "sleeping"

Start ==
  /\ ~running /\ running' = TRUE
  /\ TurnBegins
  /\ since' = Today
  /\ published' = [d \in Date |-> <<>>]
  /\ UNCHANGED <<now, payload, counters, history>>

\* stop() cancels the loop: its sleep returns, its publish() raises.  The
\* counters stay for the next session's summary.
Stop ==
  /\ running /\ running' = FALSE
  /\ loop' = "none"
  /\ payload' = {}
  /\ UNCHANGED <<now, next_tick, due, counters, history, summaries>>

\* note_message().
NoteMessage ==
  /\ running /\ received < MaxMessages
  /\ received' = received + 1
  /\ counters' = counters \cup {received + 1}
  /\ overlapped' = IF loop = "publishing" THEN overlapped \cup {received + 1}
                                          ELSE overlapped
  /\ UNCHANGED <<now, running, loop, next_tick, due, payload, told, unsent, summaries>>

ForDate == next_tick \div Day - 1

\* Mutant: the counters run on.
ResetNothing == UNCHANGED counters

Reset == counters' = {}

\* The event was published, or its publish failed or timed out, which publish()
\* or _publish_safe() swallows.
Reported(summary) ==
  \/ told' = told \cup summary /\ UNCHANGED unsent
  \/ unsent' = unsent \cup summary /\ UNCHANGED told

\* Mutant: the loop ends with its first summary.
CompletedOnce(summary) ==
  /\ Reported(summary)
  /\ Reset
  /\ loop' = "none" /\ payload' = {}
  /\ UNCHANGED <<next_tick, due>>

\* After the publish, whatever came of it.
Completed(summary) ==
  /\ Reported(summary)
  /\ Reset
  /\ payload' = {}
  /\ TurnBegins

\* The sleep is over: the payload is read and published, which may suspend.
SleepEnds ==
  /\ loop = "sleeping" /\ now >= due
  /\ ForDate \in Date
  /\ published' = [published EXCEPT ![ForDate] = Append(@, now)]
  /\ \/ /\ loop' = "publishing"
        /\ payload' = counters
        /\ due' = now + MaxPublish
        /\ UNCHANGED <<counters, told, unsent, next_tick>>
     \/ Completed(counters)
  /\ UNCHANGED <<now, running, received, overlapped, since>>

\* Back from publish().
PublishEnds ==
  /\ loop = "publishing"
  /\ Completed(payload)
  /\ UNCHANGED <<now, running, received, overlapped, summaries>>

\* The clock advances unless a task's resumption is as late as it gets.
Tick ==
  /\ now < Days * Day
  /\ loop # "none" => now < due + Latency
  /\ now' = now + 1
  /\ UNCHANGED <<running, loop, next_tick, due, payload, counters, history, summaries>>

Next == Start \/ Stop \/ NoteMessage \/ SleepEnds \/ PublishEnds \/ Tick

Spec == Init /\ [][Next]_vars

-----------------------------------------------------------------------------
TypeOK ==
  /\ now \in 0..(Days * Day) /\ running \in BOOLEAN
  /\ loop \in {"none", "sleeping", "publishing"} /\ (running <=> loop # "none")
  /\ next_tick \in 0..((Days + 1) * Day) /\ next_tick % Day = 0
  /\ due \in 0..((Days + 2) * Day)
  /\ received \in 0..MaxMessages
  /\ counters \subseteq 1..received /\ told \cup unsent \subseteq 1..received
  /\ overlapped \subseteq 1..received /\ payload \subseteq counters
  /\ since \in 0..Days
  /\ published \in [Date -> Seq(0..(Days * Day))]

\* A day's summary goes out around its midnight: less than a second before it,
\* for int() cuts the wait short, and at most the least wait after it.
SummaryOnTime ==
  \A d \in Date : \A i \in DOMAIN published[d] :
    /\ published[d][i] > (d + 1) * Day - Second
    /\ published[d][i] <= (d + 1) * Day + MinWait + Latency

\* "Fire gateway_daily_summary at the start of each UTC day": a session
\* summarises a day once.
OneSummaryPerDay == \A d \in Date : Len(published[d]) <= 1

\* A loop that woke early and summarised its day again a minute later does not
\* do so a third time.
AtMostTwice == \A d \in Date : Len(published[d]) <= 2

\* The loop turns to a day only when it has tried to publish the summary of
\* each of the session's days before it, and it is never more than the least
\* wait and a publish behind the clock.
NoDayMissed ==
  running =>
    /\ \A d \in Date : since <= d /\ d < ForDate => published[d] # <<>>
    /\ now <= next_tick + MinWait + MaxPublish + 2 * Latency

\* No message is counted again once its summary's publish has come back, so
\* none is in two of those; and the only messages that neither a published
\* summary nor the counters have are those whose summary failed to go out, and
\* those that arrived while one was being published: the reset after the
\* publish throws both away.  (A stop that cuts a publish leaves the counters,
\* whether or not that summary went out.)
EachCountedOnce ==
  loop # "publishing" =>
    /\ counters \cap told = {} /\ counters \cap unsent = {} /\ told \cap unsent = {}
    /\ (1..received) \ (overlapped \cup unsent) \subseteq counters \cup told
=============================================================================
