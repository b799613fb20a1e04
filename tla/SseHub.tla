------------------------------- MODULE SseHub -------------------------------
(* The SSE hub: subscribe(), unsubscribe() and broadcast() of core/state.py, *)
(* and the generators of services/stream_routes.py that drain its queues.    *)
(*                                                                           *)
(* A generator is suspended before its first step, in queue.get() or in a    *)
(* yield.  The 1 s timeout of the get, and the heartbeat, change nothing.    *)
EXTENDS Naturals, Sequences

CONSTANTS
  Consumer,   \* GETs of /stream/...
  Sport,      \* the sports with a channel of their own
  MaxQueue    \* maxsize of a subscriber's queue: 512

ASSUME QueueAssumption == MaxQueue \in Nat \ {0} /\ "all" \notin Sport

Channel == Sport \cup {"all"}

VARIABLES
  subscribers,  \* subscribers[ch]: the consumers whose queues are listed there
  channel,      \* channel[c]: what c asked for
  gen,          \* gen[c]: where c's generator is
  queue,        \* queue[c]: its queue
  held,         \* held[c]: the event its generator took and has not yet sent
  gone,         \* the consumers whose client is gone
  owed,         \* owed[c]: what c must still be told, while nothing was dropped
  full,         \* the consumers whose queue was full at a broadcast
  shown         \* shown[c]: the last market event c was sent, by its tv

hubVars == <<subscribers, channel, gen, queue, held, gone, owed, full, shown>>

HubInit ==
  /\ subscribers = [ch \in Channel |-> {}]
  /\ channel = [c \in Consumer |-> "none"] /\ gen = [c \in Consumer |-> "none"]
  /\ queue = [c \in Consumer |-> <<>>] /\ held = [c \in Consumer |-> <<>>]
  /\ gone = {} /\ full = {}
  /\ owed = [c \in Consumer |-> <<>>] /\ shown = [c \in Consumer |-> 0]

-----------------------------------------------------------------------------
\* The handler: subscribe(), and a generator nobody has run yet.
Subscribe(c, ch) ==
  /\ gen[c] = "none"
  /\ gen' = [gen EXCEPT ![c] = "made"]
  /\ channel' = [channel EXCEPT ![c] = ch]
  /\ subscribers' = [subscribers EXCEPT ![ch] = @ \cup {c}]
  /\ UNCHANGED <<queue, held, gone, owed, full, shown>>

\* Mutant: the queue is a stack.
PutOnTop(q, event) == IF Len(q) < MaxQueue THEN <<event>> \o q ELSE q

\* put_nowait(), or QueueFull and the event is dropped.
Put(q, event) == IF Len(q) < MaxQueue THEN Append(q, event) ELSE q

\* Mutant: only the channel itself.
PutsOwnOnly(c, ch) == IF c \in subscribers[ch] THEN 1 ELSE 0

\* How often broadcast() puts an event on c's queue: for its channel and for
\* "all", which are the same for an event on "all".
Puts(c, ch) ==
  (IF c \in subscribers[ch] THEN 1 ELSE 0) + (IF c \in subscribers["all"] THEN 1 ELSE 0)

\* What a subscription promises: its sport's events once, and on "all" the
\* events of every sport once and the events broadcast on "all" twice.
Due(c, ch) == IF channel[c] = "all" /\ ch = "all" THEN 2
              ELSE IF channel[c] \in {ch, "all"} THEN 1 ELSE 0

Times(n, event) == [i \in 1..n |-> event]

Broadcast(ch, event) ==
  /\ queue' = [c \in Consumer |->
                 LET once == Put(queue[c], event)
                 IN CASE Puts(c, ch) = 0 -> queue[c]
                      [] Puts(c, ch) = 1 -> once
                      [] OTHER -> Put(once, event)]
  /\ full' = full \cup {c \in Consumer : /\ c \in UNION {subscribers[d] : d \in Channel}
                                         /\ Len(queue[c]) + Puts(c, ch) > MaxQueue}
  /\ owed' = [c \in Consumer |->
                IF c \in full' \/ gen[c] \in {"none", "done"} THEN <<>>
                ELSE owed[c] \o Times(Due(c, ch), event)]
  /\ UNCHANGED <<subscribers, channel, gen, held, gone, shown>>

\* The response is iterated for the first time.
Begin(c) ==
  /\ gen[c] = "made"
  /\ gen' = [gen EXCEPT ![c] = "getting"]
  /\ UNCHANGED <<subscribers, channel, queue, held, gone, owed, full, shown>>

\* queue.get() returns.
Get(c) ==
  /\ gen[c] = "getting" /\ queue[c] # <<>>
  /\ held' = [held EXCEPT ![c] = <<Head(queue[c])>>]
  /\ queue' = [queue EXCEPT ![c] = Tail(@)]
  /\ gen' = [gen EXCEPT ![c] = "sending"]
  /\ UNCHANGED <<subscribers, channel, gone, owed, full, shown>>

\* The client took what was yielded.
Sent(c) ==
  /\ gen[c] = "sending" /\ c \notin gone
  /\ shown' = [shown EXCEPT ![c] = IF held[c][1].tv = 0 THEN @ ELSE held[c][1].tv]
  /\ held' = [held EXCEPT ![c] = <<>>]
  /\ owed' = [owed EXCEPT ![c] = IF @ = <<>> THEN @ ELSE Tail(@)]
  /\ gen' = [gen EXCEPT ![c] = "getting"]
  /\ UNCHANGED <<subscribers, channel, queue, gone, full>>

ClientLeaves(c) ==
  /\ gen[c] \in {"made", "getting", "sending"} /\ c \notin gone
  /\ gone' = gone \cup {c}
  /\ UNCHANGED <<subscribers, channel, gen, queue, held, owed, full, shown>>

\* Mutant: the queue stays listed.
UnsubscribedNobody(c) == subscribers

\* unsubscribe() takes this queue, and no other, out of its channel's list.
Unsubscribed(c) == [ch \in Channel |-> subscribers[ch] \ {c}]

\* is_disconnected(), or the cancelled yield: the generator ends, and its
\* `finally` unsubscribes.
Leaves(c) ==
  /\ gen[c] \in {"getting", "sending"} /\ c \in gone
  /\ gen' = [gen EXCEPT ![c] = "done"]
  /\ subscribers' = Unsubscribed(c)
  /\ queue' = [queue EXCEPT ![c] = <<>>]
  /\ held' = [held EXCEPT ![c] = <<>>]
  /\ owed' = [owed EXCEPT ![c] = <<>>]
  /\ UNCHANGED <<channel, gone, full, shown>>

Serves(c) == Get(c) \/ Leaves(c)

HubNext ==
  \E c \in Consumer :
    \/ \E ch \in Channel : Subscribe(c, ch)
    \/ Begin(c) \/ Serves(c) \/ Sent(c) \/ ClientLeaves(c)
=============================================================================
