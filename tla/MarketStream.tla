---------------------------- MODULE MarketStream ----------------------------
(* The market cache behind the LIVE stream: the change messages Betfair      *)
(* sends on one subscription, _handle_mcm() that applies them and moves the  *)
(* resumption cursor, the maintenance sweep that evicts CLOSED markets, lost *)
(* connections, and restarts of the process.                                 *)
(*                                                                           *)
(* _handle_mcm() is one action.  Its awaits do not suspend: nobody keeps the *)
(* cache's lock or the broadcast lock over a suspension, and the guard's     *)
(* publish() raises before it awaits anything.                               *)
(*                                                                           *)
(* Betfair is external: it keeps a log of changes, the n-th change has clk   *)
(* n, and a price is named by the clk that set it.                           *)
EXTENDS Naturals, Sequences, FiniteSets, SequencesExt

CONSTANTS
  Market,             \* market ids
  MaxClk,             \* bound: how many changes Betfair makes
  MaxInbox,           \* bound: messages in flight to the gateway
  SubscriptionLimit,  \* settings.subscription_limit
  WarnPct             \* settings.subscription_warn_pct, in percent

ASSUME BoundAssumption == MaxClk \in Nat /\ MaxInbox \in Nat \ {0}
ASSUME LimitAssumption == SubscriptionLimit \in Nat /\ WarnPct \in 0..100

VARIABLES
  log,       \* Betfair's changes: a market and whether the change closes it
  link,      \* "up" while a subscription is being read
  inbox,     \* mcm messages sent on it and not yet read
  cache,     \* MarketCache._markets
  clk,       \* stream_client._clk (with _initialClk), 0 for None
  warned,    \* subscription_guard._warned
  announced  \* the last warning raised was published

vars == <<log, link, inbox, cache, clk, warned, announced>>

\* What a market's entry in the cache holds: the status in its definition and
\* the prices of its runners, named by the change that set them.
Definition == {"none", "OPEN", "CLOSED"}
Entry == [def : Definition, price : 0..MaxClk]
NewEntry == [def |-> "none", price |-> 0]

\* One market's part of a message: img, a definition or none, prices or none.
Change == [img : BOOLEAN, def : Definition, price : 0..MaxClk]

-----------------------------------------------------------------------------
(* Betfair.                                                                  *)

ChangesOf(l, m, from, to) == {i \in from..to : l[i].market = m}

LastPrice(l, m, from, to) ==
  LET priced == {i \in ChangesOf(l, m, from, to) : ~l[i].closes}
  IN  IF priced = {} THEN 0 ELSE CHOOSE i \in priced : \A j \in priced : j <= i

HasClosed(l, m, k) == \E i \in ChangesOf(l, m, 1, k) : l[i].closes
HasOpened(l, m, k) == ChangesOf(l, m, 1, k) # {}
IsOpen(l, m, k)    == HasOpened(l, m, k) /\ ~HasClosed(l, m, k)

\* What happened to market m after clk k, merged into one change.  A market
\* that appeared since comes as an image, a definition comes when it changed.
DeltaSince(l, m, k) ==
  [img   |-> ~HasOpened(l, m, k),
   def   |-> IF HasClosed(l, m, Len(l)) THEN "CLOSED"
             ELSE IF HasOpened(l, m, k) THEN "none" ELSE "OPEN",
   price |-> LastPrice(l, m, k + 1, Len(l))]

ResubDelta(l, k) ==
  [m \in {n \in Market : ChangesOf(l, n, k + 1, Len(l)) # {}} |-> DeltaSince(l, m, k)]

SubImage(l) == [m \in {n \in Market : IsOpen(l, n, Len(l))} |-> DeltaSince(l, m, 0)]

Message(ct, changes, seg) ==
  [ct |-> ct, mc |-> changes, segmentType |-> seg, clk |-> Len(log)]

\* An update goes out whole or in two segments.
Segmentations(ct, update) ==
  {<<Message(ct, update, "none")>>} \cup
  {<<Message(ct, [m \in S |-> update[m]], "SEG_START"),
     Message(ct, [m \in DOMAIN update \ S |-> update[m]], "SEG_END")>> :
       S \in (SUBSET DOMAIN update) \ {{}, DOMAIN update}}

\* Betfair's answer to the subscription: everything it has, or with a clk that
\* it still serves what changed since.
Answers == Segmentations("SUB_IMAGE", SubImage(log)) \cup
           IF clk = 0 THEN {} ELSE Segmentations("RESUB_DELTA", ResubDelta(log, clk))

\* Betfair opens or prices a market, or closes it; a subscriber is sent it.
BetfairChanges(m, closes) ==
  /\ Len(log) < MaxClk
  /\ IF closes THEN IsOpen(log, m, Len(log)) ELSE ~HasClosed(log, m, Len(log))
  /\ log' = Append(log, [market |-> m, closes |-> closes])
  /\ \/ /\ link = "up" /\ Len(inbox) < MaxInbox
        /\ inbox' = Append(inbox, [ct |-> "UPDATE", mc |-> [n \in {m} |-> DeltaSince(log', m, Len(log))],
                                   segmentType |-> "none", clk |-> Len(log')])
     \/ link = "down" /\ UNCHANGED inbox
  /\ UNCHANGED <<link, cache, clk, warned, announced>>

-----------------------------------------------------------------------------
(* The connection.                                                           *)

\* run_connection() subscribes with the clk of the last complete update.
Subscribe ==
  /\ link = "down"
  /\ link' = "up"
  /\ inbox' \in Answers
  /\ UNCHANGED <<log, cache, clk, warned, announced>>

\* Mutant: messages of the lost connection are still read.
DropKeepsInbox ==
  /\ link = "up"
  /\ link' = "down"
  /\ UNCHANGED <<log, inbox, cache, clk, warned, announced>>

\* The connection is lost, at any point of a segmented update.
Drop ==
  /\ link = "up"
  /\ link' = "down"
  /\ inbox' = <<>>
  /\ UNCHANGED <<log, cache, clk, warned, announced>>

\* The process restarts: nothing of this state is persisted.
Restart ==
  /\ link' = "down" /\ inbox' = <<>>
  /\ cache' = <<>> /\ clk' = 0
  /\ warned' = FALSE /\ announced' = FALSE
  /\ UNCHANGED log

-----------------------------------------------------------------------------
(* Applying a message.                                                       *)

\* Mutant: a known definition is not updated.
ChangedKeepsDefinition(e, c) ==
  [def   |-> IF e.def # "none" /\ ~c.img THEN e.def ELSE c.def,
   price |-> IF c.price # 0 THEN c.price ELSE IF c.img THEN 0 ELSE e.price]

\* apply_market_change(): an image clears the entry first.
Changed(e, c) ==
  [def   |-> IF c.def # "none" THEN c.def ELSE IF c.img THEN "none" ELSE e.def,
   price |-> IF c.price # 0 THEN c.price ELSE IF c.img THEN 0 ELSE e.price]

\* apply_mcm(): markets never seen get an empty entry first.
Applied(mc) ==
  [m \in DOMAIN cache \cup DOMAIN mc |->
     LET e == IF m \in DOMAIN cache THEN cache[m] ELSE NewEntry
     IN  IF m \in DOMAIN mc THEN Changed(e, mc[m]) ELSE e]

-----------------------------------------------------------------------------
(* The subscription guard.                                                   *)

VALID_EVENT_TYPES ==
  {"gateway_started", "gateway_stopped", "gateway_session_dropped",
   "gateway_session_recovered", "gateway_stream_stale", "gateway_reconnected",
   "gateway_daily_summary"}

\* publish() raises for any other type, and the guard swallows the exception.
Publishes(event_type) == event_type \in VALID_EVENT_TYPES

WarnAt ==
  LET limit == IF SubscriptionLimit = 0 THEN 1 ELSE SubscriptionLimit
  IN  (limit * WarnPct) \div 100

Hysteresis == (SubscriptionLimit * 5) \div 100

BackToNormal(count) == count + Hysteresis < WarnAt

\* check() past its throttle.
GuardChecks(count) ==
  \/ /\ warned /\ BackToNormal(count)
     /\ warned' = FALSE
     /\ UNCHANGED announced
  \/ /\ ~warned /\ count >= WarnAt
     /\ warned' = TRUE
     /\ announced' = Publishes("gateway_subscription_warning")
  \/ /\ ~(warned /\ BackToNormal(count))
     /\ warned \/ count < WarnAt
     /\ UNCHANGED <<warned, announced>>

-----------------------------------------------------------------------------
\* Mutant: the cursor moves on every segment.
CursorAfterAny(msg) == msg.clk

\* The cursor moves only when an update is complete.
CursorAfter(msg) == IF msg.segmentType \in {"none", "SEG_END"} THEN msg.clk ELSE clk

\* _handle_mcm(); the guard looks at most once in a throttle window.
HandleMcm ==
  /\ link = "up" /\ inbox # <<>>
  /\ inbox' = Tail(inbox)
  /\ cache' = Applied(Head(inbox).mc)
  /\ clk' = CursorAfter(Head(inbox))
  /\ \/ /\ DOMAIN Head(inbox).mc # {}
        /\ GuardChecks(Cardinality(DOMAIN cache'))
     \/ UNCHANGED <<warned, announced>>
  /\ UNCHANGED <<log, link>>

\* remove_closed().
Evictable(m) == cache[m].def = "CLOSED"

RemoveClosed ==
  /\ \E m \in DOMAIN cache : Evictable(m)
  /\ cache' = [m \in {n \in DOMAIN cache : ~Evictable(n)} |-> cache[m]]
  /\ UNCHANGED <<log, link, inbox, clk, warned, announced>>

Init ==
  /\ log = <<>> /\ link = "down" /\ inbox = <<>>
  /\ cache = <<>> /\ clk = 0
  /\ warned = FALSE /\ announced = FALSE

Next ==
  \/ Subscribe \/ Drop \/ Restart \/ HandleMcm \/ RemoveClosed
  \/ \E m \in Market, closes \in BOOLEAN : BetfairChanges(m, closes)

Spec == Init /\ [][Next]_vars

-----------------------------------------------------------------------------
TypeOK ==
  /\ \A i \in 1..Len(log) : log[i] \in [market : Market, closes : BOOLEAN]
  /\ link \in {"up", "down"} /\ link = "down" => inbox = <<>>
  /\ \A i \in 1..Len(inbox) : \A m \in DOMAIN inbox[i].mc : inbox[i].mc[m] \in Change
  /\ DOMAIN cache \subseteq Market /\ \A m \in DOMAIN cache : cache[m] \in Entry
  /\ clk \in 0..Len(log)
  /\ warned \in BOOLEAN /\ announced \in BOOLEAN

\* The clk the next subscription resumes from never runs ahead of the cache:
\* each market open at that clk is cached, at that clk's prices or newer ones,
\* even when a connection is lost half-way through a segmented update.  A market
\* closed since may also be known as CLOSED, or known and evicted.
CursorCovered ==
  \A m \in Market :
    IsOpen(log, m, clk) =>
      \/ m \in DOMAIN cache /\ cache[m].price >= LastPrice(log, m, 1, clk)
      \/ HasClosed(log, m, Len(log)) /\ (m \in DOMAIN cache => cache[m].def = "CLOSED")

\* A cached market always has its definition, without which its snapshots go
\* to the channel "unknown".
DefinitionKnown == \A m \in DOMAIN cache : cache[m].def # "none"

\* Once all that Betfair sent has been read, the cache is Betfair's book of the
\* open markets: no price of an earlier connection, of a cut update or of the
\* resumption that repeats it is left in it.
CaughtUp ==
  link = "up" /\ inbox = <<>> =>
    \A m \in Market :
      IsOpen(log, m, Len(log)) =>
        m \in DOMAIN cache /\ cache[m] = [def |-> "OPEN", price |-> LastPrice(log, m, 1, Len(log))]

\* Only Betfair's new image can take the cursor past the closure of a cached
\* market and leave the market cached as open.  (It then stays so for ever: an
\* image lists the open markets only, and remove_closed() waits for CLOSED.)
\* Deltas, segments, lost connections and resumptions never do.
OnlyImagesMissClosures ==
  [][\A m \in DOMAIN cache \cap DOMAIN cache' :
       IsOpen(log, m, clk) /\ HasClosed(log, m, clk') /\ cache'[m].def # "CLOSED"
         => inbox # <<>> /\ Head(inbox).ct = "SUB_IMAGE"]_vars

\* A warning about the subscription's level reaches the event consumers
\* (README.md, "warns at 90%").
WarningAnnounced == warned => announced
=============================================================================
