-------------------------------- MODULE Feed --------------------------------
(* From Betfair to a consumer: one runner's book (RunnerBook) reaches the    *)
(* cache in images and deltas over a connection that may be lost, each       *)
(* change is broadcast as a whole snapshot, and the hub (SseHub) delivers it.*)
(*                                                                           *)
(* Betfair is external.  tv counts the changes of the book, so it tells      *)
(* which state of the book a client or a snapshot shows.                     *)
EXTENDS RunnerBook, SseHub

CONSTANTS
  Price,      \* prices on the ladder
  MySport,    \* the sport of the market
  MaxTv,      \* bound: changes of the book
  MaxWire     \* bound: messages in flight

ASSUME FeedAssumption ==
  /\ MySport \in Sport /\ Price \subseteq Nat \ {0} /\ IsFiniteSet(Price)
  /\ MaxTv \in Nat \ {0} /\ MaxWire \in Nat \ {0}

VARIABLES
  side,       \* back or lay
  fields,     \* the market data fields subscribed to
  books,      \* books[n]: the book after its n-th change
  connected,  \* there is a subscribed connection
  wire,       \* the messages in flight on it
  sentTv,     \* the state of the book they lead to
  cache       \* the runner in market_cache

marketVars == <<side, fields, books>>
streamVars == <<connected, wire, sentTv>>
vars == <<marketVars, streamVars, cache, hubVars>>

Books == UNION {[S -> {1}] : S \in SUBSET Price}
tv == Len(books)
Infra == [event |-> "infra_event", tv |-> 0, best |-> <<>>]

Init ==
  /\ side \in {"back", "lay"} /\ fields \in (SUBSET LadderField) \ {{}}
  /\ \E b \in Books : DOMAIN b \in {{}, Price} /\ books = <<b>>
  /\ connected = FALSE /\ wire = <<>> /\ sentTv = 0
  /\ cache = NewRunner
  /\ HubInit

-----------------------------------------------------------------------------
\* An offer comes or goes.
BookChanges ==
  /\ tv < MaxTv
  /\ \E p \in Price :
       books' = Append(books, IF p \in DOMAIN books[tv]
                              THEN [q \in DOMAIN books[tv] \ {p} |-> books[tv][q]]
                              ELSE [q \in DOMAIN books[tv] \cup {p} |-> 1])
  /\ UNCHANGED <<side, fields, streamVars, cache, hubVars>>

HeldAt(n) == IF n = 0 THEN NewRunner ELSE Held(books[n], n, fields, side)

Image(n) == [img |-> TRUE, rc |-> RunnerDelta(NewRunner, HeldAt(n))]
Delta(m, n) == [img |-> FALSE, rc |-> RunnerDelta(HeldAt(m), HeldAt(n))]

\* A subscription: an image, or what changed since what the client has.
Connect ==
  /\ ~connected /\ connected' = TRUE
  /\ sentTv' = tv
  /\ \/ wire' = <<Image(tv)>>
     \/ cache.tv # 0 /\ wire' = <<Delta(cache.tv, tv)>>
  /\ UNCHANGED <<marketVars, cache, hubVars>>

\* Betfair sends what changed since its last message.
BetfairSends ==
  /\ connected /\ sentTv < tv /\ Len(wire) < MaxWire
  /\ wire' = Append(wire, Delta(sentTv, tv))
  /\ sentTv' = tv
  /\ UNCHANGED <<marketVars, connected, cache, hubVars>>

ConnectionLost ==
  /\ connected /\ connected' = FALSE
  /\ wire' = <<>>
  /\ UNCHANGED <<marketVars, sentTv, cache, hubVars>>

\* The event _handle_mcm() broadcasts: the runner as to_dict() shows it.
Snapshot(runner) ==
  [event |-> "market_change", tv |-> runner.tv, best |-> BestAvailable(runner, side)]

HandleMcm ==
  /\ wire # <<>>
  /\ wire' = Tail(wire)
  /\ cache' = MarketAfter(cache, Head(wire))
  /\ Broadcast(MySport, Snapshot(cache'))
  /\ UNCHANGED <<marketVars, connected, sentTv>>

\* publish() broadcasts every infrastructure event on "all".
Publish ==
  /\ Broadcast("all", Infra)
  /\ UNCHANGED <<marketVars, streamVars, cache>>

Next ==
  \/ BookChanges \/ Connect \/ BetfairSends \/ ConnectionLost \/ HandleMcm \/ Publish
  \/ HubNext /\ UNCHANGED <<marketVars, streamVars, cache>>

Spec == Init /\ [][Next]_vars

-----------------------------------------------------------------------------
Events == [event : {"market_change", "infra_event"}, tv : 0..MaxTv,
           best : Seq([price : Price, size : Nat])]

TypeOK ==
  /\ side \in {"back", "lay"} /\ fields \subseteq LadderField
  /\ books \in Seq(Books) /\ Len(books) \in 1..MaxTv
  /\ connected \in BOOLEAN /\ sentTv \in 0..tv /\ Len(wire) <= MaxWire
  /\ cache.tv \in 0..tv
  /\ subscribers \in [Channel -> SUBSET Consumer]
  /\ channel \in [Consumer -> Channel \cup {"none"}]
  /\ gen \in [Consumer -> {"none", "made", "getting", "sending", "done"}]
  /\ \A c \in Consumer :
       /\ queue[c] \in Seq(Events) /\ Len(queue[c]) <= MaxQueue
       /\ held[c] \in Seq(Events) /\ Len(held[c]) <= 1
       /\ c \in UNION {subscribers[ch] : ch \in Channel} <=> gen[c] \notin {"none", "done"}
  /\ gone \subseteq Consumer /\ full \subseteq Consumer
  /\ shown \in [Consumer -> 0..MaxTv]

\* Through images, deltas, lost messages and resumed connections the cache's
\* ladders are Betfair's at the state its tv tells ("full Betfair ESA delta
\* reconstruction").
LaddersAgree == cache = HeldAt(cache.tv)

\* Every snapshot on its way shows the best offers of the state it is about,
\* on either side and whichever ladders were subscribed to.
BestIsBest ==
  \A c \in Consumer : \A i \in DOMAIN (held[c] \o queue[c]) :
    LET e == (held[c] \o queue[c])[i]
    IN e.tv # 0 => ShowsBest(e.best, books[e.tv], side)

\* A consumer whose queue never was full is told everything of its channel and
\* nothing else, once and in order - an event broadcast on "all" twice.
NothingMissed ==
  \A c \in Consumer : c \notin full => held[c] \o queue[c] = owed[c]

\* No consumer is shown an older state of the market after a newer one.
Forward == INSTANCE ForwardFeed WITH Viewer <- Consumer, current <- tv, seen <- shown
NeverBackwards == Forward!Spec
=============================================================================
