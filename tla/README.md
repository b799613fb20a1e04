# Formal models of FSU1B, the Betfair Exchange Gateway

FSU1B is one Python process: a FastAPI application on one asyncio event loop that
holds a LIVE-key stream connection to Betfair, keeps the markets it reports in
memory, serves them over REST and SSE, forwards order writes, and tells the rest
of the platform about its own health over Pub/Sub. This directory holds TLA+
models of the parts of it in which order, cancellation, failure and restarts
decide whether it is correct, the TLC configurations that check them, and proofs
of their central properties for every value of the constants.

    tlc -workers 2 -config session_serial.cfg MCStreamSession.tla
    tlc -workers 2 -config feed.cfg Feed.tla
    tlapm StreamSessionProofs.tla

and likewise `MarketStreamProofs`, `SessionStoreProofs`, `ConfigStoreProofs`,
`DailySummaryProofs`, `GatewayProofs`, `RunnerBookProofs` and `FeedProofs`.
`PROJECT.json` lists every run, the source lines every definition stands for, the
hazards and the theorems. Paths below are relative to `src/`.

## 1. The system

| Part | Code | State it keeps | Operations |
|---|---|---|---|
| Stream session supervisor | `services/stream_session.py` | `_running`, `_tasks`, `_current_conn`, `_was_connected`, `_drop_announced`, `_watchdog_drop`, `_conn_established`, the supervisor's `backoff` | `start`, `stop`, `force_disconnect`, the supervisor, announcer, keepalive, maintenance and daily-summary loops |
| Stream connection | `services/stream_client.py` | `_clk`, `_initial_clk`, its socket | `run_connection` (handshake, read loop), `_handle_mcm`, `_handle_status_msg` |
| Watchdog | `services/watchdog.py` | none | poll the age of the last message, publish, cut the connection |
| Market cache | `services/market_cache.py` | markets by id | `apply_mcm`, `remove_closed`, reads |
| Subscription guard | `services/subscription_guard.py` | `_warned`, time of the last check | `check` |
| Betfair authentication | `services/betfair_auth.py` | per key: `token`, `acquired_at`, `lock`, `info.state` | `get_session_token`, `refresh_session`, `keepalive` |
| Order writes, kill switch | `services/rest_routes.py`, `services/betfair_rest.py`, `core/state.py` | `orders_paused`, `settings.dry_run` | place, cancel, replace; `pause`, `resume` |
| Settings | `core/config.py`, `core/gcs_config.py`, `services/admin.py` | `_current`, the GCS blob | load at start, `PUT /admin/config` |
| Admin control | `services/admin.py` | none | `start`, `stop`, `reconnect_stream`, `relogin_rest`, `pause`, `resume`, `reregister_source` |
| Event publisher | `services/event_publisher.py` | publisher cache | `publish`: Pub/Sub with a 10 s timeout, or a stub |
| SSE hub | `core/state.py`, `services/stream_routes.py` | subscriber queues of 512 | `subscribe`, `unsubscribe`, `broadcast` |
| Daily summary | `services/stream_session.py` | per-day counters | publish and reset at 00:00 UTC |
| Source manifest | `services/source_manifest.py` | an entry in a GCS blob shared with other services | read, merge, write |
| Lifespan | `main.py` | none | load settings, register, announce, `auto_start`; stop at the end |
| Observability, models, secrets, logging | `services/observability.py`, `models/`, `core/secrets.py`, `core/logging.py` | a cache of secrets | views, request shapes, plumbing |

**How they interact.** Everything but `PUT /admin/config` (a plain `def`, run in a
worker thread) and the executor calls (certlogin, keepalive, order calls, Pub/Sub
results) runs on the event loop, so tasks interleave only at awaits that
suspend. The supervisor starts a connection task and an announcer per attempt and
awaits the connection; the connection reports through `app_state.stream_status`
and `last_message_at`; the announcer polls the first, the watchdog both.
`stop()`, `force_disconnect()` and the watchdog act on the connection by
cancelling its task. The connection asks `betfair_auth` for a token and resumes
from `_clk`; REST requests, the keepalive loop and a status message of the auth
class use and change the same token. Order writes read the kill switch and
`dry_run` once and then await twice.

**What is hard.** Cancellation that is delivered at an await nobody thinks of
(inside `publish()`, inside the certlogin); state read before an await and used
after it (watchdog, kill switch, `stop()`'s tail); a `start()` that overtakes a
`stop()`; a connection that dies between two segments of one update; a certlogin
that goes on in its thread; uploads that land in another order than their PUTs;
a process that ends half-way through a PUT; a queue that is full, or whose reader
is gone; a clock read in whole seconds; a blob that other services rewrite.
`PROJECT.json` lists them line by line.

**What makes each part correct.**

- Supervisor: one supervisor and one connection at a time, nothing left after a
  stop, every stop returns, a lost connection is always dialled again, status
  and events tell the truth, the backoff restarts only when it was earned.
- Connection and cache: the resumption cursor never runs ahead of what the cache
  holds; when everything sent has been read, the cache is Betfair's book of the open
  markets; markets have their definition; only a new image can pass a closure over.
- Authentication: a refresh yields a new token, a token's age is its own, an older
  login never overwrites a newer one, calls log in one at a time, the lock is
  always given up, a refused token is not used again.
- Orders: a reply carries what Betfair made of its own write, a write simulated or
  turned away never reaches Betfair; a pause takes hold.
- A stopped session: nothing a stop cut makes its state active again.
- Settings: what a 200 promised is what the next start loads, and what the next
  process acts on.
- Feed: ladders are Betfair's at the tv they show, snapshots show the best offers,
  a consumer is told what it subscribed to, in order, unless its queue was full.
- Daily summary: near its midnight, no day left out, no message in two summaries,
  none lost but to a publish that fails or is still under way.
- Source manifest: no entry of another service is dropped but by an overlap.

## 2. Modules

| Module | Models | Composed of |
|---|---|---|
| `SingleLink` | what the session promises: one link, dialled only while wanted, hung up in the step that stops it | - |
| `StreamSession` | supervisor, connection task, announcer, watchdog, `start`/`stop`/`reconnect_stream` | refines `SingleLink` |
| `MCStreamSession` | the symmetry set for TLC | `StreamSession` |
| `DailySummary` | the summary loop, the per-day counters, a clock | - |
| `MarketStream` | Betfair's change log, subscribe and resume, segments, `_handle_mcm`, the cache, the maintenance sweep, the guard | - |
| `RunnerBook` | a runner's ladders under images and deltas, and its best offers | - |
| `SseHub` | `subscribe`, `broadcast`, `unsubscribe`, the queues and the generators that drain them | - |
| `ForwardFeed` | what the feed promises a consumer: states of the market, never an older after a newer | - |
| `Feed` | one book from Betfair to the consumers | `RunnerBook`, `SseHub`; refines `ForwardFeed` |
| `TokenLine` | what a token store promises: one login at a time, and no token but the one it brings; a token lost or given up never comes back | - |
| `SessionStore` | one key's token store, its lock, and everyone who calls it | refines `TokenLine` |
| `ConfigStore` | settings in memory and in GCS, PUT, start, crash | - |
| `OrderGate` | order writes against the kill switch and `dry_run` | - |
| `SourceManifest` | registrations of several services on one blob | - |
| `Gateway` | `lifespan()`, restarts, control and service | `ConfigStore`, `OrderGate`, `SourceManifest` |
| `...Proofs` | the theorems of `StreamSession`, `MarketStream`, `SessionStore`, `ConfigStore`, `DailySummary`, `Gateway`, `RunnerBook` and `Feed` | the module, `TLAPS` |

Everywhere an action is what one task does from one suspending await to the
next. An `async with` on a lock nobody holds over a suspension, and a `publish()`
that raises or is in stub mode, do not suspend, and are no boundary.

### StreamSession

`Run` names generations of tasks: each accepted `start()` makes one, and a name is
used again when its tasks are gone, so runs are unbounded in length.
`sup[r]` is the await the supervisor is suspended at: not yet begun, the
connection, `publish()` in its exception handler, the backoff sleep.
`conn[r]` is the connection task: `opening` (TCP, TLS, handshake), `subscribed`
(no message yet), `reading`, `failing`/`cancelling` (in its `finally`,
closing the socket), and `failed`/`cancelled` until the supervisor reaps it.

`task.cancel()` is modelled as asyncio performs it. A supervisor that awaits a
live connection passes the cancellation on to it (`PropagatesCancel`); any
other has a `CancelledError` pending (`cancelling`), which each of its next
steps sees as its handler does: the head of the loop never runs, the sleep sets
the status and returns, `publish()` leaves the task by way of `finally`, and a
connection that ended meanwhile is told apart by `_running` alone
(`EndsOnCancel`). The announcer and the watchdog touch nothing after a
cancellation, so theirs is immediate.

`PubSub` says whether `publish()` suspends. `SerialControl` is the operator's
discipline: no `start()` while a `stop()` has not returned; the code does not
enforce it. `attempt` and `lastEvent` are history: how far an attempt got, and
the event published last. `last_message_at` is reduced to none, fresh or stale.
The keepalive loop is in `SessionStore`, the maintenance loop in `MarketStream`.

### DailySummary

Time is the UTC clock in ticks, and a task resumes at most `Latency` after it may.
`Wait` is `max(60, int(...))` in whole seconds. The three counters, which are
counted and reset together, are the set of messages they have counted, so that a
message can be followed into a summary or out of one; `overlapped` is those that
came while a summary was being published. A publish that fails or times out is
swallowed (`_publish_safe()`), and the counters are reset all the same: its
messages are `unsent`, those of a publish Pub/Sub confirmed are `told`
(`Reported`). So `NoDayMissed` speaks of attempts, and `EachCountedOnce` names
what is lost. A stop ends the loop at its await and leaves the counters to the
next session.

### MarketStream

Betfair is external: a log of changes in which the n-th change has clk n, a market
opens at its first change, is priced, and may close once. To a subscription
without a clk it answers with an image of the open markets; with a clk, with what
changed since, or with a new image when it no longer serves that clk. The answer
may come in two segments, and the connection may be lost between them. Both
cursors of the code (`_initial_clk` and `_clk`) are one here, since they come from
the same messages. A market in the cache is its definition's status and its price
(the clk that set it), which is all the properties tell apart. An image lists open
markets only, so it can pass over a closure; `OnlyImagesMissClosures` says that
nothing else can. `HandleMcm` is the whole of `_handle_mcm()`, the guard's check
included; that the guard looks at most once in its throttle window is a free
choice to look or not.

### RunnerBook, SseHub and Feed

`RunnerBook` applies changes to ladders by level (`batb`) or by price (`atb`), one
side of one runner, and ranks the best offers as `best_available_to_back()` and
`best_available_to_lay()` do. Betfair's half - what a client that subscribed to
some fields holds of a book, and the entries that lead there from what it held -
is external. `tv` stands for every scalar and counts the book's changes, so it
also names the state a snapshot shows.

In `SseHub` a consumer is one GET: `made` until its response is first iterated,
`getting` in `queue.get()`, `sending` in a yield. `owed` and `full` are history:
what a consumer is still to be told, and whether its queue was ever full at a
broadcast. An event on `all` goes to an `all` subscriber twice, as the code does.

`Feed` puts both together: `HandleMcm` applies the message and broadcasts the
snapshot in one step, for no await in between suspends. Two things are simpler here
than in `MarketStream`: an answer to a subscription comes whole and starts from the
state the cache shows (`tv`), so a cursor behind the cache, as after a cut segment,
is `MarketStream`'s subject and not `Feed`'s; and the size of an offer is always 1.

### SessionStore

`queue` is `asyncio.Lock`: its holder, then its waiters in order. A call is one
of `get_session_token`, `refresh_session` (which takes the lock twice) and
`keepalive`; `pc` is the await it is at. A certlogin is a number in `threads`:
cancelling the task that awaits it takes the task out of the queue and leaves the
thread. `invalidate()` after an auth-class status message, and a failed keepalive,
drop the token as the code does - the first without the lock. `live` is chosen at
the start: only the LIVE key's store is used by the stream and by order writes,
only the DELAYED key's by `relogin_rest`. `MaxLogins` bounds the certlogins; beyond
it a call fails before its login, as it does when credentials cannot be read.
`state` is `info.state`. Of the stream session there is what reaches the store:
`running` is `_running`, `stops` counts the `stop()` calls that await their
`gather()`, and `Stream` and `Keeper` are its connections and keepalive loops.
`SessionStart` asks only `_running`, as `start()` does, so it may overtake a
`stop()`. That one's tail then throws away the new session's handles, and from then
on (`overtaken`) a later stop may miss any connection or loop (`StopCancels`), and
several may run at a time - a few more than the code can leave. What a stop missed
asks for its token whatever has become of the session (`GetSessionToken`), and a
keepalive loop finds out only after its next ping. `StaysStopped` says who may
then revive the stopped state: an order write, or such a connection.
`TokensOfOneLine` maps it to `TokenLine`: the token in the store, the certlogins
asked for, and the one a call awaits (`Awaited`); an orphaned certlogin is a login
given up, and its token goes nowhere.

### ConfigStore

A PUT is four steps of a thread: apply under the lock, serialise under the lock,
upload, answer. `Crash` may come between any two, `PutFails` before or after the
upload reached the blob. `promised[f]` is history: the values a later start may
load for `f`, given which PUTs were answered and which failed (a failed one stays
in memory, and may or may not be persisted).

### OrderGate and SourceManifest

A POST checks `orders_paused` and then `dry_run` with no await in between, waits
for a token, and calls Betfair in a thread whose effect may come although the
answer is lost. The three writes differ in nothing the properties see. Whether
Betfair did what the call asked (`call`: `done` or `failed`) is kept apart from what
was replied (`reply`): 422 or 503 before any call, a simulation, a report handed on,
or 502 for whatever was raised. `_envelope()` sets `ok` to True without a look at
the report, so a report of failure goes out with `ok` True; `success` and `failure`
are what a consumer reads off the report itself, and `RepliesMatchCalls` is about
that. A 502 claims nothing: Betfair may have done the write, or do it yet.
When it is all over the POST's name is free for the next one.

A registration reads the manifest, adds its entry and writes the whole back, with
no precondition; `late` is history: the entries written since it read. Neither
module has a specification of its own: their operations run in `Gateway`.

### Gateway

`life` follows `lifespan()`: settings loaded, manifest registered, `gateway_started`
out, serving. `Ends` may come at any point - a kill, or a shutdown - and takes the
handlers, the PUTs and the registration of this process with it, but not what
Betfair or GCS was already asked. `register()` blocks the event loop, so nothing
the loop does happens between its read and its write (`LoopFree`), while the
threads of PUTs and the other services go on. `IsOn` reads `dry_run` and
`auto_start` out of the settings `ConfigStore` keeps.

## 3. Runs

| Run | Shows | Bounds, and why they are enough |
|---|---|---|
| `session_serial` | `TypeOK`, `OneSession`, `StoppedIsQuiet`, `StatusHonest`, `DropsNeverRepeat`, `BackoffEarned`, the refinement `KeepsLinkPromise`, and under fairness `StopTerminates`, `NeverGivesUp`, `StaleIsCut` | two generations, so a new one can meet what is left of the old; a cap of 4 s, so the backoff doubles twice, and is capped |
| `session_overtaken` | violated: `OneSubscription` | two generations overlap |
| `session_silent` | violated: `OutageAnnounced` | one generation is enough |
| `market_resume` | `TypeOK`, `CursorCovered`, `DefinitionKnown`, `CaughtUp`, `OnlyImagesMissClosures` | two markets, so that one segment lacks the other; five changes: both open, one is priced and one closes around a lost connection; three messages in flight |
| `market_warning` | violated: `WarningAnnounced` | a limit of 3, reached by two markets |
| `store` | `TypeOK`, `RefreshIsFresh`, `AgeIsTheTokens`, `OneLogin`, `TokensGoForward`, `StaysStopped`, the refinement `TokensOfOneLine`, and `CallsReturn` under fairness, for either key | a REST call, a connection and a keepalive loop contend; two certlogins: one orphaned, one new; two stops waiting at a time: one overtaken, one of the session that overtook it |
| `store_refused` | violated: `AuthErrorForcesLogin` | as `store` |
| `gateway` | `GatewayTypeOK`, `AnsweredPersists`, `AnsweredInForce`, `RepliesMatchCalls`, `AnsweredPutsGovern`, `LostToOverlapOnly`, and `PauseTakesHold` under fairness | two settings, so a PUT leaves one alone; two values; two services, one of which is the gateway; one PUT and one POST at a time, each name used again and again, across any number of restarts |
| `config_threads` | violated: `AnsweredPersists` | two PUTs of different settings at once |
| `feed` | `TypeOK`, `LaddersAgree`, `BestIsBest`, `NothingMissed`, the refinement `NeverBackwards` | a depth of 2 with three prices, so a view leaves one out; three states of the book, two messages in flight; a queue of 2, filled, overrun and half-filled by an event on `all`; one consumer, since consumers share nothing but the lists; a second sport it must not hear of |
| `summary` | `TypeOK`, `SummaryOnTime`, `AtMostTwice`, `NoDayMissed`, `EachCountedOnce` | days of 14 ticks, seconds of 2, a least wait of 4: a wait can be cut short, fall under the least wait and be late, as 86400 s, 1 s and 60 s can; three days, two messages |
| `summary_twice` | violated: `OneSummaryPerDay` | as `summary` |

No state constraint is used: every bound is a guard (`MaxClk`, `MaxInbox`,
`MaxLogins`, `MaxStops`, `MaxTv`, `MaxWire`, `Days`, `MaxMessages`) or follows from the code
(the backoff's cap, the queue's size), and deadlock is checked in every run.
Symmetry over `Run` is used only in `session_overtaken`, which has no liveness
property.

**Fairness.** `StreamSession` assumes weak fairness of a supervisor, announcer
or watchdog that can move (the event loop runs ready tasks; sleeps end;
`publish()` waits at most 10 s), of a connection closing its socket (asyncio
bounds the TLS shutdown), and of a `stop()` whose `gather()` is over. It assumes
nothing of a handshake, a message, a failure or the operator. `SessionStore`
assumes that a call with the lock goes on, and that certlogin and keepalive
answer or time out (30 s and 15 s). `Gateway` assumes only that Betfair settles
every call it was asked (`Settles`): `PauseTakesHold` says that then nothing more
reaches it once the gateway stays paused.

### What the violated runs show

- `session_overtaken` - `stop()` sets `_running` to False and awaits its tasks. A
  `start()` accepted during that await sets it to True again; the old supervisor,
  woken by its cancelled connection, asks only whether `_running` is set
  (`stream_session.py:223`) and reconnects. Two supervisors, two subscriptions.
- `session_silent` - the announcer clears `_drop_announced` after its `publish()`.
  A connection lost during that publish has the supervisor cancel it, the flag
  stays, and the next drop is not announced.
- `market_warning` - `gateway_subscription_warning` is not in `VALID_EVENT_TYPES`;
  `build_envelope()` raises, and the guard swallows it.
- `store_refused` - a token refused in the handshake stays cached and young
  (`stream_client.py:134` only raises), so every attempt sends it again until it
  ages.
- `config_threads` - two PUTs serialise in one order and upload in the other; the
  blob ends without a change that was answered 200.
- `summary_twice` - `int()` cuts the wait (`stream_session.py:371`); a loop that
  wakes within the last second of a day computes the same midnight again and, the
  least wait later, summarises the same date a second time. `AtMostTwice` and
  `NoDayMissed` say how far this goes.

Further disagreements met while modelling, which the models reproduce but for
which no run is kept: an overtaken `stop()` clears the new session's handles, so
the next `stop()` cuts nothing (`stream_session.py:120`); after its publish the
watchdog cuts whatever connection there is, a connecting one too
(`watchdog.py:84`, against line 57); a new connection is judged by its
predecessor's last message (`watchdog.py:62`, against line 64); the handshake has
no timeout (`stream_client.py:111`); a market that closed while nobody was told of
it outlives a new image in the cache, for ever (`market_cache.py:284` and `324`;
`OnlyImagesMissClosures` shows that nothing but an image leads there); after a stop an
order write sets `live_session.state` back to active, and so does the certlogin of a
connection that an overtaken stop lost sight of (`betfair_auth.py:69`, against
"never `active`" in `README.md:100-101`; `StaysStopped` shows that nothing else
does); a report of failure is answered with `ok` True (`betfair_rest.py:214`), and a
write Betfair did may be answered 502 (`rest_routes.py:232`); a cancelled
certlogin runs on beside the next one (`betfair_auth.py:120`); a start that could
not read the blob lets the next PUT write defaults over it (`LoadMayFail = TRUE`,
`gcs_config.py:84`); a write past the check reaches Betfair during a pause
(`betfair_rest.py:154`, against `core/state.py:58`); a restart forgets a pause
(`core/state.py:60`); messages counted while a summary is being published are
reset unreported, and so is a whole day's count when its publish fails or times out
(`stream_session.py:388`, `47-52`); a full queue drops the newest snapshot
and keeps the old ones (`core/state.py:161`); a subscriber whose response is never
iterated is never unsubscribed (`stream_routes.py:71`).

## 4. Proofs

All are checked by `tlapm` to the last leaf, for every value of the constants
that meets the named `ASSUME`s.

**`StreamSessionProofs`.** `TypeCorrect` holds in every mode. The others assume
`SerialControl`, which `session_overtaken` shows to be needed. `OneSession` and
`StoppedIsQuiet` are not inductive: neither says that a reaped connection's
announcer went with it, nor what a half-stopped session looks like. `SessionInv` adds

- `OneGeneration`: all tasks alive belong to the generation `_tasks` lists;
- `ConnOwned`: a connection, and the announcer beside it, exist only while their
  supervisor awaits, and `_current_conn` is that connection's;
- `InService`, `BeingStopped`, `OutOfService`: what holds while the session runs,
  while its one `stop()` waits, and after it - in the middle case, that the
  supervisor is on its way out: it has a cancellation pending, or awaits a
  connection that has.

What the session says of itself needs `SpeechInv`, for a running session:
`StatusKept` (the status is that of the attempt the supervisor awaits), `FlagKept`
(`_conn_established` is what the announcer made of the latest attempt) and
`DropKept` (after a drop event `_drop_announced` is set, or the supervisor is still
in its publish). From it follow `StatusHonest`, `DropsNeverRepeat` and
`BackoffEarned`. `KeepsLinkPromiseHolds` is the step simulation of `SingleLink`: a
dial is a dial, a stop or a cut hangs up, and whatever is between is a stutter.

**`MarketStreamProofs`.** `CursorCovered` says nothing of the messages in flight, and
is lost with the next of them unless they are right. `ReadInv` follows a market along
the queue: `Cursors` is where the cursor will be after each message, `Prices` what the
cache will hold then, and `Kept` that the one never runs ahead of the other;
`Gone` is the market that is closed and of which everything in flight says so, which
is why the sweep may evict it half-way through an update. `Due` (a definition is left
out only for a reader who has the market) gives `DefinitionKnown`, `Passed` (a
closure is told before the cursor passes it, by anything but an image) gives
`OnlyImagesMissClosures`. An image, a resumption and
a live update are one case in the proof (`Updates`): a message that is right for a
reader at a given clk, sent whole (`SentWhole`) or in two segments (`SentHalved`).
Paths are witnessed step by step, so no induction over the queue is needed.
`CaughtUp` needs both sides: `Kept`, at the end of the queue, says that no price in
the cache is too old, and a second invariant, `NotAhead`, that none - cached or in
flight, of this connection or an earlier one - is newer than the log's last.

**`SessionStoreProofs`.** `StoreInv` is inductive for any number of requests and
certlogins. `QueueGood`: the lock's queue lists those who want it, once each, and
only its head logs in or pings - which rests on lemmas about taking someone out of
the middle of a sequence. `TokenInv`: the token is 0 or the one confirmed last, a
login under way is the latest one, and a ping is about the confirmed token; so no
answer that comes late can touch a newer token. `FreshInv` carries a refresh over
the gap in which it does not hold the lock: nobody was logging in when it dropped
the token, so what it finds later is newer. `TokensOfOneLineHolds` is the step
simulation of `TokenLine`, by the same invariant: the login a call awaits is
always the latest one (`AwaitedIs`), so every step that ends a call is an
`Obtain`, a `GiveUp`, a `Lose` or a stutter, whoever else waits for the lock.
`Roles` (a keepalive loop never logs in, and a connection is inside a call only
while the session runs or after an overtaken stop) gives `StaysStopped`.

**`ConfigStoreProofs`.** `TypeCorrect` holds in every mode; `AnsweredPersistsHolds`
and `AnsweredInForceHolds` assume `Disciplined`: PUTs do not overlap and the blob is
readable. `config_threads` shows the first to be needed. `ConfigInv` adds what the
properties leave open in the middle of the one PUT: that its body is memory and that
memory carries its payload (`PutSoFar`), that there is at most one (`OnePut`), and
that the defaults stay promised until a blob is written (`NothingWritten`).

**`GatewayProofs`.** Every step of the gateway is a step of `ConfigStore` or
leaves its variables alone (`GatewayIsConfigStore`), so what is proved of
`ConfigStore` holds of the whole process, restarts included. `OrderInv`,
`ManifestInv` and `LifeInv` are inductive on their own: a call exists only after
the check that let it pass, and a report handed on is that call's; what a
registration will write has everything in the manifest but what came late.
`AnsweredPutsGovernHolds` combines `ConfigInv` with `AnsweredInForce`.

**`DailySummaryProofs`.** The invariant says where the loop is in time: it awaits
a midnight no more than a day ahead, wakes less than a second before it or at most
a least wait after it (`Awaits`), every earlier day of its session has a summary and
later ones none, and the day it waits for at most one while it sleeps, in which case
the sleep lasts past midnight, so there is no third (`Turns`), and every message is
accounted for (`Accounted`): in the counters, in a confirmed summary or in one that
failed, never in two of them, and in none only if it came during a publish.
The lemmas are the arithmetic of days and whole seconds.

**`RunnerBookProofs`.** A view ranks offers by counting those before them. The
module proves what that gives in any finite total order: the counts run from 0 to
one less than the size, each taken once, and follow the order (`RankGrows`, `RankIsTotal`).
From it, for any finite book and any depth, follow that `ByLevel` shows Betfair's
best levels, that a view by level and a view by price are the same sequence of
offers, and that both are the best ones (`HeldShowsBest`), whichever fields were
subscribed to and on either side.

**`FeedProofs`.** `StreamInv`: the messages in flight lead, one after another, from
the cache's state of the book to the last one sent (`Chained`), whichever fields
were subscribed to and whatever was lost; a delta computed between two states
leads from the one to the other (`RunnerRoundTrip`). `HubInv`: from what a consumer
was shown through what its generator holds to its queue and the cache, tv never
decreases. With them the feed implements `ForwardFeed`. `DeliveryInv` relates the
lists of subscribers to the generators, so that `broadcast()` puts on each queue
exactly what is due. `CarriesTruth` says of every event in a queue or a generator
that it is one of `Truths`: a snapshot whose offers are those of the state of the
book that its tv names, or an event without one. States are only ever added
to `books`, so a truth stays one, however long it waits; new ones come from
`HandleMcm`, whose cache is right by `LaddersAgree` and whose view of it is right by
`HeldShowsBest`. With `Within` (the bounds on changes and on messages in flight)
it gives `FeedTypeCorrect` and `BestIsBestHolds`. `FeedAssumption` asks
for a finite set of prices, as Betfair's price ladder is, and for bounds of at least 1.

**Only model-checked.** Liveness (`StopTerminates`, `NeverGivesUp`, `StaleIsCut`,
`CallsReturn`, `PauseTakesHold`): fairness and ENABLED are out of the prover's
reach. Every other property of a passing run is stated by a theorem.

## 5. Not modelled

- The SP sub-object, handicaps (runners are keyed by selection id only), display
  names and per-status counts of the cache: no step depends on them.
- Message ids, status 503, `reconnect_count` and `connection_id`, envelopes,
  activity rows, call counts, formatting, logging, the shape of requests, secrets.
- The `SERVICE_URL` override at start; the publisher's lazy creation; the REST
  client cache; the DELAYED key's read endpoints beyond their use of the token.
- Observability, the read-only admin views and the test action: they read state
  at one instant and change none. The content of a manifest entry.
- Time, except in `DailySummary`: a sleep or a timeout may end at any moment.

## 6. Plan

Done: every module and every proof above. The refinements are stated where a
component has a promise worth stating apart from its mechanism: `SingleLink` for the
session, `TokenLine` for the token store, `ForwardFeed` for the feed, `ConfigStore`
for the gateway.

Left, in this order:

1. `StreamSession` and `SessionStore` composed over the handshake, so that a
   refused token and the backoff meet.
2. What the feed says when nothing changes: a new subscriber of a quiet market
   hears nothing until its next change, and no document promises it a first
   snapshot.
3. Two runners, or two handicaps of one selection, in one message.
4. The safety half of `PauseTakesHold`, as an action property of its own with a
   proof: a gateway that is paused lets no new call past its check.
