---------------------------- MODULE SessionStore ----------------------------
(* One key's session token: services/betfair_auth.py, with those who call it *)
(* - the stream's connection, the keepalive loop, REST requests - and those  *)
(* who change it without its lock.                                           *)
(*                                                                           *)
(* asyncio.Lock serves its waiters in the order they came: queue holds its   *)
(* holder and then its waiters.  A certlogin runs in a thread, which goes on *)
(* when the task that awaits it is cancelled.  The n-th certlogin obtains    *)
(* token n.                                                                  *)
(*                                                                           *)
(* Of StreamSession only what reaches the store is here: a start() that      *)
(* overtakes a stop() still waiting for its tasks is allowed, and from then  *)
(* on the session may lose sight of any of its connections and loops.        *)
EXTENDS Naturals, FiniteSets, SequencesExt

CONSTANTS
  Rest,       \* REST requests in progress
  Stream,     \* run_connection() tasks
  Keeper,     \* keepalive loops
  MaxLogins,  \* bound: certlogins made
  MaxStops    \* bound: stop() calls waiting for their tasks at a time

Worker == Stream \cup Keeper
Caller == Rest \cup Worker

ASSUME CallerAssumption == Stream \cap Keeper = {} /\ Worker \cap Rest = {}
ASSUME BoundAssumption == MaxLogins \in Nat /\ MaxStops \in Nat

VARIABLES
  live,         \* TRUE: the LIVE key's store, FALSE: the DELAYED key's
  token,        \* store.token: the login that obtained it, 0 for None
  acquired_at,  \* store.acquired_at, against session_keepalive_hours
  queue,        \* store.lock
  pc,           \* pc[c]: what caller c is doing
  forced,       \* forced[c]: c is inside refresh_session()
  got,          \* got[c]: the token c was given or pings, or the login it awaits
  state,        \* info.state
  running,      \* StreamSession._running
  stops,        \* stop() calls waiting for the tasks they cancelled
  overtaken,    \* a start() has overtaken such a stop()
  issued,       \* certlogins made so far
  threads,      \* certlogins still running
  began,        \* began[c]: issued when c's refresh began
  confirmed,    \* the token Betfair last confirmed at a login or keepalive
  refused       \* Betfair has refused a stream the token of the last login

storeVars == <<token, acquired_at>>
callVars  == <<queue, pc, forced, got, began>>
sessionVars == <<running, stops, overtaken>>
vars == <<live, storeVars, callVars, state, sessionVars, issued, threads, confirmed, refused>>

Pc == {"idle", "connecting", "get", "drop", "keepalive", "login", "ping", "using", "streaming"}
Locking == {"get", "drop", "keepalive", "login", "ping"}
State == {"not_started", "logging_in", "active", "failed", "stopped"}

Init ==
  /\ live \in BOOLEAN
  /\ token = 0 /\ acquired_at = "none"
  /\ queue = <<>>
  /\ pc = [c \in Caller |-> "idle"]
  /\ forced = [c \in Caller |-> FALSE]
  /\ got = [c \in Caller |-> 0] /\ began = [c \in Caller |-> 0]
  /\ state = "not_started"
  /\ running = FALSE /\ stops = 0 /\ overtaken = FALSE
  /\ issued = 0 /\ threads = {} /\ confirmed = 0 /\ refused = FALSE

-----------------------------------------------------------------------------
(* Calls.                                                                    *)

Calls(c, op) ==
  /\ pc' = [pc EXCEPT ![c] = op]
  /\ forced' = [forced EXCEPT ![c] = (op = "drop")]
  /\ began' = [began EXCEPT ![c] = IF op = "drop" THEN issued ELSE 0]
  /\ queue' = Append(queue, c)
  /\ UNCHANGED <<storeVars, got, state, sessionVars, issued, threads, confirmed, refused>>

\* A session runs one connection and one keepalive loop at a time; those of an
\* overtaken stop may go on beside them.
OneOfA(kind) == overtaken \/ \A c \in kind : pc[c] = "idle"

\* run_connection(), which uses the LIVE key, up to the token.
Connect(c) ==
  /\ live /\ c \in Stream /\ pc[c] = "idle"
  /\ running /\ OneOfA(Stream)
  /\ pc' = [pc EXCEPT ![c] = "connecting"]
  /\ UNCHANGED <<storeVars, queue, forced, got, began, state, sessionVars, issued, threads,
                 confirmed, refused>>

\* A REST request, or the stream's handshake, asks for a token, whatever has
\* become of the session since the connection was begun.
GetSessionToken(c) ==
  /\ \/ c \in Rest /\ pc[c] = "idle"
     \/ c \in Stream /\ pc[c] = "connecting"
  /\ Calls(c, "get")

\* relogin_rest.
ReloginRest(c) == c \in Rest /\ pc[c] = "idle" /\ ~live /\ Calls(c, "drop")

\* A loop wakes, which only then finds the session stopped; it leaves the
\* DELAYED key alone until its first login.
Keepalive(c) ==
  /\ c \in Keeper /\ pc[c] = "idle"
  /\ running \/ overtaken
  /\ OneOfA(Keeper)
  /\ live \/ confirmed # 0
  /\ Calls(c, "keepalive")

\* Mutant: the lock does not hold others back.
HasLockAnyone(c) == c \in ToSet(queue)

HasLock(c) == queue # <<>> /\ Head(queue) = c

\* async with releases the lock, or leaves its waiters.
Without(q, c) ==
  IF c \in ToSet(q) THEN RemoveAt(q, CHOOSE i \in DOMAIN q : q[i] = c) ELSE q

Returns(c, t) ==
  /\ pc' = [pc EXCEPT ![c] = "using"]
  /\ got' = [got EXCEPT ![c] = t]
  /\ queue' = Without(queue, c)
  /\ UNCHANGED <<forced, began>>

\* A call is over, and its locals are gone.
Over(callers) ==
  /\ pc' = [c \in Caller |-> IF c \in callers THEN "idle" ELSE pc[c]]
  /\ forced' = [c \in Caller |-> IF c \in callers THEN FALSE ELSE forced[c]]
  /\ got' = [c \in Caller |-> IF c \in callers THEN 0 ELSE got[c]]
  /\ began' = [c \in Caller |-> IF c \in callers THEN 0 ELSE began[c]]

Ends(c) == Over({c}) /\ queue' = Without(queue, c)

\* get_session_token() raised: its callers then try refresh_session(), once.
Raises(c) ==
  \/ forced[c] /\ Ends(c)
  \/ /\ ~forced[c]
     /\ pc' = [pc EXCEPT ![c] = "drop"]
     /\ forced' = [forced EXCEPT ![c] = TRUE]
     /\ began' = [began EXCEPT ![c] = issued]
     /\ got' = [got EXCEPT ![c] = 0]
     /\ queue' = Append(Without(queue, c), c)

Cached == token # 0 /\ acquired_at = "fresh"

\* get_session_token() with a token young enough.
ReturnsCached(c) ==
  /\ HasLock(c) /\ pc[c] = "get" /\ Cached
  /\ Returns(c, token)
  /\ UNCHANGED <<storeVars, state, sessionVars, issued, threads, confirmed, refused>>

\* _do_certlogin() up to its await; get_credentials() may raise before it.
BeginLogin(c) ==
  /\ HasLock(c) /\ pc[c] = "get" /\ ~Cached
  /\ state' = "logging_in"
  /\ \/ /\ issued < MaxLogins
        /\ issued' = issued + 1
        /\ threads' = threads \cup {issued + 1}
        /\ got' = [got EXCEPT ![c] = issued + 1]
        /\ pc' = [pc EXCEPT ![c] = "login"]
        /\ UNCHANGED <<queue, forced, began>>
     \/ Raises(c) /\ UNCHANGED <<issued, threads>>
  /\ UNCHANGED <<storeVars, sessionVars, confirmed, refused>>

LoginReturns(c) ==
  /\ pc[c] = "login"
  /\ threads' = threads \ {got[c]}
  /\ token' = got[c] /\ acquired_at' = "fresh" /\ confirmed' = got[c]
  /\ state' = "active" /\ refused' = FALSE
  /\ Returns(c, got[c])
  /\ UNCHANGED <<sessionVars, issued>>

LoginFails(c) ==
  /\ pc[c] = "login"
  /\ threads' = threads \ {got[c]}
  /\ state' = "failed"
  /\ Raises(c)
  /\ UNCHANGED <<storeVars, sessionVars, issued, confirmed, refused>>

\* Mutant: the cached token is kept.
DroppedNothing == UNCHANGED storeVars

Dropped == token' = 0 /\ acquired_at' = "none"

\* refresh_session(): under the lock, then once more for it.
RefreshDrops(c) ==
  /\ HasLock(c) /\ pc[c] = "drop"
  /\ Dropped
  /\ pc' = [pc EXCEPT ![c] = "get"]
  /\ queue' = Append(Without(queue, c), c)
  /\ UNCHANGED <<forced, got, began, state, sessionVars, issued, threads, confirmed, refused>>

\* keepalive() up to its await; it returns False without a token, and
\* get_credentials() may raise.
BeginKeepalive(c) ==
  /\ HasLock(c) /\ pc[c] = "keepalive"
  /\ \/ /\ token # 0
        /\ got' = [got EXCEPT ![c] = token]
        /\ pc' = [pc EXCEPT ![c] = "ping"]
        /\ UNCHANGED <<queue, forced, began>>
     \/ Ends(c)
  /\ UNCHANGED <<storeVars, state, sessionVars, issued, threads, confirmed, refused>>

\* Mutant: the token it pinged with is put back.
KeepaliveRestores(c) ==
  /\ pc[c] = "ping"
  /\ token' = got[c] /\ acquired_at' = "fresh" /\ confirmed' = got[c]
  /\ Ends(c)
  /\ UNCHANGED <<state, sessionVars, issued, threads, refused>>

\* keepalive() after its await: a refusal or an error drops the token.
KeepaliveReturns(c) ==
  /\ pc[c] = "ping"
  /\ \/ acquired_at' = "fresh" /\ confirmed' = got[c] /\ UNCHANGED token
     \/ token' = 0 /\ UNCHANGED <<acquired_at, confirmed>>
  /\ Ends(c)
  /\ UNCHANGED <<state, sessionVars, issued, threads, refused>>

-----------------------------------------------------------------------------
(* What becomes of a token that was returned.                                *)

\* The REST request is done with it, whatever Betfair answered.
RestDone(c) ==
  /\ c \in Rest /\ pc[c] = "using"
  /\ Ends(c)
  /\ UNCHANGED <<storeVars, state, sessionVars, issued, threads, confirmed, refused>>

Refuses(t) == refused' = (refused \/ t = confirmed)

\* run_connection() authenticates with it: accepted, or refused and raised.
StreamAuthenticates(c) ==
  /\ c \in Stream /\ pc[c] = "using"
  /\ \/ /\ pc' = [pc EXCEPT ![c] = "streaming"]
        /\ UNCHANGED <<queue, forced, got, began, refused>>
     \/ Ends(c) /\ Refuses(got[c])
  /\ UNCHANGED <<storeVars, state, sessionVars, issued, threads, confirmed>>

\* The connection ends: on a status message of the auth class after dropping
\* the token, without its lock, otherwise as it is.
StreamEnds(c) ==
  /\ c \in Stream /\ pc[c] \in {"connecting", "streaming"}
  /\ Ends(c)
  /\ \/ pc[c] = "streaming" /\ Dropped /\ Refuses(got[c])
     \/ UNCHANGED <<storeVars, refused>>
  /\ UNCHANGED <<state, sessionVars, issued, threads, confirmed>>

-----------------------------------------------------------------------------
(* Around it.                                                                *)

\* force_disconnect(): the task ends at its await.
StreamCancelled(c) ==
  /\ c \in Stream /\ pc[c] # "idle"
  /\ Ends(c)
  /\ UNCHANGED <<storeVars, state, sessionVars, issued, threads, confirmed, refused>>

\* The thread of a certlogin nobody awaits any more.
Orphan(n) == \A c \in Caller : ~(pc[c] = "login" /\ got[c] = n)

OrphanEnds(n) ==
  /\ n \in threads /\ Orphan(n)
  /\ threads' = threads \ {n}
  /\ UNCHANGED <<storeVars, callVars, state, sessionVars, issued, confirmed, refused>>

\* start() asks only _running, which stop() clears before its gather.
SessionStart ==
  /\ ~running /\ running' = TRUE
  /\ overtaken' = (overtaken \/ stops > 0)
  /\ UNCHANGED <<storeVars, callVars, state, stops, issued, threads, confirmed, refused>>

\* Mutant: a cancelled holder leaves the lock taken.
CancelledKeepsLock(cut, c, d, k) == Over(cut) /\ UNCHANGED queue

\* Cancellation ends workers at their awaits; a certlogin's thread goes on.
Cancelled(cut, c, d, k) ==
  LET left(q, w) == IF w \in cut THEN Without(q, w) ELSE q
  IN  Over(cut) /\ queue' = left(left(left(queue, c), d), k)

\* Mutant: the connection's task is not cancelled.
StopSparesStream ==
  \E c, d \in Stream, k \in Keeper : \E cut \in SUBSET {k} :
    /\ overtaken \/ \A w \in Keeper \ cut : pc[w] = "idle"
    /\ Cancelled(cut, c, d, k)

\* What stop() has handles of: its list's supervisor, with the connection that
\* one waits for, and keepalive loop, and _current_conn.  The end of an
\* overtaken stop throws away the handles of the session that overtook it.
StopCancels ==
  \E c, d \in Stream, k \in Keeper : \E cut \in SUBSET {c, d, k} :
    /\ overtaken \/ \A w \in Worker \ cut : pc[w] = "idle"
    /\ Cancelled(cut, c, d, k)

\* stop() up to its gather.
SessionStop ==
  /\ running /\ running' = FALSE
  /\ stops < MaxStops /\ stops' = stops + 1
  /\ StopCancels
  /\ UNCHANGED <<storeVars, state, overtaken, issued, threads, confirmed, refused>>

\* stop() after its gather.
SessionStopped ==
  /\ stops > 0 /\ stops' = stops - 1
  /\ state' = IF live THEN "stopped" ELSE state
  /\ UNCHANGED <<storeVars, callVars, running, overtaken, issued, threads, confirmed, refused>>

\* session_keepalive_hours pass.
TokenAges ==
  /\ acquired_at = "fresh"
  /\ acquired_at' = "stale"
  /\ UNCHANGED <<token, callVars, state, sessionVars, issued, threads, confirmed, refused>>

CallSteps(c) ==
  \/ ReturnsCached(c) \/ BeginLogin(c) \/ LoginReturns(c) \/ LoginFails(c)
  \/ RefreshDrops(c) \/ RestDone(c) \/ BeginKeepalive(c) \/ KeepaliveReturns(c)

Next ==
  /\ UNCHANGED live
  /\ \/ \E c \in Caller :
          \/ Connect(c) \/ GetSessionToken(c) \/ ReloginRest(c) \/ Keepalive(c)
          \/ CallSteps(c)
          \/ StreamAuthenticates(c) \/ StreamEnds(c) \/ StreamCancelled(c)
     \/ \E n \in threads : OrphanEnds(n)
     \/ SessionStart \/ SessionStop \/ SessionStopped \/ TokenAges

Spec == Init /\ [][Next]_vars

\* Certlogin and keepalive have HTTP timeouts, and the event loop runs a task
\* whose await is over.
Fairness == \A c \in Caller : WF_vars(UNCHANGED live /\ CallSteps(c))

FairSpec == Spec /\ Fairness

-----------------------------------------------------------------------------
TypeOK ==
  /\ live \in BOOLEAN
  /\ token \in 0..MaxLogins /\ acquired_at \in {"none", "fresh", "stale"}
  /\ queue \in Seq(Caller) /\ pc \in [Caller -> Pc]
  /\ ToSet(queue) = {c \in Caller : pc[c] \in Locking}
  /\ forced \in [Caller -> BOOLEAN] /\ got \in [Caller -> 0..MaxLogins]
  /\ began \in [Caller -> 0..MaxLogins]
  /\ state \in State
  /\ running \in BOOLEAN /\ stops \in 0..MaxStops /\ overtaken \in BOOLEAN
  /\ issued \in 0..MaxLogins /\ threads \subseteq 1..issued
  /\ confirmed \in 0..MaxLogins /\ refused \in BOOLEAN

\* refresh_session() returns a token obtained after it was called, though it
\* gives the lock up between dropping the old token and asking for a new one.
RefreshIsFresh ==
  \A c \in Caller : pc[c] = "using" /\ forced[c] => got[c] > began[c]

\* acquired_at is about the token it stands beside: no keepalive or login makes
\* another token look young.
AgeIsTheTokens == Cached => confirmed = token

\* A later login's token is never overwritten by an earlier one's.
TokensGoForward == [][token' # 0 => token' >= confirmed]_vars

\* The login some call awaits.
Awaited ==
  IF \E c \in Caller : pc[c] = "login"
  THEN got[CHOOSE c \in Caller : pc[c] = "login"] ELSE 0

\* However callers overlap, fail or are cancelled, the store's tokens come from
\* one line of logins: a cancelled certlogin's token is never stored, and one
\* that a refusal, a refresh or a status message dropped never comes back.
Line == INSTANCE TokenLine WITH current <- token, asked <- issued, pending <- Awaited
TokensOfOneLine == Line!Spec

\* One call at a time logs in ("Each key has its own asyncio.Lock so concurrent
\* stream reconnects don't race"): any other certlogin under way belongs to a
\* call that was cancelled.
OneLogin == Cardinality({n \in threads : ~Orphan(n)}) <= 1

\* "Auth-class errors must force a fresh certlogin on next reconnect": the
\* stream does not authenticate again with a token it was refused with.
AuthErrorForcesLogin ==
  \A c \in Stream : pc[c] = "using" /\ got[c] = confirmed => ~refused

\* This step begins c's certlogin or ends it.
LogsIn(c) == pc[c] \in {"get", "login"} /\ pc'[c] # pc[c]

\* After a stop ("report the session as stopped, not 'active'") state says
\* "stopped" until the session runs again or one of two kinds of call logs in
\* with the LIVE key: an order write, or, if a start() has ever overtaken a
\* stop, a connection that the later stop missed.  Nothing that a stop did cut -
\* a connection, a keepalive, a certlogin's thread - revives it.
StaysStopped ==
  [][state = "stopped" /\ state' # "stopped" =>
       running \/ \E c \in Caller : LogsIn(c) /\ (c \in Rest \/ (c \in Stream /\ overtaken))]_vars

\* Every call comes back with a token or an error: nobody waits for the lock
\* for ever, whoever is cancelled and whatever fails.
CallsReturn ==
  \A c \in Caller : pc[c] \in Locking ~> pc[c] \notin Locking
=============================================================================
