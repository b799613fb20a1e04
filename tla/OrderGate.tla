------------------------------ MODULE OrderGate ------------------------------
(* Order writes, from services/rest_routes.py through services/              *)
(* betfair_rest.py to Betfair, against the operator's kill switch and the    *)
(* dry_run setting.  A handler checks both and then awaits twice: for a      *)
(* session token, and for the call to Betfair, which runs in a thread and    *)
(* may take effect although its answer never comes.                          *)
EXTENDS Naturals

CONSTANT Post   \* POSTs of /orders/place, /cancel or /replace

VARIABLES
  orders_paused,  \* app_state.orders_paused
  dry_run,        \* settings.dry_run, which PUT /admin/config changes
  pc,             \* pc[p]: how far p's handler has got
  reply,          \* reply[p]: what p was answered
  call            \* call[p]: what becomes of p's call to Betfair

vars == <<orders_paused, dry_run, pc, reply, call>>
switchVars == <<orders_paused, dry_run>>

\* "success" and "failure": 200 with ok True, whichever of them the status of
\* Betfair's report in it is.
Reply == {"none", "success", "failure", "simulated", "422", "503", "502", "lost"}

\* "failed": Betfair did not do it, and says so in a report or in an error.
CallState == {"none", "pending", "done", "failed"}

Init ==
  /\ orders_paused = FALSE /\ dry_run \in BOOLEAN
  /\ pc = [p \in Post |-> "idle"]
  /\ reply = [p \in Post |-> "none"] /\ call = [p \in Post |-> "none"]

-----------------------------------------------------------------------------
\* control("pause") and control("resume").
Pause  == ~orders_paused /\ orders_paused' = TRUE  /\ UNCHANGED <<dry_run, pc, reply, call>>
Resume == orders_paused  /\ orders_paused' = FALSE /\ UNCHANGED <<dry_run, pc, reply, call>>

\* Mutant: the switch is not looked at.
RejectedNever == FALSE

\* _check_orders_open() raises.
Rejected == orders_paused

\* Mutant: the simulated answer does not return early.
SimulatesAndGoesOn(p) == pc' = [pc EXCEPT ![p] = "authorising"]

\* place_orders(), cancel_orders() and replace_orders() return the simulation.
Simulates(p) == pc' = [pc EXCEPT ![p] = "answered"]

Answers(p, answer) ==
  /\ reply' = [reply EXCEPT ![p] = answer]
  /\ pc' = [pc EXCEPT ![p] = "answered"]

\* A POST up to its first await: orders_paused, a placement's instructions, of
\* which one may lack its sub-order, and dry_run are read with no await between.
Posted(p) ==
  /\ pc[p] = "idle"
  /\ \/ Rejected /\ Answers(p, "503")
     \/ ~Rejected /\ Answers(p, "422")
     \/ /\ ~Rejected /\ dry_run
        /\ reply' = [reply EXCEPT ![p] = "simulated"]
        /\ Simulates(p)
     \/ /\ ~Rejected /\ ~dry_run
        /\ pc' = [pc EXCEPT ![p] = "authorising"]
        /\ UNCHANGED reply
  /\ UNCHANGED <<switchVars, call>>

\* _upstream_error_envelope(): whatever was raised.
Fails(p) == Answers(p, "502")

\* _get_client(): the call to Betfair begins, or both certlogins failed.
ClientReady(p) ==
  /\ pc[p] = "authorising"
  /\ \/ /\ call' = [call EXCEPT ![p] = "pending"]
        /\ pc' = [pc EXCEPT ![p] = "calling"]
        /\ UNCHANGED reply
     \/ Fails(p) /\ UNCHANGED call
  /\ UNCHANGED switchVars

\* Betfair does what the call asks, or does not, whether or not anybody still
\* waits for the answer.
BetfairActs(p) ==
  /\ call[p] = "pending"
  /\ \E outcome \in {"done", "failed"} : call' = [call EXCEPT ![p] = outcome]
  /\ UNCHANGED <<switchVars, pc, reply>>

\* Mutant: the answer is made up from ok.
EnvelopeSucceeds(report) == "success"

\* _envelope(): the report goes on as Betfair returned it, and ok is True.
Envelope(report) == IF report = "done" THEN "success" ELSE "failure"

\* The call returns a report, or raises: an error, a timeout, the answer lost.
CallReturns(p) ==
  /\ pc[p] = "calling"
  /\ \/ call[p] \in {"done", "failed"} /\ Answers(p, Envelope(call[p]))
     \/ Fails(p)
  /\ UNCHANGED <<switchVars, call>>

\* The consumer has its answer and nothing of the POST is left: the name is
\* free for the next one.
Settled(p) ==
  /\ pc[p] = "answered" /\ call[p] # "pending"
  /\ pc' = [pc EXCEPT ![p] = "idle"]
  /\ reply' = [reply EXCEPT ![p] = "none"]
  /\ call' = [call EXCEPT ![p] = "none"]
  /\ UNCHANGED switchVars

\* The process ends: its handlers are gone, their consumers get no answer and
\* the next process starts unpaused, with dry_run as it loads it.  What Betfair
\* was asked stays asked.
ProcessEnds ==
  /\ orders_paused' = FALSE
  /\ pc' = [p \in Post |-> IF pc[p] = "idle" THEN "idle" ELSE "answered"]
  /\ reply' = [p \in Post |-> IF pc[p] \in {"authorising", "calling"} THEN "lost" ELSE reply[p]]
  /\ UNCHANGED call

\* What the event loop does.
LoopSteps(p) == Posted(p) \/ ClientReady(p) \/ CallReturns(p)

\* Outside the process.
OutsideSteps(p) == BetfairActs(p) \/ Settled(p)

-----------------------------------------------------------------------------
TypeOK ==
  /\ orders_paused \in BOOLEAN /\ dry_run \in BOOLEAN
  /\ pc \in [Post -> {"idle", "authorising", "calling", "answered"}]
  /\ reply \in [Post -> Reply] /\ call \in [Post -> CallState]
  /\ \A p \in Post : pc[p] = "answered" <=> reply[p] # "none"

\* What the consumer reads off an answer is what happened: the report in it is
\* the one Betfair made of this very write, and a write that was simulated or
\* turned away has no call at Betfair, not even a later one.  A 502 says nothing
\* of the write: Betfair may have done it, or do it yet.  Nor does ok, which is
\* True of a report of failure too ("The gateway does NOT interpret").
RepliesMatchCalls ==
  \A p \in Post :
    /\ reply[p] = "success" => call[p] = "done"
    /\ reply[p] = "failure" => call[p] = "failed"
    /\ reply[p] \in {"simulated", "422", "503"} => call[p] = "none"

\* A gateway that stays paused comes to rest: after the writes already past the
\* check, no further one reaches Betfair.
PauseTakesHold == <>[]orders_paused => <>[](\A p \in Post : call[p] # "pending")
=============================================================================
