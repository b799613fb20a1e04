------------------------------- MODULE Gateway -------------------------------
(* The process around its parts: lifespan() of main.py brings up ConfigStore,*)
(* SourceManifest, the stream session and the HTTP surface in this order, and*)
(* serves order writes (OrderGate), PUT /admin/config and control calls until*)
(* it ends.  It may end at any point and start again.                        *)
(*                                                                           *)
(* register() is a plain call on the event loop, which stands still until    *)
(* GCS has answered; PUTs run in threads, and other services elsewhere.      *)
EXTENDS ConfigStore

CONSTANTS
  Post,               \* POSTs of order writes
  DryRun, AutoStart,  \* the settings this module asks for; Default means off
  Service, Self,      \* services with an entry in the manifest, and this one
  Unreadable          \* a manifest that cannot be parsed

ASSUME GatewayAssumption == {DryRun, AutoStart} \subseteq Field /\ Self \in Service

VARIABLES
  life,           \* how far lifespan() has got
  running,        \* the stream session runs
  orders_paused, handler, reply, call,  \* see OrderGate
  manifest, reg, merged, late           \* see SourceManifest

configVars == <<up, settings, blob, pc, payload, body, promised>>
orderVars == <<orders_paused, handler, reply, call>>
manifestVars == <<manifest, reg, merged, late>>
gatewayVars == <<configVars, life, running, orderVars, manifestVars>>

IsOn(setting) == settings[setting] # Default

Orders == INSTANCE OrderGate WITH dry_run <- IsOn(DryRun), pc <- handler
Manifest == INSTANCE SourceManifest

GatewayInit ==
  /\ Init /\ life = "down" /\ running = FALSE
  /\ orders_paused = FALSE
  /\ handler = [p \in Post |-> "idle"]
  /\ reply = [p \in Post |-> "none"] /\ call = [p \in Post |-> "none"]
  /\ Manifest!Init

-----------------------------------------------------------------------------
(* lifespan().                                                               *)

Starts ==
  /\ Boot
  /\ life' = "loaded"
  /\ UNCHANGED <<running, orderVars, manifestVars>>

Registering == reg[Self] = "merging"

\* register_best_effort(): done, or failed before the read or at the write.
Registers ==
  /\ life = "loaded"
  /\ \/ Manifest!Reads(Self) /\ UNCHANGED life
     \/ Manifest!Writes(Self) /\ life' = "announcing"
     \/ Manifest!Fails(Self) /\ life' = "announcing"
     \/ ~Registering /\ life' = "announcing" /\ UNCHANGED manifestVars
  /\ UNCHANGED <<configVars, running, orderVars>>

\* Mutant: auto_start is not asked.
AutoStartsAlways == TRUE

AutoStarts == IsOn(AutoStart)

\* gateway_started is out; the session starts if settings say so, and requests
\* are served.
Serves ==
  /\ life = "announcing" /\ life' = "serving"
  /\ running' = AutoStarts
  /\ UNCHANGED <<configVars, orderVars, manifestVars>>

\* The process ends, killed or after its shutdown, which stops the session.
Ends ==
  /\ Crash
  /\ life' = "down" /\ running' = FALSE
  /\ Orders!ProcessEnds
  /\ IF Registering THEN Manifest!Fails(Self) ELSE UNCHANGED manifestVars

-----------------------------------------------------------------------------
(* Service.                                                                  *)

LoopFree == life = "serving" /\ ~Registering

\* control("start") and control("stop").
Controls ==
  /\ LoopFree
  /\ running' = ~running
  /\ UNCHANGED <<configVars, life, orderVars, manifestVars>>

\* control("reregister_source").
Reregisters ==
  /\ life = "serving"
  /\ Manifest!Reads(Self) \/ Manifest!Writes(Self) \/ Manifest!Fails(Self)
  /\ UNCHANGED <<configVars, life, running, orderVars>>

\* control("pause"), control("resume") and the handlers of order writes.
OrderSteps ==
  /\ UNCHANGED <<configVars, life, running, manifestVars>>
  /\ LoopFree
  /\ Orders!Pause \/ Orders!Resume \/ \E p \in Post : Orders!LoopSteps(p)

\* PUT /admin/config.
PutSteps ==
  /\ \/ life = "serving" /\ \E c \in Call, changes \in Payload : PutApplies(c, changes)
     \/ \E c \in Call : PutSerialises(c) \/ PutUploads(c) \/ PutAnswered(c) \/ PutFails(c)
  /\ UNCHANGED <<life, running, orderVars, manifestVars>>

\* Betfair, the consumers and the other services.
Others ==
  /\ UNCHANGED <<configVars, life, running>>
  /\ \/ (\E p \in Post : Orders!OutsideSteps(p)) /\ UNCHANGED manifestVars
     \/ /\ \E s \in Service \ {Self} :
             Manifest!Reads(s) \/ Manifest!Writes(s) \/ Manifest!Fails(s)
        /\ UNCHANGED orderVars

GatewayNext ==
  \/ Starts \/ Registers \/ Serves \/ Ends
  \/ Controls \/ Reregisters \/ OrderSteps \/ PutSteps \/ Others

\* Betfair settles every call it is asked.
Settles(p) ==
  UNCHANGED <<configVars, life, running, manifestVars>> /\ Orders!BetfairActs(p)

GatewaySpec ==
  /\ GatewayInit /\ [][GatewayNext]_gatewayVars
  /\ \A p \in Post : WF_gatewayVars(Settles(p))

-----------------------------------------------------------------------------
GatewayTypeOK ==
  /\ TypeOK /\ Manifest!TypeOK /\ Orders!TypeOK
  /\ life \in {"down", "loaded", "announcing", "serving"} /\ running \in BOOLEAN
  /\ up <=> life # "down"
  /\ life # "serving" => orders_paused = FALSE /\ ~running

RepliesMatchCalls == Orders!RepliesMatchCalls

PauseTakesHold == Orders!PauseTakesHold

LostToOverlapOnly == Manifest!LostToOverlapOnly

Allowed(f) == promised[f] \cup Unsettled(f, InProgress)

\* Answered PUTs govern what the gateway does, across restarts: a write goes to
\* Betfair, or is simulated, and a start brings the stream up, only under a
\* value of dry_run and auto_start that a PUT left or is about to.
AnsweredPutsGovern ==
  [][/\ \A p \in Post :
          /\ handler[p] = "idle" /\ handler'[p] = "authorising" => Default \in Allowed(DryRun)
          /\ reply[p] = "none" /\ reply'[p] = "simulated" => Allowed(DryRun) # {Default}
     /\ Serves => \/ running' /\ Allowed(AutoStart) # {Default}
                  \/ ~running' /\ Default \in Allowed(AutoStart)]_gatewayVars
=============================================================================
