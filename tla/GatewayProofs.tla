---------------------------- MODULE GatewayProofs ----------------------------
(* Proofs about Gateway: for any calls, settings, order writes and services. *)
(* As far as the settings go the process is a ConfigStore, whose theorems    *)
(* carry over; the orders and the manifest get invariants of their own.      *)
EXTENDS Gateway, ConfigStoreProofs

-----------------------------------------------------------------------------
(* The settings.                                                             *)

LEMMA ConfigSteps == [GatewayNext]_gatewayVars => [Next]_vars
<1> SUFFICES ASSUME [GatewayNext]_gatewayVars
             PROVE  [Next]_vars
  OBVIOUS
<1>1. CASE Starts
  BY <1>1 DEF Starts, Next
<1>2. CASE Ends
  BY <1>2 DEF Ends, Next
<1>3. CASE PutSteps
  BY <1>3 DEF PutSteps, Next
<1>4. CASE UNCHANGED configVars
  BY <1>4 DEF configVars, vars
<1> QED
  BY <1>1, <1>2, <1>3, <1>4
     DEF GatewayNext, gatewayVars, Registers, Serves, Controls, Reregisters, OrderSteps,
         Others

\* Every step of the process - lifespan(), order writes, control calls,
\* registrations, other services - is a step of ConfigStore or leaves settings,
\* blob and PUTs alone: the gateway implements it.
THEOREM GatewayIsConfigStore == GatewaySpec => Spec
<1>1. GatewayInit => Init
  BY DEF GatewayInit
<1> QED
  BY <1>1, ConfigSteps, PTL DEF GatewaySpec, Spec

\* Whatever else the process does, what a PUT was answered 200 for is what the
\* next start loads.
THEOREM GatewayPersists == Disciplined => (GatewaySpec => []AnsweredPersists)
BY GatewayIsConfigStore, AnsweredPersistsHolds

\* Whatever else the process does, its settings in memory are what answered PUTs
\* left or failed ones applied.
THEOREM GatewayInForce == Disciplined => (GatewaySpec => []AnsweredInForce)
BY GatewayIsConfigStore, AnsweredInForceHolds

-----------------------------------------------------------------------------
(* Order writes.                                                             *)

\* How far a handler is, what its consumer was told and what became of its call
\* belong together.
OrderInv ==
  /\ orders_paused \in BOOLEAN
  /\ handler \in [Post -> {"idle", "authorising", "calling", "answered"}]
  /\ reply \in [Post -> Orders!Reply] /\ call \in [Post -> Orders!CallState]
  /\ \A p \in Post :
       /\ handler[p] = "answered" <=> reply[p] # "none"
       /\ handler[p] \in {"idle", "authorising"} => call[p] = "none"
       /\ reply[p] = "success" => call[p] = "done"
       /\ reply[p] = "failure" => call[p] = "failed"
       /\ reply[p] \in {"simulated", "422", "503"} => call[p] = "none"

LEMMA OrderInit == GatewayInit => OrderInv
BY DEF GatewayInit, OrderInv, Orders!Reply, Orders!CallState

LEMMA OrderStep == OrderInv /\ [GatewayNext]_gatewayVars => OrderInv'
<1> SUFFICES ASSUME OrderInv, [GatewayNext]_gatewayVars
             PROVE  OrderInv'
  OBVIOUS
<1> USE DEF OrderInv, Orders!Reply, Orders!CallState
<1>1. CASE Ends
  BY <1>1 DEF Ends, Orders!ProcessEnds
<1>2. CASE OrderSteps
  <2>1. CASE Orders!Pause \/ Orders!Resume
    BY <2>1 DEF Orders!Pause, Orders!Resume
  <2>2. ASSUME NEW p \in Post, Orders!Posted(p)
        PROVE  OrderInv'
    BY <2>2 DEF Orders!Posted, Orders!Answers, Orders!Simulates, Orders!switchVars
  <2>3. ASSUME NEW p \in Post, Orders!ClientReady(p)
        PROVE  OrderInv'
    BY <2>3 DEF Orders!ClientReady, Orders!Fails, Orders!Answers, Orders!switchVars
  <2>4. ASSUME NEW p \in Post, Orders!CallReturns(p)
        PROVE  OrderInv'
    BY <2>4
       DEF Orders!CallReturns, Orders!Envelope, Orders!Fails, Orders!Answers, Orders!switchVars
  <2> QED
    BY <1>2, <2>1, <2>2, <2>3, <2>4 DEF OrderSteps, Orders!LoopSteps
<1>3. ASSUME NEW p \in Post, Orders!OutsideSteps(p)
      PROVE  OrderInv'
  <2>1. CASE Orders!BetfairActs(p)
    BY <2>1 DEF Orders!BetfairActs, Orders!switchVars
  <2>2. CASE Orders!Settled(p)
    BY <2>2 DEF Orders!Settled, Orders!switchVars
  <2> QED
    BY <1>3, <2>1, <2>2 DEF Orders!OutsideSteps
<1>4. CASE UNCHANGED orderVars
  BY <1>4 DEF orderVars
<1> QED
  BY <1>1, <1>2, <1>3, <1>4
     DEF GatewayNext, gatewayVars, Starts, Registers, Serves, Controls, Reregisters,
         PutSteps, Others

\* The invariant behind RepliesMatchCalls: where a handler of an order write is,
\* what it replied and what Betfair made of its call agree at every await.
THEOREM OrderInvariant == GatewaySpec => []OrderInv
BY OrderInit, OrderStep, PTL DEF GatewaySpec

\* Through restarts and changes of dry_run, a report handed on is the one Betfair
\* made of the very write it answers, and Betfair never hears of a write answered
\* as simulated or turned away (rest_routes.py 205-229, betfair_rest.py 149-219).
\* A 502 tells nothing of the write, and ok nothing of its outcome.
THEOREM RepliesMatchCallsHolds == GatewaySpec => []RepliesMatchCalls
<1>1. OrderInv => RepliesMatchCalls
  BY DEF OrderInv, RepliesMatchCalls, Orders!RepliesMatchCalls
<1> QED
  BY <1>1, OrderInvariant, PTL

-----------------------------------------------------------------------------
(* The manifest.                                                             *)

\* Whoever is about to write has read each entry, or it came later.
ManifestInv ==
  /\ manifest \in (SUBSET Service) \cup {Unreadable}
  /\ reg \in [Service -> {"idle", "merging"}]
  /\ merged \in [Service -> SUBSET Service] /\ late \in [Service -> SUBSET Service]
  /\ \A s \in Service : reg[s] = "merging" <=> s \in merged[s]
  /\ manifest # Unreadable =>
       \A s \in Service : reg[s] = "merging" => manifest \subseteq merged[s] \cup late[s]

LEMMA ManifestInit == GatewayInit => ManifestInv
BY DEF GatewayInit, Manifest!Init, ManifestInv

LEMMA ManifestStep == ManifestInv /\ [GatewayNext]_gatewayVars => ManifestInv'
<1> SUFFICES ASSUME ManifestInv, [GatewayNext]_gatewayVars
             PROVE  ManifestInv'
  OBVIOUS
<1> USE DEF ManifestInv
<1>0. Self \in Service
  BY GatewayAssumption
<1>1. ASSUME NEW s \in Service, Manifest!Reads(s)
      PROVE  ManifestInv'
  <2>1. Manifest!Merged(s) \in SUBSET Service /\ s \in Manifest!Merged(s)
    BY DEF Manifest!Merged
  <2>2. manifest # Unreadable => manifest \subseteq Manifest!Merged(s)
    BY DEF Manifest!Merged
  <2> QED
    BY <1>1, <2>1, <2>2 DEF Manifest!Reads
<1>2. ASSUME NEW s \in Service, Manifest!Writes(s)
      PROVE  ManifestInv'
  BY <1>2 DEF Manifest!Writes, Manifest!Ends
<1>3. ASSUME NEW s \in Service, Manifest!Fails(s)
      PROVE  ManifestInv'
  BY <1>3 DEF Manifest!Fails, Manifest!Ends
<1>4. CASE UNCHANGED manifestVars
  BY <1>4 DEF manifestVars
<1> QED
  BY <1>0, <1>1, <1>2, <1>3, <1>4
     DEF GatewayNext, gatewayVars, Starts, Registers, Serves, Ends, Controls, Reregisters,
         OrderSteps, PutSteps, Others

\* The invariant behind LostToOverlapOnly: of the entries in a readable manifest,
\* register() is about to drop only those written since it has read.
THEOREM ManifestInvariant == GatewaySpec => []ManifestInv
BY ManifestInit, ManifestStep, PTL DEF GatewaySpec

\* However many services register, crash and retry, an entry that could be read
\* is lost only to a registration that had begun before it was written.
THEOREM LostToOverlapOnlyHolds == GatewaySpec => LostToOverlapOnly
<1>1. ManifestInv /\ [GatewayNext]_gatewayVars =>
        [\A s \in Service :
           Manifest!Writes(s) /\ manifest # Unreadable
             => manifest \ manifest' \subseteq late[s]]_manifestVars
  BY DEF ManifestInv, Manifest!Writes
<1> QED
  BY <1>1, ManifestInvariant, PTL
     DEF GatewaySpec, LostToOverlapOnly, Manifest!LostToOverlapOnly, Manifest!vars,
         manifestVars

-----------------------------------------------------------------------------
(* The process.                                                              *)

\* The loop serves, and the switch and the session are touched, only while the
\* process is up.
LifeInv ==
  /\ up \in BOOLEAN /\ orders_paused \in BOOLEAN
  /\ life \in {"down", "loaded", "announcing", "serving"} /\ running \in BOOLEAN
  /\ up <=> life # "down"
  /\ life # "serving" => orders_paused = FALSE /\ ~running

LEMMA LifeInit == GatewayInit => LifeInv
BY DEF GatewayInit, Init, LifeInv

LEMMA LifeStep == LifeInv /\ [GatewayNext]_gatewayVars => LifeInv'
<1> SUFFICES ASSUME LifeInv, [GatewayNext]_gatewayVars
             PROVE  LifeInv'
  OBVIOUS
<1> USE DEF LifeInv
<1>1. CASE Starts
  BY <1>1 DEF Starts, Boot, orderVars
<1>2. CASE Registers
  BY <1>2 DEF Registers, configVars, orderVars
<1>3. CASE Serves
  BY <1>3 DEF Serves, AutoStarts, IsOn, configVars, orderVars
<1>4. CASE Ends
  BY <1>4 DEF Ends, Crash, Orders!ProcessEnds
<1>5. CASE Controls
  BY <1>5 DEF Controls, LoopFree, configVars, orderVars
<1>6. CASE OrderSteps
  <2>1. life = "serving" /\ UNCHANGED <<up, life, running>> /\ orders_paused' \in BOOLEAN
    BY <1>6
       DEF OrderSteps, LoopFree, configVars, Orders!Pause, Orders!Resume, Orders!LoopSteps,
           Orders!Posted, Orders!ClientReady, Orders!CallReturns, Orders!switchVars
  <2> QED
    BY <2>1
<1>7. CASE PutSteps
  <2>1. UNCHANGED <<up, life, running, orders_paused>>
    BY <1>7
       DEF PutSteps, orderVars, PutApplies, PutSerialises, PutUploads, PutAnswered, PutFails
  <2> QED
    BY <2>1
<1>8. CASE Reregisters \/ Others \/ UNCHANGED gatewayVars
  <2>1. UNCHANGED <<up, life, running, orders_paused>>
    BY <1>8
       DEF Reregisters, Others, gatewayVars, configVars, orderVars, Orders!OutsideSteps,
           Orders!BetfairActs, Orders!Settled, Orders!switchVars
  <2> QED
    BY <2>1
<1> QED
  BY <1>1, <1>2, <1>3, <1>4, <1>5, <1>6, <1>7, <1>8 DEF GatewayNext

\* The process runs, serves, pauses and streams only as far as lifespan() has got.
THEOREM LifeInvariant == GatewaySpec => []LifeInv
BY LifeInit, LifeStep, PTL DEF GatewaySpec

\* The whole process keeps its types: nothing is paused or running in one that
\* does not serve, restarts included.
THEOREM GatewayTypeCorrect == GatewaySpec => []GatewayTypeOK
<1>1. GatewaySpec => []TypeOK
  BY GatewayIsConfigStore, TypeCorrect
<1>2. TypeOK /\ OrderInv /\ ManifestInv /\ LifeInv => GatewayTypeOK
  BY DEF GatewayTypeOK, OrderInv, ManifestInv, LifeInv, Orders!TypeOK, Manifest!TypeOK, IsOn
<1> QED
  BY <1>1, <1>2, OrderInvariant, ManifestInvariant, LifeInvariant, PTL

\* What one step shows of the settings is what they are, and those are allowed.
LEMMA StepsGoverned ==
  ASSUME AnsweredInForce, LifeInv, OrderInv, [GatewayNext]_gatewayVars
  PROVE  /\ \A p \in Post :
              /\ handler[p] = "idle" /\ handler'[p] = "authorising"
                   => Default \in Allowed(DryRun)
              /\ reply[p] = "none" /\ reply'[p] = "simulated"
                   => Allowed(DryRun) # {Default}
         /\ Serves => \/ running' /\ Allowed(AutoStart) # {Default}
                      \/ ~running' /\ Default \in Allowed(AutoStart)
<1>1. up => /\ settings[DryRun] \in Allowed(DryRun)
            /\ settings[AutoStart] \in Allowed(AutoStart)
  BY GatewayAssumption DEF AnsweredInForce, Allowed
<1>2. ASSUME Serves
      PROVE  \/ running' /\ Allowed(AutoStart) # {Default}
             \/ ~running' /\ Default \in Allowed(AutoStart)
  <2>1. up /\ running' = (settings[AutoStart] # Default)
    BY <1>2 DEF Serves, LifeInv, AutoStarts, IsOn
  <2> QED
    BY <1>1, <2>1
<1>3. ASSUME NEW p \in Post, NEW q \in Post, Orders!LoopSteps(q), life = "serving",
             \/ handler[p] = "idle" /\ handler'[p] = "authorising"
             \/ reply[p] = "none" /\ reply'[p] = "simulated"
      PROVE  /\ up /\ Orders!Posted(p)
             /\ handler'[p] = "authorising" => settings[DryRun] = Default
             /\ reply'[p] = "simulated" => settings[DryRun] # Default
  <2>1. up
    BY <1>3 DEF LifeInv
  <2>2. CASE Orders!Posted(q)
    <3>1. p = q
      BY <1>3, <2>2 DEF OrderInv, Orders!Posted, Orders!Answers, Orders!Simulates
    <3> QED
      BY <1>3, <2>1, <2>2, <3>1
         DEF OrderInv, Orders!Posted, Orders!Answers, Orders!Simulates, IsOn
  <2>3. CASE Orders!ClientReady(q) \/ Orders!CallReturns(q)
    BY <1>3, <2>3
       DEF OrderInv, Orders!ClientReady, Orders!CallReturns, Orders!Fails, Orders!Envelope,
           Orders!Answers
  <2> QED
    BY <1>3, <2>2, <2>3 DEF Orders!LoopSteps
<1>4. ASSUME NEW p \in Post,
             \/ handler[p] = "idle" /\ handler'[p] = "authorising"
             \/ reply[p] = "none" /\ reply'[p] = "simulated"
      PROVE  life = "serving" /\ \E q \in Post : Orders!LoopSteps(q)
  <2>1. CASE Ends
    BY <1>4, <2>1 DEF Ends, Orders!ProcessEnds
  <2>2. CASE OrderSteps
    BY <1>4, <2>2 DEF OrderSteps, LoopFree, Orders!Pause, Orders!Resume
  <2>3. CASE Others
    BY <1>4, <2>3
       DEF OrderInv, Others, orderVars, Orders!OutsideSteps, Orders!BetfairActs,
           Orders!Settled
  <2>4. CASE UNCHANGED orderVars
    BY <1>4, <2>4 DEF orderVars
  <2> QED
    BY <2>1, <2>2, <2>3, <2>4
       DEF GatewayNext, gatewayVars, Starts, Registers, Serves, Controls, Reregisters, PutSteps
<1>5. ASSUME NEW p \in Post
      PROVE  /\ handler[p] = "idle" /\ handler'[p] = "authorising"
                  => Default \in Allowed(DryRun)
             /\ reply[p] = "none" /\ reply'[p] = "simulated"
                  => Allowed(DryRun) # {Default}
  BY <1>1, <1>3, <1>4
<1> QED
  BY <1>2, <1>5

\* With one PUT at a time and a readable blob, no restart, failed upload or
\* write in progress lets a value of dry_run or auto_start govern that no PUT
\* left or is about to.
THEOREM AnsweredPutsGovernHolds == Disciplined => (GatewaySpec => AnsweredPutsGovern)
<1> SUFFICES ASSUME Disciplined
             PROVE  GatewaySpec => AnsweredPutsGovern
  OBVIOUS
<1>1. GatewaySpec => []AnsweredInForce
  BY GatewayInForce
<1>2. AnsweredInForce /\ LifeInv /\ OrderInv /\ [GatewayNext]_gatewayVars =>
        [/\ \A p \in Post :
              /\ handler[p] = "idle" /\ handler'[p] = "authorising" => Default \in Allowed(DryRun)
              /\ reply[p] = "none" /\ reply'[p] = "simulated" => Allowed(DryRun) # {Default}
         /\ Serves => \/ running' /\ Allowed(AutoStart) # {Default}
                      \/ ~running' /\ Default \in Allowed(AutoStart)]_gatewayVars
  BY StepsGoverned
<1> QED
  BY <1>1, <1>2, LifeInvariant, OrderInvariant, PTL DEF GatewaySpec, AnsweredPutsGovern
=============================================================================
