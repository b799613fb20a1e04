-------------------------- MODULE ConfigStoreProofs --------------------------
(* Proofs about ConfigStore for any settings, values and number of calls.    *)
EXTENDS ConfigStore, TLAPS

\* What the code relies on: one PUT at a time, and a blob that can be read.
Disciplined == ~Concurrent /\ ~LoadMayFail

\* The inductive invariant says what a PUT's progress means for the memory, its
\* body and the blob, and that the defaults stay promised until a blob is written.
OnePut == \A c, d \in InProgress : c = d

PutSoFar(c) ==
  /\ up
  /\ payload[c] \in Payload
  /\ \A f \in DOMAIN payload[c] : settings[f] = payload[c][f]
  /\ pc[c] \in {"uploading", "uploaded"} => body[c] = settings
  /\ pc[c] = "uploaded" => blob = settings

NothingWritten == blob = Absent => \A f \in Field : Default \in promised[f]

ConfigInv ==
  /\ TypeOK /\ OnePut /\ NothingWritten
  /\ \A c \in InProgress : PutSoFar(c)
  /\ AnsweredPersists /\ AnsweredInForce

-----------------------------------------------------------------------------
LEMMA PayloadIs ==
  ASSUME NEW p \in Payload
  PROVE  /\ DOMAIN p \subseteq Field /\ DOMAIN p # {}
         /\ \A f \in DOMAIN p : p[f] \in Value
BY DEF Payload

LEMMA AbsentIs == DOMAIN Absent = {} /\ Absent \notin Setting
BY ValueAssumption DEF Absent, Setting

LEMMA DefaultsIs == Defaults \in Setting /\ \A f \in Field : Defaults[f] = Default
BY ValueAssumption DEF Defaults, Setting

\* apply_dict() yields settings, and overwrites exactly what the payload names.
LEMMA AppliedIs ==
  ASSUME NEW cur \in Setting, NEW ch \in Payload \cup {Absent} \cup Setting
  PROVE  /\ Applied(cur, ch) \in Setting
         /\ \A f \in Field : Applied(cur, ch)[f] =
              IF f \in DOMAIN ch THEN ch[f] ELSE cur[f]
         /\ ch \in Setting => Applied(cur, ch) = ch
<1>1. \A f \in DOMAIN ch : ch[f] \in Value
  BY PayloadIs, AbsentIs DEF Setting
<1> QED
  BY <1>1 DEF Applied, Setting

LEMMA ConfigInit == Init => ConfigInv
<1> SUFFICES ASSUME Init
             PROVE  ConfigInv
  OBVIOUS
<1>1. InProgress = {}
  BY DEF Init, InProgress
<1>2. TypeOK
  BY DefaultsIs, ValueAssumption DEF Init, TypeOK
<1>3. NothingWritten
  BY DEF Init, NothingWritten
<1>4. AnsweredPersists /\ AnsweredInForce
  BY DEF Init, AnsweredPersists, AnsweredInForce
<1> QED
  BY <1>1, <1>2, <1>3, <1>4 DEF ConfigInv, OnePut

-----------------------------------------------------------------------------
LEMMA UnsettledIs ==
  ASSUME TypeOK, NEW f \in Field, NEW cs \in SUBSET Call
  PROVE  /\ Unsettled(f, cs) \subseteq Value
         /\ \A v : v \in Unsettled(f, cs) <=>
              \E d \in cs : f \in DOMAIN payload[d] /\ v = payload[d][f]
<1>1. \A d \in cs : payload[d] \in Payload \cup {Absent}
  BY DEF TypeOK
<1>2. \A d \in cs : f \in DOMAIN payload[d] => payload[d][f] \in Value
  BY <1>1, PayloadIs, AbsentIs
<1> QED
  BY <1>2 DEF Unsettled

LEMMA StepTypes == TypeOK /\ [Next]_vars => TypeOK'
<1> SUFFICES ASSUME TypeOK, [Next]_vars
             PROVE  TypeOK'
  OBVIOUS
<1> USE DEF TypeOK
<1>1. CASE Boot
  <2>1. settings' \in Setting /\ blob' \in Setting \cup {Absent}
    BY <1>1, AppliedIs, DefaultsIs DEF Boot
  <2> QED
    BY <1>1, <2>1 DEF Boot
<1>2. CASE Crash
  <2>1. settings' \in Setting
    BY <1>2, DefaultsIs DEF Crash
  <2>2. promised' \in [Field -> SUBSET Value]
    BY <1>2, UnsettledIs DEF Crash, InProgress
  <2> QED
    BY <1>2, <2>1, <2>2 DEF Crash, Forgotten
<1>3. ASSUME NEW c \in Call, NEW changes \in Payload, PutApplies(c, changes)
      PROVE  TypeOK'
  <2>1. settings' \in Setting
    BY <1>3, AppliedIs DEF PutApplies
  <2> QED
    BY <1>3, <2>1 DEF PutApplies
<1>4. ASSUME NEW c \in Call, PutSerialises(c)
      PROVE  TypeOK'
  BY <1>4 DEF PutSerialises, Serialised
<1>5. ASSUME NEW c \in Call, PutUploads(c)
      PROVE  TypeOK'
  BY <1>5 DEF PutUploads
<1>6. ASSUME NEW c \in Call, PutAnswered(c)
      PROVE  TypeOK'
  <2>1. \A f \in DOMAIN payload[c] : payload[c][f] \in Value
    BY PayloadIs, AbsentIs
  <2>2. promised' \in [Field -> SUBSET Value]
    BY <1>6, <2>1, UnsettledIs DEF PutAnswered, InProgress
  <2> QED
    BY <1>6, <2>2 DEF PutAnswered, Forgotten
<1>7. ASSUME NEW c \in Call, PutFails(c)
      PROVE  TypeOK'
  <2>1. promised' \in [Field -> SUBSET Value]
    BY <1>7, UnsettledIs DEF PutFails
  <2> QED
    BY <1>7, <2>1 DEF PutFails, Forgotten
<1>8. CASE UNCHANGED vars
  BY <1>8 DEF vars
<1> QED
  BY <1>1, <1>2, <1>3, <1>4, <1>5, <1>6, <1>7, <1>8 DEF Next

\* The variables keep their types, whatever PUTs overlap and whatever fails.
THEOREM TypeCorrect == Spec => []TypeOK
<1>1. Init => TypeOK
  BY ConfigInit DEF ConfigInv
<1> QED
  BY <1>1, StepTypes, PTL DEF Spec

-----------------------------------------------------------------------------
LEMMA ConfigStep == Disciplined /\ ConfigInv /\ [Next]_vars => ConfigInv'
<1> SUFFICES ASSUME Disciplined, ConfigInv, [Next]_vars
             PROVE  ConfigInv'
  OBVIOUS
<1>t. TypeOK /\ TypeOK'
  BY StepTypes DEF ConfigInv
<1>a. settings \in Setting /\ (blob # Absent => blob \in Setting)
  BY <1>t DEF TypeOK
<1>1. CASE Boot
  <2>1. InProgress = {} /\ InProgress' = {}
    BY <1>1 DEF Boot, ConfigInv, PutSoFar, InProgress
  <2>2. \A f \in Field : settings'[f] \in promised[f]
    <3>1. CASE blob # Absent /\ settings' = Applied(Defaults, blob)
      BY <3>1, <2>1 DEF ConfigInv, AnsweredPersists, Unsettled
    <3>2. CASE blob = Absent /\ settings' = Defaults
      BY <3>2, DefaultsIs DEF ConfigInv, NothingWritten
    <3> QED
      BY <1>1, <3>1, <3>2 DEF Boot, Disciplined
  <2>3. \A f \in Field : blob' # Absent => Applied(Defaults, blob')[f] \in promised[f]
    <3>1. CASE blob' = blob
      BY <3>1, <2>1 DEF ConfigInv, AnsweredPersists, Unsettled
    <3>2. CASE blob = Absent /\ blob' = Defaults
      BY <3>2, DefaultsIs, AppliedIs DEF ConfigInv, NothingWritten
    <3> QED
      BY <1>1, <3>1, <3>2 DEF Boot
  <2>4. NothingWritten'
    BY <1>1, DefaultsIs, AbsentIs DEF Boot, ConfigInv, NothingWritten
  <2>5. AnsweredPersists' /\ AnsweredInForce'
    BY <1>1, <2>2, <2>3 DEF Boot, AnsweredPersists, AnsweredInForce
  <2> QED
    BY <1>t, <2>1, <2>4, <2>5 DEF ConfigInv, OnePut
<1>2. CASE Crash
  <2>1. InProgress' = {}
    BY <1>2, <1>t DEF Crash, Forgotten, InProgress, TypeOK
  <2>2. \A f \in Field : promised'[f] = promised[f] \cup Unsettled(f, InProgress)
    BY <1>2 DEF Crash
  <2>3. NothingWritten' /\ AnsweredPersists' /\ AnsweredInForce'
    BY <1>2, <2>2 DEF Crash, ConfigInv, NothingWritten, AnsweredPersists,
                      AnsweredInForce
  <2> QED
    BY <1>t, <2>1, <2>3 DEF ConfigInv, OnePut
<1>3. ASSUME NEW c \in Call, NEW changes \in Payload, PutApplies(c, changes)
      PROVE  ConfigInv'
  <2>1. InProgress = {} /\ InProgress' = {c}
    BY <1>3, <1>t DEF PutApplies, Disciplined, InProgress, TypeOK
  <2>2. payload'[c] = changes
    BY <1>3, <1>t DEF PutApplies, TypeOK
  <2>3. \A f \in Field : settings'[f] =
          IF f \in DOMAIN changes THEN changes[f] ELSE settings[f]
    BY <1>3, <1>a, AppliedIs DEF PutApplies
  <2>4. \A f \in DOMAIN changes : f \in Field
    BY PayloadIs
  <2>5. PutSoFar(c)'
    BY <1>3, <1>t, <2>2, <2>3, <2>4 DEF PutApplies, PutSoFar, TypeOK
  <2>6. \A f \in Field : (Unsettled(f, InProgress))' =
          IF f \in DOMAIN changes THEN {changes[f]} ELSE {}
    BY <2>1, <2>2 DEF Unsettled
  <2>7. \A f \in Field : Unsettled(f, InProgress) = {}
    BY <2>1 DEF Unsettled
  <2>8. AnsweredPersists'
    BY <1>3, <2>7 DEF PutApplies, ConfigInv, AnsweredPersists
  <2>9. AnsweredInForce'
    BY <1>3, <2>3, <2>6, <2>7 DEF PutApplies, ConfigInv, AnsweredInForce
  <2> QED
    BY <1>3, <1>t, <2>1, <2>5, <2>8, <2>9
    DEF PutApplies, ConfigInv, OnePut, NothingWritten
<1>4. ASSUME NEW c \in Call, PutSerialises(c)
      PROVE  ConfigInv'
  <2>1. InProgress = {c} /\ InProgress' = {c}
    BY <1>4, <1>t DEF PutSerialises, ConfigInv, OnePut, InProgress, TypeOK
  <2>2. PutSoFar(c)'
    BY <1>4, <1>t, <2>1 DEF PutSerialises, Serialised, ConfigInv, PutSoFar, TypeOK
  <2>3. \A f \in Field : (Unsettled(f, InProgress))' = Unsettled(f, InProgress)
    BY <1>4, <2>1 DEF PutSerialises, Unsettled
  <2>4. AnsweredPersists' /\ AnsweredInForce' /\ NothingWritten'
    BY <1>4, <2>3
    DEF PutSerialises, ConfigInv, AnsweredPersists, AnsweredInForce, NothingWritten
  <2> QED
    BY <1>t, <2>1, <2>2, <2>4 DEF ConfigInv, OnePut
<1>5. ASSUME NEW c \in Call, PutUploads(c)
      PROVE  ConfigInv'
  <2>1. InProgress = {c} /\ InProgress' = {c}
    BY <1>5, <1>t DEF PutUploads, ConfigInv, OnePut, InProgress, TypeOK
  <2>2. blob' = settings /\ up
    BY <1>5, <2>1 DEF PutUploads, ConfigInv, PutSoFar
  <2>3. PutSoFar(c)'
    BY <1>5, <1>t, <2>1, <2>2 DEF PutUploads, ConfigInv, PutSoFar, TypeOK
  <2>4. \A f \in Field : (Unsettled(f, InProgress))' = Unsettled(f, InProgress)
    BY <1>5, <2>1 DEF PutUploads, Unsettled
  <2>5. blob' # Absent /\ \A f \in Field : Applied(Defaults, blob')[f] = settings[f]
    BY <1>a, <2>2, AbsentIs, AppliedIs, DefaultsIs
  <2>6. AnsweredPersists' /\ AnsweredInForce' /\ NothingWritten'
    BY <1>5, <2>2, <2>4, <2>5
    DEF PutUploads, ConfigInv, AnsweredPersists, AnsweredInForce, NothingWritten
  <2> QED
    BY <1>t, <2>1, <2>3, <2>6 DEF ConfigInv, OnePut
<1>6. ASSUME NEW c \in Call, PutAnswered(c)
      PROVE  ConfigInv'
  <2>1. InProgress = {c} /\ InProgress' = {}
    BY <1>6, <1>t DEF PutAnswered, Forgotten, ConfigInv, OnePut, InProgress, TypeOK
  <2>2. up /\ blob = settings /\ \A f \in DOMAIN payload[c] : settings[f] = payload[c][f]
    BY <1>6, <2>1 DEF PutAnswered, ConfigInv, PutSoFar
  <2>3. \A f \in Field : f \notin DOMAIN payload[c] => Unsettled(f, InProgress) = {}
    BY <2>1 DEF Unsettled
  <2>4. \A f \in Field : settings[f] \in promised'[f]
    BY <1>6, <2>2, <2>3 DEF PutAnswered, ConfigInv, AnsweredInForce
  <2>5. blob # Absent /\ \A f \in Field : Applied(Defaults, blob)[f] = settings[f]
    BY <1>a, <2>2, AbsentIs, AppliedIs, DefaultsIs
  <2>6. AnsweredPersists' /\ AnsweredInForce' /\ NothingWritten'
    BY <1>6, <2>4, <2>5 DEF PutAnswered, AnsweredPersists, AnsweredInForce, NothingWritten
  <2> QED
    BY <1>t, <2>1, <2>6 DEF ConfigInv, OnePut
<1>7. ASSUME NEW c \in Call, PutFails(c)
      PROVE  ConfigInv'
  <2>1. InProgress = {c} /\ InProgress' = {}
    BY <1>7, <1>t DEF PutFails, Forgotten, ConfigInv, OnePut, InProgress, TypeOK
  <2>2. \A f \in Field : promised'[f] = promised[f] \cup Unsettled(f, InProgress)
    BY <1>7, <2>1 DEF PutFails
  <2>3. AnsweredPersists' /\ AnsweredInForce' /\ NothingWritten'
    BY <1>7, <2>2
    DEF PutFails, ConfigInv, AnsweredPersists, AnsweredInForce, NothingWritten
  <2> QED
    BY <1>t, <2>1, <2>3 DEF ConfigInv, OnePut
<1>8. CASE UNCHANGED vars
  BY <1>8, <1>t DEF vars, ConfigInv, OnePut, NothingWritten, InProgress, PutSoFar,
                    AnsweredPersists, AnsweredInForce, Unsettled
<1> QED
  BY <1>1, <1>2, <1>3, <1>4, <1>5, <1>6, <1>7, <1>8 DEF Next

\* The invariant holds throughout when PUTs are serial and the blob readable.
THEOREM ConfigInvariant == Disciplined => (Spec => []ConfigInv)
<1> SUFFICES ASSUME Disciplined
             PROVE  Spec => []ConfigInv
  OBVIOUS
<1>1. ConfigInv /\ [Next]_vars => ConfigInv'
  BY ConfigStep
<1> QED
  BY <1>1, ConfigInit, PTL DEF Spec

\* A 200 from PUT /admin/config means that the next start loads that setting,
\* or a later PUT's: with one PUT at a time and a blob that can be read, across
\* crashes at any point and uploads that fail.
THEOREM AnsweredPersistsHolds == Disciplined => (Spec => []AnsweredPersists)
<1>1. ConfigInv => AnsweredPersists
  BY DEF ConfigInv
<1> QED
  BY <1>1, ConfigInvariant, PTL

\* A running process with no PUT in progress is in the settings that an answered
\* PUT left or a failed one applied, under the same two conditions.
THEOREM AnsweredInForceHolds == Disciplined => (Spec => []AnsweredInForce)
<1>1. ConfigInv => AnsweredInForce
  BY DEF ConfigInv
<1> QED
  BY <1>1, ConfigInvariant, PTL
=============================================================================
