---------------------------- MODULE ConfigStore ----------------------------
(* The settings: core/config.py in memory, core/gcs_config.py's blob, PUT    *)
(* /admin/config in services/admin.py, and restarts.                         *)
(*                                                                           *)
(* put_config() is a plain function, so each call runs in a thread of its    *)
(* own: apply_dict() and settings_to_dict() are atomic under config._lock,   *)
(* the upload in between them and the answer is not.                         *)
EXTENDS Naturals, FiniteSets

CONSTANTS
  Call,           \* PUT /admin/config calls in progress
  Field, Value,   \* editable settings and what they may be set to
  Default,        \* the value a field has in the code
  Concurrent,     \* TRUE: PUTs of different settings may be in progress at once
  LoadMayFail     \* TRUE: the blob may be unreadable when the process starts

ASSUME ValueAssumption == Default \in Value /\ Field # {}
ASSUME ModeAssumption == Concurrent \in BOOLEAN /\ LoadMayFail \in BOOLEAN

VARIABLES
  up,        \* the process runs
  settings,  \* config._current
  blob,      \* the blob's settings, Absent before the first write
  pc,        \* pc[c]: how far the call has got
  payload,   \* payload[c]: its changes
  body,      \* body[c]: the serialised settings it uploads
  promised   \* promised[f]: the values an answered PUT leaves f with

vars == <<up, settings, blob, pc, payload, body, promised>>

Setting == [Field -> Value]
Defaults == [f \in Field |-> Default]
Absent == [f \in {} |-> Default]
Payload == UNION {[S -> Value] : S \in (SUBSET Field) \ {{}}}

Init ==
  /\ up = FALSE
  /\ settings = Defaults /\ blob = Absent
  /\ pc = [c \in Call |-> "idle"]
  /\ payload = [c \in Call |-> Absent] /\ body = [c \in Call |-> Absent]
  /\ promised = [f \in Field |-> {Default}]

InProgress == {c \in Call : pc[c] # "idle"}

-----------------------------------------------------------------------------
\* Mutant: a field the payload leaves out goes back to its default.
AppliedOverDefaults(current, changes) ==
  [f \in Field |-> IF f \in DOMAIN changes THEN changes[f] ELSE Default]

\* apply_dict().
Applied(current, changes) ==
  [f \in Field |-> IF f \in DOMAIN changes THEN changes[f] ELSE current[f]]

\* load_config_from_gcs() as the process starts: the blob when there is one,
\* the defaults written when there is none, the defaults kept when it fails.
Boot ==
  /\ ~up /\ up' = TRUE
  /\ \/ /\ blob # Absent
        /\ settings' = Applied(Defaults, blob)
        /\ UNCHANGED blob
     \/ /\ blob = Absent
        /\ settings' = Defaults /\ blob' = Defaults
     \/ /\ LoadMayFail \/ blob = Absent
        /\ settings' = Defaults
        /\ UNCHANGED blob
  /\ UNCHANGED <<pc, payload, body, promised>>

\* put_config() up to the end of apply_dict().
PutApplies(c, changes) ==
  /\ up /\ pc[c] = "idle"
  /\ \A d \in InProgress : Concurrent /\ DOMAIN payload[d] \cap DOMAIN changes = {}
  /\ settings' = Applied(settings, changes)
  /\ pc' = [pc EXCEPT ![c] = "applied"]
  /\ payload' = [payload EXCEPT ![c] = changes]
  /\ UNCHANGED <<up, blob, body, promised>>

\* Mutant: only the changes are written.
SerialisedChanges(c) == payload[c]

\* What save_config_to_gcs() uploads.
Serialised(c) == settings

\* settings_to_dict() on the way to the upload.
PutSerialises(c) ==
  /\ pc[c] = "applied"
  /\ body' = [body EXCEPT ![c] = Serialised(c)]
  /\ pc' = [pc EXCEPT ![c] = "uploading"]
  /\ UNCHANGED <<up, settings, blob, payload, promised>>

\* The upload reaches the blob.
PutUploads(c) ==
  /\ pc[c] = "uploading"
  /\ blob' = body[c]
  /\ pc' = [pc EXCEPT ![c] = "uploaded"]
  /\ UNCHANGED <<up, settings, payload, body, promised>>

Forgotten(cs) ==
  /\ pc' = [c \in Call |-> IF c \in cs THEN "idle" ELSE pc[c]]
  /\ payload' = [c \in Call |-> IF c \in cs THEN Absent ELSE payload[c]]
  /\ body' = [c \in Call |-> IF c \in cs THEN Absent ELSE body[c]]

\* What may be in the blob for f from other calls that change it.
Unsettled(f, cs) == {payload[d][f] : d \in {e \in cs : f \in DOMAIN payload[e]}}

\* 200: the call's changes are in memory and in GCS.
PutAnswered(c) ==
  /\ pc[c] = "uploaded"
  /\ promised' = [f \in Field |-> IF f \in DOMAIN payload[c]
                                  THEN {payload[c][f]} \cup Unsettled(f, InProgress)
                                  ELSE promised[f]]
  /\ Forgotten({c})
  /\ UNCHANGED <<up, settings, blob>>

\* 502: the upload failed, before the blob changed or after it.  The changes
\* stay in memory, and may be persisted by this call or by a later one.
PutFails(c) ==
  /\ pc[c] \in {"applied", "uploading", "uploaded"}
  /\ promised' = [f \in Field |-> promised[f] \cup Unsettled(f, {c})]
  /\ Forgotten({c})
  /\ UNCHANGED <<up, settings, blob>>

\* The process ends, at any point of its calls.
Crash ==
  /\ up /\ up' = FALSE
  /\ settings' = Defaults
  /\ promised' = [f \in Field |-> promised[f] \cup Unsettled(f, InProgress)]
  /\ Forgotten(Call)
  /\ UNCHANGED blob

Next ==
  \/ Boot \/ Crash
  \/ \E c \in Call, changes \in Payload : PutApplies(c, changes)
  \/ \E c \in Call : PutSerialises(c) \/ PutUploads(c) \/ PutAnswered(c) \/ PutFails(c)

Spec == Init /\ [][Next]_vars

-----------------------------------------------------------------------------
TypeOK ==
  /\ up \in BOOLEAN /\ settings \in Setting /\ blob \in Setting \cup {Absent}
  /\ pc \in [Call -> {"idle", "applied", "uploading", "uploaded"}]
  /\ payload \in [Call -> Payload \cup {Absent}]
  /\ body \in [Call -> Setting \cup {Absent}]
  /\ promised \in [Field -> SUBSET Value]

\* The setting a PUT was answered 200 for is in the blob, or the value of a PUT
\* that came later: what the next start loads ("PUT /admin/config persists
\* immediately").  Only a call in progress may be about to replace it.
AnsweredPersists ==
  \A f \in Field :
    blob # Absent =>
      Applied(Defaults, blob)[f] \in promised[f] \cup Unsettled(f, InProgress)

\* A process that runs with no PUT in progress shows what an answered PUT left,
\* or what a failed one did ("change still applies").
AnsweredInForce ==
  up => \A f \in Field : settings[f] \in promised[f] \cup Unsettled(f, InProgress)
=============================================================================
