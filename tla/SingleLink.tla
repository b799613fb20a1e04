----------------------------- MODULE SingleLink -----------------------------
(* What the LIVE stream session promises the rest of the gateway, without   *)
(* tasks, cancellations or events: one Betfair connection at most, opened   *)
(* only while the stream is wanted, and a session that is over only when    *)
(* its connection is gone.  StreamSession implements it when start and stop *)
(* requests do not overlap.                                                 *)
CONSTANT Owner          \* the identities a connection can have

VARIABLES wanted,       \* the operator has asked for the stream
          active,       \* some session work is still going on
          links         \* the connections that exist, each with its phase

linkVars == <<wanted, active, links>>

Phase == {"opening", "open", "closing"}

Init ==
  /\ wanted = FALSE
  /\ active = FALSE
  /\ links = {}

Start ==
  /\ ~wanted /\ ~active
  /\ wanted' = TRUE
  /\ active' = TRUE
  /\ UNCHANGED links

\* A new connection is dialled only when no other one exists.
Dial ==
  /\ wanted
  /\ links = {}
  /\ \E o \in Owner : links' = {<<o, "opening">>}
  /\ UNCHANGED <<wanted, active>>

Open ==
  /\ wanted
  /\ \E o \in Owner : links = {<<o, "opening">>} /\ links' = {<<o, "open">>}
  /\ UNCHANGED <<wanted, active>>

Drop ==
  /\ \E o \in Owner, p \in {"opening", "open"} :
       links = {<<o, p>>} /\ links' = {<<o, "closing">>}
  /\ UNCHANGED <<wanted, active>>

Closed ==
  /\ \E o \in Owner : links = {<<o, "closing">>}
  /\ links' = {}
  /\ UNCHANGED <<wanted, active>>

\* The request to stop hangs the connection up in the same step.
Stop ==
  /\ wanted
  /\ wanted' = FALSE
  /\ links' = {<<l[1], "closing">> : l \in links}
  /\ UNCHANGED active

Quiesce ==
  /\ ~wanted /\ active
  /\ links = {}
  /\ active' = FALSE
  /\ UNCHANGED <<wanted, links>>

Next == Start \/ Dial \/ Open \/ Drop \/ Closed \/ Stop \/ Quiesce

Spec == Init /\ [][Next]_linkVars
=============================================================================
