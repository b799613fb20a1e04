----------------------------- MODULE ForwardFeed -----------------------------
(* What the feed of a market promises each of its consumers: snapshots of    *)
(* states the market was in, never an older one after a newer one.  It does  *)
(* not promise every state: slow consumers and lost connections skip some.   *)
EXTENDS Naturals

CONSTANT Viewer

VARIABLES
  current,  \* the number of changes the market has been through
  seen      \* seen[c]: the state c was shown last, 0 for none

Init == current \in Nat /\ seen = [c \in Viewer |-> 0]

MarketChanges == current' = current + 1 /\ UNCHANGED seen

Shows(c) ==
  /\ \E n \in (seen[c] + 1)..current : seen' = [seen EXCEPT ![c] = n]
  /\ UNCHANGED current

Next == MarketChanges \/ \E c \in Viewer : Shows(c)

Spec == Init /\ [][Next]_<<current, seen>>
=============================================================================
