------------------------------ MODULE TokenLine ------------------------------
(* What a session store promises: its tokens come from one line of logins.   *)
(* One login at a time is under way, nothing but it brings a token, and a    *)
(* token that was lost, or that nobody waited for, never comes back.         *)
EXTENDS Naturals

VARIABLES
  current,  \* the token in the store: the login that obtained it, 0 for none
  asked,    \* logins asked for so far
  pending   \* the login under way, 0 for none

Init == current = 0 /\ asked = 0 /\ pending = 0

Ask ==
  /\ pending = 0
  /\ asked' = asked + 1 /\ pending' = asked + 1
  /\ UNCHANGED current

Obtain ==
  /\ pending # 0
  /\ current' = pending /\ pending' = 0
  /\ UNCHANGED asked

GiveUp ==
  /\ pending # 0
  /\ pending' = 0
  /\ UNCHANGED <<current, asked>>

Lose ==
  /\ current # 0
  /\ current' = 0
  /\ UNCHANGED <<asked, pending>>

Next == Ask \/ Obtain \/ GiveUp \/ Lose

Spec == Init /\ [][Next]_<<current, asked, pending>>
=============================================================================
