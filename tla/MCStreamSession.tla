--------------------------- MODULE MCStreamSession ---------------------------
(* StreamSession on a few generations.  The generations are interchangeable, *)
(* which the runs that check no liveness may use.                            *)
EXTENDS StreamSession, TLC

Symmetry == Permutations(Run)
=============================================================================
