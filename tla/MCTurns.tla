------------------------------ MODULE MCTurns ------------------------------
(* Model values for TLC. *)
EXTENDS Turns, TLC

CONSTANTS s1, s2, t1, t2, r1, c1
=============================================================================
