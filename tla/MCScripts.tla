------------------------------ MODULE MCScripts ------------------------------
(* Model values and bounds for TLC. *)
EXTENDS Scripts, TLC

CONSTANTS w1, w2, c1, c2

MCPhases == {"run", "teardown"}
MCPorts == {10}
MCServes == c1 :> {"start", "remove", "finish"} @@ c2 :> {"start"}
=============================================================================
