---------------------------- MODULE MCFirstPrompt ----------------------------
(* Model values for TLC. *)
EXTENDS FirstPrompt, TLC

CONSTANTS s1, s2, s3, c1, c2

MCSessions == {s1, s2, s3}
=============================================================================
