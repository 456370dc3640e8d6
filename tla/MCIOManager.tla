---------------------------- MODULE MCIOManager ----------------------------
(* Instances of IOManager for TLC. *)
EXTENDS IOManager

CONSTANTS w1, w2, f, g
=============================================================================
