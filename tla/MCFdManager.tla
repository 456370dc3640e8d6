---------------------------- MODULE MCFdManager -----------------------------
(* An instance of FdManager for TLC. *)
EXTENDS FdManager

CONSTANTS t1, t2, t3
=============================================================================
