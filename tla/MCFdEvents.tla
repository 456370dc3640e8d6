---------------------------- MODULE MCFdEvents -----------------------------
(* Instances of FdEvents for TLC. *)
EXTENDS FdEvents

CONSTANTS f1, f2, x, y, p1, p2
=============================================================================
