------------------------------ MODULE MCHttpPool ------------------------------
(* Instances of HttpPool for TLC. *)
EXTENDS HttpPool

CONSTANTS p1, p2, d1
===============================================================================
