------------------------------- MODULE MCDaemon -------------------------------
(* Instances of Daemon for TLC. *)
EXTENDS Daemon

CONSTANTS l1, l2, l3
===============================================================================
