----------------------------- MODULE MCTcpServer ------------------------------
(* Instances of TcpServer for TLC. *)
EXTENDS TcpServer

CONSTANTS a1, a2
===============================================================================
