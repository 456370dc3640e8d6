------------------------------ MODULE MCHookIo ------------------------------
(* Instances of HookIo for TLC. *)
EXTENDS HookIo

CONSTANTS f, g
=============================================================================
