---------------------------- MODULE MCSerializer ----------------------------
(* Instances of Serializer for TLC. *)
EXTENDS Serializer
=============================================================================
