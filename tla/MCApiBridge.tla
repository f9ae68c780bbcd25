---------------------------- MODULE MCApiBridge ----------------------------
(* Small instances of ApiBridge for TLC. *)
EXTENDS ApiBridge
=============================================================================
