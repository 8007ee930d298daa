---------------------------- MODULE MCProfileLog ----------------------------
(* ProfileLog for TLC. *)
EXTENDS ProfileLog
=============================================================================
