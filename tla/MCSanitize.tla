---------------------------- MODULE MCSanitize ----------------------------
(* Sanitize for TLC: the constants are in the configurations. *)
EXTENDS Sanitize
=============================================================================
