---------------------------- MODULE MCAdSelector ----------------------------
(* Small instances of AdSelector for TLC. *)
EXTENDS AdSelector
==============================================================================
