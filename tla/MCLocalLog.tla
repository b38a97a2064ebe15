----------------------------- MODULE MCLocalLog -----------------------------
(* Small instances of LocalLog for TLC. *)
EXTENDS LocalLog
==============================================================================
