----------------------------- MODULE MCServerLog -----------------------------
(* Small instances of ServerLog for TLC. *)
EXTENDS ServerLog
==============================================================================
