---------------------------- MODULE MCDoubleCache ----------------------------
(* Small instances of DoubleCache for TLC. *)
EXTENDS DoubleCache
==============================================================================
