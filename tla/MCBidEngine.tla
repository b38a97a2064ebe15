----------------------------- MODULE MCBidEngine -----------------------------
(* Small instances of BidEngine for TLC. *)
EXTENDS BidEngine
==============================================================================
