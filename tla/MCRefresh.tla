------------------------------- MODULE MCRefresh ------------------------------
(* Small instances of Refresh for TLC: a policy with two creatives, one of   *)
(* which stays, and a policy that stays and has none, of one campaign, which *)
(* may be paused as a whole.                                                 *)
EXTENDS Refresh

CONSTANTS p1, p2, c1, c2, campaign

MCPolicies == {p1, p2}
MCCreatives == {c1, c2}
MCPolicyOf(c) == p1
MCLasting == {p2, c2}
MCIds == {campaign}
MCIdsOf(c) == {campaign}
===============================================================================
