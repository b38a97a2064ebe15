---------------------------- MODULE MCRecordCount ----------------------------
(* Small instances of RecordCount for TLC: the cluster is whole, or the     *)
(* second day of one policy leads to a node without a connection.           *)
EXTENDS RecordCount

CONSTANTS p1, p2

MCPolicies == {p1, p2}
MCHoles == {{}, {<<p1, 2>>}}
==============================================================================
