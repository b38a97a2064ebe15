--------------------------- MODULE MCClusterClient ---------------------------
(* Small instances of ClusterClient for TLC: two masters with two slots     *)
(* each or three and one, and a server that may become a third.             *)
EXTENDS ClusterClient

CONSTANTS a, b, c

MCServers == {a, b, c}
MCLayouts == {[s \in 0..3 |-> IF s < 2 THEN a ELSE b], [s \in 0..3 |-> IF s < 3 THEN a ELSE b]}
==============================================================================
