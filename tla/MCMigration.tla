----------------------------- MODULE MCMigration -----------------------------
(* Instances of Migration for TLC.  The names are V1__users, V2__orders and   *)
(* V10__audit: as strings V10 comes before V2, as versions after it.  One     *)
(* replica is an older build that does not have V10.                          *)
EXTENDS Migration

CONSTANTS r1, r2, r3, v1, v2, v10, base

MCReplicas == {r1, r2, r3}
MCNames == {v1, v2, v10}
MCParts == [m \in MCNames \cup {base} |->
              CASE m = v1 -> <<1>> [] m = v2 -> <<2>> [] m = v10 -> <<10>> [] m = base -> <<1, 5>>]
\* V1 < V1.5 < V10__audit < V1__users < V2 < V2__orders as strings
MCRank == [m \in MCNames \cup {base} |->
              CASE m = v1 -> 4 [] m = v2 -> 6 [] m = v10 -> 3 [] m = base -> 2]
MCCoded == [r \in Replicas |-> <<v1>>]
MCFiles == [r \in Replicas |->
              {[stem |-> v2, undo |-> FALSE], [stem |-> v2, undo |-> TRUE]}
              \cup IF r = r2 THEN {} ELSE {[stem |-> v10, undo |-> u] : u \in BOOLEAN}]
MCSum == [r \in Replicas |-> [m \in MCNames |-> IF m = v1 THEN 0 ELSE 1]]
=============================================================================
