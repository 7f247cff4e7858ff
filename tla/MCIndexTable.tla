---------------------------- MODULE MCIndexTable ----------------------------
(* Two tables with two indices and two rows each. *)
EXTENDS IndexTable

CONSTANTS accounts, markets, p1, p2, k1, k2, k3

MCTables == {accounts, markets}

(* names that differ before their last character *)
MCStem == [t \in MCTables |-> t]

=============================================================================
