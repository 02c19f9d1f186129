----------------------------- MODULE MCPgLeader -----------------------------
(* Small instances of PgLeader.                                            *)
EXTENDS PgLeader, TLC

CONSTANTS n1, n2, n3

NodeSymmetry == Permutations(Node)
=============================================================================
