----------------------------- MODULE MCPgLanes -----------------------------
(* Small instances of PgLanes.                                             *)
EXTENDS PgLanes, TLC

CONSTANTS j1, j2, j3, j4, q1, g1, g2, c1, c2

\* One queue; all jobs in the group g1, none in a group, or one outside, two in
\* g1 and one in g2.
OnQ1 == [j \in Job |-> q1]
InG1 == [j \in Job |-> g1]
TwoGroups == [j \in Job |-> CASE j = j1 -> NoGroup
                              [] j \in {j2, j3} -> g1
                              [] j = j4 -> g2]
Ungrouped == [j \in Job |-> NoGroup]

NoRule == [g \in Group |-> Unlimited]
RuleOfOne == [g \in Group |-> 1]

\* Rows present before any job: none; or queue cap 2, cap 1 for g1, none for g2.
NoRows == [l \in Lane |-> NoCap]
CapsFromTheStart == [l \in Lane |-> CASE l = q1 -> 2
                                     [] l = g1 -> 1
                                     [] l = g2 -> NoCap]

FetcherSymmetry == Permutations(Fetcher)
=============================================================================
