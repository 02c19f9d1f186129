----------------------------- MODULE MCRedisJobs -----------------------------
(* Small instances of RedisJobs.                                           *)
EXTENDS RedisJobs, TLC

CONSTANTS j1, j2, p1, p2, q1, g1, k1

OnQ1 == [j \in Job |-> q1]
Ungrouped == [j \in Job |-> NoGroup]
InG1 == [j \in Job |-> g1]
Keyless == [j \in Job |-> NoKey]
Keyed == [j \in Job |-> k1]

NoRule == [g \in Group |-> Unlimited]
RuleOfOne == [g \in Group |-> 1]

Never == [j \in Job |-> 0]
Once == [j \in Job |-> 1]
OnlyJ2 == [j \in Job |-> IF j = j2 THEN 1 ELSE 0]
Twice == [j \in Job |-> 2]

\* Retention rules.
KeepAll == [remove |-> FALSE, age |-> FALSE, count |-> NoCount]
Remove == [remove |-> TRUE, age |-> FALSE, count |-> NoCount]
KeepOne == [remove |-> FALSE, age |-> FALSE, count |-> 1]
KeepNone == [remove |-> FALSE, age |-> FALSE, count |-> 0]
ByAge == [remove |-> FALSE, age |-> TRUE, count |-> NoCount]

AllKept == [j \in Job |-> KeepAll]
AllRemoved == [j \in Job |-> Remove]
\* One job keeps the newest entry of its queue, the other prunes by age.
Mixed == [j \in Job |-> IF j = j1 THEN KeepOne ELSE ByAge]
MixedFail == [j \in Job |-> IF j = j1 THEN Remove ELSE KeepNone]
=============================================================================
