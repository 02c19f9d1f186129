------------------------------ MODULE MCPgJobs ------------------------------
(* Small instances of PgJobs.                                              *)
EXTENDS PgJobs, TLC

CONSTANTS j1, j2, x, cb, cb2, p1, p2, q1, g1, b1, b2, k1

\* Every job on the queue q1.
OnQ1 == [j \in Job |-> q1]

\* No groups; or every job but a callback in the group g1.
Ungrouped == [j \in Job |-> NoGroup]
InG1 == [j \in Job |-> IF j = cb THEN NoGroup ELSE g1]

\* No batches; every job but the callback in the batch b1; or a batch of two
\* and a batch of one, each with its callback.
InNoBatch == [j \in Job |-> NoBatch]
InB1 == [j \in Job |-> IF j = cb THEN NoBatch ELSE b1]
InB1AndB2 == [j \in Job |-> CASE j \in {j1, j2} -> b1
                              [] j = x -> b2
                              [] j \in {cb, cb2} -> NoBatch]

\* No unique keys; or one key for a job of either batch, so that one batch is
\* enqueued short of a job and the other without any.
Keyless == [j \in Job |-> NoKey]
KeyOnJ1AndX == [j \in Job |-> IF j \in {j1, x} THEN k1 ELSE NoKey]

NoCallback == [b \in Batch |-> NoJob]
CallsBack == [b \in Batch |-> cb]
BothCallBack == [b \in Batch |-> IF b = b1 THEN cb ELSE cb2]
AllValid == [b \in Batch |-> TRUE]
NoneValid == [b \in Batch |-> FALSE]

Once == [j \in Job |-> 1]
Twice == [j \in Job |-> 2]
Never == [j \in Job |-> 0]
OnlyJ1 == [j \in Job |-> IF j = j1 THEN 1 ELSE 0]

RuleOfOne == [g \in Group |-> 1]
NoRule == [g \in Group |-> Unlimited]

ProcSymmetry == Permutations(Proc)
=============================================================================
