------------------------------ MODULE PgLanes ------------------------------
(***************************************************************************)
(* Concurrency budgets of the Postgres backend, statement by statement:    *)
(* the claim transaction with its row locks, the transactions that give a  *)
(* slot back, the admin statements, rule materialisation and the           *)
(* reconciliation of counters.                                             *)
(*                                                                         *)
(* READ COMMITTED.  `jobs' and `lanes' hold committed rows.  A transaction *)
(* that writes a row holds its lock until it commits, so its writes are    *)
(* applied at the commit; the key of a row being inserted is locked too,   *)
(* although nobody sees the row yet.                                       *)
(***************************************************************************)
EXTENDS Integers, FiniteSets

CONSTANTS
    Job, Queue, Group, NoGroup,
    QueueOf, GroupOf,
    Fetcher,      \* processes that claim
    Reconciler,   \* the transaction of reconcile_counters
    Free,         \* no lock holder
    RuleCap,      \* cap of the group rule that matches; Unlimited: no rule
    InitialCap,   \* cap of a row set up before any job; NoCap: no row
    NoCap,
    Operable,     \* lanes an operator administers, and the caps it may set
    Caps,
    BatchSize,    \* most jobs one claim takes
    Reconciles    \* does reconcile_counters run?

Unlimited == 2147483647
Lane == Queue \cup Group
Txn == Fetcher \cup Job \cup {Reconciler} \* a job: the one that finishes it

ASSUME LaneConstants ==
    /\ IsFiniteSet(Job) /\ IsFiniteSet(Queue) /\ IsFiniteSet(Group)
    /\ Queue \cap Group = {} /\ NoGroup \notin Lane
    /\ QueueOf \in [Job -> Queue] /\ GroupOf \in [Job -> Group \cup {NoGroup}]
    /\ Free \notin Txn /\ NoCap \notin Nat
    /\ Fetcher \cap Job = {} /\ Reconciler \notin Fetcher \cup Job
    /\ RuleCap \in [Group -> Nat]
    /\ InitialCap \in [Lane -> Nat \cup {NoCap}]
    /\ Operable \subseteq Lane /\ Caps \subseteq Nat
    /\ BatchSize \in Nat /\ Reconciles \in BOOLEAN

VARIABLES
    jobs,           \* state of each row of eddyq_jobs
    lanes,          \* rows of eddyq_queues and eddyq_groups
    jobLock,        \* who holds the row lock of a job
    lock,           \* who holds the row lock (or the key) of a lane
    fetch,          \* the claim transaction of each fetcher
    finish,         \* the transaction that settles each job
    unmaterialised, \* enqueued jobs whose rule statement has not run yet
    reconcile       \* the transaction of reconcile_counters

vars == <<jobs, lanes, jobLock, lock, fetch, finish, unmaterialised, reconcile>>

JobsOf(l) == {j \in Job : QueueOf[j] = l \/ GroupOf[j] = l}
LanesOf(S) == {l \in Lane : S \cap JobsOf(l) # {}}
Running(l) == {j \in JobsOf(l) : jobs[j] = "running"}

NoFetch ==
    [pc |-> "idle", binding |-> {}, keys |-> {}, accepted |-> {},
     todo |-> {}, written |-> {}, budget |-> [l \in Lane |-> 0]]
NoReconcile == [pc |-> "idle", actual |-> [l \in Lane |-> 0], todo |-> {}]

Init ==
    /\ jobs = [j \in Job |-> "absent"]
    /\ lanes = [l \in Lane |->
                   [row |-> InitialCap[l] # NoCap, running_count |-> 0,
                    max_concurrency |-> IF InitialCap[l] = NoCap THEN Unlimited
                                        ELSE InitialCap[l],
                    paused |-> FALSE]]
    /\ jobLock = [j \in Job |-> Free]
    /\ lock = [l \in Lane |-> Free]
    /\ fetch = [c \in Fetcher |-> NoFetch]
    /\ finish = [j \in Job |-> "idle"]
    /\ unmaterialised = {}
    /\ reconcile = NoReconcile

\* Locks: wait for a row, give all of a transaction's rows back.
CanLock(l, t) == lock[l] \in {Free, t}
Locked(L, t) == [l \in Lane |-> IF l \in L THEN t ELSE lock[l]]
Unlocked(t) == [l \in Lane |-> IF lock[l] = t THEN Free ELSE lock[l]]
JobsLocked(S, t) == [j \in Job |-> IF j \in S THEN t ELSE jobLock[j]]
JobsUnlocked(t) == [j \in Job |-> IF jobLock[j] = t THEN Free ELSE jobLock[j]]

-----------------------------------------------------------------------------
(* The claim transaction.                                                  *)

\* What a committed row leaves to claim.
SlotsOf(l) ==
    IF lanes[l].paused \/ lanes[l].max_concurrency < lanes[l].running_count THEN 0
    ELSE lanes[l].max_concurrency - lanes[l].running_count

queue_row_needs_lock(q) ==
    /\ lanes[q].row /\ ~lanes[q].paused
    /\ lanes[q].max_concurrency < Unlimited
    /\ lanes[q].running_count < lanes[q].max_concurrency

Step(c, pc) == fetch[c].pc = pc

\* Phase 0, first read, without locks.
ReadBudgets(c) ==
    /\ Step(c, "idle")
    /\ \E j \in Job : jobs[j] = "pending"
    /\ fetch' = [fetch EXCEPT ![c] =
           [NoFetch EXCEPT
               !.pc = "lock queues",
               !.binding = {q \in Queue : queue_row_needs_lock(q)},
               !.budget = [l \in Lane |-> IF l \in Group THEN 0
                                          ELSE IF lanes[l].row THEN SlotsOf(l)
                                          ELSE Unlimited]]]
    /\ UNCHANGED <<jobs, lanes, jobLock, lock, finish, unmaterialised, reconcile>>

\* Phase 0, second read: FOR UPDATE SKIP LOCKED over the binding rows.  A row
\* a peer holds has no budget on this poll.
LockBudgets(c) ==
    LET got == {q \in fetch[c].binding : lock[q] = Free}
        budget == [l \in Lane |-> IF l \in got THEN SlotsOf(l)
                                  ELSE IF l \in fetch[c].binding THEN 0
                                  ELSE fetch[c].budget[l]]
    IN
    /\ Step(c, "lock queues")
    /\ IF \A q \in Queue : budget[q] = 0
       THEN fetch' = [fetch EXCEPT ![c] = NoFetch] /\ UNCHANGED lock
       ELSE /\ fetch' = [fetch EXCEPT ![c].pc = "ungrouped", ![c].budget = budget]
            /\ lock' = Locked(got, c)
    /\ UNCHANGED <<jobs, lanes, jobLock, finish, unmaterialised, reconcile>>

\* Mutant: SELECT without FOR UPDATE SKIP LOCKED.
Fits_Unlocked(c, S, L) ==
    /\ \A j \in S : jobs[j] = "pending"
    /\ \A l \in L : Cardinality(S \cap JobsOf(l)) <= fetch[c].budget[l]
    /\ Cardinality(S) + Cardinality(fetch[c].accepted) <= BatchSize

\* A choice of unlocked pending jobs that fits the budgets of the lanes L and
\* the batch.  The order of the scan is left open.
Fits(c, S, L) ==
    /\ \A j \in S : jobs[j] = "pending" /\ jobLock[j] = Free
    /\ \A l \in L : Cardinality(S \cap JobsOf(l)) <= fetch[c].budget[l]
    /\ Cardinality(S) + Cardinality(fetch[c].accepted) <= BatchSize

\* The jobs S are accepted, and what they use of the queue and group budgets
\* is spent.
Accept(c, S, pc) ==
    /\ jobLock' = JobsLocked(S, c)
    /\ fetch' = [fetch EXCEPT
           ![c].pc = pc,
           ![c].accepted = @ \cup S,
           ![c].todo = LanesOf(fetch[c].accepted \cup S),
           ![c].budget = [l \in Lane |->
               IF @[l] = Unlimited THEN @[l]
               ELSE @[l] - Cardinality(S \cap JobsOf(l))]]

\* Phase 1: jobs without a group.
ClaimUngrouped(c) ==
    /\ Step(c, "ungrouped")
    /\ \E S \in SUBSET {j \in Job : GroupOf[j] = NoGroup} :
          /\ Fits(c, S, Queue)
          /\ Accept(c, S, "walk groups")
    /\ UNCHANGED <<jobs, lanes, lock, finish, unmaterialised, reconcile>>

\* Phase 2: the groups with pending jobs on queues that still have budget; none
\* if the batch is full.
WalkGroups(c) ==
    /\ Step(c, "walk groups")
    /\ fetch' = [fetch EXCEPT
           ![c].pc = "lock groups",
           ![c].keys = {g \in Group :
                            /\ Cardinality(fetch[c].accepted) < BatchSize
                            /\ \E j \in JobsOf(g) :
                                  /\ jobs[j] = "pending"
                                  /\ fetch[c].budget[QueueOf[j]] > 0}]
    /\ UNCHANGED <<jobs, lanes, jobLock, lock, finish, unmaterialised, reconcile>>

\* Phase 2: FOR UPDATE SKIP LOCKED on the rows of those groups.
LockGroups(c) ==
    LET got == {g \in fetch[c].keys : lanes[g].row /\ lock[g] = Free} IN
    /\ Step(c, "lock groups")
    /\ lock' = Locked(got, c)
    /\ fetch' = [fetch EXCEPT
           ![c].pc = "check groups",
           ![c].budget = [l \in Lane |-> IF l \in got THEN SlotsOf(l) ELSE @[l]]]
    /\ UNCHANGED <<jobs, lanes, jobLock, finish, unmaterialised, reconcile>>

\* Mutant: a group whose row a peer holds is taken for one without a row.
CheckGroups_LockedIsUnlimited(c) ==
    /\ Step(c, "check groups")
    /\ fetch' = [fetch EXCEPT
           ![c].pc = "grouped",
           ![c].budget = [l \in Lane |->
               IF l \in fetch[c].keys /\ lock[l] # c THEN Unlimited ELSE @[l]]]
    /\ UNCHANGED <<jobs, lanes, jobLock, lock, finish, unmaterialised, reconcile>>

\* Phase 2: a second read tells a group without a row, which is unlimited,
\* from one whose row a peer holds.
CheckGroups(c) ==
    /\ Step(c, "check groups")
    /\ fetch' = [fetch EXCEPT
           ![c].pc = "grouped",
           ![c].budget = [l \in Lane |->
               IF l \in fetch[c].keys /\ ~lanes[l].row THEN Unlimited ELSE @[l]]]
    /\ UNCHANGED <<jobs, lanes, jobLock, lock, finish, unmaterialised, reconcile>>

\* Phase 3: jobs of groups, within the group's and the queue's budget.
ClaimGrouped(c) ==
    /\ Step(c, "grouped")
    /\ \E S \in SUBSET {j \in Job : GroupOf[j] \in fetch[c].keys} :
          /\ Fits(c, S, Lane)
          /\ fetch[c].accepted \cup S # {}
          /\ Accept(c, S, "write")
    /\ UNCHANGED <<jobs, lanes, lock, finish, unmaterialised, reconcile>>

\* Mutant: the group row is updated, not upserted.
WriteLane_NoUpsert(c) ==
    /\ Step(c, "write")
    /\ \E l \in fetch[c].todo :
          /\ l \in Queue => fetch[c].todo \cap Group = {}
          /\ IF lanes[l].row
             THEN /\ CanLock(l, c)
                  /\ lock' = Locked({l}, c)
                  /\ fetch' = [fetch EXCEPT ![c].todo = @ \ {l},
                                            ![c].written = @ \cup {l}]
             ELSE /\ fetch' = [fetch EXCEPT ![c].todo = @ \ {l}]
                  /\ UNCHANGED lock
    /\ UNCHANGED <<jobs, lanes, jobLock, finish, unmaterialised, reconcile>>

\* Phase 4: one statement per lane of the accepted jobs, groups before
\* queues and otherwise in any order.  A group row is upserted; a queue row
\* is bumped only if there is one to be seen.
WriteLane(c) ==
    /\ Step(c, "write")
    /\ \E l \in fetch[c].todo :
          /\ l \in Queue => fetch[c].todo \cap Group = {}
          /\ IF l \in Group \/ lanes[l].row
             THEN /\ CanLock(l, c)
                  /\ lock' = Locked({l}, c)
                  /\ fetch' = [fetch EXCEPT ![c].todo = @ \ {l},
                                            ![c].written = @ \cup {l}]
             ELSE /\ fetch' = [fetch EXCEPT ![c].todo = @ \ {l}]
                  /\ UNCHANGED lock
    /\ UNCHANGED <<jobs, lanes, jobLock, finish, unmaterialised, reconcile>>

CommitClaim(c) ==
    /\ Step(c, "write") /\ fetch[c].todo = {}
    /\ jobs' = [j \in Job |-> IF j \in fetch[c].accepted THEN "running" ELSE jobs[j]]
    /\ lanes' = [l \in Lane |->
           IF l \in fetch[c].written
           THEN [lanes[l] EXCEPT
                    !.row = TRUE,
                    !.running_count =
                        @ + Cardinality(fetch[c].accepted \cap JobsOf(l))]
           ELSE lanes[l]]
    /\ fetch' = [fetch EXCEPT ![c] = NoFetch]
    /\ lock' = Unlocked(c) /\ jobLock' = JobsUnlocked(c)
    /\ UNCHANGED <<finish, unmaterialised, reconcile>>

\* Nothing accepted, a database error, a deadlock victim: roll back.
Rollback(c) ==
    /\ ~Step(c, "idle")
    /\ fetch' = [fetch EXCEPT ![c] = NoFetch]
    /\ lock' = Unlocked(c) /\ jobLock' = JobsUnlocked(c)
    /\ UNCHANGED <<jobs, lanes, finish, unmaterialised, reconcile>>

claim_batch(c) ==
    \/ ReadBudgets(c) \/ LockBudgets(c)
    \/ ClaimUngrouped(c)
    \/ WalkGroups(c) \/ LockGroups(c) \/ CheckGroups(c) \/ ClaimGrouped(c)
    \/ WriteLane(c) \/ CommitClaim(c)
    \/ Rollback(c)

-----------------------------------------------------------------------------
(* Giving a slot back: mark_completed, mark_failed, and row by row what     *)
(* sweep_stale and reclaim_in_flight do.                                    *)

\* The guarded UPDATE of the job row.
FinishJob(j) ==
    /\ finish[j] = "idle" /\ jobs[j] = "running" /\ jobLock[j] = Free
    /\ jobLock' = JobsLocked({j}, j)
    /\ finish' = [finish EXCEPT ![j] = "group"]
    /\ UNCHANGED <<jobs, lanes, lock, fetch, unmaterialised, reconcile>>

\* The UPDATE of one lane row: nothing to do if there is no row.
Decrement(j, l, pc) ==
    /\ IF l \in Lane /\ lanes[l].row
       THEN CanLock(l, j) /\ lock' = Locked({l}, j)
       ELSE UNCHANGED lock
    /\ finish' = [finish EXCEPT ![j] = pc]
    /\ UNCHANGED <<jobs, lanes, jobLock, fetch, unmaterialised, reconcile>>

FinishGroup(j) == finish[j] = "group" /\ Decrement(j, GroupOf[j], "queue")
\* Mutant: the queue's counter is forgotten.
FinishQueue_Forgotten(j) == finish[j] = "queue" /\ Decrement(j, NoGroup, "commit")
FinishQueue(j) == finish[j] = "queue" /\ Decrement(j, QueueOf[j], "commit")

\* GREATEST(running_count - 1, 0) on the rows it locked.
CommitFinish(j) ==
    /\ finish[j] = "commit"
    /\ jobs' = [jobs EXCEPT ![j] = "done"]
    /\ lanes' = [l \in Lane |->
           IF lock[l] = j
           THEN [lanes[l] EXCEPT !.running_count = IF @ > 0 THEN @ - 1 ELSE 0]
           ELSE lanes[l]]
    /\ finish' = [finish EXCEPT ![j] = "idle"]
    /\ lock' = Unlocked(j) /\ jobLock' = JobsUnlocked(j)
    /\ UNCHANGED <<fetch, unmaterialised, reconcile>>

\* The settling transaction fails; the job is still running.
RollbackFinish(j) ==
    /\ finish[j] # "idle"
    /\ finish' = [finish EXCEPT ![j] = "idle"]
    /\ lock' = Unlocked(j) /\ jobLock' = JobsUnlocked(j)
    /\ UNCHANGED <<jobs, lanes, fetch, unmaterialised, reconcile>>

finish_job(j) ==
    \/ FinishJob(j) \/ FinishGroup(j) \/ FinishQueue(j)
    \/ CommitFinish(j) \/ RollbackFinish(j)

-----------------------------------------------------------------------------
(* Producers and operators: single statements that commit by themselves.   *)

\* The INSERT of enqueue_dyn.
enqueue_dyn(j) ==
    /\ jobs[j] = "absent"
    /\ jobs' = [jobs EXCEPT ![j] = "pending"]
    /\ unmaterialised' = unmaterialised \cup
                            (IF GroupOf[j] = NoGroup THEN {} ELSE {j})
    /\ UNCHANGED <<lanes, jobLock, lock, fetch, finish, reconcile>>

\* INSERT ... ON CONFLICT DO NOTHING, which waits for an insert of the same
\* key that has not committed.
materialize_from_rule(j) ==
    LET g == GroupOf[j] IN
    /\ j \in unmaterialised
    /\ lanes[g].row \/ lock[g] = Free
    /\ unmaterialised' = unmaterialised \ {j}
    /\ lanes' = IF lanes[g].row \/ RuleCap[g] = Unlimited THEN lanes
                ELSE [lanes EXCEPT ![g].row = TRUE,
                                   ![g].max_concurrency = RuleCap[g]]
    /\ UNCHANGED <<jobs, jobLock, lock, fetch, finish, reconcile>>

\* An upsert of a cap.  A new queue row counts the running jobs it can see; a
\* new group row starts at zero; an existing row keeps its count.
set_concurrency(l) ==
    /\ lock[l] = Free
    /\ \E max \in Caps :
          /\ ~lanes[l].row \/ lanes[l].max_concurrency # max
          /\ lanes' = [lanes EXCEPT
                 ![l] = [row |-> TRUE, max_concurrency |-> max,
                         running_count |->
                             IF l \in Queue /\ ~lanes[l].row
                             THEN Cardinality(Running(l)) ELSE lanes[l].running_count,
                         paused |-> lanes[l].paused]]
    /\ UNCHANGED <<jobs, jobLock, lock, fetch, finish, unmaterialised, reconcile>>

-----------------------------------------------------------------------------
(* reconcile_counters: one transaction, groups before queues.              *)

\* Counters above the number of running rows, as a statement's snapshot sees
\* them.
Overcounted(L) ==
    {l \in L : lanes[l].row /\ lanes[l].running_count > Cardinality(Running(l))}

\* The first half of one of its two statements: count, and find the rows.
Counted(L, pc) ==
    reconcile' = [pc |-> pc, todo |-> Overcounted(L),
                  actual |-> [l \in Lane |-> IF l \in L THEN Cardinality(Running(l))
                                             ELSE reconcile.actual[l]]]

\* A run that would find nothing to correct is left out.
ReconcileGroups ==
    /\ Reconciles /\ reconcile.pc = "idle"
    /\ Overcounted(Lane) # {}
    /\ Counted(Group, "groups")
    /\ UNCHANGED <<jobs, lanes, jobLock, lock, fetch, finish, unmaterialised>>

\* Mutant: only groups are reconciled.
ReconcileQueues_Forgotten ==
    /\ reconcile.pc = "groups" /\ reconcile.todo = {}
    /\ Counted({}, "queues")
    /\ UNCHANGED <<jobs, lanes, jobLock, lock, fetch, finish, unmaterialised>>

ReconcileQueues ==
    /\ reconcile.pc = "groups" /\ reconcile.todo = {}
    /\ Counted(Queue, "queues")
    /\ UNCHANGED <<jobs, lanes, jobLock, lock, fetch, finish, unmaterialised>>

\* The second half waits for each row lock, if need be for a claim to commit.
ReconcileLock ==
    /\ \E l \in reconcile.todo :
          /\ lock[l] = Free
          /\ lock' = Locked({l}, Reconciler)
          /\ reconcile' = [reconcile EXCEPT !.todo = @ \ {l}]
    /\ UNCHANGED <<jobs, lanes, jobLock, fetch, finish, unmaterialised>>

\* The condition is evaluated again on the new row version, the count is not:
\* LEAST(running_count, n).
ReconcileCommit ==
    /\ reconcile.pc = "queues" /\ reconcile.todo = {}
    /\ lanes' = [l \in Lane |->
           IF lock[l] = Reconciler /\ lanes[l].running_count > reconcile.actual[l]
           THEN [lanes[l] EXCEPT !.running_count = reconcile.actual[l]]
           ELSE lanes[l]]
    /\ lock' = Unlocked(Reconciler)
    /\ reconcile' = NoReconcile
    /\ UNCHANGED <<jobs, jobLock, fetch, finish, unmaterialised>>

\* An error, or the victim of a deadlock with a claim, which locks queue rows
\* before group rows.
RollbackReconcile ==
    /\ reconcile.pc # "idle"
    /\ lock' = Unlocked(Reconciler)
    /\ reconcile' = NoReconcile
    /\ UNCHANGED <<jobs, lanes, jobLock, fetch, finish, unmaterialised>>

-----------------------------------------------------------------------------

Next ==
    \/ \E c \in Fetcher : claim_batch(c)
    \/ \E j \in Job :
          \/ enqueue_dyn(j) \/ materialize_from_rule(j)
          \/ finish_job(j)
    \/ \E l \in Operable : set_concurrency(l)
    \/ ReconcileGroups \/ ReconcileQueues \/ ReconcileLock
    \/ ReconcileCommit \/ RollbackReconcile

Spec == Init /\ [][Next]_vars

\* Transactions end, the sweeper of the leader keeps reconciling, its lock
\* requests queue up behind the holder of the row, and the database does not
\* fail reconciliations for ever.
Fairness ==
    /\ \A c \in Fetcher : WF_vars(~Step(c, "idle") /\ claim_batch(c))
    /\ \A j \in Job : WF_vars(finish[j] # "idle" /\ finish_job(j))
    /\ WF_vars(ReconcileGroups) /\ WF_vars(ReconcileQueues)
    /\ SF_vars(ReconcileLock) /\ WF_vars(ReconcileCommit)
    /\ <>[][RollbackReconcile => ReconcileCommit]_vars

FairSpec == Spec /\ Fairness

-----------------------------------------------------------------------------
\* Rows, locks and transaction states are what their declarations say; no
\* counter or budget is negative.
TypeOK ==
    /\ jobs \in [Job -> {"absent", "pending", "running", "done"}]
    /\ lanes \in [Lane -> [row : BOOLEAN, running_count : Nat,
                           max_concurrency : Nat, paused : BOOLEAN]]
    /\ jobLock \in [Job -> Fetcher \cup Job \cup {Free}]
    /\ lock \in [Lane -> Txn \cup {Free}]
    /\ fetch \in [Fetcher ->
          [pc : {"idle", "lock queues", "ungrouped", "walk groups",
                 "lock groups", "check groups", "grouped", "write"},
           binding : SUBSET Queue, keys : SUBSET Group, accepted : SUBSET Job,
           todo : SUBSET Lane, written : SUBSET Lane, budget : [Lane -> Nat]]]
    /\ finish \in [Job -> {"idle", "group", "queue", "commit"}]
    /\ unmaterialised \subseteq Job
    /\ reconcile \in [pc : {"idle", "groups", "queues"}, actual : [Lane -> Nat],
                      todo : SUBSET Lane]

\* Two fetchers never both take the last slot: a lane that had its cap from
\* the start runs no more jobs than that, whatever claims, completions and
\* reconciliations overlap (fetch.rs:161-193).
CapHolds ==
    \A l \in Lane : InitialCap[l] # NoCap =>
                        Cardinality(Running(l)) <= InitialCap[l]

\* A counter row describes the committed running rows, at every moment.
CountersExact ==
    \A l \in Lane : lanes[l].row =>
                        lanes[l].running_count = Cardinality(Running(l))

\* The counters of groups stay exact even while rows are created under running
\* claims: by a rule, by an operator or by the claim's own upsert
\* (fetch.rs:545-595).  For queues that is not so, see CapIsHonest.
GroupCountersExact ==
    \A g \in Group : IF lanes[g].row
                     THEN lanes[g].running_count = Cardinality(Running(g))
                     ELSE Running(g) = {}

\* A job is claimed by one transaction only, and a settling transaction never
\* meets a claim on the same row.
OneClaimPerJob ==
    \A j \in Job :
        /\ Cardinality({c \in Fetcher : j \in fetch[c].accepted}) <= 1
        /\ (\E c \in Fetcher : j \in fetch[c].accepted) =>
               jobs[j] = "pending" /\ finish[j] = "idle"

\* Whatever the transactions wrote and rolled back, the rows are well formed
\* and every job is claimed by one of them (fetch.rs:278-360).
ClaimInv == TypeOK /\ OneClaimPerJob

\* A group that a rule matches runs under the rule's cap from its first
\* enqueue on (queue.rs:547-552).
RuleApplied ==
    \A g \in Group :
        RuleCap[g] # Unlimited /\ lanes[g].row =>
            lanes[g].max_concurrency = RuleCap[g]

\* The cap of a queue is honest from the moment it is set: its counter is the
\* number of jobs running there (named_queue.rs:62-65).
CapIsHonest ==
    \A q \in Queue : lanes[q].row =>
                         lanes[q].running_count = Cardinality(Running(q))

\* A reconciliation erases no claim: it leaves no counter below the number of
\* running jobs that was not below it before (fetch.rs:1142-1145).
ReconcileErasesNoClaim ==
    [][reconcile.pc # "idle" /\ reconcile'.pc = "idle" =>
          \A l \in Lane :
              lanes[l].running_count >= Cardinality(Running(l)) =>
                  lanes'[l].running_count >= Cardinality(Running(l))]_vars

\* A slot that a counter lost is given back: drift upwards does not last
\* (fetch.rs:1138-1141).
DriftHeals ==
    \A l \in Lane : l \in Overcounted(Lane) ~> l \notin Overcounted(Lane)
=============================================================================
