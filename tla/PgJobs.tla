------------------------------- MODULE PgJobs -------------------------------
(***************************************************************************)
(* The Postgres backend of eddyq: the rows of eddyq_jobs, eddyq_queues,    *)
(* eddyq_groups and eddyq_batches, the worker processes that claim, run,   *)
(* heartbeat and settle jobs, the sweeper that recovers jobs of lost       *)
(* workers, and the ways a worker process stops.                           *)
(*                                                                         *)
(* One action is one committed transaction, or one step of a process       *)
(* between two of them.  The statements inside the claim and the admin     *)
(* transactions are taken apart in module PgLanes.                         *)
(***************************************************************************)
EXTENDS Integers, FiniteSets

CONSTANTS
    Job,          \* ids the sequence of eddyq_jobs can hand out
    Proc,         \* worker processes; one process is one fetcher's worker_id
    Queue,        \* named queues
    Group,        \* group keys
    Batch,        \* ids of eddyq_batches
    NoJob, NoWorker, NoGroup, NoBatch, NoKey, \* SQL NULL of each column
    QueueOf,      \* the columns a job is enqueued with
    GroupOf,
    BatchOf,
    KeyOf,        \* (kind, unique_key)
    MaxAttempts,
    MaxStalled,
    Callback,     \* on_complete of a batch, NoJob when there is none
    CallbackValid,\* does the on_complete spec name a valid queue?
    RuleCap,      \* cap of the best group rule that matches; Unlimited: no rule
    Operable,     \* lanes an operator administers, and the caps it may set
    Caps,
    Slots,        \* worker_concurrency of a process
    Verdicts,     \* what handlers may answer
    Stoppable,    \* processes that may crash or be shut down
    MaxClaims     \* bound: how often one job is claimed

Unlimited == 2147483647

Live == {"pending", "running"}
Terminal == {"completed", "failed", "cancelled"}
Lane == Queue \cup Group
CallbackJobs == {Callback[b] : b \in Batch} \ {NoJob}

ASSUME ConstantsAssumption ==
    /\ IsFiniteSet(Job)
    /\ NoJob \notin Job /\ NoWorker \notin Proc /\ NoGroup \notin Group
    /\ NoBatch \notin Batch
    /\ Queue \cap Group = {}
    /\ QueueOf \in [Job -> Queue]
    /\ GroupOf \in [Job -> Group \cup {NoGroup}]
    /\ BatchOf \in [Job -> Batch \cup {NoBatch}]
    /\ MaxAttempts \in [Job -> Nat] /\ MaxStalled \in [Job -> Nat]
    /\ Callback \in [Batch -> Job \cup {NoJob}]
    /\ CallbackValid \in [Batch -> BOOLEAN]
    /\ RuleCap \in [Group -> Nat] /\ Caps \subseteq Nat
    /\ Operable \subseteq Queue \cup Group
    /\ Slots \in Nat /\ MaxClaims \in Nat
    /\ Verdicts \subseteq {"ok", "error", "retry", "cancel"}
    /\ Stoppable \subseteq Proc
    \* A callback job belongs to one batch's on_complete and to no batch.
    /\ \A b \in Batch : Callback[b] \in Job => BatchOf[Callback[b]] = NoBatch
    /\ \A b, c \in Batch :
          Callback[b] \in Job /\ Callback[b] = Callback[c] => b = c

VARIABLES
    jobs,         \* eddyq_jobs
    lanes,        \* eddyq_queues and eddyq_groups: rows with a running_count
    batches,      \* eddyq_batches
    unmaterialised, \* enqueued jobs whose group-rule statement has not run yet
    mode,         \* per process: where it is between start and exit
    in_flight,    \* per process: the shared set of ids it heartbeats
    snapshot,     \* per process: the ids shutdown copied before it waits
    runs,         \* claimed jobs in the memory of a process
    claims        \* history: how often each job was claimed

tables == <<jobs, lanes, batches>>
procVars == <<mode, in_flight, snapshot>>
vars == <<jobs, lanes, batches, unmaterialised, mode, in_flight, snapshot,
          runs, claims>>

JobRow ==
    [state         : {"absent"} \cup Live \cup Terminal,
     attempt       : Nat,
     stalled_count : Nat,
     worker_id     : Proc \cup {NoWorker},
     heartbeat     : {"none", "fresh", "stale"}, \* against NOW() - stale_after
     due           : BOOLEAN]                    \* scheduled_at <= NOW()

LaneRow ==
    [row : BOOLEAN, running_count : Nat, max_concurrency : Nat, paused : BOOLEAN]

BatchRow ==
    [state : {"absent", "pending", "complete"},
     total : Nat, completed : Nat, failed : Nat, cancelled : Nat,
     callbacks : Nat] \* history: callback jobs enqueued for this batch

Run ==
    [job : Job, claim : Nat, proc : Proc, attempt : Nat,
     phase : {"fetched", "queued", "executing", "settling"},
     verdict : Verdicts \cup {"none"}]

\* Rows, process memory and history have the values their columns and fields
\* allow; no state outside the ones the code writes, no negative counter.
TypeOK ==
    /\ jobs \in [Job -> JobRow]
    /\ lanes \in [Lane -> LaneRow]
    /\ batches \in [Batch -> BatchRow]
    /\ unmaterialised \subseteq Job
    /\ mode \in [Proc -> {"up", "cancelled", "draining", "reclaiming", "down"}]
    /\ in_flight \in [Proc -> SUBSET Job]
    /\ snapshot \in [Proc -> SUBSET Job]
    /\ runs \subseteq Run
    /\ claims \in [Job -> Nat]

NoRow == [state |-> "absent", attempt |-> 0, stalled_count |-> 0,
          worker_id |-> NoWorker, heartbeat |-> "none", due |-> FALSE]

Init ==
    /\ jobs = [j \in Job |-> NoRow]
    /\ lanes = [l \in Lane |-> [row |-> FALSE, running_count |-> 0,
                                max_concurrency |-> Unlimited, paused |-> FALSE]]
    /\ batches = [b \in Batch |-> [state |-> "absent", total |-> 0,
                                   completed |-> 0, failed |-> 0,
                                   cancelled |-> 0, callbacks |-> 0]]
    /\ unmaterialised = {}
    /\ mode = [p \in Proc |-> "up"]
    /\ in_flight = [p \in Proc |-> {}]
    /\ snapshot = [p \in Proc |-> {}]
    /\ runs = {}
    /\ claims = [j \in Job |-> 0]

-----------------------------------------------------------------------------
(* Tables as values: what each statement makes of the table it is given.   *)

JobsOf(l) == {j \in Job : QueueOf[j] = l \/ GroupOf[j] = l}
Members(b) == {j \in Job : BatchOf[j] = b}

\* INSERT of the rows I; those in D are due at once.
Inserted(T, I, D) ==
    [j \in Job |-> IF j \in I
                   THEN [NoRow EXCEPT !.state = "pending", !.due = (j \in D)]
                   ELSE T[j]]

\* GREATEST(running_count - n, 0) on every lane row of the jobs S; a lane
\* without a row counts zero.
Released(L, S) ==
    [l \in Lane |->
        LET n == Cardinality(S \cap JobsOf(l)) IN
        [L[l] EXCEPT !.running_count = IF @ > n THEN @ - n ELSE 0]]

\* The claim's counter statements: group rows are upserted, queue rows are
\* bumped only if they exist.
Occupied(L, S) ==
    [l \in Lane |->
        LET n == Cardinality(S \cap JobsOf(l)) IN
        CASE n = 0 -> L[l]
          [] n > 0 /\ l \in Group ->
                [L[l] EXCEPT !.row = TRUE, !.running_count = @ + n]
          [] n > 0 /\ l \notin Group ->
                [L[l] EXCEPT !.running_count = IF L[l].row THEN @ + n ELSE @]]

\* A group row for each group of the jobs S that a rule matches and that has
\* no row yet: ON CONFLICT (key) DO NOTHING.
Materialised(L, S) ==
    [l \in Lane |->
        IF /\ l \in Group /\ ~L[l].row /\ RuleCap[l] # Unlimited
           /\ \E j \in S : GroupOf[j] = l
        THEN [L[l] EXCEPT !.row = TRUE, !.max_concurrency = RuleCap[l]]
        ELSE L[l]]

-----------------------------------------------------------------------------
(* Batches: settling terminal transitions and firing on_complete.          *)

\* The counters of a batch row after the jobs D reached the state outcome.
Bumped(b, D, outcome) ==
    LET n == Cardinality(D \cap Members(b)) IN
    CASE outcome = "completed" -> [batches[b] EXCEPT !.completed = @ + n]
      [] outcome = "failed"    -> [batches[b] EXCEPT !.failed = @ + n]
      [] outcome = "cancelled" -> [batches[b] EXCEPT !.cancelled = @ + n]

\* Mutant: cancelled jobs are not counted towards the total.
Settled_IgnoresCancelled(row) == row.completed + row.failed = row.total

Settled(row) == row.completed + row.failed + row.cancelled = row.total

\* The batches whose callback slot this transaction claims.
Fired(D, outcome) ==
    {b \in Batch : /\ D \cap Members(b) # {}
                   /\ batches[b].state = "pending"
                   /\ Settled(Bumped(b, D, outcome))}

CallbacksOf(F) == {Callback[b] : b \in F} \ {NoJob}

\* Complete the batch row: callback_enqueued_at, state and finalized_at are
\* set together, and the callback job is enqueued.
Completed(row, b) ==
    [row EXCEPT !.state = "complete",
                !.callbacks = IF Callback[b] = NoJob THEN @ ELSE @ + 1]

\* The rest of a transaction that moved the jobs D to outcome, leaving the
\* job table T and the lane table L.  An on_complete spec whose queue name
\* is invalid makes the enqueue of the callback fail, and with it the whole
\* transaction: there is then no such step.
settle_terminal(T, L, D, outcome) ==
    LET F == Fired(D, outcome) IN
    /\ \A b \in F : Callback[b] # NoJob => CallbackValid[b]
    /\ jobs' = Inserted(T, CallbacksOf(F), CallbacksOf(F))
    /\ lanes' = Materialised(L, CallbacksOf(F))
    /\ batches' = [b \in Batch |->
                      IF b \in F THEN Completed(Bumped(b, D, outcome), b)
                      ELSE Bumped(b, D, outcome)]

-----------------------------------------------------------------------------
(* Producers.                                                              *)

SameKey(i, j) == KeyOf[i] # NoKey /\ KeyOf[i] = KeyOf[j]
Conflict(j) == \E i \in Job : jobs[i].state \in Live /\ SameKey(i, j)

\* The sets of rows one multi-row INSERT ... ON CONFLICT DO NOTHING of S adds.
Insertable(S) ==
    {I \in SUBSET S :
        /\ \A i \in I : ~Conflict(i) /\ \A k \in I \ {i} : ~SameKey(i, k)
        /\ \A i \in S \ I : Conflict(i) \/ \E k \in I : SameKey(i, k)}

Unbatched == {j \in Job \ CallbackJobs :
                 BatchOf[j] = NoBatch /\ jobs[j].state = "absent"}

\* A single enqueue on a pool connection: the INSERT commits by itself, the
\* statement of materialize_from_rule follows as another transaction.
enqueue_dyn(j) ==
    /\ j \in Unbatched
    /\ ~Conflict(j)
    /\ \E D \in SUBSET {j} : jobs' = Inserted(jobs, {j}, D)
    /\ unmaterialised' = unmaterialised \cup
                            (IF GroupOf[j] = NoGroup THEN {} ELSE {j})
    /\ UNCHANGED <<lanes, batches, procVars, runs, claims>>

materialize_from_rule(j) ==
    /\ j \in unmaterialised
    /\ lanes' = Materialised(lanes, {j})
    /\ unmaterialised' = unmaterialised \ {j}
    /\ UNCHANGED <<jobs, batches, procVars, runs, claims>>

\* Bulk enqueue: rows and group rules in one transaction.  The groups of
\* skipped items are materialised too.
enqueue_many_dyn(S) ==
    /\ S # {} /\ S \subseteq Unbatched
    /\ \E I \in Insertable(S) : \E D \in SUBSET I :
          jobs' = Inserted(jobs, I, D)
    /\ lanes' = Materialised(lanes, S)
    /\ UNCHANGED <<batches, unmaterialised, procVars, runs, claims>>

\* Mutant: no special case for a batch whose items were all skipped.
enqueue_batch_NoEmptyCase(b) ==
    /\ batches[b].state = "absent"
    /\ \E I \in Insertable(Members(b)) :
          /\ jobs' = Inserted(jobs, I, I)
          /\ batches' = [batches EXCEPT ![b].state = "pending",
                                        ![b].total = Cardinality(I)]
    /\ lanes' = Materialised(lanes, Members(b))
    /\ UNCHANGED <<unmaterialised, procVars, runs, claims>>

\* The batch row, its jobs and, when every item was skipped, its callback.
enqueue_batch(b) ==
    /\ batches[b].state = "absent"
    /\ \E I \in Insertable(Members(b)) :
          LET row == [batches[b] EXCEPT !.state = "pending",
                                        !.total = Cardinality(I)]
              C   == IF I = {} THEN CallbacksOf({b}) ELSE {}
          IN
          /\ C # {} => CallbackValid[b]
          /\ jobs' = Inserted(jobs, I \cup C, I \cup C)
          /\ lanes' = Materialised(lanes, Members(b) \cup C)
          /\ batches' = [batches EXCEPT
                            ![b] = IF I = {} THEN Completed(row, b) ELSE row]
    /\ UNCHANGED <<unmaterialised, procVars, runs, claims>>

\* scheduled_at passes.
BecomeDue(j) ==
    /\ jobs[j].state = "pending" /\ ~jobs[j].due
    /\ jobs' = [jobs EXCEPT ![j].due = TRUE]
    /\ UNCHANGED <<lanes, batches, unmaterialised, procVars, runs, claims>>

\* Cancellation is for pending jobs only; a running job is left alone.
cancel(j) ==
    /\ jobs[j].state = "pending"
    /\ settle_terminal([jobs EXCEPT ![j].state = "cancelled"], lanes,
                       {j}, "cancelled")
    /\ UNCHANGED <<unmaterialised, procVars, runs, claims>>

-----------------------------------------------------------------------------
(* Operators.                                                              *)

Running(l) == {j \in JobsOf(l) : jobs[j].state = "running"}

\* Mutant: a new queue row starts from zero although jobs are running.
Upserted_FromZero(l) == [lanes[l] EXCEPT !.row = TRUE]

\* The row an admin statement updates, inserted first if there is none.  A
\* new queue row starts from the live count of running jobs; a new group row
\* starts from the column default.
Upserted(l) ==
    IF lanes[l].row THEN lanes[l]
    ELSE [lanes[l] EXCEPT !.row = TRUE,
                          !.running_count = IF l \in Queue
                                            THEN Cardinality(Running(l))
                                            ELSE @]

set_concurrency(l) ==
    /\ \E max \in Caps :
          /\ ~lanes[l].row \/ lanes[l].max_concurrency # max
          /\ lanes' = [lanes EXCEPT
                          ![l] = [Upserted(l) EXCEPT !.max_concurrency = max]]
    /\ UNCHANGED <<jobs, batches, unmaterialised, procVars, runs, claims>>

set_paused(l) ==
    /\ lanes' = [lanes EXCEPT ![l] = [Upserted(l) EXCEPT !.paused = ~@]]
    /\ UNCHANGED <<jobs, batches, unmaterialised, procVars, runs, claims>>

-----------------------------------------------------------------------------
(* A worker process: fetcher, worker tasks, heartbeat loop.                *)

RunsOf(p) == {r \in runs : r.proc = p}

\* The tasks of the process are running.  Once its token is cancelled they
\* wind up: "cancelled" while the fetcher is still in its last claim,
\* "draining" when it is not.
Alive(p) == mode[p] \in {"up", "cancelled", "draining"}

\* The fetcher hands out one claimed batch before it claims the next.
Dispatched(p) == \A r \in RunsOf(p) : r.phase # "fetched"

\* Permits of the idle semaphore: one for each worker task without a job.
Idle(p) == Slots - Cardinality(RunsOf(p))

\* Room for the jobs S in each lane they belong to.  No row: unlimited.
Admits(S) ==
    \A l \in Lane :
        LET n == Cardinality(S \cap JobsOf(l)) IN
        n > 0 /\ lanes[l].row =>
            /\ ~lanes[l].paused
            /\ lanes[l].running_count + n <= lanes[l].max_concurrency

Claimable == {j \in Job : jobs[j].state = "pending" /\ jobs[j].due}

ClaimedRow(j, p) ==
    [jobs[j] EXCEPT !.state = "running", !.attempt = @ + 1,
                    !.heartbeat = "fresh", !.worker_id = p]

\* One committed claim; the rows it returns are in the fetcher's hands.  The
\* token is looked at before a claim, not during one.
claim_batch(p, S) ==
    /\ mode[p] \in {"up", "cancelled"} /\ Dispatched(p)
    /\ S # {} /\ S \subseteq Claimable
    /\ Cardinality(S) <= Idle(p)
    /\ Admits(S)
    /\ \A j \in S : claims[j] < MaxClaims
    /\ jobs' = [j \in Job |-> IF j \in S THEN ClaimedRow(j, p) ELSE jobs[j]]
    /\ lanes' = Occupied(lanes, S)
    /\ claims' = [j \in Job |-> IF j \in S THEN claims[j] + 1 ELSE claims[j]]
    /\ runs' = runs \cup {[job |-> j, claim |-> claims[j] + 1, proc |-> p,
                           attempt |-> jobs[j].attempt + 1,
                           phase |-> "fetched", verdict |-> "none"] : j \in S}
    /\ mode' = [mode EXCEPT ![p] = IF @ = "up" THEN "up" ELSE "draining"]
    /\ UNCHANGED <<batches, unmaterialised, in_flight, snapshot>>

\* The claim under way at shutdown finds nothing, or fails.
LastClaimEmpty(p) ==
    /\ mode[p] = "cancelled"
    /\ mode' = [mode EXCEPT ![p] = "draining"]
    /\ UNCHANGED <<tables, unmaterialised, in_flight, snapshot, runs, claims>>

\* The run r moves on to another phase, with the verdict v.
Advance(r, phase, v) ==
    runs' = (runs \ {r}) \cup {[r EXCEPT !.phase = phase, !.verdict = v]}

\* The fetcher registers a claimed job for heartbeats and sends it to the
\* workers.  A cancelled token does not stop the loop over a claimed batch.
Dispatch(r) ==
    /\ r.phase = "fetched" /\ Alive(r.proc)
    /\ in_flight' = [in_flight EXCEPT ![r.proc] = @ \cup {r.job}]
    /\ Advance(r, "queued", "none")
    /\ UNCHANGED <<tables, unmaterialised, mode, snapshot, claims>>

\* A worker takes the job from the channel.  Once the token is cancelled the
\* biased select makes every worker leave its loop instead.
StartHandler(r) ==
    /\ r.phase = "queued" /\ mode[r.proc] = "up"
    /\ Advance(r, "executing", "none")
    /\ UNCHANGED <<tables, unmaterialised, procVars, claims>>

\* Mutant: the job is left in the in-flight set.
FinishHandler_Leaks(r) ==
    /\ r.phase = "executing" /\ Alive(r.proc)
    /\ \E v \in Verdicts : Advance(r, "settling", v)
    /\ UNCHANGED <<tables, unmaterialised, procVars, claims>>

\* The handler returns, fails, panics, times out, or asks for a retry or a
\* cancellation; the job leaves the in-flight set before its row is settled.
FinishHandler(r) ==
    /\ r.phase = "executing" /\ Alive(r.proc)
    /\ in_flight' = [in_flight EXCEPT ![r.proc] = @ \ {r.job}]
    /\ \E v \in Verdicts : Advance(r, "settling", v)
    /\ UNCHANGED <<tables, unmaterialised, mode, snapshot, claims>>

\* Mutants: one half of the gate is missing.
Owns_AnyState(r) == jobs[r.job].worker_id \in {r.proc, NoWorker}
Owns_AnyWorker(r) == jobs[r.job].state = "running"

\* WHERE id = $1 AND state = 'running' AND worker_id = $2
Owns(r) == /\ jobs[r.job].state = "running"
           /\ jobs[r.job].worker_id = r.proc

\* The columns a job that stops running loses.
Freed(row) == [row EXCEPT !.worker_id = NoWorker, !.heartbeat = "none"]

mark_completed(r) ==
    /\ r.phase = "settling" /\ r.verdict = "ok" /\ Owns(r)
    /\ settle_terminal(
          [jobs EXCEPT ![r.job] = [Freed(@) EXCEPT !.state = "completed"]],
          Released(lanes, {r.job}), {r.job}, "completed")
    /\ runs' = runs \ {r}
    /\ UNCHANGED <<unmaterialised, procVars, claims>>

\* Mutant: one attempt too many.
retry_schedule_OneMore(r) ==
    \/ r.verdict = "retry"
    \/ r.verdict = "error" /\ r.attempt <= MaxAttempts[r.job]

\* Is there a retry_at?  A retry directive ignores max_attempts; the attempt
\* compared is the one the claim returned, not the row's.
retry_schedule(r) ==
    \/ r.verdict = "retry"
    \/ r.verdict = "error" /\ r.attempt < MaxAttempts[r.job]

\* Mutant: the retry waits in a state of its own, which no claim looks at.
mark_failed_retry_Scheduled(r) ==
    /\ r.phase = "settling" /\ retry_schedule(r) /\ Owns(r)
    /\ jobs' = [jobs EXCEPT ![r.job] = [Freed(@) EXCEPT !.state = "scheduled",
                                                        !.due = FALSE]]
    /\ lanes' = Released(lanes, {r.job})
    /\ runs' = runs \ {r}
    /\ UNCHANGED <<batches, unmaterialised, procVars, claims>>

mark_failed_retry(r) ==
    /\ r.phase = "settling" /\ retry_schedule(r) /\ Owns(r)
    /\ jobs' = [jobs EXCEPT ![r.job] = [Freed(@) EXCEPT !.state = "pending",
                                                        !.due = FALSE]]
    /\ lanes' = Released(lanes, {r.job})
    /\ runs' = runs \ {r}
    /\ UNCHANGED <<batches, unmaterialised, procVars, claims>>

mark_failed_terminal(r) ==
    /\ r.phase = "settling" /\ r.verdict \in {"error", "cancel"}
    /\ ~retry_schedule(r) /\ Owns(r)
    /\ settle_terminal(
          [jobs EXCEPT ![r.job] = [Freed(@) EXCEPT !.state = "failed"]],
          Released(lanes, {r.job}), {r.job}, "failed")
    /\ runs' = runs \ {r}
    /\ UNCHANGED <<unmaterialised, procVars, claims>>

\* The verdict has no effect: the row is no longer this worker's, or the
\* transaction failed, which the worker logs before it takes another job.
DropVerdict(r) ==
    /\ r.phase = "settling"
    /\ runs' = runs \ {r}
    /\ UNCHANGED <<tables, unmaterialised, procVars, claims>>

update_heartbeat_batch(p) ==
    /\ mode[p] = "up"
    /\ \E j \in in_flight[p] :
          jobs[j].state = "running" /\ jobs[j].heartbeat # "fresh"
    /\ jobs' = [j \in Job |->
                   IF j \in in_flight[p] /\ jobs[j].state = "running"
                   THEN [jobs[j] EXCEPT !.heartbeat = "fresh"] ELSE jobs[j]]
    /\ UNCHANGED <<lanes, batches, unmaterialised, procVars, runs, claims>>

\* stale_after passes without a heartbeat: the process died, stopped
\* heartbeating, or could not reach the database in time.
HeartbeatExpires(j) ==
    /\ jobs[j].state = "running" /\ jobs[j].heartbeat = "fresh"
    /\ jobs' = [jobs EXCEPT ![j].heartbeat = "stale"]
    /\ UNCHANGED <<lanes, batches, unmaterialised, procVars, runs, claims>>

-----------------------------------------------------------------------------
(* Recovery.                                                               *)

\* Mutant: off by one.
Exhausted_OffByOne(j) == jobs[j].stalled_count > MaxStalled[j]

\* Out of stall budget?
Exhausted(j) == jobs[j].stalled_count + 1 > MaxStalled[j]

\* Mutant: a lost worker costs an attempt too.
RecoveredRow_ChargesAttempt(j) ==
    [Freed(jobs[j]) EXCEPT
        !.stalled_count = @ + 1,
        !.state = IF Exhausted(j) THEN "failed" ELSE "pending"]

RecoveredRow(j) ==
    [Freed(jobs[j]) EXCEPT
        !.stalled_count = @ + 1,
        !.state = IF Exhausted(j) THEN "failed" ELSE "pending",
        !.attempt = IF Exhausted(j) THEN @ ELSE IF @ > 0 THEN @ - 1 ELSE 0]

\* Mutants: every recovered job counts as failed in its batch; the slots of
\* recovered jobs are not given back.
Recover_AllFailed(S) ==
    settle_terminal([j \in Job |-> IF j \in S THEN RecoveredRow(j) ELSE jobs[j]],
                    Released(lanes, S), S, "failed")

Recover_KeepsSlots(S) ==
    settle_terminal([j \in Job |-> IF j \in S THEN RecoveredRow(j) ELSE jobs[j]],
                    lanes, {j \in S : Exhausted(j)}, "failed")

\* The transaction shared by the sweeper and by shutdown: the running rows
\* among S give up their slots, and those out of budget settle as failed.
\* try_claim_and_fire runs once for every batch that was bumped.
Recover(S) ==
    settle_terminal([j \in Job |-> IF j \in S THEN RecoveredRow(j) ELSE jobs[j]],
                    Released(lanes, S), {j \in S : Exhausted(j)}, "failed")

Stale == {j \in Job : /\ jobs[j].state = "running"
                      /\ jobs[j].heartbeat # "fresh"}

\* The sweeper of the process that leads maintenance.
sweep_stale ==
    /\ \E p \in Proc : mode[p] = "up"
    /\ Stale # {}
    /\ Recover(Stale)
    /\ UNCHANGED <<unmaterialised, procVars, runs, claims>>

-----------------------------------------------------------------------------
(* Shutdown and crash.                                                     *)

\* Aborted tasks lose their job; a settling transaction may already be on
\* its way to the database.
Aborted(p) == {r \in runs : r.proc = p /\ r.phase # "settling"}

\* shutdown_with and shutdown_drain_bounded: cancel the token, which stops the
\* fetcher after its current claim and the heartbeats at once, and copy the
\* in-flight set.
shutdown_with(p) ==
    /\ p \in Stoppable /\ mode[p] = "up"
    /\ \/ mode' = [mode EXCEPT ![p] = "draining"]
       \/ Dispatched(p) /\ mode' = [mode EXCEPT ![p] = "cancelled"]
    /\ snapshot' = [snapshot EXCEPT ![p] = in_flight[p]]
    /\ UNCHANGED <<tables, unmaterialised, in_flight, runs, claims>>

\* Every handler returned in time.  Jobs still in the channel are dropped.
DrainClean(p) ==
    /\ mode[p] = "draining"
    /\ \A r \in RunsOf(p) : r.phase = "queued"
    /\ mode' = [mode EXCEPT ![p] = "down"]
    /\ runs' = runs \ RunsOf(p)
    /\ in_flight' = [in_flight EXCEPT ![p] = {}]
    /\ snapshot' = [snapshot EXCEPT ![p] = {}]
    /\ UNCHANGED <<tables, unmaterialised, claims>>

\* The grace period of a bounded drain ran out, or the mode is Force, which
\* does not wait: abort the tasks.
abort_all(p) ==
    /\ mode[p] \in {"cancelled", "draining"}
    /\ mode' = [mode EXCEPT ![p] = "reclaiming"]
    /\ runs' = runs \ Aborted(p)
    /\ in_flight' = [in_flight EXCEPT ![p] = {}]
    /\ UNCHANGED <<tables, unmaterialised, snapshot, claims>>

\* WHERE state = 'running' AND id = ANY(snapshot): whoever runs it now.
reclaim_in_flight(p) ==
    LET S == {j \in snapshot[p] : jobs[j].state = "running"} IN
    /\ mode[p] = "reclaiming"
    /\ Recover(S)
    /\ mode' = [mode EXCEPT ![p] = "down"]
    /\ snapshot' = [snapshot EXCEPT ![p] = {}]
    /\ UNCHANGED <<unmaterialised, in_flight, runs, claims>>

\* A failed reclaim is logged; the sweeper of another process will do.
ReclaimFails(p) ==
    /\ mode[p] = "reclaiming"
    /\ mode' = [mode EXCEPT ![p] = "down"]
    /\ snapshot' = [snapshot EXCEPT ![p] = {}]
    /\ UNCHANGED <<tables, unmaterialised, in_flight, runs, claims>>

\* shutdown_with(Abandon), or the process dies.
Crash(p) ==
    /\ p \in Stoppable /\ mode[p] # "down"
    /\ mode' = [mode EXCEPT ![p] = "down"]
    /\ runs' = runs \ Aborted(p)
    /\ in_flight' = [in_flight EXCEPT ![p] = {}]
    /\ snapshot' = [snapshot EXCEPT ![p] = {}]
    /\ UNCHANGED <<tables, unmaterialised, claims>>

-----------------------------------------------------------------------------

Settle(r) ==
    \/ mark_completed(r)
    \/ mark_failed_retry(r)
    \/ mark_failed_terminal(r)

WorkerStep(r) ==
    \/ Dispatch(r)
    \/ StartHandler(r)
    \/ FinishHandler(r)
    \/ Settle(r)
    \/ DropVerdict(r)

Producer ==
    \/ \E j \in Job : enqueue_dyn(j)
    \/ \E j \in Job : materialize_from_rule(j)
    \/ \E S \in SUBSET Job : enqueue_many_dyn(S)
    \/ \E b \in Batch : enqueue_batch(b)
    \/ \E j \in Job : cancel(j)

Operator ==
    \/ \E l \in Operable : set_concurrency(l)
    \/ \E l \in Operable : set_paused(l)

Clock ==
    \/ \E j \in Job : BecomeDue(j)
    \/ \E j \in Job : HeartbeatExpires(j)

Process ==
    \/ \E p \in Proc, S \in SUBSET Job : claim_batch(p, S)
    \/ \E r \in runs : WorkerStep(r)
    \/ \E p \in Proc : update_heartbeat_batch(p)
    \/ sweep_stale

Shutdown ==
    \E p \in Proc :
        \/ shutdown_with(p)
        \/ LastClaimEmpty(p)
        \/ DrainClean(p)
        \/ abort_all(p)
        \/ reclaim_in_flight(p)
        \/ ReclaimFails(p)
        \/ Crash(p)

Next == Producer \/ Operator \/ Clock \/ Process \/ Shutdown

Spec == Init /\ [][Next]_vars

-----------------------------------------------------------------------------
(* Safety.                                                                 *)

\* A concurrency counter equals the number of rows it counts.  Claims add,
\* five transactions subtract, two admin statements create rows on the fly;
\* one path too few or too many leaks a slot for good (fetch.rs:1125-1145).
CountersExact ==
    \A l \in Lane :
        /\ lanes[l].row => lanes[l].running_count = Cardinality(Running(l))
        /\ l \in Group /\ ~lanes[l].row => Running(l) = {}

\* No step starts a job in a lane that is paused or at its cap, counted in
\* rows that are really running and not in what the counter says.
CapsRespected ==
    [][\A l \in Lane :
          lanes[l].row /\ (\E j \in Running(l)' : j \notin Running(l)) =>
              /\ ~lanes[l].paused
              /\ Cardinality(Running(l)') <= lanes[l].max_concurrency]_vars

\* A finalized job stays what it is: no late verdict, heartbeat, sweep or
\* reclaim revives it or changes its outcome.
TerminalIsFinal ==
    [][\A j \in Job : jobs[j].state \in Terminal =>
                          jobs'[j].state = jobs[j].state]_vars

\* Every claim is charged once, to the attempt budget or to the stall
\* budget.  A lost worker costs no attempt, and the floor GREATEST(attempt -
\* 1, 0) of the sweep never hides an attempt.
ClaimsAccounted ==
    \A j \in Job :
        claims[j] = jobs[j].attempt + jobs[j].stalled_count
                       - (IF jobs[j].stalled_count > MaxStalled[j] THEN 1 ELSE 0)

\* A job past its stall budget is failed and nothing else: it can not be
\* claimed, retried or recovered once more.
StallBudget ==
    \A j \in Job :
        /\ jobs[j].stalled_count > MaxStalled[j] => jobs[j].state = "failed"
        /\ jobs[j].stalled_count <= MaxStalled[j] + 1

\* A process heartbeats only jobs it holds.  An id left behind in the
\* in-flight set would keep an abandoned row fresh, and hidden from the
\* sweeper, for as long as the process lives.
HeartbeatsOnlyHeldJobs ==
    \A p \in Proc : \A j \in in_flight[p] :
        \E r \in RunsOf(p) : r.job = j /\ r.phase \in {"queued", "executing"}

\* While a process runs the current claim of a job, it heartbeats it.
HeldJobsAreHeartbeaten ==
    \A r \in runs :
        /\ r.phase \in {"queued", "executing"}
        /\ mode[r.proc] = "up"
        /\ jobs[r.job].state = "running"
        /\ r.claim = claims[r.job]
        => r.job \in in_flight[r.proc]

\* A process heartbeats the jobs it holds and no others, however its fetcher,
\* workers and drop guards interleave (runtime.rs:317, 454).
HeartbeatsExact == HeartbeatsOnlyHeldJobs /\ HeldJobsAreHeartbeaten

\* The counters of a batch row count its jobs by their final state, and
\* total counts the jobs it inserted.
BatchTally ==
    \A b \in Batch :
        LET count(states) ==
                Cardinality({j \in Members(b) : jobs[j].state \in states})
        IN batches[b].state # "absent" =>
              /\ batches[b].completed = count({"completed"})
              /\ batches[b].failed = count({"failed"})
              /\ batches[b].cancelled = count({"cancelled"})
              /\ batches[b].total = count(Live \cup Terminal)

\* Fan-in: the callback has been enqueued once when the batch is complete
\* and not before, and a batch is complete exactly when no job of it is left.
CallbackOnce ==
    \A b \in Batch :
        /\ batches[b].state = "complete" =>
              \A j \in Members(b) : jobs[j].state \notin Live
        /\ batches[b].state = "pending" =>
              \E j \in Members(b) : jobs[j].state \in Live
        /\ batches[b].callbacks =
              IF batches[b].state = "complete" /\ Callback[b] # NoJob
              THEN 1 ELSE 0

\* What a run reports is applied to its own claim only, never to a later
\* claim of the same job (the gate of mark_completed and mark_failed).
VerdictForOwnClaim ==
    [][\A r \in runs \ runs' :
          r.phase = "settling" /\ jobs'[r.job] # jobs[r.job] =>
              r.claim = claims[r.job]]_vars

\* Errors are retried up to max_attempts: no claim goes beyond it.
AttemptsBounded ==
    \A j \in Job : jobs[j].attempt <= MaxAttempts[j]

\* Reclaiming at shutdown takes back jobs of this process only.
ReclaimsOwnJobs ==
    [][\A p \in Proc :
          mode[p] = "reclaiming" /\ mode'[p] = "down" =>
              \A j \in Job : jobs[j].state = "running" /\ jobs'[j] # jobs[j] =>
                                 jobs[j].worker_id = p]_vars

-----------------------------------------------------------------------------
(* The counters of eddyq_batches implement the fan-in of BatchFanIn.       *)

FanIn == INSTANCE BatchFanIn WITH
    HasCallback <- {b \in Batch : Callback[b] # NoJob},
    open <- [b \in Batch |-> {j \in Members(b) : jobs[j].state \in Live}],
    status <- [b \in Batch |-> batches[b].state],
    callbacks <- [b \in Batch |-> batches[b].callbacks]

\* Settling by counting, in whichever transaction a job of the batch reaches
\* a final state, is settling by membership (batch.rs:164-262).
ImplementsFanIn == FanIn!Spec

-----------------------------------------------------------------------------
(* Liveness.                                                               *)

\* No live process holds j in its in-flight set.
Orphan(j) == \A p \in Proc : mode[p] = "up" => j \notin in_flight[p]

\* Time passes, the loops of a running process keep turning, handlers
\* return, and one process stays up to sweep.  Nothing makes producers,
\* operators, crashes, or the loss of a held lease happen.
Fairness ==
    /\ \A j \in Job :
          /\ WF_vars(BecomeDue(j))
          /\ WF_vars(Orphan(j) /\ HeartbeatExpires(j))
    /\ \A p \in Proc, j \in Job :
          /\ WF_vars(\E S \in SUBSET Job : j \in S /\ claim_batch(p, S))
          /\ WF_vars(\E r \in runs : r.proc = p /\ r.job = j /\ WorkerStep(r))
    /\ WF_vars(sweep_stale)

FairSpec == Spec /\ Fairness

\* Every enqueued job is settled, whatever processes crash or stop on the
\* way, as long as one stays up.
JobsSettle ==
    \A j \in Job : jobs[j].state \in Live ~> jobs[j].state \in Terminal

\* Every batch reaches complete (batch.rs:123-125).
BatchesComplete ==
    \A b \in Batch : batches[b].state = "pending" ~> batches[b].state = "complete"
=============================================================================
