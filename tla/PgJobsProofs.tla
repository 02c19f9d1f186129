---------------------------- MODULE PgJobsProofs ----------------------------
(***************************************************************************)
(* What TLAPS proves of PgJobs, for any jobs, processes, lanes and         *)
(* batches, section by section:                                            *)
(*   - types: TypeCorrect;                                                 *)
(*   - the life of a row: budgets, and finality of final states;           *)
(*   - the counters of lanes, and from them that caps are respected;       *)
(*   - the fan-in of batches, and the refinement of BatchFanIn;            *)
(*   - who may settle a row: verdicts, attempts, heartbeats.               *)
(* Each section first says what any step does to the part of the state it  *)
(* is about, in a few moves, and then reasons about the moves alone.       *)
(***************************************************************************)
EXTENDS PgJobs, FiniteSetTheorems, TLAPS

\* The number of jobs in a set of jobs is a natural number.
LEMMA JobSetsAreFinite ==
    ASSUME NEW S, S \subseteq Job
    PROVE  IsFiniteSet(S) /\ Cardinality(S) \in Nat
BY ConstantsAssumption, FS_Subset, FS_CardinalityType

-----------------------------------------------------------------------------
(* Types of the table operators.                                           *)

\* An INSERT makes job rows.
LEMMA InsertedType ==
    ASSUME NEW T \in [Job -> JobRow], NEW I, NEW D
    PROVE  Inserted(T, I, D) \in [Job -> JobRow]
<1>1. ASSUME NEW v \in BOOLEAN
      PROVE  [NoRow EXCEPT !.state = "pending", !.due = v] \in JobRow
      BY DEF NoRow, JobRow, Live
<1>2. \A j \in Job : (j \in D) \in BOOLEAN
      OBVIOUS
<1> QED BY <1>1, <1>2 DEF Inserted

\* Releasing slots keeps lane rows lane rows: no counter goes below zero.
LEMMA ReleasedType ==
    ASSUME NEW L \in [Lane -> LaneRow], NEW S, S \subseteq Job
    PROVE  Released(L, S) \in [Lane -> LaneRow]
<1> SUFFICES ASSUME NEW l \in Lane
             PROVE  [L[l] EXCEPT !.running_count =
                        IF @ > Cardinality(S \cap JobsOf(l))
                        THEN @ - Cardinality(S \cap JobsOf(l)) ELSE 0] \in LaneRow
    BY DEF Released
<1>1. Cardinality(S \cap JobsOf(l)) \in Nat
      BY JobSetsAreFinite
<1>2. L[l] \in LaneRow
      OBVIOUS
<1> QED BY <1>1, <1>2 DEF LaneRow

\* Occupying slots keeps lane rows lane rows.
LEMMA OccupiedType ==
    ASSUME NEW L \in [Lane -> LaneRow], NEW S, S \subseteq Job
    PROVE  Occupied(L, S) \in [Lane -> LaneRow]
<1> SUFFICES ASSUME NEW l \in Lane
             PROVE  Occupied(L, S)[l] \in LaneRow
    BY DEF Occupied
<1>1. Cardinality(S \cap JobsOf(l)) \in Nat
      BY JobSetsAreFinite
<1>2. L[l] \in LaneRow
      OBVIOUS
<1> DEFINE n == Cardinality(S \cap JobsOf(l))
<1>3. CASE n = 0
      BY <1>2, <1>3 DEF Occupied
<1>4. CASE n > 0 /\ l \in Group
  <2>1. Occupied(L, S)[l] = [L[l] EXCEPT !.row = TRUE,
                                         !.running_count = L[l].running_count + n]
        BY <1>1, <1>4 DEF Occupied
  <2>2. L[l].running_count + n \in Nat
        BY <1>1, <1>2 DEF LaneRow
  <2> QED BY <1>2, <2>1, <2>2 DEF LaneRow
<1>5. CASE n > 0 /\ l \notin Group
  <2>1. Occupied(L, S)[l] = [L[l] EXCEPT !.running_count =
                                IF L[l].row THEN @ + n ELSE @]
        BY <1>1, <1>5 DEF Occupied
  <2> QED BY <1>1, <1>2, <2>1 DEF LaneRow
<1> QED BY <1>1, <1>3, <1>4, <1>5

\* A rule makes a lane row.
LEMMA MaterialisedType ==
    ASSUME NEW L \in [Lane -> LaneRow], NEW S
    PROVE  Materialised(L, S) \in [Lane -> LaneRow]
<1> SUFFICES ASSUME NEW l \in Lane
             PROVE  Materialised(L, S)[l] \in LaneRow
    BY DEF Materialised
<1>1. L[l] \in LaneRow
      OBVIOUS
<1> QED BY <1>1, ConstantsAssumption DEF LaneRow, Materialised

\* Bumping a counter of a batch row leaves a batch row.
LEMMA BumpedType ==
    ASSUME TypeOK, NEW b \in Batch, NEW D, D \subseteq Job,
           NEW outcome \in {"completed", "failed", "cancelled"}
    PROVE  Bumped(b, D, outcome) \in BatchRow
<1>1. Cardinality(D \cap Members(b)) \in Nat
      BY JobSetsAreFinite
<1>2. batches[b] \in BatchRow
      BY DEF TypeOK
<1> QED BY <1>1, <1>2 DEF Bumped, BatchRow

\* Completing a batch row leaves a batch row.
LEMMA CompletedType ==
    ASSUME NEW row \in BatchRow, NEW b \in Batch
    PROVE  Completed(row, b) \in BatchRow
<1>1. CASE Callback[b] = NoJob
      BY <1>1 DEF Completed, BatchRow
<1>2. CASE Callback[b] # NoJob
  <2>1. Completed(row, b) = [row EXCEPT !.state = "complete",
                                        !.callbacks = row.callbacks + 1]
        BY <1>2 DEF Completed
  <2>2. row.callbacks + 1 \in Nat
        BY DEF BatchRow
  <2> QED BY <2>1, <2>2 DEF BatchRow
<1> QED BY <1>1, <1>2

\* settle_terminal leaves well-typed tables.
LEMMA SettleType ==
    ASSUME TypeOK, NEW T \in [Job -> JobRow], NEW L \in [Lane -> LaneRow],
           NEW D, D \subseteq Job,
           NEW outcome \in {"completed", "failed", "cancelled"},
           settle_terminal(T, L, D, outcome)
    PROVE  /\ jobs' \in [Job -> JobRow]
           /\ lanes' \in [Lane -> LaneRow]
           /\ batches' \in [Batch -> BatchRow]
<1>1. jobs' \in [Job -> JobRow]
      BY InsertedType DEF settle_terminal
<1>2. lanes' \in [Lane -> LaneRow]
      BY MaterialisedType DEF settle_terminal
<1>3. batches' \in [Batch -> BatchRow]
      BY BumpedType, CompletedType DEF settle_terminal
<1> QED BY <1>1, <1>2, <1>3

\* A recovered row, field by field.
LEMMA RecoveredFields ==
    ASSUME TypeOK, NEW j \in Job
    PROVE  /\ RecoveredRow(j) \in JobRow
           /\ RecoveredRow(j).stalled_count = jobs[j].stalled_count + 1
           /\ Exhausted(j) => /\ RecoveredRow(j).state = "failed"
                              /\ RecoveredRow(j).attempt = jobs[j].attempt
           /\ ~Exhausted(j) =>
                 /\ RecoveredRow(j).state = "pending"
                 /\ RecoveredRow(j).attempt = IF jobs[j].attempt > 0
                                              THEN jobs[j].attempt - 1 ELSE 0
<1> DEFINE row == Freed(jobs[j])
           n == row.stalled_count + 1
           s == IF Exhausted(j) THEN "failed" ELSE "pending"
           m == IF Exhausted(j) THEN row.attempt
                ELSE IF row.attempt > 0 THEN row.attempt - 1 ELSE 0
<1>1. /\ row \in JobRow
      /\ row.stalled_count = jobs[j].stalled_count
      /\ row.attempt = jobs[j].attempt
  <2>1. jobs[j] \in JobRow
        BY DEF TypeOK
  <2> QED BY <2>1 DEF Freed, JobRow
<1>2. RecoveredRow(j) = [row EXCEPT !.stalled_count = n, !.state = s, !.attempt = m]
      BY DEF RecoveredRow
<1>3. n \in Nat /\ s \in {"failed", "pending"} /\ m \in Nat
      BY <1>1 DEF JobRow
<1> HIDE DEF row, n, s, m
<1>4. RecoveredRow(j) \in JobRow
      BY <1>1, <1>2, <1>3 DEF JobRow, Live, Terminal
<1>5. /\ RecoveredRow(j).stalled_count = n
      /\ RecoveredRow(j).state = s
      /\ RecoveredRow(j).attempt = m
      BY <1>1, <1>2 DEF JobRow
<1> QED BY <1>1, <1>4, <1>5 DEF n, s, m

\* Recovery leaves well-typed tables.
LEMMA RecoverType ==
    ASSUME TypeOK, NEW S, S \subseteq Job, Recover(S)
    PROVE  /\ jobs' \in [Job -> JobRow]
           /\ lanes' \in [Lane -> LaneRow]
           /\ batches' \in [Batch -> BatchRow]
<1> DEFINE T == [j \in Job |-> IF j \in S THEN RecoveredRow(j) ELSE jobs[j]]
<1>2. T \in [Job -> JobRow]
      BY RecoveredFields DEF TypeOK
<1>3. Released(lanes, S) \in [Lane -> LaneRow]
      BY ReleasedType DEF TypeOK
<1>4. settle_terminal(T, Released(lanes, S), {j \in S : Exhausted(j)}, "failed")
      BY DEF Recover
<1> HIDE DEF T
<1> QED BY <1>2, <1>3, <1>4, SettleType

\* A run that moves on is a run.
LEMMA AdvanceType ==
    ASSUME TypeOK, NEW r \in runs,
           NEW phase \in {"queued", "executing", "settling"},
           NEW v \in Verdicts \cup {"none"},
           Advance(r, phase, v)
    PROVE  runs' \subseteq Run
<1>1. r \in Run
      BY DEF TypeOK
<1>2. [r EXCEPT !.phase = phase, !.verdict = v] \in Run
      BY <1>1 DEF Run
<1> QED BY <1>2 DEF Advance, TypeOK

\* A row whose worker is gone and whose state is s.
LEMMA FreedType ==
    ASSUME TypeOK, NEW j \in Job, NEW s \in Live \cup Terminal
    PROVE  /\ [Freed(jobs[j]) EXCEPT !.state = s] \in JobRow
           /\ [Freed(jobs[j]) EXCEPT !.state = s, !.due = FALSE] \in JobRow
           /\ [jobs[j] EXCEPT !.state = s] \in JobRow
<1>1. jobs[j] \in JobRow
      BY DEF TypeOK
<1> QED BY <1>1 DEF Freed, JobRow, Live, Terminal

-----------------------------------------------------------------------------
(* Type correctness.                                                       *)

\* Producers keep the types.
LEMMA ProducerType ==
    ASSUME TypeOK, Producer
    PROVE  TypeOK'
<1>1. ASSUME NEW j \in Job, enqueue_dyn(j)
      PROVE  TypeOK'
      BY <1>1, InsertedType DEF enqueue_dyn, TypeOK, procVars
<1>2. ASSUME NEW j \in Job, materialize_from_rule(j)
      PROVE  TypeOK'
      BY <1>2, MaterialisedType DEF materialize_from_rule, TypeOK, procVars
<1>3. ASSUME NEW S \in SUBSET Job, enqueue_many_dyn(S)
      PROVE  TypeOK'
      BY <1>3, InsertedType, MaterialisedType DEF enqueue_many_dyn, TypeOK, procVars
<1>4. ASSUME NEW b \in Batch, enqueue_batch(b)
      PROVE  TypeOK'
  <2>1. PICK I \in Insertable(Members(b)) :
            LET row == [batches[b] EXCEPT !.state = "pending",
                                          !.total = Cardinality(I)]
                C   == IF I = {} THEN CallbacksOf({b}) ELSE {}
            IN
            /\ jobs' = Inserted(jobs, I \cup C, I \cup C)
            /\ lanes' = Materialised(lanes, Members(b) \cup C)
            /\ batches' = [batches EXCEPT
                              ![b] = IF I = {} THEN Completed(row, b) ELSE row]
        BY <1>4 DEF enqueue_batch
  <2>2. I \subseteq Job /\ Cardinality(I) \in Nat
        BY JobSetsAreFinite DEF Insertable, Members
  <2>3. batches[b] \in BatchRow
        BY DEF TypeOK
  <2>4. [batches[b] EXCEPT !.state = "pending", !.total = Cardinality(I)] \in BatchRow
        BY <2>2, <2>3 DEF BatchRow
  <2>5. batches' \in [Batch -> BatchRow]
        BY <2>1, <2>4, CompletedType DEF TypeOK
  <2>6. jobs' \in [Job -> JobRow] /\ lanes' \in [Lane -> LaneRow]
        BY <2>1, InsertedType, MaterialisedType DEF TypeOK
  <2> QED BY <1>4, <2>5, <2>6 DEF enqueue_batch, TypeOK, procVars
<1>5. ASSUME NEW j \in Job, cancel(j)
      PROVE  TypeOK'
  <2>1. [jobs EXCEPT ![j].state = "cancelled"] \in [Job -> JobRow]
        BY FreedType DEF TypeOK, Terminal
  <2>2. /\ jobs' \in [Job -> JobRow]
        /\ lanes' \in [Lane -> LaneRow]
        /\ batches' \in [Batch -> BatchRow]
        BY <1>5, <2>1, SettleType DEF cancel, TypeOK
  <2> QED BY <1>5, <2>2 DEF cancel, TypeOK, procVars
<1> QED BY <1>1, <1>2, <1>3, <1>4, <1>5 DEF Producer

\* Operators keep the types.
LEMMA OperatorType ==
    ASSUME TypeOK, Operator
    PROVE  TypeOK'
<1>1. ASSUME NEW l \in Lane
      PROVE  Upserted(l) \in LaneRow
  <2>1. lanes[l] \in LaneRow /\ Cardinality(Running(l)) \in Nat
        BY JobSetsAreFinite DEF TypeOK, Running, JobsOf
  <2> QED BY <2>1 DEF Upserted, LaneRow
<1>2. ASSUME NEW l \in Operable, set_concurrency(l)
      PROVE  TypeOK'
  <2>1. PICK max \in Caps :
            lanes' = [lanes EXCEPT
                         ![l] = [Upserted(l) EXCEPT !.max_concurrency = max]]
        BY <1>2 DEF set_concurrency
  <2>2. l \in Lane /\ max \in Nat
        BY ConstantsAssumption DEF Lane
  <2>3. [Upserted(l) EXCEPT !.max_concurrency = max] \in LaneRow
        BY <1>1, <2>2 DEF LaneRow
  <2>4. lanes' \in [Lane -> LaneRow]
        BY <2>1, <2>2, <2>3 DEF TypeOK
  <2> QED BY <1>2, <2>4 DEF set_concurrency, TypeOK, procVars
<1>3. ASSUME NEW l \in Operable, set_paused(l)
      PROVE  TypeOK'
  <2>1. l \in Lane
        BY ConstantsAssumption DEF Lane
  <2>2. [Upserted(l) EXCEPT !.paused = ~@] \in LaneRow
        BY <1>1, <2>1 DEF LaneRow
  <2>3. lanes' \in [Lane -> LaneRow]
        BY <1>3, <2>1, <2>2 DEF set_paused, TypeOK
  <2> QED BY <1>3, <2>3 DEF set_paused, TypeOK, procVars
<1> QED BY <1>2, <1>3 DEF Operator

\* The passing of time keeps the types.
LEMMA ClockType ==
    ASSUME TypeOK, Clock
    PROVE  TypeOK'
<1>0. \A j \in Job : jobs[j] \in JobRow
      BY DEF TypeOK
<1>1. ASSUME NEW j \in Job, BecomeDue(j)
      PROVE  TypeOK'
  <2>1. [jobs[j] EXCEPT !.due = TRUE] \in JobRow
        BY <1>0 DEF JobRow
  <2> QED BY <1>1, <2>1 DEF BecomeDue, TypeOK, procVars
<1>2. ASSUME NEW j \in Job, HeartbeatExpires(j)
      PROVE  TypeOK'
  <2>1. [jobs[j] EXCEPT !.heartbeat = "stale"] \in JobRow
        BY <1>0 DEF JobRow
  <2> QED BY <1>2, <2>1 DEF HeartbeatExpires, TypeOK, procVars
<1> QED BY <1>1, <1>2 DEF Clock

\* A claim keeps the types.
LEMMA ClaimType ==
    ASSUME TypeOK, NEW p \in Proc, NEW S \in SUBSET Job, claim_batch(p, S)
    PROVE  TypeOK'
<1>1. ASSUME NEW j \in Job
      PROVE  ClaimedRow(j, p) \in JobRow
  <2>1. jobs[j] \in JobRow /\ jobs[j].attempt + 1 \in Nat
        BY DEF TypeOK, JobRow
  <2>2. ClaimedRow(j, p) = [jobs[j] EXCEPT !.state = "running",
                                           !.attempt = jobs[j].attempt + 1,
                                           !.heartbeat = "fresh", !.worker_id = p]
        BY DEF ClaimedRow
  <2> QED BY <2>1, <2>2 DEF JobRow, Live
<1>2. jobs' \in [Job -> JobRow]
      BY <1>1 DEF claim_batch, TypeOK
<1>3. lanes' \in [Lane -> LaneRow]
      BY OccupiedType DEF claim_batch, TypeOK
<1>4. claims' \in [Job -> Nat]
      BY DEF claim_batch, TypeOK
<1>5. ASSUME NEW j \in S
      PROVE  [job |-> j, claim |-> claims[j] + 1, proc |-> p,
              attempt |-> jobs[j].attempt + 1,
              phase |-> "fetched", verdict |-> "none"] \in Run
  <2>1. jobs[j].attempt + 1 \in Nat /\ claims[j] + 1 \in Nat
        BY DEF TypeOK, JobRow
  <2> QED BY <2>1 DEF Run
<1>6. runs' \subseteq Run
      BY <1>5 DEF claim_batch, TypeOK
<1>7. mode' \in [Proc -> {"up", "cancelled", "draining", "reclaiming", "down"}]
      BY DEF claim_batch, TypeOK
<1> QED BY <1>2, <1>3, <1>4, <1>6, <1>7 DEF claim_batch, TypeOK

\* The steps of a worker keep the types.
LEMMA WorkerType ==
    ASSUME TypeOK, NEW r \in runs, WorkerStep(r)
    PROVE  TypeOK'
<1>1. r.job \in Job /\ r.proc \in Proc
      BY DEF TypeOK, Run
<1>2. runs \ {r} \subseteq Run
      BY DEF TypeOK
<1>3. CASE Dispatch(r)
  <2>1. runs' \subseteq Run
        BY <1>3, AdvanceType DEF Dispatch
  <2> QED BY <1>1, <1>3, <2>1 DEF Dispatch, TypeOK, tables
<1>4. CASE StartHandler(r)
  <2>1. runs' \subseteq Run
        BY <1>4, AdvanceType DEF StartHandler
  <2> QED BY <1>4, <2>1 DEF StartHandler, TypeOK, tables, procVars
<1>5. CASE FinishHandler(r)
  <2>1. runs' \subseteq Run
        BY <1>5, AdvanceType DEF FinishHandler
  <2> QED BY <1>1, <1>5, <2>1 DEF FinishHandler, TypeOK, tables
<1>6. CASE mark_completed(r)
  <2>1. [jobs EXCEPT ![r.job] = [Freed(@) EXCEPT !.state = "completed"]]
            \in [Job -> JobRow]
        BY <1>1, FreedType DEF TypeOK, Terminal
  <2>2. Released(lanes, {r.job}) \in [Lane -> LaneRow]
        BY <1>1, ReleasedType DEF TypeOK
  <2>3. /\ jobs' \in [Job -> JobRow]
        /\ lanes' \in [Lane -> LaneRow]
        /\ batches' \in [Batch -> BatchRow]
        BY <1>1, <1>6, <2>1, <2>2, SettleType DEF mark_completed
  <2> QED BY <1>2, <1>6, <2>3 DEF mark_completed, TypeOK, procVars
<1>7. CASE mark_failed_retry(r)
  <2>1. jobs' \in [Job -> JobRow]
        BY <1>1, <1>7, FreedType DEF mark_failed_retry, TypeOK, Live
  <2>2. lanes' \in [Lane -> LaneRow]
        BY <1>1, <1>7, ReleasedType DEF mark_failed_retry, TypeOK
  <2> QED BY <1>2, <1>7, <2>1, <2>2 DEF mark_failed_retry, TypeOK, procVars
<1>8. CASE mark_failed_terminal(r)
  <2>1. [jobs EXCEPT ![r.job] = [Freed(@) EXCEPT !.state = "failed"]]
            \in [Job -> JobRow]
        BY <1>1, FreedType DEF TypeOK, Terminal
  <2>2. Released(lanes, {r.job}) \in [Lane -> LaneRow]
        BY <1>1, ReleasedType DEF TypeOK
  <2>3. /\ jobs' \in [Job -> JobRow]
        /\ lanes' \in [Lane -> LaneRow]
        /\ batches' \in [Batch -> BatchRow]
        BY <1>1, <1>8, <2>1, <2>2, SettleType DEF mark_failed_terminal
  <2> QED BY <1>2, <1>8, <2>3 DEF mark_failed_terminal, TypeOK, procVars
<1>9. CASE DropVerdict(r)
      BY <1>2, <1>9 DEF DropVerdict, TypeOK, tables, procVars
<1> QED BY <1>3, <1>4, <1>5, <1>6, <1>7, <1>8, <1>9 DEF WorkerStep, Settle

\* The loops of a process keep the types.
LEMMA ProcessType ==
    ASSUME TypeOK, Process
    PROVE  TypeOK'
<1>1. ASSUME NEW p \in Proc, update_heartbeat_batch(p)
      PROVE  TypeOK'
  <2>1. ASSUME NEW j \in Job
        PROVE  [jobs[j] EXCEPT !.heartbeat = "fresh"] \in JobRow
    <3>1. jobs[j] \in JobRow
          BY DEF TypeOK
    <3> QED BY <3>1 DEF JobRow
  <2>2. jobs' \in [Job -> JobRow]
        BY <1>1, <2>1 DEF update_heartbeat_batch, TypeOK
  <2> QED BY <1>1, <2>2 DEF update_heartbeat_batch, TypeOK, procVars
<1>2. CASE sweep_stale
  <2>1. Stale \subseteq Job
        BY DEF Stale
  <2>2. /\ jobs' \in [Job -> JobRow]
        /\ lanes' \in [Lane -> LaneRow]
        /\ batches' \in [Batch -> BatchRow]
        BY <1>2, <2>1, RecoverType DEF sweep_stale
  <2> QED BY <1>2, <2>2 DEF sweep_stale, TypeOK, procVars
<1> QED BY <1>1, <1>2, ClaimType, WorkerType DEF Process

\* Stopping a process keeps the types.
LEMMA ShutdownType ==
    ASSUME TypeOK, Shutdown
    PROVE  TypeOK'
<1> SUFFICES ASSUME NEW p \in Proc,
                    \/ shutdown_with(p) \/ LastClaimEmpty(p) \/ DrainClean(p)
                    \/ abort_all(p) \/ reclaim_in_flight(p)
                    \/ ReclaimFails(p) \/ Crash(p)
             PROVE  TypeOK'
    BY DEF Shutdown
<1>1. runs \ Aborted(p) \subseteq Run /\ runs \ RunsOf(p) \subseteq Run
      BY DEF TypeOK
<1>2. CASE shutdown_with(p)
      BY <1>2 DEF shutdown_with, TypeOK, tables
<1>3. CASE DrainClean(p)
      BY <1>1, <1>3 DEF DrainClean, TypeOK, tables
<1>4. CASE LastClaimEmpty(p)
      BY <1>4 DEF LastClaimEmpty, TypeOK, tables
<1>5. CASE abort_all(p)
      BY <1>1, <1>5 DEF abort_all, TypeOK, tables
<1>6. CASE reclaim_in_flight(p)
  <2>1. {j \in snapshot[p] : jobs[j].state = "running"} \subseteq Job
        BY DEF TypeOK
  <2>2. /\ jobs' \in [Job -> JobRow]
        /\ lanes' \in [Lane -> LaneRow]
        /\ batches' \in [Batch -> BatchRow]
        BY <1>6, <2>1, RecoverType DEF reclaim_in_flight
  <2> QED BY <1>6, <2>2 DEF reclaim_in_flight, TypeOK
<1>7. CASE ReclaimFails(p)
      BY <1>7 DEF ReclaimFails, TypeOK, tables
<1>8. CASE Crash(p)
      BY <1>1, <1>8 DEF Crash, TypeOK, tables
<1> QED BY <1>2, <1>3, <1>4, <1>5, <1>6, <1>7, <1>8

\* The initial state is well typed.
LEMMA InitType ==
    ASSUME Init
    PROVE  TypeOK
<1>1. jobs \in [Job -> JobRow]
      BY DEF Init, NoRow, JobRow
<1>2. lanes \in [Lane -> LaneRow]
      BY DEF Init, LaneRow, Unlimited
<1>3. batches \in [Batch -> BatchRow]
      BY DEF Init, BatchRow
<1> QED BY <1>1, <1>2, <1>3 DEF Init, TypeOK

\* Every reachable state is well typed, whatever the constants: in particular
\* the tables hold no state outside the ones the code writes, and the counters
\* of lanes and batches are never negative (fetch.rs, batch.rs).
THEOREM TypeCorrect == Spec => []TypeOK
<1>1. Init => TypeOK
      BY InitType
<1>2. TypeOK /\ [Next]_vars => TypeOK'
  <2>1. ASSUME TypeOK, UNCHANGED vars
        PROVE  TypeOK'
        BY <2>1 DEF TypeOK, vars
  <2> QED BY <2>1, ProducerType, OperatorType, ClockType, ProcessType,
             ShutdownType DEF Next
<1> QED BY <1>1, <1>2, PTL DEF Spec

-----------------------------------------------------------------------------
(***************************************************************************)
(* The life of a row of eddyq_jobs.  Every step of the system takes every  *)
(* row along one edge of a small diagram (RowStep); that a final state is  *)
(* final and that the attempt and stall budgets add up are facts about the *)
(* diagram.                                                                *)
(***************************************************************************)

\* A batch's callback has no row before the batch is complete, and its jobs
\* have none before the batch row is there.  Without this, the INSERTs of
\* enqueue_batch and of try_claim_and_fire could overwrite a row.
Unborn ==
    \A b \in Batch :
        /\ batches[b].state # "complete" /\ Callback[b] \in Job =>
               jobs[Callback[b]].state = "absent"
        /\ batches[b].state = "absent" =>
               \A j \in Members(b) : jobs[j].state = "absent"

Kept(j) ==
    /\ jobs'[j].state = jobs[j].state
    /\ jobs'[j].attempt = jobs[j].attempt
    /\ jobs'[j].stalled_count = jobs[j].stalled_count
    /\ claims'[j] = claims[j]

\* Who may insert the row of j.
Born(j) ==
    \/ j \notin CallbackJobs /\ BatchOf[j] = NoBatch
    \/ \E b \in Batch : /\ BatchOf[j] = b
                        /\ batches[b].state = "absent"
                        /\ batches'[b].state # "absent"
    \/ \E b \in Batch : /\ Callback[b] = j
                        /\ batches[b].state # "complete"
                        /\ batches'[b].state = "complete"

Enters(j) ==
    /\ jobs[j].state = "absent" /\ jobs'[j].state = "pending"
    /\ jobs'[j].attempt = 0 /\ jobs'[j].stalled_count = 0
    /\ claims'[j] = claims[j]
    /\ Born(j)

IsClaimed(j) ==
    /\ jobs[j].state = "pending" /\ jobs'[j].state = "running"
    /\ jobs'[j].attempt = jobs[j].attempt + 1
    /\ jobs'[j].stalled_count = jobs[j].stalled_count
    /\ claims'[j] = claims[j] + 1

Settles(j) ==
    /\ \/ jobs[j].state = "pending" /\ jobs'[j].state = "cancelled"
       \/ /\ jobs[j].state = "running"
          /\ jobs'[j].state \in {"completed", "failed", "pending"}
    /\ jobs'[j].attempt = jobs[j].attempt
    /\ jobs'[j].stalled_count = jobs[j].stalled_count
    /\ claims'[j] = claims[j]

IsRecovered(j) ==
    /\ jobs[j].state = "running"
    /\ jobs'[j] = RecoveredRow(j)
    /\ claims'[j] = claims[j]

RowStep(j) ==
    Kept(j) \/ Enters(j) \/ IsClaimed(j) \/ Settles(j) \/ IsRecovered(j)

BatchStep(b) ==
    \/ batches'[b].state = batches[b].state
    \/ batches[b].state = "absent"
    \/ batches[b].state = "pending" /\ batches'[b].state = "complete"

\* What a step does to all rows.
Steps == /\ \A j \in Job : RowStep(j)
         /\ \A b \in Batch : BatchStep(b)

-----------------------------------------------------------------------------

\* Callback jobs are in no batch and are the callback of one batch only.
LEMMA CallbackFacts ==
    /\ \A F \in SUBSET Batch : CallbacksOf(F) \subseteq Job
    /\ \A F \in SUBSET Batch : \A j \in CallbacksOf(F) :
           \E b \in F : Callback[b] = j /\ Callback[b] \in Job
    /\ \A b \in Batch : Callback[b] \in Job => Callback[b] \in CallbackJobs
BY ConstantsAssumption DEF CallbacksOf, CallbackJobs

\* The row an INSERT makes.
LEMMA InsertedFields ==
    ASSUME NEW T \in [Job -> JobRow], NEW I, NEW D, NEW j \in Job
    PROVE  /\ j \notin I => Inserted(T, I, D)[j] = T[j]
           /\ j \in I => /\ Inserted(T, I, D)[j].state = "pending"
                         /\ Inserted(T, I, D)[j].attempt = 0
                         /\ Inserted(T, I, D)[j].stalled_count = 0
BY DEF Inserted, NoRow

\* The state of a batch row does not depend on how it is bumped.
LEMMA BumpedState ==
    ASSUME TypeOK, NEW b \in Batch, NEW D,
           NEW outcome \in {"completed", "failed", "cancelled"}
    PROVE  /\ Bumped(b, D, outcome).state = batches[b].state
           /\ Completed(Bumped(b, D, outcome), b).state = "complete"
<1>1. batches[b] \in BatchRow
      BY DEF TypeOK
<1>2. Bumped(b, D, outcome).state = batches[b].state
      BY <1>1 DEF Bumped, BatchRow
<1>3. \/ Bumped(b, D, outcome) = [batches[b] EXCEPT !.completed =
              batches[b].completed + Cardinality(D \cap Members(b))]
      \/ Bumped(b, D, outcome) = [batches[b] EXCEPT !.failed =
              batches[b].failed + Cardinality(D \cap Members(b))]
      \/ Bumped(b, D, outcome) = [batches[b] EXCEPT !.cancelled =
              batches[b].cancelled + Cardinality(D \cap Members(b))]
      BY DEF Bumped
<1>4. Completed(Bumped(b, D, outcome), b).state = "complete"
      BY <1>1, <1>3 DEF Completed, BatchRow
<1> QED BY <1>2, <1>4

\* settle_terminal on a table T that differs from the job table in the jobs D
\* only: a row becomes what T says, or it is the callback of a batch that
\* completes, which had no row.
LEMMA SettleSteps ==
    ASSUME TypeOK, Unborn, NEW T \in [Job -> JobRow], NEW L, NEW D, D \subseteq Job,
           NEW outcome \in {"completed", "failed", "cancelled"},
           settle_terminal(T, L, D, outcome),
           claims' = claims
    PROVE  /\ \A j \in Job : jobs'[j] = T[j] \/ Enters(j)
           /\ \A b \in Batch : BatchStep(b)
<1> DEFINE F == Fired(D, outcome)
<1>1. F \subseteq Batch /\ \A b \in F : batches[b].state = "pending"
      BY DEF Fired
<1>2. ASSUME NEW b \in Batch
      PROVE  /\ b \in F => batches'[b].state = "complete"
             /\ b \notin F => batches'[b].state = batches[b].state
  <2>1. batches'[b] = IF b \in F THEN Completed(Bumped(b, D, outcome), b)
                      ELSE Bumped(b, D, outcome)
        BY DEF settle_terminal
  <2> QED BY <2>1, BumpedState
<1>3. jobs' = Inserted(T, CallbacksOf(F), CallbacksOf(F))
      BY DEF settle_terminal
<1> HIDE DEF F
<1>4. ASSUME NEW j \in Job
      PROVE  jobs'[j] = T[j] \/ Enters(j)
  <2>1. CASE j \notin CallbacksOf(F)
        BY <1>3, <2>1, InsertedFields
  <2>2. CASE j \in CallbacksOf(F)
    <3>1. PICK b \in F : Callback[b] = j
          BY <1>1, <2>2, CallbackFacts
    <3>2. jobs[j].state = "absent"
          BY <1>1, <3>1 DEF Unborn
    <3>3. Born(j)
          BY <1>1, <1>2, <3>1 DEF Born
    <3> QED BY <1>3, <2>2, <3>2, <3>3, InsertedFields DEF Enters
  <2> QED BY <2>1, <2>2
<1> QED BY <1>1, <1>2, <1>4 DEF BatchStep

\* The sweep and the reclaim take the rows S back.
LEMMA RecoverSteps ==
    ASSUME TypeOK, Unborn, NEW S, S \subseteq Job,
           \A j \in S : jobs[j].state = "running",
           Recover(S), claims' = claims
    PROVE  Steps
<1> DEFINE T == [j \in Job |-> IF j \in S THEN RecoveredRow(j) ELSE jobs[j]]
           D == {j \in S : Exhausted(j)}
<1>1. T \in [Job -> JobRow]
      BY RecoveredFields DEF TypeOK
<1>2. settle_terminal(T, Released(lanes, S), D, "failed")
      BY DEF Recover
<1>3. D \subseteq Job
      OBVIOUS
<1> HIDE DEF T, D
<1>4. /\ \A j \in Job : jobs'[j] = T[j] \/ Enters(j)
      /\ \A b \in Batch : BatchStep(b)
      BY <1>1, <1>2, <1>3, SettleSteps
<1>5. ASSUME NEW j \in Job
      PROVE  RowStep(j)
  <2>1. CASE j \in S /\ jobs'[j] = T[j]
        BY <2>1 DEF T, RowStep, IsRecovered
  <2>2. CASE j \notin S /\ jobs'[j] = T[j]
        BY <2>2 DEF T, RowStep, Kept
  <2> QED BY <1>4, <2>1, <2>2 DEF RowStep
<1> QED BY <1>4, <1>5 DEF Steps

\* What producers do to a row: a row is born, or a pending one is cancelled.
LEMMA ProducerSteps ==
    ASSUME TypeOK, Unborn, Producer
    PROVE  Steps
<1>1. ASSUME NEW j \in Job, enqueue_dyn(j)
      PROVE  Steps
  <2>1. ASSUME NEW i \in Job
        PROVE  RowStep(i)
    <3>1. PICK D \in SUBSET {j} : jobs' = Inserted(jobs, {j}, D)
          BY <1>1 DEF enqueue_dyn
    <3>2. CASE i # j
          BY <1>1, <3>1, <3>2, InsertedFields
          DEF RowStep, Kept, enqueue_dyn, TypeOK
    <3>3. CASE i = j
          BY <1>1, <3>1, <3>3, InsertedFields
          DEF RowStep, Enters, Born, enqueue_dyn, Unbatched, TypeOK
    <3> QED BY <3>2, <3>3
  <2> QED BY <1>1, <2>1 DEF Steps, BatchStep, enqueue_dyn
<1>2. ASSUME NEW j \in Job, materialize_from_rule(j)
      PROVE  Steps
      BY <1>2 DEF Steps, RowStep, Kept, BatchStep, materialize_from_rule
<1>3. ASSUME NEW S \in SUBSET Job, enqueue_many_dyn(S)
      PROVE  Steps
  <2>1. PICK I \in Insertable(S) : \E D \in SUBSET I : jobs' = Inserted(jobs, I, D)
        BY <1>3 DEF enqueue_many_dyn
  <2>2. PICK D \in SUBSET I : jobs' = Inserted(jobs, I, D)
        BY <2>1
  <2>3. I \subseteq Unbatched
        BY <1>3 DEF Insertable, enqueue_many_dyn
  <2>4. ASSUME NEW i \in Job
        PROVE  RowStep(i)
    <3>1. CASE i \notin I
          BY <1>3, <2>2, <3>1, InsertedFields
          DEF RowStep, Kept, enqueue_many_dyn, TypeOK
    <3>2. CASE i \in I
          BY <1>3, <2>2, <2>3, <3>2, InsertedFields
          DEF RowStep, Enters, Born, enqueue_many_dyn, Unbatched, TypeOK
    <3> QED BY <3>1, <3>2
  <2> QED BY <1>3, <2>4 DEF Steps, BatchStep, enqueue_many_dyn
<1>4. ASSUME NEW b \in Batch, enqueue_batch(b)
      PROVE  Steps
  <2>1. PICK I \in Insertable(Members(b)) :
            LET row == [batches[b] EXCEPT !.state = "pending",
                                          !.total = Cardinality(I)]
                C   == IF I = {} THEN CallbacksOf({b}) ELSE {}
            IN
            /\ jobs' = Inserted(jobs, I \cup C, I \cup C)
            /\ batches' = [batches EXCEPT
                              ![b] = IF I = {} THEN Completed(row, b) ELSE row]
        BY <1>4 DEF enqueue_batch
  <2> DEFINE C == IF I = {} THEN CallbacksOf({b}) ELSE {}
             row == [batches[b] EXCEPT !.state = "pending", !.total = Cardinality(I)]
  <2>2. I \subseteq Members(b) /\ batches[b].state = "absent" /\ claims' = claims
        BY <1>4 DEF Insertable, enqueue_batch
  <2>3. batches \in [Batch -> BatchRow]
        BY DEF TypeOK
  <2>4. /\ I = {} => batches'[b].state = "complete"
        /\ I # {} => batches'[b].state = "pending"
    <3>1. batches'[b] = IF I = {} THEN Completed(row, b) ELSE row
          BY <2>1, <2>3
    <3>2. row.state = "pending" /\ Completed(row, b).state = "complete"
          BY <2>3 DEF Completed, BatchRow
    <3> QED BY <3>1, <3>2
  <2>5. \A c \in Batch : BatchStep(c)
        BY <2>1, <2>2, <2>3 DEF BatchStep
  <2>6. jobs' = Inserted(jobs, I \cup C, I \cup C)
        BY <2>1
  <2> HIDE DEF C
  <2>7. ASSUME NEW i \in Job
        PROVE  RowStep(i)
    <3>1. CASE i \notin I \cup C
          BY <2>2, <2>6, <3>1, InsertedFields DEF RowStep, Kept, TypeOK
    <3>2. CASE i \in I
      <4>1. jobs[i].state = "absent" /\ Born(i)
            BY <2>2, <2>4, <3>2 DEF Unborn, Born, Members
      <4> QED BY <2>2, <2>6, <3>2, <4>1, InsertedFields DEF RowStep, Enters, TypeOK
    <3>3. CASE i \in C
      <4>1. I = {} /\ Callback[b] = i
            BY <3>3, CallbackFacts DEF C
      <4>2. jobs[i].state = "absent" /\ Born(i)
            BY <2>2, <2>4, <4>1 DEF Unborn, Born
      <4> QED BY <2>2, <2>6, <3>3, <4>2, InsertedFields DEF RowStep, Enters, TypeOK
    <3> QED BY <3>1, <3>2, <3>3
  <2> QED BY <2>5, <2>7 DEF Steps
<1>5. ASSUME NEW j \in Job, cancel(j)
      PROVE  Steps
  <2> DEFINE T == [jobs EXCEPT ![j].state = "cancelled"]
  <2>1. T \in [Job -> JobRow]
        BY FreedType DEF TypeOK, Terminal
  <2>2. /\ \A i \in Job : i # j => T[i] = jobs[i]
        /\ T[j].state = "cancelled"
        /\ T[j].attempt = jobs[j].attempt
        /\ T[j].stalled_count = jobs[j].stalled_count
        BY DEF TypeOK, JobRow
  <2>3. settle_terminal(T, lanes, {j}, "cancelled") /\ claims' = claims
        BY <1>5 DEF cancel
  <2> HIDE DEF T
  <2>4. /\ \A i \in Job : jobs'[i] = T[i] \/ Enters(i)
        /\ \A b \in Batch : BatchStep(b)
        BY <2>1, <2>3, SettleSteps
  <2>5. ASSUME NEW i \in Job
        PROVE  RowStep(i)
        BY <1>5, <2>2, <2>3, <2>4 DEF RowStep, Kept, Settles, cancel
  <2> QED BY <2>4, <2>5 DEF Steps
<1> QED BY <1>1, <1>2, <1>3, <1>4, <1>5 DEF Producer

\* A step that touches no row and no batch.
LEMMA StutterSteps ==
    ASSUME jobs' = jobs, batches' = batches, claims' = claims
    PROVE  Steps
BY DEF Steps, RowStep, Kept, BatchStep

\* A step that only moves clocks: due dates and heartbeats.
LEMMA ClockSteps ==
    ASSUME TypeOK, Clock \/ \E p \in Proc : update_heartbeat_batch(p)
    PROVE  Steps
<1>1. ASSUME NEW j \in Job, BecomeDue(j)
      PROVE  Steps
      BY <1>1 DEF BecomeDue, Steps, RowStep, Kept, BatchStep, TypeOK, JobRow
<1>2. ASSUME NEW j \in Job, HeartbeatExpires(j)
      PROVE  Steps
      BY <1>2 DEF HeartbeatExpires, Steps, RowStep, Kept, BatchStep, TypeOK, JobRow
<1>3. ASSUME NEW p \in Proc, update_heartbeat_batch(p)
      PROVE  Steps
      BY <1>3 DEF update_heartbeat_batch, Steps, RowStep, Kept, BatchStep, TypeOK, JobRow
<1> QED BY <1>1, <1>2, <1>3 DEF Clock

\* A claim starts pending rows and charges each one claim.
LEMMA ClaimSteps ==
    ASSUME TypeOK, NEW p \in Proc, NEW S \in SUBSET Job, claim_batch(p, S)
    PROVE  Steps
<1>1. ASSUME NEW j \in Job
      PROVE  RowStep(j)
  <2>1. CASE j \in S
    <3>1. jobs[j].state = "pending"
          BY <2>1 DEF claim_batch, Claimable
    <3>2. jobs'[j] = ClaimedRow(j, p) /\ claims'[j] = claims[j] + 1
          BY <2>1 DEF claim_batch
    <3> QED BY <3>1, <3>2 DEF RowStep, IsClaimed, ClaimedRow, TypeOK, JobRow
  <2>2. CASE j \notin S
        BY <2>2 DEF claim_batch, RowStep, Kept
  <2> QED BY <2>1, <2>2
<1> QED BY <1>1 DEF Steps, BatchStep, claim_batch

\* What a worker does to a row: it ends a run, in one of the ways of RowStep.
LEMMA WorkerSteps ==
    ASSUME TypeOK, Unborn, NEW r \in runs, WorkerStep(r)
    PROVE  Steps
<1>1. r.job \in Job
      BY DEF TypeOK, Run
<1>2. CASE Dispatch(r) \/ StartHandler(r) \/ FinishHandler(r) \/ DropVerdict(r)
      BY <1>2, StutterSteps
      DEF Dispatch, StartHandler, FinishHandler, DropVerdict, tables
<1>3. ASSUME NEW s \in {"completed", "failed"},
             Owns(r), claims' = claims,
             settle_terminal(
                 [jobs EXCEPT ![r.job] = [Freed(@) EXCEPT !.state = s]],
                 Released(lanes, {r.job}), {r.job}, s)
      PROVE  Steps
  <2> DEFINE T == [jobs EXCEPT ![r.job] = [Freed(@) EXCEPT !.state = s]]
  <2>1. T \in [Job -> JobRow]
        BY <1>1, FreedType DEF TypeOK, Terminal
  <2>2. /\ \A i \in Job : i # r.job => T[i] = jobs[i]
        /\ T[r.job].state = s
        /\ T[r.job].attempt = jobs[r.job].attempt
        /\ T[r.job].stalled_count = jobs[r.job].stalled_count
        BY <1>1 DEF TypeOK, JobRow, Freed
  <2>3. settle_terminal(T, Released(lanes, {r.job}), {r.job}, s)
        BY <1>3
  <2> HIDE DEF T
  <2>4. /\ \A i \in Job : jobs'[i] = T[i] \/ Enters(i)
        /\ \A b \in Batch : BatchStep(b)
        BY <1>1, <1>3, <2>1, <2>3, SettleSteps
  <2>5. ASSUME NEW i \in Job
        PROVE  RowStep(i)
        BY <1>3, <2>2, <2>4 DEF RowStep, Kept, Settles, Owns
  <2> QED BY <2>4, <2>5 DEF Steps
<1>4. CASE mark_completed(r)
      BY <1>3, <1>4 DEF mark_completed
<1>5. CASE mark_failed_terminal(r)
      BY <1>3, <1>5 DEF mark_failed_terminal
<1>6. CASE mark_failed_retry(r)
  <2>1. ASSUME NEW i \in Job
        PROVE  RowStep(i)
    <3>1. CASE i # r.job
          BY <1>1, <1>6, <3>1 DEF mark_failed_retry, RowStep, Kept, TypeOK
    <3>2. CASE i = r.job
      <4>1. jobs'[i] = [Freed(jobs[i]) EXCEPT !.state = "pending", !.due = FALSE]
            BY <1>1, <1>6, <3>2 DEF mark_failed_retry, TypeOK
      <4>2. jobs[i] \in JobRow
            BY DEF TypeOK
      <4>3. /\ jobs'[i].state = "pending"
            /\ jobs'[i].attempt = jobs[i].attempt
            /\ jobs'[i].stalled_count = jobs[i].stalled_count
            BY <4>1, <4>2 DEF Freed, JobRow
      <4> QED BY <1>6, <3>2, <4>3 DEF mark_failed_retry, Owns, RowStep, Settles
    <3> QED BY <3>1, <3>2
  <2> QED BY <1>6, <2>1 DEF Steps, BatchStep, mark_failed_retry
<1> QED BY <1>2, <1>4, <1>5, <1>6 DEF WorkerStep, Settle

\* Stopping a process touches rows only through recovery.
LEMMA ShutdownSteps ==
    ASSUME TypeOK, Unborn, Shutdown
    PROVE  Steps
<1> SUFFICES ASSUME NEW p \in Proc,
                    \/ shutdown_with(p) \/ LastClaimEmpty(p) \/ DrainClean(p)
                    \/ abort_all(p) \/ reclaim_in_flight(p)
                    \/ ReclaimFails(p) \/ Crash(p)
             PROVE  Steps
    BY DEF Shutdown
<1>1. CASE reclaim_in_flight(p)
  <2> DEFINE S == {j \in snapshot[p] : jobs[j].state = "running"}
  <2>1. S \subseteq Job /\ \A j \in S : jobs[j].state = "running"
        BY DEF TypeOK
  <2>2. Recover(S) /\ claims' = claims
        BY <1>1 DEF reclaim_in_flight
  <2> QED BY <2>1, <2>2, RecoverSteps
<1>2. CASE ~reclaim_in_flight(p)
      BY <1>2, StutterSteps DEF shutdown_with, LastClaimEmpty, DrainClean,
         abort_all, ReclaimFails, Crash, tables
<1> QED BY <1>1, <1>2

\* Every step of the system moves every row along an edge of RowStep.
LEMMA NextSteps ==
    ASSUME TypeOK, Unborn, [Next]_vars
    PROVE  Steps
<1>1. CASE Operator
      BY <1>1, StutterSteps DEF Operator, set_concurrency, set_paused
<1>2. CASE Process
  <2>1. CASE sweep_stale
    <3>1. Stale \subseteq Job /\ \A j \in Stale : jobs[j].state = "running"
          BY DEF Stale
    <3> QED BY <2>1, <3>1, RecoverSteps DEF sweep_stale
  <2> QED BY <1>2, <2>1, ClaimSteps, WorkerSteps, ClockSteps DEF Process
<1>3. CASE UNCHANGED vars
      BY <1>3, StutterSteps DEF vars
<1> QED BY <1>1, <1>2, <1>3, ProducerSteps, ClockSteps, ShutdownSteps DEF Next

-----------------------------------------------------------------------------
(* The inductive invariant.                                                *)

\* A row that is not there has used nothing; a running one has been charged.
RowsCharged ==
    \A j \in Job :
        /\ jobs[j].state = "absent" =>
               jobs[j].attempt = 0 /\ jobs[j].stalled_count = 0
        /\ jobs[j].state = "running" => jobs[j].attempt > 0

RowInv == TypeOK /\ Unborn /\ RowsCharged /\ StallBudget /\ ClaimsAccounted

\* A row whose job was never enqueued stays untouched.
LEMMA UnbornPreserved ==
    ASSUME TypeOK, Unborn, Steps, TypeOK'
    PROVE  Unborn'
<1> SUFFICES ASSUME NEW b \in Batch
             PROVE  /\ batches'[b].state # "complete" /\ Callback[b] \in Job =>
                           jobs'[Callback[b]].state = "absent"
                    /\ batches'[b].state = "absent" =>
                           \A j \in Members(b) : jobs'[j].state = "absent"
    BY DEF Unborn, Members
<1>1. BatchStep(b)
      BY DEF Steps
<1>2. ASSUME NEW j \in Job, jobs[j].state = "absent"
      PROVE  jobs'[j].state = "absent" \/ Born(j)
      BY <1>2 DEF Steps, RowStep, Kept, Enters, IsClaimed, Settles, IsRecovered
<1>3. ASSUME batches'[b].state # "complete", Callback[b] \in Job
      PROVE  jobs'[Callback[b]].state = "absent"
  <2>1. jobs[Callback[b]].state = "absent"
        BY <1>1, <1>3 DEF BatchStep, Unborn
  <2>2. ~Born(Callback[b])
        BY <1>3, ConstantsAssumption, CallbackFacts DEF Born
  <2> QED BY <1>2, <1>3, <2>1, <2>2
<1>4. ASSUME batches'[b].state = "absent", NEW j \in Members(b)
      PROVE  jobs'[j].state = "absent"
  <2>1. j \in Job /\ BatchOf[j] = b /\ jobs[j].state = "absent"
        BY <1>1, <1>4 DEF BatchStep, Unborn, Members
  <2>2. ~Born(j)
        BY <1>4, <2>1, ConstantsAssumption DEF Born
  <2> QED BY <1>2, <2>1, <2>2
<1> QED BY <1>3, <1>4

\* Every edge of RowStep keeps the row invariant.
LEMMA RowInvPreserved ==
    ASSUME RowInv, [Next]_vars, TypeOK'
    PROVE  RowInv'
<1>1. Steps
      BY NextSteps DEF RowInv
<1>2. Unborn'
      BY <1>1, UnbornPreserved DEF RowInv
<1>3. ASSUME NEW j \in Job
      PROVE  /\ jobs'[j].state = "absent" =>
                    jobs'[j].attempt = 0 /\ jobs'[j].stalled_count = 0
             /\ jobs'[j].state = "running" => jobs'[j].attempt > 0
             /\ jobs'[j].stalled_count > MaxStalled[j] => jobs'[j].state = "failed"
             /\ jobs'[j].stalled_count <= MaxStalled[j] + 1
             /\ claims'[j] = jobs'[j].attempt + jobs'[j].stalled_count
                    - (IF jobs'[j].stalled_count > MaxStalled[j] THEN 1 ELSE 0)
  <2>1. /\ jobs[j].attempt \in Nat /\ jobs[j].stalled_count \in Nat
        /\ MaxStalled[j] \in Nat /\ claims[j] \in Nat
        BY ConstantsAssumption DEF RowInv, TypeOK, JobRow
  <2>2. /\ jobs[j].state = "absent" =>
               jobs[j].attempt = 0 /\ jobs[j].stalled_count = 0
        /\ jobs[j].state = "running" => jobs[j].attempt > 0
        /\ jobs[j].stalled_count > MaxStalled[j] => jobs[j].state = "failed"
        /\ jobs[j].stalled_count <= MaxStalled[j] + 1
        /\ claims[j] = jobs[j].attempt + jobs[j].stalled_count
               - (IF jobs[j].stalled_count > MaxStalled[j] THEN 1 ELSE 0)
        BY DEF RowInv, RowsCharged, StallBudget, ClaimsAccounted
  <2>3. CASE Kept(j)
        BY <2>1, <2>2, <2>3 DEF Kept
  <2>4. CASE Enters(j)
        BY <2>1, <2>2, <2>4 DEF Enters
  <2>5. CASE IsClaimed(j)
        BY <2>1, <2>2, <2>5 DEF IsClaimed
  <2>6. CASE Settles(j)
        BY <2>1, <2>2, <2>6 DEF Settles
  <2>7. CASE IsRecovered(j)
        BY <2>1, <2>2, <2>7, RecoveredFields DEF IsRecovered, Exhausted, RowInv
  <2> QED BY <1>1, <2>3, <2>4, <2>5, <2>6, <2>7 DEF Steps, RowStep
<1> QED BY <1>2, <1>3 DEF RowInv, RowsCharged, StallBudget, ClaimsAccounted

\* The inductive invariant of job rows: rows that do not exist are blank, and
\* every existing one keeps the books of its two budgets (fetch.rs).
THEOREM RowInvariant == Spec => []RowInv
<1>1. Init => RowInv
  <2> SUFFICES ASSUME Init, TypeOK
               PROVE  RowInv
      BY InitType
  <2>1. \A j \in Job : /\ jobs[j].state = "absent" /\ jobs[j].attempt = 0
                       /\ jobs[j].stalled_count = 0 /\ claims[j] = 0
                       /\ MaxStalled[j] \in Nat
        BY ConstantsAssumption DEF Init, NoRow
  <2> QED BY <2>1 DEF RowInv, Unborn, Members, RowsCharged, StallBudget, ClaimsAccounted
<1>2. RowInv /\ TypeOK' /\ [Next]_vars => RowInv'
      BY RowInvPreserved
<1> QED BY <1>1, <1>2, TypeCorrect, PTL DEF Spec

\* A job past its stall budget is failed and stays so, and the count never
\* runs further (sweep_stale, reclaim_in_flight).
THEOREM StallBudgetHolds == Spec => []StallBudget
BY RowInvariant, PTL DEF RowInv

\* Every claim is charged to exactly one of the two budgets, through any
\* number of claims, retries, sweeps and reclaims.
THEOREM ClaimsAreAccounted == Spec => []ClaimsAccounted
BY RowInvariant, PTL DEF RowInv

\* No step changes the state of a finalized job, in particular not the INSERT
\* of a batch or of a callback.
THEOREM FinalStatesAreFinal == Spec => TerminalIsFinal
<1>1. RowInv /\ [Next]_vars =>
          [\A j \in Job : jobs[j].state \in Terminal =>
                              jobs'[j].state = jobs[j].state]_vars
  <2> SUFFICES ASSUME RowInv, [Next]_vars, NEW j \in Job, jobs[j].state \in Terminal
               PROVE  jobs'[j].state = jobs[j].state
      OBVIOUS
  <2>1. RowStep(j)
        BY NextSteps DEF RowInv, Steps
  <2> QED BY <2>1 DEF RowStep, Kept, Enters, IsClaimed, Settles, IsRecovered, Terminal
<1> QED BY <1>1, RowInvariant, PTL DEF Spec, TerminalIsFinal

-----------------------------------------------------------------------------
(***************************************************************************)
(* The concurrency counters of eddyq_queues and eddyq_groups are exact: a  *)
(* claim adds what it takes, and each of the transactions that end a run   *)
(* subtracts it once.                                                      *)
(***************************************************************************)

RunningJobs == {j \in Job : jobs[j].state = "running"}

\* The lane table L is right about the running jobs R.  A group without a row
\* counts nothing, so that a rule or an operator may create its row at zero.
Exact(L, R) ==
    \A l \in Lane :
        /\ L[l].row => L[l].running_count = Cardinality(R \cap JobsOf(l))
        /\ l \in Group /\ ~L[l].row =>
               R \cap JobsOf(l) = {} /\ L[l].running_count = 0

-----------------------------------------------------------------------------
(* What the statements do to a table that is right.                        *)

\* A transaction that ends runs and releases their slots keeps exact counters
\* exact; the floor at zero is never reached.
LEMMA ReleasedIsExact ==
    ASSUME NEW L \in [Lane -> LaneRow], NEW R, R \subseteq Job, NEW S, S \subseteq R,
           Exact(L, R)
    PROVE  Exact(Released(L, S), R \ S)
<1> SUFFICES ASSUME NEW l \in Lane
             PROVE  LET M == Released(L, S)[l]
                        Rl == (R \ S) \cap JobsOf(l) IN
                    /\ M.row => M.running_count = Cardinality(Rl)
                    /\ l \in Group /\ ~M.row => Rl = {} /\ M.running_count = 0
    BY DEF Exact
<1> DEFINE A == R \cap JobsOf(l)
           B == S \cap JobsOf(l)
           n == Cardinality(B)
<1>1. L[l] \in LaneRow
      OBVIOUS
<1>2. /\ A \subseteq Job /\ B \subseteq Job /\ B \subseteq A
      /\ (R \ S) \cap JobsOf(l) = A \ B
      BY DEF JobsOf
<1>3. /\ IsFiniteSet(A) /\ Cardinality(A) \in Nat
      /\ IsFiniteSet(B) /\ n \in Nat
      BY <1>2, JobSetsAreFinite
<1>4. Cardinality(A \ B) = Cardinality(A) - n
  <2>1. Cardinality(A \ B) = Cardinality(A) - Cardinality(A \cap B)
        BY <1>3, FS_Difference
  <2>2. A \cap B = B
        BY <1>2
  <2> QED BY <2>1, <2>2
<1>5. n <= Cardinality(A)
      BY <1>2, <1>3, FS_Subset
<1>6. /\ Released(L, S)[l].row = L[l].row
      /\ Released(L, S)[l].running_count =
             IF L[l].running_count > n THEN L[l].running_count - n ELSE 0
      BY <1>1 DEF Released, LaneRow
<1>7. /\ L[l].row => L[l].running_count = Cardinality(A)
      /\ l \in Group /\ ~L[l].row => A = {} /\ L[l].running_count = 0
      BY DEF Exact
<1>8. ASSUME L[l].row
      PROVE  Released(L, S)[l].running_count = Cardinality(A \ B)
  <2>1. L[l].running_count = Cardinality(A)
        BY <1>7, <1>8
  <2> HIDE DEF A, B, n
  <2> QED BY <1>3, <1>4, <1>5, <1>6, <2>1
<1>9. ASSUME l \in Group, ~L[l].row
      PROVE  A \ B = {} /\ Released(L, S)[l].running_count = 0
  <2>1. A = {} /\ L[l].running_count = 0
        BY <1>7, <1>9
  <2> HIDE DEF A, B, n
  <2> QED BY <1>3, <1>6, <2>1
<1> QED BY <1>2, <1>6, <1>8, <1>9

\* A transaction that starts runs and occupies their slots keeps exact
\* counters exact.
LEMMA OccupiedIsExact ==
    ASSUME NEW L \in [Lane -> LaneRow], NEW R, R \subseteq Job, NEW S, S \subseteq Job,
           R \cap S = {}, Exact(L, R)
    PROVE  Exact(Occupied(L, S), R \cup S)
<1> SUFFICES ASSUME NEW l \in Lane
             PROVE  LET M == Occupied(L, S)[l]
                        Rl == (R \cup S) \cap JobsOf(l) IN
                    /\ M.row => M.running_count = Cardinality(Rl)
                    /\ l \in Group /\ ~M.row => Rl = {} /\ M.running_count = 0
    BY DEF Exact
<1> DEFINE A == R \cap JobsOf(l)
           B == S \cap JobsOf(l)
           n == Cardinality(B)
<1>1. L[l] \in LaneRow
      OBVIOUS
<1>2. /\ A \subseteq Job /\ B \subseteq Job /\ A \cap B = {}
      /\ (R \cup S) \cap JobsOf(l) = A \cup B
      BY DEF JobsOf
<1>3. /\ IsFiniteSet(A) /\ Cardinality(A) \in Nat
      /\ IsFiniteSet(B) /\ n \in Nat
      BY <1>2, JobSetsAreFinite
<1>4. Cardinality(A \cup B) = Cardinality(A) + n
  <2>1. Cardinality(A \cup B) = Cardinality(A) + Cardinality(B) - Cardinality(A \cap B)
        BY <1>3, FS_Union
  <2>2. Cardinality(A \cap B) = 0
        BY <1>2, FS_EmptySet
  <2> QED BY <1>3, <2>1, <2>2
<1>5. n = 0 => B = {}
      BY <1>3, FS_EmptySet
<1>6. /\ L[l].row => L[l].running_count = Cardinality(A)
      /\ l \in Group /\ ~L[l].row => A = {} /\ L[l].running_count = 0
      BY DEF Exact
<1>7. Cardinality({}) = 0
      BY FS_EmptySet
<1>8. CASE n = 0
  <2>1. Occupied(L, S)[l] = L[l]
        BY <1>8 DEF Occupied
  <2>2. A \cup B = A
        BY <1>5, <1>8
  <2> QED BY <1>2, <1>6, <2>1, <2>2
<1>9. CASE n > 0 /\ l \in Group
  <2>1. Occupied(L, S)[l].row /\ Occupied(L, S)[l].running_count = L[l].running_count + n
        BY <1>1, <1>3, <1>9 DEF Occupied, LaneRow
  <2>2. L[l].running_count = Cardinality(A)
        BY <1>6, <1>7, <1>9
  <2> QED BY <1>2, <1>4, <2>1, <2>2
<1>10. CASE n > 0 /\ l \notin Group
  <2>1. /\ Occupied(L, S)[l].row = L[l].row
        /\ L[l].row => Occupied(L, S)[l].running_count = L[l].running_count + n
        BY <1>1, <1>3, <1>10 DEF Occupied, LaneRow
  <2> QED BY <1>2, <1>4, <1>6, <1>10, <2>1
<1> QED BY <1>3, <1>8, <1>9, <1>10

\* A row that a rule creates starts at zero, which is right: its group runs
\* nothing.
LEMMA MaterialisedIsExact ==
    ASSUME NEW L \in [Lane -> LaneRow], NEW R, NEW S, Exact(L, R)
    PROVE  Exact(Materialised(L, S), R)
<1> SUFFICES ASSUME NEW l \in Lane
             PROVE  LET M == Materialised(L, S)[l]
                        Rl == R \cap JobsOf(l) IN
                    /\ M.row => M.running_count = Cardinality(Rl)
                    /\ l \in Group /\ ~M.row => Rl = {} /\ M.running_count = 0
    BY DEF Exact
<1>1. L[l] \in LaneRow /\ Cardinality({}) = 0
      BY FS_EmptySet
<1>2. /\ Materialised(L, S)[l].running_count = L[l].running_count
      /\ L[l].row => Materialised(L, S)[l].row
      /\ Materialised(L, S)[l].row => L[l].row \/ l \in Group
      BY <1>1 DEF Materialised, LaneRow
<1> QED BY <1>1, <1>2 DEF Exact

\* settle_terminal neither starts nor ends a run beyond what its job table
\* says.
LEMMA SettleIsExact ==
    ASSUME TypeOK, Unborn, NEW T \in [Job -> JobRow], NEW L \in [Lane -> LaneRow],
           NEW D, D \subseteq Job,
           NEW outcome \in {"completed", "failed", "cancelled"},
           \A j \in Job : T[j].state = "running" => jobs[j].state = "running",
           Exact(L, {j \in Job : T[j].state = "running"}),
           settle_terminal(T, L, D, outcome), claims' = claims
    PROVE  Exact(lanes, RunningJobs)'
<1>1. \A j \in Job : jobs'[j] = T[j] \/ Enters(j)
      BY SettleSteps
<1>2. ASSUME NEW j \in Job
      PROVE  jobs'[j].state = "running" <=> T[j].state = "running"
      BY <1>1 DEF Enters
<1>3. RunningJobs' = {j \in Job : T[j].state = "running"}
      BY <1>2 DEF RunningJobs
<1>4. lanes' = Materialised(L, CallbacksOf(Fired(D, outcome)))
      BY DEF settle_terminal
<1>5. Exact(lanes', RunningJobs')
      BY <1>3, <1>4, MaterialisedIsExact
<1> QED BY <1>5 DEF Exact

\* A sweep or a reclaim releases one slot for every run it ends.
LEMMA RecoverIsExact ==
    ASSUME TypeOK, Unborn, Exact(lanes, RunningJobs), NEW S, S \subseteq RunningJobs,
           Recover(S), claims' = claims
    PROVE  Exact(lanes, RunningJobs)'
<1> DEFINE T == [j \in Job |-> IF j \in S THEN RecoveredRow(j) ELSE jobs[j]]
           D == {j \in S : Exhausted(j)}
<1>1. T \in [Job -> JobRow] /\ S \subseteq Job /\ D \subseteq Job
      BY RecoveredFields DEF TypeOK, RunningJobs
<1>2. \A j \in S : RecoveredRow(j).state # "running"
      BY <1>1, RecoveredFields
<1>3. {j \in Job : T[j].state = "running"} = RunningJobs \ S
      BY <1>2 DEF RunningJobs
<1>4. \A j \in Job : T[j].state = "running" => jobs[j].state = "running"
      BY <1>2
<1>5. /\ Released(lanes, S) \in [Lane -> LaneRow]
      /\ Exact(Released(lanes, S), RunningJobs \ S)
      BY <1>1, ReleasedType, ReleasedIsExact DEF TypeOK, RunningJobs
<1>6. settle_terminal(T, Released(lanes, S), D, "failed")
      BY DEF Recover
<1> HIDE DEF T, D
<1> QED BY <1>1, <1>3, <1>4, <1>5, <1>6, SettleIsExact

\* A step that starts or ends no run and leaves the lanes alone.
LEMMA SameIsExact ==
    ASSUME Exact(lanes, RunningJobs), lanes' = lanes,
           \A j \in Job : jobs'[j].state = "running" <=> jobs[j].state = "running"
    PROVE  Exact(lanes, RunningJobs)'
<1>1. RunningJobs' = RunningJobs
      BY DEF RunningJobs
<1> QED BY <1>1 DEF Exact

\* Producers start no run; the rows they materialise are exact.
LEMMA ProducerIsExact ==
    ASSUME TypeOK, Unborn, Exact(lanes, RunningJobs), Producer
    PROVE  Exact(lanes, RunningJobs)'
<1>1. ASSUME NEW j \in Job, enqueue_dyn(j)
      PROVE  Exact(lanes, RunningJobs)'
  <2>1. PICK D \in SUBSET {j} : jobs' = Inserted(jobs, {j}, D)
        BY <1>1 DEF enqueue_dyn
  <2>2. ASSUME NEW i \in Job
        PROVE  jobs'[i].state = "running" <=> jobs[i].state = "running"
    <3>1. CASE i = j
          BY <1>1, <2>1, <3>1, InsertedFields DEF enqueue_dyn, Unbatched, TypeOK
    <3>2. CASE i # j
          BY <2>1, <3>2, InsertedFields DEF TypeOK
    <3> QED BY <3>1, <3>2
  <2> QED BY <1>1, <2>2, SameIsExact DEF enqueue_dyn
<1>2. ASSUME NEW j \in Job, materialize_from_rule(j)
      PROVE  Exact(lanes, RunningJobs)'
  <2>1. Exact(lanes', RunningJobs)
        BY <1>2, MaterialisedIsExact DEF materialize_from_rule, TypeOK
  <2>2. RunningJobs' = RunningJobs
        BY <1>2 DEF RunningJobs, materialize_from_rule
  <2> QED BY <2>1, <2>2 DEF Exact
<1>3. ASSUME NEW I, NEW D, NEW S, jobs' = Inserted(jobs, I, D),
             lanes' = Materialised(lanes, S), claims' = claims,
             \A i \in I : i \in Job => jobs[i].state = "absent"
      PROVE  Exact(lanes, RunningJobs)'
  <2>1. ASSUME NEW i \in Job
        PROVE  jobs'[i].state = "running" <=> jobs[i].state = "running"
    <3>1. CASE i \in I
          BY <1>3, <3>1, InsertedFields DEF TypeOK
    <3>2. CASE i \notin I
          BY <1>3, <3>2, InsertedFields DEF TypeOK
    <3> QED BY <3>1, <3>2
  <2>2. RunningJobs' = RunningJobs
        BY <2>1 DEF RunningJobs
  <2>3. Exact(lanes', RunningJobs)
        BY <1>3, MaterialisedIsExact DEF TypeOK
  <2> QED BY <2>2, <2>3 DEF Exact
<1>4. ASSUME NEW S \in SUBSET Job, enqueue_many_dyn(S)
      PROVE  Exact(lanes, RunningJobs)'
  <2>1. PICK I \in Insertable(S) : \E D \in SUBSET I : jobs' = Inserted(jobs, I, D)
        BY <1>4 DEF enqueue_many_dyn
  <2>2. \A i \in I : jobs[i].state = "absent"
        BY <1>4 DEF Insertable, enqueue_many_dyn, Unbatched
  <2> QED BY <1>3, <1>4, <2>1, <2>2 DEF enqueue_many_dyn
<1>5. ASSUME NEW b \in Batch, enqueue_batch(b)
      PROVE  Exact(lanes, RunningJobs)'
  <2>1. PICK I \in Insertable(Members(b)) :
            LET C == IF I = {} THEN CallbacksOf({b}) ELSE {} IN
            /\ jobs' = Inserted(jobs, I \cup C, I \cup C)
            /\ lanes' = Materialised(lanes, Members(b) \cup C)
        BY <1>5 DEF enqueue_batch
  <2> DEFINE C == IF I = {} THEN CallbacksOf({b}) ELSE {}
  <2>2. batches[b].state = "absent" /\ claims' = claims
        BY <1>5 DEF enqueue_batch
  <2>3. \A i \in I : jobs[i].state = "absent"
        BY <2>2 DEF Insertable, Unborn
  <2>4. \A i \in C : Callback[b] = i /\ i \in Job
        BY CallbackFacts
  <2>5. \A i \in C : jobs[i].state = "absent"
        BY <2>2, <2>4 DEF Unborn
  <2>6. /\ jobs' = Inserted(jobs, I \cup C, I \cup C)
        /\ lanes' = Materialised(lanes, Members(b) \cup C)
        BY <2>1
  <2> HIDE DEF C
  <2> QED BY <1>3, <2>2, <2>3, <2>5, <2>6
<1>6. ASSUME NEW j \in Job, cancel(j)
      PROVE  Exact(lanes, RunningJobs)'
  <2> DEFINE T == [jobs EXCEPT ![j].state = "cancelled"]
  <2>1. T \in [Job -> JobRow]
        BY FreedType DEF TypeOK, Terminal
  <2>2. /\ \A i \in Job : i # j => T[i] = jobs[i]
        /\ T[j].state = "cancelled" /\ jobs[j].state = "pending"
        BY <1>6 DEF TypeOK, JobRow, cancel
  <2>3. settle_terminal(T, lanes, {j}, "cancelled") /\ claims' = claims
        BY <1>6 DEF cancel
  <2> HIDE DEF T
  <2>4. {i \in Job : T[i].state = "running"} = RunningJobs
        BY <2>2 DEF RunningJobs
  <2>5. \A i \in Job : T[i].state = "running" => jobs[i].state = "running"
        BY <2>2
  <2> QED BY <2>1, <2>3, <2>4, <2>5, SettleIsExact DEF TypeOK
<1> QED BY <1>1, <1>2, <1>4, <1>5, <1>6 DEF Producer

\* The row an operator creates counts what runs: queues are counted, and a
\* group without a row runs nothing.
LEMMA OperatorIsExact ==
    ASSUME TypeOK, Exact(lanes, RunningJobs), Operator
    PROVE  Exact(lanes, RunningJobs)'
<1>1. PICK l \in Operable : set_concurrency(l) \/ set_paused(l)
      BY DEF Operator
<1>2. l \in Lane /\ l \in Queue \cup Group
      BY ConstantsAssumption DEF Lane
<1>3. RunningJobs' = RunningJobs
      BY <1>1 DEF set_concurrency, set_paused, RunningJobs
<1>4. Running(l) = RunningJobs \cap JobsOf(l)
      BY DEF Running, RunningJobs, JobsOf
<1>5. lanes[l] \in LaneRow /\ Cardinality(Running(l)) \in Nat
      BY <1>2, JobSetsAreFinite DEF TypeOK, Running, JobsOf
<1>6. /\ Upserted(l) \in LaneRow /\ Upserted(l).row
      /\ Upserted(l).running_count = Cardinality(RunningJobs \cap JobsOf(l))
  <2>1. CASE lanes[l].row
        BY <1>2, <1>5, <2>1 DEF Upserted, Exact
  <2>2. CASE ~lanes[l].row /\ l \in Queue
        BY <1>4, <1>5, <2>2 DEF Upserted, LaneRow
  <2>3. CASE ~lanes[l].row /\ l \in Group
    <3>1. l \notin Queue
          BY <2>3, ConstantsAssumption
    <3>2. lanes[l].running_count = 0 /\ RunningJobs \cap JobsOf(l) = {}
          BY <1>2, <2>3 DEF Exact
    <3>3. Cardinality({}) = 0
          BY FS_EmptySet
    <3>4. Upserted(l) = [lanes[l] EXCEPT !.row = TRUE,
                                         !.running_count = lanes[l].running_count]
          BY <2>3, <3>1 DEF Upserted
    <3> QED BY <1>5, <3>2, <3>3, <3>4 DEF LaneRow
  <2> QED BY <1>2, <2>1, <2>2, <2>3
<1>7. /\ lanes'[l].row
      /\ lanes'[l].running_count = Cardinality(RunningJobs \cap JobsOf(l))
      /\ \A k \in Lane : k # l => lanes'[k] = lanes[k]
  <2>1. CASE set_concurrency(l)
        BY <1>2, <1>6, <2>1 DEF set_concurrency, TypeOK, LaneRow
  <2>2. CASE set_paused(l)
        BY <1>2, <1>6, <2>2 DEF set_paused, TypeOK, LaneRow
  <2> QED BY <1>1, <2>1, <2>2
<1>8. Exact(lanes', RunningJobs)
      BY <1>7 DEF Exact
<1> QED BY <1>3, <1>8 DEF Exact

\* A claim occupies one slot in each lane of each job it starts.
LEMMA ClaimIsExact ==
    ASSUME TypeOK, Exact(lanes, RunningJobs),
           NEW p \in Proc, NEW S \in SUBSET Job, claim_batch(p, S)
    PROVE  Exact(lanes, RunningJobs)'
<1>1. \A j \in S : jobs[j].state = "pending"
      BY DEF claim_batch, Claimable
<1>2. \A j \in S : ClaimedRow(j, p).state = "running"
      BY DEF ClaimedRow, TypeOK, JobRow
<1>3. RunningJobs' = RunningJobs \cup S
      BY <1>2 DEF claim_batch, RunningJobs
<1>4. RunningJobs \cap S = {} /\ RunningJobs \subseteq Job
      BY <1>1 DEF RunningJobs
<1>5. Exact(lanes', RunningJobs')
      BY <1>3, <1>4, OccupiedIsExact DEF claim_batch, TypeOK
<1> QED BY <1>5 DEF Exact

\* A verdict that is applied releases the slots of its job; one that is
\* dropped releases none.
LEMMA WorkerIsExact ==
    ASSUME TypeOK, Unborn, Exact(lanes, RunningJobs), NEW r \in runs, WorkerStep(r)
    PROVE  Exact(lanes, RunningJobs)'
<1>1. r.job \in Job
      BY DEF TypeOK, Run
<1>2. CASE Dispatch(r) \/ StartHandler(r) \/ FinishHandler(r) \/ DropVerdict(r)
      BY <1>2, SameIsExact
      DEF Dispatch, StartHandler, FinishHandler, DropVerdict, tables
<1>3. ASSUME Owns(r)
      PROVE  /\ {r.job} \subseteq RunningJobs
             /\ Released(lanes, {r.job}) \in [Lane -> LaneRow]
             /\ Exact(Released(lanes, {r.job}), RunningJobs \ {r.job})
  <2>1. {r.job} \subseteq RunningJobs /\ RunningJobs \subseteq Job
        BY <1>1, <1>3 DEF Owns, RunningJobs
  <2> QED BY <1>1, <2>1, ReleasedType, ReleasedIsExact DEF TypeOK
<1>4. ASSUME NEW s \in {"completed", "failed"},
             Owns(r), claims' = claims,
             settle_terminal(
                 [jobs EXCEPT ![r.job] = [Freed(@) EXCEPT !.state = s]],
                 Released(lanes, {r.job}), {r.job}, s)
      PROVE  Exact(lanes, RunningJobs)'
  <2> DEFINE T == [jobs EXCEPT ![r.job] = [Freed(@) EXCEPT !.state = s]]
  <2>1. T \in [Job -> JobRow]
        BY <1>1, FreedType DEF TypeOK, Terminal
  <2>2. (\A i \in Job : i # r.job => T[i] = jobs[i]) /\ T[r.job].state = s
        BY <1>1 DEF TypeOK, JobRow, Freed
  <2>3. settle_terminal(T, Released(lanes, {r.job}), {r.job}, s)
        BY <1>4
  <2> HIDE DEF T
  <2>4. {i \in Job : T[i].state = "running"} = RunningJobs \ {r.job}
        BY <2>2 DEF RunningJobs
  <2>5. \A i \in Job : T[i].state = "running" => jobs[i].state = "running"
        BY <2>2
  <2> DEFINE L == Released(lanes, {r.job})
  <2>6. /\ L \in [Lane -> LaneRow]
        /\ Exact(L, {i \in Job : T[i].state = "running"})
        BY <1>3, <1>4, <2>4
  <2>7. {r.job} \subseteq Job /\ claims' = claims
        BY <1>1, <1>4
  <2> HIDE DEF L
  <2>8. settle_terminal(T, L, {r.job}, s)
        BY <2>3 DEF L
  <2> QED BY <2>1, <2>5, <2>6, <2>7, <2>8, SettleIsExact
<1>5. CASE mark_completed(r)
      BY <1>4, <1>5 DEF mark_completed
<1>6. CASE mark_failed_terminal(r)
      BY <1>4, <1>6 DEF mark_failed_terminal
<1>7. CASE mark_failed_retry(r)
  <2>1. ASSUME NEW i \in Job
        PROVE  jobs'[i].state = "running" <=> i \in RunningJobs \ {r.job}
    <3>1. CASE i # r.job
          BY <1>1, <1>7, <3>1 DEF mark_failed_retry, TypeOK, RunningJobs
    <3>2. CASE i = r.job
      <4>1. jobs'[i] = [Freed(jobs[i]) EXCEPT !.state = "pending", !.due = FALSE]
            BY <1>1, <1>7, <3>2 DEF mark_failed_retry, TypeOK
      <4>2. jobs'[i].state = "pending"
            BY <4>1 DEF Freed, TypeOK, JobRow
      <4> QED BY <3>2, <4>2
    <3> QED BY <3>1, <3>2
  <2>2. RunningJobs' = RunningJobs \ {r.job}
        BY <2>1 DEF RunningJobs
  <2>3. Exact(lanes', RunningJobs')
        BY <1>3, <1>7, <2>2 DEF mark_failed_retry
  <2> QED BY <2>3 DEF Exact
<1> QED BY <1>2, <1>5, <1>6, <1>7 DEF WorkerStep, Settle

\* Due dates and heartbeats start and end no run.
LEMMA ClockIsExact ==
    ASSUME TypeOK, Exact(lanes, RunningJobs),
           Clock \/ \E p \in Proc : update_heartbeat_batch(p)
    PROVE  Exact(lanes, RunningJobs)'
<1>1. lanes' = lanes
      BY DEF Clock, BecomeDue, HeartbeatExpires, update_heartbeat_batch
<1>2. ASSUME NEW i \in Job
      PROVE  jobs'[i].state = jobs[i].state
  <2>1. ASSUME NEW j \in Job, BecomeDue(j)
        PROVE  jobs'[i].state = jobs[i].state
        BY <2>1 DEF BecomeDue, TypeOK, JobRow
  <2>2. ASSUME NEW j \in Job, HeartbeatExpires(j)
        PROVE  jobs'[i].state = jobs[i].state
        BY <2>2 DEF HeartbeatExpires, TypeOK, JobRow
  <2>3. ASSUME NEW p \in Proc, update_heartbeat_batch(p)
        PROVE  jobs'[i].state = jobs[i].state
        BY <2>3 DEF update_heartbeat_batch, TypeOK, JobRow
  <2> QED BY <2>1, <2>2, <2>3 DEF Clock
<1> QED BY <1>1, <1>2, SameIsExact

\* Every step keeps exact counters exact.
LEMMA NextIsExact ==
    ASSUME TypeOK, Unborn, Exact(lanes, RunningJobs), [Next]_vars
    PROVE  Exact(lanes, RunningJobs)'
<1>1. CASE sweep_stale
  <2>1. Stale \subseteq RunningJobs
        BY DEF Stale, RunningJobs
  <2> QED BY <1>1, <2>1, RecoverIsExact DEF sweep_stale
<1>2. CASE Process
      BY <1>1, <1>2, ClaimIsExact, WorkerIsExact, ClockIsExact DEF Process
<1>3. CASE Shutdown
  <2>1. PICK p \in Proc :
            \/ shutdown_with(p) \/ LastClaimEmpty(p) \/ DrainClean(p)
            \/ abort_all(p) \/ reclaim_in_flight(p)
            \/ ReclaimFails(p) \/ Crash(p)
        BY <1>3 DEF Shutdown
  <2>2. CASE reclaim_in_flight(p)
    <3>1. {j \in snapshot[p] : jobs[j].state = "running"} \subseteq RunningJobs
          BY DEF RunningJobs, TypeOK
    <3> QED BY <2>2, <3>1, RecoverIsExact DEF reclaim_in_flight
  <2>3. CASE ~reclaim_in_flight(p)
        BY <2>1, <2>3, SameIsExact DEF shutdown_with, LastClaimEmpty, DrainClean,
           abort_all, ReclaimFails, Crash, tables
  <2> QED BY <2>2, <2>3
<1>4. CASE UNCHANGED vars
      BY <1>4, SameIsExact DEF vars
<1> QED BY <1>2, <1>3, <1>4, ProducerIsExact, OperatorIsExact, ClockIsExact DEF Next

\* The counters are exact for the set of running jobs, in every reachable state.
LEMMA ExactInvariant == Spec => []Exact(lanes, RunningJobs)
<1>1. Init => Exact(lanes, RunningJobs)
  <2> SUFFICES ASSUME Init
               PROVE  Exact(lanes, RunningJobs)
      OBVIOUS
  <2>1. RunningJobs = {}
        BY DEF Init, NoRow, RunningJobs
  <2> QED BY <2>1 DEF Init, Exact
<1>2. RowInv /\ Exact(lanes, RunningJobs) /\ [Next]_vars => Exact(lanes, RunningJobs)'
      BY NextIsExact DEF RowInv
<1> QED BY <1>1, <1>2, RowInvariant, PTL DEF Spec

\* In every reachable state a lane's counter is the number of its jobs that
\* are running, and a group without a row runs nothing: whatever the order of
\* claims, verdicts, sweeps, reclaims, admin statements and rules, no slot is
\* leaked and none is handed out twice (fetch.rs, named_queue.rs, group.rs).
THEOREM CountersAreExact == Spec => []CountersExact
<1>1. Exact(lanes, RunningJobs) => CountersExact
  <2>1. \A l \in Lane : Running(l) = RunningJobs \cap JobsOf(l)
        BY DEF Running, RunningJobs, JobsOf
  <2> QED BY <2>1 DEF Exact, CountersExact
<1> QED BY <1>1, ExactInvariant, PTL

\* Only a claim starts a run.
LEMMA OnlyClaimsStart ==
    ASSUME TypeOK, Unborn, [Next]_vars, NEW j \in Job,
           jobs'[j].state = "running", jobs[j].state # "running"
    PROVE  \E p \in Proc, S \in SUBSET Job : claim_batch(p, S)
<1>1. claims' # claims
  <2>1. IsClaimed(j)
        BY NextSteps, RecoveredFields
        DEF Steps, RowStep, Kept, Enters, Settles, IsRecovered
  <2> QED BY <2>1 DEF IsClaimed, TypeOK
<1>2. CASE Producer \/ Operator \/ Clock
      BY <1>1, <1>2 DEF Producer, Operator, Clock, enqueue_dyn,
         materialize_from_rule, enqueue_many_dyn, enqueue_batch, cancel,
         set_concurrency, set_paused, BecomeDue, HeartbeatExpires
<1>3. CASE Shutdown
      BY <1>1, <1>3 DEF Shutdown, shutdown_with, LastClaimEmpty, DrainClean,
         abort_all, reclaim_in_flight, ReclaimFails, Crash
<1>4. CASE Process
      BY <1>1, <1>4 DEF Process, WorkerStep, Dispatch, StartHandler, FinishHandler,
         Settle, mark_completed, mark_failed_retry, mark_failed_terminal,
         DropVerdict, update_heartbeat_batch, sweep_stale
<1> QED BY <1>1, <1>2, <1>3, <1>4 DEF Next, vars

\* A claim admits to a lane what its counter leaves room for; the counter being
\* exact, that is what really runs.
LEMMA ClaimRespectsCaps ==
    ASSUME TypeOK, Exact(lanes, RunningJobs),
           NEW p \in Proc, NEW S \in SUBSET Job, claim_batch(p, S),
           NEW l \in Lane, lanes[l].row, NEW j \in Running(l)', j \notin Running(l)
    PROVE  /\ ~lanes[l].paused
           /\ Cardinality(Running(l)') <= lanes[l].max_concurrency
<1> DEFINE A == RunningJobs \cap JobsOf(l)
           B == S \cap JobsOf(l)
           n == Cardinality(B)
<1>1. Running(l) = A /\ Running(l)' = (RunningJobs \cap JobsOf(l))'
      BY DEF Running, RunningJobs, JobsOf
<1>2. RunningJobs' = RunningJobs \cup S /\ JobsOf(l)' = JobsOf(l)
  <2>1. \A i \in S : ClaimedRow(i, p).state = "running"
        BY DEF ClaimedRow, TypeOK, JobRow
  <2> QED BY <2>1 DEF claim_batch, RunningJobs, JobsOf
<1>3. Running(l)' = A \cup B
      BY <1>1, <1>2
<1>4. /\ IsFiniteSet(A) /\ Cardinality(A) \in Nat
      /\ IsFiniteSet(B) /\ n \in Nat
  <2>1. A \subseteq Job /\ B \subseteq Job
        BY DEF RunningJobs
  <2> QED BY <2>1, JobSetsAreFinite
<1>5. n > 0
  <2>1. j \in B
        BY <1>1, <1>3
  <2>2. n # 0
        BY <1>4, <2>1, FS_EmptySet
  <2> QED BY <1>4, <2>2
<1>6. ~lanes[l].paused /\ Cardinality(A) + n <= lanes[l].max_concurrency
  <2>1. lanes[l].running_count = Cardinality(A)
        BY DEF Exact
  <2> QED BY <1>5, <2>1 DEF claim_batch, Admits
<1>7. Cardinality(A \cup B) <= Cardinality(A) + n
  <2>1. Cardinality(A \cup B) = Cardinality(A) + n - Cardinality(A \cap B)
        BY <1>4, FS_Union
  <2>2. Cardinality(A \cap B) \in Nat
        BY <1>4, FS_Intersection, FS_CardinalityType
  <2> HIDE DEF A, B, n
  <2> QED BY <1>4, <2>1, <2>2
<1>8. lanes[l].max_concurrency \in Nat /\ Cardinality(A \cup B) \in Nat
  <2>1. IsFiniteSet(A \cup B)
        BY <1>4, FS_Union
  <2> QED BY <2>1, FS_CardinalityType DEF TypeOK, LaneRow
<1> HIDE DEF A, B, n
<1> QED BY <1>3, <1>4, <1>6, <1>7, <1>8

\* No step starts a job in a lane that is paused or at its cap, counted in rows
\* that really run: the cap on the counter is a cap on the jobs (fetch.rs,
\* claim_batch).
THEOREM CapsAreRespected == Spec => CapsRespected
<1>1. RowInv /\ Exact(lanes, RunningJobs) /\ [Next]_vars =>
          [\A l \in Lane :
              lanes[l].row /\ (\E j \in Running(l)' : j \notin Running(l)) =>
                  /\ ~lanes[l].paused
                  /\ Cardinality(Running(l)') <= lanes[l].max_concurrency]_vars
  <2> SUFFICES ASSUME RowInv, Exact(lanes, RunningJobs), [Next]_vars,
                      NEW l \in Lane, lanes[l].row,
                      NEW j \in Running(l)', j \notin Running(l)
               PROVE  /\ ~lanes[l].paused
                      /\ Cardinality(Running(l)') <= lanes[l].max_concurrency
      OBVIOUS
  <2>1. j \in Job /\ jobs'[j].state = "running" /\ jobs[j].state # "running"
        BY DEF Running, JobsOf
  <2>2. PICK p \in Proc, S \in SUBSET Job : claim_batch(p, S)
        BY <2>1, OnlyClaimsStart DEF RowInv
  <2> QED BY <2>2, ClaimRespectsCaps DEF RowInv
<1> QED BY <1>1, ExactInvariant, RowInvariant, PTL DEF Spec, CapsRespected

-----------------------------------------------------------------------------
(***************************************************************************)
(* The fan-in of eddyq_batches.  Seen from the batches, a step opens a     *)
(* batch, moves a set of live jobs to one final state, or does nothing.    *)
(* From this the counters of a batch row are exact, its callback fires     *)
(* once, and PgJobs implements BatchFanIn.                                 *)
(***************************************************************************)

Outcomes == {"completed", "failed", "cancelled"}

\* The job keeps its state, or is alive before and after.
SameClass(j) ==
    \/ jobs'[j].state = jobs[j].state
    \/ jobs[j].state \in Live /\ jobs'[j].state \in Live

\* No batch and no job of a batch makes a move that a batch could notice.
Quiet ==
    /\ batches' = batches
    /\ \A b \in Batch : \A j \in Members(b) : SameClass(j)

\* The live jobs D reach outcome, and the batch rows are settled for them.
Settling(D, outcome) ==
    /\ D \subseteq Job
    /\ \A j \in D : jobs[j].state \in Live
    /\ \A b \in Batch : \A j \in Members(b) :
           IF j \in D THEN jobs'[j].state = outcome ELSE SameClass(j)
    /\ batches' = [b \in Batch |->
                      IF b \in Fired(D, outcome)
                      THEN Completed(Bumped(b, D, outcome), b)
                      ELSE Bumped(b, D, outcome)]

\* The batch b is opened with the jobs I.
Opening(b, I) ==
    /\ batches[b].state = "absent"
    /\ I \subseteq Members(b)
    /\ \A j \in Members(b) : jobs[j].state = "absent"
    /\ \A j \in Members(b) : jobs'[j].state = IF j \in I THEN "pending" ELSE "absent"
    /\ \A c \in Batch \ {b} : \A j \in Members(c) : SameClass(j)
    /\ LET row == [batches[b] EXCEPT !.state = "pending", !.total = Cardinality(I)] IN
       batches' = [batches EXCEPT ![b] = IF I = {} THEN Completed(row, b) ELSE row]

Moves ==
    \/ Quiet
    \/ \E D \in SUBSET Job, outcome \in Outcomes : Settling(D, outcome)
    \/ \E b \in Batch : \E I \in SUBSET Job : Opening(b, I)

-----------------------------------------------------------------------------
(* Every step is one of these moves.                                       *)

\* Jobs of batches are not callbacks.
LEMMA MembersAreNoCallbacks ==
    ASSUME NEW F \in SUBSET Batch, NEW b \in Batch, NEW j \in Members(b)
    PROVE  j \in Job /\ j \notin CallbacksOf(F)
<1>1. j \in Job /\ BatchOf[j] = b /\ b # NoBatch
      BY ConstantsAssumption DEF Members
<1>2. ASSUME j \in CallbacksOf(F)
      PROVE  FALSE
  <2>1. PICK c \in F : Callback[c] = j
        BY <1>2, CallbackFacts
  <2> QED BY <1>1, <2>1, ConstantsAssumption
<1> QED BY <1>1, <1>2

\* A transaction that ends in settle_terminal settles the jobs D.
LEMMA SettleMoves ==
    ASSUME TypeOK, NEW T \in [Job -> JobRow], NEW L, NEW D \in SUBSET Job,
           NEW outcome \in Outcomes,
           settle_terminal(T, L, D, outcome),
           \A j \in D : jobs[j].state \in Live /\ T[j].state = outcome,
           \A j \in Job \ D : \/ T[j].state = jobs[j].state
                              \/ jobs[j].state \in Live /\ T[j].state \in Live
    PROVE  Moves
<1> DEFINE F == Fired(D, outcome)
<1>1. F \in SUBSET Batch
      BY DEF Fired
<1>2. /\ jobs' = Inserted(T, CallbacksOf(F), CallbacksOf(F))
      /\ batches' = [b \in Batch |->
                        IF b \in F THEN Completed(Bumped(b, D, outcome), b)
                        ELSE Bumped(b, D, outcome)]
      BY DEF settle_terminal
<1>3. ASSUME NEW b \in Batch, NEW j \in Members(b)
      PROVE  IF j \in D THEN jobs'[j].state = outcome ELSE SameClass(j)
  <2> HIDE DEF F
  <2>1. j \in Job /\ jobs'[j] = T[j]
        BY <1>1, <1>2, <1>3, MembersAreNoCallbacks, InsertedFields
  <2> QED BY <2>1 DEF SameClass
<1>4. Settling(D, outcome)
      BY <1>2, <1>3 DEF Settling
<1> QED BY <1>4 DEF Moves

\* The sweep and the reclaim settle the jobs that are out of budget.
LEMMA RecoverMoves ==
    ASSUME TypeOK, NEW S, S \subseteq Job,
           \A j \in S : jobs[j].state = "running", Recover(S)
    PROVE  Moves
<1> DEFINE T == [j \in Job |-> IF j \in S THEN RecoveredRow(j) ELSE jobs[j]]
           D == {j \in S : Exhausted(j)}
<1>1. T \in [Job -> JobRow]
      BY RecoveredFields DEF TypeOK
<1>2. settle_terminal(T, Released(lanes, S), D, "failed")
      BY DEF Recover
<1>3. \A j \in D : jobs[j].state \in Live /\ T[j].state = "failed"
      BY RecoveredFields DEF Live
<1>4. \A j \in Job \ D : \/ T[j].state = jobs[j].state
                         \/ jobs[j].state \in Live /\ T[j].state \in Live
      BY RecoveredFields DEF Live
<1>5. D \in SUBSET Job /\ "failed" \in Outcomes
      BY DEF Outcomes
<1> HIDE DEF T, D
<1> QED BY <1>1, <1>2, <1>3, <1>4, <1>5, SettleMoves

\* Steps that leave batches alone and take live jobs to live jobs.
LEMMA QuietMoves ==
    ASSUME batches' = batches, \A j \in Job : BatchOf[j] # NoBatch => SameClass(j)
    PROVE  Moves
BY ConstantsAssumption DEF Moves, Quiet, Members

\* Producers open a batch, cancel a job, or add jobs of no batch.
LEMMA ProducerMoves ==
    ASSUME TypeOK, Unborn, Producer
    PROVE  Moves
<1>1. ASSUME NEW j \in Job, enqueue_dyn(j)
      PROVE  Moves
  <2>1. PICK D \in SUBSET {j} : jobs' = Inserted(jobs, {j}, D)
        BY <1>1 DEF enqueue_dyn
  <2>2. \A i \in Job : BatchOf[i] # NoBatch => jobs'[i] = jobs[i]
        BY <1>1, <2>1, InsertedFields DEF enqueue_dyn, Unbatched, TypeOK
  <2> QED BY <1>1, <2>2, QuietMoves DEF enqueue_dyn, SameClass
<1>2. ASSUME NEW j \in Job, materialize_from_rule(j)
      PROVE  Moves
      BY <1>2, QuietMoves DEF SameClass, materialize_from_rule
<1>3. ASSUME NEW S \in SUBSET Job, enqueue_many_dyn(S)
      PROVE  Moves
  <2>1. PICK I \in Insertable(S) : \E D \in SUBSET I : jobs' = Inserted(jobs, I, D)
        BY <1>3 DEF enqueue_many_dyn
  <2>2. PICK D \in SUBSET I : jobs' = Inserted(jobs, I, D)
        BY <2>1
  <2>3. \A i \in I : BatchOf[i] = NoBatch
        BY <1>3 DEF Insertable, enqueue_many_dyn, Unbatched
  <2>4. \A i \in Job : BatchOf[i] # NoBatch => jobs'[i] = jobs[i]
        BY <2>2, <2>3, InsertedFields DEF TypeOK
  <2> QED BY <1>3, <2>4, QuietMoves DEF enqueue_many_dyn, SameClass
<1>4. ASSUME NEW b \in Batch, enqueue_batch(b)
      PROVE  Moves
  <2>1. PICK I \in Insertable(Members(b)) :
            LET row == [batches[b] EXCEPT !.state = "pending",
                                          !.total = Cardinality(I)]
                C   == IF I = {} THEN CallbacksOf({b}) ELSE {}
            IN
            /\ jobs' = Inserted(jobs, I \cup C, I \cup C)
            /\ batches' = [batches EXCEPT
                              ![b] = IF I = {} THEN Completed(row, b) ELSE row]
        BY <1>4 DEF enqueue_batch
  <2> DEFINE C == IF I = {} THEN CallbacksOf({b}) ELSE {}
  <2>2. /\ I \subseteq Members(b) /\ batches[b].state = "absent"
        /\ \A j \in Members(b) : jobs[j].state = "absent"
        BY <1>4 DEF Insertable, enqueue_batch, Unborn
  <2>3. I \in SUBSET Job
        BY <2>2 DEF Members
  <2>4. ASSUME NEW c \in Batch, NEW j \in Members(c)
        PROVE  /\ j \in Job /\ j \notin C
               /\ c # b => j \notin I
    <3>1. {b} \in SUBSET Batch
          OBVIOUS
    <3>2. j \in Job /\ j \notin CallbacksOf({b})
          BY <2>4, <3>1, MembersAreNoCallbacks
    <3> QED BY <2>2, <3>2 DEF Members
  <2>5. jobs' = Inserted(jobs, I \cup C, I \cup C)
        BY <2>1
  <2> HIDE DEF C
  <2>6. ASSUME NEW j \in Members(b)
        PROVE  jobs'[j].state = IF j \in I THEN "pending" ELSE "absent"
        BY <2>2, <2>4, <2>5, InsertedFields DEF TypeOK
  <2>7. ASSUME NEW c \in Batch \ {b}, NEW j \in Members(c)
        PROVE  SameClass(j)
        BY <2>4, <2>5, InsertedFields DEF SameClass, TypeOK
  <2>8. Opening(b, I)
        BY <2>1, <2>2, <2>6, <2>7 DEF Opening
  <2> QED BY <2>3, <2>8 DEF Moves
<1>5. ASSUME NEW j \in Job, cancel(j)
      PROVE  Moves
  <2> DEFINE T == [jobs EXCEPT ![j].state = "cancelled"]
  <2>1. T \in [Job -> JobRow]
        BY FreedType DEF TypeOK, Terminal
  <2>2. (\A i \in Job : i # j => T[i] = jobs[i]) /\ T[j].state = "cancelled"
        BY DEF TypeOK, JobRow
  <2>3. /\ settle_terminal(T, lanes, {j}, "cancelled")
        /\ jobs[j].state \in Live
        BY <1>5 DEF cancel, Live
  <2>4. {j} \in SUBSET Job /\ "cancelled" \in Outcomes
        BY DEF Outcomes
  <2> HIDE DEF T
  <2> QED BY <2>1, <2>2, <2>3, <2>4, SettleMoves
<1> QED BY <1>1, <1>2, <1>3, <1>4, <1>5 DEF Producer

\* A worker settles the one job it ran, or puts it back.
LEMMA WorkerMoves ==
    ASSUME TypeOK, NEW r \in runs, WorkerStep(r)
    PROVE  Moves
<1>1. r.job \in Job
      BY DEF TypeOK, Run
<1>2. CASE Dispatch(r) \/ StartHandler(r) \/ FinishHandler(r) \/ DropVerdict(r)
      BY <1>2, QuietMoves
      DEF Dispatch, StartHandler, FinishHandler, DropVerdict, tables, SameClass
<1>3. ASSUME NEW s \in {"completed", "failed"}, Owns(r),
             settle_terminal(
                 [jobs EXCEPT ![r.job] = [Freed(@) EXCEPT !.state = s]],
                 Released(lanes, {r.job}), {r.job}, s)
      PROVE  Moves
  <2> DEFINE T == [jobs EXCEPT ![r.job] = [Freed(@) EXCEPT !.state = s]]
  <2>1. T \in [Job -> JobRow]
        BY <1>1, FreedType DEF TypeOK, Terminal
  <2>2. (\A i \in Job : i # r.job => T[i] = jobs[i]) /\ T[r.job].state = s
        BY <1>1 DEF TypeOK, JobRow, Freed
  <2>3. settle_terminal(T, Released(lanes, {r.job}), {r.job}, s)
        BY <1>3
  <2>4. {r.job} \in SUBSET Job /\ s \in Outcomes /\ jobs[r.job].state \in Live
        BY <1>1, <1>3 DEF Outcomes, Owns, Live
  <2> HIDE DEF T
  <2> QED BY <2>1, <2>2, <2>3, <2>4, SettleMoves
<1>4. CASE mark_completed(r)
      BY <1>3, <1>4 DEF mark_completed
<1>5. CASE mark_failed_terminal(r)
      BY <1>3, <1>5 DEF mark_failed_terminal
<1>6. CASE mark_failed_retry(r)
  <2>1. ASSUME NEW i \in Job
        PROVE  SameClass(i)
    <3>1. CASE i # r.job
          BY <1>1, <1>6, <3>1 DEF mark_failed_retry, SameClass, TypeOK
    <3>2. CASE i = r.job
      <4>1. jobs'[i] = [Freed(jobs[i]) EXCEPT !.state = "pending", !.due = FALSE]
            BY <1>1, <1>6, <3>2 DEF mark_failed_retry, TypeOK
      <4>2. jobs'[i].state = "pending"
            BY <4>1 DEF Freed, TypeOK, JobRow
      <4> QED BY <1>6, <3>2, <4>2 DEF mark_failed_retry, Owns, SameClass, Live
    <3> QED BY <3>1, <3>2
  <2> QED BY <1>6, <2>1, QuietMoves DEF mark_failed_retry
<1> QED BY <1>2, <1>4, <1>5, <1>6 DEF WorkerStep, Settle

\* A claim, a heartbeat and a clock take live jobs to live jobs.
LEMMA ClaimAndClockMoves ==
    ASSUME TypeOK,
           \/ Clock
           \/ \E p \in Proc : update_heartbeat_batch(p)
           \/ \E p \in Proc, S \in SUBSET Job : claim_batch(p, S)
    PROVE  Moves
<1>1. ASSUME NEW j \in Job, BecomeDue(j)
      PROVE  Moves
      BY <1>1, QuietMoves DEF BecomeDue, SameClass, TypeOK, JobRow
<1>2. ASSUME NEW j \in Job, HeartbeatExpires(j)
      PROVE  Moves
      BY <1>2, QuietMoves DEF HeartbeatExpires, SameClass, TypeOK, JobRow
<1>3. ASSUME NEW p \in Proc, update_heartbeat_batch(p)
      PROVE  Moves
      BY <1>3, QuietMoves DEF update_heartbeat_batch, SameClass, TypeOK, JobRow
<1>4. ASSUME NEW p \in Proc, NEW S \in SUBSET Job, claim_batch(p, S)
      PROVE  Moves
  <2>1. \A j \in S : jobs[j].state = "pending"
        BY <1>4 DEF claim_batch, Claimable
  <2>2. \A j \in S : ClaimedRow(j, p).state = "running"
        BY DEF ClaimedRow, TypeOK, JobRow
  <2>3. \A j \in Job : SameClass(j)
        BY <1>4, <2>1, <2>2 DEF claim_batch, SameClass, Live
  <2> QED BY <1>4, <2>3, QuietMoves DEF claim_batch
<1> QED BY <1>1, <1>2, <1>3, <1>4 DEF Clock

\* Every step of the system is one of the three moves of a batch, or none.
LEMMA NextMoves ==
    ASSUME TypeOK, Unborn, [Next]_vars
    PROVE  Moves
<1>1. CASE Operator
      BY <1>1, QuietMoves DEF Operator, set_concurrency, set_paused, SameClass
<1>2. CASE Process
  <2>1. CASE sweep_stale
    <3>1. Stale \subseteq Job /\ \A j \in Stale : jobs[j].state = "running"
          BY DEF Stale
    <3> QED BY <2>1, <3>1, RecoverMoves DEF sweep_stale
  <2> QED BY <1>2, <2>1, ClaimAndClockMoves, WorkerMoves DEF Process
<1>3. CASE UNCHANGED vars
      BY <1>3, QuietMoves DEF vars, SameClass
<1>4. CASE Shutdown
  <2>1. PICK p \in Proc :
            \/ shutdown_with(p) \/ LastClaimEmpty(p) \/ DrainClean(p)
            \/ abort_all(p) \/ reclaim_in_flight(p)
            \/ ReclaimFails(p) \/ Crash(p)
        BY <1>4 DEF Shutdown
  <2>2. CASE reclaim_in_flight(p)
    <3> DEFINE S == {j \in snapshot[p] : jobs[j].state = "running"}
    <3>1. S \subseteq Job /\ \A j \in S : jobs[j].state = "running"
          BY DEF TypeOK
    <3>2. Recover(S)
          BY <2>2 DEF reclaim_in_flight
    <3> QED BY <3>1, <3>2, RecoverMoves
  <2>3. CASE ~reclaim_in_flight(p)
        BY <2>1, <2>3, QuietMoves DEF shutdown_with, LastClaimEmpty, DrainClean,
           abort_all, ReclaimFails, Crash, tables, SameClass
  <2> QED BY <2>2, <2>3
<1> QED BY <1>1, <1>2, <1>3, <1>4, ProducerMoves, ClaimAndClockMoves DEF Next

-----------------------------------------------------------------------------
(* The inductive invariant.                                                *)

\* The jobs of the batch b in one of the states.
In(b, states) == {j \in Members(b) : jobs[j].state \in states}

\* The counters of b are the sizes of these sets, of a batch that has no row
\* yet too.
Tally(b) ==
    /\ batches[b].completed = Cardinality(In(b, {"completed"}))
    /\ batches[b].failed = Cardinality(In(b, {"failed"}))
    /\ batches[b].cancelled = Cardinality(In(b, {"cancelled"}))
    /\ batches[b].total = Cardinality(In(b, Live \cup Terminal))

\* A batch is pending as long as it has live jobs, and has called back if it
\* is complete and has somebody to call.
Fan(b) ==
    /\ In(b, Live) # {} <=> batches[b].state = "pending"
    /\ batches[b].callbacks = IF batches[b].state = "complete" /\ Callback[b] # NoJob
                              THEN 1 ELSE 0

BatchInv == \A b \in Batch : Tally(b) /\ Fan(b)

\* Sets of jobs of a batch are finite, and a batch's jobs are the live ones and
\* the final ones of each kind.
LEMMA Partition ==
    ASSUME NEW b \in Batch
    PROVE  /\ \A states : /\ In(b, states) \subseteq Job
                          /\ IsFiniteSet(In(b, states))
                          /\ Cardinality(In(b, states)) \in Nat
           /\ Cardinality(In(b, Live \cup Terminal)) =
                  Cardinality(In(b, {"completed"})) + Cardinality(In(b, {"failed"}))
                  + Cardinality(In(b, {"cancelled"})) + Cardinality(In(b, Live))
<1>1. ASSUME NEW states
      PROVE  /\ In(b, states) \subseteq Job
             /\ IsFiniteSet(In(b, states))
             /\ Cardinality(In(b, states)) \in Nat
  <2>1. In(b, states) \subseteq Job
        BY DEF In, Members
  <2> QED BY <2>1, JobSetsAreFinite
<1>2. ASSUME NEW A, NEW B, IsFiniteSet(A), IsFiniteSet(B), A \cap B = {}
      PROVE  IsFiniteSet(A \cup B) /\ Cardinality(A \cup B) = Cardinality(A) + Cardinality(B)
  <2>1. Cardinality(A) \in Nat /\ Cardinality(B) \in Nat /\ Cardinality(A \cap B) = 0
        BY <1>2, FS_CardinalityType, FS_EmptySet
  <2>2. /\ IsFiniteSet(A \cup B)
        /\ Cardinality(A \cup B) = Cardinality(A) + Cardinality(B) - Cardinality(A \cap B)
        BY <1>2, FS_Union
  <2> QED BY <2>1, <2>2
<1> DEFINE C == In(b, {"completed"})
           F == In(b, {"failed"})
           X == In(b, {"cancelled"})
           V == In(b, Live)
<1>3. /\ C \cap F = {} /\ (C \cup F) \cap X = {} /\ ((C \cup F) \cup X) \cap V = {}
      /\ In(b, Live \cup Terminal) = ((C \cup F) \cup X) \cup V
      BY DEF In, Live, Terminal
<1>4. IsFiniteSet(C) /\ IsFiniteSet(F) /\ IsFiniteSet(X) /\ IsFiniteSet(V)
      BY <1>1
<1> HIDE DEF C, F, X, V
<1>5. IsFiniteSet(C \cup F) /\ Cardinality(C \cup F) = Cardinality(C) + Cardinality(F)
      BY <1>2, <1>3, <1>4
<1>6. /\ IsFiniteSet((C \cup F) \cup X)
      /\ Cardinality((C \cup F) \cup X) = Cardinality(C \cup F) + Cardinality(X)
      BY <1>2, <1>3, <1>4, <1>5
<1>7. Cardinality(((C \cup F) \cup X) \cup V) =
          Cardinality((C \cup F) \cup X) + Cardinality(V)
      BY <1>2, <1>3, <1>4, <1>6
<1>8. Cardinality(In(b, Live \cup Terminal)) =
          Cardinality(C) + Cardinality(F) + Cardinality(X) + Cardinality(V)
      BY <1>3, <1>5, <1>6, <1>7
<1> QED BY <1>1, <1>8 DEF C, F, X, V

\* What settling the jobs D does to the jobs of a batch: they leave the live
\* ones and join the ones with this outcome.
LEMMA SettlingMembers ==
    ASSUME NEW D, NEW outcome \in Outcomes, Settling(D, outcome), NEW b \in Batch
    PROVE  LET d == D \cap Members(b) IN
           /\ d \subseteq In(b, Live)
           /\ In(b, Live)' = In(b, Live) \ d
           /\ In(b, {outcome})' = In(b, {outcome}) \cup d
           /\ In(b, {outcome}) \cap d = {}
           /\ \A o \in Outcomes \ {outcome} : In(b, {o})' = In(b, {o})
           /\ In(b, Live \cup Terminal)' = In(b, Live \cup Terminal)
<1>1. ASSUME NEW j \in Members(b)
      PROVE  /\ j \in D => jobs[j].state \in Live /\ jobs'[j].state = outcome
             /\ j \notin D => \/ jobs'[j].state = jobs[j].state
                              \/ jobs[j].state \in Live /\ jobs'[j].state \in Live
      BY <1>1 DEF Settling, SameClass
<1>2. Members(b)' = Members(b)
      BY DEF Members
<1> QED BY <1>1, <1>2 DEF In, Outcomes, Live, Terminal

\* The counters of a bumped row.
LEMMA BumpedFields ==
    ASSUME TypeOK, NEW b \in Batch, NEW D, NEW outcome \in Outcomes,
           NEW n, n = Cardinality(D \cap Members(b)),
           NEW row, row = Bumped(b, D, outcome)
    PROVE  LET old == batches[b] IN
           /\ row.completed = IF outcome = "completed" THEN old.completed + n
                              ELSE old.completed
           /\ row.failed = IF outcome = "failed" THEN old.failed + n ELSE old.failed
           /\ row.cancelled = IF outcome = "cancelled" THEN old.cancelled + n
                              ELSE old.cancelled
           /\ row.total = old.total /\ row.state = old.state
           /\ row.callbacks = old.callbacks
<1>1. batches[b] \in BatchRow
      BY DEF TypeOK
<1> QED BY <1>1 DEF Bumped, BatchRow, Outcomes

\* Completing a row leaves its counters alone.
LEMMA CompletedFields ==
    ASSUME NEW row \in BatchRow, NEW b \in Batch
    PROVE  LET new == Completed(row, b) IN
           /\ new.completed = row.completed /\ new.failed = row.failed
           /\ new.cancelled = row.cancelled /\ new.total = row.total
           /\ new.state = "complete"
           /\ new.callbacks = IF Callback[b] = NoJob THEN row.callbacks
                              ELSE row.callbacks + 1
<1>1. CASE Callback[b] = NoJob
      BY <1>1 DEF Completed, BatchRow
<1>2. CASE Callback[b] # NoJob
  <2>1. Completed(row, b) = [row EXCEPT !.state = "complete",
                                        !.callbacks = row.callbacks + 1]
        BY <1>2 DEF Completed
  <2> QED BY <1>2, <2>1 DEF BatchRow
<1> QED BY <1>1, <1>2

\* The heart of the fan-in: the counters of the bumped row are those of the
\* jobs after the step, so they add up to the total exactly when no job is
\* left.
LEMMA SettledMeansNoneLeft ==
    ASSUME TypeOK, NEW D, NEW outcome \in Outcomes, Settling(D, outcome),
           NEW b \in Batch, Tally(b)
    PROVE  LET row == Bumped(b, D, outcome) IN
           /\ row.completed = Cardinality(In(b, {"completed"})')
           /\ row.failed = Cardinality(In(b, {"failed"})')
           /\ row.cancelled = Cardinality(In(b, {"cancelled"})')
           /\ row.total = Cardinality(In(b, Live \cup Terminal)')
           /\ Settled(row) <=> In(b, Live) \subseteq D
<1> DEFINE d == D \cap Members(b)
           n == Cardinality(d)
           row == Bumped(b, D, outcome)
<1>1. /\ d \subseteq In(b, Live)
      /\ In(b, Live)' = In(b, Live) \ d
      /\ In(b, {outcome})' = In(b, {outcome}) \cup d
      /\ In(b, {outcome}) \cap d = {}
      /\ \A o \in Outcomes \ {outcome} : In(b, {o})' = In(b, {o})
      /\ In(b, Live \cup Terminal)' = In(b, Live \cup Terminal)
      BY SettlingMembers
<1>2. /\ IsFiniteSet(In(b, {outcome})) /\ Cardinality(In(b, {outcome})) \in Nat
      /\ IsFiniteSet(In(b, Live)) /\ Cardinality(In(b, Live)) \in Nat
      /\ IsFiniteSet(d) /\ n \in Nat
  <2>1. d \subseteq Job
        BY <1>1, Partition
  <2> QED BY <2>1, Partition, JobSetsAreFinite
<1>3. Cardinality(In(b, {outcome})') = Cardinality(In(b, {outcome})) + n
  <2>1. Cardinality(In(b, {outcome}) \cup d) =
            Cardinality(In(b, {outcome})) + n - Cardinality(In(b, {outcome}) \cap d)
        BY <1>2, FS_Union
  <2>2. Cardinality(In(b, {outcome}) \cap d) = 0
        BY <1>1, FS_EmptySet
  <2>3. Cardinality(In(b, {outcome}) \cup d) = Cardinality(In(b, {outcome})) + n
    <3> HIDE DEF d, n
    <3> QED BY <1>2, <2>1, <2>2
  <2> QED BY <1>1, <2>3
<1>4. /\ n <= Cardinality(In(b, Live))
      /\ n = Cardinality(In(b, Live)) => In(b, Live) = d
      BY <1>1, <1>2, FS_Subset
<1>5. /\ row.completed = IF outcome = "completed" THEN batches[b].completed + n
                         ELSE batches[b].completed
      /\ row.failed = IF outcome = "failed" THEN batches[b].failed + n
                      ELSE batches[b].failed
      /\ row.cancelled = IF outcome = "cancelled" THEN batches[b].cancelled + n
                         ELSE batches[b].cancelled
      /\ row.total = batches[b].total
  <2>1. n = Cardinality(D \cap Members(b)) /\ row = Bumped(b, D, outcome)
        OBVIOUS
  <2> HIDE DEF n, row
  <2> QED BY <2>1, BumpedFields
<1> HIDE DEF d, n, row
<1>6. /\ row.completed = Cardinality(In(b, {"completed"})')
      /\ row.failed = Cardinality(In(b, {"failed"})')
      /\ row.cancelled = Cardinality(In(b, {"cancelled"})')
      /\ row.total = Cardinality(In(b, Live \cup Terminal)')
  <2>1. CASE outcome = "completed"
        BY <1>1, <1>3, <1>5, <2>1 DEF Tally, Outcomes
  <2>2. CASE outcome = "failed"
        BY <1>1, <1>3, <1>5, <2>2 DEF Tally, Outcomes
  <2>3. CASE outcome = "cancelled"
        BY <1>1, <1>3, <1>5, <2>3 DEF Tally, Outcomes
  <2> QED BY <2>1, <2>2, <2>3 DEF Outcomes
<1>7. row.completed + row.failed + row.cancelled + Cardinality(In(b, Live)) = row.total + n
  <2> DEFINE c == Cardinality(In(b, {"completed"}))
             f == Cardinality(In(b, {"failed"}))
             x == Cardinality(In(b, {"cancelled"}))
             v == Cardinality(In(b, Live))
             t == Cardinality(In(b, Live \cup Terminal))
  <2>1. c \in Nat /\ f \in Nat /\ x \in Nat /\ v \in Nat /\ t = c + f + x + v
        BY Partition
  <2>2. /\ batches[b].completed = c /\ batches[b].failed = f
        /\ batches[b].cancelled = x /\ batches[b].total = t
        BY DEF Tally
  <2> HIDE DEF c, f, x, v, t
  <2>3. row.completed + row.failed + row.cancelled + v = row.total + n
        BY <1>2, <1>5, <2>1, <2>2 DEF Outcomes
  <2> QED BY <2>3 DEF v
<1>8. /\ row.completed \in Nat /\ row.failed \in Nat /\ row.cancelled \in Nat
      /\ row.total \in Nat
  <2>1. batches[b] \in BatchRow
        BY DEF TypeOK
  <2> QED BY <1>2, <1>5, <2>1 DEF BatchRow
<1>9. Settled(row) <=> n = Cardinality(In(b, Live))
      BY <1>2, <1>7, <1>8 DEF Settled
<1>10. In(b, Live) \subseteq D <=> In(b, Live) = d
  <2>1. In(b, Live) \subseteq Members(b)
        BY DEF In
  <2> QED BY <1>1, <2>1 DEF d
<1>11. Settled(row) <=> In(b, Live) \subseteq D
      BY <1>4, <1>9, <1>10 DEF n
<1> QED BY <1>6, <1>11 DEF row

\* The batches that fire are those whose last live jobs are settled.
LEMMA FiredIsLast ==
    ASSUME TypeOK, NEW D, NEW outcome \in Outcomes, Settling(D, outcome),
           NEW b \in Batch, Tally(b), Fan(b)
    PROVE  b \in Fired(D, outcome) <=> In(b, Live) # {} /\ In(b, Live) \subseteq D
<1>1. Settled(Bumped(b, D, outcome)) <=> In(b, Live) \subseteq D
      BY SettledMeansNoneLeft
<1>2. /\ D \cap Members(b) \subseteq In(b, Live)
      /\ In(b, Live) \subseteq Members(b)
  <2>1. D \cap Members(b) \subseteq In(b, Live)
        BY SettlingMembers
  <2>2. In(b, Live) \subseteq Members(b)
        BY DEF In
  <2> QED BY <2>1, <2>2
<1> QED BY <1>1, <1>2 DEF Fired, Fan

\* The row of a batch after jobs were settled.
LEMMA SettlingRow ==
    ASSUME TypeOK, NEW D, NEW outcome \in Outcomes, Settling(D, outcome),
           NEW b \in Batch
    PROVE  LET row == Bumped(b, D, outcome) IN
           /\ batches'[b].completed = row.completed
           /\ batches'[b].failed = row.failed
           /\ batches'[b].cancelled = row.cancelled
           /\ batches'[b].total = row.total
           /\ batches'[b].state = IF b \in Fired(D, outcome) THEN "complete"
                                  ELSE batches[b].state
           /\ batches'[b].callbacks =
                  IF b \in Fired(D, outcome) /\ Callback[b] # NoJob
                  THEN batches[b].callbacks + 1 ELSE batches[b].callbacks
<1> DEFINE row == Bumped(b, D, outcome)
<1>1. batches'[b] = IF b \in Fired(D, outcome) THEN Completed(row, b) ELSE row
      BY DEF Settling
<1>2. row \in BatchRow
      BY BumpedType DEF Settling, Outcomes
<1>3. row.state = batches[b].state /\ row.callbacks = batches[b].callbacks
  <2> DEFINE n == Cardinality(D \cap Members(b))
  <2>1. n = Cardinality(D \cap Members(b)) /\ row = Bumped(b, D, outcome)
        OBVIOUS
  <2> HIDE DEF n, row
  <2> QED BY <2>1, BumpedFields
<1> HIDE DEF row
<1>4. CASE b \in Fired(D, outcome)
      BY <1>1, <1>2, <1>3, <1>4, CompletedFields DEF row
<1>5. CASE b \notin Fired(D, outcome)
      BY <1>1, <1>3, <1>5 DEF row
<1> QED BY <1>4, <1>5

\* Settling jobs keeps the tally and the fan-in of every batch.
LEMMA SettlingKeepsInv ==
    ASSUME TypeOK, BatchInv, NEW D, NEW outcome \in Outcomes, Settling(D, outcome)
    PROVE  BatchInv'
<1> SUFFICES ASSUME NEW b \in Batch
             PROVE  Tally(b)' /\ Fan(b)'
    BY DEF BatchInv
<1>1. Tally(b) /\ Fan(b)
      BY DEF BatchInv
<1>2. Tally(b)'
  <2> DEFINE row == Bumped(b, D, outcome)
  <2>1. /\ row.completed = Cardinality(In(b, {"completed"})')
        /\ row.failed = Cardinality(In(b, {"failed"})')
        /\ row.cancelled = Cardinality(In(b, {"cancelled"})')
        /\ row.total = Cardinality(In(b, Live \cup Terminal)')
        BY <1>1, SettledMeansNoneLeft
  <2>2. /\ batches'[b].completed = row.completed
        /\ batches'[b].failed = row.failed
        /\ batches'[b].cancelled = row.cancelled
        /\ batches'[b].total = row.total
        BY SettlingRow
  <2> HIDE DEF row
  <2> QED BY <2>1, <2>2 DEF Tally
<1>3. In(b, Live)' = In(b, Live) \ D
  <2>1. In(b, Live)' = In(b, Live) \ (D \cap Members(b))
        BY SettlingMembers
  <2>2. In(b, Live) \subseteq Members(b)
        BY DEF In
  <2> QED BY <2>1, <2>2
<1>4. b \in Fired(D, outcome) <=> In(b, Live) # {} /\ In(b, Live) \subseteq D
      BY <1>1, FiredIsLast
<1>5. /\ batches'[b].state = IF b \in Fired(D, outcome) THEN "complete"
                             ELSE batches[b].state
      /\ batches'[b].callbacks =
             IF b \in Fired(D, outcome) /\ Callback[b] # NoJob
             THEN batches[b].callbacks + 1 ELSE batches[b].callbacks
      BY SettlingRow
<1>6. Fan(b)'
  <2>1. CASE b \in Fired(D, outcome)
    <3>1. batches[b].state = "pending" /\ batches[b].callbacks = 0
          BY <1>1, <1>4, <2>1 DEF Fan
    <3> QED BY <1>3, <1>4, <1>5, <2>1, <3>1 DEF Fan
  <2>2. CASE b \notin Fired(D, outcome)
        BY <1>1, <1>3, <1>4, <1>5, <2>2 DEF Fan
  <2> QED BY <2>1, <2>2
<1> QED BY <1>2, <1>6

\* Nothing about a batch changes when its jobs keep their class and its row
\* is not written.
LEMMA SameMembers ==
    ASSUME NEW b \in Batch, batches'[b] = batches[b],
           \A j \in Members(b) : SameClass(j), Tally(b), Fan(b)
    PROVE  Tally(b)' /\ Fan(b)' /\ In(b, Live)' = In(b, Live)
<1>1. Members(b)' = Members(b)
      BY DEF Members
<1>2. /\ In(b, {"completed"})' = In(b, {"completed"})
      /\ In(b, {"failed"})' = In(b, {"failed"})
      /\ In(b, {"cancelled"})' = In(b, {"cancelled"})
      /\ In(b, Live)' = In(b, Live)
      /\ In(b, Live \cup Terminal)' = In(b, Live \cup Terminal)
      BY <1>1 DEF SameClass, In, Live, Terminal
<1> QED BY <1>2 DEF Tally, Fan

\* The row and the jobs of a batch that was just opened.
LEMMA OpeningRow ==
    ASSUME TypeOK, NEW b \in Batch, NEW I, Opening(b, I)
    PROVE  /\ In(b, Live)' = I
           /\ batches'[b].total = Cardinality(I)
           /\ batches'[b].completed = batches[b].completed
           /\ batches'[b].failed = batches[b].failed
           /\ batches'[b].cancelled = batches[b].cancelled
           /\ batches'[b].state = IF I = {} THEN "complete" ELSE "pending"
           /\ batches'[b].callbacks = IF I = {} /\ Callback[b] # NoJob
                                      THEN batches[b].callbacks + 1
                                      ELSE batches[b].callbacks
<1> DEFINE row == [batches[b] EXCEPT !.state = "pending", !.total = Cardinality(I)]
<1>1. I \subseteq Job /\ Cardinality(I) \in Nat /\ batches[b] \in BatchRow
      BY JobSetsAreFinite DEF Opening, Members, TypeOK
<1>2. /\ row \in BatchRow /\ row.state = "pending" /\ row.total = Cardinality(I)
      /\ row.completed = batches[b].completed /\ row.failed = batches[b].failed
      /\ row.cancelled = batches[b].cancelled /\ row.callbacks = batches[b].callbacks
      BY <1>1 DEF BatchRow
<1>3. batches'[b] = IF I = {} THEN Completed(row, b) ELSE row
      BY DEF Opening, TypeOK
<1>4. In(b, Live)' = I
  <2>1. Members(b)' = Members(b)
        BY DEF Members
  <2> QED BY <2>1 DEF Opening, In, Live
<1> HIDE DEF row
<1>5. CASE I = {}
      BY <1>2, <1>3, <1>4, <1>5, CompletedFields
<1>6. CASE I # {}
      BY <1>2, <1>3, <1>4, <1>6
<1> QED BY <1>5, <1>6

\* Opening a batch, with or without jobs, keeps the invariant.
LEMMA OpeningKeepsInv ==
    ASSUME TypeOK, BatchInv, NEW b \in Batch, NEW I, Opening(b, I)
    PROVE  BatchInv'
<1>1. ASSUME NEW c \in Batch, c # b
      PROVE  Tally(c)' /\ Fan(c)'
  <2>1. batches'[c] = batches[c] /\ \A j \in Members(c) : SameClass(j)
        BY <1>1 DEF Opening, TypeOK
  <2> QED BY <2>1, SameMembers DEF BatchInv
<1>2. Tally(b) /\ Fan(b)
      BY DEF BatchInv
<1>3. \A s : "absent" \notin s => In(b, s) = {}
      BY DEF Opening, In
<1>4. In(b, {"completed"}) = {} /\ In(b, {"failed"}) = {} /\ In(b, {"cancelled"}) = {}
      BY <1>3
<1>5. /\ batches[b].completed = 0 /\ batches[b].failed = 0 /\ batches[b].cancelled = 0
      /\ batches[b].callbacks = 0
      BY <1>2, <1>4, FS_EmptySet DEF Tally, Fan, Opening
<1>6. /\ In(b, {"completed"})' = {} /\ In(b, {"failed"})' = {}
      /\ In(b, {"cancelled"})' = {} /\ In(b, Live \cup Terminal)' = I
  <2>1. Members(b)' = Members(b)
        BY DEF Members
  <2> QED BY <2>1 DEF Opening, In, Live, Terminal
<1>7. Tally(b)'
      BY <1>5, <1>6, OpeningRow, FS_EmptySet DEF Tally
<1>8. Fan(b)'
      BY <1>5, OpeningRow DEF Fan
<1> QED BY <1>1, <1>7, <1>8 DEF BatchInv

\* Every step keeps the tally and the fan-in.
LEMMA BatchInvPreserved ==
    ASSUME RowInv, BatchInv, [Next]_vars
    PROVE  BatchInv'
<1>1. CASE Quiet
      BY <1>1, SameMembers DEF Quiet, BatchInv
<1> QED BY <1>1, NextMoves, SettlingKeepsInv, OpeningKeepsInv DEF Moves, RowInv

\* The inductive invariant of batches.
THEOREM BatchInvariant == Spec => []BatchInv
<1>1. Init => BatchInv
  <2> SUFFICES ASSUME Init, NEW b \in Batch
               PROVE  Tally(b) /\ Fan(b)
      BY DEF BatchInv
  <2>1. \A s : "absent" \notin s => In(b, s) = {}
        BY DEF In, Init, NoRow, Members
  <2>2. /\ In(b, {"completed"}) = {} /\ In(b, {"failed"}) = {}
        /\ In(b, {"cancelled"}) = {} /\ In(b, Live) = {}
        /\ In(b, Live \cup Terminal) = {}
        BY <2>1 DEF Live, Terminal
  <2> QED BY <2>2, FS_EmptySet DEF Tally, Fan, Init
<1>2. RowInv /\ BatchInv /\ [Next]_vars => BatchInv'
      BY BatchInvPreserved
<1> QED BY <1>1, <1>2, RowInvariant, PTL DEF Spec

\* The counters of a batch row count its jobs by their final state, for any
\* batches settled in any order by workers, cancellations, sweeps and reclaims
\* (batch.rs:164-262).
THEOREM BatchesTally == Spec => []BatchTally
<1>1. BatchInv => BatchTally
      BY DEF BatchInv, Tally, In, BatchTally
<1> QED BY <1>1, BatchInvariant, PTL

\* A batch is complete exactly when none of its jobs is left, and has then
\* called back once (batch.rs:123-125).
THEOREM CallbackFiresOnce == Spec => []CallbackOnce
<1>1. BatchInv => CallbackOnce
  <2> SUFFICES ASSUME BatchInv, NEW b \in Batch
               PROVE  /\ batches[b].state = "complete" =>
                            \A j \in Members(b) : jobs[j].state \notin Live
                      /\ batches[b].state = "pending" =>
                            \E j \in Members(b) : jobs[j].state \in Live
                      /\ batches[b].callbacks =
                            IF batches[b].state = "complete" /\ Callback[b] # NoJob
                            THEN 1 ELSE 0
      BY DEF CallbackOnce
  <2>1. Fan(b)
        BY DEF BatchInv
  <2> QED BY <2>1 DEF Fan, In
<1> QED BY <1>1, BatchInvariant, PTL

-----------------------------------------------------------------------------
(* PgJobs implements BatchFanIn, step by step.                             *)

\* A settled set of jobs is settled in the abstract too, and the batches that
\* the counters complete are those whose last jobs they are.
LEMMA SettlingRefines ==
    ASSUME TypeOK, BatchInv, NEW D \in SUBSET Job, NEW outcome \in Outcomes,
           Settling(D, outcome)
    PROVE  FanIn!Settle
<1> DEFINE open == [b \in Batch |-> {j \in Members(b) : jobs[j].state \in Live}]
           last == {b \in Batch : open[b] # {} /\ open[b] \subseteq D}
<1>1. ASSUME NEW b \in Batch
      PROVE  /\ open'[b] = open[b] \ D
             /\ b \in last <=> b \in Fired(D, outcome)
  <2>1. open[b] = In(b, Live) /\ open'[b] = In(b, Live)'
        BY DEF In
  <2>2. In(b, Live)' = In(b, Live) \ (D \cap Members(b))
        BY SettlingMembers
  <2>3. In(b, Live) \subseteq Members(b)
        BY DEF In
  <2>4. b \in Fired(D, outcome) <=> In(b, Live) # {} /\ In(b, Live) \subseteq D
        BY FiredIsLast DEF BatchInv
  <2> QED BY <2>1, <2>2, <2>3, <2>4
<1>2. open' = [b \in Batch |-> open[b] \ D]
      BY <1>1
<1>3. [b \in Batch |-> batches[b].state]' =
          [b \in Batch |-> IF b \in last THEN "complete"
                           ELSE [c \in Batch |-> batches[c].state][b]]
      BY <1>1, SettlingRow
<1>4. [b \in Batch |-> batches[b].callbacks]' =
          [b \in Batch |-> IF b \in last THEN FanIn!Calls(b)
                           ELSE [c \in Batch |-> batches[c].callbacks][b]]
      BY <1>1, SettlingRow DEF FanIn!Calls
<1> QED BY <1>2, <1>3, <1>4 DEF FanIn!Settle

\* A batch opened by enqueue_batch is opened in the abstract.
LEMMA OpeningRefines ==
    ASSUME TypeOK, NEW b \in Batch, NEW I \in SUBSET Job, Opening(b, I)
    PROVE  FanIn!Open(b)
<1> DEFINE open == [c \in Batch |-> {j \in Members(c) : jobs[j].state \in Live}]
           status == [c \in Batch |-> batches[c].state]
           callbacks == [c \in Batch |-> batches[c].callbacks]
<1>1. ASSUME NEW c \in Batch, c # b
      PROVE  open'[c] = open[c] /\ batches'[c] = batches[c]
  <2>1. batches'[c] = batches[c] /\ \A j \in Members(c) : SameClass(j)
        BY <1>1 DEF Opening, TypeOK
  <2>2. Members(c)' = Members(c)
        BY DEF Members
  <2> QED BY <2>1, <2>2 DEF SameClass, Live
<1>2. open'[b] = I
  <2>1. open'[b] = In(b, Live)'
        BY DEF In
  <2> QED BY <2>1, OpeningRow
<1>3. open' = [open EXCEPT ![b] = I]
      BY <1>1, <1>2
<1>4. status' = [status EXCEPT ![b] = IF I = {} THEN "complete" ELSE "pending"]
  <2>1. batches'[b].state = IF I = {} THEN "complete" ELSE "pending"
        BY OpeningRow
  <2> QED BY <1>1, <2>1
<1>5. callbacks' = [callbacks EXCEPT
                       ![b] = IF I = {} THEN FanIn!Calls(b) ELSE callbacks[b]]
  <2>1. batches'[b].callbacks = IF I = {} /\ Callback[b] # NoJob
                                THEN batches[b].callbacks + 1
                                ELSE batches[b].callbacks
        BY OpeningRow
  <2> QED BY <1>1, <2>1 DEF FanIn!Calls
<1>6. status[b] = "absent"
      BY DEF Opening
<1> QED BY <1>3, <1>4, <1>5, <1>6 DEF FanIn!Open

\* Every other step is a stuttering step of the abstract batch.
LEMMA QuietRefines ==
    ASSUME Quiet
    PROVE  UNCHANGED FanIn!vars
<1> DEFINE open == [c \in Batch |-> {j \in Members(c) : jobs[j].state \in Live}]
<1>1. ASSUME NEW c \in Batch
      PROVE  open'[c] = open[c]
  <2>1. Members(c)' = Members(c)
        BY DEF Members
  <2> QED BY <2>1 DEF Quiet, SameClass, Live
<1>2. open' = open
      BY <1>1
<1> QED BY <1>2 DEF FanIn!vars, Quiet

\* The Postgres batches implement the fan-in: counting finished jobs in
\* whichever transaction finishes them, and claiming the callback slot when the
\* counters reach the total, closes a batch in the very step in which its last
\* job leaves (batch.rs:164-262, enqueue.rs).
THEOREM PgJobsImplementsFanIn == Spec => ImplementsFanIn
<1>1. Init => FanIn!Init
  <2> SUFFICES ASSUME Init
               PROVE  FanIn!Init
      OBVIOUS
  <2>1. \A b \in Batch : {j \in Members(b) : jobs[j].state \in Live} = {}
        BY DEF Init, NoRow, Live, Members
  <2> QED BY <2>1 DEF Init, FanIn!Init
<1>2. RowInv /\ BatchInv /\ [Next]_vars => [FanIn!Next]_(FanIn!vars)
  <2> SUFFICES ASSUME RowInv, BatchInv, [Next]_vars
               PROVE  [FanIn!Next]_(FanIn!vars)
      OBVIOUS
  <2>1. Moves /\ TypeOK
        BY NextMoves DEF RowInv
  <2>2. CASE Quiet
        BY <2>2, QuietRefines
  <2>3. ASSUME NEW D \in SUBSET Job, NEW outcome \in Outcomes, Settling(D, outcome)
        PROVE  FanIn!Next
        BY <2>1, <2>3, SettlingRefines DEF FanIn!Next
  <2>4. ASSUME NEW b \in Batch, NEW I \in SUBSET Job, Opening(b, I)
        PROVE  FanIn!Next
        BY <2>1, <2>4, OpeningRefines DEF FanIn!Next
  <2> QED BY <2>1, <2>2, <2>3, <2>4 DEF Moves
<1> QED BY <1>1, <1>2, RowInvariant, BatchInvariant, PTL
        DEF Spec, ImplementsFanIn, FanIn!Spec

-----------------------------------------------------------------------------
(***************************************************************************)
(* Who may settle a row.  The gate of mark_completed and mark_failed tells *)
(* workers apart, not claims; it is enough exactly as long as no process   *)
(* holds two claims of one job at the same time.                           *)
(***************************************************************************)

\* No process has the same job in its memory twice.  A process gets there when
\* a job it still runs goes stale, is swept, and is claimed by it again.
OneRunPerJob ==
    \A r, s \in runs : r.job = s.job /\ r.proc = s.proc => r = s

\* A run that passes the gate is the latest claim of its job, and knows the
\* attempt the row is at.
OwnersAreCurrent ==
    \A r \in runs :
        /\ r.claim <= claims[r.job]
        /\ Owns(r) => /\ r.claim = claims[r.job]
                      /\ r.attempt = jobs[r.job].attempt

\* A run that passes the gate applies its verdict to the row j, and is over.
GivenUpBy(r, j) ==
    /\ r.job = j /\ Owns(r) /\ runs' = runs \ {r}
    /\ \/ jobs'[j].state \in Terminal
       \/ /\ retry_schedule(r)
          /\ jobs'[j].state = "pending" /\ jobs'[j].attempt = jobs[j].attempt

\* A running row is given up: taken back, or settled or retried by its owner.
GivenUp(j) ==
    /\ jobs[j].state = "running"
    /\ jobs'[j] = RecoveredRow(j) \/ \E r \in runs : GivenUpBy(r, j)

\* What a step other than a claim does to the owner of a row.
OwnerKept(j) ==
    \/ jobs[j].state # "running" /\ jobs'[j].state # "running"
    \/ /\ jobs[j].state = "running" /\ jobs'[j].state = "running"
       /\ jobs'[j].worker_id = jobs[j].worker_id
       /\ jobs'[j].attempt = jobs[j].attempt
    \/ GivenUp(j)

\* The same run, perhaps in another phase.
SameRun(r, s) ==
    /\ r.job = s.job /\ r.claim = s.claim /\ r.proc = s.proc
    /\ r.attempt = s.attempt

\* Runs are dropped, or one of them moves on.
RunsKept ==
    \/ runs' \subseteq runs
    \/ \E s \in runs : \E t : SameRun(t, s) /\ runs' = (runs \ {s}) \cup {t}

\* What a step other than a claim does to rows and runs.
NoClaim ==
    /\ claims' = claims
    /\ \A j \in Job : OwnerKept(j)
    /\ RunsKept

-----------------------------------------------------------------------------

\* settle_terminal takes no row from its owner beyond those its job table does.
LEMMA SettleKeepsOwners ==
    ASSUME TypeOK, Unborn, NEW T \in [Job -> JobRow], NEW L, NEW D, D \subseteq Job,
           NEW outcome \in {"completed", "failed", "cancelled"},
           settle_terminal(T, L, D, outcome), claims' = claims,
           \A j \in Job : \/ T[j] = jobs[j]
                          \/ jobs[j].state = "pending" /\ T[j].state # "running"
                          \/ jobs[j].state = "running" /\ T[j] = RecoveredRow(j)
                          \/ /\ T[j].state \in Terminal
                             /\ \E r \in runs : /\ r.job = j /\ Owns(r)
                                               /\ runs' = runs \ {r}
    PROVE  \A j \in Job : OwnerKept(j)
<1>1. \A j \in Job : jobs'[j] = T[j] \/ Enters(j)
      BY SettleSteps
<1> QED BY <1>1 DEF OwnerKept, Enters, GivenUp, GivenUpBy, Owns

\* Recovered rows are not running.
LEMMA RecoverKeepsOwners ==
    ASSUME TypeOK, Unborn, NEW S, S \subseteq Job,
           \A j \in S : jobs[j].state = "running", Recover(S), claims' = claims
    PROVE  \A j \in Job : OwnerKept(j)
<1> DEFINE T == [j \in Job |-> IF j \in S THEN RecoveredRow(j) ELSE jobs[j]]
           D == {j \in S : Exhausted(j)}
<1>1. T \in [Job -> JobRow] /\ D \subseteq Job
      BY RecoveredFields DEF TypeOK
<1>2. settle_terminal(T, Released(lanes, S), D, "failed")
      BY DEF Recover
<1>3. \A j \in Job : \/ T[j] = jobs[j]
                     \/ jobs[j].state = "running" /\ T[j] = RecoveredRow(j)
      OBVIOUS
<1> HIDE DEF T, D
<1> QED BY <1>1, <1>2, <1>3, SettleKeepsOwners

\* A run that advances stays the same run.
LEMMA AdvanceKeepsRun ==
    ASSUME TypeOK, NEW r \in runs, NEW phase, NEW v, Advance(r, phase, v)
    PROVE  RunsKept
<1>1. r \in Run
      BY DEF TypeOK
<1>2. SameRun([r EXCEPT !.phase = phase, !.verdict = v], r)
      BY <1>1 DEF SameRun, Run
<1> QED BY <1>2 DEF Advance, RunsKept

\* Producers claim nothing.
LEMMA ProducerNoClaim ==
    ASSUME TypeOK, Unborn, Producer
    PROVE  NoClaim
<1>1. claims' = claims /\ runs' = runs
      BY DEF Producer, enqueue_dyn, materialize_from_rule, enqueue_many_dyn,
         enqueue_batch, cancel
<1>2. ASSUME NEW I, NEW D, jobs' = Inserted(jobs, I, D),
             \A j \in I : j \in Job => jobs[j].state = "absent"
      PROVE  \A j \in Job : OwnerKept(j)
  <2>1. ASSUME NEW j \in Job
        PROVE  \/ jobs[j].state = "absent" /\ jobs'[j].state = "pending"
               \/ jobs'[j] = jobs[j]
        BY <1>2, InsertedFields DEF TypeOK
  <2> QED BY <2>1 DEF OwnerKept
<1>3. ASSUME NEW j \in Job, cancel(j)
      PROVE  \A i \in Job : OwnerKept(i)
  <2> DEFINE T == [jobs EXCEPT ![j].state = "cancelled"]
  <2>1. T \in [Job -> JobRow]
        BY FreedType DEF TypeOK, Terminal
  <2>2. \A i \in Job : \/ T[i] = jobs[i]
                       \/ jobs[i].state = "pending" /\ T[i].state # "running"
        BY <1>3 DEF TypeOK, JobRow, cancel
  <2>3. settle_terminal(T, lanes, {j}, "cancelled")
        BY <1>3 DEF cancel
  <2> HIDE DEF T
  <2> QED BY <1>1, <2>1, <2>2, <2>3, SettleKeepsOwners
<1>4. ASSUME NEW j \in Job, materialize_from_rule(j)
      PROVE  \A i \in Job : OwnerKept(i)
      BY <1>4 DEF materialize_from_rule, OwnerKept
<1>5. ASSUME NEW j \in Job, enqueue_dyn(j)
      PROVE  \A i \in Job : OwnerKept(i)
      BY <1>2, <1>5 DEF enqueue_dyn, Unbatched
<1>6. ASSUME NEW S \in SUBSET Job, enqueue_many_dyn(S)
      PROVE  \A i \in Job : OwnerKept(i)
  <2>1. PICK I \in Insertable(S) : \E D \in SUBSET I : jobs' = Inserted(jobs, I, D)
        BY <1>6 DEF enqueue_many_dyn
  <2>2. \A i \in I : jobs[i].state = "absent"
        BY <1>6 DEF Insertable, enqueue_many_dyn, Unbatched
  <2> QED BY <1>2, <2>1, <2>2
<1>7. ASSUME NEW b \in Batch, enqueue_batch(b)
      PROVE  \A i \in Job : OwnerKept(i)
  <2>1. PICK I \in Insertable(Members(b)) :
            LET C == IF I = {} THEN CallbacksOf({b}) ELSE {} IN
            jobs' = Inserted(jobs, I \cup C, I \cup C)
        BY <1>7 DEF enqueue_batch
  <2> DEFINE C == IF I = {} THEN CallbacksOf({b}) ELSE {}
  <2>2. batches[b].state = "absent"
        BY <1>7 DEF enqueue_batch
  <2>3. \A i \in I : jobs[i].state = "absent"
        BY <2>2 DEF Insertable, Unborn
  <2>4. \A i \in C : Callback[b] = i /\ i \in Job
        BY CallbackFacts
  <2>5. \A i \in C : jobs[i].state = "absent"
        BY <2>2, <2>4 DEF Unborn
  <2>6. jobs' = Inserted(jobs, I \cup C, I \cup C)
        BY <2>1
  <2> HIDE DEF C
  <2> QED BY <1>2, <2>3, <2>5, <2>6
<1>8. \A j \in Job : OwnerKept(j)
      BY <1>3, <1>4, <1>5, <1>6, <1>7 DEF Producer
<1> QED BY <1>1, <1>8 DEF NoClaim, RunsKept

\* A worker ends its run or moves it on.
LEMMA WorkerNoClaim ==
    ASSUME TypeOK, Unborn, NEW r \in runs, WorkerStep(r)
    PROVE  NoClaim
<1>1. r.job \in Job
      BY DEF TypeOK, Run
<1>2. CASE Dispatch(r) \/ StartHandler(r) \/ FinishHandler(r)
  <2>1. claims' = claims /\ jobs' = jobs
        BY <1>2 DEF Dispatch, StartHandler, FinishHandler, tables
  <2>2. PICK phase, v : Advance(r, phase, v)
        BY <1>2 DEF Dispatch, StartHandler, FinishHandler
  <2> QED BY <2>1, <2>2, AdvanceKeepsRun DEF NoClaim, OwnerKept
<1>3. CASE DropVerdict(r)
      BY <1>3 DEF DropVerdict, tables, NoClaim, OwnerKept, RunsKept
<1>4. ASSUME NEW s \in {"completed", "failed"}, Owns(r), claims' = claims,
             runs' = runs \ {r},
             settle_terminal(
                 [jobs EXCEPT ![r.job] = [Freed(@) EXCEPT !.state = s]],
                 Released(lanes, {r.job}), {r.job}, s)
      PROVE  \A i \in Job : OwnerKept(i)
  <2> DEFINE T == [jobs EXCEPT ![r.job] = [Freed(@) EXCEPT !.state = s]]
  <2>1. T \in [Job -> JobRow]
        BY <1>1, FreedType DEF TypeOK, Terminal
  <2>2. \A i \in Job : T[i] = jobs[i] \/ (i = r.job /\ T[i].state \in Terminal)
        BY <1>1, <1>4 DEF TypeOK, JobRow, Freed, Terminal
  <2>3. settle_terminal(T, Released(lanes, {r.job}), {r.job}, s)
        BY <1>4
  <2> HIDE DEF T
  <2> QED BY <1>1, <1>4, <2>1, <2>2, <2>3, SettleKeepsOwners
<1>5. CASE mark_completed(r)
      BY <1>4, <1>5 DEF mark_completed, NoClaim, RunsKept
<1>6. CASE mark_failed_terminal(r)
      BY <1>4, <1>6 DEF mark_failed_terminal, NoClaim, RunsKept
<1>7. CASE mark_failed_retry(r)
  <2>1. ASSUME NEW i \in Job
        PROVE  OwnerKept(i)
    <3>1. CASE i # r.job
          BY <1>1, <1>7, <3>1 DEF mark_failed_retry, OwnerKept, TypeOK
    <3>2. CASE i = r.job
      <4>1. jobs'[i] = [Freed(jobs[i]) EXCEPT !.state = "pending", !.due = FALSE]
            BY <1>1, <1>7, <3>2 DEF mark_failed_retry, TypeOK
      <4>2. jobs'[i].state = "pending" /\ jobs'[i].attempt = jobs[i].attempt
            BY <4>1 DEF Freed, TypeOK, JobRow
      <4>3. /\ retry_schedule(r) /\ Owns(r) /\ jobs[i].state = "running"
            /\ runs' = runs \ {r}
            BY <1>7, <3>2 DEF mark_failed_retry, Owns
      <4> QED BY <3>2, <4>2, <4>3 DEF OwnerKept, GivenUp, GivenUpBy
    <3> QED BY <3>1, <3>2
  <2> QED BY <1>7, <2>1 DEF mark_failed_retry, NoClaim, RunsKept
<1> QED BY <1>2, <1>3, <1>5, <1>6, <1>7 DEF WorkerStep, Settle

\* Every step is a claim or claims nothing.
LEMMA ClaimOrNoClaim ==
    ASSUME TypeOK, Unborn, [Next]_vars
    PROVE  NoClaim \/ \E p \in Proc, S \in SUBSET Job : claim_batch(p, S)
<1>1. CASE Operator
      BY <1>1
      DEF Operator, set_concurrency, set_paused, NoClaim, OwnerKept, RunsKept
<1>2. CASE Clock \/ \E p \in Proc : update_heartbeat_batch(p)
  <2>1. claims' = claims /\ runs' = runs
        BY <1>2 DEF Clock, BecomeDue, HeartbeatExpires, update_heartbeat_batch
  <2>2. ASSUME NEW i \in Job
        PROVE  OwnerKept(i)
    <3>1. ASSUME NEW j \in Job, BecomeDue(j)
          PROVE  OwnerKept(i)
          BY <3>1 DEF BecomeDue, OwnerKept, TypeOK, JobRow
    <3>2. ASSUME NEW j \in Job, HeartbeatExpires(j)
          PROVE  OwnerKept(i)
          BY <3>2 DEF HeartbeatExpires, OwnerKept, TypeOK, JobRow
    <3>3. ASSUME NEW p \in Proc, update_heartbeat_batch(p)
          PROVE  OwnerKept(i)
          BY <3>3 DEF update_heartbeat_batch, OwnerKept, TypeOK, JobRow
    <3> QED BY <1>2, <3>1, <3>2, <3>3 DEF Clock
  <2> QED BY <2>1, <2>2 DEF NoClaim, RunsKept
<1>3. CASE sweep_stale
  <2>1. Stale \subseteq Job /\ \A j \in Stale : jobs[j].state = "running"
        BY DEF Stale
  <2> QED BY <1>3, <2>1, RecoverKeepsOwners DEF sweep_stale, NoClaim, RunsKept
<1>4. CASE Shutdown
  <2>1. PICK p \in Proc :
            \/ shutdown_with(p) \/ LastClaimEmpty(p) \/ DrainClean(p)
            \/ abort_all(p) \/ reclaim_in_flight(p)
            \/ ReclaimFails(p) \/ Crash(p)
        BY <1>4 DEF Shutdown
  <2>2. claims' = claims /\ runs' \subseteq runs
        BY <2>1 DEF shutdown_with, LastClaimEmpty, DrainClean, abort_all,
           reclaim_in_flight, ReclaimFails, Crash
  <2>3. \A j \in Job : OwnerKept(j)
    <3>1. CASE reclaim_in_flight(p)
      <4> DEFINE S == {j \in snapshot[p] : jobs[j].state = "running"}
      <4>1. S \subseteq Job /\ \A j \in S : jobs[j].state = "running"
            BY DEF TypeOK
      <4>2. Recover(S)
            BY <3>1 DEF reclaim_in_flight
      <4> QED BY <2>2, <4>1, <4>2, RecoverKeepsOwners
    <3>2. CASE ~reclaim_in_flight(p)
          BY <2>1, <3>2 DEF shutdown_with, LastClaimEmpty, DrainClean,
             abort_all, ReclaimFails, Crash, tables, OwnerKept
    <3> QED BY <3>1, <3>2
  <2> QED BY <2>2, <2>3 DEF NoClaim, RunsKept
<1>5. CASE UNCHANGED vars
      BY <1>5 DEF vars, NoClaim, OwnerKept, RunsKept
<1> QED BY <1>1, <1>2, <1>3, <1>4, <1>5, ProducerNoClaim, WorkerNoClaim
        DEF Next, Process

\* The runs a claim adds.
LEMMA ClaimedRuns ==
    ASSUME TypeOK, NEW p \in Proc, NEW S \in SUBSET Job, claim_batch(p, S)
    PROVE  /\ runs \subseteq runs'
           /\ \A r \in runs' : r \in runs \/
                 /\ r.job \in S /\ r.proc = p /\ r.phase = "fetched"
                 /\ r.claim = claims'[r.job] /\ r.attempt = jobs'[r.job].attempt
           /\ \A j \in S : \E r \in runs' :
                 r.job = j /\ r.proc = p /\ r.claim = claims'[j]
           /\ \A r, s \in runs' \ runs : r.job = s.job => r = s
           /\ \A j \in S : /\ claims'[j] = claims[j] + 1
                           /\ jobs'[j].state = "running" /\ jobs'[j].worker_id = p
           /\ \A j \in Job \ S : claims'[j] = claims[j] /\ jobs'[j] = jobs[j]
<1> DEFINE new(j) == [job |-> j, claim |-> claims[j] + 1, proc |-> p,
                      attempt |-> jobs[j].attempt + 1,
                      phase |-> "fetched", verdict |-> "none"]
<1>1. runs' = runs \cup {new(j) : j \in S}
      BY DEF claim_batch
<1>2. \A j \in S : /\ claims'[j] = claims[j] + 1
                   /\ jobs'[j].attempt = jobs[j].attempt + 1
                   /\ jobs'[j].state = "running" /\ jobs'[j].worker_id = p
      BY DEF claim_batch, ClaimedRow, TypeOK, JobRow
<1>3. \A j \in Job \ S : claims'[j] = claims[j] /\ jobs'[j] = jobs[j]
      BY DEF claim_batch
<1>4. \A j \in S : /\ new(j).job = j /\ new(j).proc = p /\ new(j).phase = "fetched"
                   /\ new(j).claim = claims'[j]
                   /\ new(j).attempt = jobs'[j].attempt
      BY <1>2
<1> HIDE DEF new
<1> QED BY <1>1, <1>2, <1>3, <1>4

\* As long as no process holds a job twice, what passes the gate is current.
LEMMA OwnersStayCurrent ==
    ASSUME TypeOK, Unborn, OwnersAreCurrent, OneRunPerJob', [Next]_vars
    PROVE  OwnersAreCurrent'
<1> SUFFICES ASSUME NEW r \in runs'
             PROVE  /\ r.claim <= claims'[r.job]
                    /\ Owns(r)' => /\ r.claim = claims'[r.job]
                                   /\ r.attempt = jobs'[r.job].attempt
    BY DEF OwnersAreCurrent
<1>0. \A s \in runs : s.job \in Job /\ s.claim \in Nat
      BY DEF TypeOK, Run
<1>1. CASE NoClaim
  <2>1. PICK s \in runs : SameRun(r, s)
        BY <1>1 DEF NoClaim, RunsKept, SameRun
  <2>2. /\ s.claim <= claims[s.job]
        /\ Owns(s) => s.claim = claims[s.job] /\ s.attempt = jobs[s.job].attempt
        BY DEF OwnersAreCurrent
  <2>3. OwnerKept(s.job) /\ claims' = claims
        BY <1>0, <1>1 DEF NoClaim
  <2>4. ASSUME Owns(r)'
        PROVE  Owns(s) /\ jobs'[s.job].attempt = jobs[s.job].attempt
    <3>1. ~GivenUp(s.job)
          BY <1>0, <2>1, <2>4, RecoveredFields
          DEF GivenUp, GivenUpBy, Owns, SameRun, Terminal
    <3> QED BY <2>1, <2>3, <2>4, <3>1 DEF SameRun, OwnerKept, Owns
  <2> QED BY <2>1, <2>2, <2>3, <2>4 DEF SameRun
<1>2. ASSUME NEW p \in Proc, NEW S \in SUBSET Job, claim_batch(p, S)
      PROVE  /\ r.claim <= claims'[r.job]
             /\ Owns(r)' => /\ r.claim = claims'[r.job]
                            /\ r.attempt = jobs'[r.job].attempt
  <2>1. /\ r \in runs \/
              /\ r.job \in S /\ r.proc = p /\ r.phase = "fetched"
              /\ r.claim = claims'[r.job] /\ r.attempt = jobs'[r.job].attempt
        /\ \A j \in S : \E s \in runs' :
              s.job = j /\ s.proc = p /\ s.claim = claims'[j]
        /\ \A j \in S : claims'[j] = claims[j] + 1 /\ jobs'[j].worker_id = p
        /\ \A j \in Job \ S : claims'[j] = claims[j] /\ jobs'[j] = jobs[j]
        BY <1>2, ClaimedRuns
  <2>2. CASE r \notin runs
    <3>1. r.claim = claims'[r.job] /\ claims'[r.job] \in Nat
      <4>1. r.claim = claims'[r.job] /\ r.job \in S
            BY <2>1, <2>2
      <4> QED BY <2>1, <4>1 DEF TypeOK
    <3> QED BY <2>1, <2>2, <3>1
  <2>3. CASE r \in runs /\ r.job \notin S
        BY <1>0, <2>1, <2>3 DEF OwnersAreCurrent, Owns
  <2>4. CASE r \in runs /\ r.job \in S
    <3>1. r.claim <= claims'[r.job] /\ r.claim # claims'[r.job]
      <4>1. /\ r.claim \in Nat /\ claims[r.job] \in Nat /\ r.claim <= claims[r.job]
            /\ claims'[r.job] = claims[r.job] + 1
            BY <1>0, <2>1, <2>4 DEF OwnersAreCurrent, TypeOK
      <4> QED BY <4>1
    <3>2. ~Owns(r)'
      <4>1. PICK s \in runs' : s.job = r.job /\ s.proc = p /\ s.claim = claims'[r.job]
            BY <2>1, <2>4
      <4>2. ASSUME r.proc = p
            PROVE  FALSE
        <5>1. r = s
              BY <4>1, <4>2 DEF OneRunPerJob
        <5> QED BY <3>1, <4>1, <5>1
      <4> QED BY <2>1, <2>4, <4>2 DEF Owns
    <3> QED BY <3>1, <3>2
  <2> QED BY <2>2, <2>3, <2>4
<1> QED BY <1>1, <1>2, ClaimOrNoClaim

\* Under that condition the gate lets through only the current claim of a job.
LEMMA OwnersCurrent == Spec /\ []OneRunPerJob => []OwnersAreCurrent
<1>1. Init => OwnersAreCurrent
      BY DEF Init, OwnersAreCurrent
<1>2. RowInv /\ OneRunPerJob' /\ OwnersAreCurrent /\ [Next]_vars => OwnersAreCurrent'
      BY OwnersStayCurrent DEF RowInv
<1> QED BY <1>1, <1>2, RowInvariant, PTL DEF Spec

\* A run that leaves the memory of a process while it settles is the run whose
\* verdict the step applies or drops.
LEMMA SettlingRunsLeave ==
    ASSUME [Next]_vars, NEW r \in runs \ runs', r.phase = "settling",
           jobs' # jobs
    PROVE  Owns(r)
<1>1. ASSUME NEW s \in runs, WorkerStep(s)
      PROVE  Owns(r)
  <2>1. runs \ {s} \subseteq runs'
        BY <1>1 DEF WorkerStep, Dispatch, StartHandler, FinishHandler, Settle,
           mark_completed, mark_failed_retry, mark_failed_terminal, DropVerdict,
           Advance
  <2>2. s = r
        BY <2>1
  <2> QED BY <1>1, <2>2 DEF WorkerStep, Dispatch, StartHandler, FinishHandler,
             Settle, mark_completed, mark_failed_retry, mark_failed_terminal,
             DropVerdict, tables
<1>2. CASE Shutdown
      BY <1>2 DEF Shutdown, shutdown_with, LastClaimEmpty, DrainClean, abort_all,
         Aborted, reclaim_in_flight, ReclaimFails, Crash, tables
<1>3. CASE Producer
      BY <1>3 DEF Producer, enqueue_dyn, materialize_from_rule, enqueue_many_dyn,
         enqueue_batch, cancel
<1>4. CASE Operator \/ Clock
      BY <1>4 DEF Operator, Clock, set_concurrency, set_paused, BecomeDue,
         HeartbeatExpires
<1>5. CASE Process
      BY <1>1, <1>5 DEF Process, claim_batch, update_heartbeat_batch, sweep_stale
<1> QED BY <1>2, <1>3, <1>4, <1>5 DEF Next, vars

\* A verdict is applied to its own claim and to no later one, in every
\* behaviour in which no process holds a job twice (fetch.rs, mark_completed
\* and mark_failed: WHERE state = 'running' AND worker_id = $2).
THEOREM VerdictsMeetTheirClaim == Spec /\ []OneRunPerJob => VerdictForOwnClaim
<1>1. RowInv /\ OwnersAreCurrent /\ [Next]_vars =>
          [\A r \in runs \ runs' :
              r.phase = "settling" /\ jobs'[r.job] # jobs[r.job] =>
                  r.claim = claims[r.job]]_vars
  <2> SUFFICES ASSUME OwnersAreCurrent, [Next]_vars, NEW r \in runs \ runs',
                      r.phase = "settling", jobs'[r.job] # jobs[r.job]
               PROVE  r.claim = claims[r.job]
      OBVIOUS
  <2>1. Owns(r)
        BY SettlingRunsLeave
  <2> QED BY <2>1 DEF OwnersAreCurrent
<1> QED BY <1>1, OwnersCurrent, RowInvariant, PTL DEF Spec, VerdictForOwnClaim

-----------------------------------------------------------------------------
(* Attempts.                                                               *)

\* A pending job has an attempt left.
AttemptsLeft ==
    \A j \in Job : /\ jobs[j].attempt <= MaxAttempts[j]
                   /\ jobs[j].state \in {"absent", "pending"} =>
                          jobs[j].attempt < MaxAttempts[j]

\* Claims and retries stay within the budget when the owner of a row knows its
\* attempt.
LEMMA AttemptsStayLeft ==
    ASSUME RowInv, OwnersAreCurrent, AttemptsLeft, [Next]_vars,
           "retry" \notin Verdicts, \A j \in Job : MaxAttempts[j] > 0
    PROVE  AttemptsLeft'
<1> SUFFICES ASSUME NEW j \in Job
             PROVE  /\ jobs'[j].attempt <= MaxAttempts[j]
                    /\ jobs'[j].state \in {"absent", "pending"} =>
                           jobs'[j].attempt < MaxAttempts[j]
    BY DEF AttemptsLeft
<1>1. /\ jobs[j].attempt \in Nat /\ MaxAttempts[j] \in Nat
      /\ jobs[j].attempt <= MaxAttempts[j]
      /\ jobs[j].state \in {"absent", "pending"} => jobs[j].attempt < MaxAttempts[j]
      /\ jobs[j].state = "running" => jobs[j].attempt > 0
      BY ConstantsAssumption
      DEF AttemptsLeft, RowInv, TypeOK, JobRow, RowsCharged
<1>2. RowStep(j) /\ TypeOK /\ Unborn
      BY NextSteps DEF RowInv, Steps
<1>3. CASE Kept(j)
      BY <1>1, <1>3 DEF Kept
<1>4. CASE Enters(j)
      BY <1>1, <1>4 DEF Enters
<1>5. CASE IsClaimed(j)
      BY <1>1, <1>5 DEF IsClaimed
<1>6. CASE IsRecovered(j)
      BY <1>1, <1>2, <1>6, RecoveredFields DEF IsRecovered
<1>7. CASE Settles(j)
  <2>1. CASE jobs'[j].state \notin {"absent", "pending"}
        BY <1>1, <1>7, <2>1 DEF Settles
  <2>2. CASE jobs'[j].state \in {"absent", "pending"}
    <3>1. /\ jobs[j].state = "running" /\ jobs'[j].state = "pending"
          /\ jobs'[j].attempt = jobs[j].attempt
          BY <1>7, <2>2 DEF Settles
    <3>2. GivenUp(j)
      <4>1. ASSUME NEW p \in Proc, NEW S \in SUBSET Job, claim_batch(p, S)
            PROVE  FALSE
        <5>1. j \notin S
              BY <3>1, <4>1 DEF claim_batch, Claimable
        <5> QED BY <3>1, <4>1, <5>1 DEF claim_batch
      <4> QED BY <1>2, <3>1, <4>1, ClaimOrNoClaim DEF NoClaim, OwnerKept
    <3>3. jobs'[j] # RecoveredRow(j)
          BY <1>1, <1>2, <3>1, RecoveredFields
    <3>4. PICK r \in runs : r.job = j /\ retry_schedule(r) /\ Owns(r)
          BY <3>1, <3>2, <3>3 DEF GivenUp, GivenUpBy, Terminal
    <3>5. r.attempt = jobs[j].attempt /\ r.verdict # "retry"
      <4>1. r \in Run
            BY <1>2 DEF TypeOK
      <4> QED BY <3>4, <4>1 DEF OwnersAreCurrent, Run
    <3>6. r.attempt < MaxAttempts[j]
          BY <3>4, <3>5 DEF retry_schedule
    <3> QED BY <1>1, <3>1, <3>5, <3>6
  <2> QED BY <2>1, <2>2
<1> QED BY <1>2, <1>3, <1>4, <1>5, <1>6, <1>7 DEF RowStep

\* No claim goes beyond max_attempts, where handlers do not ask for retries of
\* their own (a retry directive ignores the budget), a job may be tried at all,
\* and no process holds a job twice (runtime.rs:482-498, 785-790).
THEOREM AttemptsStayBounded ==
    ASSUME "retry" \notin Verdicts, \A j \in Job : MaxAttempts[j] > 0
    PROVE  Spec /\ []OneRunPerJob => []AttemptsBounded
<1>1. Init => AttemptsLeft
  <2> SUFFICES ASSUME Init
               PROVE  AttemptsLeft
      OBVIOUS
  <2>1. \A j \in Job : jobs[j].attempt = 0 /\ MaxAttempts[j] \in Nat
        BY ConstantsAssumption DEF Init, NoRow
  <2> QED BY <2>1 DEF AttemptsLeft
<1>2. RowInv /\ OwnersAreCurrent /\ AttemptsLeft /\ [Next]_vars => AttemptsLeft'
      BY AttemptsStayLeft
<1>3. AttemptsLeft => AttemptsBounded
      BY DEF AttemptsLeft, AttemptsBounded
<1> QED BY <1>1, <1>2, <1>3, RowInvariant, OwnersCurrent, PTL DEF Spec

-----------------------------------------------------------------------------
(* Heartbeats.                                                             *)

Held(r) == r.phase \in {"queued", "executing"}

\* Every held job is in the in-flight set, whatever became of its row.
InFlight ==
    \A r \in runs : Held(r) /\ mode[r.proc] = "up" => r.job \in in_flight[r.proc]

\* What a step does to the in-flight sets and to the runs that are held: a
\* fetched job is dispatched, a handler starts or finishes, a process stops,
\* or neither the sets nor the held runs change.
LEMMA HeldSteps ==
    ASSUME TypeOK, [Next]_vars
    PROVE  \/ \E r \in runs : Dispatch(r) \/ StartHandler(r) \/ FinishHandler(r)
           \/ \E p \in Proc : DrainClean(p) \/ abort_all(p) \/ Crash(p)
           \/ /\ in_flight' = in_flight
              /\ {r \in runs : Held(r)} = {r \in runs' : Held(r)}
              /\ \A p \in Proc : mode'[p] = "up" => mode[p] = "up"
<1>1. ASSUME NEW p \in Proc, NEW S \in SUBSET Job, claim_batch(p, S)
      PROVE  /\ in_flight' = in_flight
             /\ {r \in runs : Held(r)} = {r \in runs' : Held(r)}
             /\ \A q \in Proc : mode'[q] = "up" => mode[q] = "up"
  <2>1. /\ runs \subseteq runs'
        /\ \A r \in runs' : r \in runs \/ r.phase = "fetched"
        BY <1>1, ClaimedRuns
  <2>2. {r \in runs : Held(r)} = {r \in runs' : Held(r)}
        BY <2>1 DEF Held
  <2>3. \A q \in Proc : mode'[q] = "up" => mode[q] = "up"
        BY <1>1 DEF claim_batch, TypeOK
  <2> QED BY <1>1, <2>2, <2>3 DEF claim_batch
<1>2. ASSUME NEW r \in runs, Settle(r) \/ DropVerdict(r)
      PROVE  /\ in_flight' = in_flight
             /\ {s \in runs : Held(s)} = {s \in runs' : Held(s)}
             /\ mode' = mode
  <2>1. runs' = runs \ {r} /\ r.phase = "settling"
        BY <1>2 DEF Settle, mark_completed, mark_failed_retry,
           mark_failed_terminal, DropVerdict
  <2>2. in_flight' = in_flight /\ mode' = mode
        BY <1>2 DEF Settle, mark_completed, mark_failed_retry,
           mark_failed_terminal, DropVerdict, procVars
  <2> QED BY <2>1, <2>2 DEF Held
<1>3. CASE Producer \/ Operator \/ Clock
  <2>1. UNCHANGED <<runs, procVars>>
        BY <1>3 DEF Producer, Operator, Clock, enqueue_dyn, materialize_from_rule,
           enqueue_many_dyn, enqueue_batch, cancel, set_concurrency, set_paused,
           BecomeDue, HeartbeatExpires
  <2> QED BY <2>1 DEF procVars
<1>4. CASE Process
  <2>1. CASE sweep_stale \/ \E p \in Proc : update_heartbeat_batch(p)
        BY <2>1 DEF sweep_stale, update_heartbeat_batch, procVars
  <2> QED BY <1>1, <1>2, <1>4, <2>1 DEF Process, WorkerStep
<1>5. ASSUME NEW p \in Proc, shutdown_with(p) \/ LastClaimEmpty(p)
                             \/ reclaim_in_flight(p) \/ ReclaimFails(p)
      PROVE  /\ in_flight' = in_flight /\ runs' = runs
             /\ \A q \in Proc : mode'[q] = "up" => mode[q] = "up"
  <2>1. in_flight' = in_flight /\ runs' = runs
        BY <1>5 DEF shutdown_with, LastClaimEmpty, reclaim_in_flight, ReclaimFails
  <2>2. \E m \in {"cancelled", "draining", "down"} : mode' = [mode EXCEPT ![p] = m]
        BY <1>5 DEF shutdown_with, LastClaimEmpty, reclaim_in_flight, ReclaimFails
  <2> QED BY <2>1, <2>2 DEF TypeOK
<1>6. CASE UNCHANGED vars
      BY <1>6 DEF vars
<1> QED BY <1>3, <1>4, <1>5, <1>6 DEF Next, Shutdown

\* The fields of a run that moved on.
LEMMA AdvancedFields ==
    ASSUME TypeOK, NEW r \in runs, NEW phase, NEW v
    PROVE  LET t == [r EXCEPT !.phase = phase, !.verdict = v] IN
           t.phase = phase /\ t.job = r.job /\ t.proc = r.proc
<1>1. r \in Run
      BY DEF TypeOK
<1> QED BY <1>1 DEF Run

\* An id is in the in-flight set only while some run of that job is held.
LEMMA OnlyHeldStays ==
    ASSUME TypeOK, HeartbeatsOnlyHeldJobs, [Next]_vars
    PROVE  HeartbeatsOnlyHeldJobs'
<1> DEFINE Holds(R, p, j) == \E r \in R : r.proc = p /\ r.job = j /\ Held(r)
<1> SUFFICES ASSUME NEW p \in Proc, NEW j \in in_flight'[p]
             PROVE  Holds(runs', p, j)
    BY DEF HeartbeatsOnlyHeldJobs, Held, RunsOf
<1>1. j \in in_flight[p] => Holds(runs, p, j)
      BY DEF HeartbeatsOnlyHeldJobs, Held, RunsOf
<1>2. ASSUME NEW r \in runs, Dispatch(r)
      PROVE  Holds(runs', p, j)
  <2> DEFINE t == [r EXCEPT !.phase = "queued", !.verdict = "none"]
  <2>1. /\ runs' = (runs \ {r}) \cup {t} /\ r.phase = "fetched" /\ r.proc \in Proc
        /\ in_flight' = [in_flight EXCEPT ![r.proc] = in_flight[r.proc] \cup {r.job}]
        BY <1>2 DEF Dispatch, Advance, TypeOK, Run
  <2>2. t.phase = "queued" /\ t.job = r.job /\ t.proc = r.proc
        BY AdvancedFields
  <2> HIDE DEF t
  <2>3. CASE j \in in_flight[p]
        BY <1>1, <2>1, <2>3 DEF Held
  <2>4. CASE j \notin in_flight[p]
        BY <2>1, <2>2, <2>4 DEF Held, TypeOK
  <2> QED BY <2>3, <2>4
<1>3. ASSUME NEW r \in runs, StartHandler(r)
      PROVE  Holds(runs', p, j)
  <2> DEFINE t == [r EXCEPT !.phase = "executing", !.verdict = "none"]
  <2>1. runs' = (runs \ {r}) \cup {t} /\ in_flight' = in_flight
        BY <1>3 DEF StartHandler, Advance, procVars
  <2>2. t.phase = "executing" /\ t.job = r.job /\ t.proc = r.proc
        BY AdvancedFields
  <2> HIDE DEF t
  <2> QED BY <1>1, <2>1, <2>2 DEF Held
<1>4. ASSUME NEW r \in runs, FinishHandler(r)
      PROVE  Holds(runs', p, j)
  <2>1. /\ runs \ {r} \subseteq runs' /\ r.proc \in Proc
        /\ in_flight' = [in_flight EXCEPT ![r.proc] = in_flight[r.proc] \ {r.job}]
        BY <1>4 DEF FinishHandler, Advance, TypeOK, Run
  <2>2. j \in in_flight[p] /\ (p = r.proc => j # r.job)
        BY <2>1 DEF TypeOK
  <2>3. PICK s \in runs : s.proc = p /\ s.job = j /\ Held(s)
        BY <1>1, <2>2
  <2> QED BY <2>1, <2>2, <2>3
<1>5. ASSUME NEW q \in Proc, DrainClean(q) \/ abort_all(q) \/ Crash(q)
      PROVE  Holds(runs', p, j)
  <2>1. in_flight' = [in_flight EXCEPT ![q] = {}] /\ runs \ RunsOf(q) \subseteq runs'
        BY <1>5 DEF DrainClean, abort_all, Crash, Aborted, RunsOf
  <2>2. p # q /\ j \in in_flight[p]
        BY <2>1 DEF TypeOK
  <2> QED BY <1>1, <2>1, <2>2 DEF RunsOf
<1>6. CASE /\ in_flight' = in_flight
           /\ {r \in runs : Held(r)} = {r \in runs' : Held(r)}
      BY <1>1, <1>6
<1> HIDE DEF Holds
<1> QED BY <1>2, <1>3, <1>4, <1>5, <1>6, HeldSteps

\* A held job stays in the in-flight set: the guard that removes it is the one
\* of its own run.
LEMMA InFlightStays ==
    ASSUME TypeOK, OneRunPerJob, InFlight, [Next]_vars
    PROVE  InFlight'
<1> SUFFICES ASSUME NEW r \in runs', Held(r), mode'[r.proc] = "up"
             PROVE  r.job \in in_flight'[r.proc]
    BY DEF InFlight, Held
<1>1. \A s \in runs : Held(s) /\ mode[s.proc] = "up" => s.job \in in_flight[s.proc]
      BY DEF InFlight
<1>2. \A s \in runs : s.proc \in Proc /\ s.job \in Job
      BY DEF TypeOK, Run
<1>3. ASSUME NEW s \in runs, Dispatch(s)
      PROVE  r.job \in in_flight'[r.proc]
  <2> DEFINE t == [s EXCEPT !.phase = "queued", !.verdict = "none"]
  <2>1. /\ runs' = (runs \ {s}) \cup {t} /\ mode' = mode
        /\ in_flight' = [in_flight EXCEPT ![s.proc] = in_flight[s.proc] \cup {s.job}]
        BY <1>3 DEF Dispatch, Advance
  <2>2. t.job = s.job /\ t.proc = s.proc
        BY AdvancedFields
  <2> HIDE DEF t
  <2> QED BY <1>1, <1>2, <2>1, <2>2 DEF TypeOK
<1>4. ASSUME NEW s \in runs, StartHandler(s)
      PROVE  r.job \in in_flight'[r.proc]
  <2> DEFINE t == [s EXCEPT !.phase = "executing", !.verdict = "none"]
  <2>1. /\ runs' = (runs \ {s}) \cup {t} /\ mode' = mode /\ in_flight' = in_flight
        /\ s.phase = "queued"
        BY <1>4 DEF StartHandler, Advance, procVars
  <2>2. t.job = s.job /\ t.proc = s.proc
        BY AdvancedFields
  <2> HIDE DEF t
  <2> QED BY <1>1, <2>1, <2>2 DEF Held
<1>5. ASSUME NEW s \in runs, FinishHandler(s)
      PROVE  r.job \in in_flight'[r.proc]
  <2>1. PICK v : Advance(s, "settling", v)
        BY <1>5 DEF FinishHandler
  <2> DEFINE t == [s EXCEPT !.phase = "settling", !.verdict = v]
  <2>2. /\ runs' = (runs \ {s}) \cup {t} /\ mode' = mode
        /\ in_flight' = [in_flight EXCEPT ![s.proc] = in_flight[s.proc] \ {s.job}]
        BY <1>5, <2>1 DEF FinishHandler, Advance
  <2>3. t.phase = "settling"
        BY AdvancedFields
  <2> HIDE DEF t
  <2>4. r \in runs /\ r # s
        BY <2>2, <2>3 DEF Held
  <2>5. r.proc # s.proc \/ r.job # s.job
        BY <2>4 DEF OneRunPerJob
  <2> QED BY <1>1, <1>2, <2>2, <2>4, <2>5 DEF TypeOK
<1>6. ASSUME NEW q \in Proc, DrainClean(q) \/ abort_all(q) \/ Crash(q)
      PROVE  r.job \in in_flight'[r.proc]
  <2>1. /\ in_flight' = [in_flight EXCEPT ![q] = {}] /\ runs' \subseteq runs
        /\ \E m \in {"down", "reclaiming"} : mode' = [mode EXCEPT ![q] = m]
        BY <1>6 DEF DrainClean, abort_all, Crash
  <2> QED BY <1>1, <1>2, <2>1 DEF TypeOK
<1>7. CASE /\ in_flight' = in_flight
           /\ {s \in runs : Held(s)} = {s \in runs' : Held(s)}
           /\ \A p \in Proc : mode'[p] = "up" => mode[p] = "up"
      BY <1>1, <1>2, <1>7
<1> QED BY <1>3, <1>4, <1>5, <1>6, <1>7, HeldSteps

\* A process never heartbeats a job it does not hold: no leftover id keeps an
\* abandoned row fresh (runtime.rs:317, 454).
THEOREM HeartbeatsAreOfHeldJobs == Spec => []HeartbeatsOnlyHeldJobs
<1>1. Init => HeartbeatsOnlyHeldJobs
      BY DEF Init, HeartbeatsOnlyHeldJobs
<1>2. TypeOK /\ HeartbeatsOnlyHeldJobs /\ [Next]_vars => HeartbeatsOnlyHeldJobs'
      BY OnlyHeldStays
<1> QED BY <1>1, <1>2, TypeCorrect, PTL DEF Spec

\* A process heartbeats exactly the jobs it holds, in every behaviour in which
\* no process holds a job twice (runtime.rs:317, 454).
THEOREM HeartbeatsAreExact == Spec /\ []OneRunPerJob => []HeartbeatsExact
<1>1. Init => InFlight
      BY DEF Init, InFlight
<1>2. TypeOK /\ OneRunPerJob /\ InFlight /\ [Next]_vars => InFlight'
      BY InFlightStays
<1>3. InFlight /\ HeartbeatsOnlyHeldJobs => HeartbeatsExact
      BY DEF InFlight, Held, HeartbeatsExact, HeldJobsAreHeartbeaten
<1> QED BY <1>1, <1>2, <1>3, TypeCorrect, HeartbeatsAreOfHeldJobs, PTL DEF Spec

-----------------------------------------------------------------------------
(***************************************************************************)
(* When a process holds no job twice, for any number of worker tasks: as   *)
(* long as sweeps and reclaims take no job from a process that still holds *)
(* it and still claims.                                                    *)
(***************************************************************************)

\* The fetcher of the process may still commit a claim.
Claiming(p) == mode[p] \in {"up", "cancelled"}

\* A step that charges a stall takes a job that its worker has dropped, or
\* whose worker has claimed for the last time: heartbeats arrive in time, and
\* shutdown steals nothing.
TakesOnlyLost ==
    \A j \in Job : jobs'[j].stalled_count # jobs[j].stalled_count =>
        \A r \in runs : r.job = j /\ r.proc = jobs[j].worker_id => ~Claiming(r.proc)

OnlyLostJobsAreTaken == [][TakesOnlyLost]_vars

\* No process holds a job twice, and one that may claim again holds only jobs
\* whose row is its own.
Exclusive ==
    /\ OneRunPerJob
    /\ \A r \in runs : Claiming(r.proc) => Owns(r)

\* A process that has stopped claiming does not claim again.
LEMMA ClaimingEnds ==
    ASSUME TypeOK, [Next]_vars, NEW p \in Proc, Claiming(p)'
    PROVE  Claiming(p)
<1>1. CASE mode' = mode
      BY <1>1 DEF Claiming
<1>2. ASSUME NEW q \in Proc, NEW S \in SUBSET Job, claim_batch(q, S)
      PROVE  Claiming(p)
      BY <1>2 DEF claim_batch, Claiming, TypeOK
<1>3. CASE Shutdown
  <2>1. PICK q \in Proc, m \in {"cancelled", "draining", "reclaiming", "down"} :
            mode' = [mode EXCEPT ![q] = m] /\ (m = "cancelled" => mode[q] = "up")
        BY <1>3 DEF Shutdown, shutdown_with, LastClaimEmpty, DrainClean,
           abort_all, reclaim_in_flight, ReclaimFails, Crash
  <2> QED BY <2>1 DEF Claiming, TypeOK
<1>4. CASE Producer \/ Operator \/ Clock \/ UNCHANGED vars
      BY <1>1, <1>4 DEF Producer, Operator, Clock, enqueue_dyn,
         materialize_from_rule, enqueue_many_dyn, enqueue_batch, cancel,
         set_concurrency, set_paused, BecomeDue, HeartbeatExpires, procVars, vars
<1>5. CASE \/ \E r \in runs : WorkerStep(r)
           \/ sweep_stale \/ \E q \in Proc : update_heartbeat_batch(q)
      BY <1>1, <1>5 DEF WorkerStep, Dispatch, StartHandler, FinishHandler, Settle,
         mark_completed, mark_failed_retry, mark_failed_terminal, DropVerdict,
         sweep_stale, update_heartbeat_batch, procVars
<1> QED BY <1>2, <1>3, <1>4, <1>5 DEF Next, Process

\* A claim takes pending rows, and what a claiming process holds is running.
LEMMA ClaimKeepsExclusive ==
    ASSUME TypeOK, Exclusive, [Next]_vars,
           NEW p \in Proc, NEW S \in SUBSET Job, claim_batch(p, S)
    PROVE  Exclusive'
<1>1. /\ \A r \in runs' : r \in runs \/ (r.job \in S /\ r.proc = p)
      /\ \A r, s \in runs' \ runs : r.job = s.job => r = s
      /\ \A j \in S : jobs'[j].state = "running" /\ jobs'[j].worker_id = p
      /\ \A j \in Job \ S : jobs'[j] = jobs[j]
      BY ClaimedRuns
<1>2. \A j \in S : jobs[j].state = "pending"
      BY DEF claim_batch, Claimable
<1>3. \A r \in runs : r.job \in Job /\ r.proc \in Proc
      BY DEF TypeOK, Run
<1>4. ASSUME NEW r \in runs, Claiming(r.proc)
      PROVE  r.job \notin S /\ Owns(r)
      BY <1>2, <1>4 DEF Exclusive, Owns
<1>5. Claiming(p)
      BY DEF claim_batch, Claiming
<1>6. ASSUME NEW r \in runs', Claiming(r.proc)'
      PROVE  Owns(r)'
  <2>1. CASE r \in runs
    <3>1. Claiming(r.proc)
          BY <1>3, <1>6, <2>1, ClaimingEnds
    <3>2. r.job \notin S /\ Owns(r) /\ r.job \in Job
          BY <1>3, <1>4, <2>1, <3>1
    <3> QED BY <1>1, <3>2 DEF Owns
  <2>2. CASE r \notin runs
        BY <1>1, <1>6, <2>2 DEF Owns
  <2> QED BY <2>1, <2>2
<1>7. ASSUME NEW r \in runs', NEW s \in runs', r.job = s.job, r.proc = s.proc
      PROVE  r = s
      BY <1>1, <1>4, <1>5, <1>7 DEF Exclusive, OneRunPerJob
<1> QED BY <1>6, <1>7 DEF Exclusive, OneRunPerJob

\* Any other step gives up a row only for the one run that settles it, or takes
\* it from a process that has lost it.
LEMMA ExclusiveStays ==
    ASSUME TypeOK, Unborn, Exclusive, [Next]_vars, TakesOnlyLost \/ UNCHANGED vars
    PROVE  Exclusive'
<1>1. CASE NoClaim
  <2>1. OneRunPerJob'
        BY <1>1 DEF NoClaim, RunsKept, SameRun, Exclusive, OneRunPerJob
  <2>2. ASSUME NEW r \in runs', Claiming(r.proc)'
        PROVE  Owns(r)'
    <3>1. PICK s \in runs : SameRun(r, s)
          BY <1>1 DEF NoClaim, RunsKept, SameRun
    <3>2. s.job \in Job /\ s.proc \in Proc
          BY DEF TypeOK, Run
    <3>3. Claiming(s.proc) /\ Owns(s)
      <4>1. Claiming(s.proc)
            BY <2>2, <3>1, <3>2, ClaimingEnds DEF SameRun
      <4> QED BY <4>1 DEF Exclusive
    <3>4. OwnerKept(s.job)
          BY <1>1, <3>2 DEF NoClaim
    <3>5. jobs'[s.job] # RecoveredRow(s.job)
      <4>1. ASSUME jobs'[s.job] = RecoveredRow(s.job)
            PROVE  FALSE
        <5>1. /\ jobs[s.job].stalled_count \in Nat
              /\ jobs'[s.job].stalled_count = jobs[s.job].stalled_count + 1
              BY <3>2, <4>1, RecoveredFields DEF TypeOK, JobRow
        <5>2. jobs'[s.job].stalled_count # jobs[s.job].stalled_count
              BY <5>1
        <5>3. TakesOnlyLost
              BY <5>2 DEF vars
        <5> QED BY <3>2, <3>3, <5>2, <5>3 DEF TakesOnlyLost, Owns
      <4> QED BY <4>1
    <3>6. ASSUME NEW t \in runs, GivenUpBy(t, s.job)
          PROVE  FALSE
      <4>1. t.job = s.job /\ t.proc = s.proc /\ runs' = runs \ {t}
            BY <3>3, <3>6 DEF GivenUpBy, Owns
      <4> QED BY <3>1, <4>1 DEF Exclusive, OneRunPerJob, SameRun
    <3> QED BY <3>1, <3>3, <3>4, <3>5, <3>6 DEF OwnerKept, GivenUp, Owns, SameRun
  <2> QED BY <2>1, <2>2 DEF Exclusive
<1> QED BY <1>1, ClaimKeepsExclusive, ClaimOrNoClaim

\* With any number of worker tasks, no process holds a job twice unless a sweep
\* or a shutdown takes a job from a process that still runs it
\* (fetch.rs:1028-1100, 1162-1200; runtime.rs:249).
THEOREM OneRunUnlessTaken == Spec /\ OnlyLostJobsAreTaken => []OneRunPerJob
<1>1. Init => Exclusive
      BY DEF Init, Exclusive, OneRunPerJob
<1>2. RowInv /\ Exclusive /\ [Next]_vars /\ [TakesOnlyLost]_vars => Exclusive'
      BY ExclusiveStays DEF RowInv
<1>3. Exclusive => OneRunPerJob
      BY DEF Exclusive
<1> QED BY <1>1, <1>2, <1>3, RowInvariant, PTL DEF Spec, OnlyLostJobsAreTaken

\* With any number of worker tasks, crashes, lost verdicts and sweeps of what
\* was lost do no harm: a verdict only ever settles the claim it is about, and
\* heartbeats are exact, unless a sweep or a shutdown takes a job from a process
\* that still runs it (fetch.rs:939, runtime.rs:249, 454).
THEOREM SafeUnlessTaken ==
    Spec /\ OnlyLostJobsAreTaken => VerdictForOwnClaim /\ []HeartbeatsExact
BY OneRunUnlessTaken, VerdictsMeetTheirClaim, HeartbeatsAreExact, PTL
=============================================================================
