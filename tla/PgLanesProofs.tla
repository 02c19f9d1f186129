--------------------------- MODULE PgLanesProofs ---------------------------
(***************************************************************************)
(* The concurrency budgets of the Postgres backend.  The counter of a lane *)
(* is written by whoever holds the row lock, at its commit.  The invariant *)
(* says which locks every transaction holds at each of its steps and what  *)
(* it still has to lock before it commits; from it follow that counters    *)
(* are exact and that caps hold.                                           *)
(***************************************************************************)
EXTENDS PgLanes, FiniteSetTheorems, TLAPS

\* A lane whose counter is exact: a group, or a queue that had its row before
\* any job.  A queue row made while claims are under way misses them.
Sound(l) == l \in Group \/ InitialCap[l] # NoCap

\* Who holds the row of a job, and in which states that is possible.
JobInv(j) ==
    /\ jobLock[j] \in Fetcher \cup {j, Free}
    /\ jobLock[j] \in Fetcher => /\ jobs[j] = "pending"
                                 /\ j \in fetch[jobLock[j]].accepted
    /\ jobLock[j] = j <=> finish[j] # "idle"
    /\ finish[j] # "idle" => jobs[j] = "running"

\* A claim holds the rows it accepted and the lanes it wrote, and has written
\* or will write every sound lane of theirs.
FetchInv(c) ==
    /\ \A j \in fetch[c].accepted : jobLock[j] = c
    /\ fetch[c].pc \in {"idle", "lock queues"} =>
          fetch[c].accepted = {} /\ \A l \in Lane : lock[l] # c
    /\ fetch[c].pc # "write" => fetch[c].written = {}
    /\ \A l \in fetch[c].written : lock[l] = c
    /\ fetch[c].pc = "write" =>
          \A l \in Lane : Sound(l) /\ fetch[c].accepted \cap JobsOf(l) # {} =>
                              l \in fetch[c].todo \cup fetch[c].written

\* A settling transaction holds lanes of its job only, and each sound one from
\* the statement that updates it on.
FinishInv(j) ==
    /\ \A l \in Lane : lock[l] = j => finish[j] # "idle" /\ j \in JobsOf(l)
    /\ finish[j] \in {"queue", "commit"} /\ GroupOf[j] \in Group =>
          lock[GroupOf[j]] = j
    /\ finish[j] = "commit" /\ Sound(QueueOf[j]) => lock[QueueOf[j]] = j

\* Committed rows: no row counts nothing, a sound one counts what runs.
RowInv(l) ==
    /\ ~lanes[l].row => lanes[l].running_count = 0
    /\ Sound(l) => lanes[l].running_count = Cardinality(Running(l))
    /\ InitialCap[l] # NoCap => lanes[l].row

\* There is nothing to reconcile in a sound lane.
ReconcileInv(l) == Sound(l) => l \notin reconcile.todo /\ lock[l] # Reconciler

LaneInv ==
    /\ TypeOK
    /\ \A j \in Job : JobInv(j) /\ FinishInv(j)
    /\ \A c \in Fetcher : FetchInv(c)
    /\ \A l \in Lane : RowInv(l) /\ ReconcileInv(l)

\* What a fetcher may still claim in a lane with a cap.
Within(c, l) ==
    /\ fetch[c].pc = "lock queues" => l \in fetch[c].binding \/ fetch[c].budget[l] = 0
    /\ fetch[c].pc \notin {"idle", "lock queues"} =>
          \/ /\ lock[l] = c
             /\ lanes[l].running_count + Cardinality(fetch[c].accepted \cap JobsOf(l))
                  + fetch[c].budget[l] <= InitialCap[l]
          \/ fetch[c].budget[l] = 0 /\ fetch[c].accepted \cap JobsOf(l) = {}

CapInv ==
    \A l \in Lane : InitialCap[l] # NoCap =>
        /\ lanes[l].max_concurrency = InitialCap[l] /\ ~lanes[l].paused
        /\ Cardinality(Running(l)) <= InitialCap[l]
        /\ \A c \in Fetcher : Within(c, l)

-----------------------------------------------------------------------------
(* Types.                                                                  *)

FetchState ==
    [pc : {"idle", "lock queues", "ungrouped", "walk groups",
           "lock groups", "check groups", "grouped", "write"},
     binding : SUBSET Queue, keys : SUBSET Group, accepted : SUBSET Job,
     todo : SUBSET Lane, written : SUBSET Lane, budget : [Lane -> Nat]]
LaneRow == [row : BOOLEAN, running_count : Nat, max_concurrency : Nat, paused : BOOLEAN]

\* Finite sets of jobs.
LEMMA JobSets ==
    ASSUME NEW S \in SUBSET Job
    PROVE  IsFiniteSet(S) /\ Cardinality(S) \in Nat
BY LaneConstants, FS_Subset, FS_CardinalityType

\* A job without a group is in no group's lane.
LEMMA Ungrouped ==
    ASSUME NEW j \in Job, NEW g \in Group
    PROVE  j \in JobsOf(g) <=> GroupOf[j] = g
BY LaneConstants DEF JobsOf

\* Every job has a lane of its queue, and no other queue.
LEMMA Queued ==
    ASSUME NEW j \in Job, NEW q \in Queue
    PROVE  j \in JobsOf(q) <=> QueueOf[j] = q
BY LaneConstants DEF JobsOf, Lane

\* i32::MAX is a number.
LEMMA UnlimitedType == Unlimited \in Nat
BY SMT DEF Unlimited

\* What a lane row leaves to claim is a number.
LEMMA SlotsType ==
    ASSUME TypeOK, NEW l \in Lane
    PROVE  SlotsOf(l) \in Nat
<1>1. lanes[l] \in LaneRow
      BY DEF TypeOK, LaneRow
<1> QED BY <1>1 DEF SlotsOf, LaneRow

\* A step of one fetcher that writes no committed row keeps the types.
LEMMA FetchTypes ==
    ASSUME TypeOK, NEW c \in Fetcher, NEW f \in FetchState,
           fetch' = [fetch EXCEPT ![c] = f],
           lock' \in [Lane -> Txn \cup {Free}],
           jobLock' \in [Job -> Fetcher \cup Job \cup {Free}],
           UNCHANGED <<jobs, lanes, finish, unmaterialised, reconcile>>
    PROVE  TypeOK'
BY DEF TypeOK, FetchState

\* A transaction that has not begun.
LEMMA NoFetchType == NoFetch \in FetchState
<1>1. [l \in Lane |-> 0] \in [Lane -> Nat]
      OBVIOUS
<1> QED BY <1>1 DEF NoFetch, FetchState

\* Taking and giving back locks.
LEMMA LockTypes ==
    ASSUME TypeOK
    PROVE  /\ \A c \in Fetcher : Unlocked(c) \in [Lane -> Txn \cup {Free}]
           /\ \A c \in Fetcher : JobsUnlocked(c) \in [Job -> Fetcher \cup Job \cup {Free}]
           /\ \A c \in Fetcher : \A L : Locked(L, c) \in [Lane -> Txn \cup {Free}]
           /\ \A c \in Fetcher : \A S : JobsLocked(S, c) \in [Job -> Fetcher \cup Job \cup {Free}]
BY DEF TypeOK, Txn, Unlocked, Locked, JobsLocked, JobsUnlocked

\* A budget after m jobs; an unlimited one stays unlimited.
LEMMA Spend ==
    ASSUME NEW k \in Nat, NEW m \in Nat, m <= k
    PROVE  (IF k = Unlimited THEN k ELSE k - m) \in Nat
<1>1. k - m \in Nat
      OBVIOUS
<1> QED BY <1>1

\* The jobs S are accepted within the budgets of the lanes they are in.
LEMMA AcceptTypes ==
    ASSUME TypeOK, NEW c \in Fetcher, NEW S \in SUBSET Job,
           NEW pc \in {"walk groups", "write"}, Accept(c, S, pc),
           \A l \in Lane : Cardinality(S \cap JobsOf(l)) <= fetch[c].budget[l],
           UNCHANGED <<jobs, lanes, lock, finish, unmaterialised, reconcile>>
    PROVE  TypeOK'
<1> DEFINE b == [l \in Lane |-> IF fetch[c].budget[l] = Unlimited THEN fetch[c].budget[l]
                                ELSE fetch[c].budget[l] - Cardinality(S \cap JobsOf(l))]
           f == [fetch[c] EXCEPT !.pc = pc, !.accepted = @ \cup S,
                     !.todo = LanesOf(fetch[c].accepted \cup S), !.budget = b]
<1>1. fetch[c] \in FetchState
      BY DEF TypeOK, FetchState
<1>2. b \in [Lane -> Nat]
  <2>1. ASSUME NEW l \in Lane
        PROVE  (IF fetch[c].budget[l] = Unlimited THEN fetch[c].budget[l]
                ELSE fetch[c].budget[l] - Cardinality(S \cap JobsOf(l))) \in Nat
    <3> DEFINE m == Cardinality(S \cap JobsOf(l))
               k == fetch[c].budget[l]
    <3>1. m \in Nat /\ k \in Nat /\ m <= k
          BY <1>1, JobSets DEF FetchState
    <3> HIDE DEF m, k
    <3>2. (IF k = Unlimited THEN k ELSE k - m) \in Nat
          BY <3>1, Spend
    <3> QED BY <3>2 DEF m, k
  <2> QED BY <2>1
<1>3. fetch' = [fetch EXCEPT ![c] = f]
      BY <1>1 DEF Accept, FetchState, TypeOK
<1> HIDE DEF b
<1>4. f \in FetchState
      BY <1>1, <1>2 DEF FetchState, LanesOf
<1> HIDE DEF f
<1>5. jobLock' \in [Job -> Fetcher \cup Job \cup {Free}] /\ lock' \in [Lane -> Txn \cup {Free}]
      BY LockTypes DEF Accept, TypeOK
<1> QED BY <1>3, <1>4, <1>5, FetchTypes

\* The jobs a claim chooses fit the budgets of all their lanes.
LEMMA FitsAll ==
    ASSUME TypeOK, NEW c \in Fetcher, NEW S \in SUBSET Job,
           \/ Fits(c, S, Lane)
           \/ Fits(c, S, Queue) /\ \A j \in S : GroupOf[j] = NoGroup
    PROVE  \A l \in Lane : Cardinality(S \cap JobsOf(l)) <= fetch[c].budget[l]
<1> SUFFICES ASSUME NEW l \in Lane
             PROVE  Cardinality(S \cap JobsOf(l)) <= fetch[c].budget[l]
    OBVIOUS
<1>1. CASE Fits(c, S, Lane)
      BY <1>1 DEF Fits
<1>2. CASE l \in Queue /\ Fits(c, S, Queue)
      BY <1>2 DEF Fits
<1>3. CASE l \in Group /\ \A j \in S : GroupOf[j] = NoGroup
  <2>1. S \cap JobsOf(l) = {}
        BY <1>3, Ungrouped, LaneConstants
  <2>2. Cardinality(S \cap JobsOf(l)) = 0
        BY <2>1, FS_EmptySet
  <2>3. fetch[c].budget[l] \in Nat
    <3>1. fetch[c] \in FetchState
          BY DEF TypeOK, FetchState
    <3> QED BY <3>1 DEF FetchState
  <2> QED BY <2>2, <2>3
<1> QED BY <1>1, <1>2, <1>3 DEF Lane

\* The reads of a claim transaction.
LEMMA ReadTypes ==
    ASSUME TypeOK, NEW c \in Fetcher,
           \/ ReadBudgets(c) \/ LockBudgets(c) \/ WalkGroups(c)
           \/ LockGroups(c) \/ CheckGroups(c)
    PROVE  TypeOK'
<1>0. fetch[c] \in FetchState /\ jobLock \in [Job -> Fetcher \cup Job \cup {Free}]
      /\ lock \in [Lane -> Txn \cup {Free}] /\ fetch \in [Fetcher -> FetchState]
      BY DEF TypeOK, FetchState
<1>1. CASE ReadBudgets(c)
  <2> DEFINE b == [l \in Lane |-> IF l \in Group THEN 0
                                  ELSE IF lanes[l].row THEN SlotsOf(l) ELSE Unlimited]
             B == {q \in Queue : queue_row_needs_lock(q)}
             f == [NoFetch EXCEPT !.pc = "lock queues", !.binding = B, !.budget = b]
  <2>1. b \in [Lane -> Nat]
        BY SlotsType, UnlimitedType
  <2>2. fetch' = [fetch EXCEPT ![c] = f]
        BY <1>1 DEF ReadBudgets
  <2> HIDE DEF b
  <2>3. f \in FetchState
        BY <2>1, NoFetchType DEF FetchState
  <2> HIDE DEF f
  <2> QED BY <1>0, <1>1, <2>2, <2>3, FetchTypes DEF ReadBudgets
<1>2. CASE LockBudgets(c)
  <2> DEFINE got == {q \in fetch[c].binding : lock[q] = Free}
             b == [l \in Lane |-> IF l \in got THEN SlotsOf(l)
                                  ELSE IF l \in fetch[c].binding THEN 0
                                  ELSE fetch[c].budget[l]]
             f == [fetch[c] EXCEPT !.pc = "ungrouped", !.budget = b]
  <2>1. b \in [Lane -> Nat]
        BY <1>0, SlotsType DEF FetchState
  <2>2. \/ fetch' = [fetch EXCEPT ![c] = NoFetch] /\ lock' = lock
        \/ fetch' = [fetch EXCEPT ![c] = f] /\ lock' = Locked(got, c)
        BY <1>0, <1>2 DEF LockBudgets, FetchState
  <2> HIDE DEF b, got
  <2>3. f \in FetchState
        BY <1>0, <2>1 DEF FetchState
  <2> HIDE DEF f
  <2>4. UNCHANGED <<jobs, lanes, jobLock, finish, unmaterialised, reconcile>>
        BY <1>2 DEF LockBudgets
  <2>5. lock' \in [Lane -> Txn \cup {Free}]
        BY <1>0, <2>2, LockTypes
  <2> QED BY <1>0, <2>2, <2>3, <2>4, <2>5, NoFetchType, FetchTypes
<1>3. CASE WalkGroups(c)
  <2> DEFINE K == {g \in Group : /\ Cardinality(fetch[c].accepted) < BatchSize
                                 /\ \E j \in JobsOf(g) :
                                       /\ jobs[j] = "pending"
                                       /\ fetch[c].budget[QueueOf[j]] > 0}
             f == [fetch[c] EXCEPT !.pc = "lock groups", !.keys = K]
  <2>1. fetch' = [fetch EXCEPT ![c] = f]
        BY <1>0, <1>3 DEF WalkGroups, FetchState
  <2>2. K \subseteq Group
        OBVIOUS
  <2> HIDE DEF K
  <2>3. f \in FetchState
        BY <1>0, <2>2 DEF FetchState
  <2> HIDE DEF f
  <2> QED BY <1>0, <1>3, <2>1, <2>3, FetchTypes DEF WalkGroups
<1>4. CASE LockGroups(c)
  <2> DEFINE got == {g \in fetch[c].keys : lanes[g].row /\ lock[g] = Free}
             b == [l \in Lane |-> IF l \in got THEN SlotsOf(l) ELSE fetch[c].budget[l]]
             f == [fetch[c] EXCEPT !.pc = "check groups", !.budget = b]
  <2>1. b \in [Lane -> Nat]
        BY <1>0, SlotsType DEF FetchState
  <2>2. fetch' = [fetch EXCEPT ![c] = f] /\ lock' = Locked(got, c)
        BY <1>0, <1>4 DEF LockGroups, FetchState
  <2> HIDE DEF b, got
  <2>3. f \in FetchState
        BY <1>0, <2>1 DEF FetchState
  <2> HIDE DEF f
  <2>4. UNCHANGED <<jobs, lanes, jobLock, finish, unmaterialised, reconcile>>
        BY <1>4 DEF LockGroups
  <2>5. lock' \in [Lane -> Txn \cup {Free}]
        BY <1>0, <2>2, LockTypes
  <2> QED BY <1>0, <2>2, <2>3, <2>4, <2>5, FetchTypes
<1>5. CASE CheckGroups(c)
  <2> DEFINE b == [l \in Lane |-> IF l \in fetch[c].keys /\ ~lanes[l].row THEN Unlimited
                                  ELSE fetch[c].budget[l]]
             f == [fetch[c] EXCEPT !.pc = "grouped", !.budget = b]
  <2>1. b \in [Lane -> Nat]
        BY <1>0, UnlimitedType DEF FetchState
  <2>2. fetch' = [fetch EXCEPT ![c] = f]
        BY <1>0, <1>5 DEF CheckGroups, FetchState
  <2> HIDE DEF b
  <2>3. f \in FetchState
        BY <1>0, <2>1 DEF FetchState
  <2> HIDE DEF f
  <2> QED BY <1>0, <1>5, <2>2, <2>3, FetchTypes DEF CheckGroups
<1> QED BY <1>1, <1>2, <1>3, <1>4, <1>5

\* The writes of a claim transaction.
LEMMA ClaimTypes ==
    ASSUME TypeOK, NEW c \in Fetcher,
           \/ ClaimUngrouped(c) \/ ClaimGrouped(c)
           \/ WriteLane(c) \/ CommitClaim(c) \/ Rollback(c)
    PROVE  TypeOK'
<1>0. fetch[c] \in FetchState /\ jobLock \in [Job -> Fetcher \cup Job \cup {Free}]
      /\ lock \in [Lane -> Txn \cup {Free}] /\ fetch \in [Fetcher -> FetchState]
      BY DEF TypeOK, FetchState
<1>1. CASE ClaimUngrouped(c)
      BY <1>1, FitsAll, AcceptTypes DEF ClaimUngrouped
<1>2. CASE ClaimGrouped(c)
      BY <1>2, FitsAll, AcceptTypes DEF ClaimGrouped
<1>3. CASE WriteLane(c)
  <2>1. PICK l \in fetch[c].todo :
            \/ /\ lock' = Locked({l}, c)
               /\ fetch' = [fetch EXCEPT ![c].todo = @ \ {l}, ![c].written = @ \cup {l}]
            \/ /\ fetch' = [fetch EXCEPT ![c].todo = @ \ {l}]
               /\ UNCHANGED lock
        BY <1>3 DEF WriteLane
  <2> DEFINE T == fetch[c].todo \ {l}
             W == fetch[c].written \cup {l}
             f == [fetch[c] EXCEPT !.todo = T, !.written = W]
             g == [fetch[c] EXCEPT !.todo = T]
  <2>0. T \in SUBSET Lane /\ W \in SUBSET Lane
    <3>1. fetch[c].todo \in SUBSET Lane /\ fetch[c].written \in SUBSET Lane
          BY <1>0 DEF FetchState
    <3> QED BY <2>1, <3>1
  <2>3. fetch' = [fetch EXCEPT ![c] = f] \/ fetch' = [fetch EXCEPT ![c] = g]
        BY <1>0, <2>1 DEF FetchState
  <2> HIDE DEF T, W
  <2>2. f \in FetchState /\ g \in FetchState
        BY <1>0, <2>0 DEF FetchState
  <2> HIDE DEF f, g
  <2>4. UNCHANGED <<jobs, lanes, jobLock, finish, unmaterialised, reconcile>>
        BY <1>3 DEF WriteLane
  <2>5. lock' \in [Lane -> Txn \cup {Free}]
        BY <1>0, <2>1, LockTypes
  <2> QED BY <1>0, <2>2, <2>3, <2>4, <2>5, FetchTypes
<1>4. CASE CommitClaim(c)
  <2>1. jobs' \in [Job -> {"absent", "pending", "running", "done"}]
        BY <1>4 DEF CommitClaim, TypeOK
  <2>2. lanes' \in [Lane -> LaneRow]
    <3>1. ASSUME NEW l \in Lane
          PROVE  (IF l \in fetch[c].written
                  THEN [lanes[l] EXCEPT
                          !.row = TRUE,
                          !.running_count =
                              @ + Cardinality(fetch[c].accepted \cap JobsOf(l))]
                  ELSE lanes[l]) \in LaneRow
      <4>1. lanes[l] \in LaneRow
            BY DEF TypeOK, LaneRow
      <4>2. lanes[l].running_count + Cardinality(fetch[c].accepted \cap JobsOf(l)) \in Nat
        <5>1. Cardinality(fetch[c].accepted \cap JobsOf(l)) \in Nat
              BY JobSets DEF JobsOf
        <5> QED BY <4>1, <5>1 DEF LaneRow
      <4> QED BY <4>1, <4>2 DEF LaneRow
    <3> QED BY <1>4, <3>1 DEF CommitClaim
  <2>3. fetch' \in [Fetcher -> FetchState]
        BY <1>0, <1>4, NoFetchType DEF CommitClaim
  <2> QED BY <1>4, <2>1, <2>2, <2>3, LockTypes DEF CommitClaim, TypeOK, FetchState, LaneRow
<1>5. CASE Rollback(c)
      BY <1>5, NoFetchType, LockTypes, FetchTypes DEF Rollback
<1> QED BY <1>1, <1>2, <1>3, <1>4, <1>5

\* The transaction that settles a job.
LEMMA FinishTypes ==
    ASSUME TypeOK, NEW j \in Job, finish_job(j)
    PROVE  TypeOK'
<1>0. /\ jobLock \in [Job -> Fetcher \cup Job \cup {Free}]
      /\ lock \in [Lane -> Txn \cup {Free}]
      /\ lanes \in [Lane -> LaneRow]
      BY DEF TypeOK, LaneRow
<1>1. /\ Unlocked(j) \in [Lane -> Txn \cup {Free}]
      /\ JobsUnlocked(j) \in [Job -> Fetcher \cup Job \cup {Free}]
      /\ \A L : Locked(L, j) \in [Lane -> Txn \cup {Free}]
      /\ JobsLocked({j}, j) \in [Job -> Fetcher \cup Job \cup {Free}]
      BY <1>0 DEF Txn, Unlocked, Locked, JobsLocked, JobsUnlocked
<1>2. CASE FinishJob(j)
      BY <1>0, <1>1, <1>2 DEF FinishJob, TypeOK
<1>3. ASSUME NEW l, NEW pc \in {"queue", "commit"}, Decrement(j, l, pc)
      PROVE  TypeOK'
  <2>1. lock' \in [Lane -> Txn \cup {Free}]
        BY <1>0, <1>1, <1>3 DEF Decrement
  <2> QED BY <1>3, <2>1 DEF Decrement, TypeOK
<1>4. CASE CommitFinish(j)
  <2>1. lanes' \in [Lane -> LaneRow]
    <3>1. ASSUME NEW l \in Lane
          PROVE  (IF lock[l] = j
                  THEN [lanes[l] EXCEPT !.running_count = IF @ > 0 THEN @ - 1 ELSE 0]
                  ELSE lanes[l]) \in LaneRow
      <4>1. lanes[l] \in LaneRow
            BY <1>0
      <4>2. (IF lanes[l].running_count > 0 THEN lanes[l].running_count - 1 ELSE 0) \in Nat
            BY <4>1 DEF LaneRow
      <4> QED BY <4>1, <4>2 DEF LaneRow
    <3> QED BY <1>4, <3>1 DEF CommitFinish
  <2> QED BY <1>1, <1>4, <2>1 DEF CommitFinish, TypeOK, LaneRow
<1>5. CASE RollbackFinish(j)
      BY <1>1, <1>5 DEF RollbackFinish, TypeOK
<1> QED BY <1>2, <1>3, <1>4, <1>5 DEF finish_job, FinishGroup, FinishQueue

\* Producers, operators and reconciliation.
LEMMA AdminTypes ==
    ASSUME TypeOK,
           \/ \E j \in Job : enqueue_dyn(j) \/ materialize_from_rule(j)
           \/ \E l \in Operable : set_concurrency(l)
           \/ ReconcileGroups \/ ReconcileQueues \/ ReconcileLock
           \/ ReconcileCommit \/ RollbackReconcile
    PROVE  TypeOK'
<1>0. /\ lock \in [Lane -> Txn \cup {Free}] /\ lanes \in [Lane -> LaneRow]
      BY DEF TypeOK, LaneRow
<1>1. ASSUME NEW j \in Job, enqueue_dyn(j)
      PROVE  TypeOK'
      BY <1>1 DEF enqueue_dyn, TypeOK
<1>2. ASSUME NEW j \in Job, materialize_from_rule(j)
      PROVE  TypeOK'
  <2>1. lanes' \in [Lane -> LaneRow]
    <3>1. CASE lanes' = lanes
          BY <1>0, <3>1
    <3>2. CASE lanes' = [lanes EXCEPT ![GroupOf[j]].row = TRUE,
                                      ![GroupOf[j]].max_concurrency = RuleCap[GroupOf[j]]]
      <4>1. CASE GroupOf[j] \in Group
        <5>1. RuleCap[GroupOf[j]] \in Nat /\ GroupOf[j] \in Lane
              BY <4>1, LaneConstants DEF Lane
        <5> QED BY <1>0, <3>2, <5>1 DEF LaneRow
      <4>2. CASE GroupOf[j] = NoGroup
        <5>1. GroupOf[j] \notin Lane
              BY <4>2, LaneConstants DEF Lane
        <5> QED BY <1>0, <3>2, <5>1
      <4> QED BY <4>1, <4>2, LaneConstants
    <3> QED BY <1>2, <3>1, <3>2 DEF materialize_from_rule
  <2> QED BY <1>2, <2>1 DEF materialize_from_rule, TypeOK, LaneRow
<1>3. ASSUME NEW l \in Operable, set_concurrency(l)
      PROVE  TypeOK'
  <2> DEFINE n == IF l \in Queue /\ ~lanes[l].row THEN Cardinality(Running(l))
                  ELSE lanes[l].running_count
  <2>1. PICK max \in Caps :
            lanes' = [lanes EXCEPT
                 ![l] = [row |-> TRUE, max_concurrency |-> max, running_count |-> n,
                         paused |-> lanes[l].paused]]
        BY <1>3 DEF set_concurrency
  <2>2. l \in Lane /\ max \in Nat /\ Cardinality(Running(l)) \in Nat /\ lanes[l] \in LaneRow
        BY <1>0, LaneConstants, JobSets DEF Running, JobsOf
  <2> DEFINE r == [row |-> TRUE, max_concurrency |-> max, running_count |-> n,
                   paused |-> lanes[l].paused]
  <2>4. n \in Nat
        BY <2>2 DEF LaneRow
  <2> HIDE DEF n
  <2>5. r \in LaneRow
        BY <2>2, <2>4 DEF LaneRow
  <2>6. lanes' = [lanes EXCEPT ![l] = r]
        BY <2>1
  <2> HIDE DEF r
  <2>3. lanes' \in [Lane -> LaneRow]
        BY <1>0, <2>5, <2>6
  <2> QED BY <1>3, <2>3 DEF set_concurrency, TypeOK, LaneRow
<1>4. ASSUME NEW L, NEW pc \in {"groups", "queues"}, L \in SUBSET Lane, Counted(L, pc),
             UNCHANGED <<jobs, lanes, jobLock, lock, fetch, finish, unmaterialised>>
      PROVE  TypeOK'
  <2> DEFINE a == [l \in Lane |-> IF l \in L THEN Cardinality(Running(l))
                                  ELSE reconcile.actual[l]]
  <2>1. a \in [Lane -> Nat]
        BY JobSets DEF TypeOK, Running, JobsOf
  <2>2. reconcile' = [pc |-> pc, todo |-> Overcounted(L), actual |-> a]
        BY <1>4 DEF Counted
  <2> HIDE DEF a
  <2>3. Overcounted(L) \subseteq Lane
        BY <1>4 DEF Overcounted
  <2> QED BY <1>4, <2>1, <2>2, <2>3 DEF TypeOK
<1>5. Unlocked(Reconciler) \in [Lane -> Txn \cup {Free}]
      /\ \A L : Locked(L, Reconciler) \in [Lane -> Txn \cup {Free}]
      /\ NoReconcile \in [pc : {"idle", "groups", "queues"}, actual : [Lane -> Nat],
                          todo : SUBSET Lane]
      BY <1>0 DEF Unlocked, Locked, Txn, NoReconcile
<1>6. CASE ReconcileGroups
      BY <1>4, <1>6 DEF ReconcileGroups, Lane
<1>7. CASE ReconcileQueues
      BY <1>4, <1>7 DEF ReconcileQueues, Lane
<1>8. CASE ReconcileLock
  <2>1. PICK l \in reconcile.todo :
            /\ lock' = Locked({l}, Reconciler)
            /\ reconcile' = [reconcile EXCEPT !.todo = @ \ {l}]
        BY <1>8 DEF ReconcileLock
  <2> DEFINE T == reconcile.todo \ {l}
  <2>2. T \in SUBSET Lane /\ reconcile' = [reconcile EXCEPT !.todo = T]
        BY <2>1 DEF TypeOK
  <2> HIDE DEF T
  <2>3. lock' \in [Lane -> Txn \cup {Free}]
        BY <1>5, <2>1
  <2> QED BY <1>8, <2>2, <2>3 DEF ReconcileLock, TypeOK
<1>9. CASE ReconcileCommit
  <2>1. lanes' \in [Lane -> LaneRow]
    <3>1. ASSUME NEW l \in Lane
          PROVE  (IF lock[l] = Reconciler /\ lanes[l].running_count > reconcile.actual[l]
                  THEN [lanes[l] EXCEPT !.running_count = reconcile.actual[l]]
                  ELSE lanes[l]) \in LaneRow
      <4>1. lanes[l] \in LaneRow /\ reconcile.actual[l] \in Nat
            BY <1>0 DEF TypeOK
      <4> QED BY <4>1 DEF LaneRow
    <3> QED BY <1>9, <3>1 DEF ReconcileCommit
  <2> QED BY <1>5, <1>9, <2>1 DEF ReconcileCommit, TypeOK, LaneRow
<1>10. CASE RollbackReconcile
      BY <1>5, <1>10 DEF RollbackReconcile, TypeOK
<1> QED BY <1>1, <1>2, <1>3, <1>6, <1>7, <1>8, <1>9, <1>10

\* Every step keeps the types.
LEMMA TypesStep ==
    ASSUME TypeOK, [Next]_vars
    PROVE  TypeOK'
<1>1. CASE UNCHANGED vars
      BY <1>1 DEF vars, TypeOK
<1>2. ASSUME NEW c \in Fetcher, claim_batch(c)
      PROVE  TypeOK'
      BY <1>2, ReadTypes, ClaimTypes DEF claim_batch
<1> QED BY <1>1, <1>2, FinishTypes, AdminTypes DEF Next


-----------------------------------------------------------------------------
(* Who holds which lock.                                                   *)

Holds ==
    /\ \A j \in Job : JobInv(j) /\ FinishInv(j)
    /\ \A c \in Fetcher : FetchInv(c)
    /\ \A l \in Lane : RowInv(l) /\ ReconcileInv(l)

\* No two transactions are the same, and none is the absence of one.
LEMMA Distinct ==
    /\ \A c \in Fetcher : c \notin Job /\ c # Free /\ c # Reconciler
    /\ \A j \in Job : j # Free /\ j # Reconciler /\ j \notin Fetcher
    /\ Reconciler # Free /\ Free \notin Fetcher
BY LaneConstants DEF Txn

\* What a claim has accepted, written and still has to write.
LEMMA AcceptedJobs ==
    ASSUME TypeOK, NEW c \in Fetcher
    PROVE  /\ \A j \in fetch[c].accepted : j \in Job
           /\ \A l \in fetch[c].written : l \in Lane
           /\ \A l \in fetch[c].todo : l \in Lane
           /\ fetch[c].accepted \in SUBSET Job
<1>1. fetch[c] \in FetchState
      BY DEF TypeOK, FetchState
<1> QED BY <1>1 DEF FetchState

\* A lane changes hands only between a transaction and nobody.
LaneMoves(t) ==
    \A l \in Lane : lock'[l] = lock[l] \/ (lock[l] \in {Free, t} /\ lock'[l] \in {Free, t})
JobMoves(t) ==
    \A j \in Job : jobLock'[j] = jobLock[j]
                   \/ (jobLock[j] \in {Free, t} /\ jobLock'[j] \in {Free, t})

\* A statement of a claim that commits nothing: only that claim's locks move,
\* and the rows it takes are pending.
LEMMA FetchHolds ==
    ASSUME TypeOK, Holds, NEW c \in Fetcher,
           UNCHANGED <<jobs, lanes, finish, reconcile>>,
           \A d \in Fetcher \ {c} : fetch'[d] = fetch[d],
           LaneMoves(c), JobMoves(c),
           \A j \in Job : jobLock'[j] = c => jobs[j] = "pending" /\ j \in fetch'[c].accepted,
           FetchInv(c)'
    PROVE  Holds'
<1>1. ASSUME NEW j \in Job
      PROVE  JobInv(j)'
  <2>1. JobInv(j)
        BY DEF Holds
  <2> QED BY <2>1, Distinct DEF JobInv, JobMoves
<1>2. ASSUME NEW j \in Job
      PROVE  FinishInv(j)'
  <2>1. FinishInv(j)
        BY DEF Holds
  <2>2. \A l \in Lane : lock'[l] = j <=> lock[l] = j
        BY Distinct DEF LaneMoves
  <2>3. GroupOf[j] \in Group => GroupOf[j] \in Lane
        BY DEF Lane
  <2>4. QueueOf[j] \in Lane
        BY LaneConstants DEF Lane
  <2> QED BY <2>1, <2>2, <2>3, <2>4 DEF FinishInv, Sound
<1>3. ASSUME NEW d \in Fetcher, d # c
      PROVE  FetchInv(d)'
  <2>1. FetchInv(d)
        BY DEF Holds
  <2>2. \A l \in Lane : lock'[l] = d <=> lock[l] = d
        BY <1>3, Distinct DEF LaneMoves
  <2>3. \A j \in Job : jobLock'[j] = d <=> jobLock[j] = d
        BY <1>3, Distinct DEF JobMoves
  <2>4. fetch'[d] = fetch[d]
        BY <1>3
  <2>5. \A j \in fetch[d].accepted : j \in Job
        BY AcceptedJobs
  <2>6. \A l \in fetch[d].written : l \in Lane
        BY AcceptedJobs
  <2> QED BY <1>3, <2>1, <2>2, <2>3, <2>4, <2>5, <2>6 DEF FetchInv, Sound
<1>4. ASSUME NEW l \in Lane
      PROVE  RowInv(l)' /\ ReconcileInv(l)'
  <2>1. RowInv(l) /\ ReconcileInv(l)
        BY DEF Holds
  <2>2. Running(l)' = Running(l)
        BY DEF Running
  <2>3. lock'[l] = Reconciler => lock[l] = Reconciler
        BY Distinct DEF LaneMoves
  <2> QED BY <2>1, <2>2, <2>3 DEF RowInv, ReconcileInv, Sound
<1> QED BY <1>1, <1>2, <1>3, <1>4 DEF Holds

\* A read of a claim: it accepts and writes nothing.
LEMMA ReadKeeps ==
    ASSUME TypeOK, Holds, NEW c \in Fetcher,
           UNCHANGED <<jobs, lanes, jobLock, finish, reconcile>>,
           \A d \in Fetcher \ {c} : fetch'[d] = fetch[d],
           LaneMoves(c),
           fetch'[c].accepted = fetch[c].accepted, fetch'[c].written = {},
           fetch'[c].pc # "write",
           fetch'[c].pc \in {"idle", "lock queues"} =>
              fetch[c].accepted = {} /\ \A l \in Lane : lock'[l] # c
    PROVE  Holds'
<1>1. FetchInv(c)
      BY DEF Holds
<1>2. FetchInv(c)'
      BY <1>1 DEF FetchInv
<1>3. \A j \in Job : jobLock'[j] = c => jobs[j] = "pending" /\ j \in fetch'[c].accepted
  <2>1. \A j \in Job : JobInv(j)
        BY DEF Holds
  <2> QED BY <2>1 DEF JobInv
<1>4. JobMoves(c)
      BY DEF JobMoves
<1> QED BY <1>2, <1>3, <1>4, FetchHolds

\* The reads of a claim, and the locks they take on free rows.
LEMMA ReadHolds ==
    ASSUME TypeOK, Holds, NEW c \in Fetcher,
           \/ ReadBudgets(c) \/ LockBudgets(c) \/ WalkGroups(c)
           \/ LockGroups(c) \/ CheckGroups(c)
    PROVE  Holds'
<1>0. /\ fetch[c] \in FetchState /\ fetch \in [Fetcher -> FetchState]
      /\ \A L : Locked(L, c) = [l \in Lane |-> IF l \in L THEN c ELSE lock[l]]
      /\ lock \in [Lane -> Txn \cup {Free}]
      /\ c # Free
      /\ FetchInv(c)
      BY Distinct DEF TypeOK, FetchState, Locked, Holds
<1>1. CASE ReadBudgets(c)
  <2> DEFINE b == [l \in Lane |-> IF l \in Group THEN 0
                                  ELSE IF lanes[l].row THEN SlotsOf(l) ELSE Unlimited]
             B == {q \in Queue : queue_row_needs_lock(q)}
             f == [NoFetch EXCEPT !.pc = "lock queues", !.binding = B, !.budget = b]
  <2>1. fetch' = [fetch EXCEPT ![c] = f]
        BY <1>1 DEF ReadBudgets
  <2> HIDE DEF b, B
  <2>2. f.pc = "lock queues" /\ f.accepted = {} /\ f.written = {}
        BY DEF NoFetch
  <2> HIDE DEF f
  <2>3. fetch[c].pc = "idle" /\ UNCHANGED <<jobs, lanes, jobLock, lock, finish, reconcile>>
        BY <1>1 DEF ReadBudgets, Step
  <2>4. fetch[c].accepted = {} /\ \A l \in Lane : lock[l] # c
        BY <1>0, <2>3 DEF FetchInv
  <2>5. LaneMoves(c)
        BY <2>3 DEF LaneMoves
  <2>6. fetch'[c] = f /\ \A d \in Fetcher \ {c} : fetch'[d] = fetch[d]
        BY <1>0, <2>1
  <2> QED BY <2>2, <2>3, <2>4, <2>5, <2>6, ReadKeeps
<1>2. CASE LockBudgets(c)
  <2> DEFINE got == {q \in fetch[c].binding : lock[q] = Free}
             b == [l \in Lane |-> IF l \in got THEN SlotsOf(l)
                                  ELSE IF l \in fetch[c].binding THEN 0
                                  ELSE fetch[c].budget[l]]
             f == [fetch[c] EXCEPT !.pc = "ungrouped", !.budget = b]
  <2>1. \/ fetch' = [fetch EXCEPT ![c] = NoFetch] /\ lock' = lock
        \/ fetch' = [fetch EXCEPT ![c] = f] /\ lock' = Locked(got, c)
        BY <1>0, <1>2 DEF LockBudgets, FetchState
  <2>2. \A l \in got : lock[l] = Free
        OBVIOUS
  <2> HIDE DEF b, got
  <2>3. fetch[c].pc = "lock queues" /\ UNCHANGED <<jobs, lanes, jobLock, finish, reconcile>>
        BY <1>2 DEF LockBudgets, Step
  <2>4. fetch[c].accepted = {} /\ fetch[c].written = {} /\ \A l \in Lane : lock[l] # c
        BY <1>0, <2>3 DEF FetchInv
  <2>5. /\ f.pc = "ungrouped" /\ f.accepted = {} /\ f.written = {}
        /\ NoFetch.pc = "idle" /\ NoFetch.accepted = {} /\ NoFetch.written = {}
        BY <1>0, <2>4 DEF NoFetch, FetchState
  <2> HIDE DEF f
  <2>6. LaneMoves(c)
        BY <1>0, <2>1, <2>2 DEF LaneMoves
  <2>7. \A d \in Fetcher \ {c} : fetch'[d] = fetch[d]
        BY <1>0, <2>1
  <2>8. \/ fetch'[c] = NoFetch /\ lock' = lock
        \/ fetch'[c] = f
        BY <1>0, <2>1
  <2> QED BY <2>3, <2>4, <2>5, <2>6, <2>7, <2>8, ReadKeeps
<1>3. ASSUME NEW f, fetch' = [fetch EXCEPT ![c] = f], LaneMoves(c),
             fetch[c].pc \notin {"idle", "lock queues", "write"},
             f.pc \notin {"idle", "lock queues", "write"},
             f.accepted = fetch[c].accepted, f.written = fetch[c].written,
             UNCHANGED <<jobs, lanes, jobLock, finish, reconcile>>
      PROVE  Holds'
  <2>1. fetch'[c] = f /\ \A d \in Fetcher \ {c} : fetch'[d] = fetch[d]
        BY <1>0, <1>3
  <2>2. fetch[c].written = {}
        BY <1>0, <1>3 DEF FetchInv
  <2> QED BY <1>3, <2>1, <2>2, ReadKeeps
<1>4. CASE WalkGroups(c)
  <2> DEFINE K == {g \in Group : /\ Cardinality(fetch[c].accepted) < BatchSize
                                 /\ \E j \in JobsOf(g) :
                                       /\ jobs[j] = "pending"
                                       /\ fetch[c].budget[QueueOf[j]] > 0}
             f == [fetch[c] EXCEPT !.pc = "lock groups", !.keys = K]
  <2>1. fetch' = [fetch EXCEPT ![c] = f]
        BY <1>0, <1>4 DEF WalkGroups, FetchState
  <2> HIDE DEF K
  <2>2. f.pc = "lock groups" /\ f.accepted = fetch[c].accepted /\ f.written = fetch[c].written
        BY <1>0 DEF FetchState
  <2> HIDE DEF f
  <2>3. /\ fetch[c].pc = "walk groups"
        /\ UNCHANGED <<jobs, lanes, jobLock, lock, finish, reconcile>>
        BY <1>4 DEF WalkGroups, Step
  <2>4. LaneMoves(c)
        BY <2>3 DEF LaneMoves
  <2> QED BY <1>3, <2>1, <2>2, <2>3, <2>4
<1>5. CASE LockGroups(c)
  <2> DEFINE got == {g \in fetch[c].keys : lanes[g].row /\ lock[g] = Free}
             b == [l \in Lane |-> IF l \in got THEN SlotsOf(l) ELSE fetch[c].budget[l]]
             f == [fetch[c] EXCEPT !.pc = "check groups", !.budget = b]
  <2>1. fetch' = [fetch EXCEPT ![c] = f] /\ lock' = Locked(got, c)
        BY <1>0, <1>5 DEF LockGroups, FetchState
  <2>2. \A l \in got : lock[l] = Free
        OBVIOUS
  <2> HIDE DEF b, got
  <2>3. f.pc = "check groups" /\ f.accepted = fetch[c].accepted /\ f.written = fetch[c].written
        BY <1>0 DEF FetchState
  <2> HIDE DEF f
  <2>4. /\ fetch[c].pc = "lock groups"
        /\ UNCHANGED <<jobs, lanes, jobLock, finish, reconcile>>
        BY <1>5 DEF LockGroups, Step
  <2>5. LaneMoves(c)
        BY <1>0, <2>1, <2>2 DEF LaneMoves
  <2> QED BY <1>3, <2>1, <2>3, <2>4, <2>5
<1>6. CASE CheckGroups(c)
  <2> DEFINE b == [l \in Lane |-> IF l \in fetch[c].keys /\ ~lanes[l].row THEN Unlimited
                                  ELSE fetch[c].budget[l]]
             f == [fetch[c] EXCEPT !.pc = "grouped", !.budget = b]
  <2>1. fetch' = [fetch EXCEPT ![c] = f]
        BY <1>0, <1>6 DEF CheckGroups, FetchState
  <2> HIDE DEF b
  <2>2. f.pc = "grouped" /\ f.accepted = fetch[c].accepted /\ f.written = fetch[c].written
        BY <1>0 DEF FetchState
  <2> HIDE DEF f
  <2>3. /\ fetch[c].pc = "check groups"
        /\ UNCHANGED <<jobs, lanes, jobLock, lock, finish, reconcile>>
        BY <1>6 DEF CheckGroups, Step
  <2>4. LaneMoves(c)
        BY <2>3 DEF LaneMoves
  <2> QED BY <1>3, <2>1, <2>2, <2>3, <2>4
<1> QED BY <1>1, <1>2, <1>4, <1>5, <1>6

\* Jobs are accepted: their rows were free and pending, and every lane of
\* theirs is to be written.
LEMMA AcceptHolds ==
    ASSUME TypeOK, Holds, NEW c \in Fetcher, NEW S \in SUBSET Job,
           NEW pc \in {"walk groups", "write"}, Accept(c, S, pc),
           fetch[c].pc \in {"ungrouped", "grouped"},
           \A j \in S : jobs[j] = "pending" /\ jobLock[j] = Free,
           UNCHANGED <<jobs, lanes, lock, finish, unmaterialised, reconcile>>
    PROVE  Holds'
<1>0. /\ fetch[c] \in FetchState /\ fetch \in [Fetcher -> FetchState]
      /\ c # Free /\ FetchInv(c)
      /\ \A j \in Job : JobInv(j)
      BY Distinct DEF TypeOK, FetchState, Holds
<1> DEFINE A == fetch[c].accepted \cup S
           b == [l \in Lane |-> IF fetch[c].budget[l] = Unlimited THEN fetch[c].budget[l]
                                ELSE fetch[c].budget[l] - Cardinality(S \cap JobsOf(l))]
           f == [fetch[c] EXCEPT !.pc = pc, !.accepted = A,
                     !.todo = LanesOf(A), !.budget = b]
<1>1. fetch' = [fetch EXCEPT ![c] = f]
      BY <1>0 DEF Accept, FetchState
<1>2. \A j : j \in A <=> j \in fetch[c].accepted \/ j \in S
      OBVIOUS
<1>3. A \in SUBSET Job
      BY AcceptedJobs
<1> HIDE DEF b, A
<1>4. f.pc = pc /\ f.accepted = A /\ f.todo = LanesOf(A) /\ f.written = fetch[c].written
      BY <1>0 DEF FetchState
<1> HIDE DEF f
<1>5. fetch'[c] = f /\ \A d \in Fetcher \ {c} : fetch'[d] = fetch[d]
      BY <1>0, <1>1
<1>6. \A j \in Job : jobLock'[j] = IF j \in S THEN c ELSE jobLock[j]
      BY DEF Accept, JobsLocked
<1>7. fetch[c].written = {}
      BY <1>0 DEF FetchInv
<1>8. \A j \in A : jobLock'[j] = c
      BY <1>0, <1>2, <1>3, <1>6 DEF FetchInv
<1>9. \A l \in Lane : A \cap JobsOf(l) # {} => l \in LanesOf(A)
      BY DEF LanesOf
<1>10. FetchInv(c)'
      BY <1>4, <1>5, <1>7, <1>8, <1>9 DEF FetchInv, JobsOf
<1>11. \A j \in Job : jobLock'[j] = c => jobs[j] = "pending" /\ j \in fetch'[c].accepted
  <2>1. \A j \in Job : jobLock[j] = c => jobs[j] = "pending" /\ j \in fetch[c].accepted
        BY <1>0 DEF JobInv
  <2> QED BY <1>2, <1>4, <1>5, <1>6, <2>1
<1>12. LaneMoves(c) /\ JobMoves(c)
      BY <1>6 DEF LaneMoves, JobMoves
<1> QED BY <1>5, <1>10, <1>11, <1>12, FetchHolds

\* One write of a claim: the lane is locked, or is a queue without a row.
LEMMA WriteHolds ==
    ASSUME TypeOK, Holds, NEW c \in Fetcher, WriteLane(c)
    PROVE  Holds'
<1>0. /\ fetch[c] \in FetchState /\ fetch \in [Fetcher -> FetchState]
      /\ c # Free /\ FetchInv(c)
      /\ \A j \in Job : JobInv(j)
      BY Distinct DEF TypeOK, FetchState, Holds
<1>1. /\ fetch[c].pc = "write"
      /\ UNCHANGED <<jobs, lanes, jobLock, finish, reconcile>>
      BY DEF WriteLane, Step
<1>2. PICK l \in fetch[c].todo :
          IF l \in Group \/ lanes[l].row
          THEN /\ CanLock(l, c)
               /\ lock' = Locked({l}, c)
               /\ fetch' = [fetch EXCEPT ![c].todo = @ \ {l}, ![c].written = @ \cup {l}]
          ELSE /\ fetch' = [fetch EXCEPT ![c].todo = @ \ {l}]
               /\ UNCHANGED lock
      BY DEF WriteLane
<1>3. l \in Lane
      BY AcceptedJobs
<1> DEFINE T == fetch[c].todo \ {l}
           W == fetch[c].written \cup {l}
           f == [fetch[c] EXCEPT !.todo = T, !.written = W]
           g == [fetch[c] EXCEPT !.todo = T]
<1>4. \/ /\ CanLock(l, c) /\ lock' = Locked({l}, c)
         /\ fetch' = [fetch EXCEPT ![c] = f]
      \/ /\ ~(l \in Group \/ lanes[l].row) /\ lock' = lock
         /\ fetch' = [fetch EXCEPT ![c] = g]
      BY <1>0, <1>2 DEF FetchState
<1>5. /\ \A k : k \in T <=> k \in fetch[c].todo /\ k # l
      /\ \A k : k \in W <=> k \in fetch[c].written \/ k = l
      OBVIOUS
<1> HIDE DEF T, W
<1>6. /\ f.pc = "write" /\ f.accepted = fetch[c].accepted /\ f.todo = T /\ f.written = W
      /\ g.pc = "write" /\ g.accepted = fetch[c].accepted /\ g.todo = T
      /\ g.written = fetch[c].written
      BY <1>0, <1>1 DEF FetchState
<1> HIDE DEF f, g
<1>7. \A d \in Fetcher \ {c} : fetch'[d] = fetch[d]
      BY <1>0, <1>4
<1>8. JobMoves(c) /\ LaneMoves(c)
      BY <1>1, <1>4 DEF LaneMoves, JobMoves, CanLock, Locked
<1>9. FetchInv(c)'
  <2>1. CASE lock' = Locked({l}, c) /\ fetch'[c] = f
    <3>1. \A k \in Lane : lock'[k] = IF k = l THEN c ELSE lock[k]
          BY <2>1 DEF Locked
    <3>2. \A k \in fetch[c].written : k \in Lane
          BY AcceptedJobs
    <3> QED BY <1>0, <1>1, <1>3, <1>5, <1>6, <2>1, <3>1, <3>2 DEF FetchInv, Sound, JobsOf
  <2>2. CASE ~(l \in Group \/ lanes[l].row) /\ lock' = lock /\ fetch'[c] = g
    <3>1. ~Sound(l)
      <4>1. RowInv(l)
            BY <1>3 DEF Holds
      <4> QED BY <2>2, <4>1 DEF RowInv, Sound
    <3>2. \A k : Sound(k)' <=> Sound(k)
          BY DEF Sound
    <3>3. \A k : JobsOf(k)' = JobsOf(k)
          BY DEF JobsOf
    <3> QED BY <1>0, <1>1, <1>5, <1>6, <2>2, <3>1, <3>2, <3>3 DEF FetchInv
  <2> QED BY <1>0, <1>4, <2>1, <2>2
<1>10. fetch'[c].accepted = fetch[c].accepted
      BY <1>0, <1>4, <1>6
<1>11. \A j \in Job : jobLock'[j] = c => jobs[j] = "pending" /\ j \in fetch'[c].accepted
  <2>1. \A j \in Job : jobLock[j] = c => jobs[j] = "pending" /\ j \in fetch[c].accepted
        BY <1>0 DEF JobInv
  <2> QED BY <1>1, <1>10, <2>1
<1> QED BY <1>1, <1>7, <1>8, <1>9, <1>11, FetchHolds

\* A claim that rolls back gives all its locks back.
LEMMA RollbackHolds ==
    ASSUME TypeOK, Holds, NEW c \in Fetcher, Rollback(c)
    PROVE  Holds'
<1>1. /\ fetch'[c] = NoFetch /\ \A d \in Fetcher \ {c} : fetch'[d] = fetch[d]
      /\ lock' = Unlocked(c) /\ jobLock' = JobsUnlocked(c)
      /\ UNCHANGED <<jobs, lanes, finish, reconcile>>
      BY DEF Rollback, TypeOK
<1>2. NoFetch.pc = "idle" /\ NoFetch.accepted = {} /\ NoFetch.written = {}
      BY DEF NoFetch
<1>3. /\ LaneMoves(c) /\ JobMoves(c)
      /\ \A l \in Lane : lock'[l] # c
      /\ \A j \in Job : jobLock'[j] # c
      BY <1>1, Distinct DEF LaneMoves, JobMoves, Unlocked, JobsUnlocked
<1>4. FetchInv(c)'
      BY <1>1, <1>2, <1>3 DEF FetchInv
<1> QED BY <1>1, <1>3, <1>4, FetchHolds

\* Running jobs of a lane are jobs.
LEMMA RunningJobs ==
    ASSUME NEW l \in Lane
    PROVE  Running(l) \in SUBSET Job /\ \A j \in Job : j \in Running(l) <=>
                                            j \in JobsOf(l) /\ jobs[j] = "running"
BY DEF Running, JobsOf

\* Counting disjoint sets of jobs.
LEMMA DisjointCount ==
    ASSUME NEW S \in SUBSET Job, NEW T \in SUBSET Job, S \cap T = {}
    PROVE  Cardinality(S \cup T) = Cardinality(S) + Cardinality(T)
<1>1. IsFiniteSet(S) /\ IsFiniteSet(T) /\ Cardinality(S) \in Nat /\ Cardinality(T) \in Nat
      BY JobSets
<1>2. Cardinality(S \cup T) = Cardinality(S) + Cardinality(T) - Cardinality(S \cap T)
      BY <1>1, FS_Union
<1>3. Cardinality(S \cap T) = 0
      BY FS_EmptySet
<1> QED BY <1>1, <1>2, <1>3

\* A claim commits: every sound lane of its jobs was written, under its lock.
LEMMA CommitHolds ==
    ASSUME TypeOK, Holds, NEW c \in Fetcher, CommitClaim(c)
    PROVE  Holds'
<1>0. /\ fetch[c] \in FetchState /\ c # Free /\ FetchInv(c)
      /\ fetch[c].accepted \in SUBSET Job
      BY Distinct, AcceptedJobs DEF TypeOK, FetchState, Holds
<1> DEFINE A == fetch[c].accepted
<1>1. /\ fetch'[c] = NoFetch /\ \A d \in Fetcher \ {c} : fetch'[d] = fetch[d]
      /\ \A l \in Lane : lock'[l] = IF lock[l] = c THEN Free ELSE lock[l]
      /\ \A j \in Job : jobLock'[j] = IF jobLock[j] = c THEN Free ELSE jobLock[j]
      /\ \A j \in Job : jobs'[j] = IF j \in A THEN "running" ELSE jobs[j]
      /\ finish' = finish /\ reconcile' = reconcile
      BY DEF CommitClaim, TypeOK, Unlocked, JobsUnlocked
<1>2. NoFetch.pc = "idle" /\ NoFetch.accepted = {} /\ NoFetch.written = {}
      BY DEF NoFetch
<1>3. \A j \in A : jobLock[j] = c
      BY <1>0 DEF FetchInv
<1>4. \A j \in A : jobs[j] = "pending"
  <2>1. \A j \in Job : JobInv(j)
        BY DEF Holds
  <2> QED BY <1>0, <1>3, <2>1 DEF JobInv
<1>5. ASSUME NEW j \in Job
      PROVE  JobInv(j)'
  <2>1. JobInv(j)
        BY DEF Holds
  <2> QED BY <1>1, <1>3, <2>1, Distinct DEF JobInv
<1>6. ASSUME NEW j \in Job
      PROVE  FinishInv(j)'
  <2>1. FinishInv(j)
        BY DEF Holds
  <2>2. \A l \in Lane : lock'[l] = j <=> lock[l] = j
        BY <1>1, Distinct
  <2>3. GroupOf[j] \in Group => GroupOf[j] \in Lane
        BY DEF Lane
  <2>4. QueueOf[j] \in Lane
        BY LaneConstants DEF Lane
  <2> QED BY <1>1, <2>1, <2>2, <2>3, <2>4 DEF FinishInv, Sound
<1>7. ASSUME NEW d \in Fetcher
      PROVE  FetchInv(d)'
  <2>1. CASE d = c
        BY <1>1, <1>2, <2>1, Distinct DEF FetchInv
  <2>2. CASE d # c
    <3>1. FetchInv(d)
          BY DEF Holds
    <3>2. \A l \in Lane : lock'[l] = d <=> lock[l] = d
          BY <1>1, <2>2, Distinct
    <3>3. \A j \in Job : jobLock'[j] = d <=> jobLock[j] = d
          BY <1>1, <2>2, Distinct
    <3>4. fetch'[d] = fetch[d]
          BY <1>1, <2>2
    <3>5. \A j \in fetch[d].accepted : j \in Job
          BY AcceptedJobs
    <3>6. \A l \in fetch[d].written : l \in Lane
          BY AcceptedJobs
    <3> QED BY <3>1, <3>2, <3>3, <3>4, <3>5, <3>6 DEF FetchInv, Sound
  <2> QED BY <2>1, <2>2
<1>8. ASSUME NEW l \in Lane
      PROVE  RowInv(l)' /\ ReconcileInv(l)'
  <2>1. RowInv(l) /\ ReconcileInv(l)
        BY DEF Holds
  <2>2. lock'[l] = Reconciler => lock[l] = Reconciler
        BY <1>1, Distinct
  <2>3. ReconcileInv(l)'
        BY <1>1, <2>1, <2>2 DEF ReconcileInv, Sound
  <2> DEFINE N == A \cap JobsOf(l)
  <2>4. /\ Running(l)' = Running(l) \cup N
        /\ Running(l) \cap N = {} /\ Running(l) \in SUBSET Job /\ N \in SUBSET Job
        BY <1>0, <1>1, <1>4 DEF Running, JobsOf
  <2>5. lanes[l] \in LaneRow
        BY DEF TypeOK, LaneRow
  <2>6. CASE l \in fetch[c].written
    <3>1. lanes'[l] = [lanes[l] EXCEPT !.row = TRUE, !.running_count = @ + Cardinality(N)]
          BY <2>6 DEF CommitClaim
    <3>2. lanes'[l].row = TRUE /\ lanes'[l].running_count = lanes[l].running_count + Cardinality(N)
          BY <2>5, <3>1 DEF LaneRow
    <3>3. Cardinality(Running(l)') = Cardinality(Running(l)) + Cardinality(N)
          BY <2>4, DisjointCount
    <3> HIDE DEF N
    <3> QED BY <2>1, <2>3, <3>2, <3>3 DEF RowInv, Sound
  <2>7. CASE l \notin fetch[c].written
    <3>1. lanes'[l] = lanes[l]
          BY <2>7 DEF CommitClaim
    <3>2. Sound(l) => N = {}
          BY <1>0, <2>7 DEF FetchInv, CommitClaim, Step
    <3>3. Sound(l) => Running(l)' = Running(l)
          BY <2>4, <3>2
    <3> HIDE DEF N
    <3> QED BY <2>1, <2>3, <3>1, <3>3 DEF RowInv, Sound
  <2> QED BY <2>6, <2>7
<1> QED BY <1>5, <1>6, <1>7, <1>8 DEF Holds

\* A claim transaction keeps the locks in order.
LEMMA ClaimHolds ==
    ASSUME TypeOK, Holds, NEW c \in Fetcher, claim_batch(c)
    PROVE  Holds'
<1>1. CASE ClaimUngrouped(c)
      BY <1>1, AcceptHolds DEF ClaimUngrouped, Fits, Step
<1>2. CASE ClaimGrouped(c)
      BY <1>2, AcceptHolds DEF ClaimGrouped, Fits, Step
<1> QED BY <1>1, <1>2, ReadHolds, WriteHolds, CommitHolds, RollbackHolds DEF claim_batch

\* A statement of a settling transaction that commits nothing.
LEMMA SettleHolds ==
    ASSUME TypeOK, Holds, NEW j \in Job,
           UNCHANGED <<jobs, lanes, fetch, reconcile>>,
           \A k \in Job \ {j} : finish'[k] = finish[k] /\ jobLock'[k] = jobLock[k],
           LaneMoves(j), jobLock[j] \in {j, Free},
           JobInv(j)', FinishInv(j)'
    PROVE  Holds'
<1>1. ASSUME NEW k \in Job, k # j
      PROVE  JobInv(k)' /\ FinishInv(k)'
  <2>1. JobInv(k) /\ FinishInv(k)
        BY DEF Holds
  <2>2. finish'[k] = finish[k] /\ jobLock'[k] = jobLock[k]
        BY <1>1
  <2>3. JobInv(k)'
        BY <2>1, <2>2 DEF JobInv
  <2>4. \A l \in Lane : lock'[l] = k <=> lock[l] = k
        BY <1>1, Distinct DEF LaneMoves
  <2>5. GroupOf[k] \in Group => GroupOf[k] \in Lane
        BY DEF Lane
  <2>6. QueueOf[k] \in Lane
        BY LaneConstants DEF Lane
  <2> QED BY <2>1, <2>2, <2>3, <2>4, <2>5, <2>6 DEF FinishInv, Sound
<1>2. ASSUME NEW d \in Fetcher
      PROVE  FetchInv(d)'
  <2>1. FetchInv(d)
        BY DEF Holds
  <2>2. \A l \in Lane : lock'[l] = d <=> lock[l] = d
        BY Distinct DEF LaneMoves
  <2>3. \A k \in Job : jobLock[k] = d => jobLock'[k] = d
        BY Distinct
  <2>4. \A k \in fetch[d].accepted : k \in Job
        BY AcceptedJobs
  <2>5. \A l \in fetch[d].written : l \in Lane
        BY AcceptedJobs
  <2> QED BY <2>1, <2>2, <2>3, <2>4, <2>5 DEF FetchInv, Sound
<1>3. ASSUME NEW l \in Lane
      PROVE  RowInv(l)' /\ ReconcileInv(l)'
  <2>1. RowInv(l) /\ ReconcileInv(l)
        BY DEF Holds
  <2>2. Running(l)' = Running(l)
        BY DEF Running
  <2>3. lock'[l] = Reconciler => lock[l] = Reconciler
        BY Distinct DEF LaneMoves
  <2> QED BY <2>1, <2>2, <2>3 DEF RowInv, ReconcileInv, Sound
<1> QED BY <1>1, <1>2, <1>3 DEF Holds

\* A sound lane in which a job runs has a row.
LEMMA RunningHasRow ==
    ASSUME TypeOK, Holds, NEW j \in Job, jobs[j] = "running", NEW l \in Lane,
           Sound(l), j \in JobsOf(l)
    PROVE  lanes[l].row
<1>1. RowInv(l)
      BY DEF Holds
<1>2. j \in Running(l) /\ Running(l) \in SUBSET Job
      BY RunningJobs
<1>3. Cardinality(Running(l)) # 0
      BY <1>2, JobSets, FS_EmptySet
<1> QED BY <1>1, <1>3 DEF RowInv

\* The statements of a settling transaction before its commit.
LEMMA SettleStep ==
    ASSUME TypeOK, Holds, NEW j \in Job,
           FinishJob(j) \/ FinishGroup(j) \/ FinishQueue(j) \/ RollbackFinish(j)
    PROVE  Holds'
<1>0. /\ finish \in [Job -> {"idle", "group", "queue", "commit"}]
      /\ JobInv(j) /\ FinishInv(j)
      /\ j # Free /\ j \notin Fetcher
      /\ GroupOf[j] \in Group \cup {NoGroup} /\ QueueOf[j] \in Lane
      /\ \A g \in Group : g \in Lane
      /\ NoGroup \notin Lane
      BY LaneConstants, Distinct DEF TypeOK, Holds, Lane
<1>1. CASE FinishJob(j)
  <2>1. /\ finish[j] = "idle" /\ jobs[j] = "running" /\ jobLock[j] = Free
        /\ jobLock' = JobsLocked({j}, j)
        /\ finish' = [finish EXCEPT ![j] = "group"]
        /\ UNCHANGED <<jobs, lanes, lock, fetch, reconcile>>
        BY <1>1 DEF FinishJob
  <2>2. /\ finish'[j] = "group" /\ jobLock'[j] = j
        /\ \A k \in Job \ {j} : finish'[k] = finish[k] /\ jobLock'[k] = jobLock[k]
        BY <1>0, <2>1 DEF JobsLocked
  <2>3. LaneMoves(j)
        BY <2>1 DEF LaneMoves
  <2>4. JobInv(j)' /\ FinishInv(j)'
        BY <1>0, <2>1, <2>2 DEF JobInv, FinishInv
  <2> QED BY <2>1, <2>2, <2>3, <2>4, SettleHolds
<1>2. ASSUME NEW l, NEW pc \in {"queue", "commit"}, Decrement(j, l, pc),
             finish[j] \in {"group", "queue"}, l \in Lane => j \in JobsOf(l),
             pc = "queue" => l = GroupOf[j],
             pc = "commit" => l = QueueOf[j] /\ finish[j] = "queue"
      PROVE  Holds'
  <2>1. /\ finish' = [finish EXCEPT ![j] = pc]
        /\ UNCHANGED <<jobs, lanes, jobLock, fetch, reconcile>>
        /\ IF l \in Lane /\ lanes[l].row
           THEN CanLock(l, j) /\ lock' = Locked({l}, j)
           ELSE UNCHANGED lock
        BY <1>2 DEF Decrement
  <2>2. /\ finish'[j] = pc
        /\ \A k \in Job \ {j} : finish'[k] = finish[k] /\ jobLock'[k] = jobLock[k]
        BY <1>0, <2>1
  <2>3. LaneMoves(j)
        BY <2>1 DEF LaneMoves, CanLock, Locked
  <2>4. jobs[j] = "running" /\ jobLock[j] = j
        BY <1>0, <1>2 DEF JobInv
  <2>5. JobInv(j)'
        BY <1>0, <2>1, <2>2, <2>4 DEF JobInv
  <2>6. l \in Lane /\ Sound(l) => lock'[l] = j
    <3>1. l \in Lane /\ Sound(l) => lanes[l].row
          BY <1>2, <2>4, RunningHasRow
    <3> QED BY <2>1, <3>1 DEF Locked
  <2>7. \A k \in Lane : lock[k] = j => lock'[k] = j
        BY <2>1 DEF Locked
  <2>8. \A k \in Lane : lock'[k] = j => lock[k] = j \/ k = l
        BY <2>1 DEF Locked
  <2>9. FinishInv(j)'
    <3>1. \A k \in Lane : lock'[k] = j => finish'[j] # "idle" /\ j \in JobsOf(k)
          BY <1>0, <1>2, <2>2, <2>8 DEF FinishInv
    <3>2. GroupOf[j] \in Group => lock'[GroupOf[j]] = j
      <4>1. CASE pc = "queue"
            BY <1>0, <1>2, <2>6, <4>1 DEF Sound
      <4>2. CASE pc = "commit"
            BY <1>0, <1>2, <2>7, <4>2 DEF FinishInv
      <4> QED BY <4>1, <4>2
    <3>3. pc = "commit" /\ Sound(QueueOf[j]) => lock'[QueueOf[j]] = j
          BY <1>0, <1>2, <2>6
    <3> QED BY <2>2, <3>1, <3>2, <3>3 DEF FinishInv, Sound, JobsOf
  <2> QED BY <2>1, <2>2, <2>3, <2>4, <2>5, <2>9, SettleHolds
<1>3. CASE FinishGroup(j)
  <2>1. GroupOf[j] \in Lane => j \in JobsOf(GroupOf[j])
        BY DEF JobsOf
  <2> QED BY <1>2, <1>3, <2>1 DEF FinishGroup
<1>4. CASE FinishQueue(j)
  <2>1. j \in JobsOf(QueueOf[j])
        BY DEF JobsOf
  <2> QED BY <1>2, <1>4, <2>1 DEF FinishQueue
<1>5. CASE RollbackFinish(j)
  <2>1. /\ finish[j] # "idle"
        /\ finish' = [finish EXCEPT ![j] = "idle"]
        /\ lock' = Unlocked(j) /\ jobLock' = JobsUnlocked(j)
        /\ UNCHANGED <<jobs, lanes, fetch, reconcile>>
        BY <1>5 DEF RollbackFinish
  <2>2. jobLock[j] = j
        BY <1>0, <2>1 DEF JobInv
  <2>3. \A k \in Job \ {j} : jobLock[k] # j
    <3>1. \A k \in Job : JobInv(k)
          BY DEF Holds
    <3> QED BY <1>0, <3>1 DEF JobInv
  <2>4. /\ finish'[j] = "idle" /\ jobLock'[j] = Free
        /\ \A k \in Job \ {j} : finish'[k] = finish[k] /\ jobLock'[k] = jobLock[k]
        BY <1>0, <2>1, <2>2, <2>3 DEF JobsUnlocked
  <2>5. LaneMoves(j) /\ \A l \in Lane : lock'[l] # j
        BY <1>0, <2>1 DEF LaneMoves, Unlocked
  <2>6. JobInv(j)' /\ FinishInv(j)'
        BY <1>0, <2>4, <2>5, Distinct DEF JobInv, FinishInv
  <2> QED BY <2>1, <2>2, <2>4, <2>5, <2>6, SettleHolds
<1> QED BY <1>1, <1>3, <1>4, <1>5

\* A settling transaction commits: it holds the row of every sound lane of its
\* job, and gives one slot of each back.
LEMMA CommitFinishHolds ==
    ASSUME TypeOK, Holds, NEW j \in Job, CommitFinish(j)
    PROVE  Holds'
<1>0. /\ JobInv(j) /\ FinishInv(j)
      /\ j # Free /\ j \notin Fetcher /\ Free \notin Fetcher
      BY Distinct DEF Holds
<1>1. /\ finish[j] = "commit"
      /\ jobs'[j] = "done" /\ \A k \in Job \ {j} : jobs'[k] = jobs[k]
      /\ finish'[j] = "idle" /\ \A k \in Job \ {j} : finish'[k] = finish[k]
      /\ \A l \in Lane : lock'[l] = IF lock[l] = j THEN Free ELSE lock[l]
      /\ \A k \in Job : jobLock'[k] = IF jobLock[k] = j THEN Free ELSE jobLock[k]
      /\ fetch' = fetch /\ reconcile' = reconcile
      BY DEF CommitFinish, TypeOK, Unlocked, JobsUnlocked
<1>2. jobLock[j] = j /\ jobs[j] = "running"
      BY <1>0, <1>1 DEF JobInv
<1>3. ASSUME NEW k \in Job
      PROVE  JobInv(k)'
  <2>1. JobInv(k)
        BY DEF Holds
  <2> QED BY <1>0, <1>1, <1>2, <2>1 DEF JobInv
<1>4. ASSUME NEW k \in Job
      PROVE  FinishInv(k)'
  <2>1. FinishInv(k)
        BY DEF Holds
  <2>2. GroupOf[k] \in Group => GroupOf[k] \in Lane
        BY DEF Lane
  <2>3. QueueOf[k] \in Lane
        BY LaneConstants DEF Lane
  <2>4. CASE k = j
    <3>1. \A l \in Lane : lock'[l] # j
          BY <1>0, <1>1
    <3> QED BY <1>1, <2>4, <3>1 DEF FinishInv
  <2>5. CASE k # j
    <3>1. \A l \in Lane : lock'[l] = k <=> lock[l] = k
          BY <1>1, <2>5, Distinct
    <3> QED BY <1>1, <2>1, <2>2, <2>3, <2>5, <3>1 DEF FinishInv, Sound
  <2> QED BY <2>4, <2>5
<1>5. ASSUME NEW d \in Fetcher
      PROVE  FetchInv(d)'
  <2>1. FetchInv(d)
        BY DEF Holds
  <2>2. \A l \in Lane : lock'[l] = d <=> lock[l] = d
        BY <1>0, <1>1
  <2>3. \A k \in Job : jobLock[k] = d => jobLock'[k] = d
        BY <1>0, <1>1
  <2>4. \A k \in fetch[d].accepted : k \in Job
        BY AcceptedJobs
  <2>5. \A l \in fetch[d].written : l \in Lane
        BY AcceptedJobs
  <2> QED BY <1>1, <2>1, <2>2, <2>3, <2>4, <2>5 DEF FetchInv, Sound
<1>6. ASSUME NEW l \in Lane
      PROVE  RowInv(l)' /\ ReconcileInv(l)'
  <2>1. RowInv(l) /\ ReconcileInv(l)
        BY DEF Holds
  <2>2. ReconcileInv(l)'
    <3>1. lock'[l] = Reconciler => lock[l] = Reconciler
          BY <1>1, Distinct
    <3> QED BY <1>1, <2>1, <3>1 DEF ReconcileInv, Sound
  <2>3. lanes[l] \in LaneRow /\ Running(l) \in SUBSET Job
        BY RunningJobs DEF TypeOK, LaneRow
  <2>4. Sound(l) => (lock[l] = j <=> j \in JobsOf(l))
    <3>1. lock[l] = j => j \in JobsOf(l)
          BY <1>0 DEF FinishInv
    <3>2. l \in Group /\ j \in JobsOf(l) => lock[l] = j
          BY <1>0, <1>1, Ungrouped DEF FinishInv
    <3>3. l \in Queue /\ j \in JobsOf(l) /\ Sound(l) => lock[l] = j
          BY <1>0, <1>1, Queued DEF FinishInv
    <3> QED BY <3>1, <3>2, <3>3 DEF Lane
  <2>5. Running(l)' = IF j \in JobsOf(l) THEN Running(l) \ {j} ELSE Running(l)
        BY <1>1 DEF Running, JobsOf
  <2>6. CASE lock[l] = j
    <3>1. lanes'[l] = [lanes[l] EXCEPT !.running_count = IF @ > 0 THEN @ - 1 ELSE 0]
          BY <2>6 DEF CommitFinish
    <3>2. /\ lanes'[l].row = lanes[l].row
          /\ lanes'[l].running_count = IF lanes[l].running_count > 0
                                       THEN lanes[l].running_count - 1 ELSE 0
          BY <2>3, <3>1 DEF LaneRow
    <3>3. j \in Running(l)
          BY <1>0, <1>2, <2>6, RunningJobs DEF FinishInv
    <3>4. Cardinality(Running(l)) \in Nat /\ Cardinality(Running(l)) # 0
          BY <2>3, <3>3, JobSets, FS_EmptySet
    <3>5. Cardinality(Running(l) \ {j}) = Cardinality(Running(l)) - 1
          BY <2>3, <3>3, JobSets, FS_RemoveElement
    <3>6. Running(l)' = Running(l) \ {j}
          BY <2>5, <3>3, RunningJobs
    <3>7. Sound(l) => lanes'[l].running_count = Cardinality(Running(l)')
      <4>1. Sound(l) => lanes[l].running_count = Cardinality(Running(l))
            BY <2>1 DEF RowInv
      <4> QED BY <3>2, <3>4, <3>5, <3>6, <4>1
    <3> QED BY <2>1, <2>2, <3>2, <3>7 DEF RowInv, Sound
  <2>7. CASE lock[l] # j
    <3>1. lanes'[l] = lanes[l]
          BY <2>7 DEF CommitFinish
    <3>2. Sound(l) => Running(l)' = Running(l)
          BY <2>4, <2>5, <2>7
    <3> QED BY <2>1, <2>2, <3>1, <3>2 DEF RowInv, Sound
  <2> QED BY <2>6, <2>7
<1> QED BY <1>3, <1>4, <1>5, <1>6 DEF Holds

\* Statements that touch no lock of a claim or a settling transaction, and no
\* counter of a sound lane: what producers, operators and the reconciliation do.
LEMMA OthersHold ==
    ASSUME TypeOK, Holds,
           UNCHANGED <<jobLock, fetch, finish>>,
           \A j \in Job : \/ jobs'[j] = jobs[j]
                          \/ jobs[j] = "absent" /\ jobs'[j] = "pending",
           LaneMoves(Reconciler),
           \A l \in Lane : /\ lanes[l].row => lanes'[l].row
                           /\ lanes'[l].row \/ lanes'[l].running_count = 0
                           /\ Sound(l) => lanes'[l].running_count = lanes[l].running_count
                           /\ ReconcileInv(l)'
    PROVE  Holds'
<1>1. ASSUME NEW j \in Job
      PROVE  JobInv(j)' /\ FinishInv(j)'
  <2>1. JobInv(j) /\ FinishInv(j)
        BY DEF Holds
  <2>2. JobInv(j)'
        BY <2>1 DEF JobInv
  <2>3. \A l \in Lane : lock'[l] = j <=> lock[l] = j
        BY Distinct DEF LaneMoves
  <2>4. GroupOf[j] \in Group => GroupOf[j] \in Lane
        BY DEF Lane
  <2>5. QueueOf[j] \in Lane
        BY LaneConstants DEF Lane
  <2> QED BY <2>1, <2>2, <2>3, <2>4, <2>5 DEF FinishInv, Sound
<1>2. ASSUME NEW d \in Fetcher
      PROVE  FetchInv(d)'
  <2>1. FetchInv(d)
        BY DEF Holds
  <2>2. \A l \in Lane : lock'[l] = d <=> lock[l] = d
        BY Distinct DEF LaneMoves
  <2>3. \A l \in fetch[d].written : l \in Lane
        BY AcceptedJobs
  <2> QED BY <2>1, <2>2, <2>3 DEF FetchInv, Sound
<1>3. ASSUME NEW l \in Lane
      PROVE  RowInv(l)'
  <2>1. RowInv(l)
        BY DEF Holds
  <2>2. Running(l)' = Running(l)
        BY DEF Running, JobsOf
  <2> QED BY <2>1, <2>2 DEF RowInv, Sound
<1> QED BY <1>1, <1>2, <1>3 DEF Holds

\* Producers and operators: a new row of a sound lane starts with the count
\* that nothing runs there.
LEMMA AdminHolds ==
    ASSUME TypeOK, Holds,
           \/ \E j \in Job : enqueue_dyn(j) \/ materialize_from_rule(j)
           \/ \E l \in Operable : set_concurrency(l)
    PROVE  Holds'
<1>0. /\ lanes \in [Lane -> LaneRow]
      /\ jobs \in [Job -> {"absent", "pending", "running", "done"}]
      /\ \A l \in Lane : RowInv(l) /\ ReconcileInv(l)
      BY DEF TypeOK, LaneRow, Holds
<1>1. ASSUME UNCHANGED <<lock, reconcile>>
      PROVE  LaneMoves(Reconciler) /\ \A l \in Lane : ReconcileInv(l)'
      BY <1>0, <1>1 DEF LaneMoves, ReconcileInv, Sound
<1>2. ASSUME NEW j \in Job, enqueue_dyn(j)
      PROVE  Holds'
  <2>1. /\ UNCHANGED <<lanes, jobLock, lock, fetch, finish, reconcile>>
        /\ \A k \in Job : \/ jobs'[k] = jobs[k]
                          \/ jobs[k] = "absent" /\ jobs'[k] = "pending"
        BY <1>0, <1>2 DEF enqueue_dyn
  <2>2. \A l \in Lane : lanes[l].row \/ lanes[l].running_count = 0
        BY <1>0 DEF RowInv
  <2> QED BY <1>1, <2>1, <2>2, OthersHold
<1>3. ASSUME NEW j \in Job, materialize_from_rule(j)
      PROVE  Holds'
  <2>1. UNCHANGED <<jobs, jobLock, lock, fetch, finish, reconcile>>
        BY <1>3 DEF materialize_from_rule
  <2>2. \/ lanes' = lanes
        \/ lanes' = [lanes EXCEPT ![GroupOf[j]].row = TRUE,
                                  ![GroupOf[j]].max_concurrency = RuleCap[GroupOf[j]]]
        BY <1>3 DEF materialize_from_rule
  <2>3. ASSUME NEW l \in Lane
        PROVE  /\ lanes[l].row => lanes'[l].row
               /\ lanes'[l].row \/ lanes'[l].running_count = 0
               /\ lanes'[l].running_count = lanes[l].running_count
    <3>1. lanes[l] \in LaneRow /\ RowInv(l)
          BY <1>0
    <3>2. /\ lanes'[l].running_count = lanes[l].running_count
          /\ lanes[l].row => lanes'[l].row
          BY <1>0, <2>2, <3>1 DEF LaneRow
    <3>3. lanes'[l].row = lanes[l].row \/ lanes'[l].row
          BY <1>0, <2>2, <3>1 DEF LaneRow
    <3> QED BY <3>1, <3>2, <3>3 DEF RowInv
  <2> QED BY <1>1, <2>1, <2>3, OthersHold
<1>4. ASSUME NEW l \in Operable, set_concurrency(l)
      PROVE  Holds'
  <2>1. UNCHANGED <<jobs, jobLock, lock, fetch, finish, reconcile>>
        BY <1>4 DEF set_concurrency
  <2> DEFINE n == IF l \in Queue /\ ~lanes[l].row THEN Cardinality(Running(l))
                  ELSE lanes[l].running_count
  <2>2. PICK max \in Caps :
            lanes' = [lanes EXCEPT
                 ![l] = [row |-> TRUE, max_concurrency |-> max, running_count |-> n,
                         paused |-> lanes[l].paused]]
        BY <1>4 DEF set_concurrency
  <2>3. l \in Lane /\ l \in Lane /\ RowInv(l) /\ l \notin Queue \cap Group
        BY <1>0, LaneConstants
  <2>4. Sound(l) => n = lanes[l].running_count
        BY <2>3 DEF Sound, RowInv
  <2> HIDE DEF n
  <2>5. /\ lanes'[l].row /\ lanes'[l].running_count = n
        /\ \A k \in Lane \ {l} : lanes'[k] = lanes[k]
        BY <1>0, <2>2, <2>3
  <2>6. \A k \in Lane : lanes[k].row \/ lanes[k].running_count = 0
        BY <1>0 DEF RowInv
  <2> QED BY <1>1, <2>1, <2>4, <2>5, <2>6, OthersHold
<1> QED BY <1>2, <1>3, <1>4

\* The reconciliation finds nothing to correct in a sound lane.
LEMMA ReconcileHolds ==
    ASSUME TypeOK, Holds,
           \/ ReconcileGroups \/ ReconcileQueues \/ ReconcileLock
           \/ ReconcileCommit \/ RollbackReconcile
    PROVE  Holds'
<1>0. /\ lanes \in [Lane -> LaneRow]
      /\ \A l \in Lane : RowInv(l) /\ ReconcileInv(l)
      /\ reconcile.actual \in [Lane -> Nat]
      /\ \A l \in Lane : lanes[l].row \/ lanes[l].running_count = 0
      /\ Reconciler # Free
      BY Distinct DEF TypeOK, LaneRow, Holds, RowInv
<1>1. ASSUME NEW L, NEW pc, Counted(L, pc),
             UNCHANGED <<jobs, lanes, jobLock, lock, fetch, finish>>
      PROVE  Holds'
  <2>1. reconcile'.todo = Overcounted(L)
        BY <1>1 DEF Counted
  <2>2. ASSUME NEW l \in Lane
        PROVE  ReconcileInv(l)'
    <3>1. RowInv(l) /\ ReconcileInv(l) /\ lanes[l].running_count \in Nat
          BY <1>0 DEF LaneRow
    <3>2. Sound(l) => ~(lanes[l].running_count > Cardinality(Running(l)))
          BY <3>1 DEF RowInv
    <3>3. Sound(l) => l \notin Overcounted(L)
          BY <3>2 DEF Overcounted
    <3> QED BY <1>1, <2>1, <3>1, <3>3 DEF ReconcileInv, Sound
  <2>3. LaneMoves(Reconciler)
        BY <1>1 DEF LaneMoves
  <2> QED BY <1>0, <1>1, <2>2, <2>3, OthersHold
<1>2. CASE ReconcileGroups
      BY <1>1, <1>2 DEF ReconcileGroups
<1>3. CASE ReconcileQueues
      BY <1>1, <1>3 DEF ReconcileQueues
<1>4. CASE ReconcileLock
  <2>1. PICK l \in reconcile.todo :
            /\ lock[l] = Free
            /\ lock' = Locked({l}, Reconciler)
            /\ reconcile' = [reconcile EXCEPT !.todo = @ \ {l}]
        BY <1>4 DEF ReconcileLock
  <2>2. UNCHANGED <<jobs, lanes, jobLock, fetch, finish>>
        BY <1>4 DEF ReconcileLock
  <2>3. LaneMoves(Reconciler)
        BY <2>1 DEF LaneMoves, Locked
  <2>4. \A k \in Lane : k \in reconcile'.todo => k \in reconcile.todo
        BY <2>1 DEF TypeOK
  <2>5. ASSUME NEW k \in Lane
        PROVE  ReconcileInv(k)'
    <3>1. ReconcileInv(k)
          BY <1>0
    <3>2. lock'[k] = Reconciler => lock[k] = Reconciler \/ k = l
          BY <2>1 DEF Locked
    <3> QED BY <2>1, <2>4, <3>1, <3>2 DEF ReconcileInv, Sound
  <2> QED BY <1>0, <2>2, <2>3, <2>5, OthersHold
<1>5. ASSUME UNCHANGED <<jobs, jobLock, fetch, finish>>, lock' = Unlocked(Reconciler),
             reconcile' = NoReconcile
      PROVE  LaneMoves(Reconciler) /\ \A l \in Lane : ReconcileInv(l)'
  <2>1. \A l \in Lane : lock'[l] = IF lock[l] = Reconciler THEN Free ELSE lock[l]
        BY <1>5 DEF Unlocked
  <2>2. reconcile'.todo = {}
        BY <1>5 DEF NoReconcile
  <2> QED BY <1>0, <2>1, <2>2 DEF LaneMoves, ReconcileInv
<1>6. CASE ReconcileCommit
  <2>1. /\ UNCHANGED <<jobs, jobLock, fetch, finish>>
        /\ lock' = Unlocked(Reconciler) /\ reconcile' = NoReconcile
        BY <1>6 DEF ReconcileCommit
  <2>2. ASSUME NEW l \in Lane
        PROVE  /\ lanes'[l].row = lanes[l].row
               /\ Sound(l) \/ lanes[l].running_count = 0 =>
                     lanes'[l].running_count = lanes[l].running_count
    <3>1. lanes[l] \in LaneRow /\ reconcile.actual[l] \in Nat /\ ReconcileInv(l)
          BY <1>0
    <3>2. lanes'[l] = IF lock[l] = Reconciler /\ lanes[l].running_count > reconcile.actual[l]
                      THEN [lanes[l] EXCEPT !.running_count = reconcile.actual[l]]
                      ELSE lanes[l]
          BY <1>6 DEF ReconcileCommit
    <3>3. lanes'[l].row = lanes[l].row
          BY <3>1, <3>2 DEF LaneRow
    <3>4. lanes[l].running_count = 0 => lanes'[l] = lanes[l]
          BY <3>1, <3>2 DEF LaneRow
    <3>5. Sound(l) => lanes'[l] = lanes[l]
          BY <3>1, <3>2 DEF ReconcileInv
    <3> QED BY <3>3, <3>4, <3>5
  <2> QED BY <1>0, <1>5, <2>1, <2>2, OthersHold
<1>7. CASE RollbackReconcile
      BY <1>0, <1>5, <1>7, OthersHold DEF RollbackReconcile
<1> QED BY <1>2, <1>3, <1>4, <1>6, <1>7

\* At the start nobody holds a lock and nothing runs.
LEMMA InitHolds ==
    ASSUME Init
    PROVE  LaneInv
<1>1. TypeOK
  <2>1. lanes \in [Lane -> LaneRow]
        BY LaneConstants, UnlimitedType DEF Init, LaneRow
  <2>2. fetch \in [Fetcher -> FetchState]
        BY NoFetchType DEF Init
  <2>3. NoReconcile \in [pc : {"idle", "groups", "queues"}, actual : [Lane -> Nat],
                         todo : SUBSET Lane]
        BY DEF NoReconcile
  <2> QED BY <2>1, <2>2, <2>3 DEF Init, TypeOK, LaneRow, FetchState
<1>2. NoFetch.pc = "idle" /\ NoFetch.accepted = {} /\ NoFetch.written = {}
      BY DEF NoFetch
<1>3. ASSUME NEW j \in Job
      PROVE  JobInv(j) /\ FinishInv(j)
      BY Distinct, LaneConstants DEF Init, JobInv, FinishInv
<1>4. ASSUME NEW c \in Fetcher
      PROVE  FetchInv(c)
      BY <1>2, Distinct DEF Init, FetchInv
<1>5. ASSUME NEW l \in Lane
      PROVE  RowInv(l) /\ ReconcileInv(l)
  <2>1. Running(l) = {} /\ Cardinality(Running(l)) = 0
        BY FS_EmptySet DEF Init, Running, JobsOf
  <2>2. lanes[l].running_count = 0 /\ lanes[l].row = (InitialCap[l] # NoCap)
        BY DEF Init
  <2>3. lock[l] = Free /\ reconcile.todo = {}
        BY DEF Init, NoReconcile
  <2> QED BY <2>1, <2>2, <2>3, Distinct DEF RowInv, ReconcileInv
<1> QED BY <1>1, <1>3, <1>4, <1>5 DEF LaneInv

\* Every step keeps the invariant of the locks.
LEMMA LaneStep ==
    ASSUME LaneInv, [Next]_vars
    PROVE  LaneInv'
<1>0. TypeOK /\ Holds
      BY DEF LaneInv, Holds
<1>1. CASE UNCHANGED vars
  <2>1. TypeOK'
        BY <1>0, <1>1, TypesStep
  <2>2. \A j \in Job : \/ jobs'[j] = jobs[j]
                       \/ jobs[j] = "absent" /\ jobs'[j] = "pending"
        BY <1>1 DEF vars
  <2>3. LaneMoves(Reconciler) /\ UNCHANGED <<jobLock, fetch, finish, lanes>>
        BY <1>1 DEF vars, LaneMoves
  <2>4. \A l \in Lane : ReconcileInv(l)' /\ (lanes[l].row \/ lanes[l].running_count = 0)
        BY <1>0, <1>1 DEF vars, Holds, ReconcileInv, RowInv, Sound
  <2>5. Holds'
        BY <1>0, <2>2, <2>3, <2>4, OthersHold
  <2> QED BY <2>1, <2>5 DEF LaneInv, Holds
<1>2. CASE Next
  <2>1. TypeOK'
        BY <1>0, <1>2, TypesStep
  <2>2. ASSUME NEW j \in Job, finish_job(j)
        PROVE  Holds'
        BY <1>0, <2>2, SettleStep, CommitFinishHolds DEF finish_job
  <2>3. Holds'
        BY <1>0, <1>2, <2>2, ClaimHolds, AdminHolds, ReconcileHolds DEF Next
  <2> QED BY <2>1, <2>3 DEF LaneInv, Holds
<1> QED BY <1>1, <1>2


-----------------------------------------------------------------------------
(* What follows for the runs' properties.                                  *)

\* At each of its statements a transaction of fetch.rs holds the rows it relies
\* on, and before it commits it has locked and written every sound lane it changes,
\* whatever transactions overlap, wait, roll back or are deadlock victims.
THEOREM LocksAreHeld == Spec => []LaneInv
<1> QED BY InitHolds, LaneStep, PTL DEF Spec

\* Rows are well formed and no job is in two claims, and none that is being
\* settled is in one: the row locks of SELECT ... FOR UPDATE SKIP LOCKED see to
\* it (fetch.rs:278-360).
THEOREM OneClaimPerRow == Spec => []ClaimInv
<1>1. LaneInv => ClaimInv
  <2> SUFFICES ASSUME LaneInv
               PROVE  OneClaimPerJob
      BY DEF ClaimInv, LaneInv
  <2> SUFFICES ASSUME NEW j \in Job
               PROVE  /\ Cardinality({c \in Fetcher : j \in fetch[c].accepted}) <= 1
                      /\ (\E c \in Fetcher : j \in fetch[c].accepted) =>
                             jobs[j] = "pending" /\ finish[j] = "idle"
      BY DEF OneClaimPerJob
  <2>1. JobInv(j) /\ \A c \in Fetcher : FetchInv(c)
        BY DEF LaneInv
  <2>2. \A c \in Fetcher : j \in fetch[c].accepted => jobLock[j] = c
        BY <2>1 DEF FetchInv
  <2>3. (\E c \in Fetcher : j \in fetch[c].accepted) =>
            jobs[j] = "pending" /\ finish[j] = "idle"
        BY <2>1, <2>2, Distinct DEF JobInv
  <2> DEFINE C == {c \in Fetcher : j \in fetch[c].accepted}
  <2>4. Cardinality(C) <= 1
    <3>1. CASE C = {}
          BY <3>1, FS_EmptySet
    <3>2. CASE C # {}
      <4>1. C = {jobLock[j]}
            BY <2>2, <3>2
      <4>2. Cardinality(C) = 1
            BY <4>1, FS_Singleton
      <4> QED BY <4>2
    <3> QED BY <3>1, <3>2
  <2> QED BY <2>3, <2>4
<1> QED BY <1>1, LocksAreHeld, PTL

\* The counters of groups are exact whatever rows are created under running
\* claims (fetch.rs:545-595).
THEOREM GroupCountersAreExact == Spec => []GroupCountersExact
<1>1. LaneInv => GroupCountersExact
  <2> SUFFICES ASSUME LaneInv, NEW g \in Group
               PROVE  IF lanes[g].row
                      THEN lanes[g].running_count = Cardinality(Running(g))
                      ELSE Running(g) = {}
      BY DEF GroupCountersExact
  <2>1. g \in Lane
        BY DEF Lane
  <2>2. RowInv(g) /\ Sound(g)
        BY <2>1 DEF LaneInv, Sound
  <2>3. IsFiniteSet(Running(g))
        BY <2>1, RunningJobs, JobSets
  <2> QED BY <2>2, <2>3, FS_EmptySet DEF RowInv
<1> QED BY <1>1, LocksAreHeld, PTL

\* If every queue had its row before the first job, every counter is exact at
\* every moment; a queue row created later misses the claims under way.
THEOREM CountersAreExact ==
    ASSUME \A q \in Queue : InitialCap[q] # NoCap
    PROVE  Spec => []CountersExact
<1>1. LaneInv => CountersExact
  <2> SUFFICES ASSUME LaneInv, NEW l \in Lane
               PROVE  lanes[l].running_count = Cardinality(Running(l))
      BY DEF CountersExact
  <2>1. RowInv(l) /\ Sound(l)
        BY DEF LaneInv, Sound, Lane
  <2> QED BY <2>1 DEF RowInv
<1> QED BY <1>1, LocksAreHeld, PTL


-----------------------------------------------------------------------------
(* Caps.                                                                   *)

\* Lanes that have a cap from the start keep it, and it is one: i32::MAX says
\* no limit (fetch.rs:177-186).
FixedCaps ==
    \A l \in Lane : InitialCap[l] # NoCap => l \notin Operable /\ InitialCap[l] < Unlimited

\* What a lane with a cap leaves is the rest of its cap.
LEMMA CapSlots ==
    ASSUME LaneInv, CapInv, FixedCaps, NEW l \in Lane, InitialCap[l] # NoCap
    PROVE  /\ lanes[l].row /\ lanes[l].running_count \in Nat /\ InitialCap[l] \in Nat
           /\ lanes[l].running_count + SlotsOf(l) <= InitialCap[l] /\ SlotsOf(l) \in Nat
           /\ l \in Queue => queue_row_needs_lock(l) \/ SlotsOf(l) = 0
           /\ lanes[l].running_count = Cardinality(Running(l))
           /\ RowInv(l) /\ ReconcileInv(l)
<1>1. /\ lanes[l] \in LaneRow /\ RowInv(l) /\ Sound(l) /\ ReconcileInv(l)
      /\ InitialCap[l] \in Nat
      BY LaneConstants DEF LaneInv, TypeOK, LaneRow, Sound
<1>2. /\ lanes[l].max_concurrency = InitialCap[l] /\ ~lanes[l].paused
      /\ Cardinality(Running(l)) <= InitialCap[l]
      BY DEF CapInv
<1>3. lanes[l].row /\ lanes[l].running_count = Cardinality(Running(l))
      /\ lanes[l].running_count \in Nat
      BY <1>1 DEF RowInv, LaneRow
<1>4. InitialCap[l] < Unlimited
      BY DEF FixedCaps
<1>5. SlotsOf(l) = InitialCap[l] - lanes[l].running_count
      BY <1>1, <1>2, <1>3 DEF SlotsOf
<1>6. lanes[l].running_count < InitialCap[l] => queue_row_needs_lock(l)
      BY <1>2, <1>3, <1>4 DEF queue_row_needs_lock
<1> QED BY <1>1, <1>2, <1>3, <1>5, <1>6

\* A statement of a claim that commits nothing: only its own budget moves.
LEMMA CapFetch ==
    ASSUME LaneInv, CapInv, NEW c \in Fetcher, LaneMoves(c),
           UNCHANGED <<jobs, lanes>>,
           \A d \in Fetcher \ {c} : fetch'[d] = fetch[d],
           \A l \in Lane : InitialCap[l] # NoCap => Within(c, l)'
    PROVE  CapInv'
<1> SUFFICES ASSUME NEW l \in Lane, InitialCap[l] # NoCap
             PROVE  /\ lanes'[l].max_concurrency = InitialCap[l] /\ ~lanes'[l].paused
                    /\ Cardinality(Running(l)') <= InitialCap[l]
                    /\ \A d \in Fetcher : Within(d, l)'
    BY DEF CapInv
<1>1. Running(l)' = Running(l)
      BY DEF Running
<1>2. ASSUME NEW d \in Fetcher, d # c
      PROVE  Within(d, l)'
  <2>1. Within(d, l) /\ fetch'[d] = fetch[d]
        BY <1>2 DEF CapInv
  <2>2. lock'[l] = d <=> lock[l] = d
        BY <1>2, Distinct DEF LaneMoves
  <2> QED BY <2>1, <2>2 DEF Within, JobsOf
<1> QED BY <1>1, <1>2 DEF CapInv

\* A step of another transaction: it writes no row that a claim holds, and
\* starts no job.
LEMMA CapOthers ==
    ASSUME LaneInv, LaneInv', CapInv, NEW t, t \notin Fetcher, LaneMoves(t), fetch' = fetch,
           \A l \in Lane : InitialCap[l] # NoCap =>
               /\ lanes'[l].max_concurrency = lanes[l].max_concurrency
               /\ lanes'[l].paused = lanes[l].paused
               /\ lanes'[l] = lanes[l] \/ lock[l] = t
               /\ \A j \in Job : jobs'[j] = "running" => jobs[j] = "running"
    PROVE  CapInv'
<1> SUFFICES ASSUME NEW l \in Lane, InitialCap[l] # NoCap
             PROVE  /\ lanes'[l].max_concurrency = InitialCap[l] /\ ~lanes'[l].paused
                    /\ Cardinality(Running(l)') <= InitialCap[l]
                    /\ \A d \in Fetcher : Within(d, l)'
    BY DEF CapInv
<1>1. lanes'[l].max_concurrency = InitialCap[l] /\ ~lanes'[l].paused
      BY DEF CapInv
<1>2. Cardinality(Running(l)') <= InitialCap[l]
  <2>1. Running(l) \in SUBSET Job /\ Running(l)' \in SUBSET Running(l)
        BY DEF Running, JobsOf
  <2>2. IsFiniteSet(Running(l)) /\ Cardinality(Running(l)) \in Nat
        BY <2>1, JobSets
  <2>3. Cardinality(Running(l)') <= Cardinality(Running(l))
        BY <2>1, <2>2, FS_Subset
  <2>4. Cardinality(Running(l)') \in Nat
        BY <2>1, JobSets
  <2>5. Cardinality(Running(l)) <= InitialCap[l] /\ InitialCap[l] \in Nat
        BY LaneConstants DEF CapInv
  <2> QED BY <2>2, <2>3, <2>4, <2>5
<1>3. ASSUME NEW d \in Fetcher
      PROVE  Within(d, l)'
  <2>1. Within(d, l)
        BY DEF CapInv
  <2>2. lock[l] = d => lock'[l] = d /\ lanes'[l] = lanes[l]
        BY Distinct DEF LaneMoves
  <2> QED BY <2>1, <2>2 DEF Within, JobsOf
<1> QED BY <1>1, <1>2, <1>3

\* The reads of a claim give it no more of a lane than is left, and only under
\* the lock of its row.
LEMMA CapRead ==
    ASSUME LaneInv, CapInv, FixedCaps, NEW c \in Fetcher,
           \/ ReadBudgets(c) \/ LockBudgets(c) \/ WalkGroups(c)
           \/ LockGroups(c) \/ CheckGroups(c)
    PROVE  CapInv'
<1>0. /\ fetch[c] \in FetchState /\ fetch \in [Fetcher -> FetchState]
      /\ c # Free /\ FetchInv(c)
      /\ \A L : \A l \in Lane : Locked(L, c)[l] = IF l \in L THEN c ELSE lock[l]
      /\ \A l \in Lane : InitialCap[l] # NoCap => Within(c, l)
      BY Distinct DEF LaneInv, TypeOK, FetchState, Locked, CapInv
<1>1. CASE ReadBudgets(c)
  <2> DEFINE b == [l \in Lane |-> IF l \in Group THEN 0
                                  ELSE IF lanes[l].row THEN SlotsOf(l) ELSE Unlimited]
             B == {q \in Queue : queue_row_needs_lock(q)}
             f == [NoFetch EXCEPT !.pc = "lock queues", !.binding = B, !.budget = b]
  <2>1. /\ fetch' = [fetch EXCEPT ![c] = f]
        /\ UNCHANGED <<jobs, lanes, lock>>
        BY <1>1 DEF ReadBudgets
  <2>2. ASSUME NEW l \in Lane, InitialCap[l] # NoCap
        PROVE  l \in B \/ b[l] = 0
        BY <2>2, CapSlots DEF Lane
  <2> HIDE DEF b, B
  <2>3. f.pc = "lock queues" /\ f.binding = B /\ f.budget = b
        BY DEF NoFetch
  <2> HIDE DEF f
  <2>4. fetch'[c] = f /\ \A d \in Fetcher \ {c} : fetch'[d] = fetch[d]
        BY <1>0, <2>1
  <2>5. \A l \in Lane : InitialCap[l] # NoCap => Within(c, l)'
        BY <2>2, <2>3, <2>4 DEF Within
  <2> QED BY <2>1, <2>4, <2>5, CapFetch DEF LaneMoves
<1>2. CASE LockBudgets(c)
  <2> DEFINE got == {q \in fetch[c].binding : lock[q] = Free}
             b == [l \in Lane |-> IF l \in got THEN SlotsOf(l)
                                  ELSE IF l \in fetch[c].binding THEN 0
                                  ELSE fetch[c].budget[l]]
             f == [fetch[c] EXCEPT !.pc = "ungrouped", !.budget = b]
  <2>1. /\ \/ fetch' = [fetch EXCEPT ![c] = NoFetch] /\ lock' = lock
           \/ fetch' = [fetch EXCEPT ![c] = f] /\ lock' = Locked(got, c)
        /\ UNCHANGED <<jobs, lanes>>
        BY <1>0, <1>2 DEF LockBudgets, FetchState
  <2>2. fetch[c].pc = "lock queues"
        BY <1>2 DEF LockBudgets, Step
  <2>3. \A l \in got : lock[l] = Free
        OBVIOUS
  <2>4. ASSUME NEW l \in Lane, InitialCap[l] # NoCap
        PROVE  (l \in got /\ b[l] = SlotsOf(l)) \/ b[l] = 0
        BY <1>0, <2>2, <2>4 DEF Within
  <2> HIDE DEF b, got
  <2>5. f.pc = "ungrouped" /\ f.budget = b /\ f.accepted = {} /\ NoFetch.pc = "idle"
        BY <1>0, <2>2 DEF NoFetch, FetchInv, FetchState
  <2> HIDE DEF f
  <2>6. /\ \A d \in Fetcher \ {c} : fetch'[d] = fetch[d]
        /\ fetch'[c] = NoFetch \/ (fetch'[c] = f /\ lock' = Locked(got, c))
    <3>1. CASE fetch' = [fetch EXCEPT ![c] = NoFetch]
          BY <1>0, <3>1
    <3>2. CASE fetch' = [fetch EXCEPT ![c] = f] /\ lock' = Locked(got, c)
          BY <1>0, <3>2
    <3> QED BY <2>1, <3>1, <3>2
  <2>7. ASSUME NEW l \in Lane, InitialCap[l] # NoCap
        PROVE  Within(c, l)'
    <3>1. CASE fetch'[c] = NoFetch
          BY <2>5, <3>1 DEF Within
    <3>2. CASE fetch'[c] = f /\ lock' = Locked(got, c)
      <4>1. l \in got => lock'[l] = c
            BY <1>0, <3>2
      <4>2. {} \cap JobsOf(l) = {} /\ Cardinality({} \cap JobsOf(l)) = 0
            BY FS_EmptySet
      <4>3. lanes[l].running_count + 0 + SlotsOf(l) <= InitialCap[l]
            BY <2>7, CapSlots
      <4> QED BY <2>1, <2>4, <2>5, <2>7, <3>2, <4>1, <4>2, <4>3 DEF Within, JobsOf
    <3> QED BY <2>6, <3>1, <3>2
  <2>8. LaneMoves(c)
        BY <1>0, <2>1, <2>3 DEF LaneMoves
  <2> QED BY <2>1, <2>6, <2>7, <2>8, CapFetch
<1>3. CASE WalkGroups(c)
  <2> DEFINE K == {g \in Group : /\ Cardinality(fetch[c].accepted) < BatchSize
                                 /\ \E j \in JobsOf(g) :
                                       /\ jobs[j] = "pending"
                                       /\ fetch[c].budget[QueueOf[j]] > 0}
             f == [fetch[c] EXCEPT !.pc = "lock groups", !.keys = K]
  <2>1. fetch' = [fetch EXCEPT ![c] = f] /\ UNCHANGED <<jobs, lanes, lock>>
        BY <1>0, <1>3 DEF WalkGroups, FetchState
  <2> HIDE DEF K
  <2>2. f.pc = "lock groups" /\ f.accepted = fetch[c].accepted /\ f.budget = fetch[c].budget
        BY <1>0 DEF FetchState
  <2> HIDE DEF f
  <2>3. fetch[c].pc = "walk groups"
        BY <1>3 DEF WalkGroups, Step
  <2>4. fetch'[c] = f /\ \A d \in Fetcher \ {c} : fetch'[d] = fetch[d]
        BY <1>0, <2>1
  <2>5. \A l \in Lane : InitialCap[l] # NoCap => Within(c, l)'
        BY <1>0, <2>1, <2>2, <2>3, <2>4 DEF Within, JobsOf
  <2> QED BY <2>1, <2>4, <2>5, CapFetch DEF LaneMoves
<1>4. CASE LockGroups(c)
  <2> DEFINE got == {g \in fetch[c].keys : lanes[g].row /\ lock[g] = Free}
             b == [l \in Lane |-> IF l \in got THEN SlotsOf(l) ELSE fetch[c].budget[l]]
             f == [fetch[c] EXCEPT !.pc = "check groups", !.budget = b]
  <2>1. /\ fetch' = [fetch EXCEPT ![c] = f] /\ lock' = Locked(got, c)
        /\ UNCHANGED <<jobs, lanes>>
        BY <1>0, <1>4 DEF LockGroups, FetchState
  <2>2. /\ \A l \in got : lock[l] = Free
        /\ \A l \in Lane : b[l] = IF l \in got THEN SlotsOf(l) ELSE fetch[c].budget[l]
        OBVIOUS
  <2> HIDE DEF b, got
  <2>3. f.pc = "check groups" /\ f.accepted = fetch[c].accepted /\ f.budget = b
        BY <1>0 DEF FetchState
  <2> HIDE DEF f
  <2>4. fetch[c].pc = "lock groups"
        BY <1>4 DEF LockGroups, Step
  <2>5. fetch'[c] = f /\ \A d \in Fetcher \ {c} : fetch'[d] = fetch[d]
        BY <1>0, <2>1
  <2>6. ASSUME NEW l \in Lane, InitialCap[l] # NoCap
        PROVE  Within(c, l)'
    <3>1. Within(c, l) /\ lock'[l] = IF l \in got THEN c ELSE lock[l]
          BY <1>0, <2>1, <2>6
    <3>2. CASE l \in got
      <4>1. fetch[c].accepted \cap JobsOf(l) = {}
            BY <1>0, <2>2, <2>4, <3>1, <3>2 DEF Within
      <4>2. Cardinality(fetch[c].accepted \cap JobsOf(l)) = 0
            BY <4>1, FS_EmptySet
      <4>3. lanes[l].running_count + 0 + SlotsOf(l) <= InitialCap[l]
            BY <2>6, CapSlots
      <4> QED BY <2>1, <2>2, <2>3, <2>5, <3>1, <3>2, <4>2, <4>3 DEF Within, JobsOf
    <3>3. CASE l \notin got
          BY <2>1, <2>2, <2>3, <2>4, <2>5, <3>1, <3>3 DEF Within, JobsOf
    <3> QED BY <3>2, <3>3
  <2>7. LaneMoves(c)
        BY <1>0, <2>1, <2>2 DEF LaneMoves
  <2> QED BY <2>1, <2>5, <2>6, <2>7, CapFetch
<1>5. CASE CheckGroups(c)
  <2> DEFINE b == [l \in Lane |-> IF l \in fetch[c].keys /\ ~lanes[l].row THEN Unlimited
                                  ELSE fetch[c].budget[l]]
             f == [fetch[c] EXCEPT !.pc = "grouped", !.budget = b]
  <2>1. fetch' = [fetch EXCEPT ![c] = f] /\ UNCHANGED <<jobs, lanes, lock>>
        BY <1>0, <1>5 DEF CheckGroups, FetchState
  <2>2. \A l \in Lane : InitialCap[l] # NoCap => b[l] = fetch[c].budget[l]
        BY CapSlots
  <2> HIDE DEF b
  <2>3. f.pc = "grouped" /\ f.accepted = fetch[c].accepted /\ f.budget = b
        BY <1>0 DEF FetchState
  <2> HIDE DEF f
  <2>4. fetch[c].pc = "check groups"
        BY <1>5 DEF CheckGroups, Step
  <2>5. fetch'[c] = f /\ \A d \in Fetcher \ {c} : fetch'[d] = fetch[d]
        BY <1>0, <2>1
  <2>6. \A l \in Lane : InitialCap[l] # NoCap => Within(c, l)'
        BY <1>0, <2>1, <2>2, <2>3, <2>4, <2>5 DEF Within, JobsOf
  <2> QED BY <2>1, <2>5, <2>6, CapFetch DEF LaneMoves
<1> QED BY <1>1, <1>2, <1>3, <1>4, <1>5

\* A budget is spent on what is accepted.
LEMMA SpendWithin ==
    ASSUME NEW n \in Nat, NEW a \in Nat, NEW s \in Nat, NEW k \in Nat, NEW cap \in Nat,
           n + a + k <= cap, s <= k, cap < Unlimited
    PROVE  n + (a + s) + (IF k = Unlimited THEN k ELSE k - s) <= cap
<1>1. k < Unlimited
      BY SMT DEF Unlimited
<1>2. (IF k = Unlimited THEN k ELSE k - s) = k - s
      BY <1>1, UnlimitedType
<1> QED BY <1>2

\* An empty budget stays empty.
LEMMA SpendNothing ==
    ASSUME NEW s \in Nat, NEW k \in Nat, s <= k, k = 0
    PROVE  s = 0 /\ (IF k = Unlimited THEN k ELSE k - s) = 0
OBVIOUS

\* Accepted jobs are within the rest of the cap, and none are of a lane whose
\* lock the claim does not hold.
LEMMA CapAccept ==
    ASSUME LaneInv, CapInv, FixedCaps, NEW c \in Fetcher, NEW S \in SUBSET Job,
           NEW pc \in {"walk groups", "write"}, Accept(c, S, pc),
           fetch[c].pc \in {"ungrouped", "grouped"},
           \A j \in S : jobs[j] = "pending" /\ jobLock[j] = Free,
           \A l \in Lane : Cardinality(S \cap JobsOf(l)) <= fetch[c].budget[l],
           UNCHANGED <<jobs, lanes, lock>>
    PROVE  CapInv'
<1>0. /\ fetch[c] \in FetchState /\ fetch \in [Fetcher -> FetchState]
      /\ c # Free /\ FetchInv(c) /\ fetch[c].accepted \in SUBSET Job
      BY Distinct, AcceptedJobs DEF LaneInv, TypeOK, FetchState
<1> DEFINE A == fetch[c].accepted \cup S
           b == [l \in Lane |-> IF fetch[c].budget[l] = Unlimited THEN fetch[c].budget[l]
                                ELSE fetch[c].budget[l] - Cardinality(S \cap JobsOf(l))]
           f == [fetch[c] EXCEPT !.pc = pc, !.accepted = A,
                     !.todo = LanesOf(A), !.budget = b]
<1>1. fetch' = [fetch EXCEPT ![c] = f]
      BY <1>0 DEF Accept, FetchState
<1>2. /\ \A l \in Lane : b[l] = IF fetch[c].budget[l] = Unlimited THEN fetch[c].budget[l]
                                ELSE fetch[c].budget[l] - Cardinality(S \cap JobsOf(l))
      /\ \A l \in Lane : A \cap JobsOf(l) = (fetch[c].accepted \cap JobsOf(l))
                                               \cup (S \cap JobsOf(l))
      OBVIOUS
<1> HIDE DEF A, b
<1>3. f.pc = pc /\ f.accepted = A /\ f.budget = b
      BY <1>0 DEF FetchState
<1> HIDE DEF f
<1>4. fetch'[c] = f /\ \A d \in Fetcher \ {c} : fetch'[d] = fetch[d]
      BY <1>0, <1>1
<1>5. fetch[c].accepted \cap S = {}
  <2>1. \A j \in fetch[c].accepted : jobLock[j] = c
        BY <1>0 DEF FetchInv
  <2>2. \A j \in S : jobLock[j] # c
        BY <1>0
  <2> QED BY <2>1, <2>2
<1>6. ASSUME NEW l \in Lane, InitialCap[l] # NoCap
      PROVE  Within(c, l)'
  <2> DEFINE s == Cardinality(S \cap JobsOf(l))
             a == Cardinality(fetch[c].accepted \cap JobsOf(l))
             k == fetch[c].budget[l]
             n == lanes[l].running_count
             e == IF k = Unlimited THEN k ELSE k - s
  <2>1. /\ s \in Nat /\ a \in Nat /\ k \in Nat /\ n \in Nat /\ s <= k
        /\ InitialCap[l] \in Nat /\ InitialCap[l] < Unlimited
    <3>1. s \in Nat /\ a \in Nat
          BY <1>0, JobSets
    <3>2. k \in Nat /\ s <= k
          BY <1>0 DEF FetchState
    <3>3. n \in Nat /\ InitialCap[l] \in Nat
          BY <1>6, CapSlots
    <3> QED BY <1>6, <3>1, <3>2, <3>3 DEF FixedCaps
  <2>2. Within(c, l) /\ fetch[c].pc \notin {"idle", "lock queues"}
        BY <1>6 DEF CapInv
  <2>3. f.budget[l] = e
        BY <1>2, <1>3
  <2>4. CASE lock[l] = c /\ n + a + k <= InitialCap[l]
    <3>1. Cardinality(A \cap JobsOf(l)) = a + s
          BY <1>0, <1>2, <1>5, DisjointCount
    <3> HIDE DEF s, a, k, n
    <3>2. n + (a + s) + e <= InitialCap[l]
          BY <2>1, <2>4, SpendWithin
    <3> HIDE DEF e
    <3> QED BY <1>3, <1>4, <2>3, <2>4, <3>1, <3>2 DEF Within, JobsOf, n
  <2>5. CASE k = 0 /\ fetch[c].accepted \cap JobsOf(l) = {}
    <3>0. k \in Nat /\ s \in Nat /\ s <= k /\ k = 0
          BY <2>1, <2>5
    <3>1. s = 0 /\ e = 0
      <4> HIDE DEF s, k
      <4> QED BY <3>0, SpendNothing
    <3>2. S \cap JobsOf(l) = {}
          BY <3>1, JobSets, FS_EmptySet
    <3>3. A \cap JobsOf(l) = {}
          BY <1>2, <2>5, <3>2
    <3> HIDE DEF e
    <3> QED BY <1>3, <1>4, <2>3, <3>1, <3>3 DEF Within, JobsOf
  <2> QED BY <2>2, <2>4, <2>5 DEF Within
<1> QED BY <1>4, <1>6, CapFetch DEF LaneMoves

\* A write and a rollback change no budget.
LEMMA CapWrite ==
    ASSUME LaneInv, CapInv, NEW c \in Fetcher, WriteLane(c) \/ Rollback(c)
    PROVE  CapInv'
<1>0. /\ fetch[c] \in FetchState /\ fetch \in [Fetcher -> FetchState] /\ c # Free
      /\ \A l \in Lane : InitialCap[l] # NoCap => Within(c, l)
      BY Distinct DEF LaneInv, TypeOK, FetchState, CapInv
<1>1. CASE WriteLane(c)
  <2>1. PICK l \in fetch[c].todo :
            \/ /\ CanLock(l, c) /\ lock' = Locked({l}, c)
               /\ fetch' = [fetch EXCEPT ![c].todo = @ \ {l}, ![c].written = @ \cup {l}]
            \/ /\ fetch' = [fetch EXCEPT ![c].todo = @ \ {l}]
               /\ UNCHANGED lock
        BY <1>1 DEF WriteLane
  <2>2. fetch[c].pc = "write" /\ UNCHANGED <<jobs, lanes>>
        BY <1>1 DEF WriteLane, Step
  <2>3. /\ fetch'[c].pc = fetch[c].pc /\ fetch'[c].accepted = fetch[c].accepted
        /\ fetch'[c].budget = fetch[c].budget
        /\ \A d \in Fetcher \ {c} : fetch'[d] = fetch[d]
    <3> DEFINE T == fetch[c].todo \ {l}
               W == fetch[c].written \cup {l}
               f == [fetch[c] EXCEPT !.todo = T, !.written = W]
               g == [fetch[c] EXCEPT !.todo = T]
    <3>1. fetch' = [fetch EXCEPT ![c] = f] \/ fetch' = [fetch EXCEPT ![c] = g]
          BY <1>0, <2>1 DEF FetchState
    <3> HIDE DEF T, W
    <3>2. /\ f.pc = fetch[c].pc /\ f.accepted = fetch[c].accepted /\ f.budget = fetch[c].budget
          /\ g.pc = fetch[c].pc /\ g.accepted = fetch[c].accepted /\ g.budget = fetch[c].budget
          BY <1>0 DEF FetchState
    <3> HIDE DEF f, g
    <3> QED BY <1>0, <3>1, <3>2
  <2>4. LaneMoves(c) /\ \A k \in Lane : lock[k] = c => lock'[k] = c
        BY <2>1 DEF LaneMoves, Locked, CanLock
  <2>5. \A k \in Lane : InitialCap[k] # NoCap => Within(c, k)'
        BY <1>0, <2>2, <2>3, <2>4 DEF Within, JobsOf
  <2> QED BY <2>2, <2>3, <2>4, <2>5, CapFetch
<1>2. CASE Rollback(c)
  <2>1. /\ fetch'[c] = NoFetch /\ \A d \in Fetcher \ {c} : fetch'[d] = fetch[d]
        /\ lock' = Unlocked(c) /\ UNCHANGED <<jobs, lanes>>
        BY <1>0, <1>2 DEF Rollback
  <2>2. NoFetch.pc = "idle"
        BY DEF NoFetch
  <2>3. LaneMoves(c)
        BY <2>1 DEF LaneMoves, Unlocked
  <2>4. \A k \in Lane : InitialCap[k] # NoCap => Within(c, k)'
        BY <2>1, <2>2 DEF Within
  <2> QED BY <2>1, <2>3, <2>4, CapFetch
<1> QED BY <1>1, <1>2

\* What a claim starts was within its budget, and nobody else has one.
LEMMA CapCommit ==
    ASSUME LaneInv, CapInv, FixedCaps, NEW c \in Fetcher, CommitClaim(c)
    PROVE  CapInv'
<1>0. /\ fetch[c] \in FetchState /\ c # Free /\ FetchInv(c)
      /\ fetch[c].accepted \in SUBSET Job /\ TypeOK
      /\ \A j \in Job : JobInv(j)
      BY Distinct, AcceptedJobs DEF LaneInv, TypeOK, FetchState
<1>1. /\ fetch'[c] = NoFetch /\ \A d \in Fetcher \ {c} : fetch'[d] = fetch[d]
      /\ \A l \in Lane : lock'[l] = IF lock[l] = c THEN Free ELSE lock[l]
      /\ \A j \in Job : jobs'[j] = IF j \in fetch[c].accepted THEN "running" ELSE jobs[j]
      /\ fetch[c].pc = "write"
      BY <1>0 DEF CommitClaim, TypeOK, Unlocked, Step
<1>2. \A j \in fetch[c].accepted : jobs[j] = "pending"
      BY <1>0 DEF FetchInv, JobInv
<1> SUFFICES ASSUME NEW l \in Lane, InitialCap[l] # NoCap
             PROVE  /\ lanes'[l].max_concurrency = InitialCap[l] /\ ~lanes'[l].paused
                    /\ Cardinality(Running(l)') <= InitialCap[l]
                    /\ \A d \in Fetcher : Within(d, l)'
    BY DEF CapInv
<1>3. lanes'[l].max_concurrency = InitialCap[l] /\ ~lanes'[l].paused
  <2>1. lanes[l] \in LaneRow
        BY <1>0 DEF TypeOK, LaneRow
  <2>2. \/ lanes'[l] = lanes[l]
        \/ lanes'[l] = [lanes[l] EXCEPT
                           !.row = TRUE,
                           !.running_count = @ + Cardinality(fetch[c].accepted \cap JobsOf(l))]
        BY DEF CommitClaim
  <2>3. lanes'[l].max_concurrency = lanes[l].max_concurrency /\ lanes'[l].paused = lanes[l].paused
        BY <2>1, <2>2 DEF LaneRow
  <2> QED BY <2>3 DEF CapInv
<1>4. Cardinality(Running(l)') <= InitialCap[l]
  <2> DEFINE N == fetch[c].accepted \cap JobsOf(l)
  <2>1. /\ Running(l)' = Running(l) \cup N
        /\ Running(l) \cap N = {} /\ Running(l) \in SUBSET Job /\ N \in SUBSET Job
        BY <1>0, <1>1, <1>2 DEF Running, JobsOf
  <2>2. Cardinality(Running(l)') = Cardinality(Running(l)) + Cardinality(N)
        BY <2>1, DisjointCount
  <2>3. Within(c, l) /\ Cardinality(Running(l)) <= InitialCap[l]
        BY DEF CapInv
  <2>4. CASE lanes[l].running_count + Cardinality(N) + fetch[c].budget[l] <= InitialCap[l]
    <3>1. /\ lanes[l].running_count = Cardinality(Running(l))
          /\ lanes[l].running_count \in Nat /\ InitialCap[l] \in Nat
          BY CapSlots
    <3>2. fetch[c].budget[l] \in Nat /\ Cardinality(N) \in Nat
          BY <1>0, <2>1, JobSets DEF FetchState
    <3> HIDE DEF N
    <3> QED BY <2>2, <2>4, <3>1, <3>2
  <2>5. CASE N = {}
    <3>1. Running(l)' = Running(l)
          BY <2>1, <2>5
    <3> QED BY <2>3, <3>1
  <2> QED BY <1>1, <2>3, <2>4, <2>5 DEF Within
<1>5. ASSUME NEW d \in Fetcher
      PROVE  Within(d, l)'
  <2>1. CASE d = c
    <3>1. NoFetch.pc = "idle"
          BY DEF NoFetch
    <3> QED BY <1>1, <2>1, <3>1 DEF Within
  <2>2. CASE d # c
    <3>1. Within(d, l) /\ fetch'[d] = fetch[d]
          BY <1>1, <2>2 DEF CapInv
    <3>2. lock[l] = d => lock'[l] = d /\ l \notin fetch[c].written
          BY <1>0, <1>1, <2>2 DEF FetchInv
    <3>3. lock[l] = d => lanes'[l] = lanes[l]
          BY <3>2 DEF CommitClaim
    <3> QED BY <3>1, <3>2, <3>3 DEF Within, JobsOf
  <2> QED BY <2>1, <2>2
<1> QED BY <1>3, <1>4, <1>5

\* Settling a job frees a slot.
LEMMA CapFinish ==
    ASSUME LaneInv, LaneInv', CapInv, NEW j \in Job, finish_job(j)
    PROVE  CapInv'
<1>0. j \notin Fetcher /\ j # Free /\ lanes \in [Lane -> LaneRow]
      /\ jobs \in [Job -> {"absent", "pending", "running", "done"}]
      BY Distinct DEF LaneInv, TypeOK, LaneRow
<1>1. fetch' = fetch
      BY DEF finish_job, FinishJob, FinishGroup, FinishQueue, Decrement, CommitFinish,
             RollbackFinish
<1>2. LaneMoves(j)
  <2>1. CASE lock' = lock
        BY <2>1 DEF LaneMoves
  <2>2. CASE lock' = Unlocked(j)
        BY <2>2 DEF LaneMoves, Unlocked
  <2>3. ASSUME NEW l \in Lane, CanLock(l, j), lock' = Locked({l}, j)
        PROVE  LaneMoves(j)
        BY <2>3 DEF LaneMoves, CanLock, Locked
  <2> QED BY <2>1, <2>2, <2>3 DEF finish_job, FinishJob, FinishGroup, FinishQueue, Decrement,
                                  CommitFinish, RollbackFinish
<1>3. CASE CommitFinish(j)
  <2>1. \A k \in Job : jobs'[k] = "running" => jobs[k] = "running"
        BY <1>0, <1>3 DEF CommitFinish
  <2>2. ASSUME NEW l \in Lane
        PROVE  /\ lanes'[l].max_concurrency = lanes[l].max_concurrency
               /\ lanes'[l].paused = lanes[l].paused
               /\ lanes'[l] = lanes[l] \/ lock[l] = j
    <3>1. lanes[l] \in LaneRow
          BY <1>0
    <3>2. lanes'[l] = IF lock[l] = j
                      THEN [lanes[l] EXCEPT !.running_count = IF @ > 0 THEN @ - 1 ELSE 0]
                      ELSE lanes[l]
          BY <1>3 DEF CommitFinish
    <3> QED BY <3>1, <3>2 DEF LaneRow
  <2> QED BY <1>0, <1>1, <1>2, <2>1, <2>2, CapOthers
<1>4. CASE UNCHANGED <<jobs, lanes>>
      BY <1>0, <1>1, <1>2, <1>4, CapOthers
<1> QED BY <1>3, <1>4 DEF finish_job, FinishJob, FinishGroup, FinishQueue, Decrement,
                          RollbackFinish

\* Producers, operators and the reconciliation leave capped lanes alone.
LEMMA CapAdmin ==
    ASSUME LaneInv, LaneInv', CapInv, FixedCaps,
           \/ \E j \in Job : enqueue_dyn(j) \/ materialize_from_rule(j)
           \/ \E l \in Operable : set_concurrency(l)
           \/ ReconcileGroups \/ ReconcileQueues \/ ReconcileLock
           \/ ReconcileCommit \/ RollbackReconcile
    PROVE  CapInv'
<1>0. /\ Reconciler \notin Fetcher /\ lanes \in [Lane -> LaneRow]
      /\ jobs \in [Job -> {"absent", "pending", "running", "done"}]
      /\ \A l \in Lane : InitialCap[l] # NoCap =>
             lanes[l].row /\ ReconcileInv(l) /\ Sound(l) /\ l \notin Operable
      BY LaneConstants, CapSlots DEF LaneInv, TypeOK, LaneRow, Sound, FixedCaps
<1>1. fetch' = fetch
      BY DEF enqueue_dyn, materialize_from_rule, set_concurrency, ReconcileGroups,
             ReconcileQueues, ReconcileLock, ReconcileCommit, RollbackReconcile
<1>2. LaneMoves(Reconciler)
  <2>1. CASE lock' = lock
        BY <2>1 DEF LaneMoves
  <2>2. CASE lock' = Unlocked(Reconciler)
        BY <2>2 DEF LaneMoves, Unlocked
  <2>3. CASE ReconcileLock
        BY <2>3 DEF LaneMoves, ReconcileLock, Locked
  <2> QED BY <2>1, <2>2, <2>3 DEF enqueue_dyn, materialize_from_rule, set_concurrency,
             ReconcileGroups, ReconcileQueues, ReconcileCommit, RollbackReconcile
<1>3. \A j \in Job : jobs'[j] = "running" => jobs[j] = "running"
  <2>1. CASE jobs' = jobs
        BY <2>1
  <2>2. ASSUME NEW j \in Job, enqueue_dyn(j)
        PROVE  \A k \in Job : jobs'[k] = "running" => jobs[k] = "running"
        BY <1>0, <2>2 DEF enqueue_dyn
  <2> QED BY <2>1, <2>2 DEF materialize_from_rule, set_concurrency, ReconcileGroups,
             ReconcileQueues, ReconcileLock, ReconcileCommit, RollbackReconcile
<1>4. \A l \in Lane : InitialCap[l] # NoCap => lanes'[l] = lanes[l]
  <2>1. CASE lanes' = lanes
        BY <2>1
  <2>2. ASSUME NEW j \in Job, materialize_from_rule(j)
        PROVE  \A l \in Lane : InitialCap[l] # NoCap => lanes'[l] = lanes[l]
    <3>1. CASE ~lanes[GroupOf[j]].row
          BY <1>0, <2>2, <3>1 DEF materialize_from_rule
    <3>2. CASE lanes[GroupOf[j]].row
          BY <2>2, <3>2 DEF materialize_from_rule
    <3> QED BY <3>1, <3>2
  <2>3. ASSUME NEW k \in Operable, set_concurrency(k)
        PROVE  \A l \in Lane : InitialCap[l] # NoCap => lanes'[l] = lanes[l]
        BY <1>0, <2>3 DEF set_concurrency
  <2>4. CASE ReconcileCommit
        BY <1>0, <2>4 DEF ReconcileCommit, ReconcileInv
  <2> QED BY <2>1, <2>2, <2>3, <2>4 DEF enqueue_dyn, ReconcileGroups, ReconcileQueues,
             ReconcileLock, RollbackReconcile
<1> QED BY <1>0, <1>1, <1>2, <1>3, <1>4, CapOthers

\* Two fetchers never both take the last slot: a lane that has its cap from the
\* start, and that no operator changes, never runs more jobs than that, whatever
\* claims, completions and reconciliations overlap (fetch.rs:161-193).
THEOREM CapsHold ==
    ASSUME FixedCaps
    PROVE  Spec => []CapHolds
<1>1. Init => CapInv
  <2> SUFFICES ASSUME Init, NEW l \in Lane, InitialCap[l] # NoCap
               PROVE  /\ lanes[l].max_concurrency = InitialCap[l] /\ ~lanes[l].paused
                      /\ Cardinality(Running(l)) <= InitialCap[l]
                      /\ \A c \in Fetcher : Within(c, l)
      BY DEF CapInv
  <2>1. Running(l) = {} /\ Cardinality(Running(l)) = 0 /\ InitialCap[l] \in Nat
        BY FS_EmptySet, LaneConstants DEF Init, Running, JobsOf
  <2>2. lanes[l].max_concurrency = InitialCap[l] /\ ~lanes[l].paused
        BY DEF Init
  <2>3. \A c \in Fetcher : fetch[c].pc = "idle"
        BY DEF Init, NoFetch
  <2>4. \A c \in Fetcher : Within(c, l)
        BY <2>3 DEF Within
  <2>5. Cardinality(Running(l)) <= InitialCap[l]
        BY <2>1
  <2> QED BY <2>2, <2>4, <2>5
<1>2. LaneInv /\ LaneInv' /\ CapInv /\ [Next]_vars => CapInv'
  <2> SUFFICES ASSUME LaneInv, LaneInv', CapInv, [Next]_vars
               PROVE  CapInv'
      OBVIOUS
  <2>0. TypeOK
        BY DEF LaneInv
  <2>1. CASE UNCHANGED vars
    <3>1. \A l : Running(l)' = Running(l)
          BY <2>1 DEF Running, vars
    <3>2. \A c \in Fetcher : \A l \in Lane : Within(c, l) => Within(c, l)'
          BY <2>1 DEF Within, vars, JobsOf
    <3> QED BY <2>1, <3>1, <3>2 DEF CapInv, vars
  <2>2. ASSUME NEW c \in Fetcher, claim_batch(c)
        PROVE  CapInv'
    <3>1. ASSUME NEW S \in SUBSET {j \in Job : GroupOf[j] = NoGroup},
                 Step(c, "ungrouped"), Fits(c, S, Queue), Accept(c, S, "walk groups"),
                 UNCHANGED <<jobs, lanes, lock>>
          PROVE  CapInv'
      <4>1. \A l \in Lane : Cardinality(S \cap JobsOf(l)) <= fetch[c].budget[l]
            BY <2>0, <3>1, FitsAll
      <4> QED BY <3>1, <4>1, CapAccept DEF Fits, Step
    <3>2. ASSUME NEW S \in SUBSET Job,
                 Step(c, "grouped"), Fits(c, S, Lane), Accept(c, S, "write"),
                 UNCHANGED <<jobs, lanes, lock>>
          PROVE  CapInv'
      <4>1. \A l \in Lane : Cardinality(S \cap JobsOf(l)) <= fetch[c].budget[l]
            BY <2>0, <3>2, FitsAll
      <4> QED BY <3>2, <4>1, CapAccept DEF Fits, Step
    <3>3. CASE ClaimUngrouped(c)
          BY <3>1, <3>3 DEF ClaimUngrouped
    <3>4. CASE ClaimGrouped(c)
          BY <3>2, <3>4 DEF ClaimGrouped
    <3> QED BY <2>2, <3>3, <3>4, CapRead, CapWrite, CapCommit DEF claim_batch
  <2> QED BY <2>1, <2>2, CapFinish, CapAdmin DEF Next
<1>3. CapInv => CapHolds
      BY DEF CapInv, CapHolds
<1> QED BY <1>1, <1>2, <1>3, LocksAreHeld, PTL DEF Spec
=============================================================================
