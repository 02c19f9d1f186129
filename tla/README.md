# A TLA+ model of eddyq

eddyq is a job queue. Producers insert jobs, worker processes claim and run
them, and a set of maintenance loops recovers lost jobs, fires schedules,
repairs counters and deletes old rows. A Rust core (`crates/eddyq-core`) does
all of it over Postgres; a Redis backend (`crates/eddyq-redis`) implements the
same interface with Redis functions; bindings for Node and NestJS wrap the core.

This directory models what happens when processes, their loops, their crashes
and their calls overlap: the core over Postgres, down to SQL statements; the
Redis backend, function by function; the rate limit both share; and the life
cycle of the Node objects. `PROJECT.json` maps every definition to the source
lines it stands for, and lists runs, mutants, hazards and theorems.

## 1. Inventory

| Component | State | Operations | Interacts through | Hard part |
|---|---|---|---|---|
| Job rows (`enqueue.rs`, `fetch.rs`) | `eddyq_jobs`: state, attempt, stalled_count, worker_id, heartbeat_at, scheduled_at | enqueue, bulk enqueue, cancel, claim, complete, fail, heartbeat, sweep, reclaim | rows guarded by `state` and `worker_id` | late verdicts, recovery, two budgets |
| Lanes (`named_queue.rs`, `group.rs`, `fetch.rs`) | `eddyq_queues`, `eddyq_groups`: running_count, cap, paused; `eddyq_group_rules` | set cap, pause, materialise from rule, reconcile | counters written by claims and by everything that ends a run | row locks, SKIP LOCKED, rows created on the fly |
| Batches (`batch.rs`) | `eddyq_batches`: total, three counters, state, callback marker | enqueue_batch, settle_terminal, try_claim_and_fire | settled inside every finalizing transaction | exactly one callback |
| Runtime (`runtime.rs`, `queue.rs`) | in-flight set, idle permits, channel, token, mode of shutdown | fetch, dispatch, run, heartbeat, drain, force, abandon | shared set and channel; the database | what is abandoned at shutdown, two runs of one job |
| Leader election (`leader.rs`) | `eddyq_leader`: holder, expiry; flag in each process | elect, refresh, resign | the flag gates sweeper, scheduler, cleanup | flag against lease |
| Schedules (`schedule.rs`) | `eddyq_schedules`: trigger, enabled, next_run_at | upsert, sync, remove, pause, tick | advisory lock, row locks, two clocks | once per instant, never postponed |
| Rate limits (`fetch.rs`, `group.rs`, `library.lua`) | `tokens`, `tokens_refilled_at` of a group | refill and spend in the claim, set and clear | the row or hash of the group | fractions, clocks read before the lock |
| Retention (`fetch.rs`, `retention.rs`, `library.lua`) | -- | delete by age and count | rows; on Redis sorted sets and their mirrors | deleting what others refer to |
| Redis backend, jobs (`library.lua`, `backend.rs`) | a hash per job, sorted sets by state, mirrors per queue, unique keys, limits | the same interface | each function is atomic; replies are lost, verdicts come late | up to five sets per job moved by hand |
| Redis backend, schedules | hash of schedules, sorted set of next runs | upsert, sync, remove, pause, list what is due, fire | several calls per operation | what happens between two calls |
| Node bindings (`eddyq-napi`, `lib.cjs`) | state behind a lock, runtime, abort function, handlers' controllers | connect, work, subscribeTo, start, shutdown, close | calls overlap; jobs cross into the JavaScript thread | ownership of the runtime, aborts that reach every handler |
| NestJS, client, CLI, dashboard | -- | conversion, registration | the above | little of the queue's own logic |

What makes each correct, and what the properties below are about: a job is run
under one valid claim at a time and ends once; no claim is charged twice or
lost; counters equal what they count and caps hold; a batch calls back once,
after its last job; some process does maintenance, and a lease is not stolen; a
schedule fires once per instant and is not postponed by redeploys; a rate limit
mints no token; the sets of the Redis backend agree with its hashes; a runtime
is started once, can be stopped, and every handler hears of it.

## 2. Modules

| Module | Models | Granularity |
|---|---|---|
| `PgJobs` | job, lane and batch rows; processes with their fetcher, workers, heartbeats; sweeper; shutdown | one action is one committed transaction, or one step of a process between two |
| `BatchFanIn` | what a batch promises, without counters | one action opens a batch, one settles jobs |
| `PgLanes` | the claim transaction, completions, admin statements, rules, reconciliation | one action is one SQL statement, under READ COMMITTED with row locks |
| `PgLeader` | lease, flag, maintenance passes | one action is the UPDATE or the arrival of its answer |
| `PgSchedules` | schedules, syncs and ticks | one action is one statement |
| `RedisJobs` | hashes, sorted sets, unique keys and limits; processes, sweeper, retention | one action is one FCALL, or one step of a process between two |
| `RedisSchedules` | schedules, syncs and ticks on Redis | one action is one FCALL |
| `TokenBucket` | the rate limit of one group, on either backend | one action reads a clock, one claims |
| `NapiApp` | one Node object and its calls | one action is one section of a call under the state lock, or a step of the JavaScript thread |
| `MC*` | small instances | |
| `*Proofs` | theorems and their proofs | |

### PgJobs

`jobs`, `lanes` and `batches` are the tables. Payloads, priorities, tags and
error logs are left out: nothing depends on them but the order of a scan, which
is left open (a claim may take any set of due jobs that fits). A timestamp is
what it is compared for: `heartbeat` is fresh or stale against `stale_after`,
`due` says whether `scheduled_at` has passed. A queue or a group is a `Lane`; a
lane without a row is unlimited.

`runs` holds claimed jobs in the memory of a process, each with the number of
its claim and the attempt it was claimed with: `fetched` by the claim, `queued`
in the channel and registered in `in_flight`, `executing`, and `settling` once
the handler has answered and the id has left `in_flight`. `mode` says where the
process is: `up`; `cancelled` when the token is cancelled while the fetcher is
inside a claim; `draining`; `reclaiming` after tasks were aborted; `down`.
`claims` and `callbacks` are history.

| Actions | Code |
|---|---|
| `enqueue_dyn`, `materialize_from_rule` | two transactions of one enqueue on a pool connection |
| `enqueue_many_dyn`, `enqueue_batch`, `cancel` | one transaction each |
| `set_concurrency`, `set_paused` | upserts of queue or group rows |
| `claim_batch` | `fetch::claim_batch` as a whole; `LastClaimEmpty` when it returns nothing at shutdown |
| `Dispatch`, `StartHandler`, `FinishHandler` | `fetch_loop`, `worker_loop` |
| `mark_completed`, `mark_failed_retry`, `mark_failed_terminal`, `DropVerdict` | the settling transaction, and its absence |
| `update_heartbeat_batch`, `sweep_stale` | heartbeat and sweeper loops |
| `shutdown_with`, `DrainClean`, `abort_all`, `reclaim_in_flight`, `ReclaimFails`, `Crash` | the four ways to stop |
| `BecomeDue`, `HeartbeatExpires` | time |

`settle_terminal` is the tail of every finalizing transaction and is shared by
them. If the callback can not be enqueued the transaction fails, so the action
is not enabled; `DropVerdict` is what the worker does then.

### PgLanes

The claim transaction in its phases: read budgets without locks, lock binding
queue rows with SKIP LOCKED, choose ungrouped jobs, find groups, lock their rows
with SKIP LOCKED, tell missing rows from held ones, choose grouped jobs, write
counters, commit. Writes appear at the commit; until then the row, or the key of
a row being inserted, is locked. Every transaction may roll back at any step,
which covers errors and victims of the deadlock detector. Reconciliation counts
at the snapshot of its statement, waits for row locks, and re-evaluates only the
condition on the new row version, as Postgres does.

### PgLeader, PgSchedules

In `PgLeader` an election writes the row, and its answer arrives in a later step,
or is an error that leaves the flag as it was. A pass of a maintenance loop
reads the flag when it starts. In `PgSchedules` time is a small number; a cron
expression fires at multiples of its period up to a last instant, an interval
one period after the clock; ticks read what is due by the database's clock and
compute what is next by their own, which may be skewed. Several processes tick,
because `PgLeader` shows that several may believe they lead.

### RedisJobs

The keyspace `db` is one value: the hash of each job, the members of each sorted
set, the owner of each unique key, the limits and rules. An operator `fn_...`
makes the new keyspace of the old one, the way the function of `library.lua`
with that name does; the action with the name of the `RedisBackend` method calls
it. Sets per queue and per group are one set here, cut by the job's queue or
group; scores are kept as far as they are compared (`stale` marks an expired
lease, due is chosen). `gone` is a hash that was deleted: ids of it may be left
in sets, and a script that meets one fails half-way and keeps what it wrote
(`Processed`). `claim_batch` may lose its reply. `late` records that a verdict
was accepted for a row that was not running any more.

### RedisSchedules

A tick is a call that lists what is due, the computation of the next run in the
process, and one call per schedule that fires it; a sync is one upsert per
declared name and a call that removes the rest. Any of them may be interrupted,
and nothing is rolled back. `spent` records which process fired a schedule for
which score since the score was set.

### TokenBucket

Tokens count in units of 1/`Period`, so that all fractions are whole. A process
reads its clock, and claims with that time later: the bucket may see an older
time than the one it holds, adds nothing, and is written back with the older
time. `rewound` and `spilled` are history: time that can be refilled twice, and
refill beyond the brim. Postgres writes the bucket only when jobs start, Redis
at every claim that looks at it.

### NapiApp

`call` holds the calls under way and where each is: between two sections under
the state lock every other call, job and handler may move. `phase` is
`WorkerState` or `RedisWorkerState`, one for each backend of an `EddyqApp`.
A job goes from row to channel to worker to the JavaScript thread, where its
handler runs until it ends by itself or, having been signalled, because it
listens; `Deaf` names handlers that do not. The broadcast of an abort is one
queued call of the JavaScript thread. A caller registers handlers before it
shuts down and subscribes before it starts; everything else may overlap.

## 3. Runs that pass

| Run | Checks | Instance |
|---|---|---|
| `PgJobs_rows` | `TypeOK`, `CountersExact`, `ClaimsAccounted`, `StallBudget`, `HeartbeatsExact`, `AttemptsBounded`, `TerminalIsFinal`, `VerdictForOwnClaim` | one job of a group under a rule of one, two attempts and two stalls, two processes with one worker each that may stop in every way, an operator on the queue; with one worker no process claims a job it still runs |
| `PgJobs_batch` | `BatchTally`, `CallbackOnce`, `ImplementsFanIn`, `BatchesComplete` | a batch of two and a batch of one that share a unique key, so that either may be enqueued short; both call back; failures, cancellations, recovery |
| `PgJobs_liveness` | `JobsSettle` | two jobs that share one slot, one of which survives a stall; two processes, one may stop |
| `PgLanes_caps` | `CapHolds`, `CountersExact` | four jobs, two fetchers, queue cap 2 and group cap 1 from the start, a second group without a row but with a rule and an operator; the lanes are exact, so reconciliation has nothing to correct here, which is the subject of `PgLanes_heal` |
| `PgLanes_heal` | `ClaimInv`, `GroupCountersExact`, `DriftHeals` | two jobs of a group whose row is created while claims are open, and of a queue whose new row may start too high |
| `PgLeader_lease` | `TypeOK`, `UnlapsedLeaderHolds`, `LeaseIsRespected`, `MaintenanceGoesOn` | three processes, two may stop |
| `PgSchedules_fire` | `ScheduleInv`, `OncePerInstant`, `DisabledNeverFires`, `DueFires` | one schedule, cron or interval, two tickers, a booter that upserts and syncs and whose clock is slow, an operator, four instants |
| `RedisJobs_index` | `KeyspaceInv`, `KeysExact`, `FinalUnlessLate` | two jobs with the same unique key in a group under a rule of one, an operator on the group, retention by removal, count and age, one of the two survives a stall, one process with two workers |
| `RedisJobs_settle` | `JobsSettle`, `CapsRespected` | two jobs that share one slot, two attempts, two processes, one may stop |
| `RedisSchedules_fire` | `IndexInv`, `OncePerArming`, `DueFires` | one schedule, cron or interval, two tickers, a booter, an operator, three instants |
| `TokenBucket_rate` | `BucketInv`, `JobsStart` | both backends, two processes, two tokens per three units of time, claims of two, three jobs, four instants, an operator |
| `NapiApp_life` | `LifeInv`, `AbortReachesAll`, `CallsReturn`, `ShutdownEndsHandlers` | each of the three classes, two overlapping calls out of two starts and one of each other operation, one job, all modes of shutdown |

A property named `...Inv` is the type invariant of its module together with
named parts that are stated and commented there: `ClaimInv` contains
`OneClaimPerJob`; `ScheduleInv`, `RedeployNeverPostpones`; `KeyspaceInv`,
`NoJobLost`, `MirrorsAgree` and `IndexExact`; `IndexInv`, `IndexedIsDeclared`;
`BucketInv`, `StartsAccounted`; `LifeInv`, `RuntimeIsOwned` and `OneRuntime`.
`KeysExact` is `KeyHolderIsLive` and `LiveJobHoldsKey`, and `HeartbeatsExact`
says both that held jobs are heartbeaten and that no others are.

`ImplementsFanIn` is a refinement: a batch row with its counters implements
`BatchFanIn`, where a batch is the set of its open jobs and is done in the very
step in which the set becomes empty.

On Redis three properties are weaker than their counterparts on Postgres, where
the gate on `state` keeps late verdicts out: `IndexExact`, `LiveJobHoldsKey` and
`FinalUnlessLate` hold until a late verdict is accepted. `NoJobLost`,
`MirrorsAgree` and `KeyHolderIsLive` hold whatever is accepted.

The bounds. `MaxClaims` limits how often a job is claimed; in the runs of
`PgJobs` and in `RedisJobs_settle` it is at least what the attempts and stalls of
the instance allow together. In `RedisJobs_index` two claims a job meet every
combination of sets; the retries a handler asks for have no limit in the code.
One job is enough for the questions about one row, two for the questions about a
shared slot, key or batch; four jobs and two fetchers make a queue cap of two and
a group cap of one contested. Three or four instants let a schedule with period
two fire, be late by a whole period and fire again, and a bucket of two tokens
run empty, refill a fraction and be read by an older clock. Two overlapping
calls are enough for every pair of sections of two calls; a third call under way
would have to meet a state that neither of two leaves behind between sections.
Runs with CHECK_DEADLOCK FALSE are ones where everything may rightly stop: all
jobs are settled, all processes are down, or time is at its bound. Symmetry is
used for safety runs only.

## 4. Where code and words disagree

Each configuration below checks one property that a comment or a doc states, or
that one backend keeps and the other does not, and finds it violated by what the
code does (`tlc -config X.cfg MC...`).

On Postgres:

| Configuration | Property | What happens, and what it is held against |
|---|---|---|
| `PgJobs_reclaimed_verdict` | `VerdictForOwnClaim` | a process claims a swept job again; the verdict of its first run is taken for the second, because both carry the one worker_id of the fetcher (`runtime.rs:249`). "Gate on (state='running' AND worker_id = our uuid) so a worker whose heartbeat was swept can't clobber the job state after another worker picked it up" (`fetch.rs:939`). The late error also counts with its own attempt number, and the first run takes the shared id out of the in-flight set |
| `PgJobs_theft` | `ReclaimsOwnJobs` | a bounded drain reclaims, from ids copied before the grace period (`queue.rs:678`), a job that another process has claimed meanwhile. "jobs this pod has claimed but won't get to finish" (`fetch.rs:1204`) |
| `PgJobs_bad_callback` | `BatchesComplete` | a queue name in on_complete is validated only when the callback is enqueued (`enqueue.rs:338`): an invalid one fails the last settling transaction for ever, and the sweep with it. "Holds the contract that every batch reaches `state='complete'`" (`batch.rs:123`) |
| `PgLanes_reconcile` | `ReconcileErasesNoClaim` | reconciliation waits for a claim and then writes the older count. "A claim committing between the count and the update would otherwise be erased, handing out a slot twice" (`fetch.rs:1143`), which LEAST does not prevent |
| `PgLanes_rules` | `RuleApplied` | a claim between the two transactions of an enqueue creates the group row without a cap, and the rule is void ("on its first `enqueue()`", `queue.rs:547`) |
| `PgLanes_honest` | `CapIsHonest` | the count of a new queue row misses an uncommitted claim ("honest from the moment you set it", `named_queue.rs:62`) |
| `PgLeader_overlap` | `OneMaintainer` | a process whose lease has lapsed is still in a pass, or starts one ("exactly one process at a time", `docs/node/maintenance.md`) |
| `PgSchedules_poisoned` | `DueFires` | a cron expression without a further instant fails every tick ("enqueues jobs for all due schedules", `schedule.rs:319`) |
| `PgSchedules_skew` | `OncePerInstant` | a slow process clock computes the instant just fired as the next one and fires it again |
| `PgSchedules_sync` | `SyncIsAuthoritative` | two syncs at once leave the union of their lists ("authoritative", `schedule.rs:216`) |

The first needs a process with at least two workers, and a sweep or a shutdown
that takes a job from it while it still runs it; `SafeUnlessTaken` (section 6)
proves that there is no other way to the violation.

On Redis, and for both:

| Configuration | Property | What happens, and what it is held against |
|---|---|---|
| `RedisJobs_final` | `TerminalIsFinal` | a sweep fails a job and leaves `locked_by`; the late verdict of its worker finalizes it again ("so we don't double-finalize", `library.lua:777`) |
| `RedisJobs_slotleak` | `NoSlotLeaks` | after such a late verdict an id without a hash is left in a set of running jobs, and the slot is not given back |
| `RedisSchedules_fenced` | `LeaderFenced` | two processes that both believe they lead list a schedule and both fire it ("Leader-fenced", `crates/eddyq-redis/README.md:44`) |
| `RedisSchedules_paused` | `PausedIsUnindexed` | a schedule is paused between the call that lists it as due and the call that fires it; the latter looks only whether it exists (`library.lua:1510-1513`), enqueues a job and puts it back into the sorted set, and nothing that follows looks at the flag: the paused schedule keeps firing until it is paused again. "The cron-side mirrors the PG `schedule::tick` semantics" (`backend.rs:1455`), which selects `WHERE enabled` |
| `RedisSchedules_sync` | `SyncIsAuthoritative` | a sync is a series of calls; two at once leave a mix of their lists, and one that fails in between leaves half of it ("no partial state", `backend.rs:1743`) |
| `RedisSchedules_redeploy` | `RedeployNeverPostpones` | an upsert writes the next run afresh and postpones one that is due; Postgres keeps it |
| `TokenBucket_window` | `WindowRespected` | a full bucket and its refill start more than `count` jobs in one period ("at most `count` jobs may *start* per `periodMs` window", `docs/node/groups.md:39`) |

In the Node bindings:

| Configuration | Property | What happens, and what it is held against |
|---|---|---|
| `NapiApp_close` | `CloseEndsHandlers` | a close without a shutdown never signals the handlers ("it guarantees `close()` can't hang the process", `lib.rs:1290`) |
| `NapiApp_orphan` | `RuntimeIsOwned` | shutdown takes the runtime out of the object before it rejects an invalid mode; the runtime goes on and nothing can stop it |
| `NapiApp_drain` | `CallsReturn` | a drain of `EddyqRedis` waits for a handler that ignores its signal, without the bound of `Eddyq` ("Modes mirror the Postgres `Eddyq.shutdown`", `lib.rs:2214`) |
| `NapiApp_subscribe` | `SubscriptionsExtend` | a later subscribeTo of `EddyqApp` replaces the set ("extend the subscribed set", `lib.rs:2920`) |

## 5. Fairness

`PgJobs`: time passes; the heartbeat of a job nobody holds goes stale; a process
that is up keeps claiming what it can (`fetch_loop` polls for ever), its workers
keep stepping, and the sweeper runs. Handlers return: a handler that does not is
ended by its timeout if one is configured. Producers, operators, crashes,
shutdowns and spurious expiry of a held job get no fairness. One process is not
stoppable. `DropVerdict` may always be taken, so a settling transaction may fail
every time; the sweeper then ends the job.

`PgLanes`: open transactions end, reconciliation is started again and again, its
lock requests are served (strong fairness: Postgres queues waiters, while a
claim skips a held row), and it is not rolled back for ever.

`PgLeader`: loops turn; the lease of a dead holder runs out; elections are not
answered with errors for ever; and from some time on a live holder refreshes
before expiry, which is why the loop elects every third of the lease.

`PgSchedules`: ticks come, end, and get the rows they wait for; requests end; and
from some time on ticks fail only for a reason of their own.

`RedisJobs` as `PgJobs`; the scheduler keeps promoting what is due. The property
excepts what a late verdict has changed and what an operator has paused.
`RedisSchedules` as `PgSchedules`, without locks to wait for.

`TokenBucket`: time passes, and a process keeps polling: it reads its clock, and
claims whenever it can (strong fairness, since a poll that finds too few tokens
is a claim that is not possible).

`NapiApp`: threads run, the JavaScript thread takes what is queued for it, and a
handler that was signalled and listens ends. A handler that was not signalled
may run for ever.

## 6. Proofs

Every safety property that a run checks, invariant or action property, is also a
theorem of its specification.

| Module | Theorem | States |
|---|---|---|
| `PgJobsProofs` | `TypeCorrect` | `Spec => []TypeOK` |
| | `StallBudgetHolds`, `ClaimsAreAccounted`, `FinalStatesAreFinal` | `StallBudget`, `ClaimsAccounted`, `TerminalIsFinal`: the life of a row |
| | `CountersAreExact`, `CapsAreRespected` | `CountersExact`, and `CapsRespected` from it |
| | `BatchesTally`, `CallbackFiresOnce` | `BatchTally`, `CallbackOnce` |
| | `PgJobsImplementsFanIn` | `Spec => ImplementsFanIn` |
| | `VerdictsMeetTheirClaim`, `AttemptsStayBounded`, `HeartbeatsAreExact` | `VerdictForOwnClaim`, `AttemptsBounded`, `HeartbeatsExact`, under a condition |
| | `HeartbeatsAreOfHeldJobs` | one half of `HeartbeatsExact`, always |
| | `OneRunUnlessTaken`, `SafeUnlessTaken` | where that condition comes from, for any number of workers; `VerdictForOwnClaim` and `HeartbeatsExact` from it |
| `PgLanesProofs` | `LocksAreHeld`, `OneClaimPerRow` | the locks each transaction holds at each statement; `ClaimInv` |
| | `GroupCountersAreExact`, `CountersAreExact`, `CapsHold` | `GroupCountersExact`; `CountersExact` and `CapHolds`, under conditions |
| `PgLeaderProofs` | `LeaderTypeCorrect`, `LeaderHoldsLease`, `LeaseNeverStolen` | `TypeOK`, `UnlapsedLeaderHolds`, `LeaseIsRespected` |
| `PgSchedulesProofs` | `PausedSchedulesDoNotFire` | `DisabledNeverFires` |
| | `FiresOncePerInstant`, `DeclaringNeverPostpones` | `OncePerInstant`, `ScheduleInv`, each under a condition on clocks |
| `RedisJobsProofs` | `KeyspaceConsistent`, `KeysAreExact`, `FinishedStaysFinished`, `CapsAreRespected` | `KeyspaceInv`, `KeysExact`, `FinalUnlessLate`, `CapsRespected` |
| `RedisSchedulesProofs` | `IndexAgrees`, `FiresOncePerArming` | `IndexInv`, `OncePerArming` |
| `TokenBucketProofs` | `TokensAccounted` | `Spec => []BucketInv` |
| `NapiAppProofs` | `BackendStartsOnce`, `RuntimesAreOwned`, `AbortsReachAll` | `OneRuntime`; `LifeInv`, under a condition; `AbortReachesAll` |

### What is assumed

Each module names what it assumes of its constants (`ConstantsAssumption`,
`LaneConstants`, `LeaderConstants`, `ScheduleConstants`, `BucketConstants`,
`AppConstants`), and TLC evaluates it on every run. Sets of jobs, queues and
groups are finite; NULLs are not values; queues, groups and transactions are
different things; a callback belongs to one batch's on_complete and to no batch;
caps and budgets are natural numbers; a rate, a period and the end of time are
not zero. Nothing bounds the number of jobs, processes, calls, names or steps
otherwise.

Some results need more than that. Each such condition is in the statement of its
theorem, and a configuration of section 4 shows what happens without it:

| Theorem | Condition | Without it |
|---|---|---|
| `VerdictsMeetTheirClaim`, `HeartbeatsAreExact`, `AttemptsStayBounded` | `OneRunPerJob`: no process has a job in its memory twice | `PgJobs_reclaimed_verdict`: with two workers a process claims a job again that went stale while it still ran it |
| `OneRunUnlessTaken`, `SafeUnlessTaken` | `OnlyLostJobsAreTaken`: a sweep or a reclaim takes no job from a process that still holds it and still claims | `PgJobs_reclaimed_verdict`, where a sweep does; `PgJobs_theft`, where a shutdown does |
| `AttemptsStayBounded` | handlers do not return `retry`, and max_attempts is not 0 | a retry a handler asks for is granted at any attempt (`retry_schedule`); max_attempts is not validated, and 0 runs once as 1 does |
| `CountersAreExact` of `PgLanes` | every queue has its row from the start | `PgLanes_honest`: the count of a new queue row misses open claims; it is what reconciliation is for |
| `CapsHold` | the cap was there from the start, nobody changes it, and it is less than i32::MAX | a cap below what runs already holds only when that has ended; i32::MAX stands for no limit |
| `FiresOncePerInstant` | clocks of processes that tick are not behind the database's | `PgSchedules_skew` |
| `DeclaringNeverPostpones` | no process's clock is ahead of the database's | the process computes the next run, which is late by the difference |
| `RuntimesAreOwned` | modes of shutdown are known ones | `NapiApp_orphan` |

The two conditions on clocks together leave clocks that agree, and are separate
because each result needs one of them only.

`OneRunPerJob` and `OnlyLostJobsAreTaken` are conditions on behaviours, not on
constants: they leave `worker_concurrency`, crashes, lost verdicts, late
transactions, drains and the recovery of what was lost open. The second is what
`heartbeat_interval` against `stale_after` is there for: it fails when the
heartbeats of a live process do not arrive in time, when a job waits longer than
`stale_after` between its claim and its dispatch or in its settling transaction,
where it is not heartbeaten, or when a shutdown reclaims from an old snapshot.
`OneRunUnlessTaken` says that there is no other way for a process to hold a job
twice, and `SafeUnlessTaken` that the gate on `worker_id` is then enough.

### How they are proved

*Rows.* No property of a row is inductive over the twenty-odd actions by itself.
`PgJobsProofs` shows once that every step takes every row along one edge of a
small diagram, `RowStep`: kept, inserted, claimed, settled, recovered. The
invariant `RowInv` and the finality of final states follow from the diagram. For
an insert to be an edge from `absent` one needs `Unborn`: before a batch is
complete its callback has no row, and before it exists its jobs have none.
Otherwise the INSERT of a callback could overwrite a row in the model.

*Counters.* `Exact(L, R)` says that the lane table L is right about the set R of
running jobs, and that a group without a row counts nothing, so that a rule or
an operator may create its row at zero. Lemmas say that releasing and occupying
slots and materialising rows keep a right table right for the new set, the floor
at zero never being reached; each action is one of them. A claim compares the
counter with the cap; that jobs stay within caps is this comparison and `Exact`.

*Batches.* Seen from the batches a step opens one, moves a set of live jobs to
one outcome, or is quiet (`Moves`). `BatchInv` says that the counters are the
sizes of the sets of jobs (`Tally`) and that a batch is pending exactly while it
has live jobs (`Fan`). A settling fires when the counters reach the total, and
with `Tally` that is when the set of live jobs becomes empty: this is the step
in which the fan-in is done, and the refinement is the same three moves again.
The set of jobs a transaction settles may reach over several batches, and a job
that is settled twice would be counted twice; `Live` before and an outcome after
exclude it.

*Ownership.* The gate tells workers apart and not claims. `OwnersAreCurrent`: a
run that passes the gate is of the latest claim, and has the row's attempt
number. It is inductive only if a process that claims has no other run of the
job, since the new claim makes every run of the job in that process pass.
`InFlight` needs the same: the end of one run takes the id of both out.
`Exclusive` gives it: a process that may still claim owns the row of every job
it holds. Those rows are running and a claim takes pending ones; a row is given
up by the one run that settles it, or is taken, and then from a process that
does not claim any more. Runs of a process that has stopped claiming may lose
their rows, which does no harm.

*Locks and caps of `PgLanes`.* Statements of several transactions interleave, so
the invariant speaks about open transactions. `JobInv`, `FetchInv` and
`FinishInv` say which rows each holds at which statement and that before a
commit every lane of an accepted job is written or still to be written. A counter
changes at a commit by whoever has its lock, together with the set it counts
(`RowInv`), for every lane that is `Sound`: a group, or a queue with a row
from the start. In a sound lane reconciliation finds no difference, and so never
writes. For caps `Within` is added: what a claim has accepted in a lane and may
still accept fits under the cap, and either it holds the lane's lock or both are
zero.

*Lease.* A process that has won and does not know it yet holds the lease as
well (`Claimant`), and a valid lease has a holder (`Held`).

*Schedules on Postgres.* `Shape`: what a tick has selected is locked by it and is
as it was selected, what a sync has written is locked by it, and every lock is
somebody's. A step then keeps a row, removes it, declares it or fires it. That
instants are fired once is `FiredBefore`, fired instants are before the next
one, which a clock behind the database's breaks; that nothing is postponed is
`Computed`, a request's computed instant is no later than it would be now,
because the next run is monotone in the time it is computed from.

*Redis keyspace.* A function writes hashes, sorted sets and keys one after the
other. Seen from one job it takes a pair, its hash and the indexes it is in, to
another. `Good` says which pairs are reachable, `Move` what one step may do, and
each function of the library has a lemma that says that it makes such moves; the
invariant is about every job by itself, and `Keys` about the holder of each key.

*Schedules on Redis.* `Unspent`: the score in the sorted set has not been fired
for by anyone, and no process has fired for what it has listed and not fired.
It needs that a list has one entry per name.

*Node.* `start` takes the Building state out of the object and leaves Stopped:
what it took is a token, in the object, with one call, or used up (`TokenInv`).
Only a token starts a runtime, so there is one. A runtime that is up is then in
the object or held by the call that published or took it (`Owned`).

*Tokens.* `TypeOK` and the books, `StartsAccounted`, are inductive together: the
balance in `TypeOK` is what keeps a claim from spending more than there is. The
equation is linear except for the products with `Rate` and `Period`; a step per
product (`Linear`) leaves linear arithmetic to the prover.

### Only model-checked

Liveness, which is out of reach of the prover: `BatchesComplete`, `JobsSettle`
(twice), `DriftHeals`, `MaintenanceGoesOn`, `DueFires` (twice), `JobsStart`,
`CallsReturn`, `ShutdownEndsHandlers`. They hold on the instances of section 3.

## 7. Not modelled

*Postgres.* LISTEN and NOTIFY, idle backoff and jitter only move polls in time.
Deletion of finalized rows by cleanup is one statement per state that touches
nothing else. Kinds and subscriptions are left out of `PgJobs`: every process
registers every handler and subscribes to every queue. A queue's timeout is one
of the reasons a handler's answer is `error`. Editing of rules: a rule is a
constant there, and is edited in `RedisJobs`.

*Redis.* The leader key is the protocol of `PgLeader` with each step one
function. Loading the library, default timeouts, listings, tag and kind sets,
the backfill of mirrors for data of older versions, and the limit on how many
waiting jobs one claim looks at (`CLAIM_SCAN_LIMIT`), which may make a claim
return less than it could.

*Rate limits.* Fractions are exact here and floating point in the code.

*Node.* Conversion of options, `setWorkerConcurrency`, bulk enqueue across two
backends, admin calls that are passed on. A job is tried once there: what
becomes of its row is the subject of the other modules.

Statistics and listings read. Migrations run before the system. The client, the
command line, the NestJS module and the dashboard hold no queue state.

## 8. Plan

Done: the modules above, in the order of section 2. What is left:

1. Proofs: what an operator's change of a cap leaves true (`CapHolds` for caps
   that are only raised); how far a counter of a new queue row can be off until
   it is reconciled.
2. `Retention` on Postgres: deletion by age and count beside settling, batches
   whose jobs are gone.
3. `Runtime`: permits, channel, worker tasks and their drop guards, replacing
   the counting of runs.
