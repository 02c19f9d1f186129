------------------------------ MODULE RedisJobs ------------------------------
(***************************************************************************)
(* The Redis backend of eddyq: the hash of each job, the sorted sets that  *)
(* index the jobs by state, the unique keys, the limits of queues and      *)
(* groups, and the worker processes that use them.                         *)
(*                                                                         *)
(* One FCALL runs one function of library.lua from beginning to end, so it *)
(* is one atomic step: an operator fn_... makes the new keyspace of the    *)
(* old one, and the action named after the method of RedisBackend calls    *)
(* it.  What is not atomic is everything around the calls: a reply that is *)
(* lost, a verdict that arrives after the job was recovered, the snapshot  *)
(* a shutdown works from.                                                  *)
(***************************************************************************)
EXTENDS Integers, FiniteSets

CONSTANTS
    Job,          \* ids INCR :idgen can hand out
    Proc,         \* worker processes, each with its worker_id
    Queue, Group, Key,
    NoJob, NoWorker, NoGroup, NoKey,
    QueueOf, GroupOf, KeyOf,  \* the fields a job is enqueued with
    MaxAttempts, MaxStalled,
    OnComplete, OnFail,       \* remove_on_complete, remove_on_fail
    RuleCap,      \* cap of the rule that matches a group at the start
    Operable,     \* lanes an operator administers, and the caps it may set
    Caps,
    Slots,        \* worker_concurrency of a process
    Verdicts,     \* what handlers may answer
    Stoppable,    \* processes that may crash or be shut down
    MaxClaims     \* bound: how often one job is claimed

Unlimited == 2147483647  \* no max_concurrency field
NoCount == -1            \* a retention rule without a count

Lane == Queue \cup Group
Live == {"pending", "scheduled", "running"}
Final == {"completed", "failed", "cancelled"}

\* A retention rule: true; or an age, a count, or both; or none of them.
Rule == [remove : BOOLEAN, age : BOOLEAN, count : Nat \cup {NoCount}]

ASSUME ConstantsAssumption ==
    /\ IsFiniteSet(Job)
    /\ NoJob \notin Job /\ NoWorker \notin Proc /\ NoGroup \notin Group
    /\ NoKey \notin Key
    /\ Queue \cap Group = {}
    /\ QueueOf \in [Job -> Queue]
    /\ GroupOf \in [Job -> Group \cup {NoGroup}]
    /\ KeyOf \in [Job -> Key \cup {NoKey}]
    /\ MaxAttempts \in [Job -> Nat] /\ MaxStalled \in [Job -> Nat]
    /\ OnComplete \in [Job -> Rule] /\ OnFail \in [Job -> Rule]
    /\ RuleCap \in [Group -> Nat]
    /\ Operable \subseteq Lane /\ Caps \subseteq Nat
    /\ Slots \in Nat /\ MaxClaims \in Nat
    /\ Verdicts \subseteq {"ok", "error", "retry", "cancel"}
    /\ Stoppable \subseteq Proc

VARIABLES
    db,           \* the keyspace
    mode,         \* per process: "up", "draining" after its token is cancelled
    in_flight,    \* per process: the ids it heartbeats
    snapshot,     \* per process: the ids shutdown copied
    runs,         \* claimed jobs in the memory of a process
    claims,       \* history: how often each job was claimed
    late          \* history: a verdict was accepted for a row not running

procVars == <<mode, in_flight, snapshot>>
vars == <<db, mode, in_flight, snapshot, runs, claims, late>>

\* The sorted sets.  Each mirror holds, in one set per queue or per group,
\* ids of the global set it is named after; "stale" is the part of :active
\* with a score older than the sweeper's cutoff.
Mirrored == {"scheduled"} \cup Final
Global(s) == IF s = "scheduled" THEN "delayed" ELSE s
Mirror(s) == CASE s = "scheduled" -> "nq:scheduled"
               [] s = "completed" -> "nq:completed"
               [] s = "failed" -> "nq:failed"
               [] s = "cancelled" -> "nq:cancelled"
RunIndex == {"active", "stale", "nq:running", "group:running"}
Index == {"wait", "delayed"} \cup Final \cup RunIndex
            \cup {Mirror(s) : s \in Mirrored}

\* Fields of a job hash.  "gone" is a deleted hash; what a script that fails
\* half-way writes back to it, a state without a queue or a kind, is as
\* invisible to every function as no hash at all.
Hash == [state : {"absent", "gone"} \cup Live \cup Final,
         attempt : Nat, stalled_count : Nat, locked_by : Proc \cup {NoWorker}]

Meta == [exists : BOOLEAN, max_concurrency : Nat, paused : BOOLEAN]

Run == [job : Job, claim : Nat, proc : Proc, attempt : Nat,
        phase : {"executing", "settling"}, verdict : Verdicts \cup {"none"}]

\* Hashes, sets, unique keys and process memory hold what the code writes.
TypeOK ==
    /\ db \in [hash : [Job -> Hash], zset : [Index -> SUBSET Job],
               unique : [Key -> Job \cup {NoJob}],
               meta : [Lane -> Meta], rule : [Group -> Nat]]
    /\ mode \in [Proc -> {"up", "draining", "down"}]
    /\ in_flight \in [Proc -> SUBSET Job]
    /\ snapshot \in [Proc -> SUBSET Job]
    /\ runs \subseteq Run
    /\ claims \in [Job -> Nat]
    /\ late \in BOOLEAN

NoHash(s) == [state |-> s, attempt |-> 0, stalled_count |-> 0,
              locked_by |-> NoWorker]

Init ==
    /\ db = [hash |-> [j \in Job |-> NoHash("absent")],
             zset |-> [i \in Index |-> {}],
             unique |-> [k \in Key |-> NoJob],
             meta |-> [l \in Lane |-> [exists |-> FALSE, paused |-> FALSE,
                                       max_concurrency |-> Unlimited]],
             rule |-> RuleCap]
    /\ mode = [p \in Proc |-> "up"]
    /\ in_flight = [p \in Proc |-> {}]
    /\ snapshot = [p \in Proc |-> {}]
    /\ runs = {}
    /\ claims = [j \in Job |-> 0]
    /\ late = FALSE

-----------------------------------------------------------------------------
(* Keyspaces as values.                                                    *)

zadd(d, I, S) ==
    [d EXCEPT !.zset = [i \in Index |-> IF i \in I THEN d.zset[i] \cup S
                                                   ELSE d.zset[i]]]
zrem(d, I, S) ==
    [d EXCEPT !.zset = [i \in Index |-> IF i \in I THEN d.zset[i] \ S
                                                   ELSE d.zset[i]]]

\* ZADD to :active with the present time, for the jobs S.
Leased(d, S) == zrem(zadd(d, {"active"}, S), {"stale"}, S)

hset(d, h) == [d EXCEPT !.hash = h]

\* Mutant: the key is released whoever holds it by now.
release_unique_AnyOwner(d, S) ==
    [d EXCEPT !.unique = [k \in Key |-> IF k \in {KeyOf[j] : j \in S}
                                        THEN NoJob ELSE d.unique[k]]]

\* drop_unique_if_owner for each job of S.
release_unique(d, S) ==
    [d EXCEPT !.unique = [k \in Key |-> IF d.unique[k] \in S
                                        THEN NoJob ELSE d.unique[k]]]

delete_job(d, S) ==
    hset(release_unique(d, S),
         [j \in Job |-> IF j \in S THEN NoHash("gone") ELSE d.hash[j]])

InState(d, s) == {j \in Job : d.hash[j].state = s}
Exists(d) == {j \in Job : d.hash[j].state \notin {"absent", "gone"}}
JobsOf(l) == {j \in Job : QueueOf[j] = l \/ GroupOf[j] = l}
Grouped == {j \in Job : GroupOf[j] # NoGroup}

-----------------------------------------------------------------------------
(* Enqueue and cancel.                                                     *)

\* A group without meta takes its limits from the best rule, if there is one.
maybe_materialize_group(d, S) ==
    [d EXCEPT !.meta =
        [l \in Lane |->
            IF /\ l \in Group /\ l \in {GroupOf[j] : j \in S}
               /\ ~d.meta[l].exists /\ d.rule[l] # Unlimited
            THEN [d.meta[l] EXCEPT !.exists = TRUE, !.max_concurrency = d.rule[l]]
            ELSE d.meta[l]]]

\* The new jobs S, those in D due at once.
fn_enqueue(d, S, D) ==
    LET written == hset(d, [j \in Job |->
                       IF j \in S THEN NoHash(IF j \in D THEN "pending"
                                                         ELSE "scheduled")
                       ELSE d.hash[j]])
        keyed == [written EXCEPT !.unique =
                     [k \in Key |-> IF \E j \in S : KeyOf[j] = k
                                    THEN CHOOSE j \in S : KeyOf[j] = k
                                    ELSE d.unique[k]]]
        grouped == maybe_materialize_group(keyed, S)
    IN zadd(zadd(grouped, {"wait"}, S \cap D),
            {"delayed", "nq:scheduled"}, S \ D)

\* Ids not used yet, with keys nobody holds, within the call or outside it.
Fresh(S) ==
    /\ \A j \in S : db.hash[j].state = "absent"
    /\ \A j \in S : KeyOf[j] # NoKey => db.unique[KeyOf[j]] = NoJob
    /\ \A i, j \in S : KeyOf[i] = KeyOf[j] /\ KeyOf[i] # NoKey => i = j

\* A duplicate is skipped and leaves no trace.
enqueue(j, due) ==
    /\ Fresh({j})
    /\ db' = fn_enqueue(db, {j}, IF due THEN {j} ELSE {})
    /\ UNCHANGED <<procVars, runs, claims, late>>

\* The jobs of the call that are not duplicates.
enqueue_many(S, D) ==
    /\ Cardinality(S) > 1 /\ Fresh(S)
    /\ db' = fn_enqueue(db, S, D)
    /\ UNCHANGED <<procVars, runs, claims, late>>

fn_cancel(d, j) ==
    LET out == IF d.hash[j].state = "pending" THEN zrem(d, {"wait"}, {j})
               ELSE zrem(d, {"delayed", "nq:scheduled"}, {j})
        put == hset(out, [d.hash EXCEPT ![j].state = "cancelled"])
    IN zadd(release_unique(put, {j}), {"cancelled", "nq:cancelled"}, {j})

cancel(j) ==
    /\ db.hash[j].state \in {"pending", "scheduled"}
    /\ db' = fn_cancel(db, j)
    /\ UNCHANGED <<procVars, runs, claims, late>>

-----------------------------------------------------------------------------
(* Limits.                                                                 *)

\* queue_set_concurrency and group_set_concurrency
set_concurrency(l) ==
    /\ \E max \in Caps :
          db' = [db EXCEPT !.meta[l].exists = TRUE, !.meta[l].max_concurrency = max]
    /\ UNCHANGED <<procVars, runs, claims, late>>

\* queue_set_paused and group_set_paused
set_paused(l) ==
    /\ db' = [db EXCEPT !.meta[l].exists = TRUE, !.meta[l].paused = ~@]
    /\ UNCHANGED <<procVars, runs, claims, late>>

group_set_rule(g) ==
    /\ \E max \in Caps : db' = [db EXCEPT !.rule[g] = max]
    /\ UNCHANGED <<procVars, runs, claims, late>>

group_remove_rule(g) ==
    /\ db.rule[g] # Unlimited
    /\ db' = [db EXCEPT !.rule[g] = Unlimited]
    /\ UNCHANGED <<procVars, runs, claims, late>>

-----------------------------------------------------------------------------
(* A worker process.                                                       *)

RunsOf(p) == {r \in runs : r.proc = p}
Idle(p) == Slots - Cardinality(RunsOf(p))

\* Mutant: off by one.
Admits_OffByOne(d, S) ==
    \A l \in Lane :
        LET held == d.zset[IF l \in Queue THEN "nq:running" ELSE "group:running"]
                        \cap JobsOf(l)
        IN S \cap JobsOf(l) # {} =>
              /\ ~d.meta[l].paused
              /\ Cardinality(held) <= d.meta[l].max_concurrency

\* The gates of queue and group, by the size of the set of running ids.  The
\* room of a queue is counted down; the set of a group is measured again for
\* each job.
Admits(d, S) ==
    \A l \in Lane :
        LET held == d.zset[IF l \in Queue THEN "nq:running" ELSE "group:running"]
                        \cap JobsOf(l)
            more == S \cap JobsOf(l)
            max == d.meta[l].max_concurrency
        IN more # {} =>
              /\ ~d.meta[l].paused
              /\ Cardinality(held) < max
              /\ IF l \in Queue THEN Cardinality(held) + Cardinality(more) <= max
                                ELSE Cardinality(held \cup more) <= max

fn_claim(d, p, S) ==
    LET put == hset(zrem(d, {"wait"}, S),
                    [j \in Job |-> IF j \in S
                        THEN [d.hash[j] EXCEPT !.state = "running",
                                               !.attempt = @ + 1, !.locked_by = p]
                        ELSE d.hash[j]])
    IN zadd(zadd(Leased(put, S), {"nq:running"}, S),
            {"group:running"}, S \cap Grouped)

\* The reply reaches the fetcher, which hands the jobs to its workers; or it
\* is lost, and nobody knows of the claim.
claim_batch(p, S) ==
    /\ mode[p] = "up"
    /\ S # {} /\ S \subseteq db.zset["wait"] \cap InState(db, "pending")
    /\ Cardinality(S) <= Idle(p)
    /\ Admits(db, S)
    /\ \A j \in S : claims[j] < MaxClaims
    /\ db' = fn_claim(db, p, S)
    /\ claims' = [j \in Job |-> IF j \in S THEN claims[j] + 1 ELSE claims[j]]
    /\ \/ /\ runs' = runs \cup
                {[job |-> j, claim |-> claims[j] + 1, proc |-> p,
                  attempt |-> db.hash[j].attempt + 1,
                  phase |-> "executing", verdict |-> "none"] : j \in S}
          /\ in_flight' = [in_flight EXCEPT ![p] = @ \cup S]
       \/ UNCHANGED <<runs, in_flight>>
    /\ UNCHANGED <<mode, snapshot, late>>

\* The handler answers; the id leaves the in-flight set before the verdict is
\* sent.
FinishHandler(r) ==
    /\ r.phase = "executing" /\ mode[r.proc] # "down"
    /\ in_flight' = [in_flight EXCEPT ![r.proc] = @ \ {r.job}]
    /\ \E v \in Verdicts :
          runs' = (runs \ {r}) \cup {[r EXCEPT !.phase = "settling", !.verdict = v]}
    /\ UNCHANGED <<db, mode, snapshot, claims, late>>

\* 'locked_by', ''
Unlocked(h) == [h EXCEPT !.locked_by = NoWorker]

\* The gate of complete and fail: the state of the row is not looked at.
Owns(r) == db.hash[r.job].locked_by = r.proc

DropsSelf(rule) == rule.remove \/ rule.count = 0

\* The sets of entries a rule may prune for the job j from its queue's mirror
\* M: surplus ones, oldest first, for a count; those past their age besides.
Victims(rule, M, j) ==
    LET others == M \ {j}
        kept == IF DropsSelf(rule) THEN M ELSE M \cup {j}
        surplus == IF rule.count = NoCount THEN 0
                   ELSE Cardinality(kept) - rule.count
    IN IF rule.remove THEN {{}}
       ELSE {V \in SUBSET others :
                IF rule.age THEN Cardinality(V) >= surplus \/ V = others
                ELSE \/ Cardinality(V) = surplus
                     \/ surplus < 0 /\ V = {}
                     \/ surplus > Cardinality(others) /\ V = others}

\* Record the finalized job in the set of its state s and its mirror, tear
\* down the victims V, and the job itself if its rule says so.
apply_retention(d, j, s, rule, V) ==
    LET two == {s, Mirror(s)}
        added == IF DropsSelf(rule) THEN d ELSE zadd(d, two, {j})
        pruned == zrem(delete_job(added, V), two, V)
    IN IF DropsSelf(rule) THEN delete_job(zrem(pruned, two, {j}), {j}) ELSE pruned

\* The job leaves :active and the running sets, reaches the final state s and
\* gives up its unique key.
Finalized(d, j, s) ==
    release_unique(hset(zrem(d, RunIndex, {j}), [d.hash EXCEPT ![j].state = s]), {j})

fn_complete(d, j, V) ==
    apply_retention(Finalized(d, j, "completed"), j, "completed", OnComplete[j], V)

fn_fail_final(d, j, V) ==
    apply_retention(Finalized(d, j, "failed"), j, "failed", OnFail[j], V)

\* Mutant: a retry keeps its slots.
fn_fail_retry_KeepsSlot(d, j, now) ==
    IF now
    THEN zadd(hset(zrem(d, {"active", "stale"}, {j}),
                   [d.hash EXCEPT ![j].state = "pending"]), {"wait"}, {j})
    ELSE zadd(hset(zrem(d, {"active", "stale"}, {j}),
                   [d.hash EXCEPT ![j].state = "scheduled"]),
              {"delayed", "nq:scheduled"}, {j})

\* A retry that is due already goes to the wait set.  locked_by stays.
fn_fail_retry(d, j, now) ==
    IF now
    THEN zadd(hset(zrem(d, RunIndex, {j}), [d.hash EXCEPT ![j].state = "pending"]),
              {"wait"}, {j})
    ELSE zadd(hset(zrem(d, RunIndex, {j}), [d.hash EXCEPT ![j].state = "scheduled"]),
              {"delayed", "nq:scheduled"}, {j})

MirrorOf(j, s) == db.zset[Mirror(s)] \cap JobsOf(QueueOf[j])

\* A verdict reaches Redis: history.
Settled(r) ==
    /\ runs' = runs \ {r}
    /\ late' = (late \/ db.hash[r.job].state # "running")
    /\ UNCHANGED <<procVars, claims>>

mark_completed(r) ==
    /\ r.phase = "settling" /\ r.verdict = "ok" /\ Owns(r)
    /\ \E V \in Victims(OnComplete[r.job], MirrorOf(r.job, "completed"), r.job) :
          db' = fn_complete(db, r.job, V)
    /\ Settled(r)

\* Is there a retry_at?  The attempt compared is the one the claim returned.
retry_schedule(r) ==
    \/ r.verdict = "retry"
    \/ r.verdict = "error" /\ r.attempt < MaxAttempts[r.job]

mark_failed(r) ==
    /\ r.phase = "settling" /\ r.verdict # "ok" /\ Owns(r)
    /\ \/ /\ retry_schedule(r)
          /\ \E now \in BOOLEAN : db' = fn_fail_retry(db, r.job, now)
       \/ /\ ~retry_schedule(r)
          /\ \E V \in Victims(OnFail[r.job], MirrorOf(r.job, "failed"), r.job) :
                db' = fn_fail_final(db, r.job, V)
    /\ Settled(r)

\* The row is another worker's or nobody's, or the call never arrives.
DropVerdict(r) ==
    /\ r.phase = "settling"
    /\ runs' = runs \ {r}
    /\ UNCHANGED <<db, procVars, claims, late>>

\* Mutant: an expired lease is renewed without looking at the state.
fn_heartbeat_AnyState(d, S) == Leased(d, S \cap Exists(d))

fn_heartbeat(d, S) == Leased(d, S \cap InState(d, "running"))

update_heartbeat_batch(p) ==
    /\ mode[p] = "up" /\ in_flight[p] # {}
    /\ db' = fn_heartbeat(db, in_flight[p])
    /\ UNCHANGED <<procVars, runs, claims, late>>

\* stale_after passes without a heartbeat of the job.
HeartbeatExpires(j) ==
    /\ j \in db.zset["active"] \ db.zset["stale"]
    /\ db' = zadd(db, {"stale"}, {j})
    /\ UNCHANGED <<procVars, runs, claims, late>>

-----------------------------------------------------------------------------
(* Maintenance: the sweeper, the scheduler's promotion, retention.         *)

Exhausted(h, j) == h.stalled_count + 1 > MaxStalled[j]

\* The jobs S lost their worker: those out of stall budget fail and keep
\* their locked_by, the others wait again.
Recovered(d, S) ==
    LET X == {j \in S : Exhausted(d.hash[j], j)}
        out == zrem(d, RunIndex, S)
        put == hset(out, [j \in Job |->
                  IF j \notin S THEN d.hash[j]
                  ELSE IF j \in X
                  THEN [d.hash[j] EXCEPT !.state = "failed", !.stalled_count = @ + 1]
                  ELSE [Unlocked(d.hash[j]) EXCEPT
                          !.state = "pending", !.stalled_count = @ + 1,
                          !.attempt = IF @ > 0 THEN @ - 1 ELSE 0]])
    IN zadd(zadd(release_unique(put, X), {"failed", "nq:failed"}, X),
            {"wait"}, S \ X)

\* The ids of I a script gets through: all of them, in the order of their
\* scores; or those before an id whose hash is gone, where it fails for want
\* of a queue name, after that id has left the set it was found in.
Processed(d, I) ==
    LET here == I \cap Exists(d)
        missing == I \ here
    IN IF missing = {} THEN {<<I, {}>>}
       ELSE {<<S, {j}>> : S \in SUBSET here, j \in missing}

fn_sweep_stale(d, S, gone) ==
    zrem(Recovered(d, S), {"active", "stale"}, gone)

sweep_stale ==
    /\ \E p \in Proc : mode[p] = "up"
    /\ db.zset["stale"] # {}
    /\ \E out \in Processed(db, db.zset["stale"]) :
          db' = fn_sweep_stale(db, out[1], out[2])
    /\ UNCHANGED <<procVars, runs, claims, late>>

\* Mutant: the mirror is forgotten.
fn_promote_delayed_KeepsMirror(d, S, gone) ==
    zadd(hset(zrem(d, {"delayed"}, S \cup gone),
              [j \in Job |-> IF j \in S THEN [d.hash[j] EXCEPT !.state = "pending"]
                             ELSE d.hash[j]]),
         {"wait"}, S)

fn_promote_delayed(d, S, gone) ==
    zadd(hset(zrem(zrem(d, {"delayed"}, S \cup gone), {"nq:scheduled"}, S),
              [j \in Job |-> IF j \in S THEN [d.hash[j] EXCEPT !.state = "pending"]
                             ELSE d.hash[j]]),
         {"wait"}, S)

\* The first half of a scheduler tick, for the jobs that are due by now.
promote_delayed_call ==
    /\ \E p \in Proc : mode[p] = "up"
    /\ \E D \in SUBSET db.zset["delayed"] :
          /\ D # {}
          /\ \E out \in Processed(db, D) :
                db' = fn_promote_delayed(db, out[1], out[2])
    /\ UNCHANGED <<procVars, runs, claims, late>>

\* One state of fn_cleanup.  The mirror is cleaned by the queue in the hash.
Cleaned(d, s, V) ==
    zrem(zrem(delete_job(d, V), {s}, V), {Mirror(s)}, V \cap Exists(d))

fn_cleanup(d, C, F, X) ==
    Cleaned(Cleaned(Cleaned(d, "completed", C), "failed", F), "cancelled", X)

\* cleanup reaps all three states by age or count, clean one of them.
cleanup ==
    /\ \E C \in SUBSET db.zset["completed"], F \in SUBSET db.zset["failed"],
          X \in SUBSET db.zset["cancelled"] :
          /\ C \cup F \cup X # {}
          /\ db' = fn_cleanup(db, C, F, X)
    /\ UNCHANGED <<procVars, runs, claims, late>>

-----------------------------------------------------------------------------
(* Shutdown and crash.                                                     *)

\* Handlers are aborted; a verdict may already be on its way.
Aborted(p) == {r \in runs : r.proc = p /\ r.phase # "settling"}

shutdown_with(p) ==
    /\ p \in Stoppable /\ mode[p] = "up"
    /\ mode' = [mode EXCEPT ![p] = "draining"]
    /\ snapshot' = [snapshot EXCEPT ![p] = in_flight[p]]
    /\ UNCHANGED <<db, in_flight, runs, claims, late>>

fn_reclaim_in_flight(d, S) == Recovered(d, S \cap InState(d, "running"))

\* Force, or a drain that ran out of time: abort, then give the snapshot back.
reclaim_in_flight(p) ==
    /\ mode[p] = "draining"
    /\ db' = fn_reclaim_in_flight(db, snapshot[p])
    /\ mode' = [mode EXCEPT ![p] = "down"]
    /\ runs' = runs \ Aborted(p)
    /\ in_flight' = [in_flight EXCEPT ![p] = {}]
    /\ snapshot' = [snapshot EXCEPT ![p] = {}]
    /\ UNCHANGED <<claims, late>>

\* A drain that ended in time, a reclaim that did not arrive, or a crash.
Stop(p) ==
    /\ p \in Stoppable /\ mode[p] # "down"
    /\ mode' = [mode EXCEPT ![p] = "down"]
    /\ runs' = runs \ Aborted(p)
    /\ in_flight' = [in_flight EXCEPT ![p] = {}]
    /\ snapshot' = [snapshot EXCEPT ![p] = {}]
    /\ UNCHANGED <<db, claims, late>>

-----------------------------------------------------------------------------

Settle(r) == mark_completed(r) \/ mark_failed(r) \/ DropVerdict(r)

Producer ==
    \/ \E j \in Job, due \in BOOLEAN : enqueue(j, due)
    \/ \E S \in SUBSET Job : \E D \in SUBSET S : enqueue_many(S, D)
    \/ \E j \in Job : cancel(j)

Operator ==
    \/ \E l \in Operable : set_concurrency(l) \/ set_paused(l)
    \/ \E g \in Operable \cap Group : group_set_rule(g) \/ group_remove_rule(g)

Process ==
    \/ \E p \in Proc, S \in SUBSET Job : claim_batch(p, S)
    \/ \E r \in runs : FinishHandler(r) \/ Settle(r)
    \/ \E p \in Proc : update_heartbeat_batch(p)
    \/ \E j \in Job : HeartbeatExpires(j)

Maintenance == sweep_stale \/ promote_delayed_call \/ cleanup

Shutdown == \E p \in Proc : shutdown_with(p) \/ reclaim_in_flight(p) \/ Stop(p)

Next == Producer \/ Operator \/ Process \/ Maintenance \/ Shutdown

Spec == Init /\ [][Next]_vars

-----------------------------------------------------------------------------
(* Safety.                                                                 *)

\* Where the hash says a job is, the sets have it: a live job is always in
\* the set the next claim, promotion or sweep reads it from, a finished one
\* in the set retention reads.  Holds through every late verdict, although
\* the functions write hash and sets separately (library.lua:768-1066).
NoJobLost ==
    \A j \in Job :
        LET s == db.hash[j].state
            in(i) == j \in db.zset[i]
        IN /\ s = "pending" => in("wait")
           /\ s = "running" => /\ in("active") /\ in("nq:running")
                               /\ j \in Grouped => in("group:running")
           /\ s \in Mirrored => in(Global(s)) /\ in(Mirror(s))

\* Each mirror agrees with its global set for every job that still has a
\* hash.  Retention picks its victims from the mirrors and cleanup from the
\* global sets: what only one of them knows, the other never reaps.
MirrorsAgree ==
    \A j \in Exists(db), s \in Mirrored :
        j \in db.zset[Global(s)] <=> j \in db.zset[Mirror(s)]

\* A unique key is held by a live job.  A key that outlives its job would
\* silently drop every later enqueue (library.lua:617-631).
KeyHolderIsLive ==
    \A k \in Key : db.unique[k] # NoJob =>
        /\ db.hash[db.unique[k]].state \in Live
        /\ KeyOf[db.unique[k]] = k

Running(l) == InState(db, "running") \cap JobsOf(l)

\* No step starts a job in a lane that is paused or full, counted in rows
\* that are running and not in the set the gate measures.
CapsRespected ==
    [][\A l \in Lane :
          (\E j \in Running(l)' : j \notin Running(l)) =>
              /\ ~db.meta[l].paused
              /\ Cardinality(Running(l)') <= db.meta[l].max_concurrency]_vars

\* As long as no verdict was accepted for a row that is not running, the
\* sets hold nothing else: no slot leaks, nothing deleted is left behind.
IndexExact ==
    ~late =>
        \A j \in Job :
            LET s == db.hash[j].state
                in(i) == j \in db.zset[i]
            IN /\ in("wait") => s = "pending"
               /\ \A i \in RunIndex : in(i) => s = "running"
               /\ \A m \in Mirrored : in(Global(m)) \/ in(Mirror(m)) => s = m

\* Hash, sets and mirrors describe the same jobs after every function.
KeyspaceInv == TypeOK /\ NoJobLost /\ MirrorsAgree /\ IndexExact

\* As long as no late verdict was accepted, a live job holds its unique key,
\* so that no two live jobs have the same.
LiveJobHoldsKey ==
    ~late => \A j \in Job : db.hash[j].state \in Live /\ KeyOf[j] # NoKey =>
                                db.unique[KeyOf[j]] = j

\* A key is held by a live job, and by the one it was enqueued for, however
\* often it has changed hands (library.lua:608-631).
KeysExact == KeyHolderIsLive /\ LiveJobHoldsKey

\* Nor does a finished job change then, until retention deletes it: sweeps,
\* heartbeats, reclaims and cancels leave it alone (library.lua:885-1066).
FinalUnlessLate ==
    [][~late' => \A j \in Job : db.hash[j].state \in Final =>
                     db'.hash[j].state \in {db.hash[j].state, "gone"}]_vars

\* A finished job is not finished a second time, nor brought back.  The
\* functions look at locked_by "so we don't double-finalize".
TerminalIsFinal ==
    [][\A j \in Job : db.hash[j].state \in Final =>
           db'.hash[j].state \in {db.hash[j].state, "gone"}]_vars

\* A slot of a queue or a group is held by a job that exists.
NoSlotLeaks ==
    (db.zset["nq:running"] \cup db.zset["group:running"]) \subseteq Exists(db)

-----------------------------------------------------------------------------
(* Liveness.                                                               *)

\* Time passes, the loops of a running process keep turning, handlers
\* return, and one process stays up.  Nothing makes producers, operators,
\* retention, crashes or the loss of a held lease happen.
Fairness ==
    /\ \A j \in Job :
          WF_vars((\A p \in Proc : mode[p] = "up" => j \notin in_flight[p])
                  /\ HeartbeatExpires(j))
    /\ \A p \in Proc, j \in Job :
          /\ WF_vars(\E S \in SUBSET Job : j \in S /\ claim_batch(p, S))
          /\ WF_vars(\E r \in runs : r.proc = p /\ r.job = j
                                     /\ (FinishHandler(r) \/ Settle(r)))
    /\ WF_vars(sweep_stale)
    /\ WF_vars(promote_delayed_call)

FairSpec == Spec /\ Fairness

\* Every enqueued job is settled, whatever replies and verdicts are lost and
\* whichever processes stop, unless an operator pauses them or a late verdict
\* disturbs the sets.
JobsSettle ==
    \A j \in Job : db.hash[j].state \in Live ~>
        late \/ (\E l \in Lane : db.meta[l].paused) \/ db.hash[j].state \in Final \cup {"gone"}
=============================================================================
