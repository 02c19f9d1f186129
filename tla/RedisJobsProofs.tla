-------------------------- MODULE RedisJobsProofs --------------------------
(***************************************************************************)
(* The keyspace of the Redis backend.  A function of library.lua writes    *)
(* hashes, sorted sets and unique keys separately; seen from one job it    *)
(* takes a pair, the hash and the set of indexes the job is in, to another *)
(* pair.  The lemmas of the first part say to which.  The invariant says   *)
(* which pairs are reachable, for every job by itself, and the properties  *)
(* of the keyspace follow.                                                 *)
(***************************************************************************)
EXTENDS RedisJobs, FiniteSetTheorems, TLAPS

Keyspace == [hash : [Job -> Hash], zset : [Index -> SUBSET Job],
             unique : [Key -> Job \cup {NoJob}],
             meta : [Lane -> Meta], rule : [Group -> Nat]]

\* The indexes that hold the job j.
In(d, j) == {i \in Index : j \in d.zset[i]}

\* Arguments of ZADD.
Indexes(I) == I \subseteq Index
Jobs(S) == S \subseteq Job

\* The names of the indexes.
LEMMA IndexNames ==
    /\ Index = {"wait", "delayed", "completed", "failed", "cancelled",
                "active", "stale", "nq:running", "group:running",
                "nq:scheduled", "nq:completed", "nq:failed", "nq:cancelled"}
    /\ Mirror("scheduled") = "nq:scheduled" /\ Mirror("completed") = "nq:completed"
    /\ Mirror("failed") = "nq:failed" /\ Mirror("cancelled") = "nq:cancelled"
<1>1. /\ Mirror("scheduled") = "nq:scheduled" /\ Mirror("completed") = "nq:completed"
      /\ Mirror("failed") = "nq:failed" /\ Mirror("cancelled") = "nq:cancelled"
      BY DEF Mirror
<1>2. {Mirror(s) : s \in Mirrored} =
          {"nq:scheduled", "nq:completed", "nq:failed", "nq:cancelled"}
      BY <1>1 DEF Mirrored, Final
<1> QED BY <1>1, <1>2 DEF Index, RunIndex, Final

-----------------------------------------------------------------------------
(* What the primitives of the library do to a keyspace.                    *)

\* ZADD of the jobs S to the indexes I.
LEMMA ZaddEffect ==
    ASSUME NEW d \in Keyspace, NEW I, Indexes(I), NEW S, Jobs(S)
    PROVE  LET e == zadd(d, I, S) IN
           /\ e \in Keyspace
           /\ e.hash = d.hash /\ e.unique = d.unique
           /\ e.meta = d.meta /\ e.rule = d.rule
           /\ \A j \in Job : In(e, j) = IF j \in S THEN In(d, j) \cup I ELSE In(d, j)
<1> DEFINE z == [i \in Index |-> IF i \in I THEN d.zset[i] \cup S ELSE d.zset[i]]
           e == zadd(d, I, S)
<1>1. d.zset \in [Index -> SUBSET Job]
      BY DEF Keyspace
<1>2. z \in [Index -> SUBSET Job]
      BY <1>1 DEF Jobs
<1>3. e = [d EXCEPT !.zset = z]
      BY DEF zadd
<1> HIDE DEF z, e
<1>4. /\ e \in Keyspace /\ e.zset = z
      /\ e.hash = d.hash /\ e.unique = d.unique
      /\ e.meta = d.meta /\ e.rule = d.rule
      BY <1>2, <1>3 DEF Keyspace
<1>5. ASSUME NEW j \in Job
      PROVE  In(e, j) = IF j \in S THEN In(d, j) \cup I ELSE In(d, j)
      BY <1>4 DEF In, z, Indexes
<1> QED BY <1>4, <1>5 DEF e

\* ZREM of the jobs S from the indexes I.
LEMMA ZremEffect ==
    ASSUME NEW d \in Keyspace, NEW I, NEW S
    PROVE  LET e == zrem(d, I, S) IN
           /\ e \in Keyspace
           /\ e.hash = d.hash /\ e.unique = d.unique
           /\ e.meta = d.meta /\ e.rule = d.rule
           /\ \A j \in Job : In(e, j) = IF j \in S THEN In(d, j) \ I ELSE In(d, j)
<1> DEFINE z == [i \in Index |-> IF i \in I THEN d.zset[i] \ S ELSE d.zset[i]]
           e == zrem(d, I, S)
<1>1. d.zset \in [Index -> SUBSET Job]
      BY DEF Keyspace
<1>2. z \in [Index -> SUBSET Job]
      BY <1>1
<1>3. e = [d EXCEPT !.zset = z]
      BY DEF zrem
<1> HIDE DEF z, e
<1>4. /\ e \in Keyspace /\ e.zset = z
      /\ e.hash = d.hash /\ e.unique = d.unique
      /\ e.meta = d.meta /\ e.rule = d.rule
      BY <1>2, <1>3 DEF Keyspace
<1>5. ASSUME NEW j \in Job
      PROVE  In(e, j) = IF j \in S THEN In(d, j) \ I ELSE In(d, j)
      BY <1>4 DEF In, z
<1> QED BY <1>4, <1>5 DEF e

\* HSET.
LEMMA HsetEffect ==
    ASSUME NEW d \in Keyspace, NEW h \in [Job -> Hash]
    PROVE  LET e == hset(d, h) IN
           /\ e \in Keyspace
           /\ e.hash = h /\ e.unique = d.unique
           /\ e.meta = d.meta /\ e.rule = d.rule
           /\ \A j \in Job : In(e, j) = In(d, j)
<1>1. /\ hset(d, h) \in Keyspace /\ hset(d, h).zset = d.zset
      /\ hset(d, h).hash = h /\ hset(d, h).unique = d.unique
      /\ hset(d, h).meta = d.meta /\ hset(d, h).rule = d.rule
      BY DEF hset, Keyspace
<1> QED BY <1>1 DEF In

\* drop_unique_if_owner.
LEMMA ReleaseEffect ==
    ASSUME NEW d \in Keyspace, NEW S
    PROVE  LET e == release_unique(d, S) IN
           /\ e \in Keyspace
           /\ e.hash = d.hash
           /\ \A k \in Key : e.unique[k] = IF d.unique[k] \in S THEN NoJob
                                           ELSE d.unique[k]
           /\ e.meta = d.meta /\ e.rule = d.rule
           /\ \A j \in Job : In(e, j) = In(d, j)
<1> DEFINE u == [k \in Key |-> IF d.unique[k] \in S THEN NoJob ELSE d.unique[k]]
           e == release_unique(d, S)
<1>1. u \in [Key -> Job \cup {NoJob}]
      BY DEF Keyspace
<1>2. e = [d EXCEPT !.unique = u]
      BY DEF release_unique
<1> HIDE DEF u, e
<1>3. /\ e \in Keyspace /\ e.zset = d.zset
      /\ e.hash = d.hash /\ e.unique = u
      /\ e.meta = d.meta /\ e.rule = d.rule
      BY <1>1, <1>2 DEF Keyspace
<1> QED BY <1>3 DEF In, u, e

\* delete_job: the hash and, where it still owns it, the unique key.
LEMMA DeleteEffect ==
    ASSUME NEW d \in Keyspace, NEW S
    PROVE  LET e == delete_job(d, S) IN
           /\ e \in Keyspace
           /\ \A j \in Job : e.hash[j] = IF j \in S THEN NoHash("gone") ELSE d.hash[j]
           /\ \A k \in Key : e.unique[k] = IF d.unique[k] \in S THEN NoJob
                                           ELSE d.unique[k]
           /\ e.meta = d.meta /\ e.rule = d.rule
           /\ \A j \in Job : In(e, j) = In(d, j)
<1> DEFINE h == [j \in Job |-> IF j \in S THEN NoHash("gone") ELSE d.hash[j]]
           r == release_unique(d, S)
<1>1. h \in [Job -> Hash]
      BY DEF Keyspace, NoHash, Hash
<1>2. delete_job(d, S) = hset(r, h)
      BY DEF delete_job
<1>3. /\ r \in Keyspace
      /\ \A k \in Key : r.unique[k] = IF d.unique[k] \in S THEN NoJob ELSE d.unique[k]
      /\ r.meta = d.meta /\ r.rule = d.rule
      /\ \A j \in Job : In(r, j) = In(d, j)
      BY ReleaseEffect
<1>4. /\ hset(r, h) \in Keyspace
      /\ hset(r, h).hash = h /\ hset(r, h).unique = r.unique
      /\ hset(r, h).meta = r.meta /\ hset(r, h).rule = r.rule
      /\ \A j \in Job : In(hset(r, h), j) = In(r, j)
      BY <1>1, <1>3, HsetEffect
<1> HIDE DEF r
<1> QED BY <1>2, <1>3, <1>4

-----------------------------------------------------------------------------
(* The pairs of a hash and a set of indexes that are reachable, and what a  *)
(* step of the library may do to one.                                       *)

\* Where a job in state s has to be.
Placed(j, s, N) ==
    /\ s = "pending" => "wait" \in N
    /\ s = "running" => /\ "active" \in N /\ "nq:running" \in N
                        /\ j \in Grouped => "group:running" \in N
    /\ s = "scheduled" => "delayed" \in N /\ "nq:scheduled" \in N
    /\ s = "completed" => "completed" \in N /\ "nq:completed" \in N
    /\ s = "failed" => "failed" \in N /\ "nq:failed" \in N
    /\ s = "cancelled" => "cancelled" \in N /\ "nq:cancelled" \in N

\* The mirrors agree with the global sets.
Paired(N) ==
    /\ "delayed" \in N <=> "nq:scheduled" \in N
    /\ "completed" \in N <=> "nq:completed" \in N
    /\ "failed" \in N <=> "nq:failed" \in N
    /\ "cancelled" \in N <=> "nq:cancelled" \in N

\* A job is nowhere else.
Exact(s, N) ==
    /\ "wait" \in N => s = "pending"
    /\ "active" \in N \/ "stale" \in N => s = "running"
    /\ "nq:running" \in N \/ "group:running" \in N => s = "running"
    /\ "delayed" \in N \/ "nq:scheduled" \in N => s = "scheduled"
    /\ "completed" \in N \/ "nq:completed" \in N => s = "completed"
    /\ "failed" \in N \/ "nq:failed" \in N => s = "failed"
    /\ "cancelled" \in N \/ "nq:cancelled" \in N => s = "cancelled"

\* The hash h and the indexes N of a job j fit together; lt says that a
\* verdict was accepted late.  An id not handed out is in no set, and nobody
\* owns a job that has no hash.
Good(j, h, N, lt) ==
    /\ Placed(j, h.state, N)
    /\ h.state \notin {"absent", "gone"} => Paired(N)
    /\ ~lt => Exact(h.state, N)
    /\ h.state = "absent" => N = {}
    /\ h.state \in {"absent", "gone"} => h.locked_by = NoWorker


\* What a function does to one job; freed says that the job gave up its key.
\* Live jobs stay live or give up their key, deleted jobs stay deleted; and
\* while no verdict was late, nothing becomes live again and a finished job
\* changes only by being deleted.
Move(j, h, N, h2, N2, freed, lt, lt2) ==
    /\ Good(j, h2, N2, lt2)
    /\ h.state \in Live /\ ~freed => h2.state \in Live
    /\ h.state = "gone" => h2.state = "gone"
    /\ ~lt2 => /\ h2.state \in Live => h.state \in Live /\ ~freed
               /\ h.state \in Final => h2.state \in {h.state, "gone"}

\* What a function does to the keyspace, the jobs R giving up their keys.
Step(d, e, R, lt, lt2) ==
    /\ e \in Keyspace
    /\ lt => lt2
    /\ \A k \in Key : e.unique[k] = IF d.unique[k] \in R THEN NoJob ELSE d.unique[k]
    /\ \A j \in Job :
          Move(j, d.hash[j], In(d, j), e.hash[j], In(e, j), j \in R, lt, lt2)

\* No job starts to run.
NoStart(d, e) ==
    \A j \in Job : e.hash[j].state = "running" => d.hash[j].state = "running"

\* Every job is where its hash says.
AllGood(d, lt) == \A j \in Job : Good(j, d.hash[j], In(d, j), lt)

\* A job that a function leaves alone.
LEMMA Stay ==
    ASSUME NEW j, NEW h, NEW N, NEW lt \in BOOLEAN, NEW lt2 \in BOOLEAN,
           lt => lt2, Good(j, h, N, lt), NEW freed,
           h.state \in Live => ~freed
    PROVE  Move(j, h, N, h, N, freed, lt, lt2)
BY DEF Move, Good

\* cancel takes a job that waits out of its set and records it.
LEMMA CancelStep ==
    ASSUME NEW d \in Keyspace, NEW lt \in BOOLEAN, AllGood(d, lt), NEW j \in Job,
           d.hash[j].state \in {"pending", "scheduled"}
    PROVE  Step(d, fn_cancel(d, j), {j}, lt, lt) /\ NoStart(d, fn_cancel(d, j))
<1> DEFINE left == IF d.hash[j].state = "pending" THEN {"wait"}
                   ELSE {"delayed", "nq:scheduled"}
           joined == {"cancelled", "nq:cancelled"}
           J == {j}
           out == zrem(d, left, J)
           h == [d.hash EXCEPT ![j].state = "cancelled"]
           put == hset(out, h)
           rel == release_unique(put, J)
           e == zadd(rel, joined, J)
<1>1. fn_cancel(d, j) = e
      BY DEF fn_cancel
<1>2. h \in [Job -> Hash] /\ Indexes(joined) /\ Jobs(J)
      BY IndexNames DEF Keyspace, Hash, Final, Indexes, Jobs
<1> HIDE DEF left, J, h, joined
<1>3. /\ out \in Keyspace /\ out.unique = d.unique /\ out.meta = d.meta
      /\ \A i \in Job : In(out, i) = IF i \in J THEN In(d, i) \ left ELSE In(d, i)
      BY ZremEffect
<1> HIDE DEF out
<1>4. /\ put \in Keyspace /\ put.unique = out.unique /\ put.hash = h
      /\ put.meta = out.meta
      /\ \A i \in Job : In(put, i) = In(out, i)
      BY <1>2, <1>3, HsetEffect
<1> HIDE DEF put
<1>5. /\ rel \in Keyspace /\ rel.hash = put.hash /\ rel.meta = put.meta
      /\ \A k \in Key : rel.unique[k] = IF put.unique[k] \in J THEN NoJob
                                        ELSE put.unique[k]
      /\ \A i \in Job : In(rel, i) = In(put, i)
      BY <1>4, ReleaseEffect
<1> HIDE DEF rel
<1>6. /\ e \in Keyspace /\ e.hash = rel.hash /\ e.unique = rel.unique
      /\ e.meta = rel.meta
      /\ \A i \in Job : In(e, i) = IF i \in J THEN In(rel, i) \cup joined
                                   ELSE In(rel, i)
      BY <1>2, <1>5, ZaddEffect
<1> HIDE DEF e
<1>7. /\ In(e, j) = (In(d, j) \ left) \cup joined
      /\ e.hash[j] = [d.hash[j] EXCEPT !.state = "cancelled"]
      BY <1>3, <1>4, <1>5, <1>6 DEF h, Keyspace, J
<1>8. Good(j, d.hash[j], In(d, j), lt) /\ d.hash[j] \in Hash
      BY DEF AllGood, Keyspace
<1>9. e.hash[j].state = "cancelled"
      BY <1>7, <1>8 DEF Hash
<1>10. Move(j, d.hash[j], In(d, j), e.hash[j], In(e, j), j \in J, lt, lt)
      <2>1. Good(j, e.hash[j], In(e, j), lt)
            BY <1>7, <1>8, <1>9 DEF left, joined, Good, Placed, Paired, Exact
      <2> QED BY <1>9, <2>1 DEF Move, Live, Final, J
<1>11. ASSUME NEW i \in Job, i # j
       PROVE  /\ e.hash[i] = d.hash[i]
              /\ Move(i, d.hash[i], In(d, i), e.hash[i], In(e, i), i \in J, lt, lt)
      <2>1. e.hash[i] = d.hash[i] /\ In(e, i) = In(d, i) /\ i \notin J
            BY <1>11, <1>3, <1>4, <1>5, <1>6 DEF h, Keyspace, J
      <2> QED BY <1>11, <2>1, Stay DEF AllGood
<1>12. Step(d, e, J, lt, lt) /\ NoStart(d, e)
      BY <1>3, <1>4, <1>5, <1>6, <1>9, <1>10, <1>11 DEF Step, NoStart
<1> QED BY <1>1, <1>12 DEF J

\* ZADD to :active with the present time.
LEMMA LeasedEffect ==
    ASSUME NEW d \in Keyspace, NEW S, Jobs(S)
    PROVE  /\ Leased(d, S) \in Keyspace
           /\ Leased(d, S).hash = d.hash /\ Leased(d, S).unique = d.unique
           /\ Leased(d, S).meta = d.meta /\ Leased(d, S).rule = d.rule
           /\ \A j \in Job : In(Leased(d, S), j) =
                 IF j \in S THEN (In(d, j) \cup {"active"}) \ {"stale"} ELSE In(d, j)
<1> DEFINE A == {"active"}
           B == {"stale"}
           a == zadd(d, A, S)
           e == zrem(a, B, S)
<1>1. Leased(d, S) = e /\ Indexes(A)
      BY IndexNames DEF Leased, Indexes
<1> HIDE DEF A, B
<1>2. /\ a \in Keyspace /\ a.hash = d.hash /\ a.unique = d.unique
      /\ a.meta = d.meta /\ a.rule = d.rule
      /\ \A j \in Job : In(a, j) = IF j \in S THEN In(d, j) \cup A ELSE In(d, j)
      BY <1>1, ZaddEffect
<1> HIDE DEF a
<1>3. /\ e \in Keyspace /\ e.hash = a.hash /\ e.unique = a.unique
      /\ e.meta = a.meta /\ e.rule = a.rule
      /\ \A j \in Job : In(e, j) = IF j \in S THEN In(a, j) \ B ELSE In(a, j)
      BY <1>2, ZremEffect
<1> QED BY <1>1, <1>2, <1>3 DEF A, B

\* The hash a claim writes.
Claimed(h, p) == [h EXCEPT !.state = "running", !.attempt = @ + 1, !.locked_by = p]

\* It is the hash of a running job.
LEMMA ClaimedHash ==
    ASSUME NEW h \in Hash, NEW p \in Proc
    PROVE  Claimed(h, p) \in Hash /\ Claimed(h, p).state = "running"
<1>1. h.attempt + 1 \in Nat
      BY DEF Hash
<1>2. "running" \in {"absent", "gone"} \cup Live \cup Final
      BY DEF Live
<1> QED BY <1>1, <1>2 DEF Hash, Claimed

\* claim moves the jobs S from the wait set to the running sets.
LEMMA ClaimStep ==
    ASSUME NEW d \in Keyspace, NEW lt \in BOOLEAN, AllGood(d, lt),
           NEW p \in Proc, NEW S \in SUBSET Job,
           \A j \in S : d.hash[j].state = "pending"
    PROVE  /\ Step(d, fn_claim(d, p, S), {}, lt, lt)
           /\ fn_claim(d, p, S).meta = d.meta
           /\ \A j \in Job \ S : fn_claim(d, p, S).hash[j] = d.hash[j]
<1> DEFINE W == {"wait"}
           Q == {"nq:running"}
           G == {"group:running"}
           SG == S \cap Grouped
           out == zrem(d, W, S)
           h == [j \in Job |-> IF j \in S THEN Claimed(d.hash[j], p) ELSE d.hash[j]]
           put == hset(out, h)
           lsd == Leased(put, S)
           f == zadd(lsd, Q, S)
           e == zadd(f, G, SG)
<1>1. fn_claim(d, p, S) = e
      BY DEF fn_claim, Claimed
<1>2. /\ Indexes(Q) /\ Indexes(G) /\ Jobs(S) /\ Jobs(SG)
      BY IndexNames DEF Indexes, Jobs
<1>3. h \in [Job -> Hash]
  <2>1. ASSUME NEW j \in Job
        PROVE  (IF j \in S THEN Claimed(d.hash[j], p) ELSE d.hash[j]) \in Hash
        <3>1. d.hash[j] \in Hash
              BY DEF Keyspace
        <3> QED BY <3>1, ClaimedHash
  <2> QED BY <2>1
<1> HIDE DEF W, Q, G, SG, h
<1>4. /\ out \in Keyspace /\ out.unique = d.unique /\ out.meta = d.meta
      /\ \A i \in Job : In(out, i) = IF i \in S THEN In(d, i) \ W ELSE In(d, i)
      BY ZremEffect
<1> HIDE DEF out
<1>5. /\ put \in Keyspace /\ put.unique = out.unique /\ put.hash = h
      /\ put.meta = out.meta
      /\ \A i \in Job : In(put, i) = In(out, i)
      BY <1>3, <1>4, HsetEffect
<1> HIDE DEF put
<1>6. /\ lsd \in Keyspace /\ lsd.unique = put.unique /\ lsd.hash = put.hash
      /\ lsd.meta = put.meta
      /\ \A i \in Job : In(lsd, i) = IF i \in S
                           THEN (In(put, i) \cup {"active"}) \ {"stale"} ELSE In(put, i)
      BY <1>2, <1>5, LeasedEffect
<1> HIDE DEF lsd
<1>7. /\ f \in Keyspace /\ f.unique = lsd.unique /\ f.hash = lsd.hash
      /\ f.meta = lsd.meta
      /\ \A i \in Job : In(f, i) = IF i \in S THEN In(lsd, i) \cup Q ELSE In(lsd, i)
      BY <1>2, <1>6, ZaddEffect
<1> HIDE DEF f
<1>8. /\ e \in Keyspace /\ e.unique = f.unique /\ e.hash = f.hash
      /\ e.meta = f.meta
      /\ \A i \in Job : In(e, i) = IF i \in SG THEN In(f, i) \cup G ELSE In(f, i)
      BY <1>2, <1>7, ZaddEffect
<1> HIDE DEF e
<1>9. ASSUME NEW j \in Job, j \in S
      PROVE  Move(j, d.hash[j], In(d, j), e.hash[j], In(e, j), j \in {}, lt, lt)
      <2>1. Good(j, d.hash[j], In(d, j), lt) /\ d.hash[j] \in Hash
            BY DEF AllGood, Keyspace
      <2>2. e.hash[j].state = "running"
        <3>1. e.hash[j] = Claimed(d.hash[j], p)
              BY <1>5, <1>6, <1>7, <1>8, <1>9 DEF h
        <3> QED BY <2>1, <3>1, ClaimedHash
      <2>3. \A i : i \in In(e, j) <=>
                \/ i \in In(d, j) /\ i # "wait" /\ i # "stale"
                \/ i = "active" \/ i = "nq:running"
                \/ i = "group:running" /\ j \in Grouped
            BY <1>4, <1>5, <1>6, <1>7, <1>8, <1>9 DEF W, Q, G, SG
      <2>4. Good(j, e.hash[j], In(e, j), lt)
            BY <1>9, <2>1, <2>2, <2>3 DEF Good, Placed, Paired, Exact
      <2> QED BY <1>9, <2>2, <2>4 DEF Move, Live, Final
<1>10. ASSUME NEW j \in Job, j \notin S
       PROVE  /\ e.hash[j] = d.hash[j]
              /\ Move(j, d.hash[j], In(d, j), e.hash[j], In(e, j), j \in {}, lt, lt)
      <2>1. e.hash[j] = d.hash[j] /\ In(e, j) = In(d, j)
            BY <1>4, <1>5, <1>6, <1>7, <1>8, <1>10 DEF h, SG
      <2> QED BY <2>1, Stay DEF AllGood
<1>11. Step(d, e, {}, lt, lt)
      BY <1>4, <1>5, <1>6, <1>7, <1>8, <1>9, <1>10 DEF Step
<1> QED BY <1>1, <1>4, <1>5, <1>6, <1>7, <1>8, <1>10, <1>11

\* A heartbeat renews the lease of the rows of S that are running.
LEMMA HeartbeatStep ==
    ASSUME NEW d \in Keyspace, NEW lt \in BOOLEAN, AllGood(d, lt), NEW S
    PROVE  Step(d, fn_heartbeat(d, S), {}, lt, lt) /\ NoStart(d, fn_heartbeat(d, S))
<1> DEFINE B == S \cap InState(d, "running")
           e == Leased(d, B)
<1>1. fn_heartbeat(d, S) = e /\ Jobs(B)
      BY DEF fn_heartbeat, InState, Jobs
<1> HIDE DEF B
<1>2. /\ e \in Keyspace /\ e.hash = d.hash /\ e.unique = d.unique /\ e.meta = d.meta
      /\ \A j \in Job : In(e, j) =
            IF j \in B THEN (In(d, j) \cup {"active"}) \ {"stale"} ELSE In(d, j)
      BY <1>1, LeasedEffect
<1> HIDE DEF e
<1>3. ASSUME NEW j \in Job
      PROVE  Move(j, d.hash[j], In(d, j), e.hash[j], In(e, j), j \in {}, lt, lt)
      <2>1. Good(j, d.hash[j], In(d, j), lt)
            BY DEF AllGood
      <2>2. Good(j, e.hash[j], In(e, j), lt)
            BY <1>2, <2>1 DEF B, InState, Good, Placed, Paired, Exact
      <2> QED BY <1>2, <2>2 DEF Move
<1> QED BY <1>1, <1>2, <1>3 DEF Step, NoStart

\* Time makes the lease of an active row stale.
LEMMA ExpireStep ==
    ASSUME NEW d \in Keyspace, NEW lt \in BOOLEAN, AllGood(d, lt),
           NEW j \in d.zset["active"]
    PROVE  LET e == zadd(d, {"stale"}, {j}) IN Step(d, e, {}, lt, lt) /\ NoStart(d, e)
<1> DEFINE A == {"stale"}
           J == {j}
           e == zadd(d, A, J)
<1>1. "active" \in Index /\ Indexes(A) /\ d.zset["active"] \in SUBSET Job
      BY IndexNames DEF Keyspace, Indexes
<1>2. j \in Job /\ Jobs(J) /\ "active" \in In(d, j)
      BY <1>1 DEF In, Jobs
<1> HIDE DEF A, J
<1>3. /\ e \in Keyspace /\ e.hash = d.hash /\ e.unique = d.unique /\ e.meta = d.meta
      /\ \A i \in Job : In(e, i) = IF i \in J THEN In(d, i) \cup A ELSE In(d, i)
      BY <1>1, <1>2, ZaddEffect
<1> HIDE DEF e
<1>4. ASSUME NEW i \in Job
      PROVE  Move(i, d.hash[i], In(d, i), e.hash[i], In(e, i), i \in {}, lt, lt)
      <2>1. Good(i, d.hash[i], In(d, i), lt)
            BY DEF AllGood
      <2>2. Good(i, e.hash[i], In(e, i), lt)
            BY <1>2, <1>3, <2>1 DEF A, J, Good, Placed, Paired, Exact
      <2> QED BY <1>3, <2>2 DEF Move
<1>5. Step(d, e, {}, lt, lt) /\ NoStart(d, e)
      BY <1>3, <1>4 DEF Step, NoStart
<1> QED BY <1>5 DEF e, A, J

\* Retention takes its victims from the mirror, and never the job itself.
LEMMA VictimsMirrored ==
    ASSUME NEW rule, NEW M, NEW j, NEW V \in Victims(rule, M, j)
    PROVE  V \subseteq M /\ j \notin V
BY DEF Victims

\* A final verdict: the job leaves the running sets for the set of its state
\* and that set's mirror, or is deleted, and so are the victims V.
LEMMA FinalStep ==
    ASSUME NEW d \in Keyspace, NEW lt \in BOOLEAN, NEW lt2 \in BOOLEAN, AllGood(d, lt),
           NEW j \in Job, NEW s \in {"completed", "failed"}, NEW rule, NEW V,
           V \subseteq d.zset[Mirror(s)], j \notin V,
           d.hash[j].state \notin {"absent", "gone"},
           lt2 = (lt \/ d.hash[j].state # "running")
    PROVE  LET e == apply_retention(Finalized(d, j, s), j, s, rule, V)
           IN  Step(d, e, {j} \cup V, lt, lt2) /\ NoStart(d, e)
<1> DEFINE J == {j}
           R == RunIndex
           two == {s, Mirror(s)}
           h == [d.hash EXCEPT ![j].state = s]
           out == zrem(d, R, J)
           put == hset(out, h)
           fin == release_unique(put, J)
           added == IF DropsSelf(rule) THEN fin ELSE zadd(fin, two, J)
           del == delete_job(added, V)
           pru == zrem(del, two, V)
           off == zrem(pru, two, J)
           e == IF DropsSelf(rule) THEN delete_job(off, J) ELSE pru
<1>1. apply_retention(Finalized(d, j, s), j, s, rule, V) = e
      BY DEF apply_retention, Finalized
<1>2. Indexes(two) /\ Jobs(J) /\ V \subseteq Job
      BY IndexNames DEF Indexes, Jobs, Keyspace
<1>3. h \in [Job -> Hash]
      BY DEF Keyspace, Hash, Final
<1> HIDE DEF J, R, two, h
<1>4. /\ out \in Keyspace /\ out.unique = d.unique /\ out.meta = d.meta
      /\ \A i \in Job : In(out, i) = IF i \in J THEN In(d, i) \ R ELSE In(d, i)
      BY ZremEffect
<1> HIDE DEF out
<1>5. /\ put \in Keyspace /\ put.unique = out.unique /\ put.hash = h
      /\ put.meta = out.meta
      /\ \A i \in Job : In(put, i) = In(out, i)
      BY <1>3, <1>4, HsetEffect
<1> HIDE DEF put
<1>6. /\ fin \in Keyspace /\ fin.hash = put.hash /\ fin.meta = put.meta
      /\ \A k \in Key : fin.unique[k] = IF put.unique[k] \in J THEN NoJob
                                        ELSE put.unique[k]
      /\ \A i \in Job : In(fin, i) = In(put, i)
      BY <1>5, ReleaseEffect
<1> HIDE DEF fin
<1>7. /\ added \in Keyspace /\ added.hash = fin.hash /\ added.meta = fin.meta
      /\ added.unique = fin.unique
      /\ \A i \in Job : In(added, i) = IF i \in J /\ ~DropsSelf(rule)
                                       THEN In(fin, i) \cup two ELSE In(fin, i)
  <2>1. CASE DropsSelf(rule)
        BY <1>6, <2>1
  <2>2. CASE ~DropsSelf(rule)
        BY <1>2, <1>6, <2>2, ZaddEffect
  <2> QED BY <2>1, <2>2
<1> HIDE DEF added
<1>8. /\ del \in Keyspace /\ del.meta = added.meta
      /\ \A i \in Job : del.hash[i] = IF i \in V THEN NoHash("gone") ELSE added.hash[i]
      /\ \A k \in Key : del.unique[k] = IF added.unique[k] \in V THEN NoJob
                                        ELSE added.unique[k]
      /\ \A i \in Job : In(del, i) = In(added, i)
      BY <1>7, DeleteEffect
<1> HIDE DEF del
<1>9. /\ pru \in Keyspace /\ pru.hash = del.hash /\ pru.meta = del.meta
      /\ pru.unique = del.unique
      /\ \A i \in Job : In(pru, i) = IF i \in V THEN In(del, i) \ two ELSE In(del, i)
      BY <1>8, ZremEffect
<1> HIDE DEF pru
<1>10. /\ off \in Keyspace /\ off.hash = pru.hash /\ off.meta = pru.meta
       /\ off.unique = pru.unique
       /\ \A i \in Job : In(off, i) = IF i \in J THEN In(pru, i) \ two ELSE In(pru, i)
      BY <1>9, ZremEffect
<1> HIDE DEF off
<1>11. /\ e \in Keyspace /\ e.meta = pru.meta
       /\ \A i \in Job : e.hash[i] = IF i \in J /\ DropsSelf(rule) THEN NoHash("gone")
                                     ELSE pru.hash[i]
       /\ \A k \in Key : e.unique[k] = IF pru.unique[k] \in J /\ DropsSelf(rule)
                                       THEN NoJob ELSE pru.unique[k]
       /\ \A i \in Job : In(e, i) = IF i \in J /\ DropsSelf(rule) THEN In(pru, i) \ two
                                    ELSE In(pru, i)
  <2>1. CASE DropsSelf(rule)
    <3>1. e = delete_job(off, J)
          BY <2>1
    <3> HIDE DEF e
    <3>2. /\ e \in Keyspace /\ e.meta = off.meta
          /\ \A i \in Job : e.hash[i] = IF i \in J THEN NoHash("gone") ELSE off.hash[i]
          /\ \A k \in Key : e.unique[k] = IF off.unique[k] \in J THEN NoJob
                                          ELSE off.unique[k]
          /\ \A i \in Job : In(e, i) = In(off, i)
          BY <1>10, <3>1, DeleteEffect
    <3> QED BY <1>10, <2>1, <3>2
  <2>2. CASE ~DropsSelf(rule)
        BY <1>9, <2>2
  <2> QED BY <2>1, <2>2
<1> HIDE DEF e
<1>12. \A k \in Key : e.unique[k] = IF d.unique[k] \in J \cup V THEN NoJob
                                    ELSE d.unique[k]
  <2> SUFFICES ASSUME NEW k \in Key
               PROVE  e.unique[k] = IF d.unique[k] \in J \cup V THEN NoJob
                                    ELSE d.unique[k]
      OBVIOUS
  <2>1. NoJob \notin J \cup V
        BY <1>2, ConstantsAssumption DEF J
  <2> QED BY <1>4, <1>5, <1>6, <1>7, <1>8, <1>9, <1>11, <2>1
<1>13. ASSUME NEW i \in Job, i \in V
       PROVE  /\ Move(i, d.hash[i], In(d, i), e.hash[i], In(e, i), i \in J \cup V, lt, lt2)
              /\ e.hash[i].state = "gone"
  <2>1. i \notin J
        BY <1>13 DEF J
  <2>2. e.hash[i] = NoHash("gone") /\ In(e, i) = In(d, i) \ two
        BY <1>4, <1>5, <1>6, <1>7, <1>8, <1>9, <1>11, <1>13, <2>1
  <2>3. Good(i, d.hash[i], In(d, i), lt)
        BY DEF AllGood
  <2>4. Mirror(s) \in In(d, i)
        BY <1>13, IndexNames DEF In
  <2>5. Good(i, e.hash[i], In(e, i), lt2)
        BY <2>2, <2>3, <2>4, IndexNames DEF NoHash, two, Good, Placed, Paired, Exact
  <2> QED BY <1>13, <2>2, <2>5 DEF NoHash, Move, Live
<1>14. Move(j, d.hash[j], In(d, j), e.hash[j], In(e, j), j \in J \cup V, lt, lt2)
       /\ e.hash[j].state \in {s, "gone"}
  <2>1. j \in J /\ j \notin V /\ j \in Job
        BY DEF J
  <2>2. d.hash[j] \in Hash /\ Good(j, d.hash[j], In(d, j), lt)
        BY DEF AllGood, Keyspace
  <2>3. h[j].state = s
        BY <2>2 DEF h, Hash, Keyspace
  <2>4. CASE DropsSelf(rule)
    <3>1. e.hash[j] = NoHash("gone") /\ In(e, j) = (In(d, j) \ R) \ two
          BY <1>4, <1>5, <1>6, <1>7, <1>8, <1>9, <1>11, <2>1, <2>4
    <3>2. e.hash[j].state = "gone" /\ e.hash[j].locked_by = NoWorker
          BY <3>1 DEF NoHash
    <3>3. ASSUME ~lt2
          PROVE  In(e, j) = {}
      <4>1. Exact("running", In(d, j)) /\ In(d, j) \subseteq Index
            BY <2>2, <3>3 DEF Good, In
      <4> QED BY <3>1, <4>1, IndexNames DEF Exact, R, RunIndex
    <3>4. Good(j, e.hash[j], In(e, j), lt2)
          BY <3>2, <3>3 DEF Good, Placed, Exact
    <3> QED BY <2>1, <3>2, <3>4 DEF Move, Live, Final
  <2>5. CASE ~DropsSelf(rule)
    <3>1. e.hash[j] = h[j] /\ In(e, j) = (In(d, j) \ R) \cup two
          BY <1>4, <1>5, <1>6, <1>7, <1>8, <1>9, <1>11, <2>1, <2>5
    <3>2. Good(j, e.hash[j], In(e, j), lt2)
      <4>1. e.hash[j].state = s
            BY <2>3, <3>1
      <4>2. CASE s = "completed"
        <5>1. two = {"completed", "nq:completed"}
              BY <4>2, IndexNames DEF two
        <5> QED BY <2>2, <3>1, <4>1, <4>2, <5>1
                DEF R, RunIndex, Good, Placed, Paired, Exact
      <4>3. CASE s = "failed"
        <5>1. two = {"failed", "nq:failed"}
              BY <4>3, IndexNames DEF two
        <5> QED BY <2>2, <3>1, <4>1, <4>3, <5>1
                DEF R, RunIndex, Good, Placed, Paired, Exact
      <4> QED BY <4>2, <4>3
    <3> QED BY <2>1, <2>3, <3>1, <3>2 DEF Move, Live, Final
  <2> QED BY <2>4, <2>5
<1>15. ASSUME NEW i \in Job, i # j, i \notin V
       PROVE  /\ Move(i, d.hash[i], In(d, i), e.hash[i], In(e, i), i \in J \cup V, lt, lt2)
              /\ e.hash[i] = d.hash[i]
  <2>1. i \notin J
        BY <1>15 DEF J
  <2>2. e.hash[i] = d.hash[i] /\ In(e, i) = In(d, i)
        BY <1>4, <1>5, <1>6, <1>7, <1>8, <1>9, <1>11, <1>15, <2>1 DEF h, Keyspace
  <2> QED BY <1>15, <2>1, <2>2, Stay DEF AllGood
<1>16. Step(d, e, J \cup V, lt, lt2)
      BY <1>11, <1>12, <1>13, <1>14, <1>15 DEF Step
<1>17. NoStart(d, e)
      BY <1>13, <1>14, <1>15 DEF NoStart
<1> QED BY <1>1, <1>16, <1>17 DEF J

\* A verdict that asks for a retry: the job leaves the running sets and waits,
\* or waits until it is due.
LEMMA RetryStep ==
    ASSUME NEW d \in Keyspace, NEW lt \in BOOLEAN, NEW lt2 \in BOOLEAN, AllGood(d, lt),
           NEW j \in Job, NEW now \in BOOLEAN,
           d.hash[j].state \notin {"absent", "gone"},
           lt2 = (lt \/ d.hash[j].state # "running")
    PROVE  LET e == fn_fail_retry(d, j, now)
           IN  Step(d, e, {}, lt, lt2) /\ NoStart(d, e)
<1> DEFINE J == {j}
           R == RunIndex
           s == IF now THEN "pending" ELSE "scheduled"
           I == IF now THEN {"wait"} ELSE {"delayed", "nq:scheduled"}
           h == [d.hash EXCEPT ![j].state = s]
           out == zrem(d, R, J)
           put == hset(out, h)
           e == zadd(put, I, J)
<1>1. fn_fail_retry(d, j, now) = e
      BY DEF fn_fail_retry
<1>2. Indexes(I) /\ Jobs(J)
      BY IndexNames DEF Indexes, Jobs
<1>3. h \in [Job -> Hash]
      BY DEF Keyspace, Hash, Live
<1> HIDE DEF J, R, I, h, s
<1>4. /\ out \in Keyspace /\ out.unique = d.unique
      /\ \A i \in Job : In(out, i) = IF i \in J THEN In(d, i) \ R ELSE In(d, i)
      BY ZremEffect
<1> HIDE DEF out
<1>5. /\ put \in Keyspace /\ put.unique = out.unique /\ put.hash = h
      /\ \A i \in Job : In(put, i) = In(out, i)
      BY <1>3, <1>4, HsetEffect
<1> HIDE DEF put
<1>6. /\ e \in Keyspace /\ e.hash = put.hash /\ e.unique = put.unique
      /\ \A i \in Job : In(e, i) = IF i \in J THEN In(put, i) \cup I ELSE In(put, i)
      BY <1>2, <1>5, ZaddEffect
<1> HIDE DEF e
<1>7. /\ Move(j, d.hash[j], In(d, j), e.hash[j], In(e, j), j \in {}, lt, lt2)
      /\ e.hash[j].state # "running"
  <2>1. d.hash[j] \in Hash /\ Good(j, d.hash[j], In(d, j), lt)
        BY DEF AllGood, Keyspace
  <2>2. e.hash[j].state = s /\ In(e, j) = (In(d, j) \ R) \cup I
        BY <1>4, <1>5, <1>6, <2>1 DEF h, J, Hash, Keyspace
  <2>3. Good(j, e.hash[j], In(e, j), lt2)
        BY <2>1, <2>2 DEF s, I, R, RunIndex, Good, Placed, Paired, Exact
  <2> QED BY <2>2, <2>3 DEF s, Move, Live, Final
<1>8. ASSUME NEW i \in Job, i # j
      PROVE  /\ Move(i, d.hash[i], In(d, i), e.hash[i], In(e, i), i \in {}, lt, lt2)
             /\ e.hash[i] = d.hash[i]
  <2>1. e.hash[i] = d.hash[i] /\ In(e, i) = In(d, i)
        BY <1>4, <1>5, <1>6, <1>8 DEF h, J, Keyspace
  <2> QED BY <2>1, Stay DEF AllGood
<1> QED BY <1>1, <1>4, <1>5, <1>6, <1>7, <1>8 DEF Step, NoStart

\* The hash of a job that lost its worker, with stall budget left or not.
Rewound(h) == [Unlocked(h) EXCEPT !.state = "pending", !.stalled_count = @ + 1,
                                  !.attempt = IF @ > 0 THEN @ - 1 ELSE 0]
Stalled(h) == [h EXCEPT !.state = "failed", !.stalled_count = @ + 1]

\* It waits again, or has failed.
LEMMA RecoveredHash ==
    ASSUME NEW h \in Hash
    PROVE  /\ Rewound(h) \in Hash /\ Rewound(h).state = "pending"
           /\ Stalled(h) \in Hash /\ Stalled(h).state = "failed"
<1>1. h.stalled_count + 1 \in Nat /\ (IF h.attempt > 0 THEN h.attempt - 1 ELSE 0) \in Nat
      BY DEF Hash
<1>2. {"pending", "failed"} \subseteq {"absent", "gone"} \cup Live \cup Final
      BY DEF Live, Final
<1>3. Stalled(h) \in Hash /\ Stalled(h).state = "failed"
      BY <1>1, <1>2 DEF Hash, Stalled
<1>4. /\ Unlocked(h) \in Hash
      /\ Unlocked(h).stalled_count = h.stalled_count /\ Unlocked(h).attempt = h.attempt
      BY DEF Hash, Unlocked
<1>5. Rewound(h) \in Hash /\ Rewound(h).state = "pending"
      BY <1>1, <1>2, <1>4 DEF Hash, Rewound
<1> QED BY <1>3, <1>5

\* Recovery takes jobs that lost their worker from the running sets to the
\* wait set, or to the failed ones.
LEMMA RecoverStep ==
    ASSUME NEW d \in Keyspace, NEW lt \in BOOLEAN, AllGood(d, lt),
           NEW S \in SUBSET Exists(d),
           ~lt => \A j \in S : d.hash[j].state = "running"
    PROVE  LET X == {j \in S : Exhausted(d.hash[j], j)}
           IN  Step(d, Recovered(d, S), X, lt, lt) /\ NoStart(d, Recovered(d, S))
<1> DEFINE X == {j \in S : Exhausted(d.hash[j], j)}
           Y == S \ X
           R == RunIndex
           W == {"wait"}
           F == {"failed", "nq:failed"}
           h == [j \in Job |-> IF j \notin S THEN d.hash[j]
                               ELSE IF j \in X THEN Stalled(d.hash[j])
                               ELSE Rewound(d.hash[j])]
           out == zrem(d, R, S)
           put == hset(out, h)
           rel == release_unique(put, X)
           f == zadd(rel, F, X)
           e == zadd(f, W, Y)
<1>1. Recovered(d, S) = e
      BY DEF Recovered, Stalled, Rewound
<1>2. Indexes(W) /\ Indexes(F) /\ Jobs(X) /\ Jobs(Y) /\ S \subseteq Job /\ X \subseteq S
      BY IndexNames DEF Indexes, Jobs, Exists
<1>3. h \in [Job -> Hash]
  <2>1. ASSUME NEW j \in Job
        PROVE  (IF j \notin S THEN d.hash[j]
                ELSE IF j \in X THEN Stalled(d.hash[j]) ELSE Rewound(d.hash[j])) \in Hash
    <3>1. d.hash[j] \in Hash
          BY DEF Keyspace
    <3> QED BY <3>1, RecoveredHash
  <2> QED BY <2>1
<1> HIDE DEF X, Y, R, W, F, h
<1>4. /\ out \in Keyspace /\ out.unique = d.unique
      /\ \A i \in Job : In(out, i) = IF i \in S THEN In(d, i) \ R ELSE In(d, i)
      BY ZremEffect
<1> HIDE DEF out
<1>5. /\ put \in Keyspace /\ put.unique = out.unique /\ put.hash = h
      /\ \A i \in Job : In(put, i) = In(out, i)
      BY <1>3, <1>4, HsetEffect
<1> HIDE DEF put
<1>6. /\ rel \in Keyspace /\ rel.hash = put.hash
      /\ \A k \in Key : rel.unique[k] = IF put.unique[k] \in X THEN NoJob
                                        ELSE put.unique[k]
      /\ \A i \in Job : In(rel, i) = In(put, i)
      BY <1>5, ReleaseEffect
<1> HIDE DEF rel
<1>7. /\ f \in Keyspace /\ f.hash = rel.hash /\ f.unique = rel.unique
      /\ \A i \in Job : In(f, i) = IF i \in X THEN In(rel, i) \cup F ELSE In(rel, i)
      BY <1>2, <1>6, ZaddEffect
<1> HIDE DEF f
<1>8. /\ e \in Keyspace /\ e.hash = f.hash /\ e.unique = f.unique
      /\ \A i \in Job : In(e, i) = IF i \in Y THEN In(f, i) \cup W ELSE In(f, i)
      BY <1>2, <1>7, ZaddEffect
<1> HIDE DEF e
<1>9. ASSUME NEW j \in Job, j \in S
      PROVE  /\ Move(j, d.hash[j], In(d, j), e.hash[j], In(e, j), j \in X, lt, lt)
             /\ e.hash[j].state # "running"
  <2>1. d.hash[j] \in Hash /\ Good(j, d.hash[j], In(d, j), lt)
        BY DEF AllGood, Keyspace
  <2>2. d.hash[j].state \notin {"absent", "gone"} /\ (~lt => d.hash[j].state = "running")
        BY <1>9 DEF Exists
  <2>3. CASE j \in X
    <3>1. e.hash[j] = Stalled(d.hash[j]) /\ In(e, j) = (In(d, j) \ R) \cup F
          BY <1>4, <1>5, <1>6, <1>7, <1>8, <1>9, <2>3 DEF h, Y
    <3>2. e.hash[j].state = "failed"
          BY <2>1, <3>1, RecoveredHash
    <3>3. Good(j, e.hash[j], In(e, j), lt)
          BY <2>1, <2>2, <3>1, <3>2 DEF R, RunIndex, F, Good, Placed, Paired, Exact
    <3> QED BY <2>2, <2>3, <3>2, <3>3 DEF Move, Live, Final
  <2>4. CASE j \notin X
    <3>1. e.hash[j] = Rewound(d.hash[j]) /\ In(e, j) = (In(d, j) \ R) \cup W
          BY <1>4, <1>5, <1>6, <1>7, <1>8, <1>9, <2>4 DEF h, Y
    <3>2. e.hash[j].state = "pending"
          BY <2>1, <3>1, RecoveredHash
    <3>3. Good(j, e.hash[j], In(e, j), lt)
          BY <2>1, <2>2, <3>1, <3>2 DEF R, RunIndex, W, Good, Placed, Paired, Exact
    <3> QED BY <2>2, <2>4, <3>2, <3>3 DEF Move, Live, Final
  <2> QED BY <2>3, <2>4
<1>10. ASSUME NEW j \in Job, j \notin S
       PROVE  /\ Move(j, d.hash[j], In(d, j), e.hash[j], In(e, j), j \in X, lt, lt)
              /\ e.hash[j] = d.hash[j]
  <2>1. j \notin X /\ j \notin Y
        BY <1>2, <1>10 DEF Y
  <2>2. e.hash[j] = d.hash[j] /\ In(e, j) = In(d, j)
        BY <1>4, <1>5, <1>6, <1>7, <1>8, <1>10, <2>1 DEF h
  <2> QED BY <2>1, <2>2, Stay DEF AllGood
<1>11. Step(d, e, X, lt, lt) /\ NoStart(d, e)
      BY <1>4, <1>5, <1>6, <1>7, <1>8, <1>9, <1>10 DEF Step, NoStart
<1> QED BY <1>1, <1>11 DEF X

\* Two functions, one after the other.
LEMMA Compose ==
    ASSUME NEW d \in Keyspace, NEW e, NEW f, NEW lt \in BOOLEAN,
           NEW R \in SUBSET Job, NEW Q \in SUBSET Job,
           Step(d, e, R, lt, lt), Step(e, f, Q, lt, lt), NoStart(d, e), NoStart(e, f)
    PROVE  Step(d, f, R \cup Q, lt, lt) /\ NoStart(d, f)
<1>1. ASSUME NEW k \in Key
      PROVE  f.unique[k] = IF d.unique[k] \in R \cup Q THEN NoJob ELSE d.unique[k]
      BY ConstantsAssumption DEF Step
<1>2. ASSUME NEW j \in Job
      PROVE  Move(j, d.hash[j], In(d, j), f.hash[j], In(f, j), j \in R \cup Q, lt, lt)
  <2>1. /\ Move(j, d.hash[j], In(d, j), e.hash[j], In(e, j), j \in R, lt, lt)
        /\ Move(j, e.hash[j], In(e, j), f.hash[j], In(f, j), j \in Q, lt, lt)
        BY DEF Step
  <2> QED BY <2>1 DEF Move
<1> QED BY <1>1, <1>2 DEF Step, NoStart

\* A step of the library leaves every job where its hash says.
LEMMA StepGood ==
    ASSUME NEW d, NEW e, NEW R, NEW lt, NEW lt2, Step(d, e, R, lt, lt2)
    PROVE  e \in Keyspace /\ AllGood(e, lt2)
BY DEF Step, Move, AllGood

\* Ids without a hash leave sets they were found in.
LEMMA ForgetStep ==
    ASSUME NEW d \in Keyspace, NEW lt \in BOOLEAN, AllGood(d, lt), NEW I, NEW G,
           G \cap Exists(d) = {}
    PROVE  Step(d, zrem(d, I, G), {}, lt, lt) /\ NoStart(d, zrem(d, I, G))
<1> DEFINE e == zrem(d, I, G)
<1>1. /\ e \in Keyspace /\ e.hash = d.hash /\ e.unique = d.unique
      /\ \A j \in Job : In(e, j) = IF j \in G THEN In(d, j) \ I ELSE In(d, j)
      BY ZremEffect
<1> HIDE DEF e
<1>2. ASSUME NEW j \in Job
      PROVE  Move(j, d.hash[j], In(d, j), e.hash[j], In(e, j), j \in {}, lt, lt)
  <2>1. Good(j, d.hash[j], In(d, j), lt)
        BY DEF AllGood
  <2>2. CASE j \in G
    <3>1. d.hash[j].state \in {"absent", "gone"}
          BY <2>2 DEF Exists
    <3>2. e.hash[j] = d.hash[j] /\ In(e, j) \subseteq In(d, j)
          BY <1>1
    <3>3. Good(j, e.hash[j], In(e, j), lt)
          BY <2>1, <3>1, <3>2 DEF Good, Placed, Exact
    <3> QED BY <3>1, <3>2, <3>3 DEF Move, Live, Final
  <2>3. CASE j \notin G
    <3>1. e.hash[j] = d.hash[j] /\ In(e, j) = In(d, j)
          BY <1>1, <2>3
    <3> QED BY <3>1, Stay DEF AllGood
  <2> QED BY <2>2, <2>3
<1>3. Step(d, e, {}, lt, lt) /\ NoStart(d, e)
      BY <1>1, <1>2 DEF Step, NoStart
<1> QED BY <1>3 DEF e

\* A sweep recovers the stale jobs S and forgets the ids G without a hash.
LEMMA SweepStep ==
    ASSUME NEW d \in Keyspace, NEW lt \in BOOLEAN, AllGood(d, lt),
           NEW S \in SUBSET Exists(d), S \subseteq d.zset["stale"],
           NEW G \in SUBSET d.zset["stale"], G \cap Exists(d) = {}
    PROVE  \E R \in SUBSET Job : /\ Step(d, fn_sweep_stale(d, S, G), R, lt, lt)
                                 /\ NoStart(d, fn_sweep_stale(d, S, G))
<1> DEFINE X == {j \in S : Exhausted(d.hash[j], j)}
           c == Recovered(d, S)
           e == zrem(c, {"active", "stale"}, G)
<1>1. fn_sweep_stale(d, S, G) = e
      BY DEF fn_sweep_stale
<1>2. ASSUME ~lt, NEW j \in S
      PROVE  d.hash[j].state = "running"
  <2>1. j \in Job /\ "stale" \in In(d, j)
        BY IndexNames DEF In, Exists
  <2> QED BY <1>2, <2>1 DEF AllGood, Good, Exact
<1>3. X \in SUBSET Job
      BY DEF Exists
<1>4. Step(d, c, X, lt, lt) /\ NoStart(d, c)
      BY <1>2, RecoverStep
<1> HIDE DEF X, c
<1>5. c \in Keyspace /\ AllGood(c, lt)
      BY <1>4, StepGood
<1>6. G \cap Exists(c) = {}
  <2> SUFFICES ASSUME NEW j \in Job, j \in G
               PROVE  c.hash[j].state \in {"absent", "gone"}
      BY DEF Exists
  <2>1. "stale" \in In(d, j) /\ d.hash[j].state \in {"absent", "gone"}
        BY IndexNames DEF In, Exists
  <2>2. d.hash[j].state = "gone"
        BY <2>1 DEF AllGood, Good
  <2> QED BY <1>4, <2>2 DEF Step, Move
<1>7. Step(c, e, {}, lt, lt) /\ NoStart(c, e)
      BY <1>5, <1>6, ForgetStep
<1> HIDE DEF e
<1>8. Step(d, e, X \cup {}, lt, lt) /\ NoStart(d, e)
      BY <1>3, <1>4, <1>7, Compose
<1> QED BY <1>1, <1>3, <1>8

\* A promotion takes the jobs S that are due from the delayed sets to the
\* wait set; ids G without a hash leave the global set only.
LEMMA PromoteStep ==
    ASSUME NEW d \in Keyspace, NEW lt \in BOOLEAN, AllGood(d, lt),
           NEW S \in SUBSET Exists(d), S \subseteq d.zset["delayed"],
           NEW G, G \cap Exists(d) = {}
    PROVE  /\ Step(d, fn_promote_delayed(d, S, G), {}, lt, lt)
           /\ NoStart(d, fn_promote_delayed(d, S, G))
<1> DEFINE W == {"wait"}
           A == {"delayed"}
           B == {"nq:scheduled"}
           SG == S \cup G
           h == [j \in Job |-> IF j \in S THEN [d.hash[j] EXCEPT !.state = "pending"]
                               ELSE d.hash[j]]
           a == zrem(d, A, SG)
           b == zrem(a, B, S)
           put == hset(b, h)
           e == zadd(put, W, S)
<1>1. fn_promote_delayed(d, S, G) = e
      BY DEF fn_promote_delayed
<1>2. Indexes(W) /\ Jobs(S) /\ S \subseteq Job
      BY IndexNames DEF Indexes, Jobs, Exists
<1>3. h \in [Job -> Hash]
      BY DEF Keyspace, Hash, Live
<1> HIDE DEF W, A, B, SG, h
<1>4. /\ a \in Keyspace /\ a.unique = d.unique
      /\ \A i \in Job : In(a, i) = IF i \in SG THEN In(d, i) \ A ELSE In(d, i)
      BY ZremEffect
<1> HIDE DEF a
<1>5. /\ b \in Keyspace /\ b.unique = a.unique
      /\ \A i \in Job : In(b, i) = IF i \in S THEN In(a, i) \ B ELSE In(a, i)
      BY <1>4, ZremEffect
<1> HIDE DEF b
<1>6. /\ put \in Keyspace /\ put.unique = b.unique /\ put.hash = h
      /\ \A i \in Job : In(put, i) = In(b, i)
      BY <1>3, <1>5, HsetEffect
<1> HIDE DEF put
<1>7. /\ e \in Keyspace /\ e.hash = put.hash /\ e.unique = put.unique
      /\ \A i \in Job : In(e, i) = IF i \in S THEN In(put, i) \cup W ELSE In(put, i)
      BY <1>2, <1>6, ZaddEffect
<1> HIDE DEF e
<1>8. ASSUME NEW j \in Job, j \in S
      PROVE  /\ Move(j, d.hash[j], In(d, j), e.hash[j], In(e, j), j \in {}, lt, lt)
             /\ e.hash[j].state # "running"
  <2>1. d.hash[j] \in Hash /\ Good(j, d.hash[j], In(d, j), lt)
        BY DEF AllGood, Keyspace
  <2>2. d.hash[j].state \notin {"absent", "gone"} /\ "delayed" \in In(d, j)
        BY <1>8, IndexNames DEF Exists, In
  <2>3. e.hash[j].state = "pending"
        BY <1>6, <1>7, <1>8, <2>1 DEF h, Hash
  <2>4. In(e, j) = ((In(d, j) \ A) \ B) \cup W
        BY <1>4, <1>5, <1>6, <1>7, <1>8 DEF SG
  <2>5. Good(j, e.hash[j], In(e, j), lt)
        BY <2>1, <2>2, <2>3, <2>4 DEF A, B, W, Good, Placed, Paired, Exact
  <2>6. ~lt => d.hash[j].state = "scheduled"
        BY <2>1, <2>2 DEF Good, Exact
  <2> QED BY <2>2, <2>3, <2>5, <2>6 DEF Move, Live, Final
<1>9. ASSUME NEW j \in Job, j \notin S
      PROVE  /\ Move(j, d.hash[j], In(d, j), e.hash[j], In(e, j), j \in {}, lt, lt)
             /\ e.hash[j] = d.hash[j]
  <2>1. Good(j, d.hash[j], In(d, j), lt)
        BY DEF AllGood
  <2>2. e.hash[j] = d.hash[j]
        BY <1>6, <1>7, <1>9 DEF h
  <2>3. CASE j \in G
    <3>1. d.hash[j].state \in {"absent", "gone"}
          BY <2>3 DEF Exists
    <3>2. In(e, j) \subseteq In(d, j)
          BY <1>4, <1>5, <1>6, <1>7, <1>9
    <3>3. Good(j, e.hash[j], In(e, j), lt)
          BY <2>1, <2>2, <3>1, <3>2 DEF Good, Placed, Exact
    <3> QED BY <2>2, <3>1, <3>3 DEF Move, Live, Final
  <2>4. CASE j \notin G
    <3>1. In(e, j) = In(d, j)
          BY <1>4, <1>5, <1>6, <1>7, <1>9, <2>4 DEF SG
    <3> QED BY <2>1, <2>2, <3>1 DEF Move
  <2> QED BY <2>2, <2>3, <2>4
<1> QED BY <1>1, <1>4, <1>5, <1>6, <1>7, <1>8, <1>9 DEF Step, NoStart

\* Cleaning one final state deletes the jobs V of its set.
LEMMA CleanedStep ==
    ASSUME NEW d \in Keyspace, NEW lt \in BOOLEAN, AllGood(d, lt),
           NEW s \in Final, NEW V \in SUBSET d.zset[s]
    PROVE  LET e == Cleaned(d, s, V)
           IN  /\ V \in SUBSET Job
               /\ Step(d, e, V, lt, lt) /\ NoStart(d, e)
               /\ \A i \in Final \ {s} : e.zset[i] = d.zset[i]
<1> DEFINE A == {s}
           B == {Mirror(s)}
           U == V \cap Exists(d)
           del == delete_job(d, V)
           a == zrem(del, A, V)
           e == zrem(a, B, U)
<1>1. Cleaned(d, s, V) = e
      BY DEF Cleaned
<1>2. /\ V \subseteq Job /\ s \in Index /\ Mirror(s) \in Index
      /\ s \in {"completed", "failed", "cancelled"}
      /\ \A i \in Final \ {s} : i \in Index /\ i \notin A /\ i \notin B
      BY IndexNames DEF Final, Keyspace
<1>3. \A i \in Final \ {s} : e.zset[i] = d.zset[i]
      BY <1>2 DEF zrem, delete_job, hset, release_unique, Keyspace
<1> HIDE DEF A, B, U
<1>4. /\ del \in Keyspace
      /\ \A i \in Job : del.hash[i] = IF i \in V THEN NoHash("gone") ELSE d.hash[i]
      /\ \A k \in Key : del.unique[k] = IF d.unique[k] \in V THEN NoJob ELSE d.unique[k]
      /\ \A i \in Job : In(del, i) = In(d, i)
      BY DeleteEffect
<1> HIDE DEF del
<1>5. /\ a \in Keyspace /\ a.hash = del.hash /\ a.unique = del.unique
      /\ \A i \in Job : In(a, i) = IF i \in V THEN In(del, i) \ A ELSE In(del, i)
      BY <1>4, ZremEffect
<1> HIDE DEF a
<1>6. /\ e \in Keyspace /\ e.hash = a.hash /\ e.unique = a.unique
      /\ \A i \in Job : In(e, i) = IF i \in U THEN In(a, i) \ B ELSE In(a, i)
      BY <1>5, ZremEffect
<1> HIDE DEF e
<1>7. ASSUME NEW j \in Job, j \in V
      PROVE  /\ Move(j, d.hash[j], In(d, j), e.hash[j], In(e, j), j \in V, lt, lt)
             /\ e.hash[j].state # "running"
  <2>1. Good(j, d.hash[j], In(d, j), lt) /\ s \in In(d, j)
        BY <1>2, <1>7 DEF AllGood, In
  <2>2. e.hash[j].state = "gone" /\ e.hash[j].locked_by = NoWorker
        BY <1>4, <1>5, <1>6, <1>7 DEF NoHash
  <2>3. ASSUME ~lt PROVE In(e, j) = {}
    <3>1. Exact(s, In(d, j)) /\ d.hash[j].state = s /\ In(d, j) \subseteq Index
          BY <1>2, <2>1, <2>3 DEF Good, Exact, In
    <3>2. j \in U
          BY <1>2, <1>7, <3>1 DEF U, Exists
    <3>3. In(e, j) = (In(d, j) \ A) \ B
          BY <1>4, <1>5, <1>6, <1>7, <3>2
    <3>4. ASSUME NEW i \in In(d, j) PROVE i \in A \cup B
      <4>1. CASE s = "completed"
            BY <3>1, <3>4, <4>1, IndexNames DEF Exact, A, B
      <4>2. CASE s = "failed"
            BY <3>1, <3>4, <4>2, IndexNames DEF Exact, A, B
      <4>3. CASE s = "cancelled"
            BY <3>1, <3>4, <4>3, IndexNames DEF Exact, A, B
      <4> QED BY <1>2, <4>1, <4>2, <4>3
    <3> QED BY <3>3, <3>4
  <2>4. Good(j, e.hash[j], In(e, j), lt)
        BY <2>2, <2>3 DEF Good, Placed, Exact
  <2> QED BY <1>7, <2>2, <2>4 DEF Move, Live, Final
<1>8. ASSUME NEW j \in Job, j \notin V
      PROVE  /\ Move(j, d.hash[j], In(d, j), e.hash[j], In(e, j), j \in V, lt, lt)
             /\ e.hash[j] = d.hash[j]
  <2>1. e.hash[j] = d.hash[j] /\ In(e, j) = In(d, j)
        BY <1>4, <1>5, <1>6, <1>8 DEF U
  <2>2. Good(j, d.hash[j], In(d, j), lt)
        BY DEF AllGood
  <2> QED BY <1>8, <2>1, <2>2 DEF Move
<1>9. Step(d, e, V, lt, lt) /\ NoStart(d, e)
      BY <1>4, <1>5, <1>6, <1>7, <1>8 DEF Step, NoStart
<1> QED BY <1>1, <1>2, <1>3, <1>9

\* cleanup does so for the three final states.
LEMMA CleanupStep ==
    ASSUME NEW d \in Keyspace, NEW lt \in BOOLEAN, AllGood(d, lt),
           NEW C \in SUBSET d.zset["completed"], NEW F \in SUBSET d.zset["failed"],
           NEW X \in SUBSET d.zset["cancelled"]
    PROVE  \E R \in SUBSET Job : /\ Step(d, fn_cleanup(d, C, F, X), R, lt, lt)
                                 /\ NoStart(d, fn_cleanup(d, C, F, X))
<1> DEFINE a == Cleaned(d, "completed", C)
           b == Cleaned(a, "failed", F)
           e == Cleaned(b, "cancelled", X)
<1>1. fn_cleanup(d, C, F, X) = e
      BY DEF fn_cleanup
<1>2. {"completed", "failed", "cancelled"} = Final
      BY DEF Final
<1>3. /\ C \in SUBSET Job /\ Step(d, a, C, lt, lt) /\ NoStart(d, a)
      /\ a.zset["failed"] = d.zset["failed"]
      /\ a.zset["cancelled"] = d.zset["cancelled"]
  <2>1. "completed" \in Final /\ "failed" \in Final \ {"completed"}
        /\ "cancelled" \in Final \ {"completed"}
        BY <1>2
  <2> QED BY <2>1, CleanedStep
<1>4. a \in Keyspace /\ AllGood(a, lt)
      BY <1>3, StepGood
<1> HIDE DEF a
<1>5. /\ F \in SUBSET Job /\ Step(a, b, F, lt, lt) /\ NoStart(a, b)
      /\ b.zset["cancelled"] = a.zset["cancelled"]
  <2>1. "failed" \in Final /\ "cancelled" \in Final \ {"failed"}
        BY <1>2
  <2> QED BY <1>3, <1>4, <2>1, CleanedStep
<1>6. b \in Keyspace /\ AllGood(b, lt)
      BY <1>5, StepGood
<1> HIDE DEF b
<1>7. X \in SUBSET Job /\ Step(b, e, X, lt, lt) /\ NoStart(b, e)
  <2>1. "cancelled" \in Final
        BY <1>2
  <2> QED BY <1>3, <1>5, <1>6, <2>1, CleanedStep
<1> HIDE DEF e
<1>8. Step(d, b, C \cup F, lt, lt) /\ NoStart(d, b)
      BY <1>3, <1>4, <1>5, Compose
<1>9. C \cup F \in SUBSET Job /\ (C \cup F) \cup X \in SUBSET Job
      BY <1>3, <1>5, <1>7
<1>10. Step(d, e, (C \cup F) \cup X, lt, lt) /\ NoStart(d, e)
      BY <1>7, <1>8, <1>9, Compose
<1> QED BY <1>1, <1>9, <1>10

-----------------------------------------------------------------------------
(* Enqueueing, and the unique keys.                                        *)

\* The keys of S are free, and no two jobs of S want the same.
FreshIn(d, S) ==
    /\ \A j \in S : d.hash[j].state = "absent"
    /\ \A j \in S : KeyOf[j] # NoKey => d.unique[KeyOf[j]] = NoJob
    /\ \A i, j \in S : KeyOf[i] = KeyOf[j] /\ KeyOf[i] # NoKey => i = j

\* A key is held by a live job that asked for it; and while no verdict was
\* late, by every one that did.
Keys(d, lt) ==
    /\ \A k \in Key : d.unique[k] # NoJob =>
          d.hash[d.unique[k]].state \in Live /\ KeyOf[d.unique[k]] = k
    /\ ~lt => \A j \in Job : d.hash[j].state \in Live /\ KeyOf[j] # NoKey =>
                                 d.unique[KeyOf[j]] = j

\* A group's limits are materialized without a look at its jobs.
LEMMA MaterializeEffect ==
    ASSUME NEW d \in Keyspace, NEW S
    PROVE  LET e == maybe_materialize_group(d, S) IN
           /\ e \in Keyspace /\ e.hash = d.hash /\ e.unique = d.unique
           /\ \A j \in Job : In(e, j) = In(d, j)
<1> DEFINE m == [l \in Lane |->
                   IF /\ l \in Group /\ l \in {GroupOf[j] : j \in S}
                      /\ ~d.meta[l].exists /\ d.rule[l] # Unlimited
                   THEN [d.meta[l] EXCEPT !.exists = TRUE, !.max_concurrency = d.rule[l]]
                   ELSE d.meta[l]]
           e == maybe_materialize_group(d, S)
<1>1. m \in [Lane -> Meta]
  <2>1. ASSUME NEW l \in Lane, l \in Group
        PROVE  [d.meta[l] EXCEPT !.exists = TRUE, !.max_concurrency = d.rule[l]] \in Meta
    <3>1. d.meta[l] \in Meta /\ d.rule[l] \in Nat
          BY <2>1 DEF Keyspace
    <3> QED BY <3>1 DEF Meta
  <2>2. \A l \in Lane : d.meta[l] \in Meta
        BY DEF Keyspace
  <2> QED BY <2>1, <2>2
<1>2. e = [d EXCEPT !.meta = m]
      BY DEF maybe_materialize_group
<1> HIDE DEF m, e
<1>3. /\ e \in Keyspace /\ e.hash = d.hash /\ e.unique = d.unique /\ e.zset = d.zset
      BY <1>1, <1>2 DEF Keyspace
<1> QED BY <1>3 DEF In, e

\* enqueue writes the hashes of fresh ids and puts each into the set of its
\* state, with its key.
LEMMA EnqueueStep ==
    ASSUME NEW d \in Keyspace, NEW lt \in BOOLEAN, AllGood(d, lt), Keys(d, lt),
           NEW S \in SUBSET Job, NEW D \in SUBSET S, FreshIn(d, S)
    PROVE  LET e == fn_enqueue(d, S, D)
           IN  /\ e \in Keyspace /\ AllGood(e, lt) /\ Keys(e, lt) /\ NoStart(d, e)
               /\ \A j \in Job : j \notin S => e.hash[j] = d.hash[j]
<1> DEFINE W == {"wait"}
           A == {"delayed", "nq:scheduled"}
           SD == S \cap D
           SL == S \ D
           h == [j \in Job |-> IF j \in S THEN NoHash(IF j \in D THEN "pending"
                                                                 ELSE "scheduled")
                               ELSE d.hash[j]]
           u == [k \in Key |-> IF \E j \in S : KeyOf[j] = k
                               THEN CHOOSE j \in S : KeyOf[j] = k ELSE d.unique[k]]
           put == hset(d, h)
           key == [put EXCEPT !.unique = u]
           grp == maybe_materialize_group(key, S)
           f == zadd(grp, W, SD)
           e == zadd(f, A, SL)
<1>1. fn_enqueue(d, S, D) = e
      BY DEF fn_enqueue
<1>2. Indexes(W) /\ Indexes(A) /\ Jobs(SD) /\ Jobs(SL)
      BY IndexNames DEF Indexes, Jobs
<1>3. h \in [Job -> Hash]
      BY DEF Keyspace, Hash, NoHash, Live
<1>4. u \in [Key -> Job \cup {NoJob}]
      BY DEF Keyspace
<1> HIDE DEF W, A, SD, SL, h, u
<1>5. /\ put \in Keyspace /\ put.hash = h
      /\ \A i \in Job : In(put, i) = In(d, i)
      BY <1>3, HsetEffect
<1> HIDE DEF put
<1>6. /\ key \in Keyspace /\ key.hash = put.hash /\ key.unique = u
      /\ \A i \in Job : In(key, i) = In(put, i)
  <2>1. /\ key \in Keyspace /\ key.hash = put.hash /\ key.unique = u
        /\ key.zset = put.zset
        BY <1>4, <1>5 DEF Keyspace
  <2> QED BY <2>1 DEF In
<1> HIDE DEF key
<1>7. /\ grp \in Keyspace /\ grp.hash = key.hash /\ grp.unique = key.unique
      /\ \A i \in Job : In(grp, i) = In(key, i)
      BY <1>6, MaterializeEffect
<1> HIDE DEF grp
<1>8. /\ f \in Keyspace /\ f.hash = grp.hash /\ f.unique = grp.unique
      /\ \A i \in Job : In(f, i) = IF i \in SD THEN In(grp, i) \cup W ELSE In(grp, i)
      BY <1>2, <1>7, ZaddEffect
<1> HIDE DEF f
<1>9. /\ e \in Keyspace /\ e.hash = f.hash /\ e.unique = f.unique
      /\ \A i \in Job : In(e, i) = IF i \in SL THEN In(f, i) \cup A ELSE In(f, i)
      BY <1>2, <1>8, ZaddEffect
<1> HIDE DEF e
<1>10. e.hash = h /\ e.unique = u
      BY <1>5, <1>6, <1>7, <1>8, <1>9
<1>11. ASSUME NEW j \in Job, j \in S
       PROVE  /\ Good(j, e.hash[j], In(e, j), lt)
              /\ e.hash[j].state \in {"pending", "scheduled"}
  <2>1. In(grp, j) = {}
    <3>1. In(d, j) = {}
          BY <1>11 DEF AllGood, Good, FreshIn
    <3> QED BY <1>5, <1>6, <1>7, <3>1
  <2>2. CASE j \in D
    <3>1. e.hash[j] = NoHash("pending")
          BY <1>10, <1>11, <2>2 DEF h
    <3>2. e.hash[j].state = "pending"
          BY <3>1 DEF NoHash
    <3>3. In(e, j) = In(grp, j) \cup W
          BY <1>8, <1>9, <1>11, <2>2 DEF SD, SL
    <3> QED BY <2>1, <3>2, <3>3 DEF W, Good, Placed, Paired, Exact
  <2>3. CASE j \notin D
    <3>1. e.hash[j] = NoHash("scheduled")
          BY <1>10, <1>11, <2>3 DEF h
    <3>2. e.hash[j].state = "scheduled"
          BY <3>1 DEF NoHash
    <3>3. In(e, j) = In(grp, j) \cup A
          BY <1>8, <1>9, <1>11, <2>3 DEF SD, SL
    <3> QED BY <2>1, <3>2, <3>3 DEF A, Good, Placed, Paired, Exact
  <2> QED BY <2>2, <2>3
<1>12. ASSUME NEW j \in Job, j \notin S
       PROVE  e.hash[j] = d.hash[j] /\ In(e, j) = In(d, j)
      BY <1>5, <1>6, <1>7, <1>8, <1>9, <1>10, <1>12 DEF SD, SL, h
<1>13. AllGood(e, lt)
  <2> SUFFICES ASSUME NEW j \in Job PROVE Good(j, e.hash[j], In(e, j), lt)
      BY DEF AllGood
  <2>1. CASE j \in S
        BY <1>11, <2>1
  <2>2. CASE j \notin S
    <3>1. Good(j, d.hash[j], In(d, j), lt)
          BY DEF AllGood
    <3> QED BY <1>12, <2>2, <3>1
  <2> QED BY <2>1, <2>2
<1>14. Keys(e, lt)
  <2>1. ASSUME NEW k \in Key, e.unique[k] # NoJob
        PROVE  e.hash[e.unique[k]].state \in Live /\ KeyOf[e.unique[k]] = k
    <3>1. CASE \E j \in S : KeyOf[j] = k
      <4>1. e.unique[k] \in S /\ KeyOf[e.unique[k]] = k
            BY <1>10, <3>1 DEF u
      <4>2. e.unique[k] \in Job
            BY <4>1
      <4> QED BY <1>11, <4>1, <4>2 DEF Live
    <3>2. CASE ~\E j \in S : KeyOf[j] = k
      <4>1. e.unique[k] = d.unique[k]
            BY <1>10, <3>2 DEF u
      <4>2. /\ d.hash[d.unique[k]].state \in Live /\ KeyOf[d.unique[k]] = k
            /\ d.unique[k] \in Job
            BY <2>1, <4>1 DEF Keys, Keyspace
      <4> QED BY <1>12, <3>2, <4>1, <4>2
    <3> QED BY <3>1, <3>2
  <2>2. ASSUME ~lt, NEW j \in Job, e.hash[j].state \in Live, KeyOf[j] # NoKey
        PROVE  e.unique[KeyOf[j]] = j
    <3>1. KeyOf[j] \in Key
          BY <2>2, ConstantsAssumption
    <3>2. CASE j \in S
      <4>1. u[KeyOf[j]] \in S /\ KeyOf[u[KeyOf[j]]] = KeyOf[j]
            BY <3>1, <3>2 DEF u
      <4> QED BY <1>10, <2>2, <3>2, <4>1 DEF FreshIn
    <3>3. CASE j \notin S
      <4>1. d.unique[KeyOf[j]] = j
            BY <1>12, <2>2, <3>3 DEF Keys
      <4>2. ~\E i \in S : KeyOf[i] = KeyOf[j]
            BY <2>2, <4>1, ConstantsAssumption DEF FreshIn
      <4> QED BY <1>10, <3>1, <4>1, <4>2 DEF u
    <3> QED BY <3>2, <3>3
  <2> QED BY <2>1, <2>2 DEF Keys
<1>15. NoStart(d, e)
      BY <1>11, <1>12 DEF NoStart
<1> QED BY <1>1, <1>9, <1>12, <1>13, <1>14, <1>15

\* Every other function keeps the keys with their holders: a holder stays
\* live or gives the key up.
LEMMA KeysAfter ==
    ASSUME NEW d \in Keyspace, NEW e, NEW lt \in BOOLEAN, NEW lt2 \in BOOLEAN,
           NEW R \in SUBSET Job, Step(d, e, R, lt, lt2), Keys(d, lt)
    PROVE  Keys(e, lt2)
<1>1. ASSUME NEW k \in Key, e.unique[k] # NoJob
      PROVE  e.hash[e.unique[k]].state \in Live /\ KeyOf[e.unique[k]] = k
  <2>1. e.unique[k] = d.unique[k] /\ d.unique[k] \notin R
        BY <1>1 DEF Step
  <2>2. /\ d.hash[d.unique[k]].state \in Live /\ KeyOf[d.unique[k]] = k
        /\ d.unique[k] \in Job
        BY <1>1, <2>1 DEF Keys, Keyspace
  <2> QED BY <2>1, <2>2 DEF Step, Move
<1>2. ASSUME ~lt2, NEW j \in Job, e.hash[j].state \in Live, KeyOf[j] # NoKey
      PROVE  e.unique[KeyOf[j]] = j
  <2>1. ~lt /\ d.hash[j].state \in Live /\ j \notin R
        BY <1>2 DEF Step, Move
  <2>2. d.unique[KeyOf[j]] = j
        BY <1>2, <2>1 DEF Keys
  <2>3. KeyOf[j] \in Key
        BY <1>2, ConstantsAssumption
  <2> QED BY <2>1, <2>2, <2>3 DEF Step
<1> QED BY <1>1, <1>2 DEF Keys

-----------------------------------------------------------------------------
(* The invariant.                                                          *)

ProcTypes ==
    /\ mode \in [Proc -> {"up", "draining", "down"}]
    /\ in_flight \in [Proc -> SUBSET Job]
    /\ snapshot \in [Proc -> SUBSET Job]
    /\ runs \subseteq Run
    /\ claims \in [Job -> Nat]
    /\ late \in BOOLEAN

\* The inductive invariant.
Inv ==
    /\ db \in Keyspace
    /\ ProcTypes
    /\ AllGood(db, late)
    /\ Keys(db, late)

\* The jobs of a lane, its limits aside, are as they were.
SameJobs ==
    /\ db' \in Keyspace
    /\ db'.hash = db.hash /\ db'.zset = db.zset /\ db'.unique = db.unique
    /\ late' = late

\* The four kinds of step.
Calls == \E R \in SUBSET Job : Step(db, db', R, late, late') /\ NoStart(db, db')
Enqueues == \E S \in SUBSET Job : \E D \in SUBSET S :
                FreshIn(db, S) /\ db' = fn_enqueue(db, S, D) /\ late' = late
ClaimsBatch == \E p \in Proc, S \in SUBSET Job :
                   /\ \A j \in S : db.hash[j].state = "pending"
                   /\ Admits(db, S)
                   /\ db' = fn_claim(db, p, S) /\ late' = late
StepKind == SameJobs \/ Calls \/ Enqueues \/ ClaimsBatch

\* A verdict that is accepted is for a row that exists: a deleted one has no
\* owner (library.lua:803-806).
LEMMA OwnedExists ==
    ASSUME Inv, NEW r \in runs, Owns(r)
    PROVE  /\ r.job \in Job /\ db.hash[r.job].state \notin {"absent", "gone"}
<1>1. r.job \in Job /\ r.proc \in Proc
      BY DEF Inv, ProcTypes, Run
<1>2. Good(r.job, db.hash[r.job], In(db, r.job), late)
      BY <1>1 DEF Inv, AllGood
<1> QED BY <1>1, <1>2, ConstantsAssumption DEF Owns, Good

\* Enqueue and cancel.
LEMMA ProducerKind ==
    ASSUME Inv, Producer
    PROVE  StepKind
<1>0. db \in Keyspace /\ late \in BOOLEAN /\ AllGood(db, late)
      BY DEF Inv, ProcTypes
<1>1. ASSUME NEW j \in Job, NEW due \in BOOLEAN, enqueue(j, due)
      PROVE  StepKind
  <2> DEFINE S == {j}
             D == IF due THEN {j} ELSE {}
  <2>1. S \in SUBSET Job /\ D \in SUBSET S /\ FreshIn(db, S)
        /\ db' = fn_enqueue(db, S, D) /\ late' = late
        BY <1>1 DEF enqueue, Fresh, FreshIn
  <2> HIDE DEF S, D
  <2> QED BY <2>1 DEF StepKind, Enqueues
<1>2. ASSUME NEW S \in SUBSET Job, NEW D \in SUBSET S, enqueue_many(S, D)
      PROVE  StepKind
  <2>1. FreshIn(db, S) /\ db' = fn_enqueue(db, S, D) /\ late' = late
        BY <1>2 DEF enqueue_many, Fresh, FreshIn
  <2> QED BY <2>1 DEF StepKind, Enqueues
<1>3. ASSUME NEW j \in Job, cancel(j)
      PROVE  StepKind
  <2>1. Step(db, db', {j}, late, late') /\ NoStart(db, db') /\ {j} \in SUBSET Job
        BY <1>0, <1>3, CancelStep DEF cancel
  <2> QED BY <2>1 DEF StepKind, Calls
<1> QED BY <1>1, <1>2, <1>3 DEF Producer

\* The operator writes limits only.
LEMMA OperatorKind ==
    ASSUME Inv, Operator
    PROVE  StepKind
<1>0. db \in Keyspace
      BY DEF Inv
<1>1. ASSUME NEW l \in Operable, set_concurrency(l)
      PROVE  SameJobs
  <2>1. l \in Lane /\ db.meta[l] \in Meta
        BY <1>0, ConstantsAssumption DEF Keyspace
  <2>2. PICK max \in Caps :
            db' = [db EXCEPT !.meta[l].exists = TRUE, !.meta[l].max_concurrency = max]
        BY <1>1 DEF set_concurrency
  <2> DEFINE m == [db.meta EXCEPT ![l].exists = TRUE, ![l].max_concurrency = max]
  <2>3. m \in [Lane -> Meta]
        BY <1>0, <2>1, ConstantsAssumption DEF Keyspace, Meta
  <2>4. db' = [db EXCEPT !.meta = m]
        BY <1>0, <2>2 DEF Keyspace
  <2> HIDE DEF m
  <2> QED BY <1>0, <1>1, <2>3, <2>4 DEF Keyspace, SameJobs, set_concurrency
<1>2. ASSUME NEW l \in Operable, set_paused(l)
      PROVE  SameJobs
  <2>1. l \in Lane /\ db.meta[l] \in Meta
        BY <1>0, ConstantsAssumption DEF Keyspace
  <2> DEFINE m == [db.meta EXCEPT ![l].exists = TRUE, ![l].paused = ~@]
  <2>2. m \in [Lane -> Meta]
        BY <1>0, <2>1 DEF Keyspace, Meta
  <2>3. db' = [db EXCEPT !.meta = m]
        BY <1>0, <1>2 DEF Keyspace, set_paused
  <2> HIDE DEF m
  <2> QED BY <1>0, <1>2, <2>2, <2>3 DEF Keyspace, SameJobs, set_paused
<1>3. ASSUME NEW g \in Operable \cap Group, group_set_rule(g)
      PROVE  SameJobs
      BY <1>0, <1>3, ConstantsAssumption DEF Keyspace, SameJobs, group_set_rule
<1>4. ASSUME NEW g \in Operable \cap Group, group_remove_rule(g)
      PROVE  SameJobs
      BY <1>0, <1>4 DEF Keyspace, SameJobs, group_remove_rule, Unlimited
<1> QED BY <1>1, <1>2, <1>3, <1>4 DEF Operator, StepKind

\* A step that leaves the keyspace alone.
LEMMA QuietKind ==
    ASSUME Inv, db' = db, late' = late
    PROVE  StepKind
BY DEF Inv, StepKind, SameJobs

\* Claims, verdicts, heartbeats and the passing of time.
LEMMA ProcessKind ==
    ASSUME Inv, Process
    PROVE  StepKind
<1>0. db \in Keyspace /\ late \in BOOLEAN /\ AllGood(db, late)
      BY DEF Inv, ProcTypes
<1>1. ASSUME NEW p \in Proc, NEW S \in SUBSET Job, claim_batch(p, S)
      PROVE  StepKind
  <2>1. /\ \A j \in S : db.hash[j].state = "pending"
        /\ Admits(db, S) /\ db' = fn_claim(db, p, S) /\ late' = late
        BY <1>1 DEF claim_batch, InState
  <2> QED BY <2>1 DEF StepKind, ClaimsBatch
<1>2. ASSUME NEW r \in runs, mark_completed(r)
      PROVE  StepKind
  <2> DEFINE j == r.job
  <2>1. /\ j \in Job /\ db.hash[j].state \notin {"absent", "gone"}
        BY <1>2, OwnedExists DEF mark_completed
  <2>2. late' \in BOOLEAN /\ late' = (late \/ db.hash[j].state # "running")
        BY <1>0, <1>2 DEF mark_completed, Settled
  <2>3. PICK V \in Victims(OnComplete[j], MirrorOf(j, "completed"), j) :
            db' = fn_complete(db, j, V)
        BY <1>2 DEF mark_completed
  <2>4. V \subseteq db.zset[Mirror("completed")] /\ j \notin V
        BY <2>3, VictimsMirrored DEF MirrorOf
  <2>5. V \subseteq Job
        BY <1>0, <2>4, IndexNames DEF Keyspace
  <2> HIDE DEF j
  <2>6. /\ Step(db, db', {j} \cup V, late, late') /\ NoStart(db, db')
        BY <1>0, <2>1, <2>2, <2>3, <2>4, FinalStep DEF fn_complete
  <2> QED BY <2>1, <2>5, <2>6 DEF StepKind, Calls
<1>3. ASSUME NEW r \in runs, mark_failed(r)
      PROVE  StepKind
  <2> DEFINE j == r.job
  <2>1. /\ j \in Job /\ db.hash[j].state \notin {"absent", "gone"}
        BY <1>3, OwnedExists DEF mark_failed
  <2>2. late' \in BOOLEAN /\ late' = (late \/ db.hash[j].state # "running")
        BY <1>0, <1>3 DEF mark_failed, Settled
  <2>3. CASE \E now \in BOOLEAN : db' = fn_fail_retry(db, j, now)
    <3> HIDE DEF j
    <3>1. Step(db, db', {}, late, late') /\ NoStart(db, db')
          BY <1>0, <2>1, <2>2, <2>3, RetryStep
    <3> QED BY <3>1 DEF StepKind, Calls
  <2>4. CASE \E V \in Victims(OnFail[j], MirrorOf(j, "failed"), j) :
                 db' = fn_fail_final(db, j, V)
    <3>1. PICK V \in Victims(OnFail[j], MirrorOf(j, "failed"), j) :
              db' = fn_fail_final(db, j, V)
          BY <2>4
    <3>2. V \subseteq db.zset[Mirror("failed")] /\ j \notin V
          BY <3>1, VictimsMirrored DEF MirrorOf
    <3>3. V \subseteq Job
          BY <1>0, <3>2, IndexNames DEF Keyspace
    <3> HIDE DEF j
    <3>4. /\ Step(db, db', {j} \cup V, late, late') /\ NoStart(db, db')
          BY <1>0, <2>1, <2>2, <3>1, <3>2, FinalStep DEF fn_fail_final
    <3> QED BY <2>1, <3>3, <3>4 DEF StepKind, Calls
  <2> QED BY <1>3, <2>3, <2>4 DEF mark_failed
<1>4. ASSUME NEW r \in runs, FinishHandler(r) \/ DropVerdict(r)
      PROVE  StepKind
      BY <1>4, QuietKind DEF FinishHandler, DropVerdict
<1>5. ASSUME NEW p \in Proc, update_heartbeat_batch(p)
      PROVE  StepKind
  <2>1. Step(db, db', {}, late, late') /\ NoStart(db, db')
        BY <1>0, <1>5, HeartbeatStep DEF update_heartbeat_batch
  <2> QED BY <2>1 DEF StepKind, Calls
<1>6. ASSUME NEW j \in Job, HeartbeatExpires(j)
      PROVE  StepKind
  <2>1. j \in db.zset["active"] /\ db' = zadd(db, {"stale"}, {j}) /\ late' = late
        BY <1>6 DEF HeartbeatExpires
  <2>2. Step(db, db', {}, late, late') /\ NoStart(db, db')
        BY <1>0, <2>1, ExpireStep
  <2> QED BY <2>2 DEF StepKind, Calls
<1> QED BY <1>1, <1>2, <1>3, <1>4, <1>5, <1>6 DEF Process, Settle

\* What a script got through when it ended, well or not.
LEMMA ProcessedParts ==
    ASSUME NEW d, NEW I, NEW out \in Processed(d, I)
    PROVE  /\ out[1] \subseteq I /\ out[1] \subseteq Exists(d)
           /\ out[2] \subseteq I /\ out[2] \cap Exists(d) = {}
<1>1. CASE I \ (I \cap Exists(d)) = {}
  <2>1. out = <<I, {}>> /\ I \subseteq Exists(d)
        BY <1>1 DEF Processed
  <2> QED BY <2>1
<1>2. CASE I \ (I \cap Exists(d)) # {}
  <2>1. PICK S \in SUBSET (I \cap Exists(d)), j \in I \ (I \cap Exists(d)) :
            out = <<S, {j}>>
        BY <1>2 DEF Processed
  <2>2. out[1] = S /\ out[2] = {j}
        BY <2>1
  <2> QED BY <2>2
<1> QED BY <1>1, <1>2

\* The sweeper, promotion and retention.
LEMMA MaintenanceKind ==
    ASSUME Inv, Maintenance
    PROVE  StepKind
<1>0. db \in Keyspace /\ late \in BOOLEAN /\ AllGood(db, late)
      BY DEF Inv, ProcTypes
<1>1. CASE sweep_stale
  <2>1. PICK out \in Processed(db, db.zset["stale"]) :
            db' = fn_sweep_stale(db, out[1], out[2])
        BY <1>1 DEF sweep_stale
  <2> DEFINE S == out[1]
             G == out[2]
  <2>2. /\ S \in SUBSET Exists(db) /\ S \subseteq db.zset["stale"]
        /\ G \in SUBSET db.zset["stale"] /\ G \cap Exists(db) = {}
        BY <2>1, ProcessedParts
  <2>3. late' = late /\ db' = fn_sweep_stale(db, S, G)
        BY <1>1, <2>1 DEF sweep_stale
  <2> HIDE DEF S, G
  <2>4. \E R \in SUBSET Job : Step(db, db', R, late, late') /\ NoStart(db, db')
        BY <1>0, <2>2, <2>3, SweepStep
  <2> QED BY <2>4 DEF StepKind, Calls
<1>2. CASE promote_delayed_call
  <2>1. PICK D \in SUBSET db.zset["delayed"] :
            \E out \in Processed(db, D) : db' = fn_promote_delayed(db, out[1], out[2])
        BY <1>2 DEF promote_delayed_call
  <2>2. PICK out \in Processed(db, D) : db' = fn_promote_delayed(db, out[1], out[2])
        BY <2>1
  <2> DEFINE S == out[1]
             G == out[2]
  <2>3. /\ S \in SUBSET Exists(db) /\ S \subseteq db.zset["delayed"]
        /\ G \cap Exists(db) = {}
        BY <2>1, <2>2, ProcessedParts
  <2>4. late' = late /\ db' = fn_promote_delayed(db, S, G)
        BY <1>2, <2>2 DEF promote_delayed_call
  <2> HIDE DEF S, G
  <2>5. Step(db, db', {}, late, late') /\ NoStart(db, db')
        BY <1>0, <2>3, <2>4, PromoteStep
  <2> QED BY <2>5 DEF StepKind, Calls
<1>3. CASE cleanup
  <2>1. PICK C \in SUBSET db.zset["completed"], F \in SUBSET db.zset["failed"],
             X \in SUBSET db.zset["cancelled"] : db' = fn_cleanup(db, C, F, X)
        BY <1>3 DEF cleanup
  <2>2. late' = late
        BY <1>3 DEF cleanup
  <2>3. \E R \in SUBSET Job : Step(db, db', R, late, late') /\ NoStart(db, db')
        BY <1>0, <2>1, <2>2, CleanupStep
  <2> QED BY <2>3 DEF StepKind, Calls
<1> QED BY <1>1, <1>2, <1>3 DEF Maintenance

\* Shutdown and crash.
LEMMA ShutdownKind ==
    ASSUME Inv, Shutdown
    PROVE  StepKind
<1>0. db \in Keyspace /\ late \in BOOLEAN /\ AllGood(db, late)
      BY DEF Inv, ProcTypes
<1>1. ASSUME NEW p \in Proc, shutdown_with(p) \/ Stop(p)
      PROVE  StepKind
      BY <1>1, QuietKind DEF shutdown_with, Stop
<1>2. ASSUME NEW p \in Proc, reclaim_in_flight(p)
      PROVE  StepKind
  <2> DEFINE S == snapshot[p] \cap InState(db, "running")
             X == {j \in S : Exhausted(db.hash[j], j)}
  <2>1. db' = Recovered(db, S) /\ late' = late
        BY <1>2 DEF reclaim_in_flight, fn_reclaim_in_flight
  <2>2. S \in SUBSET Exists(db) /\ \A j \in S : db.hash[j].state = "running"
        BY DEF InState, Exists
  <2>3. X \in SUBSET Job
        BY DEF InState
  <2> HIDE DEF S
  <2>4. Step(db, db', X, late, late') /\ NoStart(db, db')
        BY <1>0, <2>1, <2>2, RecoverStep
  <2> HIDE DEF X
  <2> QED BY <2>3, <2>4 DEF StepKind, Calls
<1> QED BY <1>1, <1>2 DEF Shutdown

\* Every step is of one of the four kinds.
LEMMA Kinds ==
    ASSUME Inv, [Next]_vars
    PROVE  StepKind
<1>1. CASE UNCHANGED vars
      BY <1>1, QuietKind DEF vars
<1> QED BY <1>1, ProducerKind, OperatorKind, ProcessKind, MaintenanceKind, ShutdownKind
        DEF Next

\* A run keeps its fields when its handler answers.
LEMMA AnsweredRun ==
    ASSUME NEW r \in Run, NEW v \in Verdicts
    PROVE  [r EXCEPT !.phase = "settling", !.verdict = v] \in Run
BY DEF Run

\* The memory of the processes keeps its types.
LEMMA ProcTypesStep ==
    ASSUME Inv, [Next]_vars
    PROVE  ProcTypes'
<1> USE DEF ProcTypes
<1>0. db \in Keyspace /\ ProcTypes
      BY DEF Inv
<1>1. ASSUME UNCHANGED <<procVars, runs, claims, late>>
      PROVE  ProcTypes'
      BY <1>0, <1>1 DEF procVars
<1>2. ASSUME NEW p \in Proc, NEW S \in SUBSET Job, claim_batch(p, S)
      PROVE  ProcTypes'
  <2> DEFINE new == {[job |-> j, claim |-> claims[j] + 1, proc |-> p,
                      attempt |-> db.hash[j].attempt + 1,
                      phase |-> "executing", verdict |-> "none"] : j \in S}
  <2>1. new \subseteq Run
    <3> SUFFICES ASSUME NEW j \in S
                 PROVE  [job |-> j, claim |-> claims[j] + 1, proc |-> p,
                         attempt |-> db.hash[j].attempt + 1,
                         phase |-> "executing", verdict |-> "none"] \in Run
        OBVIOUS
    <3>1. claims[j] + 1 \in Nat /\ db.hash[j].attempt + 1 \in Nat /\ j \in Job
          BY <1>0 DEF Keyspace, Hash
    <3> QED BY <3>1 DEF Run
  <2> HIDE DEF new
  <2>2. runs' = runs \cup new \/ runs' = runs
        BY <1>2 DEF claim_batch, new
  <2>3. runs' \subseteq Run
        BY <1>0, <2>1, <2>2
  <2>4. in_flight' \in [Proc -> SUBSET Job]
        BY <1>0, <1>2 DEF claim_batch
  <2>5. claims' \in [Job -> Nat]
        BY <1>0, <1>2 DEF claim_batch
  <2> QED BY <1>0, <1>2, <2>3, <2>4, <2>5 DEF claim_batch
<1>3. ASSUME NEW r \in runs, FinishHandler(r)
      PROVE  ProcTypes'
  <2>1. PICK v \in Verdicts :
            runs' = (runs \ {r}) \cup {[r EXCEPT !.phase = "settling", !.verdict = v]}
        BY <1>3 DEF FinishHandler
  <2>2. runs' \subseteq Run
        BY <1>0, <2>1, AnsweredRun
  <2>3. in_flight' \in [Proc -> SUBSET Job]
        BY <1>0, <1>3 DEF FinishHandler
  <2> QED BY <1>0, <1>3, <2>2, <2>3 DEF FinishHandler
<1>4. ASSUME NEW r \in runs, Settle(r)
      PROVE  ProcTypes'
  <2>1. runs' = runs \ {r} /\ late' \in BOOLEAN /\ UNCHANGED <<procVars, claims>>
        BY <1>0, <1>4 DEF Settle, mark_completed, mark_failed, DropVerdict, Settled
  <2> QED BY <1>0, <2>1 DEF procVars
<1>5. ASSUME NEW p \in Proc, shutdown_with(p) \/ reclaim_in_flight(p) \/ Stop(p)
      PROVE  ProcTypes'
  <2>1. runs' \subseteq runs /\ claims' = claims /\ late' = late
        BY <1>5 DEF shutdown_with, reclaim_in_flight, Stop
  <2>2. /\ mode' \in [Proc -> {"up", "draining", "down"}]
        /\ in_flight' \in [Proc -> SUBSET Job]
        /\ snapshot' \in [Proc -> SUBSET Job]
        BY <1>0, <1>5 DEF shutdown_with, reclaim_in_flight, Stop
  <2> QED BY <1>0, <2>1, <2>2
<1>6. CASE UNCHANGED vars
      BY <1>1, <1>6 DEF vars, procVars
<1>7. CASE Producer
      BY <1>1, <1>7 DEF Producer, enqueue, enqueue_many, cancel
<1>8. CASE Operator
      BY <1>1, <1>8
      DEF Operator, set_concurrency, set_paused, group_set_rule, group_remove_rule
<1>9. CASE Process
      BY <1>1, <1>2, <1>3, <1>4, <1>9
      DEF Process, update_heartbeat_batch, HeartbeatExpires
<1>10. CASE Maintenance
      BY <1>1, <1>10 DEF Maintenance, sweep_stale, promote_delayed_call, cleanup
<1>11. CASE Shutdown
      BY <1>5, <1>11 DEF Shutdown
<1> QED BY <1>6, <1>7, <1>8, <1>9, <1>10, <1>11 DEF Next

\* At the start the keyspace is empty.
LEMMA InvInit == Init => Inv
<1> SUFFICES ASSUME Init PROVE Inv
    OBVIOUS
<1>1. /\ [j \in Job |-> NoHash("absent")] \in [Job -> Hash]
      /\ [l \in Lane |-> [exists |-> FALSE, paused |-> FALSE,
                          max_concurrency |-> Unlimited]] \in [Lane -> Meta]
      BY DEF NoHash, Hash, Meta, Unlimited
<1>2. db \in Keyspace /\ db.unique = [k \in Key |-> NoJob]
      /\ db.hash = [j \in Job |-> NoHash("absent")] /\ db.zset = [i \in Index |-> {}]
      BY <1>1, ConstantsAssumption DEF Init, Keyspace
<1>3. \A j \in Job : db.hash[j].state = "absent" /\ db.hash[j].locked_by = NoWorker
      BY <1>2 DEF NoHash
<1>4. \A j \in Job : In(db, j) = {}
      BY <1>2 DEF In
<1>5. AllGood(db, late)
      BY <1>3, <1>4 DEF AllGood, Good, Placed, Paired, Exact
<1>6. Keys(db, late)
      BY <1>2, <1>3 DEF Keys, Live
<1>7. ProcTypes
      BY DEF Init, ProcTypes
<1> QED BY <1>2, <1>5, <1>6, <1>7 DEF Inv

\* Every step keeps the keyspace in order.
LEMMA InvStep ==
    ASSUME Inv, [Next]_vars
    PROVE  Inv'
<1>0. /\ db \in Keyspace /\ late \in BOOLEAN /\ late' \in BOOLEAN
      /\ AllGood(db, late) /\ Keys(db, late)
      BY ProcTypesStep DEF Inv, ProcTypes
<1>1. StepKind
      BY Kinds
<1>2. db' \in Keyspace /\ AllGood(db', late') /\ Keys(db', late')
  <2>1. CASE SameJobs
    <3>1. \A j \in Job : In(db', j) = In(db, j)
          BY <2>1 DEF SameJobs, In
    <3>2. AllGood(db', late')
          BY <1>0, <2>1, <3>1 DEF SameJobs, AllGood
    <3>3. Keys(db', late')
          BY <1>0, <2>1 DEF SameJobs, Keys
    <3> QED BY <2>1, <3>2, <3>3 DEF SameJobs
  <2>2. CASE Calls
    <3>1. PICK R \in SUBSET Job : Step(db, db', R, late, late')
          BY <2>2 DEF Calls
    <3> QED BY <1>0, <3>1, StepGood, KeysAfter
  <2>3. CASE Enqueues
        BY <1>0, <2>3, EnqueueStep DEF Enqueues
  <2>4. CASE ClaimsBatch
    <3>1. Step(db, db', {}, late, late')
          BY <1>0, <2>4, ClaimStep DEF ClaimsBatch
    <3> QED BY <1>0, <3>1, StepGood, KeysAfter
  <2> QED BY <1>1, <2>1, <2>2, <2>3, <2>4 DEF StepKind
<1> QED BY <1>2, ProcTypesStep DEF Inv

\* The invariant holds of every behaviour.
LEMMA Invariance == Spec => []Inv
<1>1. Inv /\ [Next]_vars => Inv'
      BY InvStep
<1> QED BY <1>1, InvInit, PTL DEF Spec

-----------------------------------------------------------------------------
(* What follows from it.                                                   *)

\* Hash, sets and mirrors describe the same jobs after every function call,
\* however verdicts, sweeps, promotions, retention and shutdowns follow each
\* other and whatever replies are lost.
THEOREM KeyspaceConsistent == Spec => []KeyspaceInv
<1>1. ASSUME Inv PROVE KeyspaceInv
  <2>1. db \in Keyspace /\ ProcTypes /\ AllGood(db, late)
        BY <1>1 DEF Inv
  <2>2. TypeOK
        BY <2>1 DEF TypeOK, Keyspace, ProcTypes
  <2>3. ASSUME NEW j \in Job, NEW i \in Index
        PROVE  i \in In(db, j) <=> j \in db.zset[i]
        BY DEF In
  <2>4. /\ "wait" \in Index /\ "active" \in Index /\ "stale" \in Index
        /\ "nq:running" \in Index /\ "group:running" \in Index
        /\ "delayed" \in Index /\ "completed" \in Index
        /\ "failed" \in Index /\ "cancelled" \in Index
        /\ "nq:scheduled" \in Index /\ "nq:completed" \in Index
        /\ "nq:failed" \in Index /\ "nq:cancelled" \in Index
        BY IndexNames
  <2>5. /\ Mirrored = {"scheduled", "completed", "failed", "cancelled"}
        /\ Global("scheduled") = "delayed" /\ Global("completed") = "completed"
        /\ Global("failed") = "failed" /\ Global("cancelled") = "cancelled"
        BY DEF Mirrored, Final, Global
  <2>6. NoJobLost
    <3> SUFFICES ASSUME NEW j \in Job
                 PROVE  LET s == db.hash[j].state
                            in(i) == j \in db.zset[i]
                        IN /\ s = "pending" => in("wait")
                           /\ s = "running" => /\ in("active") /\ in("nq:running")
                                               /\ j \in Grouped => in("group:running")
                           /\ s \in Mirrored => in(Global(s)) /\ in(Mirror(s))
        BY DEF NoJobLost
    <3>1. Placed(j, db.hash[j].state, In(db, j))
          BY <2>1 DEF AllGood, Good
    <3> QED BY <2>3, <2>4, <2>5, <3>1, IndexNames DEF Placed
  <2>7. MirrorsAgree
    <3> SUFFICES ASSUME NEW j \in Exists(db), NEW s \in Mirrored
                 PROVE  j \in db.zset[Global(s)] <=> j \in db.zset[Mirror(s)]
        BY DEF MirrorsAgree
    <3>1. j \in Job /\ Paired(In(db, j))
          BY <2>1 DEF AllGood, Good, Exists
    <3> QED BY <2>3, <2>4, <2>5, <3>1, IndexNames DEF Paired
  <2>8. IndexExact
    <3> SUFFICES ASSUME ~late, NEW j \in Job
                 PROVE  LET s == db.hash[j].state
                            in(i) == j \in db.zset[i]
                        IN /\ in("wait") => s = "pending"
                           /\ \A i \in RunIndex : in(i) => s = "running"
                           /\ \A m \in Mirrored : in(Global(m)) \/ in(Mirror(m)) => s = m
        BY DEF IndexExact
    <3>1. Exact(db.hash[j].state, In(db, j))
          BY <2>1 DEF AllGood, Good
    <3> QED BY <2>3, <2>4, <2>5, <3>1, IndexNames DEF Exact, RunIndex
  <2> QED BY <2>2, <2>6, <2>7, <2>8 DEF KeyspaceInv
<1> QED BY <1>1, Invariance, PTL

\* A unique key is held by a live job that was enqueued with it, and, as long
\* as no verdict was accepted late, every live job holds its key.
THEOREM KeysAreExact == Spec => []KeysExact
<1>1. Inv => KeysExact
      BY DEF Inv, Keys, KeysExact, KeyHolderIsLive, LiveJobHoldsKey
<1> QED BY <1>1, Invariance, PTL

\* A step after which no verdict was late leaves every finished job alone, or
\* deletes it.
LEMMA FinalStays ==
    ASSUME Inv, [Next]_vars, ~late', NEW j \in Job, db.hash[j].state \in Final
    PROVE  db'.hash[j].state \in {db.hash[j].state, "gone"}
<1>0. /\ db \in Keyspace /\ late \in BOOLEAN /\ late' \in BOOLEAN
      /\ AllGood(db, late) /\ Keys(db, late)
      BY ProcTypesStep DEF Inv, ProcTypes
<1>1. CASE SameJobs
      BY <1>1 DEF SameJobs
<1>2. CASE Calls
      BY <1>2 DEF Calls, Step, Move
<1>3. CASE Enqueues
  <2>1. PICK S \in SUBSET Job : \E D \in SUBSET S :
            FreshIn(db, S) /\ db' = fn_enqueue(db, S, D)
        BY <1>3 DEF Enqueues
  <2>2. j \notin S
        BY <2>1 DEF FreshIn, Final
  <2> QED BY <1>0, <2>1, <2>2, EnqueueStep
<1>4. CASE ClaimsBatch
  <2>1. Step(db, db', {}, late, late')
        BY <1>0, <1>4, ClaimStep DEF ClaimsBatch
  <2> QED BY <2>1 DEF Step, Move
<1> QED BY <1>1, <1>2, <1>3, <1>4, Kinds DEF StepKind

\* Nor does a finished job change while no verdict was accepted late, until
\* retention deletes it.
THEOREM FinishedStaysFinished == Spec => FinalUnlessLate
<1> DEFINE A == ~late' => \A j \in Job : db.hash[j].state \in Final =>
                              db'.hash[j].state \in {db.hash[j].state, "gone"}
<1>1. Inv /\ [Next]_vars => A
      BY FinalStays
<1>2. Inv /\ [Next]_vars => [A]_vars
      BY <1>1
<1> QED BY <1>2, Invariance, PTL DEF Spec, FinalUnlessLate

\* The set a gate measures holds every running job of the lane.
LEMMA RunningAreHeld ==
    ASSUME Inv, NEW l \in Lane
    PROVE  Running(l) \subseteq
               db.zset[IF l \in Queue THEN "nq:running" ELSE "group:running"] \cap JobsOf(l)
<1> SUFFICES ASSUME NEW j \in Running(l)
             PROVE  j \in db.zset[IF l \in Queue THEN "nq:running" ELSE "group:running"]
    BY DEF Running
<1>1. j \in Job /\ db.hash[j].state = "running" /\ j \in JobsOf(l)
      BY DEF Running, InState
<1>2. Placed(j, "running", In(db, j))
      BY <1>1 DEF Inv, AllGood, Good
<1>3. CASE l \in Queue
      BY <1>2, <1>3 DEF Placed, In
<1>4. CASE l \notin Queue
  <2>1. j \in Grouped
        BY <1>1, <1>4, ConstantsAssumption DEF JobsOf, Grouped, Lane
  <2> QED BY <1>2, <1>4, <2>1 DEF Placed, In
<1> QED BY <1>3, <1>4

\* A job starts only where the gates of its queue and its group admit it.
LEMMA StartsAreAdmitted ==
    ASSUME Inv, [Next]_vars, NEW l \in Lane, NEW j \in Running(l)', j \notin Running(l)
    PROVE  /\ ~db.meta[l].paused
           /\ Cardinality(Running(l)') <= db.meta[l].max_concurrency
<1>0. /\ db \in Keyspace /\ late \in BOOLEAN /\ AllGood(db, late) /\ Keys(db, late)
      BY DEF Inv, ProcTypes
<1>1. /\ j \in Job /\ db'.hash[j].state = "running" /\ j \in JobsOf(l)
      /\ db.hash[j].state # "running"
      BY DEF Running, InState, JobsOf
<1>2. ClaimsBatch
  <2>1. ~SameJobs
        BY <1>1 DEF SameJobs
  <2>2. ~Calls
        BY <1>1 DEF Calls, NoStart
  <2>3. ~Enqueues
        BY <1>0, <1>1, EnqueueStep DEF Enqueues, NoStart
  <2> QED BY <2>1, <2>2, <2>3, Kinds DEF StepKind
<1>3. PICK p \in Proc, S \in SUBSET Job :
          /\ \A i \in S : db.hash[i].state = "pending"
          /\ Admits(db, S) /\ db' = fn_claim(db, p, S)
      BY <1>2 DEF ClaimsBatch
<1>4. \A i \in Job \ S : db'.hash[i] = db.hash[i]
      BY <1>0, <1>3, ClaimStep
<1> DEFINE held == db.zset[IF l \in Queue THEN "nq:running" ELSE "group:running"]
                       \cap JobsOf(l)
           more == S \cap JobsOf(l)
           max == db.meta[l].max_concurrency
<1>5. j \in more
      BY <1>1, <1>4
<1>6. Running(l)' \subseteq held \cup more
  <2> SUFFICES ASSUME NEW i \in Running(l)' PROVE i \in held \cup more
      OBVIOUS
  <2>1. i \in Job /\ db'.hash[i].state = "running" /\ i \in JobsOf(l)
        BY DEF Running, InState, JobsOf
  <2>2. CASE i \in S
        BY <2>1, <2>2
  <2>3. CASE i \notin S
    <3>1. i \in Running(l)
          BY <1>4, <2>1, <2>3 DEF Running, InState
    <3> QED BY <3>1, RunningAreHeld
  <2> QED BY <2>2, <2>3
<1>7. IsFiniteSet(held) /\ IsFiniteSet(more)
      BY ConstantsAssumption, FS_Subset DEF JobsOf
<1>8. /\ ~db.meta[l].paused
      /\ IF l \in Queue THEN Cardinality(held) + Cardinality(more) <= max
                        ELSE Cardinality(held \cup more) <= max
      BY <1>3, <1>5 DEF Admits
<1> HIDE DEF held, more
<1>9. max \in Nat
      BY <1>0 DEF Keyspace, Meta
<1>10. /\ IsFiniteSet(held \cup more)
       /\ Cardinality(held \cup more) = Cardinality(held) + Cardinality(more)
                                         - Cardinality(held \cap more)
      BY <1>7, FS_Union
<1>11. Cardinality(held) \in Nat /\ Cardinality(more) \in Nat
       /\ Cardinality(held \cap more) \in Nat /\ Cardinality(held \cup more) \in Nat
  <2>1. IsFiniteSet(held \cap more)
        BY <1>7, FS_Subset
  <2> QED BY <1>7, <1>10, <2>1, FS_CardinalityType
<1> HIDE DEF max
<1>12. Cardinality(held \cup more) <= max
      BY <1>8, <1>9, <1>10, <1>11
<1>13. /\ IsFiniteSet(Running(l)')
       /\ Cardinality(Running(l)') <= Cardinality(held \cup more)
      BY <1>6, <1>10, FS_Subset
<1>14. Cardinality(Running(l)') \in Nat
      BY <1>13, FS_CardinalityType
<1> QED BY <1>8, <1>9, <1>11, <1>12, <1>13, <1>14 DEF max

\* No step starts a job in a lane that is paused or full: the running rows of
\* a queue or a group never exceed its limit at a start.
THEOREM CapsAreRespected == Spec => CapsRespected
<1> DEFINE A == \A l \in Lane :
                   (\E j \in Running(l)' : j \notin Running(l)) =>
                       /\ ~db.meta[l].paused
                       /\ Cardinality(Running(l)') <= db.meta[l].max_concurrency
<1>1. Inv /\ [Next]_vars => A
      BY StartsAreAdmitted
<1>2. Inv /\ [Next]_vars => [A]_vars
      BY <1>1
<1> QED BY <1>2, Invariance, PTL DEF Spec, CapsRespected
=============================================================================
