------------------------- MODULE PgSchedulesProofs --------------------------
(***************************************************************************)
(* Schedules on Postgres, for any number of processes, names and triggers. *)
(* Everything rests on the row locks: a tick acts on rows that nobody else *)
(* has changed since it selected them.  What a clock that is off does to   *)
(* the rest is in the hypotheses of the theorems.                          *)
(***************************************************************************)
EXTENDS PgSchedules, TLAPS

Wants == {<<>>} \cup UNION {[D -> Trigger] : D \in SUBSET Schedule}
Nexts == {<<>>} \cup UNION {[D -> Int] : D \in SUBSET Schedule}

Tick == [pc : {"idle", "begun", "locked", "selected"}, at : Instant, due : SUBSET Schedule]
Request == [pc : {"idle", "upsert", "sync", "upserted", "pruned"}, want : Wants,
            next : Nexts, pruned : SUBSET Schedule]

\* What a tick has selected it has locked, and is as it was selected.
TickOK(n) ==
    /\ tick[n].at <= now
    /\ tick[n].pc # "selected" => tick[n].due = {}
    /\ \A s \in tick[n].due : /\ lock[s] = <<n, "tick">>
                              /\ schedules[s].row /\ schedules[s].enabled
                              /\ schedules[s].next_run_at <= tick[n].at

\* What a request declares has a trigger and a first run; what a sync has
\* written it has locked.
RequestOK(n) ==
    /\ request[n].pc # "idle" =>
          /\ Names(request[n]) \subseteq Schedule
          /\ \A s \in Names(request[n]) :
                request[n].want[s] \in Trigger /\ request[n].next[s] \in Int
    /\ request[n].pc # "pruned" => request[n].pruned = {}
    /\ request[n].pc \in {"upserted", "pruned"} =>
          \A s \in Names(request[n]) : lock[s] = <<n, "boot">>
    /\ \A s \in request[n].pruned : lock[s] = <<n, "boot">>

\* A lock is somebody's.
LockOK(s) ==
    \/ lock[s] = Free
    \/ \E n \in Ticker : lock[s] = <<n, "tick">> /\ s \in tick[n].due
    \/ \E n \in Booter : /\ lock[s] = <<n, "boot">>
                         /\ request[n].pc \in {"upserted", "pruned"}
                         /\ s \in Names(request[n]) \cup request[n].pruned

Tables ==
    /\ now \in Instant
    /\ schedules \in [Schedule -> Row]
    /\ \A s \in Schedule : schedules[s].row => schedules[s].trigger \in Trigger
    /\ fires \in [Schedule -> [Instant -> Nat]]
    /\ anchor \in [Schedule -> Instant]

Shape ==
    /\ Tables
    /\ tick \in [Ticker -> Tick] /\ request \in [Booter -> Request]
    /\ \A n \in Ticker : TickOK(n)
    /\ \A n \in Booter : RequestOK(n)
    /\ \A s \in Schedule : LockOK(s)

-----------------------------------------------------------------------------
(* Triggers.                                                               *)

\* The next instant of a trigger, cron or interval, is later than the clock it
\* is taken from.
LEMMA NextIsLater ==
    ASSUME NEW t \in Trigger, NEW c \in Int
    PROVE  NextRun(t, c) \in Int /\ NextRun(t, c) > c
<1>1. t.units \in Nat \ {0}
      BY ScheduleConstants
<1>2. ASSUME NEW u \in Nat \ {0}
      PROVE  (c \div u + 1) * u \in Int /\ (c \div u + 1) * u > c
      BY <1>2
<1>3. CASE t.kind = "every"
      BY <1>1, <1>3 DEF NextRun
<1>4. CASE t.kind # "every"
      BY <1>1, <1>2, <1>4 DEF NextRun
<1> QED BY <1>3, <1>4

\* A later clock gives no earlier instant.
LEMMA NextIsMonotone ==
    ASSUME NEW t \in Trigger, NEW c \in Int, NEW d \in Int, c <= d
    PROVE  NextRun(t, c) <= NextRun(t, d)
<1>1. t.units \in Nat \ {0}
      BY ScheduleConstants
<1>2. ASSUME NEW u \in Nat \ {0}
      PROVE  (c \div u + 1) * u <= (d \div u + 1) * u
      BY <1>2
<1>3. CASE t.kind = "every"
      BY <1>1, <1>3 DEF NextRun
<1>4. CASE t.kind # "every"
      BY <1>1, <1>2, <1>4 DEF NextRun
<1> QED BY <1>3, <1>4

-----------------------------------------------------------------------------
(* What a step leaves alone.                                               *)

\* Rows that ticks have locked are not touched.
LEMMA TicksStay ==
    ASSUME Shape, tick' = tick, now' \in Int, now' >= now,
           \A s \in Schedule, m \in Ticker : lock[s] = <<m, "tick">> =>
               lock'[s] = lock[s] /\ schedules'[s] = schedules[s]
    PROVE  \A m \in Ticker : TickOK(m)'
<1> SUFFICES ASSUME NEW m \in Ticker
             PROVE  TickOK(m)'
    OBVIOUS
<1>1. TickOK(m) /\ tick[m] \in Tick /\ now \in Int
      BY DEF Shape, Tables, Instant
<1>2. tick[m].at \in Int /\ tick[m].due \subseteq Schedule
      BY <1>1 DEF Tick, Instant
<1> QED BY <1>1, <1>2 DEF TickOK

\* A request that does not go on keeps its locks.
LEMMA RequestStays ==
    ASSUME Shape, NEW m \in Booter, request'[m] = request[m],
           \A s \in Schedule : lock[s] = <<m, "boot">> => lock'[s] = lock[s]
    PROVE  RequestOK(m)'
<1>1. RequestOK(m) /\ request[m] \in Request
      BY DEF Shape
<1>2. request[m].pruned \subseteq Schedule
      BY <1>1 DEF Request
<1> QED BY <1>1, <1>2 DEF RequestOK, Names

\* A lock that is not given back has the transaction it had.
LEMMA LockStays ==
    ASSUME Shape, NEW s \in Schedule, lock'[s] = lock[s],
           \A m \in Ticker : lock[s] = <<m, "tick">> => tick'[m] = tick[m],
           \A m \in Booter : lock[s] = <<m, "boot">> => request'[m] = request[m]
    PROVE  LockOK(s)'
<1>1. LockOK(s)
      BY DEF Shape
<1> QED BY <1>1 DEF LockOK, Names

\* Nobody's lock is anybody's.
LEMMA LocksDiffer ==
    /\ \A n \in Ticker : <<n, "tick">> # Free
    /\ \A n \in Booter : <<n, "boot">> # Free
    /\ \A n \in Ticker, m \in Booter : <<n, "tick">> # <<m, "boot">>
    /\ \A n, m : n # m => <<n, "boot">> # <<m, "boot">> /\ <<n, "tick">> # <<m, "tick">>
BY ScheduleConstants DEF Txn


-----------------------------------------------------------------------------
(* Declaring schedules.                                                    *)

\* A request goes on without writing a row.
LEMMA RequestStep ==
    ASSUME Shape, NEW n \in Booter, NEW r \in Request, request' = [request EXCEPT ![n] = r],
           UNCHANGED <<now, schedules, tick, fires, anchor>>, RequestOK(n)',
           \A s \in Schedule :
               \/ /\ lock'[s] = lock[s]
                  /\ lock[s] = <<n, "boot">> =>
                        /\ r.pc \in {"upserted", "pruned"}
                        /\ s \in Names(r) \cup r.pruned
               \/ lock[s] = <<n, "boot">> /\ lock'[s] = Free
               \/ /\ lock[s] = Free /\ lock'[s] = <<n, "boot">>
                  /\ r.pc \in {"upserted", "pruned"} /\ s \in Names(r) \cup r.pruned
    PROVE  Shape'
<1>1. /\ request' \in [Booter -> Request] /\ request'[n] = r
      /\ \A m \in Booter \ {n} : request'[m] = request[m]
      BY DEF Shape
<1>2. Tables' /\ tick' \in [Ticker -> Tick]
      BY DEF Shape, Tables
<1>3. \A m \in Ticker : TickOK(m)'
  <2>1. now' \in Int /\ now' >= now
        BY DEF Shape, Tables, Instant
  <2>2. \A s \in Schedule, m \in Ticker : lock[s] = <<m, "tick">> => lock'[s] = lock[s]
        BY LocksDiffer
  <2> QED BY <2>1, <2>2, TicksStay
<1>4. \A m \in Booter : RequestOK(m)'
  <2>1. ASSUME NEW m \in Booter \ {n}
        PROVE  RequestOK(m)'
    <3>1. \A s \in Schedule : lock[s] = <<m, "boot">> => lock'[s] = lock[s]
          BY LocksDiffer
    <3> QED BY <1>1, <3>1, RequestStays
  <2> QED BY <2>1
<1>5. ASSUME NEW s \in Schedule
      PROVE  LockOK(s)'
  <2>1. CASE lock'[s] = Free
        BY <2>1 DEF LockOK
  <2>2. CASE lock'[s] = <<n, "boot">> /\ r.pc \in {"upserted", "pruned"}
             /\ s \in Names(r) \cup r.pruned
        BY <1>1, <2>2 DEF LockOK, Names
  <2>3. CASE lock'[s] = lock[s] /\ lock[s] # <<n, "boot">>
    <3>1. \A m \in Booter : lock[s] = <<m, "boot">> => request'[m] = request[m]
          BY <1>1, <2>3
    <3> QED BY <2>3, <3>1, LockStays
  <2> QED BY <2>1, <2>2, <2>3
<1> QED BY <1>1, <1>2, <1>3, <1>4, <1>5 DEF Shape

\* Triggers are validated and first runs computed before any statement.
LEMMA PrepareStep ==
    ASSUME Shape, NEW n \in Booter, NEW D \in SUBSET Schedule, NEW T \in SUBSET Trigger,
           NEW pc \in {"upsert", "sync"}, Prepare(n, D, T, pc)
    PROVE  Shape'
<1>1. PICK want \in [D -> T] :
          request' = [request EXCEPT ![n] =
              [pc |-> pc, want |-> want, pruned |-> {},
               next |-> [s \in D |-> NextRun(want[s], Clock(n))]]]
      BY DEF Prepare
<1> DEFINE N == [s \in D |-> NextRun(want[s], Clock(n))]
           r == [pc |-> pc, want |-> want, pruned |-> {}, next |-> N]
<1>2. Clock(n) \in Int
      BY ScheduleConstants DEF Shape, Tables, Instant, Clock
<1>3. \A s \in D : want[s] \in Trigger /\ NextRun(want[s], Clock(n)) \in Int
      BY <1>2, NextIsLater
<1>4. N \in [D -> Int] /\ want \in [D -> Trigger] /\ DOMAIN want = D
      BY <1>3
<1>5. N \in Nexts /\ want \in Wants
      BY <1>4 DEF Nexts, Wants
<1>6. \A s \in D : N[s] \in Int
      BY <1>4
<1> HIDE DEF N
<1>7. r \in Request /\ r.pc = pc /\ r.want = want /\ r.pruned = {} /\ r.next = N
      BY <1>5 DEF Request
<1>8. request' = [request EXCEPT ![n] = r] /\ UNCHANGED <<now, schedules, lock, tick, fires, anchor>>
      BY <1>1 DEF N, Prepare
<1> HIDE DEF r
<1>9. request'[n] = r
      BY <1>8 DEF Shape
<1>10. RequestOK(n)'
      BY <1>3, <1>4, <1>6, <1>7, <1>9 DEF RequestOK, Names
<1>11. \A s \in Schedule : lock[s] # <<n, "boot">>
  <2>1. request[n].pc = "idle"
        BY DEF Prepare
  <2> QED BY <2>1, LocksDiffer DEF Shape, LockOK
<1> QED BY <1>7, <1>8, <1>10, <1>11, RequestStep

\* The statements of a sync, and its failure.
LEMMA SyncStep ==
    ASSUME Shape, NEW n \in Booter, SyncUpserts(n) \/ SyncDeletes(n) \/ SyncFails(n)
    PROVE  Shape'
<1>0. request \in [Booter -> Request] /\ request[n] \in Request /\ RequestOK(n)
      BY DEF Shape
<1>1. CASE SyncUpserts(n)
  <2> DEFINE r == [request[n] EXCEPT !.pc = "upserted"]
  <2>1. request' = [request EXCEPT ![n] = r]
        BY <1>0, <1>1 DEF SyncUpserts, Request
  <2>2. /\ r \in Request /\ r.pc = "upserted" /\ r.want = request[n].want
        /\ r.next = request[n].next /\ r.pruned = request[n].pruned
        BY <1>0 DEF Request
  <2> HIDE DEF r
  <2>3. request'[n] = r /\ request[n].pc = "sync"
        BY <1>0, <1>1, <2>1 DEF SyncUpserts
  <2>4. Names(r) = Names(request[n]) /\ Names(r) \subseteq Schedule /\ r.pruned = {}
        BY <1>0, <2>2, <2>3 DEF RequestOK, Names
  <2>5. \A s \in Schedule : /\ s \in Names(r) => lock[s] = Free /\ lock'[s] = <<n, "boot">>
                            /\ s \notin Names(r) => lock'[s] = lock[s]
        BY <1>1, <2>4 DEF SyncUpserts
  <2>6. RequestOK(n)'
    <3>1. \A s \in Names(r) : r.want[s] \in Trigger /\ r.next[s] \in Int /\ s \in Schedule
          BY <1>0, <2>2, <2>3, <2>4 DEF RequestOK
    <3> QED BY <2>2, <2>3, <2>4, <2>5, <3>1 DEF RequestOK, Names
  <2>7. \A s \in Schedule : lock[s] # <<n, "boot">>
        BY <2>3, LocksDiffer DEF Shape, LockOK
  <2>8. UNCHANGED <<now, schedules, tick, fires, anchor>>
        BY <1>1 DEF SyncUpserts
  <2> QED BY <2>1, <2>2, <2>5, <2>6, <2>7, <2>8, RequestStep
<1>2. CASE SyncDeletes(n)
  <2> DEFINE gone == {s \in Schedule \ Names(request[n]) : schedules[s].row}
             r == [request[n] EXCEPT !.pc = "pruned", !.pruned = gone]
  <2>1. request' = [request EXCEPT ![n] = r]
        BY <1>0, <1>2 DEF SyncDeletes, Request
  <2>2. /\ request[n].pc = "upserted" /\ UNCHANGED <<now, schedules, tick, fires, anchor>>
        /\ \A s \in gone : lock[s] = Free
        /\ lock' = [s \in Schedule |-> IF s \in gone THEN <<n, "boot">> ELSE lock[s]]
        BY <1>2 DEF SyncDeletes
  <2>3. gone \in SUBSET Schedule /\ gone \cap Names(request[n]) = {}
        OBVIOUS
  <2> HIDE DEF gone
  <2>4. /\ r \in Request /\ r.pc = "pruned" /\ r.want = request[n].want
        /\ r.next = request[n].next /\ r.pruned = gone
        BY <1>0, <2>3 DEF Request
  <2> HIDE DEF r
  <2>5. request'[n] = r /\ Names(r) = Names(request[n]) /\ Names(r) \subseteq Schedule
        BY <1>0, <2>1, <2>2, <2>4 DEF RequestOK, Names
  <2>6. \A s \in Names(r) : lock[s] = <<n, "boot">> /\ lock'[s] = lock[s] /\ s \in Schedule
        BY <1>0, <2>2, <2>3, <2>5 DEF RequestOK
  <2>7. \A s \in Schedule : lock[s] = <<n, "boot">> => s \in Names(r)
    <3> SUFFICES ASSUME NEW s \in Schedule, lock[s] = <<n, "boot">>
                 PROVE  s \in Names(r)
        OBVIOUS
    <3>1. LockOK(s)
          BY DEF Shape
    <3>2. request[n].pruned = {}
          BY <1>0, <2>2 DEF RequestOK
    <3> QED BY <2>5, <3>1, <3>2, LocksDiffer DEF LockOK
  <2>8. RequestOK(n)'
    <3>1. \A s \in Names(r) : r.want[s] \in Trigger /\ r.next[s] \in Int
          BY <1>0, <2>2, <2>4, <2>5 DEF RequestOK
    <3>2. \A s \in gone : lock'[s] = <<n, "boot">>
          BY <2>2, <2>3
    <3> QED BY <2>4, <2>5, <2>6, <3>1, <3>2 DEF RequestOK, Names
  <2> QED BY <2>1, <2>2, <2>3, <2>4, <2>7, <2>8, RequestStep
<1>3. CASE SyncFails(n)
  <2>1. /\ request' = [request EXCEPT ![n] = NoRequest]
        /\ lock' = [s \in Schedule |-> IF lock[s] = <<n, "boot">> THEN Free ELSE lock[s]]
        /\ UNCHANGED <<now, schedules, tick, fires, anchor>>
        BY <1>3 DEF SyncFails
  <2>2. NoRequest \in Request /\ NoRequest.pc = "idle" /\ NoRequest.pruned = {}
        BY DEF NoRequest, Request, Wants, Nexts
  <2> HIDE DEF NoRequest
  <2>3. request'[n] = NoRequest
        BY <1>0, <2>1
  <2>4. RequestOK(n)'
        BY <2>2, <2>3 DEF RequestOK
  <2> QED BY <2>1, <2>2, <2>4, RequestStep
<1> QED BY <1>1, <1>2, <1>3


-----------------------------------------------------------------------------
(* Writing rows.                                                           *)

Untouched(s) == schedules'[s] = schedules[s] /\ fires'[s] = fires[s] /\ anchor'[s] = anchor[s]

Removed(s) == /\ schedules'[s] \in Row /\ ~schedules'[s].row
              /\ fires'[s] = NeverFired /\ anchor'[s] \in {anchor[s], now}

Declared(s, r) ==
    /\ s \in Names(r) /\ schedules'[s] \in Row
    /\ schedules'[s].trigger = r.want[s] /\ schedules'[s].next_run_at = r.next[s]
    /\ fires'[s] = NeverFired /\ anchor'[s] = now

\* A row without its schedule is a row.
LEMMA GoneRow == \A r \in Row : Gone(r) \in Row /\ ~Gone(r).row
<1>1. ASSUME NEW r \in Row, NEW f \in BOOLEAN, NEW i \in Int
      PROVE  /\ [r EXCEPT !.row = f, !.enabled = f, !.next_run_at = i] \in Row
             /\ [r EXCEPT !.row = f, !.enabled = f, !.next_run_at = i].row = f
      BY DEF Row
<1>2. FALSE \in BOOLEAN /\ 0 \in Int
      OBVIOUS
<1> QED BY <1>1, <1>2 DEF Gone

\* A request that commits, and the tables afterwards.
Commits(n) ==
    /\ Commit(n)
    /\ \/ request[n].pc = "pruned"
       \/ request[n].pc = "upsert" /\ \A s \in Names(request[n]) : lock[s] = Free

\* It writes rows nobody else has locked: those of its names that are new or
\* have another trigger, and those a sync did not find in its list.
LEMMA CommitRows ==
    ASSUME Shape, NEW n \in Booter, Commits(n), NEW s \in Schedule
    PROVE  /\ Untouched(s) \/ Removed(s) \/ Declared(s, request[n])
           /\ ~Untouched(s) => lock[s] \in {Free, <<n, "boot">>}
<1> DEFINE r == request[n]
<1>0. RequestOK(n) /\ schedules \in [Schedule -> Row] /\ schedules[s] \in Row
      BY DEF Shape, Tables
<1>1. /\ schedules'[s] = IF s \in r.pruned THEN Gone(schedules[s])
                         ELSE IF s \notin Names(r) \/ Unchanged(s, r.want[s]) THEN schedules[s]
                         ELSE [row |-> TRUE, trigger |-> r.want[s], next_run_at |-> r.next[s],
                               enabled |-> schedules[s].row => schedules[s].enabled]
      /\ fires'[s] = IF s \in Renewed(r) \cup r.pruned THEN NeverFired ELSE fires[s]
      /\ anchor'[s] = IF s \in Renewed(r) THEN now ELSE anchor[s]
      BY DEF Commits, Commit, Upserted
<1>2. s \in Renewed(r) <=> s \in Names(r) /\ ~Unchanged(s, r.want[s])
      BY DEF Renewed
<1>3. CASE s \in r.pruned
  <2>1. Removed(s)
        BY <1>0, <1>1, <1>3, GoneRow DEF Removed
  <2>2. lock[s] = <<n, "boot">>
        BY <1>0, <1>3 DEF RequestOK
  <2> QED BY <2>1, <2>2
<1>4. CASE s \notin r.pruned /\ s \notin Renewed(r)
      BY <1>1, <1>2, <1>4 DEF Untouched
<1>5. CASE s \notin r.pruned /\ s \in Renewed(r)
  <2>1. s \in Names(r) /\ lock[s] \in {Free, <<n, "boot">>}
        BY <1>0, <1>2, <1>5 DEF RequestOK, Commits
  <2>2. r.want[s] \in Trigger /\ r.next[s] \in Int
        BY <1>0, <2>1 DEF RequestOK, Commits
  <2> DEFINE E == (schedules[s].row => schedules[s].enabled)
             q == [row |-> TRUE, trigger |-> r.want[s], next_run_at |-> r.next[s], enabled |-> E]
  <2>3. E \in BOOLEAN
        OBVIOUS
  <2>4. schedules'[s] = q
        BY <1>1, <1>2, <1>5
  <2> HIDE DEF E
  <2>5. q \in Row /\ q.trigger = r.want[s] /\ q.next_run_at = r.next[s]
        BY <2>2, <2>3 DEF Row
  <2> HIDE DEF q
  <2>6. Declared(s, r)
        BY <1>1, <1>5, <2>1, <2>4, <2>5 DEF Declared
  <2> QED BY <2>1, <2>6
<1> QED BY <1>3, <1>4, <1>5

\* The tables after rows were written.
LEMMA WrittenTables ==
    ASSUME Shape, NEW n \in Booter, request[n].pc # "idle",
           schedules' = [s \in Schedule |-> schedules'[s]],
           fires' = [s \in Schedule |-> fires'[s]],
           anchor' = [s \in Schedule |-> anchor'[s]], now' = now,
           \A s \in Schedule : Untouched(s) \/ Removed(s) \/ Declared(s, request[n])
    PROVE  Tables'
<1>0. Tables /\ RequestOK(n)
      BY DEF Shape
<1>1. ASSUME NEW s \in Schedule
      PROVE  /\ schedules'[s] \in Row /\ (schedules'[s].row => schedules'[s].trigger \in Trigger)
             /\ fires'[s] \in [Instant -> Nat] /\ anchor'[s] \in Instant
  <2>1. NeverFired \in [Instant -> Nat]
        BY DEF NeverFired
  <2>2. CASE Untouched(s)
        BY <1>0, <2>2 DEF Tables, Untouched
  <2>3. CASE Removed(s)
        BY <1>0, <2>1, <2>3 DEF Tables, Removed
  <2>4. CASE Declared(s, request[n])
        BY <1>0, <2>1, <2>4 DEF Tables, Declared, RequestOK
  <2> QED BY <2>2, <2>3, <2>4
<1> QED BY <1>0, <1>1 DEF Tables

\* The commit gives the locks back.
LEMMA CommitStep ==
    ASSUME Shape, NEW n \in Booter, Commits(n)
    PROVE  Shape'
<1>1. /\ request' = [request EXCEPT ![n] = NoRequest]
      /\ lock' = [s \in Schedule |-> IF lock[s] = <<n, "boot">> THEN Free ELSE lock[s]]
      /\ UNCHANGED <<now, tick>>
      BY DEF Commits, Commit
<1>2. NoRequest \in Request /\ NoRequest.pc = "idle" /\ NoRequest.pruned = {}
      BY DEF NoRequest, Request, Wants, Nexts
<1> HIDE DEF NoRequest
<1>3. /\ request' \in [Booter -> Request] /\ request'[n] = NoRequest
      /\ \A m \in Booter \ {n} : request'[m] = request[m]
      BY <1>1, <1>2 DEF Shape
<1>4. Tables'
  <2>1. /\ schedules' = [s \in Schedule |-> schedules'[s]]
        /\ fires' = [s \in Schedule |-> fires'[s]]
        /\ anchor' = [s \in Schedule |-> anchor'[s]]
        BY DEF Commits, Commit
  <2>2. request[n].pc # "idle"
        BY DEF Commits
  <2> QED BY <1>1, <2>1, <2>2, CommitRows, WrittenTables
<1>5. \A m \in Ticker : TickOK(m)'
  <2>1. now' \in Int /\ now' >= now
        BY <1>1 DEF Shape, Tables, Instant
  <2>2. \A s \in Schedule, m \in Ticker : lock[s] = <<m, "tick">> =>
            lock'[s] = lock[s] /\ schedules'[s] = schedules[s]
        BY <1>1, CommitRows, LocksDiffer DEF Untouched
  <2> QED BY <1>1, <2>1, <2>2, TicksStay
<1>6. RequestOK(n)'
      BY <1>2, <1>3 DEF RequestOK
<1>7. ASSUME NEW m \in Booter \ {n}
      PROVE  RequestOK(m)'
  <2>1. \A s \in Schedule : lock[s] = <<m, "boot">> => lock'[s] = lock[s]
        BY <1>1, LocksDiffer
  <2> QED BY <1>3, <2>1, RequestStays
<1>8. ASSUME NEW s \in Schedule
      PROVE  LockOK(s)'
  <2>1. CASE lock[s] = <<n, "boot">>
        BY <1>1, <2>1 DEF LockOK
  <2>2. CASE lock[s] # <<n, "boot">>
    <3>1. lock'[s] = lock[s]
          BY <1>1, <2>2
    <3>2. \A m \in Booter : lock[s] = <<m, "boot">> => request'[m] = request[m]
          BY <1>3, <2>2
    <3> QED BY <1>1, <3>1, <3>2, LockStays
  <2> QED BY <2>1, <2>2
<1> QED BY <1>1, <1>3, <1>4, <1>5, <1>6, <1>7, <1>8 DEF Shape

\* Removing, pausing and resuming take the lock of the row for one statement.
LEMMA OperatorStep ==
    ASSUME Shape, NEW s \in Schedule, remove_schedule(s) \/ set_enabled(s)
    PROVE  Shape'
<1>0. /\ schedules \in [Schedule -> Row] /\ schedules[s] \in Row /\ lock[s] = Free
      /\ schedules[s].trigger \in Trigger
      /\ UNCHANGED <<now, lock, tick, request, anchor>>
      BY DEF Shape, Tables, remove_schedule, set_enabled
<1>1. PICK q \in Row : /\ schedules' = [schedules EXCEPT ![s] = q]
                       /\ q.row => q.trigger \in Trigger
  <2>1. CASE remove_schedule(s)
    <3>1. schedules' = [schedules EXCEPT ![s] = Gone(schedules[s])]
          BY <2>1 DEF remove_schedule
    <3> QED BY <1>0, <3>1, GoneRow
  <2>2. CASE set_enabled(s)
    <3> DEFINE E == ~schedules[s].enabled
               q == [schedules[s] EXCEPT !.enabled = E]
    <3>1. E \in BOOLEAN
          OBVIOUS
    <3>2. schedules' = [schedules EXCEPT ![s] = q]
          BY <1>0, <2>2 DEF set_enabled, Row
    <3> HIDE DEF E
    <3>3. q \in Row /\ q.trigger = schedules[s].trigger
          BY <1>0, <3>1 DEF Row
    <3> QED BY <1>0, <3>2, <3>3
  <2> QED BY <2>1, <2>2
<1>2. /\ schedules' \in [Schedule -> Row] /\ schedules'[s] = q
      /\ \A u \in Schedule \ {s} : schedules'[u] = schedules[u]
      BY <1>0, <1>1
<1>3. fires' \in [Schedule -> [Instant -> Nat]]
  <2>1. NeverFired \in [Instant -> Nat]
        BY DEF NeverFired
  <2>2. fires' = fires \/ fires' = [fires EXCEPT ![s] = NeverFired]
        BY DEF remove_schedule, set_enabled
  <2> QED BY <2>1, <2>2 DEF Shape, Tables
<1>4. Tables'
      BY <1>0, <1>1, <1>2, <1>3 DEF Shape, Tables
<1>5. \A m \in Ticker : TickOK(m)'
  <2>1. now' \in Int /\ now' >= now
        BY <1>0 DEF Shape, Tables, Instant
  <2>2. \A u \in Schedule, m \in Ticker : lock[u] = <<m, "tick">> =>
            lock'[u] = lock[u] /\ schedules'[u] = schedules[u]
        BY <1>0, <1>2, LocksDiffer
  <2> QED BY <1>0, <2>1, <2>2, TicksStay
<1>6. \A m \in Booter : RequestOK(m)'
      BY <1>0, RequestStays
<1>7. \A u \in Schedule : LockOK(u)'
      BY <1>0, LockStays
<1> QED BY <1>0, <1>4, <1>5, <1>6, <1>7 DEF Shape


-----------------------------------------------------------------------------
(* The tick.                                                               *)

\* A tick goes on, and writes at most rows it has locked.
LEMMA TickStep ==
    ASSUME Shape, NEW n \in Ticker, NEW t \in Tick, tick' = [tick EXCEPT ![n] = t],
           UNCHANGED <<now, request>>, TickOK(n)', Tables',
           \A s \in Schedule : lock[s] # <<n, "tick">> => schedules'[s] = schedules[s],
           \A s \in Schedule :
               \/ lock'[s] = lock[s] /\ (lock[s] = <<n, "tick">> => s \in t.due)
               \/ lock[s] = <<n, "tick">> /\ lock'[s] = Free
               \/ lock[s] = Free /\ lock'[s] = <<n, "tick">> /\ s \in t.due
    PROVE  Shape'
<1>1. /\ tick' \in [Ticker -> Tick] /\ tick'[n] = t
      /\ \A m \in Ticker \ {n} : tick'[m] = tick[m]
      BY DEF Shape
<1>2. ASSUME NEW m \in Ticker \ {n}
      PROVE  TickOK(m)'
  <2>1. TickOK(m) /\ tick[m] \in Tick
        BY DEF Shape
  <2>2. tick[m].due \subseteq Schedule
        BY <2>1 DEF Tick
  <2>3. \A s \in tick[m].due : lock'[s] = lock[s] /\ schedules'[s] = schedules[s]
        BY <2>1, <2>2, LocksDiffer DEF TickOK
  <2> QED BY <1>1, <2>1, <2>3 DEF TickOK
<1>3. \A m \in Booter : RequestOK(m)'
  <2>1. ASSUME NEW m \in Booter
        PROVE  RequestOK(m)'
    <3>1. \A s \in Schedule : lock[s] = <<m, "boot">> => lock'[s] = lock[s]
          BY LocksDiffer
    <3> QED BY <3>1, RequestStays
  <2> QED BY <2>1
<1>4. ASSUME NEW s \in Schedule
      PROVE  LockOK(s)'
  <2>1. CASE lock'[s] = Free
        BY <2>1 DEF LockOK
  <2>2. CASE lock'[s] = <<n, "tick">> /\ s \in t.due
        BY <1>1, <2>2 DEF LockOK
  <2>3. CASE lock'[s] = lock[s] /\ lock[s] # <<n, "tick">>
    <3>1. \A m \in Ticker : lock[s] = <<m, "tick">> => tick'[m] = tick[m]
          BY <1>1, <2>3
    <3> QED BY <2>3, <3>1, LockStays
  <2> QED BY <2>1, <2>2, <2>3
<1>5. request' \in [Booter -> Request]
      BY DEF Shape
<1> QED BY <1>1, <1>2, <1>3, <1>4, <1>5 DEF Shape

\* A tick begins, gets the advisory lock or not, or fails.
LEMMA PlainTickStep ==
    ASSUME Shape, NEW n \in Ticker,
           TickBegin(n) \/ TickLock(n) \/ TickSkipped(n) \/ TickFails(n)
    PROVE  Shape'
<1>0. /\ tick \in [Ticker -> Tick] /\ tick[n] \in Tick /\ TickOK(n)
      /\ now \in Instant /\ now \in Int /\ 0 \in Instant /\ now >= 0
      BY ScheduleConstants DEF Shape, Tables, Instant
<1>1. UNCHANGED <<now, request, schedules, fires, anchor>>
      BY DEF TickBegin, TickLock, TickSkipped, TickFails
<1>2. Tables'
      BY <1>1 DEF Shape, Tables
<1>3. ASSUME NEW t \in Tick, t.due = {}, t.at <= now, tick' = [tick EXCEPT ![n] = t],
             \A s \in Schedule :
                 \/ lock'[s] = lock[s] /\ lock[s] # <<n, "tick">>
                 \/ lock[s] = <<n, "tick">> /\ lock'[s] = Free
      PROVE  Shape'
  <2>1. tick'[n] = t
        BY <1>0, <1>3
  <2>2. TickOK(n)'
        BY <1>1, <1>3, <2>1 DEF TickOK
  <2> QED BY <1>1, <1>2, <1>3, <2>2, TickStep
<1>4. tick[n].pc # "selected" => \A s \in Schedule : lock[s] # <<n, "tick">>
  <2> SUFFICES ASSUME tick[n].pc # "selected", NEW s \in Schedule
               PROVE  lock[s] # <<n, "tick">>
      OBVIOUS
  <2>1. tick[n].due = {} /\ LockOK(s)
        BY <1>0 DEF TickOK, Shape
  <2> QED BY <2>1, LocksDiffer DEF LockOK
<1>5. NoTick \in Tick /\ NoTick.due = {} /\ NoTick.at <= now
      BY <1>0 DEF NoTick, Tick
<1>6. CASE TickBegin(n)
  <2> DEFINE t == [pc |-> "begun", at |-> now, due |-> {}]
  <2>1. t \in Tick /\ t.due = {} /\ t.at <= now
        BY <1>0 DEF Tick
  <2> HIDE DEF t
  <2>2. tick' = [tick EXCEPT ![n] = t] /\ lock' = lock /\ tick[n].pc = "idle"
        BY <1>6 DEF TickBegin, t
  <2> QED BY <1>3, <1>4, <2>1, <2>2
<1>7. CASE TickLock(n)
  <2> DEFINE t == [tick[n] EXCEPT !.pc = "locked"]
  <2>1. t \in Tick /\ t.due = tick[n].due /\ t.at = tick[n].at
        BY <1>0 DEF Tick
  <2>2. tick' = [tick EXCEPT ![n] = t] /\ lock' = lock /\ tick[n].pc = "begun"
        BY <1>0, <1>7 DEF TickLock, Tick
  <2> HIDE DEF t
  <2>3. t.due = {} /\ t.at <= now
        BY <1>0, <2>1, <2>2 DEF TickOK
  <2> QED BY <1>3, <1>4, <2>1, <2>2, <2>3
<1>8. CASE TickSkipped(n)
  <2>1. tick' = [tick EXCEPT ![n] = NoTick] /\ lock' = lock /\ tick[n].pc = "begun"
        BY <1>8 DEF TickSkipped
  <2> QED BY <1>3, <1>4, <1>5, <2>1
<1>9. CASE TickFails(n)
  <2>1. /\ tick' = [tick EXCEPT ![n] = NoTick]
        /\ lock' = [s \in Schedule |-> IF lock[s] = <<n, "tick">> THEN Free ELSE lock[s]]
        BY <1>9 DEF TickFails
  <2> QED BY <1>3, <1>5, <2>1
<1> QED BY <1>6, <1>7, <1>8, <1>9

\* SELECT ... FOR UPDATE locks the rows it finds due.
LEMMA SelectStep ==
    ASSUME Shape, NEW n \in Ticker, TickSelect(n)
    PROVE  Shape'
<1> DEFINE due == DueAt(tick[n].at)
           t == IF due = {} THEN NoTick ELSE [tick[n] EXCEPT !.pc = "selected", !.due = due]
<1>0. /\ tick \in [Ticker -> Tick] /\ tick[n] \in Tick /\ TickOK(n)
      /\ now \in Int /\ 0 \in Instant /\ now >= 0
      BY ScheduleConstants DEF Shape, Tables, Instant
<1>1. /\ tick[n].pc = "locked" /\ UNCHANGED <<now, schedules, request, fires, anchor>>
      /\ \A s \in due : lock[s] = Free
      /\ lock' = [s \in Schedule |-> IF s \in due THEN <<n, "tick">> ELSE lock[s]]
      BY DEF TickSelect
<1>2. tick' = [tick EXCEPT ![n] = t]
      BY <1>0 DEF TickSelect
<1>3. /\ due \in SUBSET Schedule
      /\ \A s \in due : /\ schedules[s].row /\ schedules[s].enabled
                        /\ schedules[s].next_run_at <= tick[n].at
      BY DEF DueAt
<1> HIDE DEF due
<1>4. t \in Tick /\ t.due = due /\ t.at <= now /\ (due # {} => t.pc = "selected" /\ t.at = tick[n].at)
  <2>1. CASE due = {}
        BY <1>0, <2>1 DEF NoTick, Tick
  <2>2. CASE due # {}
    <3>1. tick[n].at <= now
          BY <1>0 DEF TickOK
    <3> QED BY <1>0, <1>3, <2>2, <3>1 DEF Tick
  <2> QED BY <2>1, <2>2
<1> HIDE DEF t
<1>5. Tables'
      BY <1>1 DEF Shape, Tables
<1>6. tick'[n] = t
      BY <1>0, <1>2
<1>7. \A s \in due : lock'[s] = <<n, "tick">>
      BY <1>1, <1>3
<1>8. TickOK(n)'
  <2>1. tick'[n].pc # "selected" => tick'[n].due = {}
        BY <1>4, <1>6
  <2> QED BY <1>1, <1>3, <1>4, <1>6, <1>7, <2>1 DEF TickOK
<1>9. \A s \in Schedule : lock[s] # <<n, "tick">>
  <2> SUFFICES ASSUME NEW s \in Schedule
               PROVE  lock[s] # <<n, "tick">>
      OBVIOUS
  <2>1. tick[n].due = {} /\ LockOK(s)
        BY <1>0, <1>1 DEF TickOK, Shape
  <2> QED BY <2>1, LocksDiffer DEF LockOK
<1> QED BY <1>1, <1>2, <1>4, <1>5, <1>8, <1>9, TickStep

\* One job for the instant the schedule was due at, and the next instant by the
\* clock of the process.
FiredBy(s, n) ==
    /\ s \in tick[n].due /\ lock[s] = <<n, "tick">>
    /\ schedules[s].row /\ schedules[s].enabled
    /\ schedules[s].next_run_at <= tick[n].at
    /\ schedules[s].trigger \in Trigger
    /\ schedules'[s] \in Row /\ schedules'[s].row
    /\ schedules'[s].trigger = schedules[s].trigger
    /\ schedules'[s].next_run_at = NextRun(schedules[s].trigger, Clock(n))
    /\ fires'[s] = [fires[s] EXCEPT ![schedules[s].next_run_at] = @ + 1]
    /\ anchor'[s] = now

\* A tick that commits fires each schedule it selected.
LEMMA CommitTickRows ==
    ASSUME Shape, NEW n \in Ticker, TickCommit(n), NEW s \in Schedule
    PROVE  Untouched(s) \/ FiredBy(s, n)
<1>1. CASE s \notin tick[n].due
      BY <1>1 DEF TickCommit, Untouched
<1>2. CASE s \in tick[n].due
  <2> DEFINE x == NextRun(schedules[s].trigger, Clock(n))
  <2>1. /\ lock[s] = <<n, "tick">> /\ schedules[s].row /\ schedules[s].enabled
        /\ schedules[s].next_run_at <= tick[n].at
        BY <1>2 DEF Shape, TickOK
  <2>2. schedules[s] \in Row /\ schedules[s].trigger \in Trigger
        BY <2>1 DEF Shape, Tables
  <2>3. Clock(n) \in Int
        BY ScheduleConstants DEF Shape, Tables, Instant, Clock
  <2>4. x \in Int
        BY <2>2, <2>3, NextIsLater
  <2>5. schedules'[s] = [schedules[s] EXCEPT !.next_run_at = x]
        BY <1>2 DEF TickCommit
  <2>6. /\ fires'[s] = [fires[s] EXCEPT ![schedules[s].next_run_at] = @ + 1]
        /\ anchor'[s] = now
        BY <1>2 DEF TickCommit
  <2> HIDE DEF x
  <2>7. /\ schedules'[s] \in Row /\ schedules'[s].row = schedules[s].row
        /\ schedules'[s].trigger = schedules[s].trigger /\ schedules'[s].next_run_at = x
        BY <2>2, <2>4, <2>5 DEF Row
  <2> QED BY <1>2, <2>1, <2>2, <2>6, <2>7 DEF x, FiredBy
<1> QED BY <1>1, <1>2

\* The commit of a tick.
LEMMA CommitTickStep ==
    ASSUME Shape, NEW n \in Ticker, TickCommit(n)
    PROVE  Shape'
<1>0. /\ tick \in [Ticker -> Tick] /\ tick[n] \in Tick /\ TickOK(n) /\ Tables
      /\ now \in Instant /\ now \in Int /\ 0 \in Instant /\ now >= 0
      BY ScheduleConstants DEF Shape, Tables, Instant
<1>1. /\ tick' = [tick EXCEPT ![n] = NoTick] /\ UNCHANGED <<now, request>>
      /\ lock' = [s \in Schedule |-> IF lock[s] = <<n, "tick">> THEN Free ELSE lock[s]]
      /\ schedules' = [s \in Schedule |-> schedules'[s]]
      /\ fires' = [s \in Schedule |-> fires'[s]]
      /\ anchor' = [s \in Schedule |-> anchor'[s]]
      BY DEF TickCommit
<1>2. ASSUME NEW s \in Schedule
      PROVE  /\ schedules'[s] \in Row /\ (schedules'[s].row => schedules'[s].trigger \in Trigger)
             /\ fires'[s] \in [Instant -> Nat] /\ anchor'[s] \in Instant
             /\ lock[s] # <<n, "tick">> => schedules'[s] = schedules[s]
  <2>1. fires[s] \in [Instant -> Nat]
        BY <1>0 DEF Tables
  <2>2. ASSUME NEW i \in Int
        PROVE  [fires[s] EXCEPT ![i] = @ + 1] \in [Instant -> Nat]
    <3>1. CASE i \in Instant
          BY <2>1, <3>1
    <3>2. CASE i \notin Instant
          BY <2>1, <3>2
    <3> QED BY <3>1, <3>2
  <2>3. CASE Untouched(s)
        BY <1>0, <2>1, <2>3 DEF Tables, Untouched
  <2>4. CASE ~Untouched(s)
    <3>1. schedules[s].next_run_at \in Int
      <4>1. schedules[s] \in Row
            BY <1>0 DEF Tables
      <4> QED BY <4>1 DEF Row
    <3>2. /\ lock[s] = <<n, "tick">> /\ schedules[s].trigger \in Trigger
          /\ schedules'[s] \in Row /\ schedules'[s].trigger = schedules[s].trigger
          /\ fires'[s] = [fires[s] EXCEPT ![schedules[s].next_run_at] = @ + 1]
          /\ anchor'[s] = now
          BY <2>4, CommitTickRows DEF FiredBy
    <3>3. fires'[s] \in [Instant -> Nat]
          BY <2>2, <3>1, <3>2
    <3> QED BY <1>0, <3>2, <3>3
  <2> QED BY <2>3, <2>4
<1>3. Tables'
      BY <1>0, <1>1, <1>2 DEF Tables
<1>4. NoTick \in Tick /\ NoTick.due = {} /\ NoTick.at <= now
      BY <1>0 DEF NoTick, Tick
<1> HIDE DEF NoTick
<1>5. TickOK(n)'
  <2>1. tick'[n] = NoTick
        BY <1>0, <1>1
  <2> QED BY <1>1, <1>4, <2>1 DEF TickOK
<1>6. \A s \in Schedule :
          \/ lock'[s] = lock[s] /\ lock[s] # <<n, "tick">>
          \/ lock[s] = <<n, "tick">> /\ lock'[s] = Free
      BY <1>1
<1> QED BY <1>1, <1>2, <1>3, <1>4, <1>5, <1>6, TickStep


-----------------------------------------------------------------------------
(* All steps.                                                              *)

\* No schedule is declared at the start.
LEMMA ShapeInit == Init => Shape
<1> SUFFICES ASSUME Init
             PROVE  Shape
    OBVIOUS
<1>1. now \in Instant /\ now \in Int /\ 0 \in Instant /\ now >= 0
      BY ScheduleConstants DEF Init, Instant
<1>2. NoRow \in Row /\ ~NoRow.row
      BY DEF NoRow, Row
<1>3. NeverFired \in [Instant -> Nat]
      BY DEF NeverFired
<1>4. NoTick \in Tick /\ NoTick.due = {} /\ NoTick.at <= now
      BY <1>1 DEF NoTick, Tick
<1>5. NoRequest \in Request /\ NoRequest.pc = "idle" /\ NoRequest.pruned = {}
      BY DEF NoRequest, Request, Wants, Nexts
<1> HIDE DEF NoRow, NoTick, NoRequest, NeverFired
<1>6. Tables
      BY <1>1, <1>2, <1>3 DEF Init, Tables
<1>7. /\ tick \in [Ticker -> Tick] /\ \A n \in Ticker : tick[n] = NoTick
      /\ request \in [Booter -> Request] /\ \A n \in Booter : request[n] = NoRequest
      /\ \A s \in Schedule : lock[s] = Free
      BY <1>4, <1>5 DEF Init
<1>8. /\ \A n \in Ticker : TickOK(n)
      BY <1>4, <1>7 DEF TickOK
<1>9. \A n \in Booter : RequestOK(n)
      BY <1>5, <1>7 DEF RequestOK
<1> QED BY <1>6, <1>7, <1>8, <1>9 DEF Shape, LockOK

\* Time goes on, or nothing happens.
LEMMA ClockStep ==
    ASSUME Shape, now' \in Instant, now' >= now,
           UNCHANGED <<schedules, lock, tick, request, fires, anchor>>
    PROVE  Shape'
<1>1. Tables' /\ tick' \in [Ticker -> Tick] /\ request' \in [Booter -> Request]
      BY DEF Shape, Tables
<1>2. now' \in Int
      BY DEF Instant
<1>3. \A m \in Ticker : TickOK(m)'
      BY <1>2, TicksStay
<1>4. \A m \in Booter : RequestOK(m)'
      BY RequestStays
<1>5. \A s \in Schedule : LockOK(s)'
      BY LockStays
<1> QED BY <1>1, <1>3, <1>4, <1>5 DEF Shape

\* The steps of a request are these.
LEMMA BootSteps ==
    ASSUME NEW n \in Booter, Boot(n)
    PROVE  \/ \E D \in SUBSET Schedule, T \in SUBSET Trigger, pc \in {"upsert", "sync"} :
                  Prepare(n, D, T, pc)
           \/ SyncUpserts(n) \/ SyncDeletes(n) \/ SyncFails(n)
           \/ Commits(n)
<1>0. Lists \subseteq SUBSET Schedule /\ Single \subseteq Schedule
      BY ScheduleConstants
<1>1. CASE PrepareUpsert(n)
  <2>1. PICK s \in Single : Prepare(n, {s}, Trigger, "upsert")
        BY <1>1 DEF PrepareUpsert
  <2> QED BY <1>0, <2>1
<1>2. CASE PrepareSync(n)
  <2>1. PICK D \in Lists : Prepare(n, D, {t \in Trigger : t.kind = "cron"}, "sync")
        BY <1>2 DEF PrepareSync
  <2> QED BY <1>0, <2>1
<1>3. CASE upsert_schedule_raw(n) \/ sync_schedules(n)
      BY <1>3 DEF upsert_schedule_raw, sync_schedules, Commits
<1> QED BY <1>1, <1>2, <1>3 DEF Boot

\* Every step keeps the shape: what a transaction acts on, it has locked.
LEMMA ShapeNext == Shape /\ [Next]_vars => Shape'
<1> SUFFICES ASSUME Shape, [Next]_vars
             PROVE  Shape'
    OBVIOUS
<1>0. now \in Instant /\ now \in Int /\ now >= 0
      BY DEF Shape, Tables, Instant
<1>1. CASE Elapse
  <2>1. now' \in Instant /\ now' >= now
        BY <1>0, <1>1, ScheduleConstants DEF Elapse, Instant
  <2> QED BY <1>1, <2>1, ClockStep DEF Elapse
<1>2. CASE UNCHANGED vars
  <2>1. now' \in Instant /\ now' >= now
        BY <1>0, <1>2 DEF vars
  <2> QED BY <1>2, <2>1, ClockStep DEF vars
<1>3. ASSUME NEW n \in Booter, Boot(n)
      PROVE  Shape'
      BY <1>3, BootSteps, PrepareStep, SyncStep, CommitStep
<1>4. ASSUME NEW s \in Operable, remove_schedule(s) \/ set_enabled(s)
      PROVE  Shape'
      BY <1>4, ScheduleConstants, OperatorStep
<1>5. ASSUME NEW n \in Ticker, scheduler_loop(n)
      PROVE  Shape'
      BY <1>5, PlainTickStep, SelectStep, CommitTickStep DEF scheduler_loop
<1> QED BY <1>1, <1>2, <1>3, <1>4, <1>5 DEF Next

\* The shape of the tables, the transactions and their locks.
LEMMA ShapeInvariant == Spec => []Shape
BY ShapeInit, ShapeNext, PTL DEF Spec

\* The run a schedule waits for stays what it was.
SameRun(s) ==
    /\ fires'[s] = fires[s] /\ anchor'[s] = anchor[s]
    /\ schedules'[s].row = schedules[s].row /\ schedules'[s].trigger = schedules[s].trigger
    /\ schedules'[s].next_run_at = schedules[s].next_run_at

\* All that can happen to a schedule.
LEMMA RowMoves ==
    ASSUME Shape, [Next]_vars, NEW s \in Schedule
    PROVE  \/ SameRun(s) \/ Removed(s)
           \/ \E n \in Booter : request[n].pc # "idle" /\ Declared(s, request[n])
           \/ \E n \in Ticker : FiredBy(s, n)
<1>1. CASE UNCHANGED <<schedules, fires, anchor>>
      BY <1>1 DEF SameRun
<1>2. CASE Elapse \/ UNCHANGED vars
      BY <1>1, <1>2 DEF Elapse, vars
<1>3. ASSUME NEW n \in Booter, Commits(n)
      PROVE  Untouched(s) \/ Removed(s) \/ (request[n].pc # "idle" /\ Declared(s, request[n]))
      BY <1>3, CommitRows DEF Commits
<1>4. ASSUME NEW n \in Booter, Boot(n), ~Commits(n)
      PROVE  UNCHANGED <<schedules, fires, anchor>>
      BY <1>4, BootSteps DEF Prepare, SyncUpserts, SyncDeletes, SyncFails
<1>5. ASSUME NEW n \in Ticker, TickCommit(n)
      PROVE  Untouched(s) \/ FiredBy(s, n)
      BY <1>5, CommitTickRows
<1>6. ASSUME NEW n \in Ticker, scheduler_loop(n), ~TickCommit(n)
      PROVE  UNCHANGED <<schedules, fires, anchor>>
      BY <1>6 DEF scheduler_loop, TickBegin, TickLock, TickSkipped, TickSelect, TickFails
<1>7. ASSUME NEW u \in Operable, remove_schedule(u) \/ set_enabled(u)
      PROVE  SameRun(s) \/ Removed(s)
  <2>0. u \in Schedule /\ schedules \in [Schedule -> Row] /\ schedules[u] \in Row
        /\ fires \in [Schedule -> [Instant -> Nat]]
        BY ScheduleConstants DEF Shape, Tables
  <2>1. CASE remove_schedule(u)
    <3>1. /\ schedules' = [schedules EXCEPT ![u] = Gone(schedules[u])]
          /\ fires' = [fires EXCEPT ![u] = NeverFired] /\ anchor' = anchor
          BY <2>1 DEF remove_schedule
    <3>2. CASE u = s
          BY <2>0, <3>1, <3>2, GoneRow DEF Removed
    <3>3. CASE u # s
          BY <2>0, <3>1, <3>3 DEF SameRun
    <3> QED BY <3>2, <3>3
  <2>2. CASE set_enabled(u)
    <3> DEFINE E == ~schedules[u].enabled
    <3>1. /\ schedules' = [schedules EXCEPT ![u] = [schedules[u] EXCEPT !.enabled = E]]
          /\ fires' = fires /\ anchor' = anchor
          BY <2>0, <2>2 DEF set_enabled, Row
    <3> HIDE DEF E
    <3>2. CASE u = s
          BY <2>0, <3>1, <3>2 DEF SameRun, Row
    <3>3. CASE u # s
          BY <2>0, <3>1, <3>3 DEF SameRun
    <3> QED BY <3>2, <3>3
  <2> QED BY <1>7, <2>1, <2>2
<1>8. Untouched(s) => SameRun(s)
      BY DEF Untouched, SameRun
<1> QED BY <1>1, <1>2, <1>3, <1>4, <1>5, <1>6, <1>7, <1>8 DEF Next


-----------------------------------------------------------------------------

\* A schedule that was removed or paused before the tick commits enqueues
\* nothing: SELECT ... FOR UPDATE keeps operators and requests away from the
\* rows a tick has found due (schedule.rs).  No clock matters here.
THEOREM PausedSchedulesDoNotFire == Spec => DisabledNeverFires
<1>1. Shape /\ [Next]_vars =>
        [\A n \in Ticker : TickCommit(n) =>
            \A s \in tick[n].due : schedules[s].row /\ schedules[s].enabled]_vars
      BY DEF Shape, TickOK
<1> QED BY <1>1, ShapeInvariant, PTL DEF Spec, DisabledNeverFires

\* What is assumed of clocks, by one theorem each: those of the processes that
\* tick are not behind the database's; none is ahead of it.
TickersNotBehind == \A n \in Ticker : Skew[n] >= 0
NobodyAhead == \A n \in Ticker \cup Booter : Skew[n] <= 0

\* A schedule has fired only for instants before the one it waits for.
FiredBefore ==
    \A s \in Schedule, i \in Instant :
        /\ fires[s][i] <= 1
        /\ fires[s][i] > 0 => i < schedules[s].next_run_at

\* The instant a schedule fires for is new, and the next one is later if the
\* clock of the process has reached it.
LEMMA FiredBeforeNext ==
    ASSUME TickersNotBehind, Shape, FiredBefore, [Next]_vars
    PROVE  FiredBefore'
<1> SUFFICES ASSUME NEW s \in Schedule, NEW i \in Instant
             PROVE  /\ fires'[s][i] <= 1
                    /\ fires'[s][i] > 0 => i < schedules'[s].next_run_at
    BY DEF FiredBefore
<1>1. /\ fires[s] \in [Instant -> Nat] /\ fires[s][i] \in Nat /\ fires[s][i] <= 1
      /\ fires[s][i] > 0 => i < schedules[s].next_run_at
      BY DEF Shape, Tables, FiredBefore
<1>2. CASE SameRun(s)
      BY <1>1, <1>2 DEF SameRun
<1>3. CASE fires'[s] = NeverFired
      BY <1>3 DEF NeverFired
<1>4. ASSUME NEW n \in Ticker, FiredBy(s, n)
      PROVE  /\ fires'[s][i] <= 1
             /\ fires'[s][i] > 0 => i < schedules'[s].next_run_at
  <2> DEFINE d == schedules[s].next_run_at
             x == schedules'[s].next_run_at
  <2>1. schedules[s] \in Row /\ tick[n] \in Tick /\ TickOK(n) /\ now \in Int
        BY DEF Shape, Tables, Instant
  <2>2. d \in Int /\ tick[n].at \in Int /\ i \in Int
        BY <2>1 DEF Row, Tick, Instant
  <2>3. Clock(n) \in Int /\ Clock(n) >= now
        BY <2>1, ScheduleConstants DEF Clock, TickersNotBehind
  <2>4. x \in Int /\ x > Clock(n)
        BY <1>4, <2>3, NextIsLater DEF FiredBy
  <2>5. d <= tick[n].at /\ tick[n].at <= now
        BY <1>4, <2>1 DEF FiredBy, TickOK
  <2>6. fires'[s] = [fires[s] EXCEPT ![d] = @ + 1]
        BY <1>4 DEF FiredBy
  <2>7. d < x
    <3>1. \A a, b, c, e, f \in Int : a <= b /\ b <= c /\ e >= c /\ f > e => a < f
          OBVIOUS
    <3> HIDE DEF d, x
    <3> QED BY <2>1, <2>2, <2>3, <2>4, <2>5, <3>1
  <2> HIDE DEF d, x
  <2>8. CASE i = d
    <3>1. fires[s][i] = 0
          BY <1>1, <2>2, <2>8 DEF d
    <3>2. fires'[s][i] = 1
          BY <1>1, <2>6, <2>8, <3>1
    <3> QED BY <2>7, <2>8, <3>2 DEF x
  <2>9. CASE i # d
    <3>1. fires'[s][i] = fires[s][i]
          BY <1>1, <2>6, <2>9
    <3>2. fires[s][i] > 0 => i < d
          BY <1>1 DEF d
    <3> QED BY <1>1, <2>2, <2>4, <2>7, <3>1, <3>2 DEF x
  <2> QED BY <2>8, <2>9
<1> QED BY <1>2, <1>3, <1>4, RowMoves DEF Removed, Declared

\* A schedule fires at most once for one instant of its trigger, however many
\* processes believe they lead, as long as no clock that computes the next run
\* is behind the database's, which decides what is due (schedule.rs:319-322).
\* A process whose clock is behind computes the same instant again.
THEOREM FiresOncePerInstant ==
    ASSUME TickersNotBehind
    PROVE  Spec => []OncePerInstant
<1>1. Init => FiredBefore
      BY DEF Init, FiredBefore, NeverFired
<1>2. Shape /\ FiredBefore /\ [Next]_vars => FiredBefore'
      BY FiredBeforeNext
<1>3. FiredBefore => OncePerInstant
      BY DEF FiredBefore, OncePerInstant
<1> QED BY <1>1, <1>2, <1>3, ShapeInvariant, PTL DEF Spec

\* What a request has computed is no later than it would be now.
Computed ==
    \A n \in Booter : request[n].pc # "idle" =>
        \A s \in Names(request[n]) : request[n].next[s] <= NextRun(request[n].want[s], now)

\* A request that waits computes nothing again; time only makes what it has
\* computed earlier.
LEMMA ComputedNext ==
    ASSUME NobodyAhead, Shape, Computed, [Next]_vars
    PROVE  Computed'
<1>0. now \in Int /\ request \in [Booter -> Request]
      BY DEF Shape, Tables, Instant
<1>1. now' \in Int /\ now' >= now
  <2>1. CASE Elapse
        BY <1>0, <2>1 DEF Elapse
  <2>2. CASE ~Elapse
    <3>1. now' = now
      <4>1. ASSUME NEW n \in Booter, Boot(n) PROVE now' = now
            BY <4>1, BootSteps DEF Prepare, SyncUpserts, SyncDeletes, SyncFails, Commits, Commit
      <4>2. ASSUME NEW n \in Ticker, scheduler_loop(n) PROVE now' = now
            BY <4>2 DEF scheduler_loop, TickBegin, TickLock, TickSkipped, TickSelect,
                        TickCommit, TickFails
      <4>3. ASSUME NEW s \in Operable, remove_schedule(s) \/ set_enabled(s) PROVE now' = now
            BY <4>3 DEF remove_schedule, set_enabled
      <4> QED BY <2>2, <4>1, <4>2, <4>3 DEF Next, vars
    <3> QED BY <1>0, <3>1
  <2> QED BY <2>1, <2>2
<1>2. ASSUME NEW n \in Booter, request[n].pc # "idle",
             request'[n].want = request[n].want, request'[n].next = request[n].next
      PROVE  \A s \in Names(request'[n]) : request'[n].next[s] <= NextRun(request'[n].want[s], now')
  <2> SUFFICES ASSUME NEW s \in Names(request[n])
               PROVE  request[n].next[s] <= NextRun(request[n].want[s], now')
      BY <1>2 DEF Names
  <2>1. request[n].want[s] \in Trigger /\ request[n].next[s] \in Int
        BY <1>2 DEF Shape, RequestOK
  <2>2. request[n].next[s] <= NextRun(request[n].want[s], now)
        BY <1>2 DEF Computed
  <2>3. NextRun(request[n].want[s], now) <= NextRun(request[n].want[s], now')
        BY <1>0, <1>1, <2>1, NextIsMonotone
  <2>4. NextRun(request[n].want[s], now) \in Int /\ NextRun(request[n].want[s], now') \in Int
        BY <1>0, <1>1, <2>1, NextIsLater
  <2> QED BY <2>1, <2>2, <2>3, <2>4
<1>3. ASSUME NEW n \in Booter, Boot(n), request'[n].pc # "idle"
      PROVE  \A s \in Names(request'[n]) : request'[n].next[s] <= NextRun(request'[n].want[s], now')
  <2>1. CASE SyncUpserts(n) \/ SyncDeletes(n)
    <3>1. request[n] \in Request /\ request[n].pc # "idle"
          BY <1>0, <2>1 DEF SyncUpserts, SyncDeletes
    <3>2. request'[n].want = request[n].want /\ request'[n].next = request[n].next
          BY <1>0, <2>1, <3>1 DEF SyncUpserts, SyncDeletes, Request
    <3> QED BY <1>2, <3>1, <3>2
  <2>2. CASE SyncFails(n) \/ Commits(n)
        BY <1>0, <1>3, <2>2 DEF SyncFails, Commits, Commit, NoRequest
  <2>3. ASSUME NEW D \in SUBSET Schedule, NEW T \in SUBSET Trigger, NEW pc \in {"upsert", "sync"},
               Prepare(n, D, T, pc)
        PROVE  \A s \in Names(request'[n]) : request'[n].next[s] <= NextRun(request'[n].want[s], now')
    <3>1. PICK want \in [D -> T] :
              request' = [request EXCEPT ![n] =
                  [pc |-> pc, want |-> want, pruned |-> {},
                   next |-> [s \in D |-> NextRun(want[s], Clock(n))]]]
          BY <2>3 DEF Prepare
    <3> DEFINE N == [s \in D |-> NextRun(want[s], Clock(n))]
    <3>2. request'[n].want = want /\ request'[n].next = N /\ now' = now
          BY <1>0, <2>3, <3>1 DEF Prepare
    <3>3. Names(request'[n]) = D
          BY <3>2 DEF Names
    <3>4. Clock(n) \in Int /\ Clock(n) <= now
          BY <1>0, ScheduleConstants DEF Clock, NobodyAhead
    <3>5. \A s \in D : want[s] \in Trigger /\ NextRun(want[s], Clock(n)) <= NextRun(want[s], now)
          BY <1>0, <3>4, NextIsMonotone
    <3> QED BY <3>2, <3>3, <3>5
  <2> QED BY <1>3, <2>1, <2>2, <2>3, BootSteps
<1>4. ASSUME NEW n \in Booter, ~Boot(n)
      PROVE  request'[n] = request[n]
  <2>1. ASSUME NEW m \in Booter, Boot(m)
        PROVE  request'[n] = request[n]
    <3>1. m # n
          BY <1>4, <2>1
    <3> QED BY <1>0, <2>1, <3>1, BootSteps
            DEF Prepare, SyncUpserts, SyncDeletes, SyncFails, Commits, Commit
  <2>2. ASSUME NEW m \in Ticker, scheduler_loop(m) PROVE request' = request
        BY <2>2 DEF scheduler_loop, TickBegin, TickLock, TickSkipped, TickSelect,
                    TickCommit, TickFails
  <2>3. ASSUME NEW s \in Operable, remove_schedule(s) \/ set_enabled(s) PROVE request' = request
        BY <2>3 DEF remove_schedule, set_enabled
  <2> QED BY <2>1, <2>2, <2>3 DEF Next, Elapse, vars
<1> QED BY <1>2, <1>3, <1>4 DEF Computed

\* No step postpones a run.
LEMMA PostponeNext ==
    ASSUME NobodyAhead, Shape, Computed, RedeployNeverPostpones, [Next]_vars
    PROVE  RedeployNeverPostpones'
<1> SUFFICES ASSUME NEW s \in Schedule, schedules'[s].row
             PROVE  schedules'[s].next_run_at <= NextRun(schedules'[s].trigger, anchor'[s])
    BY DEF RedeployNeverPostpones
<1>1. CASE SameRun(s)
      BY <1>1 DEF SameRun, RedeployNeverPostpones
<1>2. CASE Removed(s)
      BY <1>2 DEF Removed
<1>3. ASSUME NEW n \in Booter, request[n].pc # "idle", Declared(s, request[n])
      PROVE  schedules'[s].next_run_at <= NextRun(schedules'[s].trigger, anchor'[s])
      BY <1>3 DEF Declared, Computed
<1>4. ASSUME NEW n \in Ticker, FiredBy(s, n)
      PROVE  schedules'[s].next_run_at <= NextRun(schedules'[s].trigger, anchor'[s])
  <2>1. now \in Int /\ Clock(n) \in Int /\ Clock(n) <= now
        BY ScheduleConstants DEF Shape, Tables, Instant, Clock, NobodyAhead
  <2>2. schedules[s].trigger \in Trigger
        BY <1>4 DEF FiredBy
  <2>3. NextRun(schedules[s].trigger, Clock(n)) <= NextRun(schedules[s].trigger, now)
        BY <2>1, <2>2, NextIsMonotone
  <2> QED BY <1>4, <2>3 DEF FiredBy
<1> QED BY <1>1, <1>2, <1>3, <1>4, RowMoves

\* The table, its locks and the transactions are well formed; and declaring a
\* schedule again, on every boot of every process, never postpones its next
\* run, if no clock is ahead of the database's (schedule.rs:89-110).
THEOREM DeclaringNeverPostpones ==
    ASSUME NobodyAhead
    PROVE  Spec => []ScheduleInv
<1>1. Init => Computed /\ RedeployNeverPostpones
      BY DEF Init, Computed, RedeployNeverPostpones, NoRequest, NoRow
<1>2. Shape /\ Computed /\ [Next]_vars => Computed'
      BY ComputedNext
<1>3. Shape /\ Computed /\ RedeployNeverPostpones /\ [Next]_vars => RedeployNeverPostpones'
      BY PostponeNext
<1>4. Shape => TypeOK
  <2> SUFFICES ASSUME Shape
               PROVE  TypeOK
      OBVIOUS
  <2>1. ASSUME NEW n \in Ticker
        PROVE  /\ tick[n].pc \in {"idle", "begun", "locked", "selected"}
               /\ tick[n].at \in Instant /\ tick[n].due \subseteq Schedule
    <3>1. tick[n] \in Tick
          BY DEF Shape
    <3> QED BY <3>1 DEF Tick
  <2>2. ASSUME NEW s \in Schedule
        PROVE  \/ lock[s] = Free
               \/ \E n \in Ticker : lock[s] = <<n, "tick">> /\ s \in tick[n].due
               \/ \E n \in Booter : /\ lock[s] = <<n, "boot">>
                                    /\ s \in Names(request[n]) \cup request[n].pruned
    <3>1. LockOK(s)
          BY DEF Shape
    <3> QED BY <3>1 DEF LockOK
  <2> QED BY <2>1, <2>2 DEF Shape, Tables, TypeOK
<1> QED BY <1>1, <1>2, <1>3, <1>4, ShapeInvariant, PTL DEF Spec, ScheduleInv
=============================================================================
