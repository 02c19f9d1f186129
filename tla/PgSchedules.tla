---------------------------- MODULE PgSchedules ----------------------------
(***************************************************************************)
(* Recurring jobs of the Postgres backend: the rows of eddyq_schedules,    *)
(* the scheduler tick that enqueues what is due, and the upserts, syncs,   *)
(* removals and pauses that run beside it.                                 *)
(*                                                                         *)
(* Time counts in units; next_run_at is compared with the clock of the     *)
(* database, and computed from the clock of a process.  A process ticks if *)
(* it believes it leads, and several may (module PgLeader): nothing here   *)
(* assumes there is one.                                                   *)
(***************************************************************************)
EXTENDS Integers, FiniteSets

CONSTANTS
    Ticker,       \* processes whose scheduler loop ticks
    Booter,       \* processes that declare schedules
    Schedule,     \* names
    Trigger,      \* cron_expr or interval_ms: what a declaration may ask for
    NoTrigger,
    Lists,        \* sets of names a sync may declare
    Single,       \* names that are upserted one by one
    Operable,     \* names an operator removes, pauses and resumes
    Skew,         \* per process: its clock less the clock of the database
    Free,         \* nobody holds the lock
    MaxTime       \* bound: the last instant looked at

Txn == (Ticker \X {"tick"}) \cup (Booter \X {"boot"})

ASSUME ScheduleConstants ==
    /\ Trigger \subseteq [kind : {"cron", "every"}, units : Nat \ {0}, until : Nat]
    /\ NoTrigger \notin Trigger
    /\ Lists \subseteq SUBSET Schedule /\ Single \subseteq Schedule
    /\ Operable \subseteq Schedule
    /\ Skew \in [Ticker \cup Booter -> Int]
    /\ Free \notin Txn
    /\ MaxTime \in Nat \ {0}

VARIABLES
    now,          \* the database's clock
    schedules,    \* eddyq_schedules
    lock,         \* per name: who holds the row, or the key being inserted
    tick,         \* per ticker: its scheduler transaction
    request,      \* per booter: the upsert or the sync it is making
    fires,        \* history: jobs enqueued per schedule and instant, since the
                  \* schedule got its trigger
    anchor        \* history: when the schedule got its trigger or last fired

vars == <<now, schedules, lock, tick, request, fires, anchor>>

Instant == 0..MaxTime

Row == [row : BOOLEAN, trigger : Trigger \cup {NoTrigger}, enabled : BOOLEAN,
        next_run_at : Int]
NoRow == [row |-> FALSE, trigger |-> NoTrigger, enabled |-> FALSE,
          next_run_at |-> 0]
Gone(r) == [r EXCEPT !.row = FALSE, !.enabled = FALSE, !.next_run_at = 0]
NoTick == [pc |-> "idle", at |-> 0, due |-> {}]
NoRequest == [pc |-> "idle", want |-> <<>>, next |-> <<>>, pruned |-> {}]
NeverFired == [i \in Instant |-> 0]

Init ==
    /\ now = 1
    /\ schedules = [s \in Schedule |-> NoRow]
    /\ lock = [s \in Schedule |-> Free]
    /\ tick = [n \in Ticker |-> NoTick]
    /\ request = [n \in Booter |-> NoRequest]
    /\ fires = [s \in Schedule |-> NeverFired]
    /\ anchor = [s \in Schedule |-> 0]

Elapse ==
    /\ now < MaxTime
    /\ now' = now + 1
    /\ UNCHANGED <<schedules, lock, tick, request, fires, anchor>>

-----------------------------------------------------------------------------
(* Triggers.                                                               *)

Clock(n) == now + Skew[n]

\* Mutant: the instant itself counts as upcoming.
NextRun_Inclusive(t, c) ==
    IF t.kind = "every" THEN c + t.units
    ELSE ((c + t.units - 1) \div t.units) * t.units

\* The next instant of a trigger strictly after the clock c: the next multiple
\* for a cron expression, one interval later for an interval.
NextRun(t, c) ==
    IF t.kind = "every" THEN c + t.units ELSE (c \div t.units + 1) * t.units

\* A cron expression that names a year has a last instant.
HasNext(t, c) == t.kind = "every" \/ NextRun(t, c) <= t.until

-----------------------------------------------------------------------------
(* Declaring schedules.                                                    *)

Names(r) == DOMAIN r.want

\* Triggers are validated and the first runs computed before any statement.
Prepare(n, D, T, pc) ==
    /\ request[n].pc = "idle"
    /\ \E want \in [D -> T] :
          /\ \A s \in D : HasNext(want[s], Clock(n))
          /\ request' = [request EXCEPT ![n] =
                 [pc |-> pc, want |-> want, pruned |-> {},
                  next |-> [s \in D |-> NextRun(want[s], Clock(n))]]]
    /\ UNCHANGED <<now, schedules, lock, tick, fires, anchor>>

PrepareUpsert(n) == \E s \in Single : Prepare(n, {s}, Trigger, "upsert")
PrepareSync(n) ==
    \E D \in Lists : Prepare(n, D, {t \in Trigger : t.kind = "cron"}, "sync")

\* Is the row there with this trigger already?
Unchanged(s, t) == schedules[s].row /\ schedules[s].trigger = t

\* Mutant: every upsert starts the schedule afresh.
Upserted_Afresh(r) ==
    [s \in Schedule |->
        IF s \notin Names(r) THEN schedules[s]
        ELSE [row |-> TRUE, trigger |-> r.want[s], next_run_at |-> r.next[s],
              enabled |-> schedules[s].row => schedules[s].enabled]]

\* The upserts of a request, and what they mean for the history.  The next run
\* of a schedule whose trigger is the same is kept, and so is its pause.
Upserted(r) ==
    [s \in Schedule |->
        IF s \notin Names(r) \/ Unchanged(s, r.want[s]) THEN schedules[s]
        ELSE [row |-> TRUE, trigger |-> r.want[s], next_run_at |-> r.next[s],
              enabled |-> schedules[s].row => schedules[s].enabled]]

Renewed(r) == {s \in Names(r) : ~Unchanged(s, r.want[s])}

\* Commit a request: upserts, then the deletes of a sync.
Commit(n) ==
    LET r == request[n] IN
    /\ schedules' = [s \in Schedule |->
                        IF s \in r.pruned THEN Gone(schedules[s]) ELSE Upserted(r)[s]]
    /\ fires' = [s \in Schedule |-> IF s \in Renewed(r) \cup r.pruned
                                    THEN NeverFired ELSE fires[s]]
    /\ anchor' = [s \in Schedule |-> IF s \in Renewed(r) THEN now ELSE anchor[s]]
    /\ request' = [request EXCEPT ![n] = NoRequest]
    /\ lock' = [s \in Schedule |-> IF lock[s] = <<n, "boot">> THEN Free ELSE lock[s]]
    /\ UNCHANGED <<now, tick>>

\* A single upsert is one statement; it waits for the row.
upsert_schedule_raw(n) ==
    /\ request[n].pc = "upsert"
    /\ \A s \in Names(request[n]) : lock[s] = Free
    /\ Commit(n)

\* A sync is one transaction: its upserts,
SyncUpserts(n) ==
    /\ request[n].pc = "sync"
    /\ \A s \in Names(request[n]) : lock[s] = Free
    /\ lock' = [s \in Schedule |-> IF s \in Names(request[n]) THEN <<n, "boot">>
                                   ELSE lock[s]]
    /\ request' = [request EXCEPT ![n].pc = "upserted"]
    /\ UNCHANGED <<now, schedules, tick, fires, anchor>>

\* the DELETE of every row it can see and did not declare,
SyncDeletes(n) ==
    LET gone == {s \in Schedule \ Names(request[n]) : schedules[s].row} IN
    /\ request[n].pc = "upserted"
    /\ \A s \in gone : lock[s] = Free
    /\ lock' = [s \in Schedule |-> IF s \in gone THEN <<n, "boot">> ELSE lock[s]]
    /\ request' = [request EXCEPT ![n].pc = "pruned", ![n].pruned = gone]
    /\ UNCHANGED <<now, schedules, tick, fires, anchor>>

\* and the commit.
sync_schedules(n) == request[n].pc = "pruned" /\ Commit(n)

\* A database error, a deadlock between two syncs.
SyncFails(n) ==
    /\ request[n].pc # "idle"
    /\ request' = [request EXCEPT ![n] = NoRequest]
    /\ lock' = [s \in Schedule |-> IF lock[s] = <<n, "boot">> THEN Free ELSE lock[s]]
    /\ UNCHANGED <<now, schedules, tick, fires, anchor>>

remove_schedule(s) ==
    /\ schedules[s].row /\ lock[s] = Free
    /\ schedules' = [schedules EXCEPT ![s] = Gone(@)]
    /\ fires' = [fires EXCEPT ![s] = NeverFired]
    /\ UNCHANGED <<now, lock, tick, request, anchor>>

set_enabled(s) ==
    /\ schedules[s].row /\ lock[s] = Free
    /\ schedules' = [schedules EXCEPT ![s].enabled = ~@]
    /\ UNCHANGED <<now, lock, tick, request, fires, anchor>>

-----------------------------------------------------------------------------
(* The scheduler tick.                                                     *)

DueAt(i) == {s \in Schedule : /\ schedules[s].row /\ schedules[s].enabled
                              /\ schedules[s].next_run_at <= i}

\* BEGIN: NOW() is the time the transaction starts, for all of it.
TickBegin(n) ==
    /\ tick[n].pc = "idle"
    /\ tick' = [tick EXCEPT ![n] = [pc |-> "begun", at |-> now, due |-> {}]]
    /\ UNCHANGED <<now, schedules, lock, request, fires, anchor>>

\* Mutant: a tick that has only begun makes others back off.
LockHeld_Begun(n) == \E m \in Ticker \ {n} : tick[m].pc # "idle"

\* pg_try_advisory_xact_lock: held until the transaction ends.
LockHeld(n) == \E m \in Ticker \ {n} : tick[m].pc \in {"locked", "selected"}

TickLock(n) ==
    /\ tick[n].pc = "begun" /\ ~LockHeld(n)
    /\ tick' = [tick EXCEPT ![n].pc = "locked"]
    /\ UNCHANGED <<now, schedules, lock, request, fires, anchor>>

TickSkipped(n) ==
    /\ tick[n].pc = "begun" /\ LockHeld(n)
    /\ tick' = [tick EXCEPT ![n] = NoTick]
    /\ UNCHANGED <<now, schedules, lock, request, fires, anchor>>

\* Mutant: the due rows are read without FOR UPDATE.
TickSelect_Unlocked(n) ==
    /\ tick[n].pc = "locked"
    /\ tick' = [tick EXCEPT ![n].pc = "selected", ![n].due = DueAt(tick[n].at)]
    /\ UNCHANGED <<now, schedules, lock, request, fires, anchor>>

\* SELECT ... FOR UPDATE of the due rows.
TickSelect(n) ==
    LET due == DueAt(tick[n].at) IN
    /\ tick[n].pc = "locked"
    /\ \A s \in due : lock[s] = Free
    /\ tick' = [tick EXCEPT ![n] =
           IF due = {} THEN NoTick
           ELSE [@ EXCEPT !.pc = "selected", !.due = due]]
    /\ lock' = [s \in Schedule |-> IF s \in due THEN <<n, "tick">> ELSE lock[s]]
    /\ UNCHANGED <<now, schedules, request, fires, anchor>>

\* One job per due schedule, however many instants were missed, and the next
\* run from the process's clock.  A trigger without a next instant is an error
\* that fails the tick for all of them.
TickCommit(n) ==
    LET due == tick[n].due IN
    /\ tick[n].pc = "selected"
    /\ \A s \in due : HasNext(schedules[s].trigger, Clock(n))
    /\ schedules' = [s \in Schedule |->
           IF s \in due
           THEN [schedules[s] EXCEPT
                    !.next_run_at = NextRun(schedules[s].trigger, Clock(n))]
           ELSE schedules[s]]
    /\ fires' = [s \in Schedule |->
           IF s \in due
           THEN [fires[s] EXCEPT ![schedules[s].next_run_at] = @ + 1]
           ELSE fires[s]]
    /\ anchor' = [s \in Schedule |-> IF s \in due THEN now ELSE anchor[s]]
    /\ tick' = [tick EXCEPT ![n] = NoTick]
    /\ lock' = [s \in Schedule |-> IF lock[s] = <<n, "tick">> THEN Free ELSE lock[s]]
    /\ UNCHANGED <<now, request>>

\* The tick fails and is rolled back; the loop logs it and waits for the next.
TickFails(n) ==
    /\ tick[n].pc # "idle"
    /\ tick' = [tick EXCEPT ![n] = NoTick]
    /\ lock' = [s \in Schedule |-> IF lock[s] = <<n, "tick">> THEN Free ELSE lock[s]]
    /\ UNCHANGED <<now, schedules, request, fires, anchor>>

-----------------------------------------------------------------------------

Boot(n) ==
    \/ PrepareUpsert(n) \/ upsert_schedule_raw(n)
    \/ PrepareSync(n) \/ SyncUpserts(n) \/ SyncDeletes(n) \/ sync_schedules(n)
    \/ SyncFails(n)

scheduler_loop(n) ==
    \/ TickBegin(n) \/ TickSkipped(n) \/ TickLock(n) \/ TickSelect(n)
    \/ TickCommit(n) \/ TickFails(n)

Next ==
    \/ Elapse
    \/ \E n \in Booter : Boot(n)
    \/ \E s \in Operable : remove_schedule(s) \/ set_enabled(s)
    \/ \E n \in Ticker : scheduler_loop(n)

Spec == Init /\ [][Next]_vars

\* A tick that can not commit: one of its schedules has no next instant.
Poisoned(n) == \E s \in tick[n].due : ~HasNext(schedules[s].trigger, Clock(n))

\* Ticks keep coming and end, a tick that waits for rows gets them, requests
\* end, and from some time on the database fails no tick by itself: a tick
\* ends early for a poisoned schedule, the lock, or because nothing is due.
Fairness ==
    /\ \A n \in Ticker :
          /\ WF_vars(TickBegin(n)) /\ WF_vars(TickLock(n) \/ TickSkipped(n))
          /\ SF_vars(TickSelect(n)) /\ WF_vars(TickCommit(n))
          /\ WF_vars(Poisoned(n) /\ TickFails(n))
    /\ \A n \in Booter : WF_vars(request[n].pc # "idle" /\ Boot(n))
    /\ <>[][\A n \in Ticker : TickFails(n) => \/ Poisoned(n) \/ TickSkipped(n)
                                              \/ TickSelect(n)]_vars

FairSpec == Spec /\ Fairness

-----------------------------------------------------------------------------

\* Rows, transactions and histories are well formed, and every lock has a
\* transaction that will give it back.
TypeOK ==
    /\ now \in Instant
    /\ schedules \in [Schedule -> Row]
    /\ \A s \in Schedule :
          \/ lock[s] = Free
          \/ \E n \in Ticker : lock[s] = <<n, "tick">> /\ s \in tick[n].due
          \/ \E n \in Booter : /\ lock[s] = <<n, "boot">>
                               /\ s \in Names(request[n]) \cup request[n].pruned
    /\ \A n \in Ticker : /\ tick[n].pc \in {"idle", "begun", "locked", "selected"}
                         /\ tick[n].at \in Instant
                         /\ tick[n].due \subseteq Schedule
    /\ fires \in [Schedule -> [Instant -> Nat]]
    /\ anchor \in [Schedule -> Instant]

\* A schedule fires at most once for one instant of its trigger, whatever
\* ticks of would-be leaders, redeploys and failures overlap
\* (schedule.rs:319-322).
OncePerInstant == \A s \in Schedule, i \in Instant : fires[s][i] <= 1

\* Declaring a schedule again, on every boot of every process, never postpones
\* it: its next run is no later than its trigger says, counted from when it
\* got that trigger or last fired (schedule.rs:89-93).
RedeployNeverPostpones ==
    \A s \in Schedule : schedules[s].row =>
        schedules[s].next_run_at <= NextRun(schedules[s].trigger, anchor[s])

\* The table, its locks and the transactions under way are well formed, and no
\* declaration postpones a run (schedule.rs:89-110).
ScheduleInv == TypeOK /\ RedeployNeverPostpones

\* A schedule that was removed or paused before the tick commits enqueues
\* nothing: the tick holds the rows it acts on.
DisabledNeverFires ==
    [][\A n \in Ticker : TickCommit(n) =>
          \A s \in tick[n].due : schedules[s].row /\ schedules[s].enabled]_vars

\* Every due schedule is fired, unless it is paused or removed first.
DueFires == \A s \in Schedule : s \in DueAt(now) ~> s \notin DueAt(now)

\* After a sync the table holds what was declared and nothing else
\* (schedule.rs:216-218).
SyncIsAuthoritative ==
    [][\A n \in Booter : sync_schedules(n) =>
          {s \in Schedule : schedules'[s].row} = Names(request[n])]_vars
=============================================================================
