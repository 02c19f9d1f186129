--------------------------- MODULE RedisSchedules ---------------------------
(***************************************************************************)
(* Recurring jobs of the Redis backend: the hash of schedules, the sorted  *)
(* set that says when each is due, the scheduler tick, and the calls that  *)
(* declare, remove, pause and resume schedules beside it.                  *)
(*                                                                         *)
(* On Postgres a tick or a sync is one transaction (module PgSchedules).   *)
(* Here each is a series of FCALLs, atomic one by one, with the next run   *)
(* computed in the process before the call that writes it; anything may    *)
(* happen in between, and nothing is rolled back.                          *)
(***************************************************************************)
EXTENDS Integers, FiniteSets

CONSTANTS
    Ticker,       \* processes whose scheduler loop ticks
    Booter,       \* processes that declare, remove, pause and resume
    Schedule,     \* names
    Trigger,      \* cron expressions and intervals
    NoTrigger,
    Lists,        \* sets of names a sync may declare
    Single,       \* names that are upserted one by one
    Operable,     \* names that are removed, paused and resumed
    MaxTime       \* bound: the last instant looked at

ASSUME ScheduleConstants ==
    /\ Trigger \subseteq [kind : {"cron", "every"}, units : Nat \ {0}, until : Nat]
    /\ NoTrigger \notin Trigger
    /\ Lists \subseteq SUBSET Schedule /\ Single \subseteq Schedule
    /\ Operable \subseteq Schedule
    /\ MaxTime \in Nat \ {0}

VARIABLES
    now,          \* the time
    entries,      \* the hash :schedules
    score,        \* the sorted set :schedules:next, NotIndexed if not a member
    tick,         \* per ticker: its tick
    request,      \* per booter: the call it is making
    spent         \* history: which ticker fired a schedule for which score,
                  \* since the sorted set was last given that score

vars == <<now, entries, score, tick, request, spent>>

NotIndexed == 0  \* scores are instants after the start

Entry == [row : BOOLEAN, trigger : Trigger \cup {NoTrigger}, enabled : BOOLEAN]
NoEntry == [row |-> FALSE, trigger |-> NoTrigger, enabled |-> FALSE]

\* What due_list returned for a name, at the score it had.
Listed == [name : Schedule, trigger : Trigger, at : Nat]

NoTick == [pc |-> "idle", at |-> 0, due |-> {}, head |-> {}, next |-> 0]
NoRequest == [pc |-> "idle", todo |-> {}, want |-> <<>>, next |-> <<>>]

Init ==
    /\ now = 1
    /\ entries = [s \in Schedule |-> NoEntry]
    /\ score = [s \in Schedule |-> NotIndexed]
    /\ tick = [n \in Ticker |-> NoTick]
    /\ request = [n \in Booter |-> NoRequest]
    /\ spent = [s \in Schedule |-> {}]

Elapse ==
    /\ now < MaxTime
    /\ now' = now + 1
    /\ UNCHANGED <<entries, score, tick, request, spent>>

\* ZADD of the name s, with history.
Arm(s, next) ==
    /\ score' = [score EXCEPT ![s] = next]
    /\ spent' = [spent EXCEPT ![s] = {f \in @ : f[2] # next}]

Unarm(s) ==
    /\ score' = [score EXCEPT ![s] = NotIndexed]
    /\ UNCHANGED spent

-----------------------------------------------------------------------------
(* Triggers.                                                               *)

\* next_run_ms_or_err: strictly after the clock c.
NextCron(t, c) == (c \div t.units + 1) * t.units

\* A cron expression that names a year has a last instant.
HasNext(t, c) == t.kind = "every" \/ NextCron(t, c) <= t.until

NextRun(t, c) == IF t.kind = "every" THEN c + t.units ELSE NextCron(t, c)

-----------------------------------------------------------------------------
(* Declaring schedules.                                                    *)

\* The next runs of all declared schedules are computed before the first call.
Prepare(n, D, T, pc) ==
    /\ request[n].pc = "idle"
    /\ \E want \in [D -> T] :
          /\ \A s \in D : HasNext(want[s], now)
          /\ request' = [request EXCEPT ![n] =
                 [pc |-> pc, todo |-> D, want |-> want,
                  next |-> [s \in D |-> NextRun(want[s], now)]]]
    /\ UNCHANGED <<now, entries, score, tick, spent>>

PrepareUpsert(n) == \E s \in Single : Prepare(n, {s}, Trigger, "upsert")
PrepareSync(n) ==
    \E D \in Lists : Prepare(n, D, {t \in Trigger : t.kind = "cron"}, "sync")

\* The entry is written afresh: enabled, and due at next, whatever was there.
fn_schedule_upsert(s, t, next) ==
    /\ entries' = [entries EXCEPT ![s] = [row |-> TRUE, trigger |-> t,
                                          enabled |-> TRUE]]
    /\ Arm(s, next)

\* One call per declared schedule.  A sync goes on to its diff.
schedule_upsert_call(n) ==
    /\ request[n].pc \in {"upsert", "sync"}
    /\ \E s \in request[n].todo :
          /\ fn_schedule_upsert(s, request[n].want[s], request[n].next[s])
          /\ request' = [request EXCEPT ![n] =
                 IF @.pc = "upsert" THEN NoRequest
                 ELSE [request[n] EXCEPT !.todo = @ \ {s}]]
    /\ UNCHANGED <<now, tick>>

\* The names not declared, as of now; they are removed one by one.
fn_schedule_sync_diff(n) ==
    /\ request[n].pc = "sync" /\ request[n].todo = {}
    /\ request' = [request EXCEPT
           ![n].pc = "prune",
           ![n].todo = {s \in Schedule : entries[s].row} \ DOMAIN request[n].want]
    /\ UNCHANGED <<now, entries, score, tick, spent>>

fn_schedule_remove(s) ==
    /\ entries' = [entries EXCEPT ![s] = NoEntry]
    /\ Unarm(s)

sync_schedules_remove(n) ==
    /\ request[n].pc = "prune"
    /\ \E s \in request[n].todo :
          /\ fn_schedule_remove(s)
          /\ request' = [request EXCEPT ![n].todo = @ \ {s}]
    /\ UNCHANGED <<now, tick>>

SyncEnds(n) ==
    /\ request[n].pc = "prune" /\ request[n].todo = {}
    /\ request' = [request EXCEPT ![n] = NoRequest]
    /\ UNCHANGED <<now, entries, score, tick, spent>>

\* A call fails; what was written stays.
RequestFails(n) ==
    /\ request[n].pc # "idle"
    /\ request' = [request EXCEPT ![n] = NoRequest]
    /\ UNCHANGED <<now, entries, score, tick, spent>>

remove_schedule(s) ==
    /\ entries[s].row
    /\ fn_schedule_remove(s)
    /\ UNCHANGED <<now, tick, request>>

\* set_schedule_enabled(false)
pause_schedule(s) ==
    /\ entries[s].row
    /\ entries' = [entries EXCEPT ![s].enabled = FALSE]
    /\ Unarm(s)
    /\ UNCHANGED <<now, tick, request>>

\* set_schedule_enabled(true): look the cron expression up first.  There is
\* none for an interval, which is reported as "no such schedule".
lookup_cron(n) ==
    /\ request[n].pc = "idle"
    /\ \E s \in Operable :
          LET t == entries[s].trigger IN
          /\ entries[s].row /\ t.kind = "cron" /\ HasNext(t, now)
          /\ request' = [request EXCEPT ![n] =
                 [pc |-> "resume", todo |-> {s}, want |-> <<>>,
                  next |-> [x \in {s} |-> NextRun(t, now)]]]
    /\ UNCHANGED <<now, entries, score, tick, spent>>

fn_schedule_set_enabled(n) ==
    /\ request[n].pc = "resume"
    /\ \E s \in request[n].todo :
          /\ entries[s].row
          /\ entries' = [entries EXCEPT ![s].enabled = TRUE]
          /\ Arm(s, request[n].next[s])
    /\ request' = [request EXCEPT ![n] = NoRequest]
    /\ UNCHANGED <<now, tick>>

-----------------------------------------------------------------------------
(* The scheduler tick.                                                     *)

Indexed(i) == {s \in Schedule : score[s] # NotIndexed /\ score[s] <= i}

\* The tick's time is read once, before the promotion of delayed jobs.
TickBegin(n) ==
    /\ tick[n].pc = "idle"
    /\ tick' = [tick EXCEPT ![n] = [NoTick EXCEPT !.pc = "begun", !.at = now]]
    /\ UNCHANGED <<now, entries, score, request, spent>>

\* By score alone: the enabled flag is not looked at.
fn_schedule_due_list(n) ==
    /\ tick[n].pc = "begun"
    /\ tick' = [tick EXCEPT ![n].pc = "listed",
           ![n].due = {[name |-> s, trigger |-> entries[s].trigger, at |-> score[s]] :
                          s \in {x \in Indexed(tick[n].at) : entries[x].row}}]
    /\ UNCHANGED <<now, entries, score, request, spent>>

\* The next run of the first schedule listed, from the trigger as listed: of a
\* cron expression by the clock, of an interval by the time of the tick.
Expand(n) ==
    /\ tick[n].pc = "listed"
    /\ \E e \in tick[n].due :
          /\ \A f \in tick[n].due : e.at <= f.at
          /\ HasNext(e.trigger, now)
          /\ tick' = [tick EXCEPT ![n] =
                 [tick[n] EXCEPT !.pc = "firing", !.due = @ \ {e}, !.head = {e},
                                 !.next = NextRun(e.trigger, IF e.trigger.kind = "every"
                                                             THEN tick[n].at ELSE now)]]
    /\ UNCHANGED <<now, entries, score, request, spent>>

\* Mutants: the job is enqueued and the schedule not advanced; a schedule
\* removed meanwhile is put back into the sorted set; the schedule is put back
\* at the time of the tick, the argument before the next run.
fn_schedule_fire_NoAdvance(n, e) ==
    /\ spent' = [spent EXCEPT ![e.name] = @ \cup {<<n, e.at>>}]
    /\ UNCHANGED score
fn_schedule_fire_NoCheck(n, e) ==
    /\ score' = [score EXCEPT ![e.name] = tick[n].next]
    /\ spent' = [spent EXCEPT ![e.name] =
           {f \in @ \cup {<<n, e.at>>} : f[2] # tick[n].next}]

fn_schedule_fire_AtNow(n, e) ==
    IF entries[e.name].row
    THEN /\ score' = [score EXCEPT ![e.name] = tick[n].at]
         /\ spent' = [spent EXCEPT ![e.name] =
                {f \in @ \cup {<<n, e.at>>} : f[2] # tick[n].at}]
    ELSE UNCHANGED <<score, spent>>

\* Enqueue and advance, unless the schedule was removed.  Whether it is still
\* enabled, or still due, is not looked at.
fn_schedule_fire(n, e) ==
    IF entries[e.name].row
    THEN /\ score' = [score EXCEPT ![e.name] = tick[n].next]
         /\ spent' = [spent EXCEPT ![e.name] =
                {f \in @ \cup {<<n, e.at>>} : f[2] # tick[n].next}]
    ELSE UNCHANGED <<score, spent>>

schedule_fire_call(n) ==
    /\ tick[n].pc = "firing"
    /\ \E e \in tick[n].head : fn_schedule_fire(n, e)
    /\ tick' = [tick EXCEPT ![n] = [@ EXCEPT !.pc = "listed", !.head = {}, !.next = 0]]
    /\ UNCHANGED <<now, entries, request>>

TickEnds(n) ==
    /\ tick[n].pc = "listed" /\ tick[n].due = {}
    /\ tick' = [tick EXCEPT ![n] = NoTick]
    /\ UNCHANGED <<now, entries, score, request, spent>>

\* A call fails, or a trigger has no next run: the rest of the tick is not
\* done, and the loop waits for the next one.
TickFails(n) ==
    /\ tick[n].pc # "idle"
    /\ tick' = [tick EXCEPT ![n] = NoTick]
    /\ UNCHANGED <<now, entries, score, request, spent>>

-----------------------------------------------------------------------------

Boot(n) ==
    \/ PrepareUpsert(n) \/ PrepareSync(n) \/ lookup_cron(n)
    \/ schedule_upsert_call(n) \/ fn_schedule_sync_diff(n)
    \/ sync_schedules_remove(n) \/ SyncEnds(n)
    \/ fn_schedule_set_enabled(n) \/ RequestFails(n)

schedule_tick(n) ==
    \/ TickBegin(n) \/ fn_schedule_due_list(n) \/ Expand(n)
    \/ schedule_fire_call(n) \/ TickEnds(n) \/ TickFails(n)

Next ==
    \/ Elapse
    \/ \E n \in Booter : Boot(n)
    \/ \E s \in Operable : remove_schedule(s) \/ pause_schedule(s)
    \/ \E n \in Ticker : schedule_tick(n)

Spec == Init /\ [][Next]_vars

\* The first schedule listed has no next run.
Poisoned(n) ==
    /\ tick[n].pc = "listed"
    /\ \E e \in tick[n].due : /\ \A f \in tick[n].due : e.at <= f.at
                              /\ ~HasNext(e.trigger, now)

\* Ticks keep coming and go on, and from some time on no call of a tick
\* fails; only a trigger without a next run ends it early.
Fairness ==
    /\ \A n \in Ticker :
          /\ WF_vars(TickBegin(n)) /\ WF_vars(fn_schedule_due_list(n))
          /\ WF_vars(Expand(n) \/ TickEnds(n)) /\ WF_vars(schedule_fire_call(n))
          /\ WF_vars(Poisoned(n) /\ TickFails(n))
    /\ <>[][\A n \in Ticker : TickFails(n) => Poisoned(n) \/ TickEnds(n)]_vars

FairSpec == Spec /\ Fairness

-----------------------------------------------------------------------------

\* Entries, ticks and requests are well formed.
TypeOK ==
    /\ now \in 1..MaxTime
    /\ entries \in [Schedule -> Entry]
    /\ score \in [Schedule -> Nat]
    /\ \A n \in Ticker :
          /\ tick[n].pc \in {"idle", "begun", "listed", "firing"}
          /\ tick[n].due \subseteq Listed /\ tick[n].head \subseteq Listed
          /\ tick[n].pc = "firing" <=> tick[n].head # {}
    /\ \A n \in Booter :
          /\ request[n].pc \in {"idle", "upsert", "sync", "prune", "resume"}
          /\ request[n].todo \subseteq Schedule

\* An enabled schedule is in the sorted set, and what is in the sorted set has
\* an entry, however upserts, pauses, removals and fires interleave: no
\* schedule silently stops, and none fires from beyond its removal.
IndexedIsDeclared ==
    \A s \in Schedule :
        /\ entries[s].row /\ entries[s].enabled => score[s] # NotIndexed
        /\ score[s] # NotIndexed => entries[s].row

\* Ticks and requests are well formed wherever a call has failed, and the
\* sorted set and the hash agree (library.lua:1369-1560).
IndexInv == TypeOK /\ IndexedIsDeclared

\* One process fires a schedule at most once each time it is put into the
\* sorted set, although it lists the schedule in one call and fires it in
\* another (backend.rs:252-309).
OncePerArming ==
    [][\A n \in Ticker : schedule_fire_call(n) =>
          \A e \in tick[n].head :
              entries[e.name].row => <<n, e.at>> \notin spent[e.name]]_vars

\* A schedule that is enabled and due does not stay so: it is fired, or
\* postponed by a declaration, paused or removed, although each tick lists and
\* fires in separate calls and may be cut short (backend.rs:252-309).
DueFires ==
    \A s \in Schedule :
        entries[s].enabled /\ s \in Indexed(now)
            ~> ~entries[s].enabled \/ s \notin Indexed(now)

\* A paused schedule is not in the sorted set, and so does not fire: the tick
\* "mirrors the PG `schedule::tick` semantics" (backend.rs:1455), which selects
\* WHERE enabled.
PausedIsUnindexed ==
    \A s \in Schedule :
        entries[s].row /\ ~entries[s].enabled => score[s] = NotIndexed

\* Schedules are "leader-fenced" (crates/eddyq-redis/README.md:44): what one
\* process fires for a score, no other fires too.
LeaderFenced ==
    [][\A n \in Ticker : schedule_fire_call(n) =>
          \A e \in tick[n].head : entries[e.name].row =>
              \A m \in Ticker : <<m, e.at>> \notin spent[e.name]]_vars

\* A sync ends with what was declared and nothing else, as its comment says of
\* a single transaction ("no partial state").
SyncIsAuthoritative ==
    [][\A n \in Booter : SyncEnds(n) =>
          {s \in Schedule : entries[s].row} = DOMAIN request[n].want]_vars

\* Declaring a schedule again does not postpone a run that is due.
RedeployNeverPostpones ==
    [][\A s \in Schedule :
          /\ s \in Indexed(now) /\ score'[s] > score[s]
          /\ \E n \in Booter : schedule_upsert_call(n)
          => entries[s].trigger # entries'[s].trigger]_vars
=============================================================================
