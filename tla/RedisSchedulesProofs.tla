------------------------ MODULE RedisSchedulesProofs ------------------------
(***************************************************************************)
(* Schedules on Redis, for any number of processes, names and triggers.    *)
(* Two results: the sorted set and the hash agree although every call is   *)
(* on its own, and one process fires a schedule once for each time it is   *)
(* armed although it lists and fires in separate calls.                    *)
(***************************************************************************)
EXTENDS RedisSchedules, TLAPS

Instant == Nat \ {0}
Wants == {<<>>} \cup UNION {[D -> Trigger] : D \in SUBSET Schedule}
Nexts == {<<>>} \cup UNION {[D -> Instant] : D \in SUBSET Schedule}

Tick == [pc : {"idle", "begun", "listed", "firing"}, at : Nat, due : SUBSET Listed,
         head : SUBSET Listed, next : Nat]
Request == [pc : {"idle", "upsert", "sync", "prune", "resume"}, todo : SUBSET Schedule,
            want : Wants, next : Nexts]

\* A tick: its time and the scores it found are instants, it has one entry per
\* name, and the next run it is about to write is an instant after those.
TickOK(t) ==
    /\ t \in Tick
    /\ t.pc = "firing" <=> t.head # {}
    /\ t.pc = "firing" => t.next \in Instant
    /\ t.pc # "idle" => t.at \in Instant
    /\ \A e \in t.due \cup t.head : e.at \in Instant
    /\ \A e, f \in t.due \cup t.head : e.name = f.name => e = f
    /\ t.due \cap t.head = {}

\* A request: what it still has to write, it has computed.
RequestOK(r) ==
    /\ r \in Request
    /\ r.pc \in {"upsert", "sync"} =>
          \A s \in r.todo : r.want[s] \in Trigger /\ r.next[s] \in Instant
    /\ r.pc = "resume" => \A s \in r.todo : r.next[s] \in Instant

Fired == Ticker \X Instant

Formed ==
    /\ now \in 1..MaxTime
    /\ entries \in [Schedule -> Entry]
    /\ \A s \in Schedule : entries[s].row => entries[s].trigger \in Trigger
    /\ score \in [Schedule -> Nat]
    /\ tick \in [Ticker -> Tick] /\ \A n \in Ticker : TickOK(tick[n])
    /\ request \in [Booter -> Request] /\ \A n \in Booter : RequestOK(request[n])

\* The score that is in the sorted set has not been fired for; and no process
\* has fired for what it has listed and not fired yet.
Unspent ==
    /\ spent \in [Schedule -> SUBSET Fired]
    /\ \A s \in Schedule, f \in Fired : f \in spent[s] => f[2] # score[s]
    /\ \A n \in Ticker : \A e \in tick[n].due \cup tick[n].head :
          <<n, e.at>> \notin spent[e.name]

Inv == Formed /\ IndexedIsDeclared /\ Unspent

-----------------------------------------------------------------------------
(* Triggers.                                                               *)

\* The next run of a trigger is an instant after the time it is computed from.
LEMMA NextIsLater ==
    ASSUME NEW t \in Trigger, NEW c \in Instant
    PROVE  NextRun(t, c) \in Instant /\ NextRun(t, c) > c
<1>1. t.units \in Nat \ {0}
      BY ScheduleConstants
<1>2. ASSUME NEW u \in Nat \ {0}
      PROVE  (c \div u + 1) * u \in Nat /\ (c \div u + 1) * u > c
      BY <1>2 DEF Instant
<1>3. CASE t.kind = "every"
      BY <1>1, <1>3 DEF NextRun, Instant
<1>4. CASE t.kind # "every"
      BY <1>1, <1>2, <1>4 DEF NextRun, NextCron, Instant
<1> QED BY <1>3, <1>4

-----------------------------------------------------------------------------
(* Steps that write neither the hash nor the sorted set.                   *)

Still == UNCHANGED <<entries, score, spent>>

\* A request goes on.
LEMMA RequestStep ==
    ASSUME Inv, Still, NEW n \in Booter, NEW r, RequestOK(r),
           request' = [request EXCEPT ![n] = r], UNCHANGED <<now, tick>>
    PROVE  Inv'
<1>1. request' \in [Booter -> Request] /\ \A m \in Booter : RequestOK(request'[m])
      BY DEF Inv, Formed, RequestOK
<1>2. Formed'
      BY <1>1 DEF Inv, Formed, Still
<1>3. IndexedIsDeclared' /\ Unspent'
      BY DEF Inv, IndexedIsDeclared, Unspent, Still
<1> QED BY <1>2, <1>3 DEF Inv

\* A tick goes on; it lists nothing that it has fired.
LEMMA TickStep ==
    ASSUME Inv, Still, NEW n \in Ticker, NEW t, TickOK(t),
           \A e \in t.due \cup t.head : <<n, e.at>> \notin spent[e.name],
           tick' = [tick EXCEPT ![n] = t], UNCHANGED <<now, request>>
    PROVE  Inv'
<1>1. /\ tick' \in [Ticker -> Tick] /\ tick'[n] = t
      /\ \A m \in Ticker \ {n} : tick'[m] = tick[m]
      BY DEF Inv, Formed, TickOK
<1>2. Formed'
      BY <1>1 DEF Inv, Formed, Still
<1>3. Unspent'
      BY <1>1 DEF Inv, Unspent, Still
<1>4. IndexedIsDeclared'
      BY DEF Inv, IndexedIsDeclared, Still
<1> QED BY <1>2, <1>3, <1>4 DEF Inv

\* A request or a tick that is over.
LEMMA Blank == RequestOK(NoRequest) /\ TickOK(NoTick)
<1>1. <<>> \in Wants /\ <<>> \in Nexts
      BY DEF Wants, Nexts
<1> HIDE DEF Wants, Nexts
<1>2. NoRequest \in Request /\ NoRequest.pc = "idle"
      BY <1>1 DEF NoRequest, Request
<1>3. NoTick \in Tick
      BY DEF NoTick, Tick
<1> QED BY <1>2, <1>3 DEF RequestOK, TickOK, NoTick


\* Declarations are validated and their first runs computed before any call.
LEMMA PrepareStep ==
    ASSUME Inv, NEW n \in Booter, NEW D \in SUBSET Schedule, NEW T \in SUBSET Trigger,
           NEW pc \in {"upsert", "sync"}, Prepare(n, D, T, pc)
    PROVE  Inv'
<1>1. PICK want \in [D -> T] :
          request' = [request EXCEPT ![n] =
              [pc |-> pc, todo |-> D, want |-> want,
               next |-> [s \in D |-> NextRun(want[s], now)]]]
      BY DEF Prepare
<1> DEFINE N == [s \in D |-> NextRun(want[s], now)]
           r == [pc |-> pc, todo |-> D, want |-> want, next |-> N]
<1>2. now \in Instant
      BY DEF Inv, Formed, Instant
<1>3. \A s \in D : want[s] \in Trigger /\ NextRun(want[s], now) \in Instant
      BY <1>2, NextIsLater
<1>4. N \in [D -> Instant] /\ want \in [D -> Trigger]
      BY <1>3
<1>5. N \in Nexts /\ want \in Wants
      BY <1>4 DEF Nexts, Wants
<1>6. \A s \in D : N[s] \in Instant
      BY <1>4
<1> HIDE DEF N
<1>7. r \in Request
      BY <1>5 DEF Request
<1>8. RequestOK(r)
      BY <1>3, <1>6, <1>7 DEF RequestOK
<1>9. request' = [request EXCEPT ![n] = r] /\ Still /\ UNCHANGED <<now, tick>>
      BY <1>1 DEF N, Prepare, Still
<1> HIDE DEF r
<1> QED BY <1>8, <1>9, RequestStep

\* Looking up the cron expression of a schedule that is to be resumed.
LEMMA LookupStep ==
    ASSUME Inv, NEW n \in Booter, lookup_cron(n)
    PROVE  Inv'
<1>1. PICK s \in Operable :
          /\ entries[s].row
          /\ request' = [request EXCEPT ![n] =
                 [pc |-> "resume", todo |-> {s}, want |-> <<>>,
                  next |-> [x \in {s} |-> NextRun(entries[s].trigger, now)]]]
      BY DEF lookup_cron
<1> DEFINE N == [x \in {s} |-> NextRun(entries[s].trigger, now)]
           r == [pc |-> "resume", todo |-> {s}, want |-> <<>>, next |-> N]
<1>2. s \in Schedule /\ entries[s].trigger \in Trigger /\ now \in Instant
      BY <1>1, ScheduleConstants DEF Inv, Formed, Instant
<1>3. NextRun(entries[s].trigger, now) \in Instant
      BY <1>2, NextIsLater
<1>4. N \in [{s} -> Instant] /\ N[s] \in Instant
      BY <1>3
<1>5. N \in Nexts /\ <<>> \in Wants
      BY <1>2, <1>4 DEF Nexts, Wants
<1> HIDE DEF N
<1>6. r \in Request
      BY <1>2, <1>5 DEF Request
<1>7. RequestOK(r)
      BY <1>4, <1>6 DEF RequestOK
<1>8. request' = [request EXCEPT ![n] = r] /\ Still /\ UNCHANGED <<now, tick>>
      BY <1>1 DEF N, lookup_cron, Still
<1> HIDE DEF r
<1> QED BY <1>7, <1>8, RequestStep

\* A sync computes what to remove; a request ends, or fails.
LEMMA QuietRequestStep ==
    ASSUME Inv, NEW n \in Booter, fn_schedule_sync_diff(n) \/ SyncEnds(n) \/ RequestFails(n)
    PROVE  Inv'
<1>1. Still /\ UNCHANGED <<now, tick>>
      BY DEF fn_schedule_sync_diff, SyncEnds, RequestFails, Still
<1>2. CASE SyncEnds(n) \/ RequestFails(n)
  <2>1. request' = [request EXCEPT ![n] = NoRequest]
        BY <1>2 DEF SyncEnds, RequestFails
  <2> QED BY <1>1, <2>1, Blank, RequestStep
<1>3. CASE fn_schedule_sync_diff(n)
  <2> DEFINE D == {s \in Schedule : entries[s].row} \ DOMAIN request[n].want
             r == [request[n] EXCEPT !.pc = "prune", !.todo = D]
  <2>1. request[n] \in Request /\ request \in [Booter -> Request]
        BY DEF Inv, Formed
  <2>2. request' = [request EXCEPT ![n] = r]
        BY <1>3, <2>1 DEF fn_schedule_sync_diff
  <2>3. D \in SUBSET Schedule
        OBVIOUS
  <2> HIDE DEF D
  <2>4. r \in Request /\ r.pc = "prune"
        BY <2>1, <2>3 DEF Request
  <2>5. RequestOK(r)
        BY <2>4 DEF RequestOK
  <2> HIDE DEF r
  <2> QED BY <1>1, <2>2, <2>5, RequestStep
<1> QED BY <1>2, <1>3

-----------------------------------------------------------------------------
(* Calls that write the hash and the sorted set.                           *)

\* One name is written; what is there afterwards agrees.
LEMMA WriteStep ==
    ASSUME Inv, NEW s \in Schedule, NEW E \in Entry, NEW x \in Nat,
           entries' = [entries EXCEPT ![s] = E], score' = [score EXCEPT ![s] = x],
           E.row => E.trigger \in Trigger, E.row /\ E.enabled => x # 0, x # 0 => E.row,
           spent' \in [Schedule -> SUBSET Fired],
           \A u \in Schedule : spent'[u] \subseteq spent[u],
           \A f \in spent'[s] : f[2] # x,
           UNCHANGED <<now, tick>>,
           request' \in [Booter -> Request], \A n \in Booter : RequestOK(request'[n])
    PROVE  Inv'
<1>1. /\ entries' \in [Schedule -> Entry] /\ entries'[s] = E
      /\ \A u \in Schedule \ {s} : entries'[u] = entries[u]
      BY DEF Inv, Formed
<1>2. /\ score' \in [Schedule -> Nat] /\ score'[s] = x
      /\ \A u \in Schedule \ {s} : score'[u] = score[u]
      BY DEF Inv, Formed
<1>3. Formed'
      BY <1>1, <1>2 DEF Inv, Formed
<1>4. IndexedIsDeclared'
      BY <1>1, <1>2 DEF Inv, IndexedIsDeclared, NotIndexed
<1>5. \A u \in Schedule, f \in Fired : f \in spent'[u] => f[2] # score'[u]
      BY <1>2 DEF Inv, Unspent
<1>6. ASSUME NEW n \in Ticker, NEW e \in tick[n].due \cup tick[n].head
      PROVE  <<n, e.at>> \notin spent'[e.name]
  <2>1. e.name \in Schedule
    <3>1. tick[n] \in Tick
          BY DEF Inv, Formed
    <3> QED BY <3>1 DEF Tick, Listed
  <2>2. <<n, e.at>> \notin spent[e.name]
        BY DEF Inv, Unspent
  <2> QED BY <2>1, <2>2
<1> QED BY <1>3, <1>4, <1>5, <1>6 DEF Inv, Unspent

\* ZADD: what was fired for the new score is forgotten.
LEMMA ArmSpent ==
    ASSUME Inv, NEW s \in Schedule, NEW x, Arm(s, x)
    PROVE  /\ spent' \in [Schedule -> SUBSET Fired] /\ \A f \in spent'[s] : f[2] # x
           /\ \A u \in Schedule : spent'[u] \subseteq spent[u]
           /\ score' = [score EXCEPT ![s] = x]
<1>1. spent' = [spent EXCEPT ![s] = {f \in spent[s] : f[2] # x}]
      BY DEF Arm, Inv, Unspent
<1> QED BY <1>1 DEF Arm, Inv, Unspent

\* ZREM: no score was ever NotIndexed.
LEMMA UnarmSpent ==
    ASSUME Inv, NEW s \in Schedule, Unarm(s)
    PROVE  /\ spent' \in [Schedule -> SUBSET Fired] /\ \A f \in spent'[s] : f[2] # 0
           /\ \A u \in Schedule : spent'[u] \subseteq spent[u]
           /\ score' = [score EXCEPT ![s] = 0]
<1>1. spent' = spent /\ score' = [score EXCEPT ![s] = 0]
      BY DEF Unarm, NotIndexed
<1>2. \A f \in Fired : f[2] # 0
      BY DEF Fired, Instant
<1> QED BY <1>1, <1>2 DEF Inv, Unspent


\* A request that has made one of its calls.
LEMMA RequestGoesOn ==
    ASSUME Inv, NEW n \in Booter, NEW s,
           \/ request' = [request EXCEPT ![n] = NoRequest]
           \/ request' = [request EXCEPT ![n] = [request[n] EXCEPT !.todo = request[n].todo \ {s}]]
    PROVE  request' \in [Booter -> Request] /\ \A m \in Booter : RequestOK(request'[m])
<1>1. request \in [Booter -> Request] /\ \A m \in Booter : RequestOK(request[m])
      BY DEF Inv, Formed
<1> DEFINE T == request[n].todo \ {s}
           r == [request[n] EXCEPT !.todo = T]
<1>2. RequestOK(r)
  <2>1. request[n] \in Request
        BY <1>1
  <2>2. T \subseteq request[n].todo /\ T \in SUBSET Schedule
        BY <2>1 DEF Request
  <2> HIDE DEF T
  <2>3. /\ r \in Request /\ r.pc = request[n].pc /\ r.todo = T
        /\ r.want = request[n].want /\ r.next = request[n].next
        BY <2>1, <2>2 DEF Request
  <2> HIDE DEF r
  <2> QED BY <1>1, <2>2, <2>3 DEF RequestOK
<1>3. PICK q : RequestOK(q) /\ request' = [request EXCEPT ![n] = q]
      BY <1>2, Blank
<1> QED BY <1>1, <1>3 DEF RequestOK

\* One call of an upsert or a sync.
LEMMA UpsertStep ==
    ASSUME Inv, NEW n \in Booter, schedule_upsert_call(n)
    PROVE  Inv'
<1>1. PICK s \in request[n].todo :
          /\ fn_schedule_upsert(s, request[n].want[s], request[n].next[s])
          /\ request' = [request EXCEPT ![n] =
                 IF @.pc = "upsert" THEN NoRequest
                 ELSE [request[n] EXCEPT !.todo = @ \ {s}]]
      BY DEF schedule_upsert_call
<1>2. RequestOK(request[n]) /\ request[n] \in Request
      BY DEF Inv, Formed
<1>3. /\ s \in Schedule /\ request[n].want[s] \in Trigger /\ request[n].next[s] \in Instant
      BY <1>1, <1>2 DEF schedule_upsert_call, RequestOK, Request
<1> DEFINE x == request[n].next[s]
           E == [row |-> TRUE, trigger |-> request[n].want[s], enabled |-> TRUE]
<1>4. E \in Entry /\ E.row /\ E.trigger \in Trigger
      BY <1>3 DEF Entry
<1>5. entries' = [entries EXCEPT ![s] = E] /\ Arm(s, x)
      BY <1>1 DEF fn_schedule_upsert
<1>6. UNCHANGED <<now, tick>>
      BY DEF schedule_upsert_call
<1>7. x \in Nat /\ x # 0
      BY <1>3 DEF Instant
<1>8. request' \in [Booter -> Request] /\ \A m \in Booter : RequestOK(request'[m])
  <2>1. CASE request[n].pc = "upsert"
        BY <1>1, <2>1, RequestGoesOn
  <2>2. CASE request[n].pc # "upsert"
    <3>1. request \in [Booter -> Request]
          BY DEF Inv, Formed
    <3>2. request' = [request EXCEPT ![n] = [request[n] EXCEPT !.todo = request[n].todo \ {s}]]
          BY <1>1, <1>2, <2>2, <3>1 DEF Request
    <3> QED BY <3>2, RequestGoesOn
  <2> QED BY <2>1, <2>2
<1> HIDE DEF x, E
<1> QED BY <1>3, <1>4, <1>5, <1>6, <1>7, <1>8, ArmSpent, WriteStep

\* A schedule is removed, by a sync or by itself.
LEMMA RemoveStep ==
    ASSUME Inv, NEW s \in Schedule, fn_schedule_remove(s), UNCHANGED <<now, tick>>,
           request' \in [Booter -> Request], \A n \in Booter : RequestOK(request'[n])
    PROVE  Inv'
<1>1. NoEntry \in Entry /\ ~NoEntry.row
      BY DEF NoEntry, Entry
<1>2. entries' = [entries EXCEPT ![s] = NoEntry] /\ Unarm(s)
      BY DEF fn_schedule_remove
<1> HIDE DEF NoEntry
<1> QED BY <1>1, <1>2, UnarmSpent, WriteStep

\* A schedule is paused, or resumed at the run computed with the lookup.
LEMMA EnabledStep ==
    ASSUME Inv, NEW s \in Schedule, NEW on \in BOOLEAN, NEW x \in Nat, entries[s].row,
           entries' = [entries EXCEPT ![s].enabled = on],
           IF on THEN x # 0 /\ Arm(s, x) ELSE x = 0 /\ Unarm(s),
           UNCHANGED <<now, tick>>,
           request' \in [Booter -> Request], \A n \in Booter : RequestOK(request'[n])
    PROVE  Inv'
<1> DEFINE E == [entries[s] EXCEPT !.enabled = on]
<1>1. entries \in [Schedule -> Entry] /\ entries[s].trigger \in Trigger
      BY DEF Inv, Formed
<1>2. entries[s] \in Entry
      BY <1>1
<1>3. entries' = [entries EXCEPT ![s] = E]
      BY <1>1, <1>2 DEF Entry
<1>4. E \in Entry /\ E.row = entries[s].row /\ E.trigger = entries[s].trigger /\ E.enabled = on
      BY <1>2 DEF Entry
<1> HIDE DEF E
<1>5. /\ spent' \in [Schedule -> SUBSET Fired] /\ \A f \in spent'[s] : f[2] # x
      /\ \A u \in Schedule : spent'[u] \subseteq spent[u]
      /\ score' = [score EXCEPT ![s] = x]
  <2>1. CASE on
        BY <2>1, ArmSpent
  <2>2. CASE ~on
        BY <2>2, UnarmSpent
  <2> QED BY <2>1, <2>2
<1>6. E.row /\ E.trigger \in Trigger
      BY <1>1, <1>4
<1>7. E.row /\ E.enabled => x # 0
      BY <1>4
<1>8. x # 0 => E.row
      BY <1>6
<1>9. E.row => E.trigger \in Trigger
      BY <1>6
<1> QED BY <1>3, <1>4, <1>5, <1>7, <1>8, <1>9, WriteStep

-----------------------------------------------------------------------------
(* The tick.                                                               *)

\* A tick begins, ends or fails.
LEMMA TickEdges ==
    ASSUME Inv, NEW n \in Ticker, TickBegin(n) \/ TickEnds(n) \/ TickFails(n)
    PROVE  Inv'
<1>1. Still /\ UNCHANGED <<now, request>>
      BY DEF TickBegin, TickEnds, TickFails, Still
<1>2. CASE TickEnds(n) \/ TickFails(n)
  <2>1. tick' = [tick EXCEPT ![n] = NoTick]
        BY <1>2 DEF TickEnds, TickFails
  <2>2. \A e \in NoTick.due \cup NoTick.head : <<n, e.at>> \notin spent[e.name]
        BY DEF NoTick
  <2> QED BY <1>1, <2>1, <2>2, Blank, TickStep
<1>3. CASE TickBegin(n)
  <2> DEFINE t == [NoTick EXCEPT !.pc = "begun", !.at = now]
  <2>1. tick' = [tick EXCEPT ![n] = t]
        BY <1>3 DEF TickBegin
  <2>2. now \in Instant
        BY DEF Inv, Formed, Instant
  <2>3. /\ t \in Tick /\ t.pc = "begun" /\ t.at = now /\ t.due = {} /\ t.head = {}
        BY <2>2 DEF NoTick, Tick, Instant
  <2> HIDE DEF t
  <2>4. TickOK(t)
        BY <2>2, <2>3 DEF TickOK
  <2> QED BY <1>1, <2>1, <2>3, <2>4, TickStep
<1> QED BY <1>2, <1>3

\* The due schedules are listed, one entry per name, with the score they have;
\* nobody has fired for that.
LEMMA ListStep ==
    ASSUME Inv, NEW n \in Ticker, fn_schedule_due_list(n)
    PROVE  Inv'
<1> DEFINE S == {x \in Indexed(tick[n].at) : entries[x].row}
           L == {[name |-> s, trigger |-> entries[s].trigger, at |-> score[s]] : s \in S}
           t == [tick[n] EXCEPT !.pc = "listed", !.due = L]
<1>1. tick \in [Ticker -> Tick] /\ tick[n] \in Tick /\ TickOK(tick[n]) /\ tick[n].pc = "begun"
      BY DEF Inv, Formed, fn_schedule_due_list
<1>2. /\ tick' = [tick EXCEPT ![n] = t] /\ Still /\ UNCHANGED <<now, request>>
      BY <1>1 DEF fn_schedule_due_list, Still, Tick
<1>3. \A s \in S : /\ s \in Schedule /\ entries[s].trigger \in Trigger
                   /\ score[s] \in Nat /\ score[s] \in Instant
      BY DEF Inv, Formed, Indexed, NotIndexed, Instant
<1> HIDE DEF S
<1>4. L \in SUBSET Listed /\ \A e \in L : e.name \in S /\ e.at = score[e.name]
      BY <1>3 DEF Listed
<1>5. \A e, f \in L : e.name = f.name => e = f
      OBVIOUS
<1> HIDE DEF L
<1>6. /\ t \in Tick /\ t.pc = "listed" /\ t.due = L /\ t.head = tick[n].head /\ t.at = tick[n].at
      BY <1>1, <1>4 DEF Tick
<1> HIDE DEF t
<1>7. tick[n].head = {} /\ tick[n].at \in Instant
      BY <1>1 DEF TickOK
<1>8. TickOK(t)
      BY <1>3, <1>4, <1>5, <1>6, <1>7 DEF TickOK
<1>9. \A e \in L : <<n, e.at>> \notin spent[e.name]
  <2> SUFFICES ASSUME NEW e \in L
               PROVE  <<n, e.at>> \notin spent[e.name]
      OBVIOUS
  <2>1. e.name \in Schedule /\ e.at = score[e.name] /\ e.at \in Instant
        BY <1>3, <1>4
  <2>2. <<n, e.at>> \in Fired /\ <<n, e.at>>[2] = e.at
        BY <2>1 DEF Fired
  <2> QED BY <2>1, <2>2 DEF Inv, Unspent
<1> QED BY <1>2, <1>6, <1>7, <1>8, <1>9, TickStep

\* The first entry of the list is taken up.
LEMMA ExpandStep ==
    ASSUME Inv, NEW n \in Ticker, Expand(n)
    PROVE  Inv'
<1>1. tick \in [Ticker -> Tick] /\ tick[n] \in Tick /\ TickOK(tick[n]) /\ tick[n].pc = "listed"
      BY DEF Inv, Formed, Expand
<1>2. PICK e \in tick[n].due :
          tick' = [tick EXCEPT ![n] =
              [tick[n] EXCEPT !.pc = "firing", !.due = @ \ {e}, !.head = {e},
                   !.next = NextRun(e.trigger, IF e.trigger.kind = "every"
                                               THEN tick[n].at ELSE now)]]
      BY DEF Expand
<1> DEFINE c == IF e.trigger.kind = "every" THEN tick[n].at ELSE now
           x == NextRun(e.trigger, c)
           D == tick[n].due \ {e}
           t == [tick[n] EXCEPT !.pc = "firing", !.due = D, !.head = {e}, !.next = x]
<1>3. tick' = [tick EXCEPT ![n] = t] /\ Still /\ UNCHANGED <<now, request>>
  <2>1. tick' = [tick EXCEPT ![n] = t]
        BY <1>1, <1>2 DEF Tick
  <2> QED BY <2>1 DEF Expand, Still
<1>4. e \in Listed /\ tick[n].due \subseteq Listed
      BY <1>1 DEF Tick
<1>5. c \in Instant /\ e.trigger \in Trigger
      BY <1>1, <1>4 DEF Inv, Formed, TickOK, Instant, Listed
<1> HIDE DEF c
<1>6. x \in Instant
      BY <1>5, NextIsLater
<1>7. D \subseteq tick[n].due /\ e \notin D
      OBVIOUS
<1> HIDE DEF x, D
<1>8. /\ t \in Tick /\ t.pc = "firing" /\ t.due = D /\ t.head = {e} /\ t.next = x
      /\ t.at = tick[n].at
      BY <1>1, <1>4, <1>6, <1>7 DEF Tick, Instant
<1> HIDE DEF t
<1>9. t.due \cup t.head \subseteq tick[n].due
      BY <1>7, <1>8
<1>10. TickOK(t)
  <2>1. /\ \A f \in t.due \cup t.head : f.at \in Instant
        /\ \A f, g \in t.due \cup t.head : f.name = g.name => f = g
        BY <1>1, <1>9 DEF TickOK
  <2> QED BY <1>1, <1>6, <1>7, <1>8, <2>1 DEF TickOK
<1>11. \A f \in t.due \cup t.head : <<n, f.at>> \notin spent[f.name]
      BY <1>9 DEF Inv, Unspent
<1> QED BY <1>3, <1>10, <1>11, TickStep


\* The fire writes the next run and remembers the score it was for; it is that
\* of no other entry this process has listed.
LEMMA FireStep ==
    ASSUME Inv, NEW n \in Ticker, schedule_fire_call(n)
    PROVE  Inv'
<1> DEFINE t == [tick[n] EXCEPT !.pc = "listed", !.head = {}, !.next = 0]
<1>1. tick \in [Ticker -> Tick] /\ tick[n] \in Tick /\ TickOK(tick[n]) /\ tick[n].pc = "firing"
      BY DEF Inv, Formed, schedule_fire_call
<1>2. tick' = [tick EXCEPT ![n] = t] /\ UNCHANGED <<now, entries, request>>
      BY DEF schedule_fire_call
<1>3. /\ t \in Tick /\ t.pc = "listed" /\ t.head = {} /\ t.due = tick[n].due
      /\ t.at = tick[n].at
      BY <1>1 DEF Tick
<1> HIDE DEF t
<1>4. TickOK(t)
      BY <1>1, <1>3 DEF TickOK
<1>5. PICK e \in tick[n].head : fn_schedule_fire(n, e)
      BY DEF schedule_fire_call
<1> DEFINE s == e.name
           x == tick[n].next
<1>6. e \in Listed /\ s \in Schedule /\ e.at \in Instant /\ x \in Instant
      BY <1>1, <1>5 DEF TickOK, Tick, Listed
<1>7. CASE ~entries[s].row
  <2>1. Still
        BY <1>2, <1>5, <1>7 DEF fn_schedule_fire, Still
  <2>2. \A f \in t.due \cup t.head : <<n, f.at>> \notin spent[f.name]
        BY <1>3 DEF Inv, Unspent
  <2> QED BY <1>2, <1>4, <2>1, <2>2, TickStep
<1>8. CASE entries[s].row
  <2>1. score' = [score EXCEPT ![s] = x]
        BY <1>5, <1>8 DEF fn_schedule_fire
  <2> DEFINE F == {f \in spent[s] \cup {<<n, e.at>>} : f[2] # x}
  <2>2. spent' = [spent EXCEPT ![s] = F]
        BY <1>5, <1>8 DEF fn_schedule_fire
  <2>3. /\ F \in SUBSET Fired /\ \A f \in F : f[2] # x
        /\ \A f \in F : f \in spent[s] \/ f = <<n, e.at>>
    <3>1. <<n, e.at>> \in Fired
          BY <1>6 DEF Fired
    <3> QED BY <1>6, <3>1 DEF Inv, Unspent
  <2> HIDE DEF F
  <2>4. /\ score' \in [Schedule -> Nat] /\ score'[s] = x /\ x # 0
        /\ \A u \in Schedule \ {s} : score'[u] = score[u]
        BY <1>6, <2>1 DEF Inv, Formed, Instant
  <2>5. /\ spent' \in [Schedule -> SUBSET Fired] /\ spent'[s] = F
        /\ \A u \in Schedule \ {s} : spent'[u] = spent[u]
        BY <1>6, <2>2, <2>3 DEF Inv, Unspent
  <2>6. /\ tick' \in [Ticker -> Tick] /\ tick'[n] = t
        /\ \A m \in Ticker \ {n} : tick'[m] = tick[m]
        BY <1>1, <1>2, <1>3
  <2>7. Formed'
        BY <1>2, <1>4, <2>4, <2>6 DEF Inv, Formed
  <2>8. IndexedIsDeclared'
        BY <1>2, <1>8, <2>4 DEF Inv, IndexedIsDeclared, NotIndexed
  <2>9. \A u \in Schedule, f \in Fired : f \in spent'[u] => f[2] # score'[u]
        BY <2>3, <2>4, <2>5 DEF Inv, Unspent
  <2>10. ASSUME NEW m \in Ticker, NEW f \in tick'[m].due \cup tick'[m].head
         PROVE  <<m, f.at>> \notin spent'[f.name]
    <3>1. f \in tick[m].due \cup tick[m].head /\ <<m, f.at>> \notin spent[f.name]
          BY <1>3, <2>6 DEF Inv, Unspent
    <3>2. f.name \in Schedule
      <4>1. tick[m] \in Tick
            BY <1>1
      <4> QED BY <3>1, <4>1 DEF Tick, Listed
    <3>3. CASE f.name # s
          BY <2>5, <3>1, <3>2, <3>3
    <3>4. CASE f.name = s /\ m # n
      <4>1. <<m, f.at>> # <<n, e.at>>
            BY <3>4
      <4> QED BY <2>3, <2>5, <3>1, <3>4, <4>1
    <3>5. CASE f.name = s /\ m = n
      <4>1. f \in tick[n].due
            BY <1>3, <2>6, <3>5
      <4>2. f = e
            BY <1>1, <1>5, <3>5, <4>1 DEF TickOK
      <4> QED BY <1>1, <1>5, <4>1, <4>2 DEF TickOK
    <3> QED BY <3>3, <3>4, <3>5
  <2> QED BY <2>5, <2>7, <2>8, <2>9, <2>10 DEF Inv, Unspent
<1> QED BY <1>7, <1>8

-----------------------------------------------------------------------------

\* Nothing is declared at the start.
LEMMA InitInv == Init => Inv
<1> SUFFICES ASSUME Init
             PROVE  Inv
    OBVIOUS
<1>1. now \in 1..MaxTime
      BY ScheduleConstants DEF Init
<1>2. \A s \in Schedule : entries[s] = NoEntry /\ score[s] = 0 /\ spent[s] = {}
      BY DEF Init, NotIndexed
<1>3. NoEntry \in Entry /\ ~NoEntry.row
      BY DEF NoEntry, Entry
<1>4. NoTick \in Tick /\ NoRequest \in Request /\ NoTick.due \cup NoTick.head = {}
      BY Blank DEF TickOK, RequestOK, NoTick
<1> HIDE DEF NoEntry, NoTick, NoRequest
<1>5. /\ tick \in [Ticker -> Tick] /\ \A n \in Ticker : tick[n] = NoTick
      /\ request \in [Booter -> Request] /\ \A n \in Booter : request[n] = NoRequest
      BY <1>4 DEF Init
<1>6. entries \in [Schedule -> Entry] /\ score \in [Schedule -> Nat]
      BY <1>3 DEF Init, NotIndexed
<1>7. spent \in [Schedule -> SUBSET Fired]
      BY DEF Init
<1>8. Formed
      BY <1>1, <1>2, <1>3, <1>5, <1>6, Blank DEF Formed
<1>9. IndexedIsDeclared
      BY <1>2, <1>3 DEF IndexedIsDeclared, NotIndexed
<1>10. Unspent
      BY <1>2, <1>4, <1>5, <1>7 DEF Unspent
<1> QED BY <1>8, <1>9, <1>10 DEF Inv

\* Every call keeps the invariant.
LEMMA NextInv == Inv /\ [Next]_vars => Inv'
<1> SUFFICES ASSUME Inv, [Next]_vars
             PROVE  Inv'
    OBVIOUS
<1>0. Lists \subseteq SUBSET Schedule /\ Single \subseteq Schedule /\ Operable \subseteq Schedule
      BY ScheduleConstants
<1>1. ASSUME Still, UNCHANGED <<tick, request>>, now' \in 1..MaxTime
      PROVE  Inv'
      BY <1>1 DEF Inv, Formed, IndexedIsDeclared, Unspent, Still
<1>2. CASE Elapse
  <2>1. now' \in 1..MaxTime
        BY <1>2, ScheduleConstants DEF Elapse, Inv, Formed
  <2> QED BY <1>1, <1>2, <2>1 DEF Elapse, Still
<1>3. CASE UNCHANGED vars
      BY <1>1, <1>3 DEF vars, Still, Inv, Formed
<1>4. ASSUME NEW n \in Booter, Boot(n)
      PROVE  Inv'
  <2>1. CASE PrepareUpsert(n)
    <3>1. PICK s \in Single : Prepare(n, {s}, Trigger, "upsert")
          BY <2>1 DEF PrepareUpsert
    <3> QED BY <1>0, <3>1, PrepareStep
  <2>2. CASE PrepareSync(n)
    <3>1. PICK D \in Lists : Prepare(n, D, {t \in Trigger : t.kind = "cron"}, "sync")
          BY <2>2 DEF PrepareSync
    <3> QED BY <1>0, <3>1, PrepareStep
  <2>3. CASE sync_schedules_remove(n)
    <3>1. PICK s \in request[n].todo :
              fn_schedule_remove(s) /\ request' = [request EXCEPT ![n].todo = @ \ {s}]
          BY <2>3 DEF sync_schedules_remove
    <3>2. request \in [Booter -> Request] /\ request[n] \in Request
          BY DEF Inv, Formed
    <3>3. request' = [request EXCEPT ![n] = [request[n] EXCEPT !.todo = request[n].todo \ {s}]]
          BY <3>1, <3>2 DEF Request
    <3>4. s \in Schedule
          BY <3>2 DEF Request
    <3>5. request' \in [Booter -> Request] /\ \A m \in Booter : RequestOK(request'[m])
          BY <3>3, RequestGoesOn
    <3> QED BY <2>3, <3>1, <3>4, <3>5, RemoveStep DEF sync_schedules_remove
  <2>4. CASE fn_schedule_set_enabled(n)
    <3>1. PICK s \in request[n].todo :
              /\ entries[s].row /\ entries' = [entries EXCEPT ![s].enabled = TRUE]
              /\ Arm(s, request[n].next[s])
          BY <2>4 DEF fn_schedule_set_enabled
    <3>2. request[n] \in Request /\ RequestOK(request[n])
          BY DEF Inv, Formed
    <3>3. s \in Schedule /\ request[n].next[s] \in Instant
          BY <2>4, <3>2 DEF RequestOK, Request, fn_schedule_set_enabled
    <3>4. request[n].next[s] \in Nat /\ request[n].next[s] # 0
          BY <3>3 DEF Instant
    <3>5. request' \in [Booter -> Request] /\ \A m \in Booter : RequestOK(request'[m])
          BY <2>4, RequestGoesOn DEF fn_schedule_set_enabled
    <3>6. UNCHANGED <<now, tick>>
          BY <2>4 DEF fn_schedule_set_enabled
    <3> QED BY <3>1, <3>3, <3>4, <3>5, <3>6, EnabledStep
  <2> QED BY <1>4, <2>1, <2>2, <2>3, <2>4, LookupStep, UpsertStep, QuietRequestStep DEF Boot
<1>5. ASSUME NEW s \in Operable, remove_schedule(s) \/ pause_schedule(s)
      PROVE  Inv'
  <2>0. s \in Schedule
        BY <1>0
  <2>1. request' \in [Booter -> Request] /\ \A n \in Booter : RequestOK(request'[n])
        BY <1>5 DEF remove_schedule, pause_schedule, Inv, Formed
  <2>2. CASE remove_schedule(s)
        BY <2>0, <2>1, <2>2, RemoveStep DEF remove_schedule
  <2>3. CASE pause_schedule(s)
        BY <2>0, <2>1, <2>3, EnabledStep DEF pause_schedule
  <2> QED BY <1>5, <2>2, <2>3
<1>6. ASSUME NEW n \in Ticker, schedule_tick(n)
      PROVE  Inv'
      BY <1>6, TickEdges, ListStep, ExpandStep, FireStep DEF schedule_tick
<1> QED BY <1>2, <1>3, <1>4, <1>5, <1>6 DEF Next

\* The strengthened invariant of schedules on Redis.
LEMMA Invariant == Spec => []Inv
BY InitInv, NextInv, PTL DEF Spec

\* An enabled schedule is in the sorted set and what is in the sorted set is
\* declared, although a tick, a sync and a pause are series of calls that
\* interleave and may stop halfway (library.lua:1369-1560): every call that
\* changes one of the two changes the other, and a fire does so only if the
\* schedule is still there.
THEOREM IndexAgrees == Spec => []IndexInv
<1>1. Inv => IndexInv
  <2> SUFFICES ASSUME Inv
               PROVE  TypeOK
      BY DEF IndexInv, Inv
  <2>1. ASSUME NEW n \in Ticker
        PROVE  /\ tick[n].pc \in {"idle", "begun", "listed", "firing"}
               /\ tick[n].due \subseteq Listed /\ tick[n].head \subseteq Listed
               /\ tick[n].pc = "firing" <=> tick[n].head # {}
    <3>1. TickOK(tick[n]) /\ tick[n] \in Tick
          BY DEF Inv, Formed
    <3> QED BY <3>1 DEF TickOK, Tick
  <2>2. ASSUME NEW n \in Booter
        PROVE  /\ request[n].pc \in {"idle", "upsert", "sync", "prune", "resume"}
               /\ request[n].todo \subseteq Schedule
    <3>1. request[n] \in Request
          BY DEF Inv, Formed
    <3> QED BY <3>1 DEF Request
  <2> QED BY <2>1, <2>2 DEF TypeOK, Inv, Formed
<1> QED BY <1>1, Invariant, PTL

\* A process that fires from its list has not fired for the score it listed
\* since the schedule was given that score (backend.rs:252-309).
THEOREM FiresOncePerArming == Spec => OncePerArming
<1>1. Inv /\ [Next]_vars =>
        [\A n \in Ticker : schedule_fire_call(n) =>
            \A e \in tick[n].head :
                entries[e.name].row => <<n, e.at>> \notin spent[e.name]]_vars
      BY DEF Inv, Unspent
<1> QED BY <1>1, Invariant, PTL DEF Spec, OncePerArming
=============================================================================
