------------------------------- MODULE NapiApp -------------------------------
(***************************************************************************)
(* The life of one Node object: Eddyq, EddyqRedis, or the EddyqApp that    *)
(* holds one of each.  Its calls run on threads of their own and take the  *)
(* state lock in sections; between two sections anything may happen.  The  *)
(* core runtime they start hands jobs to handlers on the JavaScript        *)
(* thread, which a shutdown asks to stop by one broadcast.                 *)
(*                                                                         *)
(* Rows are kept only as far as the life cycle shows in them; what claims, *)
(* verdicts and reclaims do to rows is PgJobs' and RedisJobs' subject.  A  *)
(* job is tried once.                                                      *)
(***************************************************************************)
EXTENDS Naturals, FiniteSets

CONSTANTS
    Objects,          \* "Eddyq", "EddyqRedis", "EddyqApp"
    Call,             \* calls that may be under way at one time
    Job,
    QueueOf,          \* the queue of a job
    Routes,           \* routes of EddyqApp: queue to backend
    default_provider,
    DefaultQueue,
    Subscriptions,    \* lists of queues given to subscribeTo
    Modes,            \* modes given to shutdown, valid or not
    Deaf,             \* jobs whose handler ignores its signal and never ends
    Backstop,         \* is default_job_timeout set?
    Budget            \* bound: calls of each operation

ValidModes == {"drain", "force", "abandon"}
Backend == {"pg", "redis"}
Ops == {"work", "subscribe_to", "start", "shutdown", "close"}

ASSUME AppConstants ==
    /\ Objects \subseteq {"Eddyq", "EddyqRedis", "EddyqApp"}
    /\ default_provider \in Backend /\ Routes \in [DOMAIN Routes -> Backend]
    /\ Deaf \subseteq Job
    /\ Backstop \in BOOLEAN
    /\ Budget \in [Ops -> Nat]

VARIABLES
    object,           \* which class this is, chosen once
    phase,            \* WorkerState, RedisWorkerState
    handlers,         \* Building: is a handler registered?
    subscribed,       \* Building or running: queues it claims from
    runtime,          \* the core queue: none, up, cancelled, down
    launched,         \* history: runtimes started
    abort_handler,    \* the abort function the object holds
    broadcast,        \* a call of it waits for the JavaScript thread
    abortedWith,      \* lib.cjs: the broadcast has run
    pool,             \* is the Postgres pool open?
    call,             \* calls under way: operation, argument, where it is
    made,             \* history: calls made, per operation
    row,              \* per job: none, pending, running, done
    worker,           \* its place in the runtime: none, channel, waiting
    js,               \* its handler: none, called, running, ended
    signalled,        \* has its AbortController been aborted?
    shut,             \* history: backends whose runtime a shutdown stopped
    closed            \* history: a close has returned

stateVars == <<phase, handlers, subscribed>>
abortVars == <<abort_handler, broadcast, abortedWith>>
jobVars == <<row, worker, js, signalled>>
history == <<shut, closed>>
vars == <<object, stateVars, runtime, launched, abortVars, pool, call, made,
          jobVars, history>>

Has(b) == \/ object = "EddyqApp"
          \/ object = "Eddyq" /\ b = "pg"
          \/ object = "EddyqRedis" /\ b = "redis"

pick(q) == IF q \in DOMAIN Routes THEN Routes[q] ELSE default_provider

\* The backend a job is stored in.
Home(j) == CASE object = "Eddyq" -> "pg"
             [] object = "EddyqRedis" -> "redis"
             [] OTHER -> pick(QueueOf[j])

JobsOf(b) == {j \in Job : Home(j) = b}
Idle == [op |-> "none", arg |-> "none", at |-> "idle", on |-> "pg", snapshot |-> {}]

\* connect: each backend of an app is subscribed to the queues routed to it.
connect ==
    /\ object \in Objects
    /\ phase = [b \in Backend |-> "Building"]
    /\ handlers = [b \in Backend |-> FALSE]
    /\ subscribed =
         [b \in Backend |->
            LET routed == {q \in DOMAIN Routes : Routes[q] = b}
            IN IF object = "EddyqApp" /\ routed # {} THEN routed ELSE {DefaultQueue}]
    /\ abort_handler = FALSE /\ pool = TRUE

Init ==
    /\ connect
    /\ runtime = [b \in Backend |-> "none"] /\ launched = [b \in Backend |-> 0]
    /\ broadcast = FALSE /\ abortedWith = FALSE
    /\ call = [c \in Call |-> Idle] /\ made = [o \in Ops |-> 0]
    /\ row = [j \in Job |-> "none"] /\ worker = [j \in Job |-> "none"]
    /\ js = [j \in Job |-> "none"] /\ signalled = [j \in Job |-> FALSE]
    /\ shut = {} /\ closed = FALSE

-----------------------------------------------------------------------------
(* Calls.  An app makes the call of its Postgres half and then that of its *)
(* Redis half.                                                             *)

Goto(c, at) == call' = [call EXCEPT ![c].at = at]
Return(c) == call' = [call EXCEPT ![c] = Idle]

\* On to the other half of an app, or back to the caller.
Proceed(c, at) ==
    IF object = "EddyqApp" /\ call[c].on = "pg"
    THEN call' = [call EXCEPT ![c].at = at, ![c].on = "redis"]
    ELSE Return(c)

At(c, op, at) == call[c].op = op /\ call[c].at = at

Entry(op) == CASE op = "start" -> "take"
               [] op = "shutdown" -> IF object = "EddyqApp" THEN "broadcast" ELSE "swap"
               [] op = "close" -> "swap"
               [] OTHER -> "apply"

Arguments(op) == CASE op = "shutdown" -> Modes
                   [] op = "subscribe_to" -> Subscriptions
                   [] OTHER -> {"none"}

\* lib.cjs sets the abort handler with the first work.  EddyqRedis has no
\* close.  A program registers its handlers before it asks for a shutdown, and
\* subscribes before it asks for a start, as the docs say.
Invoke(c) ==
    /\ call[c] = Idle
    /\ \E op \in Ops : \E arg \in Arguments(op) :
         /\ made[op] < Budget[op]
         /\ op = "close" => object # "EddyqRedis"
         /\ op = "work" => made["shutdown"] = 0
         /\ op = "subscribe_to" => made["start"] = 0
         /\ made' = [made EXCEPT ![op] = @ + 1]
         /\ abort_handler' = (abort_handler \/ (op = "work" /\ made["work"] = 0))
         /\ call' = [call EXCEPT ![c] =
                       [op |-> op, arg |-> arg, at |-> Entry(op),
                        on |-> IF Has("pg") THEN "pg" ELSE "redis", snapshot |-> {}]]
    /\ UNCHANGED <<object, stateVars, runtime, launched, broadcast, abortedWith,
                   pool, jobVars, history>>

work(c) ==
    LET b == call[c].on IN
    /\ At(c, "work", "apply")
    /\ IF phase[b] = "Building"
       THEN handlers' = [handlers EXCEPT ![b] = TRUE] /\ Proceed(c, "apply")
       ELSE Return(c) /\ UNCHANGED handlers
    /\ UNCHANGED <<object, phase, subscribed, runtime, launched, abortVars, pool,
                   made, jobVars, history>>

\* Queues go to the half they are routed to; a half that gets none keeps the
\* list it has.
subscribe_to(c) ==
    LET b == call[c].on
        mine == {q \in call[c].arg : object = "EddyqApp" => pick(q) = b}
        skip == object = "EddyqApp" /\ mine = {}
    IN
    /\ At(c, "subscribe_to", "apply")
    /\ IF skip \/ phase[b] = "Building" THEN Proceed(c, "apply") ELSE Return(c)
    /\ subscribed' = IF ~skip /\ phase[b] = "Building"
                     THEN [subscribed EXCEPT ![b] = mine] ELSE subscribed
    /\ UNCHANGED <<object, phase, handlers, runtime, launched, abortVars, pool,
                   made, jobVars, history>>

-----------------------------------------------------------------------------
(* start                                                                   *)

\* The state is Stopped from here until the runtime is up, and stays so if it
\* never comes up.
start_take(c) ==
    LET b == call[c].on IN
    /\ At(c, "start", "take")
    /\ CASE phase[b] = "Building" /\ handlers[b] -> Goto(c, IF b = "pg" THEN "check" ELSE "launch")
         [] phase[b] = "Building" /\ ~handlers[b] -> Goto(c, "restore")
         [] OTHER -> Return(c)
    /\ phase' = [phase EXCEPT ![b] = IF @ = "Building" THEN "Stopped" ELSE @]
    /\ handlers' = [handlers EXCEPT ![b] = @ /\ phase[b] # "Building"]
    /\ UNCHANGED <<object, subscribed, runtime, launched, abortVars, pool, made,
                   jobVars, history>>

start_restore(c) ==
    LET b == call[c].on IN
    /\ At(c, "start", "restore")
    /\ phase' = [phase EXCEPT ![b] = "Building"]
    /\ handlers' = [handlers EXCEPT ![b] = FALSE]
    /\ Return(c)
    /\ UNCHANGED <<object, subscribed, runtime, launched, abortVars, pool, made,
                   jobVars, history>>

\* Postgres: the migrations are all there, or the check was to be skipped; or
\* some are pending, or cannot be listed.
start_check(c) ==
    /\ At(c, "start", "check")
    /\ Goto(c, "launch") \/ Return(c)
    /\ UNCHANGED <<object, stateVars, runtime, launched, abortVars, pool, made,
                   jobVars, history>>

\* queue.start() of the core
start_launch(c) ==
    LET b == call[c].on IN
    /\ At(c, "start", "launch")
    /\ runtime' = [runtime EXCEPT ![b] = "up"]
    /\ launched' = [launched EXCEPT ![b] = @ + 1]
    /\ Goto(c, "publish")
    /\ UNCHANGED <<object, stateVars, abortVars, pool, made, jobVars, history>>

start_publish(c) ==
    LET b == call[c].on IN
    /\ At(c, "start", "publish")
    /\ phase' = [phase EXCEPT ![b] = "Running"]
    /\ Proceed(c, "take")
    /\ UNCHANGED <<object, handlers, subscribed, runtime, launched, abortVars, pool,
                   made, jobVars, history>>

start(c) ==
    \/ start_take(c) \/ start_restore(c) \/ start_check(c)
    \/ start_launch(c) \/ start_publish(c)

-----------------------------------------------------------------------------
(* shutdown and close                                                      *)

\* Mutant: the abort function is not called.
fire_abort_Never == UNCHANGED broadcast

\* A call of the abort function, if there is one, is queued for JavaScript.
fire_abort == broadcast' = (broadcast \/ abort_handler)

\* EddyqApp: one broadcast, whatever the state of its halves.
shutdown_broadcast(c) ==
    /\ At(c, "shutdown", "broadcast")
    /\ fire_abort
    /\ Goto(c, "swap")
    /\ UNCHANGED <<object, stateVars, runtime, launched, abort_handler, abortedWith,
                   pool, made, jobVars, history>>

\* Nothing is running: an error, which an app passes over.
shutdown_swap(c) ==
    LET b == call[c].on IN
    /\ At(c, "shutdown", "swap")
    /\ phase' = [phase EXCEPT ![b] = "Stopped"]
    /\ handlers' = [handlers EXCEPT ![b] = FALSE]
    /\ IF phase[b] = "Running" THEN Goto(c, "mode") ELSE Proceed(c, "swap")
    /\ UNCHANGED <<object, subscribed, runtime, launched, abortVars, pool, made,
                   jobVars, history>>

\* Mutant: the abort is fired for a drain only.
shutdown_mode_DrainOnly(c) ==
    LET late == call[c].on = "pg" /\ call[c].arg = "force"
        valid == call[c].arg \in ValidModes
    IN
    /\ At(c, "shutdown", "mode")
    /\ IF valid THEN Goto(c, "core") ELSE Proceed(c, "swap")
    /\ IF valid /\ ~late /\ object # "EddyqApp" /\ call[c].arg = "drain" THEN fire_abort
       ELSE UNCHANGED broadcast
    /\ UNCHANGED <<object, stateVars, runtime, launched, abort_handler, abortedWith,
                   pool, made, jobVars, history>>

\* An invalid mode is found now, with the queue in hand.  The halves of an app
\* hold no abort function; Eddyq fires that of a forced shutdown at the end.
shutdown_mode(c) ==
    LET late == call[c].on = "pg" /\ call[c].arg = "force"
        valid == call[c].arg \in ValidModes
    IN
    /\ At(c, "shutdown", "mode")
    /\ IF valid THEN Goto(c, "core") ELSE Proceed(c, "swap")
    /\ IF valid /\ ~late /\ object # "EddyqApp" THEN fire_abort ELSE UNCHANGED broadcast
    /\ UNCHANGED <<object, stateVars, runtime, launched, abort_handler, abortedWith,
                   pool, made, jobVars, history>>

\* abort_all, or the end of all tasks.  What workers wait for goes on in
\* JavaScript.
StopRuntime(b) ==
    /\ runtime' = [runtime EXCEPT ![b] = "down"]
    /\ worker' = [j \in Job |-> IF Home(j) = b THEN "none" ELSE worker[j]]

InFlight(b) == {j \in JobsOf(b) : worker[j] # "none"}

\* shutdown_with and shutdown_drain_bounded: cancel, and then by mode.
shutdown_core(c) ==
    LET b == call[c].on
        to == CASE call[c].arg = "drain" -> "drain"
                [] call[c].arg = "force" -> "reclaim"
                [] call[c].arg = "abandon" -> "finish"
    IN
    /\ At(c, "shutdown", "core")
    /\ call' = [call EXCEPT ![c].at = to, ![c].snapshot = InFlight(b)]
    /\ IF to = "drain"
       THEN runtime' = [runtime EXCEPT ![b] = "cancelled"] /\ UNCHANGED worker
       ELSE StopRuntime(b)
    /\ UNCHANGED <<object, stateVars, launched, abortVars, pool, made, row, js,
                   signalled, history>>

\* await_all: every worker has left its loop; what is in the channel is dropped.
drain_clean(c) ==
    LET b == call[c].on IN
    /\ At(c, "shutdown", "drain")
    /\ \A j \in JobsOf(b) : worker[j] # "waiting"
    /\ StopRuntime(b)
    /\ Goto(c, "finish")
    /\ UNCHANGED <<object, stateVars, launched, abortVars, pool, made, row, js,
                   signalled, history>>

\* Postgres only: the grace period is over.
drain_escalated(c) ==
    /\ At(c, "shutdown", "drain") /\ call[c].on = "pg"
    /\ StopRuntime("pg")
    /\ Goto(c, "reclaim")
    /\ UNCHANGED <<object, stateVars, launched, abortVars, pool, made, row, js,
                   signalled, history>>

\* Best effort.
reclaim_in_flight(c) ==
    /\ At(c, "shutdown", "reclaim")
    /\ \/ row' = [j \in Job |-> IF j \in call[c].snapshot /\ row[j] = "running"
                                THEN "pending" ELSE row[j]]
       \/ UNCHANGED row
    /\ Goto(c, "finish")
    /\ UNCHANGED <<object, stateVars, runtime, launched, abortVars, pool, made,
                   worker, js, signalled, history>>

shutdown_finish(c) ==
    /\ At(c, "shutdown", "finish")
    /\ IF object = "Eddyq" /\ call[c].arg = "force" THEN fire_abort ELSE UNCHANGED broadcast
    /\ shut' = shut \cup {call[c].on}
    /\ Proceed(c, "swap")
    /\ UNCHANGED <<object, stateVars, runtime, launched, abort_handler, abortedWith,
                   pool, made, jobVars, closed>>

shutdown(c) ==
    \/ shutdown_broadcast(c) \/ shutdown_swap(c) \/ shutdown_mode(c)
    \/ shutdown_core(c) \/ drain_clean(c) \/ drain_escalated(c)
    \/ reclaim_in_flight(c) \/ shutdown_finish(c)

\* Mutant: the runtime is forgotten and not abandoned.
close_swap_Forgets(c) ==
    /\ At(c, "close", "swap")
    /\ phase' = [phase EXCEPT !["pg"] = "Stopped"]
    /\ handlers' = [handlers EXCEPT !["pg"] = FALSE]
    /\ Goto(c, "drop")
    /\ UNCHANGED <<object, subscribed, runtime, launched, abortVars, pool, made,
                   jobVars, history>>

close_swap(c) ==
    /\ At(c, "close", "swap")
    /\ phase' = [phase EXCEPT !["pg"] = "Stopped"]
    /\ handlers' = [handlers EXCEPT !["pg"] = FALSE]
    /\ Goto(c, IF phase["pg"] = "Running" THEN "abandon" ELSE "drop")
    /\ UNCHANGED <<object, subscribed, runtime, launched, abortVars, pool, made,
                   jobVars, history>>

close_abandon(c) ==
    /\ At(c, "close", "abandon")
    /\ StopRuntime("pg")
    /\ Goto(c, "drop")
    /\ UNCHANGED <<object, stateVars, launched, abortVars, pool, made, row, js,
                   signalled, history>>

\* The abort function of Eddyq; an app keeps its own.
close_drop(c) ==
    /\ At(c, "close", "drop")
    /\ abort_handler' = (abort_handler /\ object = "EddyqApp")
    /\ Goto(c, "pool")
    /\ UNCHANGED <<object, stateVars, runtime, launched, broadcast, abortedWith, pool,
                   made, jobVars, history>>

close_pool(c) ==
    /\ At(c, "close", "pool")
    /\ pool' = FALSE /\ closed' = TRUE
    /\ Return(c)
    /\ UNCHANGED <<object, stateVars, runtime, launched, abortVars, made, jobVars, shut>>

close(c) == close_swap(c) \/ close_abandon(c) \/ close_drop(c) \/ close_pool(c)

-----------------------------------------------------------------------------
(* The runtime and its jobs.                                               *)

Reachable(b) == b = "pg" => pool

enqueue(j) ==
    /\ row[j] = "none" /\ Reachable(Home(j))
    /\ row' = [row EXCEPT ![j] = "pending"]
    /\ UNCHANGED <<object, stateVars, runtime, launched, abortVars, pool, call, made,
                   worker, js, signalled, history>>

claim(j) ==
    /\ runtime[Home(j)] = "up" /\ Reachable(Home(j))
    /\ row[j] = "pending" /\ QueueOf[j] \in subscribed[Home(j)]
    /\ row' = [row EXCEPT ![j] = "running"]
    /\ worker' = [worker EXCEPT ![j] = "channel"]
    /\ UNCHANGED <<object, stateVars, runtime, launched, abortVars, pool, call, made,
                   js, signalled, history>>

\* A worker takes it and the dispatcher calls its handler.
dispatch(j) ==
    /\ worker[j] = "channel" /\ runtime[Home(j)] = "up"
    /\ worker' = [worker EXCEPT ![j] = "waiting"]
    /\ js' = [js EXCEPT ![j] = "called"]
    /\ UNCHANGED <<object, stateVars, runtime, launched, abortVars, pool, call, made,
                   row, signalled, history>>

\* The promise is settled, or the timeout of the job is over; the verdict may
\* not reach the backend.
settle(j) ==
    /\ worker[j] = "waiting"
    /\ js[j] = "ended" \/ Backstop
    /\ worker' = [worker EXCEPT ![j] = "none"]
    /\ \/ Reachable(Home(j)) /\ row' = [row EXCEPT ![j] = "done"]
       \/ UNCHANGED row
    /\ UNCHANGED <<object, stateVars, runtime, launched, abortVars, pool, call, made,
                   js, signalled, history>>

\* Mutant: a call that arrives after the broadcast starts its handler.
wrapHandler_OneShot(j) ==
    /\ js[j] = "called"
    /\ js' = [js EXCEPT ![j] = "running"]
    /\ UNCHANGED <<object, stateVars, runtime, launched, abortVars, pool, call, made,
                   row, worker, signalled, history>>

\* lib.cjs: after the broadcast a call throws before its handler starts.
wrapHandler(j) ==
    /\ js[j] = "called"
    /\ js' = [js EXCEPT ![j] = IF abortedWith THEN "ended" ELSE "running"]
    /\ UNCHANGED <<object, stateVars, runtime, launched, abortVars, pool, call, made,
                   row, worker, signalled, history>>

HandlerEnds(j) ==
    /\ js[j] = "running" /\ j \notin Deaf
    /\ js' = [js EXCEPT ![j] = "ended"]
    /\ UNCHANGED <<object, stateVars, runtime, launched, abortVars, pool, call, made,
                   row, worker, signalled, history>>

\* The broadcast runs on the JavaScript thread.
ensureAbortHandler ==
    /\ broadcast
    /\ broadcast' = FALSE /\ abortedWith' = TRUE
    /\ signalled' = [j \in Job |-> signalled[j] \/ js[j] = "running"]
    /\ UNCHANGED <<object, stateVars, runtime, launched, abort_handler, pool, call,
                   made, row, worker, js, history>>

CallStep(c) == work(c) \/ subscribe_to(c) \/ start(c) \/ shutdown(c) \/ close(c)

Next ==
    \/ \E c \in Call : Invoke(c) \/ CallStep(c)
    \/ \E j \in Job : \/ enqueue(j) \/ claim(j) \/ dispatch(j) \/ settle(j)
                      \/ wrapHandler(j) \/ HandlerEnds(j)
    \/ ensureAbortHandler

Spec == Init /\ [][Next]_vars

\* Threads run, the JavaScript thread takes what is queued for it, and a
\* handler that listens ends when it is told to.
Fairness ==
    /\ WF_vars(ensureAbortHandler)
    /\ \A c \in Call : WF_vars(CallStep(c))
    /\ \A j \in Job : /\ WF_vars(dispatch(j)) /\ WF_vars(settle(j))
                      /\ WF_vars(wrapHandler(j))
                      /\ WF_vars(signalled[j] /\ HandlerEnds(j))

FairSpec == Spec /\ Fairness

-----------------------------------------------------------------------------

\* Types; and a worker is at a job only while its runtime lives.
TypeOK ==
    /\ object \in Objects
    /\ phase \in [Backend -> {"Building", "Running", "Stopped"}]
    /\ handlers \in [Backend -> BOOLEAN]
    /\ runtime \in [Backend -> {"none", "up", "cancelled", "down"}]
    /\ launched \in [Backend -> Nat]
    /\ {abort_handler, broadcast, abortedWith, pool, closed} \subseteq BOOLEAN
    /\ row \in [Job -> {"none", "pending", "running", "done"}]
    /\ worker \in [Job -> {"none", "channel", "waiting"}]
    /\ js \in [Job -> {"none", "called", "running", "ended"}]
    /\ signalled \in [Job -> BOOLEAN]
    /\ shut \subseteq Backend
    /\ \A j \in Job : worker[j] # "none" => runtime[Home(j)] \in {"up", "cancelled"}

\* A call that has the runtime of b in hand.
Holds(c, b) ==
    /\ call[c].on = b
    /\ \/ At(c, "start", "publish")
       \/ \E at \in {"mode", "core", "drain"} : At(c, "shutdown", at)
       \/ At(c, "close", "abandon")

\* A runtime that lives can be stopped: the object knows it, or a call that is
\* under way does.  Calls that overlap in any way, start with shutdown or
\* close among them, lose none.
RuntimeIsOwned ==
    \A b \in Backend : runtime[b] \in {"up", "cancelled"} =>
        phase[b] = "Running" \/ \E c \in Call : Holds(c, b)

\* However calls of start overlap, each other and the rest, a backend is
\* started once.
OneRuntime == \A b \in Backend : launched[b] <= 1

\* Every part of the object is in a state the code knows, and its runtime is
\* one and can be stopped (lib.rs:1003-1110, 1202-1330).
LifeInv == TypeOK /\ RuntimeIsOwned /\ OneRuntime

\* No handler runs on without knowing that the object was shut down, however
\* late its call came to the JavaScript thread.
AbortReachesAll == abortedWith => \A j \in Job : js[j] = "running" => signalled[j]

\* Every call comes back if handlers listen to their signal: a drain does not
\* wait for a handler that was never told.
CallsReturn == \A c \in Call : call[c] # Idle ~> call[c] = Idle

Quiet(b) == \A j \in JobsOf(b) : js[j] \notin {"called", "running"}

\* After a shutdown, in any mode, the handlers end, so that Node can exit; the
\* exception is a close that overlaps it and takes the abort function away.
ShutdownEndsHandlers ==
    \A b \in Backend : b \in shut ~> Quiet(b) \/ ~abort_handler

\* "it guarantees `close()` can't hang the process"
\* (crates/eddyq-napi/src/lib.rs:1290): the handlers end after a close.
CloseEndsHandlers == closed ~> Quiet("pg")

\* "subsequent calls let runtime callers (e.g. NestJS dynamic queue
\* registration) extend the subscribed set"
\* (crates/eddyq-napi/src/lib.rs:2920): no call takes a queue away.
SubscriptionsExtend ==
    [][\A b \in Backend : subscribed[b] \subseteq subscribed'[b]]_vars
=============================================================================
