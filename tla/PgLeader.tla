------------------------------ MODULE PgLeader ------------------------------
(***************************************************************************)
(* Which process does maintenance.  Every process runs an election loop    *)
(* over one row of eddyq_leader, and keeps the last answer in a flag that  *)
(* its sweeper, scheduler and cleanup loops look at before each pass.  The *)
(* row is a lease; the flag is not, and nothing ties it to the clock.      *)
(***************************************************************************)
EXTENDS Naturals, FiniteSets

CONSTANTS
    Node,         \* processes; one maintenance_id each
    NoNode,       \* no row yet
    Stoppable     \* processes that may crash or be shut down

ASSUME LeaderConstants == NoNode \notin Node /\ Stoppable \subseteq Node

VARIABLES
    lease,        \* the row: worker_id, and whether expires_at is in the future
    loop,         \* per process: where its leader loop is
    is_leader,    \* per process: the flag
    working,      \* processes in the middle of a maintenance pass
    lapsed        \* history: processes whose lease ran out since they last won

vars == <<lease, loop, is_leader, working, lapsed>>

Lease == [holder : Node \cup {NoNode}, valid : BOOLEAN]
Loop == {"waiting", "won", "lost", "resigning", "down"}

\* The row, the loops and the flags have the values the code gives them.
TypeOK ==
    /\ lease \in Lease
    /\ loop \in [Node -> Loop]
    /\ is_leader \in [Node -> BOOLEAN]
    /\ working \subseteq Node
    /\ lapsed \subseteq Node

Init ==
    /\ lease = [holder |-> NoNode, valid |-> FALSE]
    /\ loop = [n \in Node |-> "waiting"]
    /\ is_leader = [n \in Node |-> FALSE]
    /\ working = {}
    /\ lapsed = {}

-----------------------------------------------------------------------------

\* Mutant: the upsert forgets to look at expires_at.
try_elect_TakesOver(n) ==
    /\ loop[n] = "waiting"
    /\ lease' = [holder |-> n, valid |-> TRUE]
    /\ loop' = [loop EXCEPT ![n] = "won"]
    /\ lapsed' = lapsed \ {n}
    /\ UNCHANGED <<is_leader, working>>

\* Mutant: an expired lease can be refreshed by its holder only.
try_elect_OnlyRefresh(n) ==
    /\ loop[n] = "waiting"
    /\ IF lease.holder \in {NoNode, n}
       THEN /\ lease' = [holder |-> n, valid |-> TRUE]
            /\ loop' = [loop EXCEPT ![n] = "won"]
            /\ lapsed' = lapsed \ {n}
       ELSE /\ loop' = [loop EXCEPT ![n] = "lost"]
            /\ UNCHANGED <<lease, lapsed>>
    /\ UNCHANGED <<is_leader, working>>

\* The upsert on eddyq_leader: take an expired lease, refresh one's own, leave
\* another's alone.  Its answer is on the way to the process.  The loop gets
\* here at its start, on every tick, and when a peer's resignation wakes it.
try_elect(n) ==
    /\ loop[n] = "waiting"
    /\ IF ~lease.valid \/ lease.holder = n
       THEN /\ lease' = [holder |-> n, valid |-> TRUE]
            /\ loop' = [loop EXCEPT ![n] = "won"]
            /\ lapsed' = lapsed \ {n}
       ELSE /\ loop' = [loop EXCEPT ![n] = "lost"]
            /\ UNCHANGED <<lease, lapsed>>
    /\ UNCHANGED <<is_leader, working>>

\* The answer arrives, however late.
StoreAnswer(n) ==
    /\ loop[n] \in {"won", "lost"}
    /\ is_leader' = [is_leader EXCEPT ![n] = (loop[n] = "won")]
    /\ loop' = [loop EXCEPT ![n] = "waiting"]
    /\ UNCHANGED <<lease, working, lapsed>>

\* The answer is an error: it is logged, and the flag keeps its old value.
ElectionFails(n) ==
    /\ loop[n] \in {"won", "lost"}
    /\ loop' = [loop EXCEPT ![n] = "waiting"]
    /\ UNCHANGED <<lease, is_leader, working, lapsed>>

\* expires_at passes.
LeaseExpires ==
    /\ lease.valid
    /\ lease' = [lease EXCEPT !.valid = FALSE]
    /\ lapsed' = lapsed \cup {lease.holder}
    /\ UNCHANGED <<loop, is_leader, working>>

\* A sweeper, scheduler or cleanup tick: the flag is read once, before the pass.
StartPass(n) ==
    /\ n \notin working /\ loop[n] \notin {"resigning", "down"}
    /\ is_leader[n]
    /\ working' = working \cup {n}
    /\ UNCHANGED <<lease, loop, is_leader, lapsed>>

EndPass(n) ==
    /\ n \in working
    /\ working' = working \ {n}
    /\ UNCHANGED <<lease, loop, is_leader, lapsed>>

\* The token is cancelled; the loop leaves its select between two elections.
Cancelled(n) ==
    /\ n \in Stoppable /\ loop[n] = "waiting"
    /\ loop' = [loop EXCEPT ![n] = IF is_leader[n] THEN "resigning" ELSE "down"]
    /\ UNCHANGED <<lease, is_leader, working, lapsed>>

\* Mutant: whoever resigns ends the lease.
resign_AnyLease(n) ==
    /\ loop[n] = "resigning"
    /\ lease' = [lease EXCEPT !.valid = FALSE]
    /\ loop' = [loop EXCEPT ![n] = "down"]
    /\ UNCHANGED <<is_leader, working, lapsed>>

\* UPDATE ... SET expires_at = NOW() WHERE worker_id = me, if the flag is set.
\* A pass under way in another task of the process is not waited for.
resign(n) ==
    /\ loop[n] = "resigning"
    /\ lease' = [lease EXCEPT !.valid = @ /\ lease.holder # n]
    /\ loop' = [loop EXCEPT ![n] = "down"]
    /\ UNCHANGED <<is_leader, working, lapsed>>

\* Mutant: a failed resignation waits to be retried, and nothing retries it.
ResignFails_Waits(n) ==
    /\ loop[n] = "resigning"
    /\ loop' = [loop EXCEPT ![n] = "retrying"]
    /\ UNCHANGED <<lease, is_leader, working, lapsed>>

\* The UPDATE fails: the lease has to run out.
ResignFails(n) ==
    /\ loop[n] = "resigning"
    /\ loop' = [loop EXCEPT ![n] = "down"]
    /\ UNCHANGED <<lease, is_leader, working, lapsed>>

Crash(n) ==
    /\ n \in Stoppable /\ loop[n] # "down"
    /\ loop' = [loop EXCEPT ![n] = "down"]
    /\ working' = working \ {n}
    /\ UNCHANGED <<lease, is_leader, lapsed>>

leader_loop(n) ==
    \/ try_elect(n) \/ StoreAnswer(n) \/ ElectionFails(n)
    \/ Cancelled(n) \/ resign(n) \/ ResignFails(n)

Next ==
    \/ LeaseExpires
    \/ \E n \in Node :
          leader_loop(n) \/ StartPass(n) \/ EndPass(n) \/ Crash(n)

Spec == Init /\ [][Next]_vars

-----------------------------------------------------------------------------

Up(n) == loop[n] # "down"

\* A process that believes it leads and whose lease has not run out since it
\* won holds the lease.  So two processes can both believe it only after a
\* lapse: no takeover, refresh, late answer, failed election or resignation
\* makes a second leader by itself (leader.rs:12-46, 51-55).
UnlapsedLeaderHolds ==
    \A n \in Node : is_leader[n] /\ Up(n) /\ n \notin lapsed =>
                        lease.holder = n /\ lease.valid

\* A lease that has not run out is taken away by nobody but its holder.
LeaseIsRespected ==
    [][lease.valid /\ lease' # lease =>
          \/ lease.holder \in lapsed'
          \/ loop[lease.holder] = "resigning" /\ loop'[lease.holder] = "down"]_vars

\* Exactly one process at a time runs the maintenance loops (maintenance.md:3).
OneMaintainer == Cardinality(working) <= 1

\* Loops keep turning, the lease of a process that is gone runs out, the
\* database does not answer every election with an error, and from some time
\* on a running process refreshes its lease in time (every third of it).
Fairness ==
    /\ \A n \in Node :
          /\ WF_vars(try_elect(n)) /\ SF_vars(StoreAnswer(n))
          /\ WF_vars(resign(n)) /\ WF_vars(StartPass(n)) /\ WF_vars(EndPass(n))
          /\ WF_vars(~Up(n) /\ lease.holder = n /\ LeaseExpires)
    /\ <>[][LeaseExpires => ~Up(lease.holder)]_vars

FairSpec == Spec /\ Fairness

\* As long as one process stays up, maintenance goes on, whoever dies, resigns
\* or holds the lease meanwhile (maintenance.md:43).
MaintenanceGoesOn == []<>(\E n \in working : Up(n))
=============================================================================
