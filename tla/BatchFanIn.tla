----------------------------- MODULE BatchFanIn -----------------------------
(***************************************************************************)
(* What a batch promises, without counters, rows or transactions: a batch  *)
(* is opened with a set of jobs, jobs leave the set once as they settle,   *)
(* and in the very step in which the last one leaves, the batch is done    *)
(* and its callback is enqueued; a batch opened with no job is done at     *)
(* once.                                                                   *)
(***************************************************************************)
EXTENDS Naturals

CONSTANTS
    Job,
    Batch,
    HasCallback   \* the batches with an on_complete

VARIABLES
    open,         \* per batch: its jobs that have not settled
    status,       \* per batch: "absent", "pending" or "complete"
    callbacks     \* per batch: how many callback jobs were enqueued

vars == <<open, status, callbacks>>

Init ==
    /\ open = [b \in Batch |-> {}]
    /\ status = [b \in Batch |-> "absent"]
    /\ callbacks = [b \in Batch |-> 0]

\* Enqueuing the callback is part of becoming complete.
Calls(b) == IF b \in HasCallback THEN callbacks[b] + 1 ELSE callbacks[b]

Open(b) ==
    /\ status[b] = "absent"
    /\ \E I \in SUBSET Job :
          /\ open' = [open EXCEPT ![b] = I]
          /\ status' = [status EXCEPT
                           ![b] = IF I = {} THEN "complete" ELSE "pending"]
          /\ callbacks' = [callbacks EXCEPT ![b] = IF I = {} THEN Calls(b) ELSE @]

\* Some jobs settle, of any number of batches.
Settle ==
    \E D \in SUBSET Job :
        LET last == {b \in Batch : open[b] # {} /\ open[b] \subseteq D} IN
        /\ open' = [b \in Batch |-> open[b] \ D]
        /\ status' = [b \in Batch |-> IF b \in last THEN "complete" ELSE status[b]]
        /\ callbacks' = [b \in Batch |-> IF b \in last THEN Calls(b)
                                         ELSE callbacks[b]]

Next == (\E b \in Batch : Open(b)) \/ Settle

Spec == Init /\ [][Next]_vars
=============================================================================
