------------------------------ MODULE MCNapiApp ------------------------------
(* Small instances of NapiApp.  In an app the job is on Redis, whose half  *)
(* is started and shut down last.                                          *)
EXTENDS NapiApp

CONSTANTS c1, c2, j1

OneQueue == [j \in Job |-> "main"]
MainOnRedis == [q \in {"main", "hooks"} |-> IF q = "main" THEN "redis" ELSE "pg"]
More == {{"main", "late"}}
Other == {{"late"}}

\* Two starts, so that one can fail or overlap the other; one of the rest.
TwoStarts == [o \in Ops |-> IF o = "start" THEN 2 ELSE 1]

\* A program that closes its queue and never shuts it down.
CloseOnly == [o \in Ops |-> IF o \in {"work", "start", "close"} THEN 1 ELSE 0]
=============================================================================
