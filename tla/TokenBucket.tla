----------------------------- MODULE TokenBucket -----------------------------
(***************************************************************************)
(* The rate limit of one group, on either backend: a token bucket in the   *)
(* row (Postgres) or hash (Redis) of the group, refilled by the clock of   *)
(* the process that claims.                                                *)
(*                                                                         *)
(* The clock is read before the bucket is locked or the script is called,  *)
(* so the bucket sees times out of order.  Tokens are fractions in the     *)
(* code; here they count in units of 1/Period, so that one token is Period *)
(* units and a unit of time refills Rate of them.                          *)
(***************************************************************************)
EXTENDS Integers

CONSTANTS
    Proc,         \* processes that claim
    Backends,     \* "pg", "redis"
    Rate,         \* rate_count
    Period,       \* rate_period_ms
    Batch,        \* batch_size of a claim
    Operated,     \* does an operator set and clear the limit?
    NotRead,      \* a process that has not read its clock
    MaxJobs,      \* bound: jobs enqueued
    MaxTime       \* bound: the last instant looked at

ASSUME BucketConstants ==
    /\ Backends \subseteq {"pg", "redis"}
    /\ Rate \in Nat \ {0} /\ Period \in Nat \ {0} /\ Batch \in Nat \ {0}
    /\ Operated \in BOOLEAN
    /\ NotRead \notin Nat
    /\ MaxJobs \in Nat /\ MaxTime \in Nat

VARIABLES
    backend,      \* chosen once
    now,          \* the time
    read,         \* per process: its now_utc or now_ms, read for a claim
    limited,      \* does the group have a rate?
    tokens,       \* tokens, tokens_refilled_at
    refilled_at,
    waiting,      \* pending jobs of the group
    enqueued,     \* history: jobs enqueued
    since,        \* history: when the rate was set, jobs started since then,
    starts,       \* the time by which refilled_at was moved back since then,
    rewound,      \* the refill that ran over the brim,
    spilled,
    log           \* and jobs started at each instant since then

vars == <<backend, now, read, limited, tokens, refilled_at, waiting, enqueued,
          since, starts, rewound, spilled, log>>
bucketVars == <<limited, tokens, refilled_at>>
history == <<since, starts, rewound, spilled, log>>

Full == Rate * Period
AtMost(a, b) == IF a < b THEN a ELSE b

Init ==
    /\ backend \in Backends
    /\ now = 0
    /\ read = [p \in Proc |-> NotRead]
    /\ limited = TRUE /\ tokens = Full /\ refilled_at = 0
    /\ waiting = 0 /\ enqueued = 0
    /\ since = 0 /\ starts = 0 /\ rewound = 0 /\ spilled = 0
    /\ log = [i \in 0..MaxTime |-> 0]

Elapse ==
    /\ now < MaxTime
    /\ now' = now + 1
    /\ UNCHANGED <<backend, read, bucketVars, waiting, enqueued, history>>

Enqueue ==
    /\ enqueued < MaxJobs
    /\ enqueued' = enqueued + 1 /\ waiting' = waiting + 1
    /\ UNCHANGED <<backend, now, read, bucketVars, history>>

\* The initial bucket is full; history starts again.
set_rate ==
    /\ Operated
    /\ limited' = TRUE /\ tokens' = Full /\ refilled_at' = now
    /\ since' = now /\ starts' = 0 /\ rewound' = 0 /\ spilled' = 0
    /\ log' = [i \in 0..MaxTime |-> 0]
    /\ UNCHANGED <<backend, now, read, waiting, enqueued>>

clear_rate ==
    /\ Operated /\ limited
    /\ limited' = FALSE /\ tokens' = 0 /\ refilled_at' = 0
    /\ UNCHANGED <<backend, now, read, waiting, enqueued, history>>

-----------------------------------------------------------------------------

\* let now_utc = Utc::now(), or self.now_ms()
ReadClock(p) ==
    /\ read[p] = NotRead
    /\ read' = [read EXCEPT ![p] = now]
    /\ UNCHANGED <<backend, now, bucketVars, waiting, enqueued, history>>

\* tokens + rate * elapsed, where a clock that went back has elapsed nothing
Credit(t) == tokens + (IF t < refilled_at THEN 0 ELSE Rate * (t - refilled_at))

\* Mutant: tokens are kept as whole numbers.
Refilled_Whole(t) == (AtMost(Full, Credit(t)) \div Period) * Period

\* The balance at time t: never less than it was, never above the brim.
Refilled(t) == AtMost(Full, Credit(t))

\* The bucket is written back with the time the refill was computed for, even
\* if that is earlier than the time written there; n jobs start.
Spend(t, n) ==
    /\ tokens' = Refilled(t) - n * Period
    /\ refilled_at' = t
    /\ starts' = starts + n
    /\ rewound' = rewound + (IF t < refilled_at THEN refilled_at - t ELSE 0)
    /\ spilled' = spilled + (IF Credit(t) > Full THEN Credit(t) - Full ELSE 0)
    /\ log' = [log EXCEPT ![now] = @ + n]
    /\ waiting' = waiting - n
    /\ UNCHANGED <<limited, since>>

\* Mutant: a job starts if a token is left over after it.
Allowed_Strict(t) == AtMost((Refilled(t) - 1) \div Period, AtMost(waiting, Batch))

\* Jobs of this claim that find a token.
Allowed(t) == AtMost(Refilled(t) \div Period, AtMost(waiting, Batch))

Claiming(p) ==
    /\ read[p] # NotRead /\ waiting > 0
    /\ read' = [read EXCEPT ![p] = NotRead]
    /\ UNCHANGED <<backend, now, enqueued>>

\* Postgres: the row is written with the jobs that are accepted, and not at
\* all if there are none.
ClaimPg(p) ==
    /\ backend = "pg" /\ limited /\ Claiming(p)
    /\ IF Allowed(read[p]) > 0 THEN Spend(read[p], Allowed(read[p]))
       ELSE UNCHANGED <<bucketVars, waiting, history>>

\* Redis: refill_tokens and persist_tokens for each job that is looked at,
\* the one that is turned away included.
ClaimRedis(p) ==
    /\ backend = "redis" /\ limited /\ Claiming(p)
    /\ Spend(read[p], Allowed(read[p]))

ClaimUnlimited(p) ==
    /\ ~limited /\ Claiming(p)
    /\ waiting' = waiting - AtMost(waiting, Batch)
    /\ UNCHANGED <<bucketVars, history>>

\* Nothing is pending, or the claim fails.
ClaimEmpty(p) ==
    /\ read[p] # NotRead
    /\ read' = [read EXCEPT ![p] = NotRead]
    /\ UNCHANGED <<backend, now, bucketVars, waiting, enqueued, history>>

Claim(p) == ClaimPg(p) \/ ClaimRedis(p) \/ ClaimUnlimited(p)

Next ==
    \/ Elapse \/ Enqueue \/ set_rate \/ clear_rate
    \/ \E p \in Proc : ReadClock(p) \/ Claim(p) \/ ClaimEmpty(p)

Spec == Init /\ [][Next]_vars

\* Time passes and fetchers keep polling; claims do not fail for ever.
Fairness ==
    /\ WF_vars(Elapse)
    /\ \A p \in Proc : WF_vars(ReadClock(p)) /\ SF_vars(Claim(p))

FairSpec == Spec /\ Fairness

-----------------------------------------------------------------------------

\* Times and counts are numbers, and the balance is between empty and full.
TypeOK ==
    /\ backend \in Backends
    /\ now \in 0..MaxTime /\ refilled_at \in Nat /\ since \in Nat
    /\ read \in [Proc -> Nat \cup {NotRead}]
    /\ limited \in BOOLEAN
    /\ tokens \in 0..Full
    /\ waiting \in Nat /\ enqueued \in Nat /\ starts \in Nat
    /\ rewound \in Nat /\ spilled \in Nat
    /\ log \in [0..MaxTime -> Nat]

\* No token is minted or lost: what was there at the beginning, what time has
\* refilled, and what was refilled twice because a claim with an older clock
\* moved tokens_refilled_at back, have all been spent on starts, have run over
\* the brim, or are in the bucket.  Refused claims and fractions of a token
\* change nothing in this.
StartsAccounted ==
    limited => starts * Period + tokens + spilled
                  = Full + Rate * (refilled_at - since + rewound)

\* The balance stays between empty and full, and the books balance.
BucketInv == TypeOK /\ StartsAccounted

\* Jobs wait for want of a token and for nothing else: they all start, unless
\* time ends while a limited bucket holds less than one token.
JobsStart ==
    waiting > 0 ~>
        \/ waiting = 0
        \/ now = MaxTime /\ limited /\ Refilled(now) < Period

\* "at most `count` jobs may *start* per `periodMs` window"
\* (docs/node/groups.md:39).
WindowRespected ==
    \A i \in 0..MaxTime :
        LET InWindow[k \in 0..Period] ==
                IF k = 0 THEN 0
                ELSE InWindow[k - 1] + (IF i + k - 1 <= MaxTime THEN log[i + k - 1] ELSE 0)
        IN limited => InWindow[Period] <= Rate
=============================================================================
