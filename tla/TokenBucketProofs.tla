-------------------------- MODULE TokenBucketProofs --------------------------
(***************************************************************************)
(* The token bucket keeps its books for every rate, period, batch size and *)
(* number of processes: TypeOK and StartsAccounted together are inductive. *)
(***************************************************************************)
EXTENDS TokenBucket, TLAPS

\* A period's worth of refill is linear in time.
LEMMA Linear ==
    ASSUME NEW a \in Int, NEW b \in Int, NEW c \in Int
    PROVE  a * (b + c) = a * b + a * c
  OBVIOUS

\* Products of natural numbers are natural numbers.
LEMMA ProductNat == ASSUME NEW a \in Nat, NEW b \in Nat PROVE a * b \in Nat
  OBVIOUS

\* As many tokens as the claim takes are in the refilled bucket.
LEMMA AllowedPaid ==
    ASSUME TypeOK, NEW t \in Nat
    PROVE  /\ Credit(t) \in Nat /\ Refilled(t) \in 0..Full
           /\ waiting > 0 => /\ Allowed(t) \in Nat /\ Allowed(t) <= waiting
                             /\ Allowed(t) * Period <= Refilled(t)
<1> USE BucketConstants
<1>1. Full \in Nat
  BY ProductNat DEF Full
<1>2. Credit(t) \in Nat
  <2>1. CASE t < refilled_at
    BY <1>1, <2>1 DEF TypeOK, Credit
  <2>2. CASE ~(t < refilled_at)
    <3>1. t - refilled_at \in Nat
      BY <2>2 DEF TypeOK
    <3>2. Rate * (t - refilled_at) \in Nat
      BY <3>1, ProductNat
    <3> QED BY <1>1, <2>2, <3>2 DEF TypeOK, Credit
  <2> QED BY <2>1, <2>2
<1>3. Refilled(t) \in 0..Full
  <2>1. Refilled(t) = Credit(t) \/ Refilled(t) = Full
    BY DEF Refilled, AtMost
  <2>2. Refilled(t) <= Full
    BY <1>1, <1>2 DEF Refilled, AtMost
  <2> QED BY <1>1, <1>2, <2>1, <2>2
<1>4. Refilled(t) \div Period \in Nat /\ (Refilled(t) \div Period) * Period <= Refilled(t)
  BY <1>3
<1>5. ASSUME waiting > 0
      PROVE  /\ Allowed(t) \in Nat /\ Allowed(t) <= waiting
             /\ Allowed(t) <= Refilled(t) \div Period
  BY <1>4, <1>5 DEF TypeOK, Allowed, AtMost
<1>6. ASSUME waiting > 0 PROVE Allowed(t) * Period <= Refilled(t)
  <2>1. Allowed(t) * Period <= (Refilled(t) \div Period) * Period
    BY <1>4, <1>5, <1>6
  <2> QED BY <1>3, <1>4, <1>5, <1>6, <2>1
<1> QED BY <1>2, <1>3, <1>5, <1>6

\* What a claim writes keeps the types and the books.
LEMMA SpendKeeps ==
    ASSUME BucketInv, limited, NEW t \in Nat, waiting > 0, Spend(t, Allowed(t)),
           backend' = backend, now' = now, enqueued' = enqueued,
           read' \in [Proc -> Nat \cup {NotRead}]
    PROVE  BucketInv'
<1> USE BucketConstants
<1> DEFINE n == Allowed(t)
           c == Credit(t)
           back == IF t < refilled_at THEN refilled_at - t ELSE 0
<1> HIDE DEF n, c, back
<1>1. /\ TypeOK /\ Full \in Nat
      /\ c \in Nat /\ Refilled(t) \in 0..Full
      /\ n \in Nat /\ n <= waiting /\ n * Period \in Nat /\ n * Period <= Refilled(t)
  BY AllowedPaid, ProductNat DEF BucketInv, n, c, Full
<1>2. back \in Nat /\ rewound' = rewound + back /\ refilled_at' = t /\ since' = since
  BY <1>1 DEF Spend, back, TypeOK
<1>3. tokens' = Refilled(t) - n * Period /\ starts' = starts + n /\ waiting' = waiting - n
  BY DEF Spend, n
<1>4. spilled' \in Nat /\ spilled' + Refilled(t) = spilled + c
  <2>1. spilled \in Nat /\ spilled' = spilled + (IF c > Full THEN c - Full ELSE 0)
    BY <1>1 DEF Spend, TypeOK, c
  <2>2. Refilled(t) = IF Full < c THEN Full ELSE c
    BY DEF Refilled, AtMost, c
  <2>3. CASE c > Full
    <3>1. spilled' = spilled + (c - Full) /\ Refilled(t) = Full
      BY <1>1, <2>1, <2>2, <2>3
    <3> QED BY <1>1, <2>1, <2>3, <3>1
  <2>4. CASE ~(c > Full)
    <3>1. spilled' = spilled /\ Refilled(t) = c
      BY <1>1, <2>1, <2>2, <2>4
    <3> QED BY <2>1, <3>1
  <2> QED BY <2>3, <2>4
<1>5. TypeOK'
  <2>1. log' \in [0..MaxTime -> Nat]
    <3>1. now \in 0..MaxTime /\ log \in [0..MaxTime -> Nat] /\ log[now] + n \in Nat
      BY <1>1 DEF TypeOK
    <3>2. log' = [log EXCEPT ![now] = log[now] + n]
      BY DEF Spend, n
    <3> QED BY <3>1, <3>2
  <2>2. tokens' \in 0..Full
    BY <1>1, <1>3
  <2>3. waiting' \in Nat /\ starts' \in Nat /\ rewound' \in Nat
    BY <1>1, <1>2, <1>3 DEF TypeOK
  <2>4. limited' \in BOOLEAN
    BY DEF Spend
  <2> QED BY <1>1, <1>2, <1>4, <2>1, <2>2, <2>3, <2>4 DEF TypeOK, Full
<1>6. c = tokens + Rate * (t - refilled_at + back)
  BY <1>1 DEF c, back, Credit, TypeOK
<1>7. StartsAccounted'
  <2>1. starts * Period + tokens + spilled = Full + Rate * (refilled_at - since + rewound)
    BY DEF BucketInv, StartsAccounted
  <2>2. starts' * Period = starts * Period + n * Period
    BY <1>1, <1>3 DEF TypeOK
  <2>3. Rate * (refilled_at' - since' + rewound')
          = Rate * (refilled_at - since + rewound) + Rate * (t - refilled_at + back)
    <3>1. refilled_at' - since' + rewound'
            = (refilled_at - since + rewound) + (t - refilled_at + back)
      BY <1>1, <1>2 DEF TypeOK
    <3>2. /\ refilled_at - since + rewound \in Int /\ t - refilled_at + back \in Int
          /\ Rate \in Int
      BY <1>1, <1>2 DEF TypeOK
    <3> QED BY <3>1, <3>2, Linear
  <2> DEFINE old == Rate * (refilled_at - since + rewound)
             new == Rate * (t - refilled_at + back)
             spent == starts * Period
             paid == n * Period
             left == Refilled(t)
  <2>4. /\ old \in Int /\ new \in Int /\ spent \in Nat /\ paid \in Nat /\ left \in Nat
        /\ tokens \in Nat /\ spilled \in Nat /\ Full \in Nat
    BY <1>1, <1>2 DEF TypeOK
  <2>5. /\ spent + tokens + spilled = Full + old
        /\ spilled' + left = spilled + c
        /\ c = tokens + new
        /\ tokens' = left - paid
    BY <2>1, <1>3, <1>4, <1>6
  <2>6. spent + paid + (left - paid) + spilled' = Full + (old + new)
    <3> HIDE DEF old, new, spent, paid, left
    <3>1. /\ spent \in Int /\ paid \in Int /\ left \in Int /\ old \in Int /\ new \in Int
          /\ tokens \in Int /\ spilled \in Int /\ spilled' \in Int /\ Full \in Int /\ c \in Int
      BY <1>1, <1>4, <2>4
    <3>2. /\ spent + tokens + spilled = Full + old
          /\ spilled' + left = spilled + c
          /\ c = tokens + new
      BY <2>5
    <3>3. spent + (spilled + c) = Full + (old + new)
      BY <3>1, <3>2
    <3>4. spent + paid + (left - paid) = spent + left
      BY <3>1
    <3> DEFINE spill1 == spilled'
    <3>5. spill1 \in Int /\ spill1 + left = spilled + c
      BY <3>1, <3>2
    <3> HIDE DEF spill1
    <3>6. spent + left + spill1 = spent + (spilled + c)
      BY <3>1, <3>5
    <3>7. spent + left + spilled' = Full + (old + new)
      BY <3>3, <3>6 DEF spill1
    <3> QED BY <3>1, <3>4, <3>7
  <2>7. starts' * Period + tokens' + spilled' = Full + Rate * (refilled_at' - since' + rewound')
    BY <2>2, <2>3, <2>5, <2>6
  <2> QED BY <2>7 DEF StartsAccounted, Full
<1> QED BY <1>5, <1>7 DEF BucketInv

\* A step that leaves the bucket and its history alone keeps the books.
LEMMA BooksUntouched ==
    ASSUME StartsAccounted, UNCHANGED <<bucketVars, history>>
    PROVE  StartsAccounted'
  BY DEF StartsAccounted, bucketVars, history, Full

\* The books are right at the start.
LEMMA InitInv == Init => BucketInv
<1> SUFFICES ASSUME Init PROVE BucketInv
  OBVIOUS
<1> USE BucketConstants
<1>1. Full \in Nat
  BY ProductNat DEF Full
<1>2. TypeOK
  BY <1>1 DEF Init, TypeOK
<1>3. StartsAccounted
  <2>1. 0 * Period = 0 /\ Rate * (0 - 0 + 0) = 0
    OBVIOUS
  <2> QED BY <1>1, <2>1 DEF Init, StartsAccounted
<1> QED BY <1>2, <1>3 DEF BucketInv

\* Every step keeps the types and the books.
LEMMA NextInv == BucketInv /\ [Next]_vars => BucketInv'
<1> SUFFICES ASSUME BucketInv, [Next]_vars PROVE BucketInv'
  OBVIOUS
<1> USE BucketConstants
<1>1. TypeOK /\ StartsAccounted /\ Full \in Nat
  BY ProductNat DEF BucketInv, Full
<1>2. CASE Elapse
  <2>1. TypeOK'
    BY <1>1, <1>2 DEF Elapse, TypeOK, bucketVars, history, Full
  <2> QED BY <1>1, <1>2, <2>1, BooksUntouched DEF Elapse, BucketInv
<1>3. CASE Enqueue
  <2>1. TypeOK'
    BY <1>1, <1>3 DEF Enqueue, TypeOK, bucketVars, history, Full
  <2> QED BY <1>1, <1>3, <2>1, BooksUntouched DEF Enqueue, BucketInv
<1>4. CASE set_rate
  <2>1. TypeOK'
    BY <1>1, <1>4 DEF set_rate, TypeOK, Full
  <2>2. 0 * Period = 0 /\ now - now + 0 = 0 /\ Rate * 0 = 0
    BY <1>1 DEF TypeOK
  <2>3. StartsAccounted'
    BY <1>1, <1>4, <2>2 DEF set_rate, StartsAccounted
  <2> QED BY <2>1, <2>3 DEF BucketInv
<1>5. CASE clear_rate
  <2>1. TypeOK'
    <3>1. 0 \in 0..Full
      BY <1>1
    <3> QED BY <1>1, <1>5, <3>1 DEF clear_rate, TypeOK, history, Full
  <2>2. StartsAccounted'
    BY <1>5 DEF clear_rate, StartsAccounted
  <2> QED BY <2>1, <2>2 DEF BucketInv
<1>6. ASSUME NEW p \in Proc, ReadClock(p) PROVE BucketInv'
  <2>1. read' \in [Proc -> Nat \cup {NotRead}]
    BY <1>1, <1>6 DEF ReadClock, TypeOK
  <2>2. TypeOK'
    BY <1>1, <1>6, <2>1 DEF ReadClock, TypeOK, bucketVars, history, Full
  <2> QED BY <1>1, <1>6, <2>2, BooksUntouched DEF ReadClock, BucketInv
<1>7. ASSUME NEW p \in Proc, Claim(p) \/ ClaimEmpty(p) PROVE BucketInv'
  <2>1. /\ read[p] \in Nat
        /\ read' \in [Proc -> Nat \cup {NotRead}]
        /\ backend' = backend /\ now' = now /\ enqueued' = enqueued
    BY <1>1, <1>7 DEF Claim, ClaimPg, ClaimRedis, ClaimUnlimited, ClaimEmpty, Claiming, TypeOK
  <2>2. ASSUME limited, waiting > 0, Spend(read[p], Allowed(read[p])) PROVE BucketInv'
    BY <2>1, <2>2, SpendKeeps
  <2>3. ASSUME UNCHANGED <<bucketVars, history>>, waiting' \in Nat PROVE BucketInv'
    <3>1. TypeOK'
      BY <1>1, <2>1, <2>3 DEF TypeOK, bucketVars, history, Full
    <3> QED BY <1>1, <2>3, <3>1, BooksUntouched DEF BucketInv
  <2>4. waiting \in Nat /\ (waiting > 0 => waiting - AtMost(waiting, Batch) \in Nat)
    BY <1>1 DEF TypeOK, AtMost
  <2>5. CASE ClaimPg(p)
    BY <2>2, <2>3, <2>4, <2>5 DEF ClaimPg, Claiming
  <2>6. CASE ClaimRedis(p)
    BY <2>2, <2>6 DEF ClaimRedis, Claiming
  <2>7. CASE ClaimUnlimited(p)
    BY <2>3, <2>4, <2>7 DEF ClaimUnlimited, Claiming
  <2>8. CASE ClaimEmpty(p)
    BY <2>3, <2>4, <2>8 DEF ClaimEmpty
  <2> QED BY <1>7, <2>5, <2>6, <2>7, <2>8 DEF Claim
<1>8. CASE UNCHANGED vars
  <2>1. TypeOK'
    BY <1>1, <1>8 DEF vars, TypeOK, bucketVars, history, Full
  <2> QED BY <1>1, <1>8, <2>1, BooksUntouched DEF vars, bucketVars, history, BucketInv
<1>9. CASE \E p \in Proc : ReadClock(p) \/ Claim(p) \/ ClaimEmpty(p)
  BY <1>6, <1>7, <1>9
<1> QED BY <1>2, <1>3, <1>4, <1>5, <1>8, <1>9 DEF Next

\* For every rate, period and number of claiming processes, the balance stays
\* between empty and full and no claim mints or loses a token, although clocks
\* are read before the bucket is locked and tokens_refilled_at moves back.
THEOREM TokensAccounted == Spec => []BucketInv
  BY InitInv, NextInv, PTL DEF Spec
=============================================================================
