--------------------------- MODULE PgLeaderProofs ---------------------------
(***************************************************************************)
(* The maintenance lease, for any set of processes.                        *)
(***************************************************************************)
EXTENDS PgLeader, TLAPS

\* The part an answer on its way adds: a process that has won, and does not
\* know it yet, holds the lease as well.
Claimant(n) == Up(n) /\ n \notin lapsed /\ (is_leader[n] \/ loop[n] = "won")

\* A lease that is valid is somebody's.
Held == lease.valid => lease.holder \in Node

LeaderInv ==
    /\ TypeOK /\ Held
    /\ \A n \in Node : Claimant(n) => lease.holder = n /\ lease.valid

\* Nobody leads at the start.
LEMMA LeaderInit == Init => LeaderInv
BY LeaderConstants DEF Init, LeaderInv, TypeOK, Held, Lease, Loop, Claimant

\* Every step keeps the type invariant.
LEMMA LeaderType == TypeOK /\ Held /\ [Next]_vars => TypeOK' /\ Held'
<1> SUFFICES ASSUME TypeOK, Held, [Next]_vars PROVE TypeOK' /\ Held'
    OBVIOUS
<1> USE LeaderConstants DEF TypeOK, Lease, Loop, Held
<1>1. CASE LeaseExpires
      BY <1>1 DEF LeaseExpires
<1>2. ASSUME NEW n \in Node, leader_loop(n) PROVE TypeOK' /\ Held'
  <2>1. CASE try_elect(n)
    <3>1. CASE ~lease.valid \/ lease.holder = n
      <4> DEFINE won == [holder |-> n, valid |-> TRUE]
      <4>0. won \in Lease /\ won.holder = n
            OBVIOUS
      <4>1. lease' = won
            BY <2>1, <3>1, Zenon DEF try_elect
      <4> HIDE DEF won
      <4>2. loop' \in [Node -> Loop] /\ lapsed' \subseteq Node
            BY <2>1, <3>1 DEF try_elect
      <4>3. is_leader' = is_leader /\ working' = working
            BY <2>1 DEF try_elect
      <4> QED BY <4>0, <4>1, <4>2, <4>3
    <3>2. CASE ~(~lease.valid \/ lease.holder = n)
          BY <2>1, <3>2 DEF try_elect
    <3> QED BY <3>1, <3>2
  <2>2. CASE StoreAnswer(n) BY <2>2 DEF StoreAnswer
  <2>3. CASE ElectionFails(n) BY <2>3 DEF ElectionFails
  <2>4. CASE Cancelled(n) BY <2>4 DEF Cancelled
  <2>5. CASE resign(n) BY <2>5 DEF resign
  <2>6. CASE ResignFails(n) BY <2>6 DEF ResignFails
  <2> QED BY <1>2, <2>1, <2>2, <2>3, <2>4, <2>5, <2>6 DEF leader_loop
<1>3. ASSUME NEW n \in Node, StartPass(n) PROVE TypeOK' /\ Held'
      BY <1>3 DEF StartPass
<1>4. ASSUME NEW n \in Node, EndPass(n) PROVE TypeOK' /\ Held'
      BY <1>4 DEF EndPass
<1>5. ASSUME NEW n \in Node, Crash(n) PROVE TypeOK' /\ Held'
      BY <1>5 DEF Crash
<1>6. CASE UNCHANGED vars
      BY <1>6 DEF vars
<1> QED BY <1>1, <1>2, <1>3, <1>4, <1>5, <1>6 DEF Next

\* Every step keeps claimants in possession: only an expired lease changes
\* hands, and only its own holder ends it early, going down with it.
LEMMA LeaderPreserved == LeaderInv /\ [Next]_vars => LeaderInv'
<1> SUFFICES ASSUME LeaderInv, [Next]_vars,
                    NEW m \in Node, Claimant(m)'
             PROVE  (lease.holder = m /\ lease.valid)'
    BY LeaderType DEF LeaderInv
<1> USE DEF LeaderInv, TypeOK, Lease, Loop, Claimant, Up
<1>1. CASE LeaseExpires
      BY <1>1 DEF LeaseExpires
<1>2. ASSUME NEW n \in Node, leader_loop(n) PROVE (lease.holder = m /\ lease.valid)'
  <2>1. CASE try_elect(n) BY <2>1 DEF try_elect
  <2>2. CASE StoreAnswer(n) BY <2>2 DEF StoreAnswer
  <2>3. CASE ElectionFails(n) BY <2>3 DEF ElectionFails
  <2>4. CASE Cancelled(n) BY <2>4 DEF Cancelled
  <2>5. CASE resign(n) BY <2>5 DEF resign
  <2>6. CASE ResignFails(n) BY <2>6 DEF ResignFails
  <2> QED BY <1>2, <2>1, <2>2, <2>3, <2>4, <2>5, <2>6 DEF leader_loop
<1>3. ASSUME NEW n \in Node, StartPass(n) PROVE (lease.holder = m /\ lease.valid)'
      BY <1>3 DEF StartPass
<1>4. ASSUME NEW n \in Node, EndPass(n) PROVE (lease.holder = m /\ lease.valid)'
      BY <1>4 DEF EndPass
<1>5. ASSUME NEW n \in Node, Crash(n) PROVE (lease.holder = m /\ lease.valid)'
      BY <1>5 DEF Crash
<1>6. CASE UNCHANGED vars
      BY <1>6 DEF vars
<1> QED BY <1>1, <1>2, <1>3, <1>4, <1>5, <1>6 DEF Next

\* The row, the loops and the flags keep the values the code gives them
\* (leader.rs, runtime.rs leader_loop).
THEOREM LeaderTypeCorrect == Spec => []TypeOK
<1>1. LeaderInv => TypeOK
      BY DEF LeaderInv
<1> QED BY <1>1, LeaderInit, LeaderPreserved, PTL DEF Spec

\* A process that believes it leads and has not let its lease lapse holds it;
\* so there is at most one such process (leader.rs try_elect, runtime.rs
\* leader_loop).
THEOREM LeaderHoldsLease == Spec => []UnlapsedLeaderHolds
<1>1. LeaderInv => UnlapsedLeaderHolds
      BY DEF LeaderInv, Claimant, UnlapsedLeaderHolds
<1> QED BY <1>1, LeaderInit, LeaderPreserved, PTL DEF Spec

\* No election and no resignation ends the unexpired lease of another process
\* (the CASE of try_elect, the WHERE of resign).
THEOREM LeaseNeverStolen == Spec => LeaseIsRespected
<1>1. TypeOK /\ [Next]_vars =>
          [lease.valid /\ lease' # lease =>
              \/ lease.holder \in lapsed'
              \/ loop[lease.holder] = "resigning"
                    /\ loop'[lease.holder] = "down"]_vars
  <2> SUFFICES ASSUME TypeOK, [Next]_vars, lease.valid, lease' # lease
               PROVE  \/ lease.holder \in lapsed'
                      \/ loop[lease.holder] = "resigning"
                            /\ loop'[lease.holder] = "down"
      BY DEF vars
  <2> USE DEF TypeOK, Lease, Loop
  <2>1. CASE LeaseExpires BY <2>1 DEF LeaseExpires
  <2>2. ASSUME NEW n \in Node, leader_loop(n)
        PROVE  loop[lease.holder] = "resigning" /\ loop'[lease.holder] = "down"
    <3>1. ~try_elect(n) BY DEF try_elect
    <3>2. CASE resign(n) BY <3>2 DEF resign
    <3> QED BY <2>2, <3>1, <3>2
            DEF leader_loop, StoreAnswer, ElectionFails, Cancelled, ResignFails
  <2>3. ASSUME NEW n \in Node, StartPass(n) \/ EndPass(n) \/ Crash(n) PROVE FALSE
        BY <2>3 DEF StartPass, EndPass, Crash
  <2> QED BY <2>1, <2>2, <2>3 DEF Next, vars
<1>2. Spec => [](TypeOK /\ Held)
      BY LeaderInit, LeaderType, PTL DEF Spec, LeaderInv
<1> QED BY <1>1, <1>2, PTL DEF Spec, LeaseIsRespected
=============================================================================
