---------------------------- MODULE NapiAppProofs ----------------------------
(***************************************************************************)
(* The life of a Node object, for any number of calls and jobs.  start     *)
(* takes the Building state out of the object and leaves Stopped: what it  *)
(* took is a token, and there is one per backend.  From the token follow   *)
(* that a backend is started once and that its runtime always has an owner *)
(* who can stop it.                                                        *)
(***************************************************************************)
EXTENDS NapiApp, TLAPS

Places == {"idle", "apply", "take", "restore", "check", "launch", "publish", "broadcast",
           "swap", "mode", "core", "drain", "reclaim", "finish", "abandon", "drop", "pool"}
CallState == [op : Ops \cup {"none"}, arg : Modes \cup Subscriptions \cup {"none"},
              at : Places, on : Backend, snapshot : SUBSET Job]

\* A call of close is for Postgres, and one of shutdown has been given a mode
\* that is known when it uses it.
CallInv ==
    /\ call \in [Call -> CallState]
    /\ \A c \in Call : /\ call[c].op = "close" => call[c].on = "pg"
                       /\ At(c, "shutdown", "core") => call[c].arg \in ValidModes
                       /\ call[c].op = "shutdown" => call[c].arg \in Modes

\* The call has taken the Building state of b.
Token(c, b) ==
    /\ call[c].on = b /\ call[c].op = "start"
    /\ call[c].at \in {"restore", "check", "launch", "publish"}

\* The Building state is in the object, with one call, or used up.
TokenInv(b) ==
    /\ \A c, d \in Call : Token(c, b) /\ Token(d, b) => c = d
    /\ phase[b] = "Building" => launched[b] = 0 /\ \A c \in Call : ~Token(c, b)
    /\ launched[b] \in {0, 1}
    /\ phase[b] = "Running" => launched[b] = 1
    /\ \A c \in Call : Token(c, b) => (call[c].at = "publish" <=> launched[b] = 1)

Owned(b) ==
    runtime[b] \in {"up", "cancelled"} =>
        phase[b] = "Running" \/ \E c \in Call : Holds(c, b)

AppInv == TypeOK /\ CallInv /\ \A b \in Backend : TokenInv(b)

-----------------------------------------------------------------------------
(* How a call moves on.                                                    *)

\* The other calls stay where they are.
Others(c) == \A d \in Call \ {c} : call'[d] = call[d]

\* On to another place of the same half.
LEMMA GotoCall ==
    ASSUME CallInv, NEW c \in Call, NEW at \in Places, Goto(c, at)
    PROVE  /\ call' \in [Call -> CallState] /\ Others(c)
           /\ call'[c].op = call[c].op /\ call'[c].arg = call[c].arg
           /\ call'[c].on = call[c].on /\ call'[c].at = at
<1>1. call \in [Call -> CallState]
      BY DEF CallInv
<1> DEFINE r == [call[c] EXCEPT !.at = at]
<1>2. call' = [call EXCEPT ![c] = r]
      BY <1>1 DEF Goto, CallState
<1>3. /\ r \in CallState /\ r.op = call[c].op /\ r.arg = call[c].arg
      /\ r.on = call[c].on /\ r.at = at
  <2>1. call[c] \in CallState
        BY <1>1
  <2> QED BY <2>1 DEF CallState
<1> HIDE DEF r
<1> QED BY <1>1, <1>2, <1>3 DEF Others

\* Back to the caller.
LEMMA ReturnCall ==
    ASSUME CallInv, NEW c \in Call, Return(c)
    PROVE  /\ call' \in [Call -> CallState] /\ Others(c)
           /\ call'[c].op = "none" /\ call'[c].at = "idle" /\ call'[c].on = "pg"
<1>1. call \in [Call -> CallState]
      BY DEF CallInv
<1>2. Idle \in CallState /\ Idle.op = "none" /\ Idle.at = "idle" /\ Idle.on = "pg"
      BY DEF Idle, CallState, Places, Backend
<1>3. call' = [call EXCEPT ![c] = Idle]
      BY DEF Return
<1> HIDE DEF Idle
<1> QED BY <1>1, <1>2, <1>3 DEF Others

\* On to the other half of an app, or back to the caller.
LEMMA ProceedCall ==
    ASSUME CallInv, NEW c \in Call, NEW at \in Places, Proceed(c, at)
    PROVE  /\ call' \in [Call -> CallState] /\ Others(c)
           /\ \/ call'[c].op = "none" /\ call'[c].at = "idle" /\ call'[c].on = "pg"
              \/ /\ call'[c].op = call[c].op /\ call'[c].arg = call[c].arg
                 /\ call'[c].on = "redis" /\ call'[c].at = at
                 /\ call[c].on = "pg"
<1>1. call \in [Call -> CallState]
      BY DEF CallInv
<1>2. CASE object = "EddyqApp" /\ call[c].on = "pg"
  <2> DEFINE r == [call[c] EXCEPT !.at = at, !.on = "redis"]
  <2>1. call' = [call EXCEPT ![c] = r]
        BY <1>1, <1>2 DEF Proceed, CallState
  <2>2. /\ r \in CallState /\ r.op = call[c].op /\ r.arg = call[c].arg
        /\ r.on = "redis" /\ r.at = at
    <3>1. call[c] \in CallState
          BY <1>1
    <3> QED BY <3>1 DEF CallState, Backend
  <2> HIDE DEF r
  <2> QED BY <1>1, <1>2, <2>1, <2>2 DEF Others
<1>3. CASE ~(object = "EddyqApp" /\ call[c].on = "pg")
      BY <1>3, ReturnCall DEF Proceed
<1> QED BY <1>2, <1>3


-----------------------------------------------------------------------------
(* What a step of a call does to the token and to the owner of a runtime.  *)

\* The Building state is taken, put back or used, or nothing happens to it.
Taken(c, b) ==
    /\ phase[b] = "Building" /\ phase'[b] = "Stopped"
    /\ launched'[b] = launched[b]
    /\ Token(c, b)' => call'[c].at # "publish"
PutBack(c, b) ==
    /\ Token(c, b) /\ call[c].at # "publish" /\ ~Token(c, b)'
    /\ launched'[b] = launched[b]
    /\ phase'[b] = "Running" => phase[b] = "Running"
Used(c, b) ==
    /\ Token(c, b) /\ call[c].at = "launch" /\ call'[c].at = "publish"
    /\ launched'[b] = launched[b] + 1 /\ phase'[b] = phase[b]
LeftAlone(c, b) ==
    /\ launched'[b] = launched[b]
    /\ phase'[b] = "Building" => phase[b] = "Building"
    /\ phase'[b] = "Running" => \/ phase[b] = "Running"
                                \/ Token(c, b) /\ call[c].at = "publish"
    /\ Token(c, b)' => Token(c, b) /\ (call'[c].at = "publish" <=> call[c].at = "publish")

TokenMove(c, b) == Taken(c, b) \/ PutBack(c, b) \/ Used(c, b) \/ LeftAlone(c, b)

\* Whoever had the runtime hands it on or stops it.
OwnerMove(c, b) ==
    runtime'[b] \in {"up", "cancelled"} =>
        \/ phase'[b] = "Running" \/ Holds(c, b)'
        \/ runtime[b] \in {"up", "cancelled"} /\ phase[b] # "Running" /\ ~Holds(c, b)

\* There is one token per backend.
LEMMA TokenStep ==
    ASSUME NEW c \in Call, NEW b \in Backend, TokenInv(b), Others(c), TokenMove(c, b)
    PROVE  TokenInv(b)'
<1>1. \A d \in Call \ {c} : Token(d, b)' <=> Token(d, b)
      BY DEF Others, Token
<1>2. \A d \in Call \ {c} : call'[d].at = call[d].at
      BY DEF Others
<1>3. CASE Taken(c, b)
      BY <1>1, <1>2, <1>3 DEF TokenInv, Taken
<1>4. CASE PutBack(c, b)
  <2>1. launched[b] = 0 /\ phase[b] # "Running"
        BY <1>4 DEF TokenInv, PutBack
  <2>2. \A d \in Call : ~Token(d, b)'
        BY <1>1, <1>4 DEF TokenInv, PutBack
  <2> QED BY <1>4, <2>1, <2>2 DEF TokenInv, PutBack
<1>5. CASE Used(c, b)
  <2>1. launched[b] = 0 /\ phase[b] # "Building" /\ phase[b] # "Running"
        BY <1>5 DEF TokenInv, Used
  <2>2. \A d \in Call \ {c} : ~Token(d, b)'
        BY <1>1, <1>5 DEF TokenInv, Used
  <2> QED BY <1>5, <2>1, <2>2 DEF TokenInv, Used
<1>6. CASE LeftAlone(c, b)
  <2>1. \A d \in Call : Token(d, b)' => Token(d, b)
        BY <1>1, <1>6 DEF LeftAlone
  <2>2. \A d \in Call : Token(d, b)' => (call'[d].at = "publish" <=> call[d].at = "publish")
        BY <1>2, <1>6 DEF LeftAlone
  <2> QED BY <1>6, <2>1, <2>2 DEF TokenInv, LeftAlone
<1> QED BY <1>3, <1>4, <1>5, <1>6 DEF TokenMove

\* A runtime that lives has an owner.
LEMMA OwnerStep ==
    ASSUME NEW c \in Call, NEW b \in Backend, Owned(b), Others(c), OwnerMove(c, b)
    PROVE  Owned(b)'
<1>1. \A d \in Call \ {c} : Holds(d, b)' <=> Holds(d, b)
      BY DEF Others, Holds, At
<1> QED BY <1>1 DEF Owned, OwnerMove

\* The other calls are as they were.
LEMMA CallsStep ==
    ASSUME CallInv, NEW c \in Call, call' \in [Call -> CallState], Others(c),
           call'[c].op = "close" => call'[c].on = "pg",
           At(c, "shutdown", "core")' => call'[c].arg \in ValidModes,
           call'[c].op = "shutdown" => call'[c].arg \in Modes
    PROVE  CallInv'
BY DEF CallInv, Others, At

\* No handler, row or runtime is touched: the types of the rest.
LEMMA PlainTypes ==
    ASSUME TypeOK, UNCHANGED <<object, runtime, launched, jobVars>>,
           phase' \in [Backend -> {"Building", "Running", "Stopped"}],
           handlers' \in [Backend -> BOOLEAN],
           {abort_handler', broadcast', abortedWith', pool', closed'} \subseteq BOOLEAN,
           shut' \subseteq Backend
    PROVE  TypeOK'
<1>1. \A j \in Job : Home(j)' = Home(j)
      BY DEF Home
<1> QED BY <1>1 DEF TypeOK, jobVars


-----------------------------------------------------------------------------
(* The steps of calls.                                                     *)

Moves(c) == /\ TypeOK' /\ CallInv' /\ Others(c)
            /\ \A b \in Backend : TokenMove(c, b)

\* A step that changes neither phase nor runtime.
LEMMA QuietMove ==
    ASSUME NEW c \in Call, UNCHANGED <<phase, launched, runtime>>,
           ~At(c, "start", "publish"), ~At(c, "start", "publish")',
           \A b \in Backend : Holds(c, b) => Holds(c, b)',
           \A b \in Backend : Token(c, b)' => Token(c, b)
    PROVE  \A b \in Backend : TokenMove(c, b) /\ OwnerMove(c, b)
<1> SUFFICES ASSUME NEW b \in Backend
             PROVE  TokenMove(c, b) /\ OwnerMove(c, b)
    OBVIOUS
<1>1. Token(c, b)' => Token(c, b) /\ call'[c].at # "publish" /\ call[c].at # "publish"
      BY DEF At, Token
<1>2. phase'[b] = phase[b] /\ launched'[b] = launched[b] /\ runtime'[b] = runtime[b]
      OBVIOUS
<1>3. LeftAlone(c, b)
      BY <1>1, <1>2 DEF LeftAlone
<1> QED BY <1>2, <1>3 DEF TokenMove, OwnerMove

\* A call is made.
LEMMA InvokeMoves ==
    ASSUME AppInv, NEW c \in Call, Invoke(c)
    PROVE  Moves(c) /\ \A b \in Backend : OwnerMove(c, b)
<1>0. call \in [Call -> CallState] /\ call[c] = Idle
      BY DEF AppInv, CallInv, Invoke
<1>1. PICK op \in Ops : \E arg \in Arguments(op) :
          /\ op = "close" => object # "EddyqRedis"
          /\ abort_handler' = (abort_handler \/ (op = "work" /\ made["work"] = 0))
          /\ call' = [call EXCEPT ![c] =
                        [op |-> op, arg |-> arg, at |-> Entry(op),
                         on |-> IF Has("pg") THEN "pg" ELSE "redis", snapshot |-> {}]]
      BY DEF Invoke
<1>2. PICK arg \in Arguments(op) :
          /\ op = "close" => object # "EddyqRedis"
          /\ abort_handler' = (abort_handler \/ (op = "work" /\ made["work"] = 0))
          /\ call' = [call EXCEPT ![c] =
                        [op |-> op, arg |-> arg, at |-> Entry(op),
                         on |-> IF Has("pg") THEN "pg" ELSE "redis", snapshot |-> {}]]
      BY <1>1
<1>3. Entry(op) \in {"take", "broadcast", "swap", "apply"}
      BY DEF Entry
<1>4. arg \in Modes \cup Subscriptions \cup {"none"} /\ (op = "shutdown" => arg \in Modes)
      BY DEF Arguments
<1>5. op = "close" => Has("pg")
      BY <1>2, AppConstants DEF AppInv, TypeOK, Has
<1> DEFINE e == Entry(op)
           o == IF Has("pg") THEN "pg" ELSE "redis"
           r == [op |-> op, arg |-> arg, at |-> e, on |-> o, snapshot |-> {}]
<1>6. call' = [call EXCEPT ![c] = r] /\ o \in Backend /\ (op = "close" => o = "pg")
      BY <1>2, <1>5 DEF Backend
<1>7. e \in {"take", "broadcast", "swap", "apply"}
      BY <1>3
<1> HIDE DEF e, o
<1>8. r \in CallState
      BY <1>4, <1>6, <1>7 DEF CallState, Places
<1>9. /\ call' \in [Call -> CallState] /\ Others(c)
      /\ call'[c].op = op /\ call'[c].arg = arg /\ call'[c].at = e /\ call'[c].on = o
      BY <1>0, <1>6, <1>8 DEF Others
<1>10. CallInv'
      BY <1>4, <1>6, <1>7, <1>9, CallsStep DEF AppInv, At
<1>11. UNCHANGED <<object, stateVars, runtime, launched, broadcast, abortedWith,
                   pool, jobVars, history>>
      BY DEF Invoke
<1>12. TypeOK'
  <2>1. abort_handler' \in BOOLEAN
        BY <1>2
  <2> QED BY <1>11, <2>1, PlainTypes DEF AppInv, TypeOK, stateVars, history
<1>13. call[c].op = "none"
      BY <1>0 DEF Idle
<1>14. \A b \in Backend : ~Holds(c, b) /\ ~Token(c, b)'
      BY <1>7, <1>9, <1>13 DEF Holds, At, Token
<1>15. ~At(c, "start", "publish") /\ ~At(c, "start", "publish")'
      BY <1>7, <1>9, <1>13 DEF At
<1>16. \A b \in Backend : TokenMove(c, b) /\ OwnerMove(c, b)
      BY <1>11, <1>14, <1>15, QuietMove DEF stateVars
<1> QED BY <1>9, <1>10, <1>12, <1>16 DEF Moves

\* Registering handlers and queues.
LEMMA ConfigMoves ==
    ASSUME AppInv, NEW c \in Call, work(c) \/ subscribe_to(c)
    PROVE  Moves(c) /\ \A b \in Backend : OwnerMove(c, b)
<1>0. CallInv /\ call[c] \in CallState /\ TypeOK /\ "apply" \in Places /\ call[c].on \in Backend
      BY DEF AppInv, CallInv, Places, CallState
<1>1. /\ call[c].op \in {"work", "subscribe_to"} /\ call[c].at = "apply"
      /\ UNCHANGED <<object, phase, runtime, launched, abortVars, pool, jobVars, history>>
      /\ Proceed(c, "apply") \/ Return(c)
      BY DEF work, subscribe_to, At
<1>2. /\ call' \in [Call -> CallState] /\ Others(c)
      /\ \/ call'[c].op = "none" /\ call'[c].at = "idle"
         \/ call'[c].op = call[c].op /\ call'[c].at = "apply"
      BY <1>0, <1>1, ProceedCall, ReturnCall
<1>3. CallInv'
      BY <1>0, <1>1, <1>2, CallsStep DEF At
<1>4. handlers' \in [Backend -> BOOLEAN]
  <2>1. CASE handlers' = handlers
        BY <1>0, <2>1 DEF TypeOK
  <2>2. CASE handlers' = [handlers EXCEPT ![call[c].on] = TRUE]
        BY <1>0, <2>2 DEF TypeOK
  <2> QED BY <2>1, <2>2 DEF work, subscribe_to
<1>5. TypeOK'
      BY <1>0, <1>1, <1>4, PlainTypes DEF TypeOK, abortVars, history
<1>6. \A b \in Backend : ~Holds(c, b) /\ ~Token(c, b)'
      BY <1>1, <1>2 DEF Holds, At, Token
<1>7. ~At(c, "start", "publish") /\ ~At(c, "start", "publish")'
      BY <1>1, <1>2 DEF At
<1>8. \A b \in Backend : TokenMove(c, b) /\ OwnerMove(c, b)
      BY <1>1, <1>6, <1>7, QuietMove
<1> QED BY <1>2, <1>3, <1>5, <1>8 DEF Moves

\* A job is stored in one of the two backends.
LEMMA Homes == \A j \in Job : Home(j) \in Backend
BY AppConstants DEF Home, pick, Backend

\* start: the Building state is taken, put back if there is no handler, lost if
\* the migrations are not there, and otherwise used once.
LEMMA StartMoves ==
    ASSUME AppInv, NEW c \in Call, start(c)
    PROVE  Moves(c) /\ \A b \in Backend : OwnerMove(c, b)
<1> DEFINE o == call[c].on
<1>0. CallInv /\ TypeOK /\ o \in Backend
      /\ {"take", "restore", "check", "launch", "publish"} \subseteq Places
  <2>1. call[c] \in CallState
        BY DEF AppInv, CallInv
  <2> QED BY <2>1 DEF AppInv, Places, CallState
<1>1. CASE start_take(c)
  <2>1. /\ At(c, "start", "take")
        /\ phase' = [phase EXCEPT ![o] = IF @ = "Building" THEN "Stopped" ELSE @]
        /\ handlers' = [handlers EXCEPT ![o] = @ /\ phase[o] # "Building"]
        /\ UNCHANGED <<object, runtime, launched, abortVars, pool, jobVars, history>>
        BY <1>1 DEF start_take
  <2>2. \/ phase[o] = "Building" /\ Goto(c, "check")
        \/ phase[o] = "Building" /\ Goto(c, "launch")
        \/ phase[o] = "Building" /\ Goto(c, "restore")
        \/ Return(c)
        BY <1>1 DEF start_take
  <2>3. /\ call' \in [Call -> CallState] /\ Others(c)
        /\ \/ /\ phase[o] = "Building" /\ call'[c].op = "start" /\ call'[c].on = o
              /\ call'[c].at \in {"check", "launch", "restore"}
           \/ call'[c].op = "none" /\ call'[c].at = "idle"
        BY <1>0, <2>1, <2>2, GotoCall, ReturnCall DEF At
  <2>4. CallInv'
        BY <1>0, <2>3, CallsStep DEF At
  <2>5. /\ phase' \in [Backend -> {"Building", "Running", "Stopped"}]
        /\ handlers' \in [Backend -> BOOLEAN]
        BY <1>0, <2>1 DEF TypeOK
  <2>6. TypeOK'
        BY <1>0, <2>1, <2>5, PlainTypes DEF TypeOK, abortVars, history
  <2>7. ASSUME NEW b \in Backend
        PROVE  TokenMove(c, b) /\ OwnerMove(c, b)
    <3>1. phase'[b] = IF b = o /\ phase[b] = "Building" THEN "Stopped" ELSE phase[b]
          BY <1>0, <2>1 DEF TypeOK
    <3>2. launched'[b] = launched[b] /\ runtime'[b] = runtime[b]
          BY <2>1
    <3>3. ~Holds(c, b) /\ ~Token(c, b)
          BY <2>1 DEF Holds, At, Token
    <3>4. CASE b = o /\ phase[b] = "Building"
      <4>1. Token(c, b)' => call'[c].at # "publish"
            BY <2>3 DEF Token
      <4>2. Taken(c, b)
            BY <3>1, <3>2, <3>4, <4>1 DEF Taken
      <4>3. phase[b] # "Running"
            BY <3>4
      <4> QED BY <3>2, <3>3, <4>2, <4>3 DEF TokenMove, OwnerMove
    <3>5. CASE ~(b = o /\ phase[b] = "Building")
      <4>1. ~Token(c, b)'
            BY <2>3, <3>5 DEF Token
      <4>2. phase'[b] = phase[b]
            BY <3>1, <3>5
      <4>3. LeftAlone(c, b)
            BY <3>2, <4>1, <4>2 DEF LeftAlone
      <4> QED BY <3>2, <3>3, <4>2, <4>3 DEF TokenMove, OwnerMove
    <3> QED BY <3>4, <3>5
  <2> QED BY <2>3, <2>4, <2>6, <2>7 DEF Moves
<1>2. CASE start_restore(c)
  <2>1. /\ At(c, "start", "restore") /\ Return(c)
        /\ phase' = [phase EXCEPT ![o] = "Building"]
        /\ handlers' = [handlers EXCEPT ![o] = FALSE]
        /\ UNCHANGED <<object, runtime, launched, abortVars, pool, jobVars, history>>
        BY <1>2 DEF start_restore
  <2>2. /\ call' \in [Call -> CallState] /\ Others(c)
        /\ call'[c].op = "none" /\ call'[c].at = "idle"
        BY <1>0, <2>1, ReturnCall
  <2>3. CallInv'
        BY <1>0, <2>2, CallsStep DEF At
  <2>4. /\ phase' \in [Backend -> {"Building", "Running", "Stopped"}]
        /\ handlers' \in [Backend -> BOOLEAN]
        BY <1>0, <2>1 DEF TypeOK
  <2>5. TypeOK'
        BY <1>0, <2>1, <2>4, PlainTypes DEF TypeOK, abortVars, history
  <2>6. ASSUME NEW b \in Backend
        PROVE  TokenMove(c, b)
    <3>1. b = o => Token(c, b) /\ call[c].at # "publish"
          BY <2>1 DEF At, Token
    <3>2. ~Token(c, b)' /\ launched'[b] = launched[b]
          BY <2>1, <2>2 DEF Token
    <3>3. b # o => phase'[b] = phase[b]
          BY <1>0, <2>1 DEF TypeOK
    <3>4. CASE b = o
      <4>1. phase'[b] = "Building"
            BY <1>0, <2>1, <3>4 DEF TypeOK
      <4>2. PutBack(c, b)
            BY <3>1, <3>2, <3>4, <4>1 DEF PutBack
      <4> QED BY <4>2 DEF TokenMove
    <3>5. CASE b # o
      <4>1. LeftAlone(c, b)
            BY <3>2, <3>3, <3>5 DEF LeftAlone
      <4> QED BY <4>1 DEF TokenMove
    <3> QED BY <3>4, <3>5
  <2>7. ASSUME NEW b \in Backend
        PROVE  OwnerMove(c, b)
    <3>1. ~Holds(c, b) /\ runtime'[b] = runtime[b]
          BY <2>1 DEF Holds, At
    <3>2. b = o => phase[b] # "Running"
      <4>1. TokenInv(b)
            BY DEF AppInv
      <4> QED BY <2>1, <4>1 DEF TokenInv, Token, At
    <3>3. b # o => phase'[b] = phase[b]
          BY <1>0, <2>1 DEF TypeOK
    <3> QED BY <3>1, <3>2, <3>3 DEF OwnerMove
  <2> QED BY <2>2, <2>3, <2>5, <2>6, <2>7 DEF Moves

<1>3. CASE start_check(c)
  <2>1. /\ At(c, "start", "check") /\ (Goto(c, "launch") \/ Return(c))
        /\ UNCHANGED <<object, stateVars, runtime, launched, abortVars, pool, jobVars, history>>
        BY <1>3 DEF start_check
  <2>2. /\ call' \in [Call -> CallState] /\ Others(c)
        /\ \/ call'[c].op = "start" /\ call'[c].on = o /\ call'[c].at = "launch"
           \/ call'[c].op = "none" /\ call'[c].at = "idle"
        BY <1>0, <2>1, GotoCall, ReturnCall DEF At
  <2>3. CallInv'
        BY <1>0, <2>2, CallsStep DEF At
  <2>4. TypeOK'
        BY <1>0, <2>1, PlainTypes DEF TypeOK, abortVars, history, stateVars
  <2>5. \A b \in Backend : ~Holds(c, b) /\ (Token(c, b)' => Token(c, b))
        BY <2>1, <2>2 DEF Holds, At, Token
  <2>6. ~At(c, "start", "publish") /\ ~At(c, "start", "publish")'
        BY <2>1, <2>2 DEF At
  <2>7. \A b \in Backend : TokenMove(c, b) /\ OwnerMove(c, b)
        BY <2>1, <2>5, <2>6, QuietMove DEF stateVars
  <2> QED BY <2>2, <2>3, <2>4, <2>7 DEF Moves
<1>4. CASE start_launch(c)
  <2>1. /\ At(c, "start", "launch") /\ Goto(c, "publish")
        /\ runtime' = [runtime EXCEPT ![o] = "up"]
        /\ launched' = [launched EXCEPT ![o] = @ + 1]
        /\ UNCHANGED <<object, stateVars, abortVars, pool, jobVars, history>>
        BY <1>4 DEF start_launch
  <2>2. /\ call' \in [Call -> CallState] /\ Others(c)
        /\ call'[c].op = "start" /\ call'[c].on = o /\ call'[c].at = "publish"
        BY <1>0, <2>1, GotoCall DEF At
  <2>3. CallInv'
        BY <1>0, <2>2, CallsStep DEF At
  <2>4. TypeOK'
    <3>1. \A j \in Job : Home(j)' = Home(j)
          BY <2>1 DEF Home
    <3>2. /\ runtime' \in [Backend -> {"none", "up", "cancelled", "down"}]
          /\ launched' \in [Backend -> Nat]
          BY <1>0, <2>1 DEF TypeOK
    <3>3. \A j \in Job : worker[j] # "none" => runtime'[Home(j)] \in {"up", "cancelled"}
          BY <1>0, <2>1, Homes DEF TypeOK
    <3> QED BY <1>0, <2>1, <3>1, <3>2, <3>3 DEF TypeOK, stateVars, abortVars, jobVars, history
  <2>5. ASSUME NEW b \in Backend
        PROVE  TokenMove(c, b) /\ OwnerMove(c, b)
    <3>1. CASE b = o
      <4>1. launched'[b] = launched[b] + 1 /\ phase'[b] = phase[b]
            BY <1>0, <2>1, <3>1 DEF TypeOK, stateVars
      <4>2. Token(c, b) /\ call[c].at = "launch" /\ Holds(c, b)'
            BY <2>1, <2>2, <3>1 DEF Token, At, Holds
      <4>3. Used(c, b)
            BY <2>2, <4>1, <4>2 DEF Used
      <4> QED BY <4>2, <4>3 DEF TokenMove, OwnerMove
    <3>2. CASE b # o
      <4>1. launched'[b] = launched[b] /\ phase'[b] = phase[b] /\ runtime'[b] = runtime[b]
            BY <1>0, <2>1, <3>2 DEF TypeOK, stateVars
      <4>2. ~Token(c, b)' /\ ~Holds(c, b)
            BY <2>2, <3>2 DEF Token, Holds
      <4>3. LeftAlone(c, b)
            BY <4>1, <4>2 DEF LeftAlone
      <4> QED BY <4>1, <4>2, <4>3 DEF TokenMove, OwnerMove
    <3> QED BY <3>1, <3>2
  <2> QED BY <2>2, <2>3, <2>4, <2>5 DEF Moves
<1>5. CASE start_publish(c)
  <2>1. /\ At(c, "start", "publish") /\ Proceed(c, "take")
        /\ phase' = [phase EXCEPT ![o] = "Running"]
        /\ UNCHANGED <<object, handlers, runtime, launched, abortVars, pool, jobVars, history>>
        BY <1>5 DEF start_publish
  <2>2. /\ call' \in [Call -> CallState] /\ Others(c)
        /\ \/ call'[c].op = "none" /\ call'[c].at = "idle"
           \/ call'[c].op = "start" /\ call'[c].at = "take"
        BY <1>0, <2>1, ProceedCall DEF At
  <2>3. CallInv'
        BY <1>0, <2>2, CallsStep DEF At
  <2>4. phase' \in [Backend -> {"Building", "Running", "Stopped"}]
        BY <1>0, <2>1 DEF TypeOK
  <2>5. TypeOK'
        BY <1>0, <2>1, <2>4, PlainTypes DEF TypeOK, abortVars, history
  <2>6. ASSUME NEW b \in Backend
        PROVE  TokenMove(c, b) /\ OwnerMove(c, b)
    <3>1. /\ phase'[b] = IF b = o THEN "Running" ELSE phase[b]
          /\ launched'[b] = launched[b] /\ runtime'[b] = runtime[b]
          BY <1>0, <2>1 DEF TypeOK
    <3>2. ~Token(c, b)' /\ (b = o => Token(c, b) /\ call[c].at = "publish")
          BY <2>1, <2>2 DEF Token, At
    <3>3. b # o => ~Holds(c, b)
          BY DEF Holds
    <3>4. LeftAlone(c, b)
          BY <3>1, <3>2 DEF LeftAlone
    <3> QED BY <3>1, <3>3, <3>4 DEF TokenMove, OwnerMove
  <2> QED BY <2>2, <2>3, <2>5, <2>6 DEF Moves
<1> QED BY <1>1, <1>2, <1>3, <1>4, <1>5 DEF start


-----------------------------------------------------------------------------
(* shutdown and close.                                                     *)

\* A call that is not a start does not touch the Building state, or throws it
\* away.
LEMMA OtherCall ==
    ASSUME NEW c \in Call, call[c].op # "start", call'[c].op # "start",
           launched' = launched, \A b \in Backend : phase'[b] \in {phase[b], "Stopped"}
    PROVE  \A b \in Backend : TokenMove(c, b)
<1> SUFFICES ASSUME NEW b \in Backend
             PROVE  TokenMove(c, b)
    OBVIOUS
<1>1. ~Token(c, b)'
      BY DEF Token
<1>2. LeftAlone(c, b)
      BY <1>1 DEF LeftAlone
<1> QED BY <1>2 DEF TokenMove

\* abort_all leaves no worker at a job of this backend.
LEMMA StopTypes ==
    ASSUME TypeOK, NEW b \in Backend, StopRuntime(b),
           UNCHANGED <<object, stateVars, launched, abortVars, pool, row, js, signalled, history>>
    PROVE  TypeOK' /\ runtime'[b] = "down" /\ \A d \in Backend \ {b} : runtime'[d] = runtime[d]
<1>1. \A j \in Job : Home(j)' = Home(j)
      BY DEF Home
<1>2. /\ runtime' \in [Backend -> {"none", "up", "cancelled", "down"}]
      /\ runtime'[b] = "down" /\ \A d \in Backend \ {b} : runtime'[d] = runtime[d]
      BY DEF TypeOK, StopRuntime
<1>3. worker' \in [Job -> {"none", "channel", "waiting"}]
      BY DEF TypeOK, StopRuntime
<1>4. \A j \in Job : worker'[j] # "none" => runtime'[Home(j)] \in {"up", "cancelled"}
      BY <1>2, Homes DEF TypeOK, StopRuntime
<1> QED BY <1>1, <1>2, <1>3, <1>4 DEF TypeOK, stateVars, abortVars, history

\* The request to stop goes to the runtime with a snapshot of its jobs.
LEMMA CoreCall ==
    ASSUME CallInv, NEW c \in Call, NEW at \in Places, NEW S \in SUBSET Job,
           call' = [call EXCEPT ![c].at = at, ![c].snapshot = S]
    PROVE  /\ call' \in [Call -> CallState] /\ Others(c)
           /\ call'[c].op = call[c].op /\ call'[c].arg = call[c].arg
           /\ call'[c].on = call[c].on /\ call'[c].at = at
<1>1. call \in [Call -> CallState]
      BY DEF CallInv
<1> DEFINE r == [call[c] EXCEPT !.at = at, !.snapshot = S]
<1>2. call' = [call EXCEPT ![c] = r]
      BY <1>1 DEF CallState
<1>3. /\ r \in CallState /\ r.op = call[c].op /\ r.arg = call[c].arg
      /\ r.on = call[c].on /\ r.at = at
  <2>1. call[c] \in CallState
        BY <1>1
  <2> QED BY <2>1 DEF CallState
<1> HIDE DEF r
<1> QED BY <1>1, <1>2, <1>3 DEF Others

\* Where a shutdown goes next: on, to the other half, or back.
Onward(c, at) ==
    /\ call' \in [Call -> CallState] /\ Others(c)
    /\ \/ call'[c].op = "none" /\ call'[c].at = "idle"
       \/ call'[c].op = "shutdown" /\ call'[c].arg = call[c].arg /\ call'[c].at = at

\* What follows for the calls from where it goes.
LEMMA OnwardCalls ==
    ASSUME CallInv, NEW c \in Call, call[c].op = "shutdown", NEW at, Onward(c, at),
           at = "core" => call[c].arg \in ValidModes
    PROVE  CallInv' /\ Others(c) /\ call'[c].op # "start"
<1>1. call[c].arg \in Modes
      BY DEF CallInv
<1> QED BY <1>1, CallsStep DEF Onward, At

\* The steps of a shutdown before the runtime is asked to stop.
LEMMA ShutdownFront ==
    ASSUME AppInv, NEW c \in Call,
           shutdown_broadcast(c) \/ shutdown_swap(c) \/ shutdown_mode(c)
    PROVE  Moves(c) /\ (Modes \subseteq ValidModes => \A b \in Backend : OwnerMove(c, b))
<1> DEFINE o == call[c].on
<1>0. CallInv /\ TypeOK /\ o \in Backend /\ {"swap", "mode", "core"} \subseteq Places
  <2>1. call[c] \in CallState
        BY DEF AppInv, CallInv
  <2> QED BY <2>1 DEF AppInv, Places, CallState
<1>1. CASE shutdown_broadcast(c)
  <2>1. /\ At(c, "shutdown", "broadcast") /\ Goto(c, "swap") /\ fire_abort
        /\ UNCHANGED <<object, stateVars, runtime, launched, abort_handler, abortedWith,
                       pool, jobVars, history>>
        BY <1>1 DEF shutdown_broadcast
  <2>2. Onward(c, "swap")
        BY <1>0, <2>1, GotoCall DEF Onward, At
  <2>3. CallInv' /\ Others(c) /\ call'[c].op # "start"
        BY <1>0, <2>1, <2>2, OnwardCalls DEF At
  <2>4. broadcast' \in BOOLEAN
        BY <2>1 DEF fire_abort
  <2>5. TypeOK'
        BY <1>0, <2>1, <2>4, PlainTypes DEF TypeOK, stateVars, history
  <2>6. \A b \in Backend : ~Holds(c, b) /\ phase'[b] = phase[b] /\ runtime'[b] = runtime[b]
        BY <2>1 DEF Holds, At, stateVars
  <2>7. \A b \in Backend : TokenMove(c, b)
        BY <2>1, <2>3, <2>6, OtherCall DEF At
  <2> QED BY <2>3, <2>5, <2>6, <2>7 DEF Moves, OwnerMove
<1>2. CASE shutdown_swap(c)
  <2>1. /\ At(c, "shutdown", "swap")
        /\ phase' = [phase EXCEPT ![o] = "Stopped"]
        /\ handlers' = [handlers EXCEPT ![o] = FALSE]
        /\ IF phase[o] = "Running" THEN Goto(c, "mode") ELSE Proceed(c, "swap")
        /\ UNCHANGED <<object, runtime, launched, abortVars, pool, jobVars, history>>
        BY <1>2 DEF shutdown_swap
  <2>2. /\ Onward(c, "mode") \/ Onward(c, "swap")
        /\ \A b \in Backend : b = o /\ phase[b] = "Running" => Holds(c, b)'
    <3>1. CASE phase[o] = "Running"
          BY <1>0, <2>1, <3>1, GotoCall DEF Onward, At, Holds
    <3>2. CASE phase[o] # "Running"
          BY <1>0, <2>1, <3>2, ProceedCall DEF Onward, At
    <3> QED BY <3>1, <3>2
  <2>3. CallInv' /\ Others(c) /\ call'[c].op # "start"
        BY <1>0, <2>1, <2>2, OnwardCalls DEF At
  <2>4. /\ phase' \in [Backend -> {"Building", "Running", "Stopped"}]
        /\ handlers' \in [Backend -> BOOLEAN]
        /\ \A b \in Backend : phase'[b] = IF b = o THEN "Stopped" ELSE phase[b]
        BY <1>0, <2>1 DEF TypeOK
  <2>5. TypeOK'
        BY <1>0, <2>1, <2>4, PlainTypes DEF TypeOK, abortVars, history
  <2>6. \A b \in Backend : ~Holds(c, b) /\ runtime'[b] = runtime[b]
        BY <2>1 DEF Holds, At
  <2>7. \A b \in Backend : TokenMove(c, b)
        BY <2>1, <2>3, <2>4, OtherCall DEF At
  <2>8. ASSUME NEW b \in Backend
        PROVE  OwnerMove(c, b)
    <3>1. CASE b = o
          BY <2>2, <2>6, <3>1 DEF OwnerMove
    <3>2. CASE b # o
          BY <2>4, <2>6, <3>2 DEF OwnerMove
    <3> QED BY <3>1, <3>2
  <2> QED BY <2>3, <2>5, <2>7, <2>8 DEF Moves
<1>3. CASE shutdown_mode(c)
  <2>1. /\ At(c, "shutdown", "mode")
        /\ IF call[c].arg \in ValidModes THEN Goto(c, "core") ELSE Proceed(c, "swap")
        /\ fire_abort \/ UNCHANGED broadcast
        /\ UNCHANGED <<object, stateVars, runtime, launched, abort_handler, abortedWith,
                       pool, jobVars, history>>
        BY <1>3 DEF shutdown_mode
  <2>2. ASSUME call[c].arg \in ValidModes
        PROVE  /\ CallInv' /\ Others(c) /\ call'[c].op # "start"
               /\ Modes \subseteq ValidModes => \A b \in Backend : Holds(c, b) => Holds(c, b)'
    <3>1. Onward(c, "core") /\ call'[c].op = "shutdown" /\ call'[c].on = o /\ call'[c].at = "core"
          BY <1>0, <2>1, <2>2, GotoCall DEF Onward, At
    <3>2. CallInv' /\ Others(c) /\ call'[c].op # "start"
          BY <1>0, <2>1, <2>2, <3>1, OnwardCalls DEF At
    <3>3. \A b \in Backend : Holds(c, b) => Holds(c, b)'
          BY <3>1 DEF Holds, At
    <3> QED BY <3>2, <3>3
  <2>3. ASSUME call[c].arg \notin ValidModes
        PROVE  /\ CallInv' /\ Others(c) /\ call'[c].op # "start"
               /\ Modes \subseteq ValidModes => \A b \in Backend : Holds(c, b) => Holds(c, b)'
    <3>1. Onward(c, "swap")
          BY <1>0, <2>1, <2>3, ProceedCall DEF Onward, At
    <3>2. CallInv' /\ Others(c) /\ call'[c].op # "start"
          BY <1>0, <2>1, <3>1, OnwardCalls DEF At
    <3>3. ~(Modes \subseteq ValidModes)
          BY <1>0, <2>1, <2>3 DEF CallInv, At
    <3> QED BY <3>2, <3>3
  <2>4. /\ CallInv' /\ Others(c) /\ call'[c].op # "start"
        /\ Modes \subseteq ValidModes => \A b \in Backend : Holds(c, b) => Holds(c, b)'
        BY <2>2, <2>3
  <2>5. broadcast' \in BOOLEAN
        BY <1>0, <2>1 DEF fire_abort, TypeOK
  <2>6. TypeOK'
        BY <1>0, <2>1, <2>5, PlainTypes DEF TypeOK, stateVars, history
  <2>7. \A b \in Backend : phase'[b] = phase[b] /\ runtime'[b] = runtime[b]
        BY <2>1 DEF stateVars
  <2>8. \A b \in Backend : TokenMove(c, b)
        BY <2>1, <2>4, <2>7, OtherCall DEF At
  <2>9. Modes \subseteq ValidModes => \A b \in Backend : OwnerMove(c, b)
        BY <2>4, <2>7 DEF OwnerMove
  <2> QED BY <2>4, <2>6, <2>8, <2>9 DEF Moves
<1> QED BY <1>1, <1>2, <1>3


\* The runtime of one backend is stopped by the call that has it.
LEMMA StopOwner ==
    ASSUME NEW c \in Call, NEW o \in Backend, call[c].on = o, phase' = phase,
           runtime'[o] = "down", \A d \in Backend \ {o} : runtime'[d] = runtime[d]
    PROVE  \A b \in Backend : OwnerMove(c, b)
<1> SUFFICES ASSUME NEW b \in Backend
             PROVE  OwnerMove(c, b)
    OBVIOUS
<1>1. CASE b = o
      BY <1>1 DEF OwnerMove
<1>2. CASE b # o
  <2>1. ~Holds(c, b)
        BY <1>2 DEF Holds
  <2> QED BY <1>2, <2>1 DEF OwnerMove
<1> QED BY <1>1, <1>2

\* The steps of a shutdown that stop the runtime, and what follows them.
LEMMA ShutdownBack ==
    ASSUME AppInv, NEW c \in Call,
           \/ shutdown_core(c) \/ drain_clean(c) \/ drain_escalated(c)
           \/ reclaim_in_flight(c) \/ shutdown_finish(c)
    PROVE  Moves(c) /\ \A b \in Backend : OwnerMove(c, b)
<1> DEFINE o == call[c].on
<1>0. /\ CallInv /\ TypeOK /\ o \in Backend
      /\ {"drain", "reclaim", "finish", "swap"} \subseteq Places
  <2>1. call[c] \in CallState
        BY DEF AppInv, CallInv
  <2> QED BY <2>1 DEF AppInv, Places, CallState
<1>1. CASE shutdown_core(c)
  <2> DEFINE to == CASE call[c].arg = "drain" -> "drain"
                     [] call[c].arg = "force" -> "reclaim"
                     [] call[c].arg = "abandon" -> "finish"
  <2>1. /\ At(c, "shutdown", "core")
        /\ call' = [call EXCEPT ![c].at = to, ![c].snapshot = InFlight(o)]
        /\ IF to = "drain"
           THEN runtime' = [runtime EXCEPT ![o] = "cancelled"] /\ UNCHANGED worker
           ELSE StopRuntime(o)
        /\ UNCHANGED <<object, stateVars, launched, abortVars, pool, row, js, signalled, history>>
        BY <1>1 DEF shutdown_core
  <2>2. to \in {"drain", "reclaim", "finish"}
        BY <1>0, <2>1 DEF CallInv, ValidModes
  <2> HIDE DEF to
  <2>3. InFlight(o) \in SUBSET Job
        BY DEF InFlight, JobsOf
  <2>4. /\ Onward(c, to)
        /\ call'[c].op = "shutdown" /\ call'[c].on = o /\ call'[c].at = to
    <3>1. to \in Places
          BY <1>0, <2>2
    <3> QED BY <1>0, <2>1, <2>3, <3>1, CoreCall DEF Onward, At
  <2>5. CallInv' /\ Others(c) /\ call'[c].op # "start"
        BY <1>0, <2>1, <2>2, <2>4, OnwardCalls DEF At
  <2>6. \A b \in Backend : TokenMove(c, b)
        BY <2>1, <2>5, OtherCall DEF At, stateVars
  <2>7. CASE to = "drain"
    <3>1. runtime' = [runtime EXCEPT ![o] = "cancelled"] /\ worker' = worker
          BY <2>1, <2>7
    <3>2. TypeOK'
      <4>1. \A j \in Job : Home(j)' = Home(j)
            BY <2>1 DEF Home
      <4>2. runtime' \in [Backend -> {"none", "up", "cancelled", "down"}]
            BY <1>0, <3>1 DEF TypeOK
      <4>3. \A j \in Job : worker[j] # "none" => runtime'[Home(j)] \in {"up", "cancelled"}
            BY <1>0, <3>1, Homes DEF TypeOK
      <4> QED BY <1>0, <2>1, <3>1, <4>1, <4>2, <4>3 DEF TypeOK, stateVars, abortVars, history
    <3>3. ASSUME NEW b \in Backend
          PROVE  OwnerMove(c, b)
      <4>1. CASE b = o
        <5>1. Holds(c, b)'
              BY <2>4, <2>7, <4>1 DEF Holds, At
        <5> QED BY <5>1 DEF OwnerMove
      <4>2. CASE b # o
        <5>1. ~Holds(c, b) /\ runtime'[b] = runtime[b] /\ phase'[b] = phase[b]
              BY <1>0, <2>1, <3>1, <4>2 DEF Holds, TypeOK, stateVars
        <5> QED BY <5>1 DEF OwnerMove
      <4> QED BY <4>1, <4>2
    <3> QED BY <2>5, <2>6, <3>2, <3>3 DEF Moves
  <2>8. CASE to # "drain"
    <3>1. TypeOK' /\ runtime'[o] = "down" /\ \A d \in Backend \ {o} : runtime'[d] = runtime[d]
          BY <1>0, <2>1, <2>8, StopTypes
    <3>2. \A b \in Backend : OwnerMove(c, b)
          BY <1>0, <2>1, <3>1, StopOwner DEF stateVars
    <3> QED BY <2>5, <2>6, <3>1, <3>2 DEF Moves
  <2> QED BY <2>7, <2>8
<1>2. CASE drain_clean(c) \/ drain_escalated(c)
  <2>1. /\ At(c, "shutdown", "drain") /\ StopRuntime(o)
        /\ Goto(c, "finish") \/ Goto(c, "reclaim")
        /\ UNCHANGED <<object, stateVars, launched, abortVars, pool, row, js, signalled, history>>
        BY <1>2 DEF drain_clean, drain_escalated
  <2>2. Onward(c, "finish") \/ Onward(c, "reclaim")
        BY <1>0, <2>1, GotoCall DEF Onward, At
  <2>3. CallInv' /\ Others(c) /\ call'[c].op # "start"
        BY <1>0, <2>1, <2>2, OnwardCalls DEF At
  <2>4. \A b \in Backend : TokenMove(c, b)
        BY <2>1, <2>3, OtherCall DEF At, stateVars
  <2>5. TypeOK' /\ runtime'[o] = "down" /\ \A d \in Backend \ {o} : runtime'[d] = runtime[d]
        BY <1>0, <2>1, StopTypes
  <2>6. \A b \in Backend : OwnerMove(c, b)
        BY <1>0, <2>1, <2>5, StopOwner DEF stateVars
  <2> QED BY <2>3, <2>4, <2>5, <2>6 DEF Moves
<1>3. CASE reclaim_in_flight(c)
  <2>1. /\ At(c, "shutdown", "reclaim") /\ Goto(c, "finish")
        /\ \/ row' = [j \in Job |-> IF j \in call[c].snapshot /\ row[j] = "running"
                                    THEN "pending" ELSE row[j]]
           \/ UNCHANGED row
        /\ UNCHANGED <<object, stateVars, runtime, launched, abortVars, pool, worker, js,
                       signalled, history>>
        BY <1>3 DEF reclaim_in_flight
  <2>2. Onward(c, "finish")
        BY <1>0, <2>1, GotoCall DEF Onward, At
  <2>3. CallInv' /\ Others(c) /\ call'[c].op # "start"
        BY <1>0, <2>1, <2>2, OnwardCalls DEF At
  <2>4. \A b \in Backend : TokenMove(c, b)
        BY <2>1, <2>3, OtherCall DEF At, stateVars
  <2>5. TypeOK'
    <3>1. \A j \in Job : Home(j)' = Home(j)
          BY <2>1 DEF Home
    <3>2. row' \in [Job -> {"none", "pending", "running", "done"}]
          BY <1>0, <2>1 DEF TypeOK
    <3> QED BY <1>0, <2>1, <3>1, <3>2 DEF TypeOK, stateVars, abortVars, history
  <2>6. \A b \in Backend : OwnerMove(c, b)
    <3>1. \A b \in Backend : ~Holds(c, b)
          BY <2>1 DEF Holds, At
    <3> QED BY <2>1, <3>1 DEF OwnerMove, stateVars
  <2> QED BY <2>3, <2>4, <2>5, <2>6 DEF Moves
<1>4. CASE shutdown_finish(c)
  <2>1. /\ At(c, "shutdown", "finish") /\ Proceed(c, "swap")
        /\ fire_abort \/ UNCHANGED broadcast
        /\ shut' = shut \cup {o}
        /\ UNCHANGED <<object, stateVars, runtime, launched, abort_handler, abortedWith,
                       pool, jobVars, closed>>
        BY <1>4 DEF shutdown_finish
  <2>2. Onward(c, "swap")
        BY <1>0, <2>1, ProceedCall DEF Onward, At
  <2>3. CallInv' /\ Others(c) /\ call'[c].op # "start"
        BY <1>0, <2>1, <2>2, OnwardCalls DEF At
  <2>4. \A b \in Backend : TokenMove(c, b)
        BY <2>1, <2>3, OtherCall DEF At, stateVars
  <2>5. TypeOK'
    <3>1. broadcast' \in BOOLEAN /\ shut' \subseteq Backend
          BY <1>0, <2>1 DEF fire_abort, TypeOK
    <3> QED BY <1>0, <2>1, <3>1, PlainTypes DEF TypeOK, stateVars
  <2>6. \A b \in Backend : OwnerMove(c, b)
    <3>1. \A b \in Backend : ~Holds(c, b)
          BY <2>1 DEF Holds, At
    <3> QED BY <2>1, <3>1 DEF OwnerMove, stateVars
  <2> QED BY <2>3, <2>4, <2>5, <2>6 DEF Moves
<1> QED BY <1>1, <1>2, <1>3, <1>4

\* close abandons the runtime it finds and takes the abort function away.
LEMMA CloseMoves ==
    ASSUME AppInv, NEW c \in Call, close(c)
    PROVE  Moves(c) /\ \A b \in Backend : OwnerMove(c, b)
<1>0. /\ CallInv /\ TypeOK /\ "pg" \in Backend /\ {"drop", "abandon", "pool"} \subseteq Places
      BY DEF AppInv, Places, Backend
<1>1. call[c].op = "close" /\ call[c].on = "pg"
      BY DEF AppInv, CallInv, close, close_swap, close_abandon, close_drop, close_pool, At
<1>2. CASE close_swap(c)
  <2>1. /\ At(c, "close", "swap")
        /\ phase' = [phase EXCEPT !["pg"] = "Stopped"]
        /\ handlers' = [handlers EXCEPT !["pg"] = FALSE]
        /\ IF phase["pg"] = "Running" THEN Goto(c, "abandon") ELSE Goto(c, "drop")
        /\ UNCHANGED <<object, runtime, launched, abortVars, pool, jobVars, history>>
        BY <1>2 DEF close_swap
  <2>2. /\ call' \in [Call -> CallState] /\ Others(c)
        /\ call'[c].op = "close" /\ call'[c].on = "pg"
        /\ phase["pg"] = "Running" => call'[c].at = "abandon"
    <3>1. CASE phase["pg"] = "Running"
          BY <1>0, <1>1, <2>1, <3>1, GotoCall
    <3>2. CASE phase["pg"] # "Running"
          BY <1>0, <1>1, <2>1, <3>2, GotoCall
    <3> QED BY <3>1, <3>2
  <2>3. CallInv'
        BY <1>0, <2>2, CallsStep DEF At
  <2>4. /\ phase' \in [Backend -> {"Building", "Running", "Stopped"}]
        /\ handlers' \in [Backend -> BOOLEAN]
        /\ \A b \in Backend : phase'[b] = IF b = "pg" THEN "Stopped" ELSE phase[b]
        BY <1>0, <2>1 DEF TypeOK
  <2>5. TypeOK'
        BY <1>0, <2>1, <2>4, PlainTypes DEF TypeOK, abortVars, history
  <2>6. \A b \in Backend : TokenMove(c, b)
        BY <1>1, <2>1, <2>2, <2>4, OtherCall
  <2>7. ASSUME NEW b \in Backend
        PROVE  OwnerMove(c, b)
    <3>1. ~Holds(c, b) /\ runtime'[b] = runtime[b]
          BY <2>1 DEF Holds, At
    <3>2. b = "pg" /\ phase[b] = "Running" => Holds(c, b)'
          BY <2>2 DEF Holds, At
    <3>3. b # "pg" => phase'[b] = phase[b]
          BY <2>4
    <3> QED BY <3>1, <3>2, <3>3 DEF OwnerMove
  <2> QED BY <2>2, <2>3, <2>5, <2>6, <2>7 DEF Moves
<1>3. CASE close_abandon(c)
  <2>1. /\ StopRuntime("pg") /\ Goto(c, "drop")
        /\ UNCHANGED <<object, stateVars, launched, abortVars, pool, row, js, signalled, history>>
        BY <1>3 DEF close_abandon
  <2>2. /\ call' \in [Call -> CallState] /\ Others(c)
        /\ call'[c].op = "close" /\ call'[c].on = "pg"
        BY <1>0, <1>1, <2>1, GotoCall
  <2>3. CallInv'
        BY <1>0, <2>2, CallsStep DEF At
  <2>4. TypeOK' /\ runtime'["pg"] = "down" /\ \A d \in Backend \ {"pg"} : runtime'[d] = runtime[d]
        BY <1>0, <2>1, StopTypes
  <2>5. \A b \in Backend : OwnerMove(c, b)
        BY <1>0, <1>1, <2>1, <2>4, StopOwner DEF stateVars
  <2>6. \A b \in Backend : TokenMove(c, b)
        BY <1>1, <2>1, <2>2, OtherCall DEF stateVars
  <2> QED BY <2>2, <2>3, <2>4, <2>5, <2>6 DEF Moves
<1>4. CASE close_drop(c) \/ close_pool(c)
  <2>1. /\ call[c].at \in {"drop", "pool"}
        /\ Goto(c, "pool") \/ Return(c)
        /\ UNCHANGED <<object, stateVars, runtime, launched, jobVars, broadcast, abortedWith, shut>>
        BY <1>4 DEF close_drop, close_pool, At, abortVars, history
  <2>2. /\ call' \in [Call -> CallState] /\ Others(c)
        /\ call'[c].op = "none" \/ (call'[c].op = "close" /\ call'[c].on = "pg")
        BY <1>0, <1>1, <2>1, GotoCall, ReturnCall
  <2>3. CallInv'
        BY <1>0, <2>2, CallsStep DEF At
  <2>4. {abort_handler', pool', closed'} \subseteq BOOLEAN
    <3>1. CASE close_drop(c)
          BY <1>0, <3>1 DEF close_drop, TypeOK, history
    <3>2. CASE close_pool(c)
          BY <1>0, <3>2 DEF close_pool, TypeOK, abortVars
    <3> QED BY <1>4, <3>1, <3>2
  <2>5. TypeOK'
        BY <1>0, <2>1, <2>4, PlainTypes DEF TypeOK, stateVars
  <2>6. \A b \in Backend : OwnerMove(c, b)
    <3>1. \A b \in Backend : ~Holds(c, b)
          BY <1>1, <2>1 DEF Holds, At
    <3> QED BY <2>1, <3>1 DEF OwnerMove, stateVars
  <2>7. \A b \in Backend : TokenMove(c, b)
        BY <1>1, <2>1, <2>2, OtherCall DEF stateVars
  <2> QED BY <2>2, <2>3, <2>5, <2>6, <2>7 DEF Moves
<1> QED BY <1>2, <1>3, <1>4 DEF close


-----------------------------------------------------------------------------
(* Jobs and their handlers.                                                *)

JobStep == \/ \E j \in Job : \/ enqueue(j) \/ claim(j) \/ dispatch(j) \/ settle(j)
                             \/ wrapHandler(j) \/ HandlerEnds(j)
           \/ ensureAbortHandler

\* A worker takes a job only from a runtime that is up; no job touches a call
\* or the state of the object.
LEMMA JobTypes ==
    ASSUME TypeOK, JobStep
    PROVE  TypeOK' /\ UNCHANGED <<phase, runtime, launched, call>>
<1>1. ASSUME NEW j \in Job,
             \/ enqueue(j) \/ claim(j) \/ dispatch(j) \/ settle(j)
             \/ wrapHandler(j) \/ HandlerEnds(j)
      PROVE  TypeOK' /\ UNCHANGED <<phase, runtime, launched, call>>
  <2>1. /\ UNCHANGED <<object, stateVars, runtime, launched, abortVars, pool, call,
                       signalled, history>>
        BY <1>1 DEF enqueue, claim, dispatch, settle, wrapHandler, HandlerEnds
  <2>2. row' \in [Job -> {"none", "pending", "running", "done"}]
        BY <1>1 DEF enqueue, claim, dispatch, settle, wrapHandler, HandlerEnds, TypeOK
  <2>3. js' \in [Job -> {"none", "called", "running", "ended"}]
        BY <1>1 DEF enqueue, claim, dispatch, settle, wrapHandler, HandlerEnds, TypeOK
  <2>4. \/ worker' = worker
        \/ worker' = [worker EXCEPT ![j] = "none"]
        \/ /\ worker' = [worker EXCEPT ![j] = "channel"] \/ worker' = [worker EXCEPT ![j] = "waiting"]
           /\ runtime[Home(j)] = "up"
        BY <1>1 DEF enqueue, claim, dispatch, settle, wrapHandler, HandlerEnds
  <2>5. /\ worker' \in [Job -> {"none", "channel", "waiting"}]
        /\ \A i \in Job : worker'[i] # "none" => runtime[Home(i)] \in {"up", "cancelled"}
        BY <2>4 DEF TypeOK
  <2>6. \A i \in Job : Home(i)' = Home(i)
        BY <2>1 DEF Home
  <2> QED BY <2>1, <2>2, <2>3, <2>5, <2>6 DEF TypeOK, stateVars, abortVars, history
<1>2. CASE ensureAbortHandler
  <2>1. \A i \in Job : Home(i)' = Home(i)
        BY <1>2 DEF ensureAbortHandler, Home
  <2>2. signalled' \in [Job -> BOOLEAN]
        BY <1>2 DEF ensureAbortHandler, TypeOK
  <2> QED BY <1>2, <2>1, <2>2 DEF ensureAbortHandler, TypeOK, stateVars, history
<1> QED BY <1>1, <1>2 DEF JobStep

\* The object before its first call.
LEMMA InitApp ==
    ASSUME Init
    PROVE  AppInv /\ \A b \in Backend : Owned(b)
<1>1. TypeOK
      BY AppConstants DEF Init, connect, TypeOK, Backend
<1>2. CallInv
  <2>1. Idle \in CallState /\ Idle.op = "none"
        BY DEF Idle, CallState, Places, Backend
  <2>2. \A c \in Call : call[c] = Idle
        BY DEF Init
  <2>3. call \in [Call -> CallState]
        BY <2>1 DEF Init
  <2> HIDE DEF Idle
  <2> QED BY <2>1, <2>2, <2>3 DEF CallInv, At
<1>3. \A c \in Call : call[c].op = "none"
      BY DEF Init, Idle
<1>4. \A b \in Backend : phase[b] = "Building" /\ launched[b] = 0 /\ runtime[b] = "none"
      BY DEF Init, connect
<1>5. \A b \in Backend : TokenInv(b)
      BY <1>3, <1>4 DEF TokenInv, Token
<1>6. \A b \in Backend : Owned(b)
      BY <1>4 DEF Owned
<1> QED BY <1>1, <1>2, <1>5, <1>6 DEF AppInv

\* Every step keeps the token; and, if shutdown is given modes it knows, the
\* owner.
LEMMA NextApp ==
    ASSUME AppInv, [Next]_vars
    PROVE  /\ AppInv'
           /\ (Modes \subseteq ValidModes /\ \A b \in Backend : Owned(b))
              => \A b \in Backend : Owned(b)'
<1> DEFINE Goal == /\ AppInv'
                   /\ (Modes \subseteq ValidModes /\ \A b \in Backend : Owned(b))
                      => \A b \in Backend : Owned(b)'
<1>1. ASSUME NEW c \in Call, Invoke(c) \/ CallStep(c)
      PROVE  Goal
  <2>1. Moves(c) /\ (Modes \subseteq ValidModes => \A b \in Backend : OwnerMove(c, b))
        BY <1>1, InvokeMoves, ConfigMoves, StartMoves, ShutdownFront, ShutdownBack, CloseMoves
           DEF CallStep, shutdown
  <2>2. \A b \in Backend : TokenInv(b)'
        BY <2>1, TokenStep DEF AppInv, Moves
  <2>3. (Modes \subseteq ValidModes /\ \A b \in Backend : Owned(b)) => \A b \in Backend : Owned(b)'
        BY <2>1, OwnerStep DEF Moves
  <2> QED BY <2>1, <2>2, <2>3 DEF AppInv, Moves
<1>2. ASSUME TypeOK', UNCHANGED <<phase, runtime, launched, call>>
      PROVE  Goal
  <2>1. CallInv'
        BY <1>2 DEF AppInv, CallInv, At
  <2>2. \A b \in Backend : TokenInv(b)'
        BY <1>2 DEF AppInv, TokenInv, Token
  <2>3. \A b \in Backend : Owned(b) => Owned(b)'
        BY <1>2 DEF Owned, Holds, At
  <2> QED BY <1>2, <2>1, <2>2, <2>3 DEF AppInv
<1>3. CASE JobStep
      BY <1>2, <1>3, JobTypes DEF AppInv
<1>4. CASE UNCHANGED vars
  <2>1. TypeOK'
        BY <1>4 DEF AppInv, TypeOK, Home, vars, stateVars, abortVars, jobVars, history
  <2> QED BY <1>2, <1>4, <2>1 DEF vars, stateVars
<1> QED BY <1>1, <1>3, <1>4 DEF Next, JobStep

\* However calls of start overlap, each other and a shutdown or a close, a
\* backend is started once (lib.rs:1003-1110): what start takes out of the
\* object is put back only if it was not used.
THEOREM BackendStartsOnce == Spec => [](TypeOK /\ OneRuntime)
<1>1. AppInv => OneRuntime
      BY DEF AppInv, TokenInv, OneRuntime
<1>2. Init => AppInv
      BY InitApp
<1>3. AppInv /\ [Next]_vars => AppInv'
      BY NextApp
<1>4. AppInv => TypeOK
      BY DEF AppInv
<1> QED BY <1>1, <1>2, <1>3, <1>4, PTL DEF Spec

\* If shutdown is only given modes it knows, a runtime that lives is in the
\* object or in the hands of a call, which will stop it (lib.rs:1202-1330).
\* An unknown mode is found when the runtime is already out of the object, and
\* loses it.
THEOREM RuntimesAreOwned ==
    ASSUME Modes \subseteq ValidModes
    PROVE  Spec => []LifeInv
<1> DEFINE Inv == AppInv /\ \A b \in Backend : Owned(b)
<1>1. Init => Inv
      BY InitApp
<1>2. Inv /\ [Next]_vars => Inv'
      BY NextApp
<1>3. Inv => LifeInv
      BY DEF AppInv, TokenInv, Owned, LifeInv, RuntimeIsOwned, OneRuntime
<1> HIDE DEF Inv
<1> QED BY <1>1, <1>2, <1>3, PTL DEF Spec

\* A handler whose call comes to the JavaScript thread after the broadcast does
\* not start, and the broadcast signals those that have (lib.cjs).
THEOREM AbortsReachAll == Spec => []AbortReachesAll
<1>1. Init => AbortReachesAll
      BY DEF Init, AbortReachesAll
<1>2. ASSUME AppInv, AbortReachesAll, [Next]_vars
      PROVE  AbortReachesAll'
  <2>1. js \in [Job -> {"none", "called", "running", "ended"}] /\ signalled \in [Job -> BOOLEAN]
        BY <1>2 DEF AppInv, TypeOK
  <2>2. ASSUME UNCHANGED <<js, signalled, abortedWith>>
        PROVE  AbortReachesAll'
        BY <1>2, <2>2 DEF AbortReachesAll
  <2>3. ASSUME NEW c \in Call, Invoke(c) \/ CallStep(c)
        PROVE  AbortReachesAll'
    <3>1. UNCHANGED <<js, signalled, abortedWith>>
      <4>1. CASE Invoke(c) \/ work(c) \/ subscribe_to(c)
            BY <4>1 DEF Invoke, work, subscribe_to, jobVars, abortVars
      <4>2. CASE start(c)
            BY <4>2 DEF start, start_take, start_restore, start_check, start_launch,
                        start_publish, jobVars, abortVars
      <4>3. CASE shutdown(c)
            BY <4>3 DEF shutdown, shutdown_broadcast, shutdown_swap, shutdown_mode,
                        shutdown_core, drain_clean, drain_escalated, reclaim_in_flight,
                        shutdown_finish, jobVars, abortVars
      <4>4. CASE close(c)
            BY <4>4 DEF close, close_swap, close_abandon, close_drop, close_pool,
                        jobVars, abortVars
      <4> QED BY <2>3, <4>1, <4>2, <4>3, <4>4 DEF CallStep
    <3> QED BY <2>2, <3>1
  <2>4. ASSUME NEW j \in Job, enqueue(j) \/ claim(j) \/ settle(j)
        PROVE  AbortReachesAll'
        BY <2>2, <2>4 DEF enqueue, claim, settle, abortVars
  <2>5. ASSUME NEW j \in Job, dispatch(j) \/ wrapHandler(j) \/ HandlerEnds(j)
        PROVE  AbortReachesAll'
    <3>1. signalled' = signalled /\ abortedWith' = abortedWith
          BY <2>5 DEF dispatch, wrapHandler, HandlerEnds, abortVars
    <3>2. abortedWith => \A i \in Job : js'[i] = "running" => js[i] = "running"
          BY <2>1, <2>5 DEF dispatch, wrapHandler, HandlerEnds
    <3> QED BY <1>2, <3>1, <3>2 DEF AbortReachesAll
  <2>6. CASE ensureAbortHandler
        BY <2>1, <2>6 DEF ensureAbortHandler, AbortReachesAll
  <2>7. CASE UNCHANGED vars
        BY <2>2, <2>7 DEF vars, jobVars, abortVars
  <2> QED BY <1>2, <2>3, <2>4, <2>5, <2>6, <2>7 DEF Next
<1>3. Init => AppInv
      BY InitApp
<1>4. AppInv /\ [Next]_vars => AppInv'
      BY NextApp
<1> QED BY <1>1, <1>2, <1>3, <1>4, PTL DEF Spec
=============================================================================
