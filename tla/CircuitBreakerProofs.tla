------------------------- MODULE CircuitBreakerProofs -------------------------
(***************************************************************************)
(* Theorems about CircuitBreaker, for every number of tasks, agents and    *)
(* processes and every configuration: type correctness; for hooks that run *)
(* one at a time, with crashes and failing store calls, that it implements *)
(* the three-state machine, that suspensions run their course and that     *)
(* nothing runs while a breaker is open; and, without faults, that the API *)
(* reports what the hooks do, that the registry lists every breaker it has *)
(* to and that an agent at the error threshold is suspended.               *)
(***************************************************************************)
EXTENDS CircuitBreaker, TLAPS

-----------------------------------------------------------------------------
(* Type correctness                                                        *)

LEMMA RangesTyped ==
  /\ 0 \in 0..Cooldown
  /\ Cooldown \in 0..Cooldown
  /\ NoErrors \in [Slots -> 0..Lifetime]
  BY BreakerAssumption DEF NoErrors, Lifetime

LEMMA InitTyped == Init => TypeOK
  <1> SUFFICES ASSUME Init PROVE TypeOK
    OBVIOUS
  <1>1. suspended \in [Agents -> 0..Cooldown]
    BY RangesTyped DEF Init
  <1>2. errors \in [Processes -> [Agents -> [Slots -> 0..Lifetime]]]
    BY RangesTyped DEF Init
  <1> QED BY <1>1, <1>2, BreakerAssumption DEF Init, TypeOK, Parked

\* The window after a new error is a window.
LEMMA WindowTyped ==
  ASSUME NEW w \in [Slots -> 0..Lifetime]
  PROVE  WithNewError(w) \in [Slots -> 0..Lifetime]
  <1> SUFFICES ASSUME NEW i \in Slots
               PROVE  (IF i = 1 THEN Lifetime ELSE w[i - 1]) \in 0..Lifetime
    BY DEF WithNewError
  <1>1. Lifetime \in 0..Lifetime
    BY BreakerAssumption DEF Lifetime
  <1>2. i # 1 => i - 1 \in Slots
    BY BreakerAssumption DEF Slots
  <1> QED BY <1>1, <1>2

LEMMA SoonerTyped == \A n \in Nat : \A x \in 0..n : Sooner(x) \in 0..n
  BY DEF Sooner

LEMMA FinishTyped ==
  ASSUME TypeOK, NEW t \in Tasks, Finish(t)
  PROVE  /\ pc' \in [Tasks -> Parked \cup InHook]
         /\ agent_id' \in [Tasks -> Agents]
         /\ hot' \in [Tasks -> BOOLEAN]
         /\ seen' \in [Tasks -> CBStates \cup {"none"}]
  BY BreakerAssumption DEF TypeOK, Finish, Goto, Identify, Parked

LEMMA VerdictTyped ==
  ASSUME TypeOK, NEW t \in Tasks, NEW v \in CBStates, Verdict(t, v)
  PROVE  /\ pc' \in [Tasks -> Parked \cup InHook]
         /\ agent_id' \in [Tasks -> Agents]
         /\ hot' \in [Tasks -> BOOLEAN]
         /\ seen' \in [Tasks -> CBStates \cup {"none"}]
  <1>1. CASE Finish(t)
    BY <1>1, FinishTyped
  <1>2. CASE /\ Goto(t, "cleared")
             /\ seen' = [seen EXCEPT ![t] = v]
             /\ UNCHANGED <<agent_id, hot>>
    BY <1>2 DEF TypeOK, Goto, InHook
  <1> QED BY <1>1, <1>2 DEF Verdict

LEMMA CheckTyped ==
  ASSUME TypeOK, NEW t \in Tasks, Check(t)
  PROVE  TypeOK'
  <1>a. agent_id[t] \in Agents
    BY DEF TypeOK
  <1>1. CASE CheckSuspended(t)
    <2>1. CASE Verdict(t, "open")
      BY <1>1, <2>1, VerdictTyped DEF CheckSuspended, TypeOK, CBStates
    <2>2. CASE Goto(t, "hgetall") /\ UNCHANGED <<agent_id, seen, hot>>
      BY <1>1, <2>2 DEF CheckSuspended, TypeOK, Goto, InHook
    <2> QED BY <1>1, <2>1, <2>2 DEF CheckSuspended
  <1>2. CASE CheckHash(t)
    <2> DEFINE v == IF hash[agent_id[t]] = "none" THEN "closed" ELSE hash[agent_id[t]]
    <2>1. v \in CBStates
      BY <1>a DEF TypeOK, CBStates
    <2>2. CASE Verdict(t, v)
      <3> HIDE DEF v
      <3> QED BY <1>2, <2>1, <2>2, VerdictTyped DEF CheckHash, TypeOK
    <2>3. CASE Goto(t, "half") /\ UNCHANGED <<agent_id, seen, hot>>
      BY <1>2, <2>3 DEF CheckHash, TypeOK, Goto, InHook
    <2> QED BY <1>2, <2>2, <2>3 DEF CheckHash
  <1>3. CASE HalfOpen(t)
    <2>1. hash' \in [Agents -> CBStates \cup {"none"}]
      BY <1>3 DEF HalfOpen, TypeOK, CBStates
    <2> QED BY <1>3, <2>1, VerdictTyped DEF HalfOpen, TypeOK, CBStates
  <1> QED BY <1>1, <1>2, <1>3 DEF Check

LEMMA TripTyped ==
  ASSUME TypeOK, NEW t \in Tasks, TripStep(t)
  PROVE  TypeOK'
  <1>a. agent_id[t] \in Agents
    BY DEF TypeOK
  <1>1. CASE TripHash(t)
    BY <1>1 DEF TripHash, TypeOK, CBStates, Goto, InHook
  <1>2. CASE TripSuspend(t)
    <2>1. suspended' \in [Agents -> 0..Cooldown]
      BY <1>2, RangesTyped DEF TripSuspend, Suspension, TypeOK
    <2> QED BY <1>2, <2>1 DEF TripSuspend, TypeOK, Goto, InHook
  <1>3. CASE TripRegister(t)
    BY <1>3, <1>a, FinishTyped DEF TripRegister, TypeOK
  <1> QED BY <1>1, <1>2, <1>3 DEF TripStep

\* Forgetting the errors of an agent in one process keeps the windows typed.
LEMMA ForgetTyped ==
  ASSUME TypeOK, NEW t \in Tasks, ForgetErrors(t)
  PROVE  errors' \in [Processes -> [Agents -> [Slots -> 0..Lifetime]]]
  <1>1. Home[t] \in Processes
    BY BreakerAssumption
  <1>2. [errors[Home[t]] EXCEPT ![agent_id[t]] = NoErrors]
          \in [Agents -> [Slots -> 0..Lifetime]]
    BY <1>1, RangesTyped DEF TypeOK
  <1>3. errors' = [errors EXCEPT ![Home[t]] =
                     [errors[Home[t]] EXCEPT ![agent_id[t]] = NoErrors]]
    BY <1>1 DEF ForgetErrors
  <1> QED BY <1>1, <1>2, <1>3 DEF TypeOK

LEMMA CallTyped ==
  ASSUME TypeOK, NEW c \in Calls, CallStep(c)
  PROVE  TypeOK'
  <1>a. c \in Tasks /\ Home[c] \in Processes /\ agent_id[c] \in Agents
    BY BreakerAssumption DEF Tasks, TypeOK
  <1>1. CASE Check(c)
    BY <1>1, <1>a, CheckTyped
  <1>2. CASE Admit(c)
    BY <1>2, BreakerAssumption DEF Admit, TypeOK, Goto, Identify, Parked
  <1>3. CASE Block(c)
    BY <1>3 DEF Block, TypeOK, Goto, InHook
  <1>4. CASE TripStep(c)
    BY <1>4, <1>a, TripTyped
  <1>5. CASE Succeed(c)
    <2>1. CASE Finish(c)
      BY <1>5, <1>a, <2>1, FinishTyped DEF Succeed, TypeOK
    <2>2. CASE Goto(c, "closeHash") /\ UNCHANGED <<agent_id, seen, hot>>
      BY <1>5, <2>2 DEF Succeed, TypeOK, Goto, InHook
    <2> QED BY <1>5, <2>1, <2>2 DEF Succeed
  <1>6. CASE CloseHash(c)
    BY <1>6 DEF CloseHash, TypeOK, CBStates, Goto, InHook
  <1>7. CASE CloseSuspended(c)
    <2>1. suspended' \in [Agents -> 0..Cooldown]
      BY <1>7, RangesTyped DEF CloseSuspended, TypeOK
    <2> QED BY <1>7, <1>a, <2>1, ForgetTyped, FinishTyped DEF CloseSuspended, TypeOK
  <1>8. CASE Fail(c)
    <2> DEFINE w == WithNewError(errors[Home[c]][agent_id[c]])
    <2>1. w \in [Slots -> 0..Lifetime]
      BY <1>a, WindowTyped DEF TypeOK
    <2>2. errors' = [errors EXCEPT ![Home[c]] =
                       [errors[Home[c]] EXCEPT ![agent_id[c]] = w]]
      BY <1>8, <1>a DEF Fail
    <2>3. hot' = [hot EXCEPT ![c] = (w[ErrorThreshold] > 0)]
      BY <1>8 DEF Fail, ReachesThreshold
    <2> HIDE DEF w
    <2>4. [errors[Home[c]] EXCEPT ![agent_id[c]] = w] \in [Agents -> [Slots -> 0..Lifetime]]
      BY <1>a, <2>1 DEF TypeOK
    <2>5. errors' \in [Processes -> [Agents -> [Slots -> 0..Lifetime]]]
      BY <1>a, <2>2, <2>4 DEF TypeOK
    <2>a. (w[ErrorThreshold] > 0) \in BOOLEAN
      OBVIOUS
    <2>6. hot' \in [Tasks -> BOOLEAN]
      BY <2>3, <2>a, Zenon DEF TypeOK
    <2>7. pc' \in [Tasks -> Parked \cup InHook]
      BY <1>8 DEF Fail, TypeOK, Goto, InHook
    <2> QED BY <1>8, <2>5, <2>6, <2>7 DEF Fail, TypeOK
  <1>9. CASE JudgeFailure(c)
    <2>1. CASE Finish(c)
      BY <1>9, <1>a, <2>1, FinishTyped DEF JudgeFailure, TypeOK
    <2>2. CASE Goto(c, "tripHash") /\ UNCHANGED <<agent_id, seen, hot>>
      BY <1>9, <2>2 DEF JudgeFailure, TypeOK, Goto, InHook
    <2> QED BY <1>9, <2>1, <2>2 DEF JudgeFailure
  <1> QED BY <1>1, <1>2, <1>3, <1>4, <1>5, <1>6, <1>7, <1>8, <1>9 DEF CallStep

LEMMA OperatorTyped ==
  ASSUME TypeOK, NEW o \in Operators, OperatorStep(o)
  PROVE  TypeOK'
  <1>a. o \in Tasks
    BY DEF Tasks
  <1>1. CASE Check(o)
    BY <1>1, <1>a, CheckTyped
  <1>2. CASE ResetHash(o)
    BY <1>2 DEF ResetHash, TypeOK, CBStates, Goto, InHook
  <1>3. CASE ResetSuspended(o)
    <2>1. suspended' \in [Agents -> 0..Cooldown]
      BY <1>3, RangesTyped DEF ResetSuspended, TypeOK
    <2> QED BY <1>3, <1>a, <2>1, ForgetTyped, FinishTyped DEF ResetSuspended, TypeOK
  <1> QED BY <1>1, <1>2, <1>3 DEF OperatorStep

LEMMA EnvironmentTyped ==
  ASSUME TypeOK,
         \/ \E t \in Tasks : Abort(t)
         \/ \E p \in Processes : Crash(p)
         \/ Tick
         \/ CalmDown
  PROVE  TypeOK'
  <1>1. ASSUME NEW t \in Tasks, Abort(t) PROVE TypeOK'
    BY <1>1, FinishTyped DEF Abort, TypeOK
  <1>2. ASSUME NEW p \in Processes, Crash(p) PROVE TypeOK'
    <2>1. errors' \in [Processes -> [Agents -> [Slots -> 0..Lifetime]]]
      BY <1>2, RangesTyped DEF Crash, TypeOK
    <2>2. pc' \in [Tasks -> Parked \cup InHook]
      BY <1>2 DEF Crash, TypeOK, Parked
    <2>3. seen' \in [Tasks -> CBStates \cup {"none"}] /\ agent_id' \in [Tasks -> Agents]
      BY <1>2, BreakerAssumption DEF Crash, TypeOK
    <2>4. hot' \in [Tasks -> BOOLEAN]
      BY <1>2, Zenon DEF Crash
    <2> QED BY <1>2, <2>1, <2>2, <2>3, <2>4 DEF Crash, TypeOK
  <1>3. CASE Tick
    <2>1. suspended' \in [Agents -> 0..Cooldown]
      BY <1>3, SoonerTyped, BreakerAssumption DEF Tick, TypeOK
    <2>2. \A p \in Processes, a \in Agents, i \in Slots :
             Sooner(errors[p][a][i]) \in 0..Lifetime
      BY SoonerTyped, BreakerAssumption DEF TypeOK, Lifetime
    <2>3. errors' \in [Processes -> [Agents -> [Slots -> 0..Lifetime]]]
      BY <1>3, <2>2 DEF Tick
    <2> QED BY <1>3, <2>1, <2>3 DEF Tick, TypeOK
  <1>4. CASE CalmDown
    BY <1>4 DEF CalmDown, TypeOK
  <1> QED BY <1>1, <1>2, <1>3, <1>4

LEMMA StepTyped == TypeOK /\ [Next]_vars => TypeOK'
  <1> SUFFICES ASSUME TypeOK, [Next]_vars PROVE TypeOK'
    OBVIOUS
  <1>1. CASE \E c \in Calls : CallStep(c)
    BY <1>1, CallTyped
  <1>2. CASE \E o \in Operators : OperatorStep(o)
    BY <1>2, OperatorTyped
  <1>3. CASE \/ \E t \in Tasks : Abort(t)
             \/ \E p \in Processes : Crash(p)
             \/ Tick
             \/ CalmDown
    BY <1>3, EnvironmentTyped
  <1>4. CASE UNCHANGED vars
    BY <1>4 DEF vars, TypeOK
  <1> QED BY <1>1, <1>2, <1>3, <1>4 DEF Next

\* Every reachable state of the breaker is well typed; in particular no
\* suspension outlasts the cooldown and no error its window.
THEOREM TypeCorrect == Spec => []TypeOK
  BY InitTyped, StepTyped, PTL DEF Spec

-----------------------------------------------------------------------------
(* Hooks one at a time                                                     *)

\* The steps that some task takes in its hook or command.
TaskStep(t) == (t \in Calls /\ CallStep(t)) \/ (t \in Operators /\ OperatorStep(t))

\* A task's step moves that task only, and only while no other is in a hook; a
\* hook concerns one agent from its beginning to its end.
LEMMA OwnStep ==
  ASSUME TypeOK, NEW t \in Tasks, TaskStep(t)
  PROVE  /\ MayRun(t)
         /\ pc' = [pc EXCEPT ![t] = pc'[t]]
         /\ agent_id' = [agent_id EXCEPT ![t] = agent_id'[t]]
         /\ pc'[t] \notin Parked => agent_id' = agent_id
  <1> DEFINE Goes == \E x : Goto(t, x) /\ UNCHANGED agent_id
             Sends == Goto(t, "running") /\ Identify(t, LoggedAs[t])
             Moves == MayRun(t) /\ (Finish(t) \/ Goes \/ Sends)
  <1>1. Check(t) => Moves
    BY DEF Check, CheckSuspended, CheckHash, HalfOpen, Verdict
  <1>2. TripStep(t) => Moves
    BY DEF TripStep, TripHash, TripSuspend, TripRegister
  <1>3. Admit(t) \/ Block(t) \/ Succeed(t) \/ CloseHash(t) \/ CloseSuspended(t) => Moves
    BY DEF Admit, Block, Succeed, CloseHash, CloseSuspended
  <1>4. Fail(t) \/ JudgeFailure(t) => Moves
    BY DEF Fail, JudgeFailure
  <1>5. ResetHash(t) \/ ResetSuspended(t) => Moves
    BY DEF ResetHash, ResetSuspended
  <1>6. Moves
    BY <1>1, <1>2, <1>3, <1>4, <1>5 DEF TaskStep, CallStep, OperatorStep
  <1>7. CASE Finish(t)
    BY <1>6, <1>7 DEF Finish, Goto, Identify, TypeOK, Parked
  <1>8. CASE Goes
    BY <1>6, <1>8 DEF Goto, TypeOK
  <1>9. CASE Sends
    BY <1>6, <1>9 DEF Goto, Identify, TypeOK, Parked
  <1> QED BY <1>6, <1>7, <1>8, <1>9

\* So when one hook runs at a time, the others are parked before and after.
LEMMA OthersParked ==
  ASSUME ~AwaitsSuspend, TypeOK, NEW t \in Tasks, TaskStep(t),
         NEW u \in Tasks, u # t
  PROVE  pc[u] \in Parked /\ pc'[u] = pc[u] /\ agent_id'[u] = agent_id[u]
  <1>1. pc'[u] = pc[u] /\ agent_id'[u] = agent_id[u]
    BY OwnStep DEF TypeOK
  <1> QED BY <1>1, OwnStep DEF MayRun

\* A step that stays in its hook, or enters one, leaves every agent_id.
LEMMA HookKeepsAgent ==
  ASSUME TypeOK, NEW t \in Tasks, TaskStep(t), pc'[t] \in InHook
  PROVE  agent_id' = agent_id
  <1>1. InHook \cap Parked = {}
    BY DEF InHook, Parked
  <1> QED BY <1>1, OwnStep

LEMMA OneHookStep ==
  ~AwaitsSuspend /\ TypeOK /\ OneHookAtATime /\ [Next]_vars => OneHookAtATime'
  <1> SUFFICES ASSUME ~AwaitsSuspend, TypeOK, OneHookAtATime, [Next]_vars,
                      NEW u \in Tasks, NEW v \in Tasks, u # v
               PROVE  pc'[u] \in Parked \/ pc'[v] \in Parked
    BY DEF OneHookAtATime
  <1>0. pc[u] \in Parked \/ pc[v] \in Parked
    BY DEF OneHookAtATime
  <1>1. ASSUME NEW t \in Tasks, TaskStep(t)
        PROVE  pc'[u] \in Parked \/ pc'[v] \in Parked
    BY <1>1, OthersParked
  <1>2. ASSUME NEW t \in Tasks, Abort(t) PROVE pc'[u] \in Parked \/ pc'[v] \in Parked
    BY <1>0, <1>2 DEF Abort, Finish, Goto, TypeOK, Parked
  <1>3. ASSUME NEW p \in Processes, Crash(p) PROVE pc'[u] \in Parked \/ pc'[v] \in Parked
    BY <1>0, <1>3 DEF Crash, Parked
  <1>4. CASE Tick \/ CalmDown \/ UNCHANGED vars
    BY <1>0, <1>4 DEF Tick, CalmDown, vars
  <1> QED BY <1>1, <1>2, <1>3, <1>4 DEF Next, TaskStep, Tasks

\* A step of one task need only be checked against that task.
LEMMA CoherentByOwnStep ==
  ASSUME ~AwaitsSuspend, TypeOK, NEW t \in Tasks, TaskStep(t),
         SuspendedIsOpen', TaskCoherent(t)'
  PROVE  Coherent'
  <1>1. ASSUME NEW u \in Tasks, u # t PROVE TaskCoherent(u)'
    BY <1>1, OthersParked DEF TaskCoherent, Parked
  <1> QED BY <1>1 DEF Coherent

LEMMA CoherentTaskStep ==
  ASSUME ~AwaitsSuspend, TypeOK, Coherent, NEW t \in Tasks, TaskStep(t)
  PROVE  Coherent'
  <1> DEFINE a == agent_id[t]
  <1>0. /\ a \in Agents
        /\ TaskCoherent(t) /\ SuspendedIsOpen
        /\ pc \in [Tasks -> Parked \cup InHook]
        /\ suspended \in [Agents -> 0..Cooldown]
        /\ hash \in [Agents -> CBStates \cup {"none"}]
        /\ pc'[t] \notin Parked => agent_id'[t] = a
    BY OwnStep DEF Coherent, TypeOK
  <1> SUFFICES SuspendedIsOpen' /\ TaskCoherent(t)'
    BY CoherentByOwnStep
  <1>1. CASE CheckSuspended(t)
    <2>1. pc'[t] \in {"idle", "cleared", "hgetall"} /\ UNCHANGED <<hash, suspended>>
      BY <1>0, <1>1 DEF CheckSuspended, Verdict, Finish, Goto
    <2>2. Enforce /\ pc'[t] = "cleared" => suspended[a] = 0
      BY <1>0, <1>1 DEF CheckSuspended, Verdict, Finish, Goto
    <2>3. pc'[t] = "hgetall" => suspended[a] = 0
      BY <1>0, <1>1 DEF CheckSuspended, Verdict, Finish, Goto, IsSuspended
    <2> QED BY <1>0, <2>1, <2>2, <2>3 DEF SuspendedIsOpen, TaskCoherent, Parked
  <1>2. CASE CheckHash(t)
    <2>1. pc'[t] \in {"idle", "cleared", "half"} /\ UNCHANGED <<hash, suspended>>
      BY <1>0, <1>2 DEF CheckHash, Verdict, Finish, Goto
    <2>2. pc'[t] = "half" => hash[a] = "open"
      BY <1>0, <1>2 DEF CheckHash, Verdict, Finish, Goto
    <2>3. suspended[a] = 0
      BY <1>0, <1>2 DEF CheckHash, TaskCoherent
    <2> QED BY <1>0, <2>1, <2>2, <2>3 DEF SuspendedIsOpen, TaskCoherent, Parked
  <1>3. CASE HalfOpen(t)
    <2>1. suspended[a] = 0 /\ UNCHANGED suspended
      BY <1>0, <1>3 DEF HalfOpen, TaskCoherent
    <2>2. pc'[t] \in {"idle", "cleared"}
      BY <1>0, <1>3 DEF HalfOpen, Verdict, Finish, Goto
    <2>3. hash' = [hash EXCEPT ![a] = "half_open"]
      BY <1>3 DEF HalfOpen
    <2> QED BY <1>0, <2>1, <2>2, <2>3 DEF SuspendedIsOpen, TaskCoherent, Parked
  <1>4. CASE Admit(t) \/ Block(t) \/ Succeed(t) \/ Fail(t) \/ JudgeFailure(t) \/ TripRegister(t)
    <2>1. UNCHANGED <<hash, suspended>>
      BY <1>4 DEF Admit, Block, Succeed, Fail, JudgeFailure, TripRegister
    <2>2. pc'[t] \in {"idle", "running", "tripHash", "closeHash", "failure"}
      BY <1>0, <1>4
         DEF Admit, Block, Succeed, Fail, JudgeFailure, TripRegister, Finish, Goto
    <2>3. pc'[t] = "closeHash" => hash[a] = "half_open"
      BY <1>0, <1>4
         DEF Admit, Block, Succeed, Recovers, Fail, JudgeFailure, TripRegister, Finish, Goto
    <2> QED BY <1>0, <2>1, <2>2, <2>3 DEF SuspendedIsOpen, TaskCoherent, Parked
  <1>5. CASE TripHash(t)
    <2>1. /\ hash' = [hash EXCEPT ![a] = "open"]
          /\ pc'[t] = "tripSuspend"
          /\ UNCHANGED suspended
      BY <1>0, <1>5 DEF TripHash, Goto
    <2> QED BY <1>0, <2>1 DEF SuspendedIsOpen, TaskCoherent, Parked
  <1>6. CASE TripSuspend(t)
    <2>1. /\ suspended' = [suspended EXCEPT ![a] = Cooldown]
          /\ pc'[t] = "tripRegister" /\ hash[a] = "open"
          /\ UNCHANGED hash
      BY <1>0, <1>6 DEF TripSuspend, Suspension, Goto, TaskCoherent
    <2> QED BY <1>0, <2>1 DEF SuspendedIsOpen, TaskCoherent, Parked
  <1>7. CASE CloseHash(t)
    <2>1. /\ hash' = [hash EXCEPT ![a] = "closed"]
          /\ pc'[t] = "closeSuspended" /\ suspended[a] = 0
          /\ UNCHANGED suspended
      BY <1>0, <1>7 DEF CloseHash, Goto, TaskCoherent, SuspendedIsOpen
    <2> QED BY <1>0, <2>1 DEF SuspendedIsOpen, TaskCoherent, Parked
  <1>8. CASE CloseSuspended(t) \/ ResetSuspended(t)
    <2>1. /\ suspended' = [suspended EXCEPT ![a] = 0]
          /\ pc'[t] = "idle"
          /\ UNCHANGED hash
      BY <1>0, <1>8 DEF CloseSuspended, ResetSuspended, Finish, Goto
    <2> QED BY <1>0, <2>1 DEF SuspendedIsOpen, TaskCoherent, Parked
  <1>9. CASE ResetHash(t)
    <2>1. /\ hash' = [hash EXCEPT ![a] = "none"]
          /\ pc'[t] = "resetSuspended"
          /\ UNCHANGED suspended
      BY <1>0, <1>9 DEF ResetHash, Goto
    <2> QED BY <1>0, <2>1 DEF SuspendedIsOpen, TaskCoherent, Parked
  <1> QED BY <1>1, <1>2, <1>3, <1>4, <1>5, <1>6, <1>7, <1>8, <1>9
          DEF TaskStep, CallStep, OperatorStep, Check, TripStep

LEMMA CoherentStep ==
  ~AwaitsSuspend /\ TypeOK /\ Coherent /\ [Next]_vars => Coherent'
  <1> SUFFICES ASSUME ~AwaitsSuspend, TypeOK, Coherent, [Next]_vars PROVE Coherent'
    OBVIOUS
  <1>1. ASSUME NEW t \in Tasks, TaskStep(t) PROVE Coherent'
    BY <1>1, CoherentTaskStep
  <1>2. ASSUME NEW t \in Tasks, Abort(t) PROVE Coherent'
    BY <1>2 DEF Abort, Finish, Goto, Identify, TypeOK, Coherent, SuspendedIsOpen, TaskCoherent
  <1>3. ASSUME NEW p \in Processes, Crash(p) PROVE Coherent'
    BY <1>3 DEF Crash, Coherent, SuspendedIsOpen, TaskCoherent
  <1>4. CASE Tick
    <2>1. ASSUME NEW a \in Agents, suspended[a] = 0 PROVE suspended'[a] = 0
      BY <1>4, <2>1 DEF Tick, Sooner
    <2>2. UNCHANGED <<hash, pc, agent_id>> /\ \A t \in Tasks : agent_id[t] \in Agents
      BY <1>4 DEF Tick, TypeOK
    <2>3. SuspendedIsOpen'
      BY <2>1, <2>2 DEF Coherent, SuspendedIsOpen
    <2>4. ASSUME NEW t \in Tasks PROVE TaskCoherent(t)'
      BY <2>1, <2>2 DEF Coherent, TaskCoherent
    <2> QED BY <2>3, <2>4 DEF Coherent
  <1>5. CASE CalmDown \/ UNCHANGED vars
    BY <1>5 DEF CalmDown, vars, Coherent, SuspendedIsOpen, TaskCoherent
  <1> QED BY <1>1, <1>2, <1>3, <1>4, <1>5 DEF Next, TaskStep, Tasks

\* Until a request is sent, its task goes by the agent that was checked.
Identified ==
  \A t \in Tasks :
    pc[t] \in {"idle", "hgetall", "half", "cleared"} => agent_id[t] = CheckedAs[t]

LEMMA IdentifiedTaskStep ==
  ASSUME TypeOK, Identified, NEW t \in Tasks, TaskStep(t)
  PROVE  Identified'
  <1> DEFINE Before == {"idle", "hgetall", "half", "cleared"}
             Known == pc'[t] \in Before => agent_id'[t] = CheckedAs[t]
             Stays == pc[t] \in Before /\ UNCHANGED agent_id
             Passes == \E x : Goto(t, x) /\ x \notin Before
             Moves == Finish(t) \/ Stays \/ Passes
  <1>1. Check(t) => Moves
    BY DEF Check, CheckSuspended, CheckHash, HalfOpen, Verdict
  <1>2. TripStep(t) => Moves
    BY DEF TripStep, TripHash, TripSuspend, TripRegister
  <1>3. Admit(t) \/ Block(t) \/ Succeed(t) \/ CloseHash(t) \/ CloseSuspended(t) => Moves
    BY DEF Admit, Block, Succeed, CloseHash, CloseSuspended
  <1>4. Fail(t) \/ JudgeFailure(t) => Moves
    BY DEF Fail, JudgeFailure
  <1>5. ResetHash(t) \/ ResetSuspended(t) => Moves
    BY DEF ResetHash, ResetSuspended
  <1>6. Moves
    BY <1>1, <1>2, <1>3, <1>4, <1>5 DEF TaskStep, CallStep, OperatorStep
  <1>7. Finish(t) => Known
    BY DEF Finish, Identify, TypeOK
  <1>8. Stays => Known
    BY DEF Identified
  <1>9. Passes => Known
    BY DEF Goto, TypeOK
  <1>10. \A u \in Tasks \ {t} : pc'[u] = pc[u] /\ agent_id'[u] = agent_id[u]
    BY OwnStep DEF TypeOK
  <1> QED BY <1>6, <1>7, <1>8, <1>9, <1>10 DEF Identified

LEMMA IdentifiedStep == TypeOK /\ Identified /\ [Next]_vars => Identified'
  <1> SUFFICES ASSUME TypeOK, Identified, [Next]_vars PROVE Identified'
    OBVIOUS
  <1>1. ASSUME NEW t \in Tasks, TaskStep(t) PROVE Identified'
    BY <1>1, IdentifiedTaskStep
  <1>2. ASSUME NEW t \in Tasks, Abort(t) PROVE Identified'
    BY <1>2 DEF Abort, Finish, Goto, Identify, TypeOK, Identified
  <1>3. ASSUME NEW p \in Processes, Crash(p) PROVE Identified'
    BY <1>3 DEF Crash, Identified
  <1>4. CASE Tick \/ CalmDown \/ UNCHANGED vars
    BY <1>4 DEF Tick, CalmDown, vars, Identified
  <1> QED BY <1>1, <1>2, <1>3, <1>4 DEF Next, TaskStep, Tasks

LEMMA InitCoherent == Init => OneHookAtATime /\ Coherent /\ Identified
  BY BreakerAssumption
     DEF Init, OneHookAtATime, Coherent, SuspendedIsOpen, TaskCoherent, Identified, Parked

SerialInv == TypeOK /\ OneHookAtATime /\ Coherent /\ Identified

LEMMA SerialInvariant == ~AwaitsSuspend => (Spec => []SerialInv)
  <1> SUFFICES ASSUME ~AwaitsSuspend PROVE Spec => []SerialInv
    OBVIOUS
  <1>1. Init => SerialInv
    BY InitTyped, InitCoherent DEF SerialInv
  <1>2. SerialInv /\ [Next]_vars => SerialInv'
    BY StepTyped, OneHookStep, CoherentStep, IdentifiedStep DEF SerialInv
  <1> QED BY <1>1, <1>2, PTL DEF Spec

-----------------------------------------------------------------------------
(* Action properties of serial hooks                                       *)

\* Which steps write a suspended key, and what they write.
LEMMA SuspendedWrites ==
  ASSUME TypeOK, NEW t \in Tasks, TaskStep(t), suspended' # suspended
  PROVE  \/ suspended' = [suspended EXCEPT ![agent_id[t]] = Cooldown]
         \/ /\ pc[t] \in {"closeSuspended", "resetSuspended"}
            /\ suspended' = [suspended EXCEPT ![agent_id[t]] = 0]
            /\ t \in Calls => pc[t] = "closeSuspended"
  <1>1. CASE Check(t)
    BY <1>1 DEF Check, CheckSuspended, CheckHash, HalfOpen
  <1>2. CASE TripStep(t)
    BY <1>2 DEF TripStep, TripHash, TripSuspend, TripRegister, Suspension
  <1>3. CASE t \in Calls /\ CallStep(t) /\ ~Check(t) /\ ~TripStep(t)
    BY <1>3 DEF CallStep, Admit, Block, Succeed, CloseHash, CloseSuspended, Fail, JudgeFailure
  <1>4. CASE t \in Operators /\ OperatorStep(t) /\ ~Check(t)
    BY <1>4, BreakerAssumption DEF OperatorStep, ResetHash, ResetSuspended
  <1> QED BY <1>1, <1>2, <1>3, <1>4 DEF TaskStep

CooldownRuns ==
  \A a \in Agents : suspended'[a] < suspended[a] - 1 =>
    \E o \in Operators : agent_id[o] = a /\ pc[o] = "resetSuspended"

LEMMA CooldownRunsStep ==
  ASSUME SerialInv, [Next]_vars
  PROVE  CooldownRuns
  <1> SUFFICES ASSUME NEW a \in Agents, suspended'[a] < suspended[a] - 1
               PROVE  \E o \in Operators : agent_id[o] = a /\ pc[o] = "resetSuspended"
    BY DEF CooldownRuns
  <1>0. /\ suspended \in [Agents -> 0..Cooldown] /\ Cooldown \in Nat
        /\ suspended' # suspended
    BY BreakerAssumption DEF SerialInv, TypeOK
  <1>1. ASSUME NEW t \in Tasks, TaskStep(t)
        PROVE  \E o \in Operators : agent_id[o] = a /\ pc[o] = "resetSuspended"
    <2>1. CASE suspended' = [suspended EXCEPT ![agent_id[t]] = Cooldown]
      BY <1>0, <2>1
    <2>2. CASE /\ pc[t] \in {"closeSuspended", "resetSuspended"}
               /\ suspended' = [suspended EXCEPT ![agent_id[t]] = 0]
               /\ t \in Calls => pc[t] = "closeSuspended"
      <3>1. agent_id[t] = a
        BY <1>0, <2>2
      <3>2. pc[t] # "closeSuspended"
        BY <1>0, <2>2, <3>1 DEF SerialInv, Coherent, SuspendedIsOpen, TaskCoherent
      <3> QED BY <2>2, <3>1, <3>2 DEF Tasks
    <2> QED BY <1>0, <1>1, <2>1, <2>2, SuspendedWrites DEF SerialInv
  <1>2. CASE Tick
    BY <1>0, <1>2 DEF Tick, Sooner
  <1>3. CASE (\E t \in Tasks : Abort(t)) \/ (\E p \in Processes : Crash(p)) \/ CalmDown
             \/ UNCHANGED vars
    BY <1>0, <1>3 DEF Abort, Crash, CalmDown, vars
  <1> QED BY <1>1, <1>2, <1>3 DEF Next, TaskStep, Tasks

\* "Blocked until a cooldown period expires or an operator manually resets
\* it": when hooks run one at a time, only a reset ends a suspension early.
THEOREM SuspensionRunsItsCourse == ~AwaitsSuspend => (Spec => CooldownRunsItsCourse)
  <1> SUFFICES ASSUME ~AwaitsSuspend PROVE Spec => CooldownRunsItsCourse
    OBVIOUS
  <1>1. Spec => []SerialInv
    BY SerialInvariant
  <1>2. SerialInv /\ [Next]_vars => [CooldownRuns]_vars
    BY CooldownRunsStep
  <1> QED BY <1>1, <1>2, PTL DEF Spec, CooldownRunsItsCourse, CooldownRuns

BlockedWhileOpen ==
  \A c \in Calls : pc[c] # "running" /\ pc'[c] = "running" => suspended[CheckedAs[c]] = 0

LEMMA BlockedStep ==
  ASSUME ~AwaitsSuspend, Enforce, SerialInv, [Next]_vars
  PROVE  BlockedWhileOpen
  <1> SUFFICES ASSUME NEW c \in Calls, pc[c] # "running", pc'[c] = "running"
               PROVE  suspended[CheckedAs[c]] = 0
    BY DEF BlockedWhileOpen
  <1>0. c \in Tasks /\ pc \in [Tasks -> Parked \cup InHook] /\ TypeOK
    BY DEF SerialInv, TypeOK, Tasks
  <1>1. ASSUME NEW t \in Tasks, TaskStep(t) PROVE suspended[CheckedAs[c]] = 0
    <2>1. t = c
      BY <1>0, <1>1, OthersParked
    <2>2. CASE Admit(c)
      BY <1>0, <2>2 DEF Admit, SerialInv, Coherent, TaskCoherent, Identified
    <2>3. CASE Check(c)
      BY <1>0, <2>3 DEF Check, CheckSuspended, CheckHash, HalfOpen, Verdict, Finish, Goto
    <2>4. CASE TripStep(c)
      BY <1>0, <2>4 DEF TripStep, TripHash, TripSuspend, TripRegister, Finish, Goto
    <2>5. CASE Block(c) \/ Succeed(c) \/ CloseHash(c) \/ CloseSuspended(c)
      BY <1>0, <2>5 DEF Block, Succeed, CloseHash, CloseSuspended, Finish, Goto
    <2>6. CASE Fail(c) \/ JudgeFailure(c)
      BY <1>0, <2>6 DEF Fail, JudgeFailure, Finish, Goto
    <2> QED BY <1>1, <2>1, <2>2, <2>3, <2>4, <2>5, <2>6, BreakerAssumption
            DEF TaskStep, CallStep
  <1>2. ASSUME NEW t \in Tasks, Abort(t) PROVE FALSE
    BY <1>0, <1>2 DEF Abort, Finish, Goto
  <1>3. ASSUME NEW p \in Processes, Crash(p) PROVE FALSE
    BY <1>0, <1>3 DEF Crash
  <1>4. CASE Tick \/ CalmDown \/ UNCHANGED vars
    BY <1>4 DEF Tick, CalmDown, vars
  <1> QED BY <1>1, <1>2, <1>3, <1>4 DEF Next, TaskStep, Tasks

\* "Every request returns HTTP 429 immediately": in enforce mode, when hooks
\* run one at a time, no request reaches the LLM while its agent is suspended.
THEOREM OpenBlocks == ~AwaitsSuspend /\ Enforce => (Spec => NothingRunsWhileOpen)
  <1> SUFFICES ASSUME ~AwaitsSuspend, Enforce PROVE Spec => NothingRunsWhileOpen
    OBVIOUS
  <1>1. Spec => []SerialInv
    BY SerialInvariant
  <1>2. SerialInv /\ [Next]_vars => [BlockedWhileOpen]_vars
    BY BlockedStep
  <1> QED BY <1>1, <1>2, PTL DEF Spec, NothingRunsWhileOpen, BlockedWhileOpen

-----------------------------------------------------------------------------
(* Refinement of the three-state machine                                   *)

MachineVars == <<MachineState, MachineCooling, MachineResetting>>

\* A trip or a reset under way is the moving task's own.
LEMMA PendingIsOwn ==
  ASSUME ~AwaitsSuspend, TypeOK, NEW t \in Tasks, TaskStep(t), NEW a \in Agents
  PROVE  /\ TripPending(a) <=> agent_id[t] = a /\ pc[t] = "tripSuspend"
         /\ TripPending(a)' <=> agent_id[t] = a /\ pc'[t] = "tripSuspend"
         /\ ResetPending(a) <=> agent_id[t] = a /\ pc[t] = "resetSuspended"
         /\ ResetPending(a)' <=> agent_id[t] = a /\ pc'[t] = "resetSuspended"
  <1>1. pc'[t] \notin Parked => agent_id'[t] = agent_id[t]
    BY OwnStep
  <1> QED BY <1>1, OthersParked DEF TripPending, ResetPending, Parked

\* Cooling is a truth value; so are the entries of MachineCooling.
LEMMA CoolingTyped ==
  /\ \A a : Cooling(a) \in BOOLEAN /\ Cooling(a)' \in BOOLEAN
  /\ \A a \in Agents : MachineCooling[a] <=> Cooling(a)
  BY DEF Cooling, MachineCooling

\* Steps that leave what the machine sees of every agent leave the machine.
LEMMA MachineUnmoved ==
  ASSUME MachineState' = MachineState, MachineResetting' = MachineResetting,
         \A a \in Agents : Cooling(a)' <=> Cooling(a)
  PROVE  [Machine!Next]_MachineVars
  <1>1. MachineCooling' = MachineCooling
    BY CoolingTyped DEF MachineCooling
  <1> QED BY <1>1 DEF MachineVars

\* When the state of one agent's breaker changes, the machine's does.
LEMMA MachineMoved ==
  ASSUME TypeOK, NEW a \in Agents, NEW h \in CBStates \cup {"none"},
         hash' = [hash EXCEPT ![a] = h]
  PROVE  MachineState' =
           [MachineState EXCEPT ![a] = IF h = "none" THEN "closed" ELSE h]
  BY DEF TypeOK, MachineState

\* Cooldowns that end, by the clock or because a trip was cut short, elapse.
LEMMA MachineElapses ==
  ASSUME hash' = hash, MachineResetting' = MachineResetting,
         \A a \in Agents : Cooling(a)' => Cooling(a)
  PROVE  Machine!Next
  <1> DEFINE S == {a \in Agents : ~Cooling(a)'}
  <1>2. \A a \in Agents : Cooling(a)' <=> (MachineCooling[a] /\ a \notin S)
    BY CoolingTyped
  <1>3. MachineCooling' = [a \in Agents |-> Cooling(a)']
    BY DEF MachineCooling
  <1>4. MachineCooling' = [a \in Agents |-> MachineCooling[a] /\ a \notin S]
    <2> HIDE DEF S
    <2> QED BY <1>2, <1>3, CoolingTyped
  <1>5. MachineState' = MachineState
    BY DEF MachineState
  <1>6. Machine!Elapse(S)
    BY <1>4, <1>5 DEF Machine!Elapse
  <1>7. S \in SUBSET Agents
    OBVIOUS
  <1> QED BY <1>6, <1>7 DEF Machine!Next

LEMMA InitRefined == Init => Machine!Init
  BY DEF Init, Machine!Init, MachineState, MachineCooling, Cooling, TripPending,
                             MachineResetting, ResetPending

LEMMA TaskStepRefined ==
  ASSUME ~AwaitsSuspend, SerialInv, NEW t \in Tasks, TaskStep(t)
  PROVE  [Machine!Next]_MachineVars
  <1> DEFINE a == agent_id[t]
  <1>0. /\ a \in Agents
        /\ TypeOK /\ TaskCoherent(t) /\ SuspendedIsOpen
        /\ pc \in [Tasks -> Parked \cup InHook]
        /\ suspended \in [Agents -> 0..Cooldown]
        /\ hash \in [Agents -> CBStates \cup {"none"}]
    BY DEF SerialInv, Coherent, TypeOK
  <1>p. \A b \in Agents : /\ TripPending(b) <=> a = b /\ pc[t] = "tripSuspend"
                          /\ TripPending(b)' <=> a = b /\ pc'[t] = "tripSuspend"
                          /\ ResetPending(b) <=> a = b /\ pc[t] = "resetSuspended"
                          /\ ResetPending(b)' <=> a = b /\ pc'[t] = "resetSuspended"
    BY <1>0, PendingIsOwn
  <1>q. pc[t] # "resetSuspended" /\ pc'[t] # "resetSuspended" =>
          MachineResetting' = MachineResetting
    BY <1>p DEF MachineResetting
  \* Steps that write neither key and start or end no trip
  <1>1. CASE /\ UNCHANGED <<hash, suspended>>
             /\ {pc[t], pc'[t]} \cap {"tripSuspend", "resetSuspended"} = {}
    <2>1. \A b \in Agents : Cooling(b)' <=> Cooling(b)
      BY <1>1, <1>p DEF Cooling
    <2>2. MachineState' = MachineState
      BY <1>1 DEF MachineState
    <2> QED BY <1>1, <1>q, <2>1, <2>2, MachineUnmoved
  <1>2. CASE CheckSuspended(t) \/ CheckHash(t)
    <2>1. /\ UNCHANGED <<hash, suspended>>
          /\ {pc[t], pc'[t]} \cap {"tripSuspend", "resetSuspended"} = {}
      BY <1>0, <1>2 DEF CheckSuspended, CheckHash, Verdict, Finish, Goto
    <2> QED BY <1>1, <2>1
  <1>3. CASE HalfOpen(t)
    <2>1. /\ hash' = [hash EXCEPT ![a] = "half_open"] /\ UNCHANGED suspended
          /\ hash[a] = "open" /\ suspended[a] = 0
          /\ pc[t] = "half" /\ pc'[t] \notin {"tripSuspend", "resetSuspended"}
      BY <1>0, <1>3 DEF HalfOpen, Verdict, Finish, Goto, TaskCoherent
    <2>2. MachineState' = [MachineState EXCEPT ![a] = "half_open"]
      BY <1>0, <2>1, MachineMoved DEF CBStates
    <2>3. \A b \in Agents : Cooling(b)' <=> Cooling(b)
      BY <1>0, <1>p, <2>1 DEF Cooling
    <2>4. MachineCooling' = MachineCooling
      BY <2>3, CoolingTyped DEF MachineCooling
    <2>a. ~Cooling(a)
      BY <1>0, <1>p, <2>1 DEF Cooling
    <2>5. MachineState[a] = "open" /\ ~MachineCooling[a]
      BY <1>0, <2>1, <2>a, CoolingTyped DEF MachineState
    <2>6. Machine!Probe(a)
      BY <1>q, <2>1, <2>2, <2>4, <2>5 DEF Machine!Probe
    <2> QED BY <1>0, <2>6 DEF Machine!Next
  <1>4. CASE Admit(t) \/ Block(t) \/ Succeed(t) \/ Fail(t) \/ JudgeFailure(t) \/ TripRegister(t)
    <2>1. /\ UNCHANGED <<hash, suspended>>
          /\ {pc[t], pc'[t]} \cap {"tripSuspend", "resetSuspended"} = {}
      BY <1>0, <1>4 DEF Admit, Block, Succeed, Fail, JudgeFailure, TripRegister, Finish, Goto
    <2> QED BY <1>1, <2>1
  <1>5. CASE TripHash(t)
    <2>1. /\ hash' = [hash EXCEPT ![a] = "open"] /\ UNCHANGED suspended
          /\ pc[t] = "tripHash" /\ pc'[t] = "tripSuspend"
      BY <1>0, <1>5 DEF TripHash, Goto
    <2>2. MachineState' = [MachineState EXCEPT ![a] = "open"]
      BY <1>0, <2>1, MachineMoved DEF CBStates
    <2>3. \A b \in Agents : Cooling(b)' <=> (b = a \/ Cooling(b))
      BY <1>0, <1>p, <2>1 DEF Cooling
    <2>4. MachineCooling' = [MachineCooling EXCEPT ![a] = TRUE]
      BY <2>3, CoolingTyped DEF MachineCooling
    <2>5. Machine!Trip(a)
      BY <1>q, <2>1, <2>2, <2>4 DEF Machine!Trip
    <2> QED BY <1>0, <2>5 DEF Machine!Next
  <1>6. CASE TripSuspend(t)
    <2>1. /\ suspended' = [suspended EXCEPT ![a] = Cooldown] /\ UNCHANGED hash
          /\ hash[a] = "open" /\ pc[t] = "tripSuspend" /\ pc'[t] = "tripRegister"
          /\ Cooldown > 0
      BY <1>0, <1>6, BreakerAssumption DEF TripSuspend, Suspension, Goto, TaskCoherent
    <2>2. \A b \in Agents : Cooling(b)' <=> Cooling(b)
      BY <1>0, <1>p, <2>1 DEF Cooling
    <2>3. MachineState' = MachineState
      BY <2>1 DEF MachineState
    <2> QED BY <1>q, <2>1, <2>2, <2>3, MachineUnmoved
  <1>7. CASE CloseHash(t)
    <2>1. /\ hash' = [hash EXCEPT ![a] = "closed"] /\ UNCHANGED suspended
          /\ hash[a] = "half_open"
          /\ pc[t] = "closeHash" /\ pc'[t] = "closeSuspended"
      BY <1>0, <1>7 DEF CloseHash, Goto, TaskCoherent
    <2>2. MachineState' = [MachineState EXCEPT ![a] = "closed"]
      BY <1>0, <2>1, MachineMoved DEF CBStates
    <2>3. \A b \in Agents : Cooling(b)' <=> Cooling(b)
      BY <1>0, <1>p, <2>1 DEF Cooling
    <2>4. MachineCooling' = MachineCooling
      BY <2>3, CoolingTyped DEF MachineCooling
    <2>5. MachineState[a] = "half_open"
      BY <1>0, <2>1 DEF MachineState
    <2>6. Machine!Recover(a)
      BY <1>q, <2>1, <2>2, <2>4, <2>5 DEF Machine!Recover
    <2> QED BY <1>0, <2>6 DEF Machine!Next
    <1>8. CASE CloseSuspended(t) \/ ResetSuspended(t)
    <2>1. /\ suspended' = [suspended EXCEPT ![a] = 0] /\ UNCHANGED hash
          /\ hash[a] # "open"
          /\ pc[t] \in {"closeSuspended", "resetSuspended"} /\ pc'[t] = "idle"
      BY <1>0, <1>8 DEF CloseSuspended, ResetSuspended, Finish, Goto, TaskCoherent
    <2>2. \A b \in Agents : Cooling(b)' <=> Cooling(b)
      BY <1>0, <1>p, <2>1 DEF Cooling
    <2>3. MachineState' = MachineState /\ MachineCooling' = MachineCooling
      BY <2>1, <2>2, CoolingTyped DEF MachineState, MachineCooling
    <2>4. CASE pc[t] = "closeSuspended"
      BY <1>q, <2>1, <2>2, <2>3, <2>4, MachineUnmoved
    <2>5. CASE pc[t] = "resetSuspended"
      <3>1. a \in MachineResetting /\ MachineResetting' = MachineResetting \ {a}
        BY <1>0, <1>p, <2>1, <2>5 DEF MachineResetting
      <3>2. Machine!EndReset(a)
        BY <2>3, <3>1 DEF Machine!EndReset
      <3> QED BY <1>0, <3>2 DEF Machine!Next
    <2> QED BY <2>1, <2>4, <2>5
  <1>9. CASE ResetHash(t)
    <2>1. /\ hash' = [hash EXCEPT ![a] = "none"] /\ UNCHANGED suspended
          /\ pc[t] = "idle" /\ pc'[t] = "resetSuspended"
      BY <1>0, <1>9 DEF ResetHash, Goto
    <2>2. MachineState' = [MachineState EXCEPT ![a] = "closed"]
      BY <1>0, <2>1, MachineMoved
    <2>3. \A b \in Agents : Cooling(b)' <=> (b # a /\ Cooling(b))
      BY <1>0, <1>p, <2>1 DEF Cooling
    <2>4. MachineCooling' = [MachineCooling EXCEPT ![a] = FALSE]
      BY <2>3, CoolingTyped DEF MachineCooling
    <2>5. a \notin MachineResetting /\ MachineResetting' = MachineResetting \cup {a}
      BY <1>0, <1>p, <2>1 DEF MachineResetting
    <2>6. Machine!Reset(a)
      BY <2>2, <2>4, <2>5 DEF Machine!Reset
    <2> QED BY <1>0, <2>6 DEF Machine!Next
  <1> QED BY <1>2, <1>3, <1>4, <1>5, <1>6, <1>7, <1>8, <1>9
          DEF TaskStep, CallStep, OperatorStep, Check, TripStep

\* A hook or command is cut short, by an exception or a crash.
LEMMA CutShort ==
  ASSUME ~AwaitsSuspend, SerialInv, UNCHANGED <<hash, suspended>>,
         \A u \in Tasks : pc'[u] = "idle" \/ (pc'[u] = pc[u] /\ agent_id'[u] = agent_id[u])
  PROVE  [Machine!Next]_MachineVars
  <1>0. \A b \in Agents : Cooling(b)' => Cooling(b)
    BY DEF Cooling, TripPending
  <1>1. CASE \E u \in Tasks : pc[u] = "resetSuspended" /\ pc'[u] = "idle"
    <2>1. PICK u \in Tasks : pc[u] = "resetSuspended" /\ pc'[u] = "idle"
      BY <1>1
    <2>2. \A v \in Tasks \ {u} : pc[v] \in Parked /\ pc'[v] \in Parked
      BY <2>1 DEF SerialInv, OneHookAtATime, Parked
    <2>3. agent_id[u] \in Agents
      BY DEF SerialInv, TypeOK
    <2>4. \A b \in Agents : /\ ResetPending(b) <=> b = agent_id[u]
                            /\ ~ResetPending(b)'
                            /\ ~TripPending(b) /\ ~TripPending(b)'
      BY <2>1, <2>2 DEF ResetPending, TripPending, Parked
    <2>5. MachineState' = MachineState /\ MachineCooling' = MachineCooling
      BY <2>4 DEF MachineState, MachineCooling, Cooling
    <2>6. /\ agent_id[u] \in MachineResetting
          /\ MachineResetting' = MachineResetting \ {agent_id[u]}
      BY <2>3, <2>4 DEF MachineResetting
    <2>7. Machine!EndReset(agent_id[u])
      BY <2>5, <2>6 DEF Machine!EndReset
    <2> QED BY <2>3, <2>7 DEF Machine!Next
  <1>2. CASE ~\E u \in Tasks : pc[u] = "resetSuspended" /\ pc'[u] = "idle"
    <2>1. MachineResetting' = MachineResetting
      BY <1>2 DEF MachineResetting, ResetPending
    <2> QED BY <1>0, <2>1, MachineElapses
  <1> QED BY <1>1, <1>2

LEMMA StepRefined ==
  ASSUME ~AwaitsSuspend, SerialInv, [Next]_vars
  PROVE  [Machine!Next]_MachineVars
  <1>1. ASSUME NEW t \in Tasks, TaskStep(t) PROVE [Machine!Next]_MachineVars
    BY <1>1, TaskStepRefined
  <1>2. ASSUME NEW t \in Tasks, Abort(t) PROVE [Machine!Next]_MachineVars
    <2>1. \A u \in Tasks : pc'[u] = "idle" \/ (pc'[u] = pc[u] /\ agent_id'[u] = agent_id[u])
      BY <1>2 DEF Abort, Finish, Goto, Identify, SerialInv, TypeOK
    <2> QED BY <1>2, <2>1, CutShort DEF Abort
  <1>3. ASSUME NEW p \in Processes, Crash(p) PROVE [Machine!Next]_MachineVars
    <2>1. \A u \in Tasks : pc'[u] = "idle" \/ (pc'[u] = pc[u] /\ agent_id'[u] = agent_id[u])
      BY <1>3 DEF Crash
    <2> QED BY <1>3, <2>1, CutShort DEF Crash
  <1>4. CASE Tick
    <2>1. \A a \in Agents : suspended'[a] > 0 => suspended[a] > 0
      BY <1>4 DEF Tick, Sooner, SerialInv, TypeOK
    <2>2. hash' = hash /\ \A a \in Agents : Cooling(a)' => Cooling(a)
      BY <1>4, <2>1 DEF Tick, Cooling, TripPending
    <2>3. MachineResetting' = MachineResetting
      BY <1>4 DEF Tick, MachineResetting, ResetPending
    <2> QED BY <2>2, <2>3, MachineElapses
  <1>5. CASE CalmDown \/ UNCHANGED vars
    BY <1>5, MachineUnmoved DEF CalmDown, vars, Cooling, TripPending, MachineState,
                                MachineResetting, ResetPending
  <1> QED BY <1>1, <1>2, <1>3, <1>4, <1>5 DEF Next, TaskStep, Tasks

\* When hooks run one at a time the two keys in the store, written one by one
\* and cut short by crashes, implement the three-state machine.
THEOREM MachineImplemented == ~AwaitsSuspend => (Spec => ImplementsMachine)
  <1> SUFFICES ASSUME ~AwaitsSuspend PROVE Spec => ImplementsMachine
    OBVIOUS
  <1>1. Spec => []SerialInv
    BY SerialInvariant
  <1>2. SerialInv /\ [Next]_vars => [Machine!Next]_MachineVars
    BY StepRefined
  <1> QED BY <1>1, <1>2, InitRefined, PTL DEF Spec, ImplementsMachine, Machine!Spec, MachineVars

-----------------------------------------------------------------------------
(* What operators are shown, without faults                                *)

LEMMA FaultlessNext ==
  ASSUME ~Faults, [Next]_vars
  PROVE  \/ \E t \in Tasks : TaskStep(t)
         \/ Tick \/ CalmDown \/ UNCHANGED vars
  BY DEF Next, TaskStep, Tasks, Abort, Crash

\* Only between the two deletions of a reset is a breaker without a HASH still
\* suspended.
UnsetIsFree ==
  \A a \in Agents : hash[a] = "none" => suspended[a] = 0 \/ ResetPending(a)

LEMMA UnsetIsFreeTaskStep ==
  ASSUME ~AwaitsSuspend, SerialInv, UnsetIsFree, NEW t \in Tasks, TaskStep(t)
  PROVE  UnsetIsFree'
  <1> DEFINE a == agent_id[t]
  <1>0. /\ a \in Agents
        /\ TypeOK /\ TaskCoherent(t)
        /\ pc \in [Tasks -> Parked \cup InHook]
        /\ suspended \in [Agents -> 0..Cooldown]
        /\ hash \in [Agents -> CBStates \cup {"none"}]
    BY DEF SerialInv, Coherent, TypeOK
  <1>p. \A b \in Agents : /\ ResetPending(b) <=> a = b /\ pc[t] = "resetSuspended"
                          /\ ResetPending(b)' <=> a = b /\ pc'[t] = "resetSuspended"
    BY <1>0, PendingIsOwn
  <1>1. CASE pc[t] # "resetSuspended" /\ UNCHANGED <<hash, suspended>>
    BY <1>1, <1>p DEF UnsetIsFree
  <1>2. CASE /\ pc[t] # "resetSuspended" /\ UNCHANGED suspended
             /\ \E h \in CBStates : hash' = [hash EXCEPT ![a] = h]
    BY <1>0, <1>2, <1>p DEF UnsetIsFree, CBStates
  <1>3. CASE CheckSuspended(t) \/ CheckHash(t) \/ Admit(t) \/ Block(t) \/ Succeed(t)
             \/ Fail(t) \/ JudgeFailure(t) \/ TripRegister(t)
    BY <1>1, <1>3 DEF CheckSuspended, CheckHash, Admit, Block, Succeed, Fail,
                      JudgeFailure, TripRegister
  <1>4. CASE HalfOpen(t) \/ TripHash(t) \/ CloseHash(t)
    BY <1>2, <1>4 DEF HalfOpen, TripHash, CloseHash, CBStates
  <1>5. CASE TripSuspend(t)
    <2>1. hash[a] = "open" /\ pc[t] # "resetSuspended"
      BY <1>0, <1>5 DEF TripSuspend, TaskCoherent
    <2> QED BY <1>0, <1>5, <1>p, <2>1 DEF TripSuspend, UnsetIsFree
  <1>6. CASE CloseSuspended(t) \/ ResetSuspended(t)
    <2>1. suspended' = [suspended EXCEPT ![a] = 0] /\ UNCHANGED hash
      BY <1>6 DEF CloseSuspended, ResetSuspended
    <2> QED BY <1>0, <1>p, <2>1 DEF UnsetIsFree
  <1>7. CASE ResetHash(t)
    <2>1. /\ hash' = [hash EXCEPT ![a] = "none"] /\ UNCHANGED suspended
          /\ pc[t] = "idle" /\ pc'[t] = "resetSuspended"
      BY <1>0, <1>7 DEF ResetHash, Goto
    <2> QED BY <1>0, <1>p, <2>1 DEF UnsetIsFree
  <1> QED BY <1>3, <1>4, <1>5, <1>6, <1>7
          DEF TaskStep, CallStep, OperatorStep, Check, TripStep

LEMMA UnsetIsFreeStep ==
  ASSUME ~AwaitsSuspend, ~Faults, SerialInv, UnsetIsFree, [Next]_vars
  PROVE  UnsetIsFree'
  <1>1. ASSUME NEW t \in Tasks, TaskStep(t) PROVE UnsetIsFree'
    BY <1>1, UnsetIsFreeTaskStep
  <1>2. CASE Tick
    <2>1. \A a \in Agents : suspended[a] = 0 => suspended'[a] = 0
      BY <1>2 DEF Tick, Sooner
    <2> QED BY <1>2, <2>1 DEF Tick, UnsetIsFree, ResetPending
  <1>3. CASE CalmDown \/ UNCHANGED vars
    BY <1>3 DEF CalmDown, vars, UnsetIsFree, ResetPending
  <1> QED BY <1>1, <1>2, <1>3, FaultlessNext

\* Where hooks do not overlap and nothing fails, operators at rest are shown
\* the state that the agent's next request meets.
THEOREM OperatorsSeeTheEngine ==
  ~AwaitsSuspend /\ ~Faults => (Spec => []ApiAgreesWithEngine)
  <1> SUFFICES ASSUME ~AwaitsSuspend, ~Faults PROVE Spec => []ApiAgreesWithEngine
    OBVIOUS
  <1>1. Init => UnsetIsFree
    BY DEF Init, UnsetIsFree
  <1>2. SerialInv /\ UnsetIsFree /\ [Next]_vars => UnsetIsFree'
    BY UnsetIsFreeStep
  <1>3. SerialInv /\ UnsetIsFree => ApiAgreesWithEngine
    <2> SUFFICES ASSUME SerialInv, UnsetIsFree, AtRest, NEW a \in Agents
                 PROVE  ApiState(a) = EngineState(a)
      BY DEF ApiAgreesWithEngine
    <2>1. ~ResetPending(a)
      BY DEF AtRest, ResetPending, Parked
    <2>2. suspended[a] \in 0..Cooldown
      BY DEF SerialInv, TypeOK
    <2> QED BY <2>1, <2>2, BreakerAssumption
            DEF UnsetIsFree, ApiState, EngineState, IsSuspended
  <1> QED BY <1>1, <1>2, <1>3, SerialInvariant, PTL DEF Spec

-----------------------------------------------------------------------------
(* The registry, however hooks interleave                                  *)

\* The agent is listed, or a trip under way will list it.
WillBeListed(a) ==
  \/ a \in registry
  \/ \E t \in Tasks : agent_id[t] = a /\ pc[t] \in {"tripSuspend", "tripRegister"}

\* A task about to write the HASH of a breaker has seen one.
Listed ==
  /\ \A a \in Agents : hash[a] # "none" => WillBeListed(a)
  /\ \A t \in Tasks : pc[t] \in {"half", "closeHash"} => WillBeListed(agent_id[t])

LEMMA ListedTaskStep ==
  ASSUME TypeOK, Listed, NEW t \in Tasks, TaskStep(t)
  PROVE  Listed'
  <1>a. PICK a \in Agents : agent_id[t] = a
    BY DEF TypeOK
  <1>0. /\ agent_id[t] = a
        /\ pc \in [Tasks -> Parked \cup InHook]
        /\ hash \in [Agents -> CBStates \cup {"none"}]
        /\ \A u \in Tasks \ {t} : pc'[u] = pc[u] /\ agent_id'[u] = agent_id[u]
        /\ pc'[t] \in InHook => agent_id'[t] = a
    BY <1>a, OwnStep, HookKeepsAgent DEF TypeOK
  <1>1. \/ /\ pc[t] = "tripSuspend" => pc'[t] = "tripRegister"
           /\ pc[t] # "tripRegister"
           /\ registry' = registry
        \/ registry' = registry \cup {a} /\ pc[t] = "tripRegister"
    <2>1. CASE Check(t)
      BY <1>0, <2>1 DEF Check, CheckSuspended, CheckHash, HalfOpen
    <2>2. CASE TripStep(t)
      BY <1>0, <2>2 DEF TripStep, TripHash, TripSuspend, TripRegister, Goto
    <2>3. CASE Admit(t) \/ Block(t) \/ Succeed(t) \/ CloseHash(t) \/ CloseSuspended(t)
               \/ Fail(t) \/ JudgeFailure(t) \/ ResetHash(t) \/ ResetSuspended(t)
      BY <2>3 DEF Admit, Block, Succeed, CloseHash, CloseSuspended, Fail, JudgeFailure,
                  ResetHash, ResetSuspended
    <2> QED BY <2>1, <2>2, <2>3 DEF TaskStep, CallStep, OperatorStep
  \* Once listed, or about to be, an agent stays so.
  <1>2. ASSUME NEW b, WillBeListed(b) PROVE WillBeListed(b)'
    BY <1>0, <1>1, <1>2 DEF WillBeListed, InHook
  <1>3. ASSUME \/ UNCHANGED hash
               \/ hash' = [hash EXCEPT ![a] = "none"]
               \/ WillBeListed(a)' /\ \E h \in CBStates : hash' = [hash EXCEPT ![a] = h],
               pc'[t] \in {"half", "closeHash"} => WillBeListed(a)
        PROVE  Listed'
    <2>1. \A b \in Agents : hash'[b] # "none" => WillBeListed(b)'
      BY <1>0, <1>2, <1>3 DEF Listed
    <2>2. \A u \in Tasks : pc'[u] \in {"half", "closeHash"} => WillBeListed(agent_id[u])'
      BY <1>0, <1>2, <1>3 DEF Listed, InHook
    <2> QED BY <2>1, <2>2 DEF Listed
  <1>4. CASE CheckSuspended(t) \/ Admit(t) \/ Block(t) \/ CloseSuspended(t) \/ Fail(t)
             \/ JudgeFailure(t) \/ ResetSuspended(t) \/ TripSuspend(t) \/ TripRegister(t)
    <2>1. UNCHANGED hash /\ pc'[t] \notin {"half", "closeHash"}
      BY <1>0, <1>4 DEF CheckSuspended, Verdict, Admit, Block, CloseSuspended, Fail,
                        JudgeFailure, ResetSuspended, TripSuspend, TripRegister, Finish, Goto
    <2> QED BY <1>3, <2>1
  <1>5. CASE CheckHash(t) \/ Succeed(t)
    <2>1. UNCHANGED hash /\ (pc'[t] \in {"half", "closeHash"} => hash[a] # "none")
      BY <1>0, <1>5 DEF CheckHash, Verdict, Succeed, Recovers, Finish, Goto
    <2> QED BY <1>0, <1>3, <2>1 DEF Listed
  <1>6. CASE HalfOpen(t) \/ CloseHash(t)
    <2>1. /\ WillBeListed(a)
          /\ pc'[t] \notin {"half", "closeHash"}
          /\ \E h \in CBStates : hash' = [hash EXCEPT ![a] = h]
      BY <1>0, <1>6 DEF HalfOpen, Verdict, CloseHash, Finish, Goto, Listed, CBStates
    <2> QED BY <1>2, <1>3, <2>1
  <1>7. CASE TripHash(t)
    <2>1. hash' = [hash EXCEPT ![a] = "open"] /\ pc'[t] = "tripSuspend"
      BY <1>0, <1>7 DEF TripHash, Goto
    <2>2. WillBeListed(a)'
      BY <1>0, <2>1 DEF WillBeListed, InHook
    <2> QED BY <1>3, <2>1, <2>2 DEF CBStates
  <1>8. CASE ResetHash(t)
    BY <1>0, <1>3, <1>8 DEF ResetHash, Goto
  <1> QED BY <1>4, <1>5, <1>6, <1>7, <1>8
          DEF TaskStep, CallStep, OperatorStep, Check, TripStep

LEMMA ListedStep ==
  ~Faults /\ TypeOK /\ Listed /\ [Next]_vars => Listed'
  <1> SUFFICES ASSUME ~Faults, TypeOK, Listed, [Next]_vars PROVE Listed'
    OBVIOUS
  <1>1. ASSUME NEW t \in Tasks, TaskStep(t) PROVE Listed'
    BY <1>1, ListedTaskStep
  <1>2. CASE Tick \/ CalmDown \/ UNCHANGED vars
    BY <1>2 DEF Tick, CalmDown, vars, Listed, WillBeListed
  <1> QED BY <1>1, <1>2, FaultlessNext

\* With any interleaving of hooks, as long as none is cut short, operators
\* find every breaker that has a state in the registry.
THEOREM OperatorsFindBreakers == ~Faults => (Spec => []TrippedAgentsListed)
  <1> SUFFICES ASSUME ~Faults PROVE Spec => []TrippedAgentsListed
    OBVIOUS
  <1>1. Init => Listed
    BY DEF Init, Listed
  <1>2. TypeOK /\ Listed /\ [Next]_vars => Listed'
    BY ListedStep
  <1>3. Listed => TrippedAgentsListed
    BY DEF Listed, WillBeListed, TrippedAgentsListed, AtRest, Parked
  <1> QED BY <1>1, <1>2, <1>3, TypeCorrect, PTL DEF Spec

-----------------------------------------------------------------------------
(* The error threshold, one hook at a time, in one process                 *)

\* A task that is about to trip the breaker, or to forget its errors.
Settling(t) ==
  \/ pc[t] \in {"tripHash", "closeSuspended"}
  \/ pc[t] = "failure" /\ hot[t]

\* The breakers that ThresholdTrips speaks of.
Spared(a) == NeverTripped(a) \/ hash[a] = "closed"

\* A window that reached the threshold under such a breaker has somebody who is
\* dealing with it.
ThresholdSeen ==
  \A p \in Processes, a \in Agents :
    Spared(a) /\ ReachesThreshold(errors[p][a])
      => \E t \in Tasks : agent_id[t] = a /\ Settling(t)

LEMMA ThresholdSeenTaskStep ==
  ASSUME ~AwaitsSuspend, \A p, q \in Processes : p = q,
         TypeOK, Listed, ThresholdSeen, NEW t \in Tasks, TaskStep(t)
  PROVE  ThresholdSeen'
  <1> DEFINE a == agent_id[t]
  <1>0. /\ a \in Agents /\ Home[t] \in Processes
        /\ pc \in [Tasks -> Parked \cup InHook]
        /\ hash \in [Agents -> CBStates \cup {"none"}]
        /\ errors \in [Processes -> [Agents -> [Slots -> 0..Lifetime]]]
        /\ ErrorThreshold \in Slots
        /\ pc'[t] \in InHook => agent_id'[t] = a
    BY HookKeepsAgent, BreakerAssumption DEF TypeOK, Slots
  \* Whoever deals with it is the moving task: the others are parked.
  <1>1. \A p \in Processes, b \in Agents :
          Spared(b) /\ ReachesThreshold(errors[p][b]) => b = a /\ Settling(t)
    BY OthersParked DEF ThresholdSeen, Settling, Parked
  <1>2. ASSUME ~Settling(t),
               \A b \in Agents : Spared(b)' => Spared(b),
               \A p \in Processes, b \in Agents :
                 ReachesThreshold(errors[p][b])' => ReachesThreshold(errors[p][b])
        PROVE  ThresholdSeen'
    BY <1>1, <1>2 DEF ThresholdSeen
  <1>3. ASSUME Settling(t)', agent_id'[t] = a, UNCHANGED <<errors, registry>>,
               \A b \in Agents \ {a} : hash'[b] = hash[b]
        PROVE  ThresholdSeen'
    <2>1. \A b \in Agents \ {a} : Spared(b)' => Spared(b)
      BY <1>3 DEF Spared, NeverTripped
    <2> QED BY <1>1, <1>3, <2>1 DEF ThresholdSeen, ReachesThreshold
  \* Steps that change no window
  <1>4. CASE CheckSuspended(t) \/ CheckHash(t) \/ Admit(t) \/ Succeed(t) \/ TripSuspend(t)
    <2>1. ~Settling(t) /\ UNCHANGED <<hash, registry, errors>>
      BY <1>4 DEF CheckSuspended, CheckHash, Admit, Succeed, TripSuspend, Settling
    <2> QED BY <1>2, <2>1 DEF Spared, NeverTripped, ReachesThreshold
  <1>5. CASE HalfOpen(t) \/ TripRegister(t)
    <2>1. ~Settling(t) /\ UNCHANGED errors
      BY <1>5 DEF HalfOpen, TripRegister, Settling
    <2>2. \A b \in Agents : Spared(b)' => Spared(b)
      BY <1>0, <1>5 DEF HalfOpen, TripRegister, Spared, NeverTripped
    <2> QED BY <1>2, <2>1, <2>2 DEF ReachesThreshold
  <1>6. CASE Block(t) \/ CloseHash(t)
    <2>1. /\ Settling(t)' /\ agent_id'[t] = a /\ UNCHANGED <<errors, registry>>
          /\ \A b \in Agents \ {a} : hash'[b] = hash[b]
      BY <1>0, <1>6 DEF Block, CloseHash, Goto, Settling
    <2> QED BY <1>3, <2>1
  <1>7. CASE TripHash(t)
    <2>1. /\ hash' = [hash EXCEPT ![a] = "open"] /\ UNCHANGED <<errors, registry>>
      BY <1>7 DEF TripHash
    <2>2. \A b \in Agents : Spared(b)' => b # a /\ Spared(b)
      BY <1>0, <2>1 DEF Spared, NeverTripped
    <2> QED BY <1>1, <2>1, <2>2 DEF ThresholdSeen, ReachesThreshold
  <1>8. CASE CloseSuspended(t)
    <2>1. ForgetErrors(t) /\ UNCHANGED <<hash, registry>>
      BY <1>8 DEF CloseSuspended
    <2>2. \A p \in Processes : p = Home[t]
      BY <1>0
    <2>3. \A p \in Processes : ~ReachesThreshold(errors'[p][a])
      BY <1>0, <2>1, <2>2 DEF ForgetErrors, ReachesThreshold, NoErrors
    <2>4. \A p \in Processes, b \in Agents \ {a} : errors'[p][b] = errors[p][b]
      BY <1>0, <2>1, <2>2 DEF ForgetErrors
    <2>5. \A b \in Agents : Spared(b)' <=> Spared(b)
      BY <2>1 DEF Spared, NeverTripped
    <2> QED BY <1>1, <2>3, <2>4, <2>5 DEF ThresholdSeen, ReachesThreshold
  <1>9. CASE Fail(t)
    <2> DEFINE w == WithNewError(errors[Home[t]][a])
    <2>1. /\ errors' = [errors EXCEPT ![Home[t]][a] = w]
          /\ pc'[t] = "failure" /\ agent_id'[t] = a /\ UNCHANGED <<hash, registry>>
      BY <1>0, <1>9 DEF Fail, Goto
    <2>2. hot'[t] = ReachesThreshold(w)
      BY <1>9 DEF Fail, TypeOK
    <2>3. \A p \in Processes : p = Home[t]
      BY <1>0
    <2> HIDE DEF w
    <2>4. \A p \in Processes : errors'[p][a] = w
      BY <1>0, <2>1, <2>3
    <2>5. \A p \in Processes, b \in Agents \ {a} : errors'[p][b] = errors[p][b]
      BY <1>0, <2>1, <2>3
    <2>6. ReachesThreshold(w) => Settling(t)'
      BY <2>1, <2>2 DEF Settling
    <2>7. \A b \in Agents : Spared(b)' <=> Spared(b)
      BY <2>1 DEF Spared, NeverTripped
    <2> QED BY <1>1, <2>1, <2>4, <2>5, <2>6, <2>7 DEF ThresholdSeen, ReachesThreshold
  <1>10. CASE JudgeFailure(t)
    <2>1. UNCHANGED <<hash, registry, errors>>
      BY <1>10 DEF JudgeFailure
    <2>2. CASE hash[a] = "half_open" \/ hot[t]
      <3>1. pc'[t] = "tripHash" /\ agent_id'[t] = a
        BY <1>0, <1>10, <2>2 DEF JudgeFailure, Goto
      <3> QED BY <1>3, <2>1, <3>1 DEF Settling
    <2>3. CASE ~(hash[a] = "half_open" \/ hot[t])
      <3>1. ~Settling(t)
        BY <1>10, <2>3 DEF JudgeFailure, Settling
      <3> QED BY <1>2, <2>1, <3>1 DEF Spared, NeverTripped, ReachesThreshold
    <2> QED BY <2>2, <2>3
  \* A reset leaves the agent of a breaker that has opened in the registry.
  <1>11. CASE ResetHash(t)
    <2>1. /\ hash' = [hash EXCEPT ![a] = "none"] /\ UNCHANGED <<errors, registry>>
          /\ pc[t] = "idle" /\ ~Settling(t)
      BY <1>11 DEF ResetHash, Settling
    <2>2. hash[a] # "none" => a \in registry
      BY <1>0, <2>1, OthersParked DEF Listed, WillBeListed, Parked
    <2>3. \A b \in Agents : Spared(b)' => Spared(b)
      BY <1>0, <2>1, <2>2 DEF Spared, NeverTripped
    <2> QED BY <1>2, <2>1, <2>3 DEF ReachesThreshold
  <1>12. CASE ResetSuspended(t)
    <2>1. /\ ForgetErrors(t) \/ UNCHANGED errors
          /\ UNCHANGED <<hash, registry>> /\ ~Settling(t)
      BY <1>12 DEF ResetSuspended, Settling
    <2>2. \A p \in Processes, b \in Agents :
            ReachesThreshold(errors'[p][b]) => ReachesThreshold(errors[p][b])
      BY <1>0, <2>1 DEF ForgetErrors, ReachesThreshold, NoErrors
    <2> QED BY <1>2, <2>1, <2>2 DEF Spared, NeverTripped, ReachesThreshold
  <1> QED BY <1>4, <1>5, <1>6, <1>7, <1>8, <1>9, <1>10, <1>11, <1>12
          DEF TaskStep, CallStep, OperatorStep, Check, TripStep

\* error_threshold failures within the window trip the breaker: where hooks do
\* not overlap, nothing fails and one process sees all errors, a breaker at rest
\* that never opened, or closed after a probe, has fewer.
THEOREM ErrorsTrip ==
  ~AwaitsSuspend /\ ~Faults /\ (\A p, q \in Processes : p = q)
    => (Spec => []ThresholdTrips)
  <1> SUFFICES ASSUME ~AwaitsSuspend, ~Faults, \A p, q \in Processes : p = q
               PROVE  Spec => []ThresholdTrips
    OBVIOUS
  <1>1. Init => Listed /\ ThresholdSeen
    BY BreakerAssumption DEF Init, Listed, ThresholdSeen, ReachesThreshold, NoErrors, Slots
  <1>2. TypeOK /\ Listed /\ ThresholdSeen /\ [Next]_vars => ThresholdSeen'
    <2> SUFFICES ASSUME TypeOK, Listed, ThresholdSeen, [Next]_vars PROVE ThresholdSeen'
      OBVIOUS
    <2>1. ASSUME NEW t \in Tasks, TaskStep(t) PROVE ThresholdSeen'
      BY <2>1, ThresholdSeenTaskStep
    <2>2. CASE Tick
      <3>1. \A p \in Processes, a \in Agents :
              ReachesThreshold(errors'[p][a]) => ReachesThreshold(errors[p][a])
        BY <2>2, BreakerAssumption DEF Tick, ReachesThreshold, Sooner, Slots, TypeOK
      <3>2. UNCHANGED <<hash, registry, pc, agent_id, hot>>
        BY <2>2 DEF Tick
      <3> QED BY <3>1, <3>2
              DEF ThresholdSeen, Settling, Spared, NeverTripped, ReachesThreshold
    <2>3. CASE CalmDown \/ UNCHANGED vars
      BY <2>3 DEF CalmDown, vars, ThresholdSeen, Settling, Spared, NeverTripped,
                  ReachesThreshold
    <2> QED BY <2>1, <2>2, <2>3, FaultlessNext
  <1>3. TypeOK /\ Listed /\ [Next]_vars => Listed'
    BY ListedStep
  <1>4. ThresholdSeen => ThresholdTrips
    BY DEF ThresholdSeen, ThresholdTrips, Spared, Settling, AtRest, Parked
  <1> QED BY <1>1, <1>2, <1>3, <1>4, TypeCorrect, PTL DEF Spec

=============================================================================
