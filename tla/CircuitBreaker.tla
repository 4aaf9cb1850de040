--------------------------- MODULE CircuitBreaker ---------------------------
(***************************************************************************)
(* The circuit breaker, src/budgetctl/engine/circuit_breaker.py, as the    *)
(* hooks of src/budgetctl/logger.py, the operators' get_all_states and     *)
(* reset, and the API's reset drive it.                                    *)
(*                                                                         *)
(* A call is a task that carries one LLM request after another; an         *)
(* operator is a task that resets or surveys.  Each task runs in a         *)
(* process.  The store is shared by all processes; the windows of error    *)
(* timestamps are kept by each process for itself.                         *)
(*                                                                         *)
(* The hooks before and after the LLM call derive the agent of a request   *)
(* from different arguments.  They agree when the request's metadata names *)
(* the agent; a request known by its team, user or key is checked under    *)
(* that identity and logged under another, "unknown" for want of a better. *)
(* Every store call that changes the store, or whose answer the code       *)
(* branches on, is one atomic step.                                        *)
(*                                                                         *)
(* Time is discrete and relative: a Tick shortens every TTL and ages every *)
(* error.  A window is kept as the time for which each of the newest       *)
(* ErrorThreshold errors still counts, newest first: older errors cannot   *)
(* change the comparison with the threshold.                               *)
(***************************************************************************)
EXTENDS Integers

CONSTANTS
    Calls,          \* tasks that carry LLM requests
    Operators,      \* tasks of operators
    Agents,
    CheckedAs,      \* the agent an operator names, or the pre-call hook of a
                    \* call derives
    LoggedAs,       \* the agent the success and failure hooks of a call derive
    Processes,
    Home,           \* the process each task runs in
    Cooldown,       \* cooldown_sec, in ticks
    ErrorWindow,    \* error_window_sec, in ticks
    ErrorThreshold, \* error_threshold
    Enforce,        \* config.mode is "enforce" rather than "observe"
    AwaitsSuspend,  \* TRUE: hooks interleave at store calls, as with Redis;
                    \* FALSE: one at a time, as MemoryStore never yields
    Faults          \* TRUE: processes crash and store calls raise

Tasks == Calls \cup Operators

ASSUME BreakerAssumption ==
    /\ Calls \cap Operators = {}
    /\ CheckedAs \in [Tasks -> Agents]
    /\ LoggedAs \in [Calls -> Agents]
    /\ Home \in [Tasks -> Processes]
    /\ Cooldown \in Nat \ {0}
    /\ ErrorWindow \in Nat
    /\ ErrorThreshold \in Nat \ {0}
    /\ Enforce \in BOOLEAN
    /\ AwaitsSuspend \in BOOLEAN
    /\ Faults \in BOOLEAN

VARIABLES
    \* The store
    hash,       \* state field of budgetctl:cb:{agent}; "none": no HASH
    suspended,  \* remaining TTL of budgetctl:suspended:{agent}; 0: absent
    registry,   \* the fields of budgetctl:cb:agents
    \* The processes
    errors,     \* _error_windows of each process
    pc,         \* the next step of each task
    agent_id,   \* the agent_id of the hook or command of each task, or between
                \* hooks of the next one
    hot,        \* record_failure: error_count >= error_threshold
    seen,       \* the state with which check let the request in
    \* The environment
    calm        \* TRUE once LLM calls succeed and operators keep still

vars == <<hash, suspended, registry, errors, pc, agent_id, hot, seen, calm>>

CBStates == {"closed", "open", "half_open"}
Parked == {"idle", "running"}
InHook == {"hgetall", "half", "cleared", "tripHash", "tripSuspend",
           "tripRegister", "closeHash", "closeSuspended", "failure",
           "resetSuspended"}
Slots == 1..ErrorThreshold
Lifetime == ErrorWindow + 1     \* ticks until an error is evicted
NoErrors == [i \in Slots |-> 0]

\* Where no await suspends, a hook runs to its end, or fails, before any other
\* task takes a step.
MayRun(t) == AwaitsSuspend \/ \A u \in Tasks \ {t} : pc[u] \in Parked

Goto(t, next) == pc' = [pc EXCEPT ![t] = next]

\* _extract_agent_id
Identify(t, a) == agent_id' = [agent_id EXCEPT ![t] = a]

Finish(t) == /\ Goto(t, "idle")
             /\ Identify(t, CheckedAs[t])
             /\ seen' = [seen EXCEPT ![t] = "none"]
             /\ hot' = [hot EXCEPT ![t] = FALSE]

Init ==
    /\ hash = [a \in Agents |-> "none"]
    /\ suspended = [a \in Agents |-> 0]
    /\ registry = {}
    /\ errors = [p \in Processes |-> [a \in Agents |-> NoErrors]]
    /\ pc = [t \in Tasks |-> "idle"]
    /\ agent_id = CheckedAs
    /\ hot = [t \in Tasks |-> FALSE]
    /\ seen = [t \in Tasks |-> "none"]
    /\ calm = FALSE

-----------------------------------------------------------------------------
(* check                                                                   *)

\* EXISTS of the suspended key.  Seeded fault: the fast path is skipped.
NotSuspended(a) == FALSE
IsSuspended(a) == suspended[a] > 0

\* check returns v.  The pre-call hook answers OPEN with a 429 in enforce
\* mode and lets the request go on otherwise; an operator's survey ends.
Verdict(t, v) ==
    IF t \in Operators \/ (Enforce /\ v = "open")
    THEN Finish(t)
    ELSE /\ Goto(t, "cleared")
         /\ seen' = [seen EXCEPT ![t] = v]
         /\ UNCHANGED <<agent_id, hot>>

\* A request arrives, or get_all_states visits a registered agent.
CheckSuspended(t) ==
    /\ pc[t] = "idle"
    /\ MayRun(t)
    /\ t \in Calls \/ agent_id[t] \in registry
    /\ IF IsSuspended(agent_id[t])
       THEN Verdict(t, "open")
       ELSE Goto(t, "hgetall") /\ UNCHANGED <<agent_id, seen, hot>>
    /\ UNCHANGED <<hash, suspended, registry, errors, calm>>

\* Seeded fault: an expired cooldown does not open the way to HALF_OPEN.
CheckHashOnly(t) ==
    LET h == hash[agent_id[t]] IN
    /\ pc[t] = "hgetall"
    /\ MayRun(t)
    /\ Verdict(t, IF h = "none" THEN "closed" ELSE h)
    /\ UNCHANGED <<hash, suspended, registry, errors, calm>>

CheckHash(t) ==
    LET h == hash[agent_id[t]] IN
    /\ pc[t] = "hgetall"
    /\ MayRun(t)
    /\ IF h = "open"
       THEN Goto(t, "half") /\ UNCHANGED <<agent_id, seen, hot>>
       ELSE Verdict(t, IF h = "none" THEN "closed" ELSE h)
    /\ UNCHANGED <<hash, suspended, registry, errors, calm>>

\* _transition_half_open
HalfOpen(t) ==
    /\ pc[t] = "half"
    /\ MayRun(t)
    /\ hash' = [hash EXCEPT ![agent_id[t]] = "half_open"]
    /\ Verdict(t, "half_open")
    /\ UNCHANGED <<suspended, registry, errors, calm>>

-----------------------------------------------------------------------------
(* The rest of the pre-call hook: loop detection and budget                *)

\* No loop and a reservation, or observe mode, or a store error in reserve: the
\* request is sent.  The hook that follows derives its agent for itself.
Admit(t) ==
    /\ pc[t] = "cleared"
    /\ MayRun(t)
    /\ Goto(t, "running")
    /\ Identify(t, LoggedAs[t])
    /\ UNCHANGED <<hash, suspended, registry, errors, hot, seen, calm>>

\* A loop, or no budget: in enforce mode the hook trips the breaker.
Block(t) ==
    /\ pc[t] = "cleared"
    /\ MayRun(t)
    /\ Enforce
    /\ ~calm
    /\ Goto(t, "tripHash")
    /\ UNCHANGED <<hash, suspended, registry, errors, agent_id, hot, seen, calm>>

-----------------------------------------------------------------------------
(* trip: three writes, then the hook that called it ends                   *)

TripHash(t) ==
    /\ pc[t] = "tripHash"
    /\ MayRun(t)
    /\ hash' = [hash EXCEPT ![agent_id[t]] = "open"]
    /\ Goto(t, "tripSuspend")
    /\ UNCHANGED <<suspended, registry, errors, agent_id, hot, seen, calm>>

\* The TTL of the suspended key.  Seeded fault: it is given in milliseconds.
SuspensionInMillis == 1000 * Cooldown
Suspension == Cooldown

TripSuspend(t) ==
    /\ pc[t] = "tripSuspend"
    /\ MayRun(t)
    /\ suspended' = [suspended EXCEPT ![agent_id[t]] = Suspension]
    /\ Goto(t, "tripRegister")
    /\ UNCHANGED <<hash, registry, errors, agent_id, hot, seen, calm>>

\* Seeded fault: trip does not register the agent.
TripUnregistered(t) ==
    /\ pc[t] = "tripRegister"
    /\ MayRun(t)
    /\ Finish(t)
    /\ UNCHANGED <<hash, suspended, registry, errors, calm>>

TripRegister(t) ==
    /\ pc[t] = "tripRegister"
    /\ MayRun(t)
    /\ registry' = registry \cup {agent_id[t]}
    /\ Finish(t)
    /\ UNCHANGED <<hash, suspended, errors, calm>>

-----------------------------------------------------------------------------
(* record_success                                                          *)

\* Seeded fault: any recorded state is taken for HALF_OPEN.
RecoversAlways(h) == h # "none"

Recovers(h) == h = "half_open"

\* The LLM call succeeded; the hook reads the HASH.
Succeed(t) ==
    /\ pc[t] = "running"
    /\ MayRun(t)
    /\ IF Recovers(hash[agent_id[t]])
       THEN Goto(t, "closeHash") /\ UNCHANGED <<agent_id, seen, hot>>
       ELSE Finish(t)
    /\ UNCHANGED <<hash, suspended, registry, errors, calm>>

\* _transition_closed
CloseHash(t) ==
    /\ pc[t] = "closeHash"
    /\ MayRun(t)
    /\ hash' = [hash EXCEPT ![agent_id[t]] = "closed"]
    /\ Goto(t, "closeSuspended")
    /\ UNCHANGED <<suspended, registry, errors, agent_id, hot, seen, calm>>

\* _error_windows.pop in the process of the task.  Seeded fault: no pop.
KeepErrors(t) == UNCHANGED errors
ForgetErrors(t) ==
    errors' = [errors EXCEPT ![Home[t]][agent_id[t]] = NoErrors]

CloseSuspended(t) ==
    /\ pc[t] = "closeSuspended"
    /\ MayRun(t)
    /\ suspended' = [suspended EXCEPT ![agent_id[t]] = 0]
    /\ ForgetErrors(t)
    /\ Finish(t)
    /\ UNCHANGED <<hash, registry, calm>>

-----------------------------------------------------------------------------
(* record_failure                                                          *)

WithNewError(w) == [i \in Slots |-> IF i = 1 THEN Lifetime ELSE w[i - 1]]

ReachesThreshold(w) == w[ErrorThreshold] > 0

\* The LLM call failed: the window takes the error and is counted before
\* the first await.
Fail(t) ==
    LET w == WithNewError(errors[Home[t]][agent_id[t]]) IN
    /\ pc[t] = "running"
    /\ MayRun(t)
    /\ ~calm
    /\ errors' = [errors EXCEPT ![Home[t]][agent_id[t]] = w]
    /\ hot' = [hot EXCEPT ![t] = ReachesThreshold(w)]
    /\ Goto(t, "failure")
    /\ UNCHANGED <<hash, suspended, registry, agent_id, seen, calm>>

\* It reads the HASH and trips when a probe failed or the count is reached.
JudgeFailure(t) ==
    /\ pc[t] = "failure"
    /\ MayRun(t)
    /\ IF hash[agent_id[t]] = "half_open" \/ hot[t]
       THEN Goto(t, "tripHash") /\ UNCHANGED <<agent_id, seen, hot>>
       ELSE Finish(t)
    /\ UNCHANGED <<hash, suspended, registry, errors, calm>>

-----------------------------------------------------------------------------
(* reset: by the API, whose process has no windows, or by the engine, for  *)
(* an embedding application (the program itself never calls it)            *)

ResetHash(o) ==
    /\ pc[o] = "idle"
    /\ MayRun(o)
    /\ ~calm
    /\ hash' = [hash EXCEPT ![agent_id[o]] = "none"]
    /\ Goto(o, "resetSuspended")
    /\ UNCHANGED <<suspended, registry, errors, agent_id, hot, seen, calm>>

\* Seeded fault: reset leaves the suspended key.
ResetHashOnly(o) ==
    /\ pc[o] = "resetSuspended"
    /\ MayRun(o)
    /\ ForgetErrors(o) \/ UNCHANGED errors
    /\ Finish(o)
    /\ UNCHANGED <<hash, suspended, registry, calm>>

\* The API's reset ends with this deletion; the engine's, which no code of the
\* program calls, then forgets the errors of its process.
ResetSuspended(o) ==
    /\ pc[o] = "resetSuspended"
    /\ MayRun(o)
    /\ suspended' = [suspended EXCEPT ![agent_id[o]] = 0]
    /\ ForgetErrors(o) \/ UNCHANGED errors
    /\ Finish(o)
    /\ UNCHANGED <<hash, registry, calm>>

-----------------------------------------------------------------------------
(* The environment                                                         *)

\* One unit of time: TTLs run down and errors age out of their windows.
Sooner(x) == IF x > 0 THEN x - 1 ELSE 0

Tick ==
    /\ \/ \E a \in Agents : suspended[a] > 0
       \/ \E p \in Processes, a \in Agents : errors[p][a] # NoErrors
    /\ suspended' = [a \in Agents |-> Sooner(suspended[a])]
    /\ errors' = [p \in Processes |-> [a \in Agents |->
                    [i \in Slots |-> Sooner(errors[p][a][i])]]]
    /\ UNCHANGED <<hash, registry, pc, agent_id, hot, seen, calm>>

\* A process dies: its tasks and its windows are gone, the store remains.
Crash(p) ==
    /\ Faults
    /\ ~calm
    /\ pc' = [t \in Tasks |-> IF Home[t] = p THEN "idle" ELSE pc[t]]
    /\ agent_id' = [t \in Tasks |-> IF Home[t] = p THEN CheckedAs[t] ELSE agent_id[t]]
    /\ hot' = [t \in Tasks |-> hot[t] /\ Home[t] # p]
    /\ seen' = [t \in Tasks |-> IF Home[t] = p THEN "none" ELSE seen[t]]
    /\ errors' = [errors EXCEPT ![p] = [a \in Agents |-> NoErrors]]
    /\ UNCHANGED <<hash, suspended, registry, calm>>

\* A store call raises, or the task is cancelled: the hook ends there.
Abort(t) ==
    /\ Faults
    /\ ~calm
    /\ pc[t] # "idle"
    /\ Finish(t)
    /\ UNCHANGED <<hash, suspended, registry, errors, calm>>

\* From now on nothing goes wrong any more.
CalmDown ==
    /\ ~calm
    /\ calm' = TRUE
    /\ UNCHANGED <<hash, suspended, registry, errors, pc, agent_id, hot, seen>>

-----------------------------------------------------------------------------
Check(t) == CheckSuspended(t) \/ CheckHash(t) \/ HalfOpen(t)
TripStep(t) == TripHash(t) \/ TripSuspend(t) \/ TripRegister(t)

CallStep(c) ==
    \/ Check(c)
    \/ Admit(c)
    \/ Block(c)
    \/ TripStep(c)
    \/ Succeed(c)
    \/ CloseHash(c)
    \/ CloseSuspended(c)
    \/ Fail(c)
    \/ JudgeFailure(c)

OperatorStep(o) ==
    \/ Check(o)
    \/ ResetHash(o)
    \/ ResetSuspended(o)

Next ==
    \/ \E c \in Calls : CallStep(c)
    \/ \E o \in Operators : OperatorStep(o)
    \/ \E t \in Tasks : Abort(t)
    \/ \E p \in Processes : Crash(p)
    \/ Tick
    \/ CalmDown

Spec == Init /\ [][Next]_vars

\* Time passes, the event loop runs every ready task, LiteLLM ends every
\* call, and the agents keep calling.
Fairness ==
    /\ WF_vars(Tick)
    /\ \A c \in Calls : WF_vars(CallStep(c))
    /\ \A o \in Operators : WF_vars(pc[o] # "idle" /\ OperatorStep(o))

FairSpec == Spec /\ Fairness

-----------------------------------------------------------------------------
(* Properties                                                              *)

\* Every variable has its type; a suspension lasts at most the cooldown.
TypeOK ==
    /\ hash \in [Agents -> CBStates \cup {"none"}]
    /\ suspended \in [Agents -> 0..Cooldown]
    /\ registry \subseteq Agents
    /\ errors \in [Processes -> [Agents -> [Slots -> 0..Lifetime]]]
    /\ pc \in [Tasks -> Parked \cup InHook]
    /\ agent_id \in [Tasks -> Agents]
    /\ hot \in [Tasks -> BOOLEAN]
    /\ seen \in [Tasks -> CBStates \cup {"none"}]
    /\ calm \in BOOLEAN

AtRest == \A t \in Tasks : pc[t] \in Parked

\* What check answers, and what api.py's _get_cb_info shows an operator.
EngineState(a) ==
    IF IsSuspended(a) THEN "open"
    ELSE IF hash[a] = "open" THEN "half_open"
    ELSE IF hash[a] = "none" THEN "closed"
    ELSE hash[a]

ApiState(a) ==
    IF hash[a] = "none" THEN "closed"
    ELSE IF suspended[a] > 0 THEN "open"
    ELSE IF hash[a] = "open" THEN "half_open"
    ELSE hash[a]

\* "This immediately transitions the agent from OPEN to CLOSED": when no hook
\* and no command is under way, the state an operator is shown is the one
\* the agent's next request meets.
ApiAgreesWithEngine ==
    AtRest => \A a \in Agents : ApiState(a) = EngineState(a)

\* "The agent is blocked until a cooldown period expires or an operator
\* manually resets it": only a reset ends a suspension before its time.
CooldownRunsItsCourse ==
    [][\A a \in Agents : suspended'[a] < suspended[a] - 1 =>
         \E o \in Operators : agent_id[o] = a /\ pc[o] = "resetSuspended"]_vars

\* "Every request returns HTTP 429 immediately": no request is sent to the
\* LLM while its agent is suspended.
NothingRunsWhileOpen ==
    [][\A c \in Calls :
         pc[c] # "running" /\ pc'[c] = "running" => suspended[CheckedAs[c]] = 0]_vars

\* A breaker that no trip has opened yet.  A reset leaves the agent registered.
NeverTripped(a) == hash[a] = "none" /\ a \notin registry

\* error_threshold failures within error_window_sec trip the breaker: at rest
\* a breaker that never opened, or closed after a probe, has fewer errors in a
\* window.  (A reset through the API leaves the windows as they are: the first
\* failure after it may trip the breaker.)
ThresholdTrips ==
    AtRest => \A p \in Processes, a \in Agents :
        NeverTripped(a) \/ hash[a] = "closed" => ~ReachesThreshold(errors[p][a])

\* An operator sees every breaker that has a state: it is in the registry.
TrippedAgentsListed ==
    AtRest => \A a \in Agents : hash[a] # "none" => a \in registry

Probing(a) == {c \in Calls : CheckedAs[c] = a /\ pc[c] = "running" /\ seen[c] = "half_open"}

\* HALF_OPEN "allows one probe call through": no two requests admitted as
\* probes of one agent are in flight together.
OneProbeAtATime ==
    \A a \in Agents : \A c, d \in Probing(a) : c = d

\* Some requests meet the breaker of this agent, and the successes of some are
\* recorded for it.  An agent known by its team, user or key has the first only.
Recoverable(a) == /\ \E c \in Calls : CheckedAs[c] = a
                  /\ \E c \in Calls : LoggedAs[c] = a

\* Once nothing goes wrong any more every breaker that can recover closes and
\* stays closed.  (That of an agent whose successes are all recorded for another
\* one stays half open until an operator resets it.)
Recovery ==
    <>[](calm => \A a \in Agents : Recoverable(a) => hash[a] \in {"none", "closed"})

\* The keys as the three-state machine sees them.  Between the two writes of
\* trip the cooldown has begun.
TripPending(a) == \E t \in Tasks : agent_id[t] = a /\ pc[t] = "tripSuspend"
Cooling(a) == hash[a] = "open" /\ (suspended[a] > 0 \/ TripPending(a))
MachineState == [a \in Agents |-> IF hash[a] = "none" THEN "closed" ELSE hash[a]]
MachineCooling == [a \in Agents |-> Cooling(a)]
ResetPending(a) == \E t \in Tasks : agent_id[t] = a /\ pc[t] = "resetSuspended"
MachineResetting == {a \in Agents : ResetPending(a)}

Machine == INSTANCE BreakerMachine WITH
    state <- MachineState, cooling <- MachineCooling, resetting <- MachineResetting

\* When hooks run one at a time the breaker implements the three-state
\* machine, whatever crashes and raises in between.
ImplementsMachine == Machine!Spec

-----------------------------------------------------------------------------
(* The inductive invariant of the proofs                                   *)

OneHookAtATime ==
    \A t, u \in Tasks : t # u => pc[t] \in Parked \/ pc[u] \in Parked

\* A breaker that is half open or closed is not suspended.
SuspendedIsOpen ==
    \A a \in Agents : hash[a] \in {"half_open", "closed"} => suspended[a] = 0

\* What a task in the middle of a hook found out still holds.
TaskCoherent(t) ==
    LET a == agent_id[t] IN
    /\ pc[t] \in {"hgetall", "half"} => suspended[a] = 0
    /\ Enforce /\ pc[t] = "cleared" => suspended[a] = 0
    /\ pc[t] \in {"half", "tripSuspend"} => hash[a] = "open"
    /\ pc[t] = "closeHash" => hash[a] = "half_open"
    /\ pc[t] = "closeSuspended" => hash[a] = "closed"
    /\ pc[t] = "resetSuspended" => hash[a] = "none"

Coherent == SuspendedIsOpen /\ \A t \in Tasks : TaskCoherent(t)

=============================================================================
