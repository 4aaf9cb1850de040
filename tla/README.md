# budgetctl in TLA+

Models, model-checking runs and machine-checked proofs for `budgetctl`
("Chappie"), a guard that a LiteLLM proxy calls before and after every LLM
request to stop looping agents, trip a circuit breaker, and enforce budgets.
Paths below are relative to the repository.

    tlc -workers 2 -config BreakerMemory.cfg MCCircuitBreaker.tla   # one run
    tlapm CircuitBreakerProofs.tla                                  # one proof

## 1. The system

| Component | State | Operations |
|---|---|---|
| Budget enforcer, `budgetctl/engine/budget_enforcer.py` | in the store: `spent`, `limit`, one reservation key per call (TTL), one fired key per threshold | `reserve` (a Lua script), `reconcile`, `release`, `check_thresholds`, `set_budget`, `get_budget`, `reset_spend` |
| Circuit breaker, `budgetctl/engine/circuit_breaker.py` | in the store: a HASH per agent, a suspended key per agent (TTL), a registry HASH; in the process: a window of error times per agent | `check`, `trip`, `record_success`, `record_failure`, `reset`, `get_all_states` |
| Loop detector, `budgetctl/engine/loop_detector.py` | in the process, per agent: a bounded window of content hashes, call times, a call count, a velocity baseline | `check` (reads only), `record`, `clear_session`, `get_stats` |
| Stores, `budgetctl/store/` | `MemoryStore`: dictionaries of scalars, hashes and deadlines; `RedisStore`: a Redis server | the eleven methods of `StoreInterface` |
| LiteLLM hooks, `budgetctl/logger.py` | the reservation carried in the request's metadata | pre-call, success and failure hook |
| Operator API, `budgetctl/api.py` | none of its own; its own connection to the store | status, agents, budgets, breakers, reset, event stream, health |
| Alert manager, `budgetctl/alerts.py` | configured channels | `fire` (not wired in: `logger.py:79`) |
| CLI, `cli/main.py` | none | an HTTP client of the API |
| Configuration, records, exceptions | settings | none |

**How they interact.**  The pre-call hook calls, in this order, the breaker's
`check`, the detector's `check` and the enforcer's `reserve`; a detected loop or
an exceeded budget calls the breaker's `trip` and answers with HTTP 429.  After
the LLM call the success hook calls `record`, `record_success`, `reconcile` and
`check_thresholds`, the failure hook `record_failure` and `release`.  All hooks
of a process share one event loop; several proxies and the API share one Redis.
Nothing is locked: what is atomic is one store call (and the reservation script).

**What is hard.**  Between any two store calls another hook, process or operator
may act, and the process may die or the store call may raise.  The state read by
one call may be stale at the next.  Keys expire by themselves.  The loop
detector decides before a request and learns after it.  On `MemoryStore`, on the
other hand, no coroutine ever yields, so a hook runs as a whole: the code has two
concurrency regimes, and its properties differ between them.

**What makes each part correct.**
*Enforcer*: concurrent reservations cannot overspend; every unit of spend is a
hold or a settlement, exactly once; holds drain; each threshold that is reached
fires, once per period.
*Breaker*: it behaves as the three-state machine; nothing passes while it is
open; a suspension ends by time or by an operator; it recovers; operators see
what the next request meets; probes are limited.
*Detector*: repetitions are bounded although checks and records are apart; the
cycle test is exact; the baseline stays meaningful; bursts are flagged; an agent
can recover.
*Hooks*: a refusal costs nothing; what enforce mode lets through is funded; no
hold is lost without a cause; observe mode refuses nothing; one agent's trouble
stays its own; alerts reach the agent that spends.
*Stores*: the in-memory store cannot be told from Redis by the engine.

The hazards, each at its line, are listed in `PROJECT.json`.

## 2. The modules

    KeyValueStore  <--implements--  MemoryStore     <- MCMemoryStore, MemoryStoreProofs
    BreakerMachine <--implements--  CircuitBreaker  <- MCCircuitBreaker, CircuitBreakerProofs
    BudgetLedger   <--implements--  BudgetEnforcer  <- MCBudgetEnforcer, BudgetEnforcerProofs
                                    LoopDetector    <- MCLoopDetector, LoopDetectorProofs
    BreakerMachine, BudgetLedger  <--uses--  ProxyHooks  <- MCProxyHooks, ProxyHooksProofs
    Units  <--uses--  BudgetEnforcer, LoopDetector;  UnitsProofs: the lemmas about Units

An `MC` module gives TLC its constants' definitions and symmetry sets; a `Proofs`
module holds the theorems.  An operator whose comment says *seeded fault* takes
no part in the specification: it is a plausible bug with the parameters of the
definition after it, and a run of the mutated model must find it.

The two regimes are one constant, `AwaitsSuspend`.  TRUE: every store call is a
step that anything may precede (Redis).  FALSE: a hook that has started runs to
its end, or fails, before another task takes a step (MemoryStore, or traffic on
Redis that happens not to overlap).

### BudgetEnforcer and BudgetLedger

One element of `Calls` is one LLM request; `pc` names its next store call, from
`reserve`'s read of the limit to the last fired key of `check_thresholds`.

| Code | Actions |
|---|---|
| `reserve`: `_get_limit`, then the script | `ReadLimit`, then `Grant` or `Reject` |
| `reconcile`: `incr_float`, `delete` | `Reconcile`, `Unkey` |
| `release`: `incr_float`, `delete` | `Release`, `Unkey` |
| `check_thresholds`: limit, spend, then EXISTS and SET per threshold | `ReadAlertLimit`, `ReadSpent`, `ReadFlag`, `MarkFired` |
| `set_budget`, `reset_spend` | `SetBudget`, `ResetSpend` and `ClearFlag` per key |
| reservation TTL, process death, raising store call | `ExpireReservation`, `Crash`, `ReconcileRaises`, `ResetCutShort` |

Money is an integer, thresholds are percentages; those that have a label, and so
can fire, are positive.  `period`, `heldIn`,
`settledIn`, `readIn`, `ceiling` and `overrun` are history that the properties
read; `period` also bounds the number of resets.  `check_thresholds` is given the
agent id that the success hook derives anew (`logger.py:294`); this module takes it
to be the account of the reservation, and `ProxyHooks` tells the two apart.

`BudgetLedger` is the promise of the module's docstring: a call holds an estimate
once, if it fits under the highest limit so far, and gives the hold way to its
actual cost once at most.  It knows no keys, store calls or hooks.  The refinement
mapping takes a call as holding from the script that granted it (`heldIn`) and as
settled from the increment that settles it (`settledIn`); the key that is deleted
afterwards, and its expiry, are stutters.  A crash leaves a call held for good.

### CircuitBreaker and BreakerMachine

A task is a stream of LLM requests, or an operator.  The hooks before and after the
LLM call derive the agent from different arguments (`logger.py:113`, `:252`, `:336`):
`agent_id` is the agent of the hook a task is in, `CheckedAs` before the call and
`LoggedAs` after it.  The two agree for a request whose metadata names its agent; one
that is known by its team, user or key is checked, and tripped, under that identity,
and its outcome counts for `unknown`.

| Code | Actions |
|---|---|
| `check`: EXISTS, HGETALL, perhaps HSET | `CheckSuspended`, `CheckHash`, `HalfOpen` |
| rest of the pre-call hook | `Admit`, or `Block`, which trips |
| `trip`: HSET, SET with TTL, HSET of the registry | `TripHash`, `TripSuspend`, `TripRegister` |
| `record_success` | `Succeed`, `CloseHash`, `CloseSuspended` |
| `record_failure` | `Fail`, `JudgeFailure`, then a trip |
| `reset` (engine and API) | `ResetHash`, `ResetSuspended` |
| `_extract_agent_id` | `Identify`, in `Admit` and `Finish` |
| `get_all_states` | an operator's `Check` of a registered agent |
| time, process death, exception or cancellation | `Tick`, `Crash`, `Abort` |

Each process keeps its own error window, as the time for which each of the
newest `ErrorThreshold` errors still counts; older errors cannot change the
comparison with the threshold.  A reset by the engine ends by forgetting the errors
of its process; one through the API leaves every window alone.  No code of the
program calls the former, an embedding application may; `ResetSuspended` allows both.
`CalmDown` says that from now on LLM calls
succeed and nothing fails; only `Recovery` depends on it.

`BreakerMachine` is the machine of the module's docstring: `Trip`, `Elapse`,
`Probe`, `Recover`, `Reset`, `EndReset`.  A reset is a command with a beginning and
an end (`resetting`), so that nothing but the command may close a breaker that is
open.  The refinement mapping reads `state` off the HASH, takes the cooldown as
running when the HASH says open and the suspended key exists or is about to be
written (`TripPending`), and `resetting` off the operators.  A crash between those
two writes therefore maps to an elapsed cooldown: the machine allows the next
request to probe at once, and so does the code.

### LoopDetector

One agent; `Slots` are its overlapping requests.  `Check` is the pre-call check,
`Record` the record of the success hook with the moving average, `Drop` a request
that is never recorded, `ClearSession` a call of `clear_session` (no code of the
program calls it; an embedding application may), `Tick` time.  Contents are model
values; velocities are integers in thousandths of a call per velocity window, which
scales both sides of the code's comparison alike.  The recent calls, like the sums
of money in `SpendAccountedFor`, are a `Total` of module `Units`: the cardinality of
as many distinct units as every member brings, which a proof can follow step by step
for sets of any size, as it cannot with a recursive sum.  `calls < MaxCalls` and
`now < MaxTicks` bound the runs; `peak` is history.

### MemoryStore and KeyValueStore

`KeyValueStore` is what the engines rely on: a key is gone for every operation
when its TTL has passed.  `MemoryStore` has the code's three dictionaries, its
`_check_expiry`, and the operations that do not call it.  The refinement mapping
hides keys whose deadline has passed.  Callers may make any call; the history
variable `disciplined` stays TRUE as long as they make those the engines make:
every write of a reservation or suspended key carries a TTL and no other key ever
gets one.  `ImplementsContract` claims the contract up to the first call that
breaks this habit, since `set` and `expire` on a key that is already over
differ from Redis.  The engines' models take each store call as
one atomic step, which the contract licenses on `MemoryStore` and Redis'
single-threaded execution on Redis.

### ProxyHooks

Each request goes through the hooks once; `pc` names what its hooks do next.

| Code | Actions |
|---|---|
| pre-call: breaker's `check` | `CheckBreaker`, `CheckRaises` |
| pre-call: detector's `check` | `Screen` |
| pre-call: `reserve` | `Reserve`, `Reject`, `ReserveRaises` |
| pre-call: `trip` and the 429 | `TripAndRefuse`, `TripRaises` |
| success: `record`, `record_success` | `Succeed`, `SuccessRaises` |
| success: `reconcile`, `check_thresholds` | `Reconcile`, `CheckThresholds`, `ReconcileRaises`, `ThresholdsRaise` |
| failure: `record_failure`, `release` | `Fail`, `Release`, `FailRaises`, `ReleaseRaises` |
| `_extract_agent_id` | `ExtractAgentId`; `Before` and `After` the LLM call |
| cooldown, error window, operator, process | `Elapse`, `ForgetErrors`, `Reset`, `Restart` |

One call of an engine is one step, and does what the engine's abstract
specification says: `BreakerMachine` for the breaker, `BudgetLedger` for the
enforcer.  Of the detector the module keeps which agents have records, since it
never flags an agent without any.  Between two engine calls anything may happen,
which is what Redis allows; on `MemoryStore` only some of these interleavings
occur, so the safety properties hold there too.  For the enforcer the abstraction is
licensed on both stores (`LedgerImplemented`); for the breaker it is licensed where
its hooks do not overlap (`MachineImplemented`), and what they do when they
overlap on Redis is the subject of `CircuitBreaker`.  A raising call either did
its work or did not; a reservation may be granted and its reply lost.

What the module assumes of its surroundings: LiteLLM calls one logging hook for
every request that was sent and none for a refused one; the request's metadata is a
dictionary, travels with it, and has no key named like an entry of the authenticated
identity; the store outlives the proxy's process.  One positive alert threshold
stands for all (`AlertAt`; the lowest that has a label is half of the budget), the
error count is capped at the threshold, and an operator's reset, two deletions in
the API's process, is one step.  `raised` is history: which engine calls raised in
the hooks of a request, and whether a restart ended it.

## 3. What is checked

Passing runs:

| Run | Instance | Properties |
|---|---|---|
| `BudgetFaults` | 2 calls on Redis, costs 0, 1, 3, limits 4 and 2, one reset, faults | `TypeOK`, `SpendCapped`, `SpendAccountedFor`, `ImplementsLedger` |
| `BudgetMemory` | 3 calls, one hook at a time, limits 4 and 3, 3 thresholds (one without label), one reset | `FlagsOfThisPeriod`, `FiresAtMostOnce`, `GrantsFitTheLimit` |
| `BudgetLive` | 3 calls on Redis, 3 thresholds, fairness | `ThresholdsCaughtUp`, `EventuallyExact` |
| `BreakerMemory` | 3 calls and an operator in one process, one hook at a time; one call is known by its key and logged as `unknown`, like the others | `ApiAgreesWithEngine`, `ThresholdTrips`, `TrippedAgentsListed`, `CooldownRunsItsCourse`, `NothingRunsWhileOpen`, `ImplementsMachine` |
| `BreakerLive` | 2 calls, one of them known by its key, and an operator on Redis, faults until things calm down, fairness | `TypeOK`, `Recovery` |
| `LoopDetection` | 3 contents, 2 overlapping requests, enforce mode, every pace of calls, sessions cleared at any point | `TypeOK`, `RepeatsBounded`, `CyclesAreRepetitions`, `BaselineWithinObserved` |
| `StoreContract` | any call on any key; the contract up to the first call the engines would not make | `TypeOK`, `ImplementsContract` |
| `ProxyHooks` | 3 requests in either mode, two of a named agent and one known by its key alone; engine calls raise in one request's hooks; restarts, resets, cooldowns | `TypeOK`, `RefusalsAreFree`, `EnforcedCallsAreFunded`, `NoHoldIsLost`, `ObserveRefusesNothing`, `AlertsReachTheirAgent`, `AgentsIsolated`, `HoldsSettle` |

Runs that show a disagreement between the code and what is said of it (details
and quotations in `PROJECT.json`, "findings"):

| Run | What happens |
|---|---|
| `BudgetOrphans` | The hold of a crashed call stays in the spend; its reservation key expires unread. |
| `BreakerProbes` | HALF_OPEN lets several requests through. |
| `BreakerLostTrip` | On Redis a recovery deletes the suspension of a trip that overlaps it. |
| `LoopStuck` | A recorded cycle flags every later request, whatever its content; a reset of the breaker does not help. |

The models show more of this kind, which has no run of its own; each is listed
as a hazard.  Any success closes a half-open breaker, also that of a request from
before the trip (`circuit_breaker.py:204`); a late failure trips a breaker that is
open already and restarts its cooldown (`:244`); on Redis a reset that overlaps a
trip leaves an agent suspended whom the API shows as closed (`:260`).  On Redis
two success hooks may both fire one threshold (`budget_enforcer.py:381`), and a
check from before a reset may leave its flag in the new period (`:415`); so does a
reset that is cut short between its deletions (`:412`).  A breaker's reset through the
API (`api.py:425`) leaves the proxy's error window, so that the first failure after
it may trip: `ThresholdTrips` is about breakers that never opened or closed
after a probe.  The 5%
growth cap of the baseline compounds, so that a long burst can move it past the
multiplier (`loop_detector.py:314`).  `MemoryStore.set` and `expire` do not look at
the deadline of the key they write (`memory.py:53`, `:79`), which no caller can
notice today.

The composition shows where the hooks part from the text.  A request without
explicit metadata is checked and charged under its team, user or key, and logged
under `unknown` (`logger.py:252`), although README.md:557 gives one chain for an
agent's identity: its successes, failures and alerts count for `unknown`, and all such
requests share that breaker.  `AgentsIsolated` and `AlertsReachTheirAgent` state what
is left of the isolation.  A loop or an exceeded budget trips the breaker of the team,
user or key (`:171`, `:208`), and after the cooldown its requests pass as probes, but no
success is ever recorded for it (`:262`): that breaker stays HALF_OPEN until an operator
resets it.  `Recovery` is therefore about breakers that both meet requests and are told of
successes (`Recoverable`); without that condition TLC finds the keyed agent's breaker in
`BreakerLive`.  An error of the store in the breaker's check fails the
request in either mode (`logger.py:118`), where README.md:675 describes fail-open;
`ObserveRefusesNothing` says that this is the only way observe mode refuses.  An
error in `record_success` or `record_failure` skips the settlement
(`logger.py:262`, `:349`), and so does the lost reply of a granted reservation
(`:227`): these are exceptions `NoHoldIsLost` names.  In observe mode a rejected
reservation goes on uncharged (`:226`).  The API's budget endpoints
(`api.py:378`, `README.md:346`) write a HASH that the enforcer never reads, so a
limit set there changes no reservation.

**Why the bounds suffice.**  A race involves two hooks, or a hook and an operator;
two or three calls and one operator give every pair, or a pair and a bystander.
Agents share no key, nor do budget accounts, so one stands for any number; where
requests may be logged for another agent than they are checked for, two agents give
both roles.  Costs
contain zero, one that fits a limit several times and one that fits once; limits
contain one below the default.  A cooldown of two ticks distinguishes "running",
"about to end" and "over"; an error window of one or two ticks lets errors age out
and meet.  A window of nine hashes holds three repetitions of periods two and three,
and ten calls make it overflow.  In `ProxyHooks` three requests give two of one
agent and a bystander whose identity is lost; the budget fits one large or two small
holds, and one error trips a breaker, so that an open breaker meets later requests
in observe mode too (counting up to a threshold is `CircuitBreaker`'s); `Faulty`
names the one request in whose hooks engine calls raise, so that its failures meet
undisturbed hooks.  The time of a reservation's expiry is nondeterministic.  What
does not depend on the bounds is proved (section 4); the theorems also cover faults
where hooks do not overlap, which `BreakerMemory` leaves out.

**Fairness.**  `BudgetEnforcer!Fairness` is weak fairness of each call that has
started: the event loop runs every ready task and LiteLLM ends every request with
one logging hook.  Nothing makes a call start, and no fairness is assumed of
operators or of expiry.  `CircuitBreaker!Fairness` adds time, agents that keep
calling (the breaker leaves OPEN only when a request arrives, so without them it
never would), and operators that finish the commands they began.  Faults are never
fair, and `Recovery` is claimed only for executions that calm down.
`ProxyHooks!Fairness` is weak fairness of the hooks of each request that has
started, as in the enforcer; requests need not arrive, nothing makes a cooldown end,
and `HoldsSettle` exempts requests that met one of the exceptions of `NoHoldIsLost`.

Deadlock is checked in the breaker and store runs.  In the budget, detector
and hooks runs the calls are finitely many, so the system stops when they are over.

## 4. What is proved

All theorems hold for every value of the constants that satisfies the module's
named assumption, any number of calls, agents and accounts included, and for any
faults unless the table says otherwise; `tlapm` checks them to the last leaf.

| Theorem | Statement |
|---|---|
| `BudgetEnforcerProofs!TypeCorrect` | `Spec => []TypeOK` |
| `BudgetEnforcerProofs!SpendIsCapped` | `Spec => []SpendCapped` |
| `BudgetEnforcerProofs!SpendIsAccountedFor` | `Spec => []SpendAccountedFor` |
| `BudgetEnforcerProofs!LedgerImplemented` | `Spec => ImplementsLedger` |
| `BudgetEnforcerProofs!FlagsBelongToPeriod` | `Spec => []FlagsOfThisPeriod`, if `~AwaitsSuspend` and `~Faults` |
| `BudgetEnforcerProofs!FiresOncePerPeriod` | `Spec => FiresAtMostOnce`, if `~AwaitsSuspend` |
| `BudgetEnforcerProofs!GrantsFit` | `Spec => GrantsFitTheLimit`, if `~AwaitsSuspend` or `Limits = {}` |
| `BudgetEnforcerProofs!HoldsDrain` | `Spec => []OrphansRecover`, if `~Faults` and `MaxResets = 0` |
| `BudgetEnforcerProofs!AlertsCatchUp` | `Spec => []ThresholdsCaughtUp`, if `~Faults`, `MaxResets = 0` and `Limits = {}` |
| `CircuitBreakerProofs!TypeCorrect` | `Spec => []TypeOK` |
| `CircuitBreakerProofs!SuspensionRunsItsCourse` | `Spec => CooldownRunsItsCourse`, if `~AwaitsSuspend` |
| `CircuitBreakerProofs!OpenBlocks` | `Spec => NothingRunsWhileOpen`, if `~AwaitsSuspend` and `Enforce` |
| `CircuitBreakerProofs!MachineImplemented` | `Spec => ImplementsMachine`, if `~AwaitsSuspend` |
| `CircuitBreakerProofs!OperatorsSeeTheEngine` | `Spec => []ApiAgreesWithEngine`, if `~AwaitsSuspend` and `~Faults` |
| `CircuitBreakerProofs!OperatorsFindBreakers` | `Spec => []TrippedAgentsListed`, if `~Faults` |
| `CircuitBreakerProofs!ErrorsTrip` | `Spec => []ThresholdTrips`, if `~AwaitsSuspend`, `~Faults` and there is one process |
| `LoopDetectorProofs!TypeCorrect` | `Spec => []TypeOK` |
| `LoopDetectorProofs!RepeatsAreBounded` | `Spec => []RepeatsBounded` |
| `LoopDetectorProofs!BaselineIsObserved` | `Spec => []BaselineWithinObserved` |
| `LoopDetectorProofs!CycleTestIsExact` | `Spec => []CyclesAreRepetitions` |
| `MemoryStoreProofs!TypeCorrect` | `Spec => []TypeOK` |
| `MemoryStoreProofs!ContractImplemented` | `Spec => ImplementsContract` |
| `ProxyHooksProofs!TypeCorrect` | `Spec => []TypeOK` |
| `ProxyHooksProofs!RefusalsCostNothing` | `Spec => []RefusalsAreFree` |
| `ProxyHooksProofs!EnforcedCallsHold` | `Spec => []EnforcedCallsAreFunded` |
| `ProxyHooksProofs!HoldsAreNotLost` | `Spec => []NoHoldIsLost` |
| `ProxyHooksProofs!ObserveLetsThrough` | `Spec => []ObserveRefusesNothing` |
| `ProxyHooksProofs!AlertsArrive` | `Spec => []AlertsReachTheirAgent` |
| `ProxyHooksProofs!AgentsStayIsolated` | `Spec => AgentsIsolated` |

Each hypothesis is one the property needs, and each is the setting of the run that
checks it or a wider one.  Without `~AwaitsSuspend` the runs `BreakerProbes` and
`BreakerLostTrip` and the hazards about Redis show what goes wrong; a crash between
two deletions leaves operators with another state than the engine, or an old flag in a
new period; two processes
each see a part of the errors; a new limit is noticed by the next check only.

**The arguments.**

*The spend is capped.*  `SpendCapped` alone is not inductive: a grant compares
with a limit that was read earlier.  `Capped` adds `LimitsUnderCeiling`: the limit
in force and every limit a call still carries are at most `ceiling`.  Then a grant
stays under the ceiling, a settlement adds at most what it adds to `overrun`,
and a reset drops the spend to zero, which the ceiling is never below.

*The spend is accounted for.*  The equation of `SpendAccountedFor` is inductive once it
is known that no stamp of a call lies in a later period than its account's (so a reset
empties both totals) and that only finitely many calls were ever charged
(`Accounted`), with what the stamps say of a call at each `pc` (`StageKnown`).  A
grant puts one member into the first total (`TotalAdd`), a settlement one into the
other two, an estimate changes only before its call is in any (`TotalSame`).

*One hook at a time, in the enforcer.*  `SerialInv` says that at most one call is
inside a hook (`OneHookAtATime`) and no reset beside it (`NoResetUnderHook`), that what
this call has read still holds: the limit, the period, and, on its way to mark a
threshold, the absence of the fired key (`HookCoherent`); and that flags belong to
the period or are about to be cleared, unless a fault ended a reset (`FlagsCoherent`).  The properties of
`BudgetMemory` are read off it.  Of `GrantsFitTheLimit` only the limit's part is
needed, and that is inductive on Redis too while nobody sets budgets
(`LimitInForce`).

*Holds drain, and alerts catch up.*  Without faults and resets a hold that is not
settled belongs to a call that waits for its response (`Draining`); so at rest
the two totals of holds cancel.  For the alerts, `CatchingUp` compares each threshold with
the *settled cost* rather than with the spend, which also falls: once
the settled cost has reached it, the flag is set or some success hook has yet to
look or to mark.  A settlement that reaches it is itself on its way to look; a
check that reads the spend reads at least the settled cost (`TotalSubset`), so
it sees the threshold, whatever holds come and go.

*The ledger.*  From `Capped`, a grant fits under the ledger's ceiling; what `heldIn`
and `settledIn` say of a call at each `pc` makes every increment of the spend a
hold, a settlement or a reset, and every other step a stutter.

*The breaker, one hook at a time.*  `SerialInv` is the type invariant,
`OneHookAtATime` (at most one task is inside a hook), `Identified` (until its
request is sent, a task goes by the agent that was checked) and `Coherent`: a half-open or
closed breaker is not suspended, and what the task inside a hook has read or
written still holds, whichever step comes next.  It is this last part that fails when
hooks interleave: `BreakerLostTrip` is the failure of its conjunct on the recovery.
From `SerialInv`, the deletion at the end of a recovery finds no suspension; a
request that is past the check is not suspended; and every step is a step of
`BreakerMachine` or a stutter.  A hook or command that is cut short maps to an
elapsed cooldown, or to the end of a reset (`CutShort`).

*What operators see.*  `UnsetIsFree` adds to `SerialInv` that an agent without a
HASH is not suspended.  `Listed` says that a breaker that has a state is in the
registry or some task is between its write of the HASH and of the registry, and that
a task about to write the HASH of a breaker it has read has seen one there; it holds
with any interleaving.  `ThresholdSeen` says that a window at the threshold under a
breaker that never opened, or that a probe closed, belongs to a task that is about to
judge it, to trip, or to forget the errors after a recovery; with `Listed`, a breaker
whose HASH an operator deleted is known to have been tripped.

*The detector.*  `BaselineKnown` says from which call of a session on there is a
baseline, and that it lies between one call per window and `peak`; a new value lies
between the old one and the newest velocity, or is capped by the old one's growth.
The chunk comparison of the cycle test and the comparison of each hash with the
one a period before it are the same formula over the same positions, written
chunk by chunk.

*Repetitions.*  `RepeatsBounded` counts a content in the window and in flight.
A check adds one in flight, but only with fewer than `RepeatThreshold` in the
window and no more than `|Slots|` in flight; a record moves one from flight to the
window and may drop the oldest.  The lemmas count occurrences through an injection
of positions (`CountTail`) and one new position (`CountAppend`).

*The hooks.*  The inductive invariant adds to `TypeOK` one predicate per request,
`Sound(r)`, that says for each `pc` what its hold is, whether its metadata carries it, and
which calls can have raised so far.  A step of one request leaves the predicate of
the others alone (`OthersSound`), so there is one lemma per action about its
own request.  The four invariants are read off `Sound`.  For the isolation, the id
of a request after the call is its id before it or `Unknown`; so whichever hook
trips a breaker trips the one of its request or `Unknown`'s.

*Alerts reach their agent.*  `Owed(a)` is the spend without the open holds, which is
what the settled requests have cost: a hold leaves it alone (`HoldOwesNothing`), a
settlement adds its cost (`SettleOwes`).  The invariant `Alerting` says of an agent
without a raised call that when it owes the threshold, it is alerted or some hook of
its own is about to check; that check sees at least what is owed.  At rest `Sound`
leaves no hold open, so the agent owes what it has spent.

*The store.*  `PlainNeverExpires` (while callers are disciplined, a key the engine
gives no TTL has no deadline) makes a write without a TTL safe; with it every
operation commutes with hiding stale keys, and a tick that passes deadlines is the
contract's tick.

**Only model-checked**: the liveness properties `EventuallyExact`, `Recovery` and
`HoldsSettle`, which rest on fairness (`HoldsDrain` and `HoldsAreNotLost` are their
safety halves).  The remaining runs expect a violation.

## 5. What is not modelled, and the plan

Not modelled:

- the legacy hash script of `MemoryStore.eval_lua`: nothing passes it;
- the API's budget endpoints: the HASH they keep is read by no other component,
  so no step of a model would meet it; the API's own `MemoryStore` when Redis is
  down at its start (`api.py:60`), for the same reason;
- the API's listings and event stream: they only read, and nothing writes events;
- alerts (not wired in: `logger.py:79`) and the CLI, which keep no state;
- formatting, logging and the parsing of configuration, the contents of messages
  and their hashing; `estimate_cost` is a nondeterministic estimate.

Left to do, in this order:

1. Theorems: what the breaker keeps when hooks do overlap, beyond `TypeCorrect` and
   `OperatorsFindBreakers`: which parts of `SerialInv` survive on Redis, and how far
   a lost trip can go; a capped spend of the composition in terms of its costs.
2. The alert manager's fan-out and the API's budgets, once they are wired to the
   engines.
