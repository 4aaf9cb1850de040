------------------------------ MODULE ProxyHooks ------------------------------
(***************************************************************************)
(* The LiteLLM hooks of src/budgetctl/logger.py, which drive the circuit   *)
(* breaker, the loop detector and the budget enforcer over the life of a   *)
(* request: the pre-call hook lets it go or turns it down, and the success *)
(* or failure hook follows the response.                                   *)
(*                                                                         *)
(* A call of an engine is one step here, and does what its abstract        *)
(* specification says: BreakerMachine, BudgetLedger, and of the detector   *)
(* which agents have records.  LiteLLM runs one of the two logging hooks   *)
(* for every request that was sent and none for the others.                *)
(***************************************************************************)
EXTENDS Integers

CONSTANTS
    Requests,       \* each goes through the hooks once
    Agents,
    None,           \* no id
    Unknown,        \* the id of requests without one
    ExplicitId,     \* metadata.agent_id or session_id of each request
    AuthId,         \* team:user or key suffix of the user_api_key_dict
    Costs,          \* possible estimates and actual costs
    DefaultBudget,  \* config.default_budget, in force for every agent; no alert
                    \* ever fires for one of 0
    AlertAt,        \* the spend at which an alert threshold is reached; those
                    \* that have a label start at 50 percent of the budget
    ErrorThreshold, \* error_threshold
    Faulty          \* bound: the requests in whose hooks engine calls raise

ASSUME ProxyAssumption ==
    /\ None \notin Agents
    /\ Unknown \in Agents
    /\ ExplicitId \in [Requests -> Agents \cup {None}]
    /\ AuthId \in [Requests -> Agents \cup {None}]
    /\ Costs \subseteq Nat
    /\ DefaultBudget \in Nat \ {0}
    /\ AlertAt \in Nat \ {0}
    /\ ErrorThreshold \in Nat \ {0}
    /\ Faulty \subseteq Requests

VARIABLES
    mode,       \* config.mode, read once
    \* The engines
    state,      \* of the breaker of each agent
    cooling,    \* its suspended key is live
    known,      \* agents the loop detector has records of
    errors,     \* _error_windows: recent errors, counted to the threshold
    spent,      \* of each agent
    stage,      \* of the hold of each request: "none", "held", "settled"
    hold,       \* its estimated cost
    alerted,    \* agents whose threshold has fired
    \* The hooks
    pc,         \* what comes next for each request
    carried,    \* requests whose metadata holds a reservation
    raised      \* history: the engine calls that raised in its hooks

breaker == <<state, cooling>>
ledger == <<spent, stage, hold>>
engines == <<breaker, known, errors, ledger, alerted>>
vars == <<mode, engines, pc, carried, raised>>

\* _extract_agent_id: the metadata travels with the request, the dictionary
\* is the one the hook was given.
ExtractAgentId(explicit, fromDict) ==
    IF explicit # None THEN explicit
    ELSE IF fromDict # None THEN fromDict
    ELSE Unknown

\* The pre-call hook has the identity LiteLLM authenticated; the logging
\* hooks pass the metadata once more in its place.
Before(r) == ExtractAgentId(ExplicitId[r], AuthId[r])
After(r) == ExtractAgentId(ExplicitId[r], None)

Breaker == INSTANCE BreakerMachine WITH resetting <- {}

Ledger == INSTANCE BudgetLedger WITH
    Calls <- Requests,
    Accounts <- Agents,
    AccountOf <- [r \in Requests |-> Before(r)],
    ceiling <- [a \in Agents |-> DefaultBudget]

Refused == {"refused", "failed"}
InFlight == {"screening", "tripping", "reserving", "sent", "settling",
             "alerting", "releasing"}
Over == Refused \cup {"done", "dead"}

Goto(r, next) == pc' = [pc EXCEPT ![r] = next]
Raise(r, call) == r \in Faulty /\ raised' = [raised EXCEPT ![r] = @ \cup {call}]

Init ==
    /\ mode \in {"enforce", "observe"}
    /\ state = [a \in Agents |-> "closed"]
    /\ cooling = [a \in Agents |-> FALSE]
    /\ known = {}
    /\ errors = [a \in Agents |-> 0]
    /\ Ledger!Init
    /\ alerted = {}
    /\ pc = [r \in Requests |-> "new"]
    /\ carried = {}
    /\ raised = [r \in Requests |-> {}]

-----------------------------------------------------------------------------
(* async_pre_call_hook                                                     *)

\* What check does to the breaker of a.
Look(a) ==
    IF state[a] = "open" /\ ~cooling[a] THEN Breaker!Probe(a) ELSE UNCHANGED breaker

\* Seeded fault: an open circuit turns requests down in any mode.
AfterCheckInAnyMode(r) == IF cooling[Before(r)] THEN "refused" ELSE "screening"

AfterCheck(r) ==
    IF cooling[Before(r)] /\ mode = "enforce" THEN "refused" ELSE "screening"

CheckBreaker(r) ==
    /\ pc[r] = "new"
    /\ Look(Before(r))
    /\ Goto(r, AfterCheck(r))
    /\ UNCHANGED <<mode, known, errors, ledger, alerted, carried, raised>>

\* Nothing catches an error of the store: the request fails.
CheckRaises(r) ==
    /\ pc[r] = "new"
    /\ Look(Before(r)) \/ UNCHANGED breaker
    /\ Goto(r, "failed")
    /\ Raise(r, "check")
    /\ UNCHANGED <<mode, known, errors, ledger, alerted, carried>>

\* The loop detector may flag an agent it has records of, and that counts in
\* enforce mode.
Screen(r) ==
    /\ pc[r] = "screening"
    /\ \/ Goto(r, "reserving")
       \/ mode = "enforce" /\ Before(r) \in known /\ Goto(r, "tripping")
    /\ UNCHANGED <<mode, engines, carried, raised>>

Fits(r, e) == spent[Before(r)] + e <= DefaultBudget

Reserve(r) ==
    /\ pc[r] = "reserving"
    /\ \E e \in Costs : Ledger!Hold(r, e)
    /\ carried' = carried \cup {r}
    /\ Goto(r, "sent")
    /\ UNCHANGED <<mode, breaker, known, errors, alerted, raised>>

\* Seeded fault: the hold is added before it is compared with the limit.
DenyAfterHold(r, e) ==
    /\ ~Fits(r, e)
    /\ spent' = [spent EXCEPT ![Before(r)] = @ + e]
    /\ stage' = [stage EXCEPT ![r] = "held"]
    /\ hold' = [hold EXCEPT ![r] = e]

\* reserve raises BudgetCtlBudgetExceeded.
Deny(r, e) == ~Fits(r, e) /\ UNCHANGED ledger

\* Seeded fault: the mode is not looked at.
AfterDenialObserved(r) == "sent"

AfterDenial(r) == IF mode = "enforce" THEN "tripping" ELSE "sent"

\* In observe mode the request goes on without a reservation.
Reject(r) ==
    /\ pc[r] = "reserving"
    /\ \E e \in Costs : Deny(r, e)
    /\ Goto(r, AfterDenial(r))
    /\ UNCHANGED <<mode, breaker, known, errors, alerted, carried, raised>>

\* Any other error is logged and the request goes on without a reservation,
\* even if the script ran and only its reply was lost.
ReserveRaises(r) ==
    /\ pc[r] = "reserving"
    /\ UNCHANGED ledger \/ \E e \in Costs : Ledger!Hold(r, e)
    /\ Goto(r, "sent")
    /\ Raise(r, "reserve")
    /\ UNCHANGED <<mode, breaker, known, errors, alerted, carried>>

\* A loop or a rejection trips the breaker before the 429.
TripAndRefuse(r) ==
    /\ pc[r] = "tripping"
    /\ Breaker!Trip(Before(r))
    /\ Goto(r, "refused")
    /\ UNCHANGED <<mode, known, errors, ledger, alerted, carried, raised>>

TripRaises(r) ==
    /\ pc[r] = "tripping"
    /\ Breaker!Trip(Before(r)) \/ UNCHANGED breaker
    /\ Goto(r, "failed")
    /\ Raise(r, "trip")
    /\ UNCHANGED <<mode, known, errors, ledger, alerted, carried>>

-----------------------------------------------------------------------------
(* async_log_success_event                                                 *)

\* Seeded fault: the record is filed under the raw metadata.
RecordRaw(r) == known' = known \cup {ExplicitId[r]}

\* record of the loop detector
Record(r) == known' = known \cup {After(r)}

\* record_success
RecordSuccess(a) ==
    IF state[a] = "half_open"
    THEN Breaker!Recover(a) /\ errors' = [errors EXCEPT ![a] = 0]
    ELSE UNCHANGED <<breaker, errors>>

\* Seeded fault: a response without a reported cost ends the hook.
AfterSuccessWithoutCost(r) == "done"

AfterSuccess(r) == IF r \in carried THEN "settling" ELSE "done"

Succeed(r) ==
    /\ pc[r] = "sent"
    /\ Record(r)
    /\ RecordSuccess(After(r))
    /\ Goto(r, AfterSuccess(r))
    /\ UNCHANGED <<mode, ledger, alerted, carried, raised>>

\* An error of record_success ends the hook, reconciliation and all.
SuccessRaises(r) ==
    /\ pc[r] = "sent"
    /\ Record(r)
    /\ Breaker!Recover(After(r)) \/ UNCHANGED breaker
    /\ Goto(r, "done")
    /\ Raise(r, "record_success")
    /\ UNCHANGED <<mode, errors, ledger, alerted, carried>>

Reconcile(r) ==
    /\ pc[r] = "settling"
    /\ \E actual \in Costs \cup {0} : Ledger!Settle(r, actual)
    /\ Goto(r, "alerting")
    /\ UNCHANGED <<mode, breaker, known, errors, alerted, carried, raised>>

ReconcileRaises(r) ==
    /\ pc[r] = "settling"
    /\ UNCHANGED ledger \/ \E actual \in Costs \cup {0} : Ledger!Settle(r, actual)
    /\ Goto(r, "alerting")
    /\ Raise(r, "reconcile")
    /\ UNCHANGED <<mode, breaker, known, errors, alerted, carried>>

\* Seeded fault: a threshold that is reached exactly does not count.
AlertBeyond(r) ==
    alerted' = alerted \cup {a \in {After(r)} : spent[a] > AlertAt}

\* check_thresholds looks at the budget of the agent this hook derived.
Alert(r) ==
    alerted' = alerted \cup {a \in {After(r)} : spent[a] >= AlertAt}

CheckThresholds(r) ==
    /\ pc[r] = "alerting"
    /\ Alert(r)
    /\ Goto(r, "done")
    /\ UNCHANGED <<mode, breaker, known, errors, ledger, carried, raised>>

ThresholdsRaise(r) ==
    /\ pc[r] = "alerting"
    /\ Alert(r) \/ UNCHANGED alerted
    /\ Goto(r, "done")
    /\ Raise(r, "check_thresholds")
    /\ UNCHANGED <<mode, breaker, known, errors, ledger, carried>>

-----------------------------------------------------------------------------
(* async_log_failure_event                                                 *)

Counted(a) == IF errors[a] < ErrorThreshold THEN errors[a] + 1 ELSE ErrorThreshold

TripsOnFailure(a) == state[a] = "half_open" \/ Counted(a) = ErrorThreshold

\* Seeded fault: the breaker that trips is the proxy's, not the agent's.
RecordFailureOfAll(a) ==
    /\ errors' = [errors EXCEPT ![a] = Counted(a)]
    /\ IF TripsOnFailure(a)
       THEN /\ state' = [b \in Agents |-> "open"]
            /\ cooling' = [b \in Agents |-> TRUE]
       ELSE UNCHANGED breaker

\* record_failure
RecordFailure(a) ==
    /\ errors' = [errors EXCEPT ![a] = Counted(a)]
    /\ IF TripsOnFailure(a) THEN Breaker!Trip(a) ELSE UNCHANGED breaker

\* Seeded fault: a failed call keeps its hold.
AfterFailureWithHold(r) == "done"

AfterFailure(r) == IF r \in carried THEN "releasing" ELSE "done"

Fail(r) ==
    /\ pc[r] = "sent"
    /\ RecordFailure(After(r))
    /\ Goto(r, AfterFailure(r))
    /\ UNCHANGED <<mode, known, ledger, alerted, carried, raised>>

\* An error of record_failure ends the hook; the error is counted, and the
\* breaker tripped or not.
FailRaises(r) ==
    LET a == After(r) IN
    /\ pc[r] = "sent"
    /\ errors' = [errors EXCEPT ![a] = Counted(a)]
    /\ (TripsOnFailure(a) /\ Breaker!Trip(a)) \/ UNCHANGED breaker
    /\ Goto(r, "done")
    /\ Raise(r, "record_failure")
    /\ UNCHANGED <<mode, known, ledger, alerted, carried>>

Release(r) ==
    /\ pc[r] = "releasing"
    /\ Ledger!Settle(r, 0)
    /\ Goto(r, "done")
    /\ UNCHANGED <<mode, breaker, known, errors, alerted, carried, raised>>

ReleaseRaises(r) ==
    /\ pc[r] = "releasing"
    /\ Ledger!Settle(r, 0) \/ UNCHANGED ledger
    /\ Goto(r, "done")
    /\ Raise(r, "release")
    /\ UNCHANGED <<mode, breaker, known, errors, alerted, carried>>

-----------------------------------------------------------------------------
(* The environment                                                         *)

\* The cooldown of a ends.
Elapse(a) ==
    /\ cooling[a]
    /\ Breaker!Elapse({a})
    /\ UNCHANGED <<mode, known, errors, ledger, alerted, pc, carried, raised>>

\* Errors leave the window.
ForgetErrors(a) ==
    /\ \E n \in 0..errors[a] - 1 : errors' = [errors EXCEPT ![a] = n]
    /\ UNCHANGED <<mode, breaker, known, ledger, alerted, pc, carried, raised>>

\* An operator's reset runs in the API's process: it deletes the keys of the
\* store and does not reach the error window of the proxy.
Reset(a) ==
    /\ state' = [state EXCEPT ![a] = "closed"]
    /\ cooling' = [cooling EXCEPT ![a] = FALSE]
    /\ UNCHANGED <<mode, known, errors, ledger, alerted, pc, carried, raised>>

\* The proxy restarts, idle or not: its requests are lost and so is what the
\* detector and the error windows held in memory; the store survives.
Restart ==
    /\ pc' = [r \in Requests |-> IF pc[r] \in InFlight THEN "dead" ELSE pc[r]]
    /\ raised' = [r \in Requests |->
                    IF pc[r] \in InFlight THEN raised[r] \cup {"restart"} ELSE raised[r]]
    /\ known' = {}
    /\ errors' = [a \in Agents |-> 0]
    /\ UNCHANGED <<mode, breaker, ledger, alerted, carried>>

-----------------------------------------------------------------------------
\* What the hooks do for a request once it has started.
Step(r) ==
    \/ Screen(r)
    \/ Reserve(r) \/ Reject(r)
    \/ TripAndRefuse(r)
    \/ Succeed(r) \/ Reconcile(r) \/ CheckThresholds(r)
    \/ Fail(r) \/ Release(r)

Raises(r) ==
    \/ CheckRaises(r) \/ ReserveRaises(r) \/ TripRaises(r)
    \/ SuccessRaises(r) \/ ReconcileRaises(r) \/ ThresholdsRaise(r)
    \/ FailRaises(r) \/ ReleaseRaises(r)

Next ==
    \/ \E r \in Requests : CheckBreaker(r) \/ Step(r) \/ Raises(r)
    \/ \E a \in Agents : Elapse(a) \/ ForgetErrors(a) \/ Reset(a)
    \/ Restart

\* The event loop runs every ready hook, and every request that was sent is
\* answered or times out.  Nothing makes a request arrive.
Fairness == \A r \in Requests : WF_vars(Step(r))

Spec == Init /\ [][Next]_vars /\ Fairness

-----------------------------------------------------------------------------
(* Properties                                                              *)

\* What keeps the hooks from giving a hold back.
LosesHold == {"reserve", "record_success", "reconcile", "record_failure",
              "release", "restart"}
RaisedCalls == LosesHold \cup {"check", "trip", "check_thresholds"}

\* Every variable has its type.
TypeOK ==
    /\ mode \in {"enforce", "observe"}
    /\ state \in [Agents -> Breaker!States]
    /\ cooling \in [Agents -> BOOLEAN]
    /\ known \subseteq Agents
    /\ errors \in [Agents -> 0..ErrorThreshold]
    /\ spent \in [Agents -> Int]
    /\ stage \in [Requests -> {"none", "held", "settled"}]
    /\ hold \in [Requests -> Costs \cup {0}]
    /\ alerted \subseteq Agents
    /\ pc \in [Requests -> {"new"} \cup InFlight \cup Over]
    /\ carried \subseteq Requests
    /\ raised \in [Requests -> SUBSET RaisedCalls]

\* A request that is turned down, by a 429 or an error, has cost its agent
\* nothing: whichever check ends it, no hold was taken before.
RefusalsAreFree ==
    \A r \in Requests : pc[r] \in Refused => stage[r] = "none"

\* In enforce mode nothing reaches the LLM without a hold on its agent's
\* budget, unless the reservation itself raised.
EnforcedCallsAreFunded ==
    \A r \in Requests :
        mode = "enforce" /\ pc[r] = "sent" =>
            stage[r] = "held" \/ "reserve" \in raised[r]

\* A request that is over still holds budget only if one of these happened to
\* it: no interleaving of hooks, trips and resets loses a hold, and neither
\* does an error of the checks or of check_thresholds.
NoHoldIsLost ==
    \A r \in Requests :
        pc[r] \in Over /\ stage[r] = "held" => raised[r] \cap LosesHold # {}

\* Observe mode "allows all requests"; only an error of the breaker's check
\* turns one down, whatever state the breakers are in.
ObserveRefusesNothing ==
    \A r \in Requests :
        mode = "observe" /\ pc[r] \in Refused => raised[r] = {"check"}

\* "Other agents are unaffected": the breaker of an agent other than Unknown
\* opens only in a hook of a request that was checked under its own name.
AgentsIsolated ==
    [][\A a \in Agents \ {Unknown} :
          state[a] # "open" /\ state'[a] = "open" =>
              \E r \in Requests : Before(r) = a /\ pc'[r] # pc[r]]_vars

\* The requests of a are all over, were logged under its name, and no engine
\* call raised in their hooks.
Quiet(a) ==
    \A r \in Requests :
        Before(r) = a => pc[r] \in {"new"} \cup Over /\ raised[r] = {} /\ After(r) = a

\* Every agent that has come to rest at or above the threshold was alerted,
\* however its settlements and releases interleaved with the checks.
AlertsReachTheirAgent ==
    \A a \in Agents : Quiet(a) /\ spent[a] >= AlertAt => a \in alerted

\* Every hold is settled or released in the end and stays so,
\* unless its request met one of these exceptions.
HoldsSettle ==
    <>[](\A r \in Requests : stage[r] = "held" => raised[r] \cap LosesHold # {})

=============================================================================
