--------------------------- MODULE BudgetEnforcer ---------------------------
(***************************************************************************)
(* The budget enforcer, src/budgetctl/engine/budget_enforcer.py, as        *)
(* the LiteLLM hooks of src/budgetctl/logger.py drive it.                  *)
(*                                                                         *)
(* One element of Calls is one LLM request.  Its pre-call hook reserves    *)
(* an estimated cost against the budget of its account (a scope and        *)
(* scope_id pair); its success hook reconciles the hold with the actual    *)
(* cost and checks the alert thresholds; its failure hook releases the     *)
(* hold.  Every store call is one atomic step, and the program counter of  *)
(* a call names the store call that comes next.                            *)
(*                                                                         *)
(* Money is an integer in the smallest unit the code tells apart, and a    *)
(* threshold is an integer percentage.  The limits, estimates and costs    *)
(* are chosen nondeterministically from small sets.                        *)
(***************************************************************************)
EXTENDS Integers, FiniteSets, Units

CONSTANTS
    Calls,          \* LLM requests; each goes through the hooks once
    Accounts,       \* (scope, scope_id) pairs
    AccountOf,      \* the account each call is charged to
    Costs,          \* possible estimates and actual costs
    Limits,         \* limits set_budget may write; {} when nobody calls it
    DefaultBudget,  \* config.default_budget
    Thresholds,     \* config.alert_thresholds, in percent
    Labelled,       \* the thresholds that _THRESHOLD_LABELS has a label for,
                    \* of 50, 80, 90 and 100 percent
    AwaitsSuspend,  \* TRUE: RedisStore, every await lets other tasks run;
                    \* FALSE: MemoryStore, whose coroutines never yield
    Faults,         \* TRUE: processes crash and store calls raise
    MaxResets,      \* bound: calls of reset_spend per account
    Missing         \* what the store returns for an absent limit key

ASSUME BudgetAssumption ==
    /\ AccountOf \in [Calls -> Accounts]
    /\ Costs \subseteq Nat
    /\ Limits \subseteq Int
    /\ DefaultBudget \in Int
    /\ Thresholds \subseteq Nat
    /\ Labelled \subseteq Thresholds \ {0}
    /\ AwaitsSuspend \in BOOLEAN
    /\ Faults \in BOOLEAN
    /\ MaxResets \in Nat
    /\ Missing \notin Int

Never == -1             \* a stamp that was not given yet

VARIABLES
    \* The store
    spent,          \* budgetctl:budget:{scope}:{id}:spent
    limitKey,       \* budgetctl:budget:{scope}:{id}:limit
    reservations,   \* calls whose budgetctl:reservation:{id} key is live
    fired,          \* the fired key of a threshold: Never if absent, else
                    \* the period in which its writer read the spend
    \* The tasks
    pc,             \* the next store call of each LLM request
    estimate,       \* the estimated cost of its reservation
    cost,           \* what it was settled at; 0 after a release
    limitRead,      \* the local variable limit of reserve, check_thresholds
    pending,        \* crossed thresholds check_thresholds has yet to visit
    clearing,       \* flags a running reset_spend has yet to delete
    \* History, read by the properties only (period also bounds the resets)
    period,         \* resets of the account so far
    heldIn,         \* the period in which the hold was added to spent
    settledIn,      \* the period in which the settlement was
    readIn,         \* the period in which check_thresholds read the spend
    ceiling,        \* the highest limit ever in force, or 0
    overrun         \* how far actual costs went above their estimates

store == <<spent, limitKey, reservations, fired>>
tasks == <<pc, estimate, cost, limitRead, pending, clearing>>
history == <<period, heldIn, settledIn, readIn, ceiling, overrun>>
vars == <<store, tasks, history>>

(***************************************************************************)
(* Program counters.  A call that waits for its LLM response ("held") or   *)
(* that is over holds no thread; the others are inside a hook.             *)
(***************************************************************************)
Over == {"rejected", "done", "dead"}
Parked == {"new", "held"} \cup Over
InHook == {"eval", "unkey", "unkeyReleased", "limit", "spent", "exists", "mark"}

\* Under MemoryStore no await suspends: a hook or an operator's command
\* runs to its end before any other task takes a step.
NobodyElse(S) == /\ \A d \in Calls \ S : pc[d] \in Parked
                 /\ \A a \in Accounts : clearing[a] = {}
MayRun(c) == AwaitsSuspend \/ NobodyElse({c})
MayOperate == AwaitsSuspend \/ NobodyElse({})

Larger(x, y) == IF x >= y THEN x ELSE y

Goto(c, next) == pc' = [pc EXCEPT ![c] = next]

-----------------------------------------------------------------------------
\* Seeded fault: no fallback to the default budget.
LimitWithoutDefault(a) == limitKey[a]

\* _get_limit
Limit(a) == IF limitKey[a] = Missing THEN DefaultBudget ELSE limitKey[a]

\* Seeded fault: the test forgets the cost about to be held.
FitsWithoutCost(s, e, l) == s <= l

\* The test of _RESERVE_LUA.
Fits(s, e, l) == s + e <= l

\* EXISTS of a fired key.  Seeded fault: the check is skipped.
NotChecked(a, t) == FALSE
AlreadyFired(a, t) == fired[a][t] # Never

\* ratio >= threshold, for a positive limit.
Crosses(s, l, t) == 100 * s >= t * l

Init ==
    /\ spent = [a \in Accounts |-> 0]
    /\ limitKey = [a \in Accounts |-> Missing]
    /\ reservations = {}
    /\ fired = [a \in Accounts |-> [t \in Thresholds |-> Never]]
    /\ pc = [c \in Calls |-> "new"]
    /\ estimate = [c \in Calls |-> 0]
    /\ cost = [c \in Calls |-> 0]
    /\ limitRead = [c \in Calls |-> 0]
    /\ pending = [c \in Calls |-> {}]
    /\ clearing = [a \in Accounts |-> {}]
    /\ period = [a \in Accounts |-> 0]
    /\ heldIn = [c \in Calls |-> Never]
    /\ settledIn = [c \in Calls |-> Never]
    /\ readIn = [c \in Calls |-> Never]
    /\ ceiling = [a \in Accounts |-> Larger(DefaultBudget, 0)]
    /\ overrun = [a \in Accounts |-> 0]

-----------------------------------------------------------------------------
(* reserve                                                                 *)

\* The pre-call hook estimates the cost and reserve reads the limit.
ReadLimit(c) ==
    /\ pc[c] = "new"
    /\ MayRun(c)
    /\ \E e \in Costs : estimate' = [estimate EXCEPT ![c] = e]
    /\ limitRead' = [limitRead EXCEPT ![c] = Limit(AccountOf[c])]
    /\ Goto(c, "eval")
    /\ UNCHANGED <<store, cost, pending, clearing, history>>

\* The Lua script finds room: it adds the hold and writes the reservation.
Grant(c) ==
    LET a == AccountOf[c] IN
    /\ pc[c] = "eval"
    /\ MayRun(c)
    /\ Fits(spent[a], estimate[c], limitRead[c])
    /\ spent' = [spent EXCEPT ![a] = @ + estimate[c]]
    /\ reservations' = reservations \cup {c}
    /\ heldIn' = [heldIn EXCEPT ![c] = period[a]]
    /\ Goto(c, "held")
    /\ UNCHANGED <<limitKey, fired, estimate, cost, limitRead, pending,
                   clearing, period, settledIn, readIn, ceiling, overrun>>

\* The Lua script finds none: BudgetCtlBudgetExceeded.
Reject(c) ==
    /\ pc[c] = "eval"
    /\ MayRun(c)
    /\ ~Fits(spent[AccountOf[c]], estimate[c], limitRead[c])
    /\ Goto(c, "rejected")
    /\ UNCHANGED <<store, estimate, cost, limitRead, pending, clearing, history>>

-----------------------------------------------------------------------------
(* reconcile and release                                                   *)

\* Seeded fault: the actual cost is charged on top of the hold.
DiffOnTopOfHold(c, actual) == actual

Diff(c, actual) == actual - estimate[c]

\* INCRBYFLOAT of spent by the difference; history notes the settlement.
Settle(c, actual) ==
    LET a == AccountOf[c] IN
    /\ spent' = [spent EXCEPT ![a] = @ + Diff(c, actual)]
    /\ cost' = [cost EXCEPT ![c] = actual]
    /\ settledIn' = [settledIn EXCEPT ![c] = period[a]]
    /\ overrun' = [overrun EXCEPT ![a] = @ + Larger(actual - estimate[c], 0)]
    /\ UNCHANGED <<limitKey, reservations, fired, estimate, limitRead, pending,
                   clearing, period, heldIn, readIn, ceiling>>

\* The success hook reconciles with the reported cost, which is 0 when the
\* response carries none.  A zero difference costs no store call; the step
\* then only moves on.
Reconcile(c) ==
    /\ pc[c] = "held"
    /\ MayRun(c)
    /\ \E actual \in Costs : Settle(c, actual)
    /\ Goto(c, "unkey")

\* Seeded fault: release deletes the reservation and keeps the hold.
ReleaseKeyOnly(c) ==
    /\ pc[c] = "held"
    /\ MayRun(c)
    /\ Goto(c, "unkeyReleased")
    /\ UNCHANGED <<store, estimate, cost, limitRead, pending, clearing, history>>

\* The failure hook returns the whole hold.
Release(c) ==
    /\ pc[c] = "held"
    /\ MayRun(c)
    /\ Settle(c, 0)
    /\ Goto(c, "unkeyReleased")

\* Both end by deleting the reservation key; the success hook goes on to
\* check_thresholds.
Unkey(c) ==
    /\ MayRun(c)
    /\ \/ pc[c] = "unkey" /\ Goto(c, "limit")
       \/ pc[c] = "unkeyReleased" /\ Goto(c, "done")
    /\ reservations' = reservations \ {c}
    /\ UNCHANGED <<spent, limitKey, fired, estimate, cost, limitRead, pending,
                   clearing, history>>

-----------------------------------------------------------------------------
(* check_thresholds                                                        *)

\* The hook passes the agent id it has derived anew; it is taken to be the
\* reservation's here, and ProxyHooks tells the two apart.
ReadAlertLimit(c) ==
    /\ pc[c] = "limit"
    /\ MayRun(c)
    /\ limitRead' = [limitRead EXCEPT ![c] = Limit(AccountOf[c])]
    /\ Goto(c, "spent")
    /\ UNCHANGED <<store, estimate, cost, pending, clearing, history>>

\* Seeded fault: a threshold that is reached exactly does not count.
CrossedStrictly(c) ==
    {t \in Labelled : 100 * spent[AccountOf[c]] > t * limitRead[c]}

\* The thresholds the sorted loop visits: it breaks at the first one that is
\* not reached and skips those without a label.
Crossed(c) ==
    IF limitRead[c] <= 0 THEN {}
    ELSE {t \in Labelled : Crosses(spent[AccountOf[c]], limitRead[c], t)}

VisitNext(c, rest) ==
    /\ pending' = [pending EXCEPT ![c] = rest]
    /\ Goto(c, IF rest = {} THEN "done" ELSE "exists")

ReadSpent(c) ==
    /\ pc[c] = "spent"
    /\ MayRun(c)
    /\ VisitNext(c, Crossed(c))
    /\ readIn' = [readIn EXCEPT ![c] = period[AccountOf[c]]]
    /\ UNCHANGED <<store, estimate, cost, limitRead, clearing, period, heldIn,
                   settledIn, ceiling, overrun>>

IsLowest(t, S) == t \in S /\ \A u \in S : t <= u

\* EXISTS of the fired key of the lowest threshold left.
ReadFlag(c) ==
    /\ pc[c] = "exists"
    /\ MayRun(c)
    /\ \E t \in pending[c] :
        /\ IsLowest(t, pending[c])
        /\ IF AlreadyFired(AccountOf[c], t)
           THEN VisitNext(c, pending[c] \ {t})
           ELSE Goto(c, "mark") /\ UNCHANGED pending
    /\ UNCHANGED <<store, estimate, cost, limitRead, clearing, history>>

\* SET of that fired key.
MarkFired(c) ==
    /\ pc[c] = "mark"
    /\ MayRun(c)
    /\ \E t \in pending[c] :
        /\ IsLowest(t, pending[c])
        /\ fired' = [fired EXCEPT ![AccountOf[c]][t] = readIn[c]]
        /\ VisitNext(c, pending[c] \ {t})
    /\ UNCHANGED <<spent, limitKey, reservations, estimate, cost, limitRead,
                   clearing, history>>

-----------------------------------------------------------------------------
(* Operators: set_budget and reset_spend                                   *)

SetBudget(a, l) ==
    /\ MayOperate
    /\ limitKey' = [limitKey EXCEPT ![a] = l]
    /\ ceiling' = [ceiling EXCEPT ![a] = Larger(@, l)]
    /\ UNCHANGED <<spent, reservations, fired, tasks, period, heldIn,
                   settledIn, readIn, overrun>>

\* Seeded fault: the flag of the exhausted budget survives the reset.
FlagsBelowFull == {t \in Thresholds : t < 100}

\* The flags reset_spend deletes after it zeroed the spend.
FlagsToClear == Thresholds

ResetSpend(a) ==
    /\ MayOperate
    /\ clearing[a] = {}
    /\ period[a] < MaxResets
    /\ spent' = [spent EXCEPT ![a] = 0]
    /\ clearing' = [clearing EXCEPT ![a] = FlagsToClear]
    /\ period' = [period EXCEPT ![a] = @ + 1]
    /\ UNCHANGED <<limitKey, reservations, fired, pc, estimate, cost, limitRead,
                   pending, heldIn, settledIn, readIn, ceiling, overrun>>

\* One DELETE of the loop; the configured list may have any order.
ClearFlag(a, t) ==
    /\ t \in clearing[a]
    /\ AwaitsSuspend \/ \A c \in Calls : pc[c] \in Parked
    /\ fired' = [fired EXCEPT ![a][t] = Never]
    /\ clearing' = [clearing EXCEPT ![a] = @ \ {t}]
    /\ UNCHANGED <<spent, limitKey, reservations, pc, estimate, cost, limitRead,
                   pending, history>>

-----------------------------------------------------------------------------
(* The environment                                                         *)

\* SET ... EX: the reservation key expires.  Nothing else happens.
ExpireReservation(c) ==
    /\ c \in reservations
    /\ reservations' = reservations \ {c}
    /\ UNCHANGED <<spent, limitKey, fired, tasks, history>>

\* The task ends early: its process dies, it is cancelled, or a store call
\* raises and the hook returns.
Crash(c) ==
    /\ Faults
    /\ pc[c] \in InHook \cup {"held"}
    /\ Goto(c, "dead")
    /\ UNCHANGED <<store, estimate, cost, limitRead, pending, clearing, history>>

\* Seeded fault: reconcile is retried from the start.
ReconcileRetried(c) ==
    /\ Faults
    /\ pc[c] \in {"held", "unkey"}
    /\ MayRun(c)
    /\ Goto(c, "held")
    /\ UNCHANGED <<store, estimate, cost, limitRead, pending, clearing, history>>

\* A store call of reconcile raises: the success hook logs the exception and
\* goes on to check_thresholds.
ReconcileRaises(c) ==
    /\ Faults
    /\ pc[c] \in {"held", "unkey"}
    /\ MayRun(c)
    /\ Goto(c, "limit")
    /\ UNCHANGED <<store, estimate, cost, limitRead, pending, clearing, history>>

\* reset_spend ends before its last deletion: its process dies or a DELETE
\* raises.  The flags it did not come to stay.
ResetCutShort(a) ==
    /\ Faults
    /\ clearing[a] # {}
    /\ clearing' = [clearing EXCEPT ![a] = {}]
    /\ UNCHANGED <<store, pc, estimate, cost, limitRead, pending, history>>

-----------------------------------------------------------------------------
\* What the hooks of a call do, and what happens to a call.
Step(c) ==
    \/ ReadLimit(c)
    \/ Grant(c)
    \/ Reject(c)
    \/ Reconcile(c)
    \/ Release(c)
    \/ Unkey(c)
    \/ ReadAlertLimit(c)
    \/ ReadSpent(c)
    \/ ReadFlag(c)
    \/ MarkFired(c)

Next ==
    \/ \E c \in Calls :
        \/ Step(c)
        \/ ExpireReservation(c)
        \/ Crash(c)
        \/ ReconcileRaises(c)
    \/ \E a \in Accounts :
        \/ \E l \in Limits : SetBudget(a, l)
        \/ ResetSpend(a)
        \/ \E t \in Thresholds : ClearFlag(a, t)
        \/ ResetCutShort(a)

Spec == Init /\ [][Next]_vars

\* The event loop runs every ready task, and LiteLLM ends every call it has
\* started with one of the two logging hooks.  Nothing makes a call start.
Fairness == \A c \in Calls : WF_vars(pc[c] # "new" /\ Step(c))

FairSpec == Spec /\ Fairness

-----------------------------------------------------------------------------
(* Properties                                                              *)

\* Every variable has its type.
TypeOK ==
    /\ spent \in [Accounts -> Int]
    /\ limitKey \in [Accounts -> Limits \cup {Missing}]
    /\ reservations \subseteq Calls
    /\ fired \in [Accounts -> [Thresholds -> Nat \cup {Never}]]
    /\ pc \in [Calls -> Parked \cup InHook]
    /\ estimate \in [Calls -> Costs \cup {0}]
    /\ cost \in [Calls -> Costs \cup {0}]
    /\ limitRead \in [Calls -> Int]
    /\ pending \in [Calls -> SUBSET Thresholds]
    /\ clearing \in [Accounts -> SUBSET Thresholds]
    /\ period \in [Accounts -> Nat]
    /\ heldIn \in [Calls -> Nat \cup {Never}]
    /\ settledIn \in [Calls -> Nat \cup {Never}]
    /\ readIn \in [Calls -> Nat \cup {Never}]
    /\ ceiling \in [Accounts -> Nat]
    /\ overrun \in [Accounts -> Nat]

\* However reservations, settlements, limit changes, resets and crashes
\* interleave, the spend of an account exceeds the highest limit that was
\* ever in force by no more than actual costs exceeded their estimates:
\* concurrent reservations alone cannot overspend.
SpendCapped == \A a \in Accounts : spent[a] <= ceiling[a] + overrun[a]

ChargedTo(a) == {c \in Calls : AccountOf[c] = a}
HeldNow(a) == {c \in ChargedTo(a) : heldIn[c] = period[a]}
SettledNow(a) == {c \in ChargedTo(a) : settledIn[c] = period[a]}
SettledCost(a) == Total(cost, SettledNow(a))

\* Every unit of spend is a hold of the current period, or a settlement that
\* put the cost in the place of the hold, and each is counted exactly once: no
\* increment is lost, doubled or charged to another account.
SpendAccountedFor ==
    \A a \in Accounts :
        spent[a] = Total(estimate, HeldNow(a)) - Total(estimate, SettledNow(a))
                 + SettledCost(a)

\* The calls as the ledger of holds and settlements sees them.
Stage(c) == IF settledIn[c] # Never THEN "settled"
            ELSE IF heldIn[c] # Never THEN "held"
            ELSE "none"
LedgerStage == [c \in Calls |-> Stage(c)]
LedgerHold == [c \in Calls |-> IF heldIn[c] = Never THEN 0 ELSE estimate[c]]

Ledger == INSTANCE BudgetLedger WITH stage <- LedgerStage, hold <- LedgerHold

\* The "reservation pattern" of the module's docstring: with any interleaving
\* and any fault, a call holds its estimate once and only where it fits the
\* highest limit so far, and nothing settles a hold twice.
ImplementsLedger == Ledger!Spec

\* The module's docstring: reservations carry a TTL "so orphaned holds do not
\* permanently reduce available budget".  Once every call is over and every
\* reservation key is gone, the spend is what the calls really cost.
OrphansRecover ==
    (reservations = {} /\ \A c \in Calls : pc[c] \in Over \cup {"new"})
        => \A a \in Accounts : spent[a] = SettledCost(a)

\* Without faults and resets the holds drain: from some point on the spend
\* of every account is exactly the actual cost of its settled calls.
EventuallyExact == <>[](\A a \in Accounts : spent[a] = SettledCost(a))

\* When no hook is running and no call is in flight, every labelled threshold
\* that the spend has reached was fired, whichever of the interleaved
\* success hooks saw it.
ThresholdsCaughtUp ==
    (\A c \in Calls : pc[c] \in Over \cup {"new"}) =>
        \A a \in Accounts, t \in Labelled :
            Limit(a) > 0 /\ Crosses(spent[a], Limit(a), t) => fired[a][t] # Never

\* "Each threshold fires at most once per budget period": no check marks, and
\* so alerts for, a threshold whose fired key is in the store.
FiresAtMostOnce ==
    [][\A c \in Calls :
         pc[c] = "mark" /\ pending'[c] # pending[c]
            => \E t \in pending[c] \ pending'[c] : fired[AccountOf[c]][t] = Never]_vars

\* A reset "also clears all fired-threshold flags so they can re-fire in the
\* new period": after one that runs to its end, a flag in the store was set by
\* a check that read the spend of the current period.
FlagsOfThisPeriod ==
    \A a \in Accounts : clearing[a] = {} =>
        \A t \in Thresholds : fired[a][t] \in {Never, period[a]}

\* The reservation checks the budget and holds the cost atomically: at the
\* step that grants it, the spend fits the limit in force.
GrantsFitTheLimit ==
    [][\A c \in Calls :
         pc[c] = "eval" /\ pc'[c] = "held"
            => spent'[AccountOf[c]] <= Limit(AccountOf[c])]_vars

=============================================================================
