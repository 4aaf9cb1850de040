----------------------------- MODULE BudgetLedger -----------------------------
(***************************************************************************)
(* What the budget enforcer promises: the reserve, reconcile and release   *)
(* pattern of the docstring of src/budgetctl/engine/budget_enforcer.py.    *)
(* A call holds an estimate once, if it fits, and settles it once at most. *)
(* It says nothing of store calls, keys, hooks or alerts.                  *)
(***************************************************************************)
EXTENDS Integers

CONSTANTS
    Calls,
    Accounts,
    AccountOf,  \* the account each call is charged to
    Costs       \* possible estimates and actual costs

VARIABLES
    spent,      \* settled costs and open holds of each account
    stage,      \* "none", "held" or "settled", for each call
    hold,       \* the amount the call held
    ceiling     \* the highest limit of each account so far

Init ==
    /\ spent = [a \in Accounts |-> 0]
    /\ stage = [c \in Calls |-> "none"]
    /\ hold = [c \in Calls |-> 0]

\* Reserve an estimate that fits.
Hold(c, e) ==
    /\ stage[c] = "none"
    /\ spent[AccountOf[c]] + e <= ceiling[AccountOf[c]]
    /\ spent' = [spent EXCEPT ![AccountOf[c]] = @ + e]
    /\ stage' = [stage EXCEPT ![c] = "held"]
    /\ hold' = [hold EXCEPT ![c] = e]
    /\ UNCHANGED ceiling

\* The hold gives way to the actual cost, which is 0 for a release.
Settle(c, actual) ==
    /\ stage[c] = "held"
    /\ spent' = [spent EXCEPT ![AccountOf[c]] = @ + actual - hold[c]]
    /\ stage' = [stage EXCEPT ![c] = "settled"]
    /\ UNCHANGED <<hold, ceiling>>

\* A new budget period.
Reset(a) ==
    /\ spent' = [spent EXCEPT ![a] = 0]
    /\ UNCHANGED <<stage, hold, ceiling>>

\* An operator sets a limit; the ceiling remembers the highest.
RaiseCeiling(a) ==
    /\ ceiling'[a] >= ceiling[a]
    /\ ceiling' = [ceiling EXCEPT ![a] = ceiling'[a]]
    /\ UNCHANGED <<spent, stage, hold>>

Next ==
    \/ \E c \in Calls : \E x \in Costs \cup {0} : Hold(c, x) \/ Settle(c, x)
    \/ \E a \in Accounts : Reset(a) \/ RaiseCeiling(a)

Spec == Init /\ [][Next]_<<spent, stage, hold, ceiling>>

=============================================================================
