-------------------------- MODULE MCBudgetEnforcer --------------------------
(***************************************************************************)
(* Instances of BudgetEnforcer for TLC.                                    *)
(***************************************************************************)
EXTENDS BudgetEnforcer, TLC

CONSTANTS c1, c2, c3, a1

\* All calls share one account.
OneAccount == [c \in Calls |-> a1]

\* Calls are interchangeable.
CallSymmetry == Permutations(Calls)

=============================================================================
