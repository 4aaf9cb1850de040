-------------------------- MODULE MCCircuitBreaker --------------------------
(***************************************************************************)
(* Instances of CircuitBreaker for TLC.                                    *)
(***************************************************************************)
EXTENDS CircuitBreaker, TLC

CONSTANTS c1, c2, c3, op, a1, key, unknown, p1, p2

\* Everyone names one agent, before and after the LLM call.
OneAgent == [t \in Tasks |-> a1]
OneName == [c \in Calls |-> a1]

\* The requests of c1 are known by their key, the others have no identity.  The
\* operator looks after the breaker that the outcomes of all of them count for.
Keyed == [t \in Tasks |-> IF t = c1 THEN key ELSE unknown]
Unknown == [c \in Calls |-> unknown]

\* One proxy serves everything.
OneProcess == [t \in Tasks |-> p1]

\* The calls run in a proxy of their own each, the operator in the first.
OwnProcesses == [t \in Tasks |-> IF t = c2 THEN p2 ELSE p1]

CallSymmetry == Permutations(Calls)
Bystanders == Permutations(Calls \ {c1})

=============================================================================
