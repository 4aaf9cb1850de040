----------------------------- MODULE MCProxyHooks -----------------------------
(***************************************************************************)
(* Instances of ProxyHooks for TLC.                                        *)
(***************************************************************************)
EXTENDS ProxyHooks

CONSTANTS r1, r2, r3, a1, k1

\* r1 and r2 name their agent; r3 is known by its key only.
NamedOrKeyed == [r \in Requests |-> IF r = r3 THEN None ELSE a1]
Keyed == [r \in Requests |-> k1]

=============================================================================
