-------------------------------- MODULE Units --------------------------------
(***************************************************************************)
(* Totals of natural amounts over a finite set, as the engines add up      *)
(* money and calls: the number of units when every x of S brings amount[x] *)
(* of them.  A total is a cardinality rather than a recursive sum, so that *)
(* it can be reasoned about for every S.                                   *)
(***************************************************************************)
EXTENDS Integers, FiniteSets

Share(amount, x) == {x} \X (1..amount[x])

Total(amount, S) == Cardinality(UNION {Share(amount, x) : x \in S})

=============================================================================
