----------------------------- MODULE UnitsProofs -----------------------------
(***************************************************************************)
(* What the proofs about money and calls need to know of totals.           *)
(***************************************************************************)
EXTENDS Units, FiniteSetTheorems, TLAPS

LEMMA ShareSize ==
  ASSUME NEW amount, NEW x, amount[x] \in Nat
  PROVE  /\ IsFiniteSet(Share(amount, x))
         /\ Cardinality(Share(amount, x)) = amount[x]
  <1>1. IsFiniteSet({x}) /\ Cardinality({x}) = 1
    BY FS_Singleton
  <1>2. IsFiniteSet(1..amount[x]) /\ Cardinality(1..amount[x]) = amount[x]
    BY FS_Interval
  <1>3. /\ IsFiniteSet({x} \X (1..amount[x]))
        /\ Cardinality({x} \X (1..amount[x])) = 1 * amount[x]
    BY <1>1, <1>2, FS_Product
  <1> QED BY <1>3 DEF Share

\* A finite set has a total, which is a natural number.
LEMMA TotalType ==
  ASSUME NEW S, IsFiniteSet(S), NEW amount, \A x \in S : amount[x] \in Nat
  PROVE  /\ IsFiniteSet(UNION {Share(amount, x) : x \in S})
         /\ Total(amount, S) \in Nat
  <1> DEFINE T == {Share(amount, x) : x \in S}
             f == [x \in S |-> Share(amount, x)]
  <1>1. f \in Surjection(S, T)
    BY DEF Surjection
  <1>2. IsFiniteSet(T)
    <2> HIDE DEF f, T
    <2> QED BY <1>1, FS_Surjection
  <1>3. \A s \in T : IsFiniteSet(s)
    BY ShareSize
  <1>4. IsFiniteSet(UNION T)
    BY <1>2, <1>3, FS_UNION
  <1> QED BY <1>4, FS_CardinalityType DEF Total

LEMMA TotalEmpty == \A amount : Total(amount, {}) = 0
  <1> TAKE amount
  <1>1. UNION {Share(amount, x) : x \in {}} = {}
    OBVIOUS
  <1> QED BY <1>1, FS_EmptySet DEF Total

\* A new member adds its amount.
LEMMA TotalAdd ==
  ASSUME NEW S, IsFiniteSet(S), NEW amount, \A y \in S : amount[y] \in Nat,
         NEW x, x \notin S, amount[x] \in Nat
  PROVE  Total(amount, S \cup {x}) = Total(amount, S) + amount[x]
  <1> DEFINE U == UNION {Share(amount, y) : y \in S}
             V == UNION {Share(amount, y) : y \in S \cup {x}}
  <1>1. V = U \cup Share(amount, x)
    OBVIOUS
  <1>2. U \cap Share(amount, x) = {}
    BY DEF Share
  <1>3. IsFiniteSet(U) /\ Total(amount, S) \in Nat
    BY TotalType
  <1>4. Cardinality(U \cup Share(amount, x)) = Cardinality(U) + amount[x] - Cardinality({})
    BY <1>2, <1>3, ShareSize, FS_Union
  <1>5. Cardinality(U) = Total(amount, S) /\ Cardinality(V) = Total(amount, S \cup {x})
    BY DEF Total
  <1> HIDE DEF U, V
  <1> QED BY <1>1, <1>3, <1>4, <1>5, FS_EmptySet

LEMMA TotalRemove ==
  ASSUME NEW S, IsFiniteSet(S), NEW amount, \A y \in S : amount[y] \in Nat,
         NEW x \in S
  PROVE  Total(amount, S \ {x}) = Total(amount, S) - amount[x]
  <1>1. (S \ {x}) \cup {x} = S
    OBVIOUS
  <1>2. IsFiniteSet(S \ {x})
    BY FS_RemoveElement
  <1>3. Total(amount, S) = Total(amount, S \ {x}) + amount[x]
    BY <1>1, <1>2, TotalAdd
  <1>4. Total(amount, S \ {x}) \in Nat
    BY <1>2, TotalType
  <1> QED BY <1>3, <1>4

\* Only the amounts of the members count.
LEMMA TotalSame ==
  ASSUME NEW S, NEW f, NEW g, \A x \in S : f[x] = g[x]
  PROVE  Total(f, S) = Total(g, S)
  <1>1. {Share(f, x) : x \in S} = {Share(g, x) : x \in S}
    BY DEF Share
  <1> QED BY <1>1 DEF Total

\* Fewer members have a smaller total.
LEMMA TotalSubset ==
  ASSUME NEW S, IsFiniteSet(S), NEW amount, \A x \in S : amount[x] \in Nat,
         NEW T \in SUBSET S
  PROVE  Total(amount, T) <= Total(amount, S)
  <1> DEFINE U == UNION {Share(amount, x) : x \in T}
             V == UNION {Share(amount, x) : x \in S}
  <1>1. U \subseteq V
    OBVIOUS
  <1>2. IsFiniteSet(V)
    BY TotalType
  <1>3. Cardinality(U) <= Cardinality(V)
    BY <1>1, <1>2, FS_Subset
  <1> QED BY <1>3 DEF Total

\* A total is at least each of its amounts.
LEMMA TotalCovers ==
  ASSUME NEW S, IsFiniteSet(S), NEW amount, \A y \in S : amount[y] \in Nat,
         NEW x \in S
  PROVE  Total(amount, S) \in Nat /\ amount[x] <= Total(amount, S)
  <1>1. Total(amount, S \ {x}) = Total(amount, S) - amount[x]
    BY TotalRemove
  <1>2. IsFiniteSet(S \ {x})
    BY FS_RemoveElement
  <1>3. Total(amount, S \ {x}) \in Nat /\ Total(amount, S) \in Nat
    BY <1>2, TotalType
  <1> QED BY <1>1, <1>3

=============================================================================
