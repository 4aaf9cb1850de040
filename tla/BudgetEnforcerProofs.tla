------------------------ MODULE BudgetEnforcerProofs ------------------------
(***************************************************************************)
(* Theorems about BudgetEnforcer, for any number of calls and accounts,    *)
(* any costs, limits, thresholds and number of resets, either store, with  *)
(* and without faults.                                                     *)
(***************************************************************************)
EXTENDS BudgetEnforcer, UnitsProofs, TLAPS

\* What SpendCapped needs to be inductive: every limit in force, and every
\* limit a reserve has read but not used yet, is at most the ceiling.
LimitsUnderCeiling ==
    /\ \A a \in Accounts : Limit(a) <= ceiling[a]
    /\ \A a \in Accounts : DefaultBudget <= ceiling[a]
    /\ \A c \in Calls : pc[c] = "eval" => limitRead[c] <= ceiling[AccountOf[c]]

USE DEF Never

LEMMA LargerIsUpperBound ==
    ASSUME NEW x \in Int, NEW y \in Int
    PROVE  Larger(x, y) \in Int /\ Larger(x, y) >= x /\ Larger(x, y) >= y
    BY DEF Larger

LEMMA CallTyped ==
    ASSUME TypeOK, NEW c \in Calls
    PROVE  AccountOf[c] \in Accounts /\ estimate[c] \in Nat
<1>1. AccountOf[c] \in Accounts
    BY BudgetAssumption
<1>2. estimate[c] \in Costs \cup {0} /\ Costs \subseteq Nat
    BY BudgetAssumption, Zenon DEF TypeOK
<1>3. 0 \in Nat
    OBVIOUS
<1>4. estimate[c] \in Nat
    BY <1>2, <1>3, Zenon
<1> QED BY <1>1, <1>4

LEMMA InitTyped == Init => TypeOK
    BY BudgetAssumption DEF Init, TypeOK, Larger, Parked, InHook

\* Every step keeps the types.
LEMMA StepTyped ==
    ASSUME TypeOK, [Next]_vars
    PROVE  TypeOK'
<1> USE BudgetAssumption DEF TypeOK, Parked, InHook, Over, store, tasks, history, Goto
<1>1. ASSUME NEW c \in Calls, Step(c) PROVE TypeOK'
    <2>0. AccountOf[c] \in Accounts /\ estimate[c] \in Nat
        BY CallTyped
    <2>1. CASE ReadLimit(c)
        <3>1. Limit(AccountOf[c]) \in Int
            BY <2>0 DEF Limit
        <3>2. estimate' \in [Calls -> Costs \cup {0}]
            BY <2>1 DEF ReadLimit
        <3>3. limitRead' \in [Calls -> Int] /\ pc' \in [Calls -> Parked \cup InHook]
            BY <2>1, <3>1 DEF ReadLimit
        <3> QED BY <2>1, <3>2, <3>3 DEF ReadLimit
    <2>2. CASE Grant(c)
        <3>1. spent[AccountOf[c]] + estimate[c] \in Int
            BY <2>0
        <3>2. spent' \in [Accounts -> Int]
            BY <2>2, <2>0, <3>1 DEF Grant
        <3>3. heldIn' \in [Calls -> Nat \cup {Never}]
            BY <2>2, <2>0 DEF Grant
        <3> QED BY <2>2, <3>2, <3>3 DEF Grant
    <2>3. CASE Reject(c) BY <2>3 DEF Reject
    <2>11. ASSUME NEW actual \in Costs \cup {0}, Settle(c, actual),
                 pc' \in [Calls -> Parked \cup InHook]
          PROVE  TypeOK'
        <3>1. spent' \in [Accounts -> Int]
            BY <2>11, <2>0 DEF Settle, Diff
        <3>2. overrun' \in [Accounts -> Nat]
            BY <2>11, <2>0 DEF Settle, Larger
        <3>3. settledIn' \in [Calls -> Nat \cup {Never}]
            BY <2>11, <2>0 DEF Settle
        <3>4. cost' \in [Calls -> Costs \cup {0}]
            BY <2>11 DEF Settle
        <3> QED BY <2>11, <3>1, <3>2, <3>3, <3>4 DEF Settle
    <2>4. CASE Reconcile(c)
        BY <2>4, <2>11 DEF Reconcile
    <2>5. CASE Release(c)
        BY <2>5, <2>11 DEF Release
    <2>6. CASE Unkey(c) BY <2>6 DEF Unkey
    <2>7. CASE ReadAlertLimit(c) BY <2>7 DEF ReadAlertLimit, Limit
    <2>8. CASE ReadSpent(c)
        <3>1. Crossed(c) \subseteq Thresholds
            BY DEF Crossed
        <3>2. readIn' \in [Calls -> Nat \cup {Never}]
            BY <2>8, <2>0 DEF ReadSpent
        <3>3. pending' \in [Calls -> SUBSET Thresholds]
            BY <2>8, <3>1 DEF ReadSpent, VisitNext
        <3>4. pc' \in [Calls -> Parked \cup InHook]
            BY <2>8 DEF ReadSpent, VisitNext
        <3> QED BY <2>8, <3>2, <3>3, <3>4 DEF ReadSpent
    <2>9. CASE ReadFlag(c)
        <3>1. PICK t \in pending[c] :
                IF AlreadyFired(AccountOf[c], t)
                THEN VisitNext(c, pending[c] \ {t})
                ELSE Goto(c, "mark") /\ UNCHANGED pending
            BY <2>9 DEF ReadFlag
        <3>2. pending' \in [Calls -> SUBSET Thresholds]
            <4>1. pending[c] \ {t} \in SUBSET Thresholds
                OBVIOUS
            <4> QED BY <3>1, <4>1 DEF VisitNext
        <3>3. pc' \in [Calls -> Parked \cup InHook]
            BY <3>1 DEF VisitNext
        <3> QED BY <2>9, <3>2, <3>3 DEF ReadFlag
    <2>10. CASE MarkFired(c)
        <3>1. pending' \in [Calls -> SUBSET Thresholds]
            BY <2>10 DEF MarkFired, VisitNext
        <3>2. fired' \in [Accounts -> [Thresholds -> Nat \cup {Never}]]
            BY <2>10, <2>0 DEF MarkFired
        <3> QED BY <2>10, <3>1, <3>2 DEF MarkFired, VisitNext
    <2> QED BY <1>1, <2>1, <2>2, <2>3, <2>4, <2>5, <2>6, <2>7, <2>8, <2>9, <2>10 DEF Step
<1>2. ASSUME NEW c \in Calls, ExpireReservation(c) PROVE TypeOK'
    BY <1>2 DEF ExpireReservation
<1>3. ASSUME NEW c \in Calls, Crash(c) PROVE TypeOK'
    BY <1>3 DEF Crash
<1>4. ASSUME NEW c \in Calls, ReconcileRaises(c) PROVE TypeOK'
    BY <1>4 DEF ReconcileRaises
<1>5. ASSUME NEW a \in Accounts, NEW l \in Limits, SetBudget(a, l) PROVE TypeOK'
    BY <1>5 DEF SetBudget, Larger
<1>6. ASSUME NEW a \in Accounts, ResetSpend(a) PROVE TypeOK'
    BY <1>6 DEF ResetSpend, FlagsToClear
<1>7. ASSUME NEW a \in Accounts, NEW t \in Thresholds, ClearFlag(a, t) PROVE TypeOK'
    BY <1>7 DEF ClearFlag
<1>8. ASSUME NEW a \in Accounts, ResetCutShort(a) PROVE TypeOK'
    BY <1>8 DEF ResetCutShort
<1>9. CASE UNCHANGED vars
    BY <1>9 DEF vars
<1> QED BY <1>1, <1>2, <1>3, <1>4, <1>5, <1>6, <1>7, <1>8, <1>9 DEF Next

\* Every reachable state is well typed.
THEOREM TypeCorrect == Spec => []TypeOK
<1>1. Init => TypeOK
    BY InitTyped
<1>2. TypeOK /\ [Next]_vars => TypeOK'
    BY StepTyped
<1> QED BY <1>1, <1>2, PTL DEF Spec

-----------------------------------------------------------------------------
\* The strengthening without the types, so that a step names what it shows.
Capped == LimitsUnderCeiling /\ SpendCapped

\* A step that leaves the money alone and lets no call newly reach the Lua
\* script preserves it.
LEMMA QuietStep ==
    ASSUME Capped, UNCHANGED <<spent, limitKey, ceiling, overrun>>,
           \A d \in Calls : pc'[d] = "eval" =>
               pc[d] = "eval" /\ limitRead'[d] = limitRead[d]
    PROVE  Capped'
    BY DEF Capped, LimitsUnderCeiling, SpendCapped, Limit

\* A settlement moves the spend by at most what it adds to overrun.
LEMMA SettleCapped ==
    ASSUME TypeOK, Capped, NEW c \in Calls, NEW actual \in Costs \cup {0},
           Settle(c, actual),
           \A d \in Calls : pc'[d] = "eval" => pc[d] = "eval"
    PROVE  Capped'
<1>1. AccountOf[c] \in Accounts /\ estimate[c] \in Int
    BY CallTyped
<1>2. actual \in Int
    <2>1. 0 \in Nat /\ Costs \subseteq Nat
        BY BudgetAssumption, Zenon
    <2>2. actual \in Nat
        BY <2>1, Zenon
    <2> QED BY <2>2
<1>3. Larger(actual - estimate[c], 0) \in Int
      /\ Larger(actual - estimate[c], 0) >= actual - estimate[c]
      /\ Larger(actual - estimate[c], 0) >= 0
    BY <1>1, <1>2 DEF Larger
<1>4. ASSUME NEW a \in Accounts PROVE spent'[a] <= ceiling'[a] + overrun'[a]
    BY <1>1, <1>2, <1>3 DEF Settle, Diff, Capped, SpendCapped, TypeOK
<1>5. LimitsUnderCeiling'
    BY DEF Settle, Capped, LimitsUnderCeiling, Limit
<1> QED BY <1>4, <1>5 DEF Capped, SpendCapped

\* A new limit raises the ceiling to at least itself.
LEMMA SetBudgetCapped ==
    ASSUME TypeOK, Capped, NEW a \in Accounts, NEW l \in Limits, SetBudget(a, l)
    PROVE  Capped'
<1>1. l \in Int
    BY BudgetAssumption
<1>2. ceiling'[a] \in Int /\ ceiling'[a] >= ceiling[a] /\ ceiling'[a] >= l
    BY <1>1 DEF SetBudget, TypeOK, Larger
<1>3. UNCHANGED <<spent, overrun, pc, limitRead>>
    BY DEF SetBudget, tasks
<1>4. ASSUME NEW b \in Accounts
      PROVE  ceiling'[b] \in Int /\ ceiling[b] \in Int /\ ceiling'[b] >= ceiling[b]
    BY <1>2 DEF SetBudget, TypeOK
<1>5. ASSUME NEW b \in Accounts PROVE Limit(b)' <= ceiling'[b]
    <2>1. CASE b = a
        BY <1>1, <1>2, <2>1, BudgetAssumption DEF SetBudget, Limit, TypeOK
    <2>2. CASE b # a
        BY <2>2 DEF SetBudget, Limit, TypeOK, Capped, LimitsUnderCeiling
    <2> QED BY <2>1, <2>2
<1>6. ASSUME NEW b \in Accounts
      PROVE  DefaultBudget <= ceiling'[b] /\ spent'[b] <= ceiling'[b] + overrun'[b]
    <2>1. DefaultBudget <= ceiling[b] /\ spent[b] <= ceiling[b] + overrun[b]
        BY DEF Capped, LimitsUnderCeiling, SpendCapped
    <2>2. DefaultBudget \in Int /\ spent[b] \in Int /\ overrun[b] \in Int
        BY BudgetAssumption DEF TypeOK
    <2> QED BY <1>3, <1>4, <2>1, <2>2
<1>7. ASSUME NEW c \in Calls, pc'[c] = "eval"
      PROVE  limitRead'[c] <= ceiling'[AccountOf[c]]
    <2>1. limitRead[c] <= ceiling[AccountOf[c]]
        BY <1>3, <1>7 DEF Capped, LimitsUnderCeiling
    <2>2. limitRead[c] \in Int /\ AccountOf[c] \in Accounts
        BY CallTyped DEF TypeOK
    <2> QED BY <1>3, <1>4, <2>1, <2>2
<1> QED BY <1>5, <1>6, <1>7 DEF Capped, LimitsUnderCeiling, SpendCapped

\* The step of a call.
LEMMA CallStepCapped ==
    ASSUME TypeOK, Capped, NEW c \in Calls, Step(c)
    PROVE  Capped'
<1>0. AccountOf[c] \in Accounts /\ estimate[c] \in Nat
    BY CallTyped
<1>1. CASE ReadLimit(c)
    BY <1>0, <1>1 DEF ReadLimit, Goto, store, history, TypeOK, Capped,
                      LimitsUnderCeiling, SpendCapped, Limit
<1>2. CASE Grant(c)
    <2>1. limitRead[c] <= ceiling[AccountOf[c]]
        BY <1>2 DEF Grant, Capped, LimitsUnderCeiling
    <2>2. spent[AccountOf[c]] + estimate[c] <= limitRead[c]
        BY <1>2 DEF Grant, Fits
    <2>3. ASSUME NEW a \in Accounts PROVE spent'[a] <= ceiling'[a] + overrun'[a]
        BY <1>0, <1>2, <2>1, <2>2 DEF Grant, Capped, SpendCapped, TypeOK
    <2>4. LimitsUnderCeiling'
        BY <1>2 DEF Grant, Goto, Capped, LimitsUnderCeiling, Limit, TypeOK
    <2> QED BY <2>3, <2>4 DEF Capped, SpendCapped
<1>3. CASE Reject(c)
    BY <1>3, QuietStep DEF Reject, Goto, store, history, TypeOK
<1>4. CASE Reconcile(c)
    BY <1>4, SettleCapped DEF Reconcile, Goto, TypeOK
<1>5. CASE Release(c)
    BY <1>5, SettleCapped DEF Release, Goto, TypeOK
<1>6. CASE Unkey(c)
    BY <1>6, QuietStep DEF Unkey, Goto, history, TypeOK
<1>7. CASE ReadAlertLimit(c)
    BY <1>7, QuietStep DEF ReadAlertLimit, Goto, store, history, TypeOK
<1>8. CASE ReadSpent(c)
    BY <1>8, QuietStep DEF ReadSpent, VisitNext, Goto, store, TypeOK
<1>9. CASE ReadFlag(c)
    BY <1>9, QuietStep DEF ReadFlag, VisitNext, Goto, store, history, TypeOK
<1>10. CASE MarkFired(c)
    BY <1>10, QuietStep DEF MarkFired, VisitNext, Goto, history, TypeOK
<1> QED BY <1>1, <1>2, <1>3, <1>4, <1>5, <1>6, <1>7, <1>8, <1>9, <1>10 DEF Step

\* Capped is inductive, given the types.
LEMMA SpendStaysCapped == Spec => []Capped
<1>1. Init => Capped
    BY BudgetAssumption, LargerIsUpperBound
    DEF Init, Capped, LimitsUnderCeiling, SpendCapped, Limit
<1>2. TypeOK /\ Capped /\ [Next]_vars => Capped'
    <2> SUFFICES ASSUME TypeOK, Capped, [Next]_vars PROVE Capped'
        OBVIOUS
    <2>1. ASSUME NEW c \in Calls, Step(c) PROVE Capped'
        BY <2>1, CallStepCapped
    <2>2. ASSUME NEW c \in Calls, ExpireReservation(c) PROVE Capped'
        BY <2>2, QuietStep DEF ExpireReservation, tasks, history
    <2>3. ASSUME NEW c \in Calls, Crash(c) PROVE Capped'
        BY <2>3, QuietStep DEF Crash, Goto, store, history, TypeOK
    <2>4. ASSUME NEW c \in Calls, ReconcileRaises(c) PROVE Capped'
        BY <2>4, QuietStep DEF ReconcileRaises, Goto, store, history, TypeOK
    <2>5. ASSUME NEW a \in Accounts, NEW l \in Limits, SetBudget(a, l) PROVE Capped'
        BY <2>5, SetBudgetCapped
    <2>6. ASSUME NEW a \in Accounts, ResetSpend(a) PROVE Capped'
        BY <2>6 DEF ResetSpend, TypeOK, Capped, LimitsUnderCeiling, SpendCapped, Limit
    <2>7. ASSUME NEW a \in Accounts, NEW t \in Thresholds, ClearFlag(a, t) PROVE Capped'
        BY <2>7, QuietStep DEF ClearFlag, history
    <2>8. ASSUME NEW a \in Accounts, ResetCutShort(a) PROVE Capped'
        BY <2>8, QuietStep DEF ResetCutShort, store, history
    <2>9. CASE UNCHANGED vars
        BY <2>9, QuietStep DEF vars, store, tasks, history
    <2> QED BY <2>1, <2>2, <2>3, <2>4, <2>5, <2>6, <2>7, <2>8, <2>9 DEF Next
<1> QED BY <1>1, <1>2, TypeCorrect, PTL DEF Spec

\* Every reachable spend is capped by the highest limit that was ever in force
\* plus the costs beyond their estimates: reserve's check and hold are one
\* script, so no interleaving of hooks, operators and faults gets past it.
THEOREM SpendIsCapped == Spec => []SpendCapped
<1>1. Capped => SpendCapped
    BY DEF Capped
<1> QED BY <1>1, SpendStaysCapped, PTL

-----------------------------------------------------------------------------
\* How far a call has come in the ledger, by its program counter.
StageKnown ==
    \A c \in Calls :
        /\ pc[c] \in {"new", "eval", "rejected"} => heldIn[c] = Never
        /\ pc[c] = "held" => heldIn[c] # Never
        /\ pc[c] \in {"new", "eval", "rejected", "held"} => settledIn[c] = Never

LEMMA StepStageKnown ==
    ASSUME TypeOK, StageKnown, [Next]_vars
    PROVE  StageKnown'
<1> USE DEF TypeOK, StageKnown, Goto, store, tasks, history
<1>1. ASSUME NEW c \in Calls, Step(c) PROVE StageKnown'
    <2>0. period[AccountOf[c]] # Never
        BY CallTyped
    <2>1. CASE ReadLimit(c) BY <2>1 DEF ReadLimit
    <2>2. CASE Grant(c) BY <2>0, <2>2 DEF Grant
    <2>3. CASE Reject(c) BY <2>3 DEF Reject
    <2>4. CASE Reconcile(c)
        <3>1. PICK actual \in Costs : Settle(c, actual)
            BY <2>4 DEF Reconcile
        <3> QED BY <2>4, <3>1 DEF Reconcile, Settle
    <2>5. CASE Release(c) BY <2>5 DEF Release, Settle
    <2>6. CASE Unkey(c) BY <2>6 DEF Unkey
    <2>7. CASE ReadAlertLimit(c) BY <2>7 DEF ReadAlertLimit
    <2>8. CASE ReadSpent(c) BY <2>8 DEF ReadSpent, VisitNext
    <2>9. CASE ReadFlag(c) BY <2>9 DEF ReadFlag, VisitNext
    <2>10. CASE MarkFired(c) BY <2>10 DEF MarkFired, VisitNext
    <2> QED BY <1>1, <2>1, <2>2, <2>3, <2>4, <2>5, <2>6, <2>7, <2>8, <2>9, <2>10 DEF Step
<1>2. ASSUME NEW c \in Calls, ExpireReservation(c) PROVE StageKnown'
    BY <1>2 DEF ExpireReservation
<1>3. ASSUME NEW c \in Calls, Crash(c) PROVE StageKnown'
    BY <1>3 DEF Crash
<1>4. ASSUME NEW c \in Calls, ReconcileRaises(c) PROVE StageKnown'
    BY <1>4 DEF ReconcileRaises
<1>5. ASSUME NEW a \in Accounts, NEW l \in Limits, SetBudget(a, l) PROVE StageKnown'
    BY <1>5 DEF SetBudget
<1>6. ASSUME NEW a \in Accounts, ResetSpend(a) PROVE StageKnown'
    BY <1>6 DEF ResetSpend
<1>7. ASSUME NEW a \in Accounts, NEW t \in Thresholds, ClearFlag(a, t) PROVE StageKnown'
    BY <1>7 DEF ClearFlag
<1>8. ASSUME NEW a \in Accounts, ResetCutShort(a) PROVE StageKnown'
    BY <1>8 DEF ResetCutShort
<1>9. CASE UNCHANGED vars
    BY <1>9 DEF vars
<1> QED BY <1>1, <1>2, <1>3, <1>4, <1>5, <1>6, <1>7, <1>8, <1>9 DEF Next

ledgerVars == <<spent, LedgerStage, LedgerHold, ceiling>>

\* A step that touches neither the money nor the stamps is a stutter of the
\* ledger; an estimate may change before its hold.
LEMMA LedgerStutters ==
    ASSUME UNCHANGED <<spent, heldIn, settledIn, ceiling>>,
           \A c \in Calls : heldIn[c] # Never => estimate'[c] = estimate[c]
    PROVE  UNCHANGED ledgerVars
<1>1. LedgerStage' = LedgerStage
    BY DEF LedgerStage, Stage
<1>2. LedgerHold' = LedgerHold
    BY DEF LedgerHold
<1> QED BY <1>1, <1>2 DEF ledgerVars

LEMMA GrantHolds ==
    ASSUME TypeOK, Capped, StageKnown, NEW c \in Calls, Grant(c)
    PROVE  Ledger!Hold(c, estimate[c])
<1> USE DEF Grant, TypeOK
<1>0. AccountOf[c] \in Accounts /\ estimate[c] \in Nat /\ period[AccountOf[c]] # Never
    BY CallTyped
<1>1. LedgerStage[c] = "none"
    BY DEF StageKnown, LedgerStage, Stage
<1>2. spent[AccountOf[c]] + estimate[c] <= ceiling[AccountOf[c]]
    <2>1. limitRead[c] <= ceiling[AccountOf[c]]
        BY DEF Capped, LimitsUnderCeiling
    <2>2. spent[AccountOf[c]] + estimate[c] <= limitRead[c]
        BY DEF Fits
    <2> QED BY <1>0, <2>1, <2>2
<1>3. LedgerStage' = [LedgerStage EXCEPT ![c] = "held"]
    <2>1. heldIn' = [heldIn EXCEPT ![c] = period[AccountOf[c]]] /\ settledIn' = settledIn
        OBVIOUS
    <2>2. settledIn[c] = Never
        BY DEF StageKnown
    <2> QED BY <1>0, <2>1, <2>2 DEF LedgerStage, Stage
<1>4. LedgerHold' = [LedgerHold EXCEPT ![c] = estimate[c]]
    BY <1>0 DEF LedgerHold
<1> QED BY <1>1, <1>2, <1>3, <1>4 DEF Ledger!Hold

LEMMA SettleSettles ==
    ASSUME TypeOK, StageKnown, NEW c \in Calls, pc[c] = "held",
           NEW actual \in Costs \cup {0}, Settle(c, actual)
    PROVE  Ledger!Settle(c, actual)
<1> USE DEF Settle, TypeOK
<1>0. /\ AccountOf[c] \in Accounts /\ estimate[c] \in Nat
      /\ period[AccountOf[c]] # Never /\ actual \in Int
    BY CallTyped, BudgetAssumption
<1>1. LedgerStage[c] = "held"
    BY DEF StageKnown, LedgerStage, Stage
<1>2. LedgerHold[c] = estimate[c]
    BY DEF StageKnown, LedgerHold
<1>3. spent' = [spent EXCEPT ![AccountOf[c]] = @ + actual - LedgerHold[c]]
    BY <1>0, <1>2 DEF Diff
<1>4. LedgerStage' = [LedgerStage EXCEPT ![c] = "settled"]
    BY <1>0 DEF LedgerStage, Stage
<1>5. LedgerHold' = LedgerHold
    BY DEF LedgerHold
<1> QED BY <1>1, <1>3, <1>4, <1>5 DEF Ledger!Settle

LEMMA StepIsLedgerStep ==
    ASSUME TypeOK, Capped, StageKnown, [Next]_vars
    PROVE  [Ledger!Next]_ledgerVars
<1> USE DEF Goto, store, tasks, history
<1>1. ASSUME NEW c \in Calls, Step(c) PROVE [Ledger!Next]_ledgerVars
    <2>1. CASE ReadLimit(c)
        BY <2>1, LedgerStutters DEF ReadLimit, StageKnown, TypeOK
    <2>2. CASE Grant(c)
        <3>1. estimate[c] \in Costs \cup {0}
            BY DEF TypeOK
        <3> QED BY <2>2, <3>1, GrantHolds DEF Ledger!Next
    <2>3. CASE Reject(c) BY <2>3, LedgerStutters DEF Reject
    <2>4. CASE Reconcile(c)
        <3>1. PICK actual \in Costs : Settle(c, actual)
            BY <2>4 DEF Reconcile
        <3>2. pc[c] = "held"
            BY <2>4 DEF Reconcile
        <3> QED BY <3>1, <3>2, SettleSettles DEF Ledger!Next
    <2>5. CASE Release(c)
        <3>1. pc[c] = "held" /\ Settle(c, 0)
            BY <2>5 DEF Release
        <3> QED BY <3>1, SettleSettles DEF Ledger!Next
    <2>6. CASE Unkey(c) BY <2>6, LedgerStutters DEF Unkey
    <2>7. CASE ReadAlertLimit(c) BY <2>7, LedgerStutters DEF ReadAlertLimit
    <2>8. CASE ReadSpent(c) BY <2>8, LedgerStutters DEF ReadSpent
    <2>9. CASE ReadFlag(c) BY <2>9, LedgerStutters DEF ReadFlag
    <2>10. CASE MarkFired(c) BY <2>10, LedgerStutters DEF MarkFired
    <2> QED BY <1>1, <2>1, <2>2, <2>3, <2>4, <2>5, <2>6, <2>7, <2>8, <2>9, <2>10 DEF Step
<1>2. ASSUME NEW c \in Calls, ExpireReservation(c) \/ Crash(c) \/ ReconcileRaises(c)
      PROVE  [Ledger!Next]_ledgerVars
    BY <1>2, LedgerStutters DEF ExpireReservation, Crash, ReconcileRaises
<1>3. ASSUME NEW a \in Accounts, NEW l \in Limits, SetBudget(a, l)
      PROVE  [Ledger!Next]_ledgerVars
    <2>1. /\ ceiling' = [ceiling EXCEPT ![a] = Larger(@, l)]
          /\ UNCHANGED <<spent, heldIn, settledIn, estimate>>
        BY <1>3 DEF SetBudget
    <2>2. ceiling'[a] = Larger(ceiling[a], l) /\ ceiling'[a] >= ceiling[a]
        BY <2>1, LargerIsUpperBound, BudgetAssumption DEF TypeOK
    <2>3. ceiling' = [ceiling EXCEPT ![a] = ceiling'[a]]
        BY <2>1, <2>2
    <2>4. UNCHANGED <<LedgerStage, LedgerHold>>
        BY <2>1 DEF LedgerStage, Stage, LedgerHold
    <2> QED BY <2>1, <2>2, <2>3, <2>4 DEF Ledger!Next, Ledger!RaiseCeiling
<1>4. ASSUME NEW a \in Accounts, ResetSpend(a) PROVE [Ledger!Next]_ledgerVars
    <2>1. /\ spent' = [spent EXCEPT ![a] = 0]
          /\ UNCHANGED <<heldIn, settledIn, estimate, ceiling>>
        BY <1>4 DEF ResetSpend
    <2>2. UNCHANGED <<LedgerStage, LedgerHold>>
        BY <2>1 DEF LedgerStage, Stage, LedgerHold
    <2> QED BY <2>1, <2>2 DEF Ledger!Next, Ledger!Reset
<1>5. ASSUME NEW a \in Accounts, NEW t \in Thresholds, ClearFlag(a, t)
      PROVE  [Ledger!Next]_ledgerVars
    BY <1>5, LedgerStutters DEF ClearFlag
<1>6. ASSUME NEW a \in Accounts, ResetCutShort(a) PROVE [Ledger!Next]_ledgerVars
    BY <1>6, LedgerStutters DEF ResetCutShort
<1>7. CASE UNCHANGED vars
    BY <1>7, LedgerStutters DEF vars
<1> QED BY <1>1, <1>2, <1>3, <1>4, <1>5, <1>6, <1>7 DEF Next

\* The enforcer implements the ledger: whatever interleaves, crashes, raises or
\* expires, each call holds once, within the ceiling, and is settled at most
\* once, with its actual cost or with nothing.
THEOREM LedgerImplemented == Spec => ImplementsLedger
<1>1. Init => Ledger!Init /\ StageKnown
    BY DEF Init, Ledger!Init, LedgerStage, Stage, LedgerHold, StageKnown
<1>2. TypeOK /\ StageKnown /\ [Next]_vars => StageKnown'
    BY StepStageKnown
<1>3. TypeOK /\ Capped /\ StageKnown /\ [Next]_vars => [Ledger!Next]_ledgerVars
    BY StepIsLedgerStep
<1> QED BY <1>1, <1>2, <1>3, TypeCorrect, SpendStaysCapped, PTL
        DEF Spec, ImplementsLedger, Ledger!Spec, ledgerVars

-----------------------------------------------------------------------------
(***************************************************************************)
(* One hook at a time, as on MemoryStore: what a hook has read stays true  *)
(* until it has used it.                                                   *)
(***************************************************************************)
OneHookAtATime ==
    \A c, d \in Calls : c # d => pc[c] \in Parked \/ pc[d] \in Parked

NoResetUnderHook ==
    \A c \in Calls, a \in Accounts : pc[c] \notin Parked => clearing[a] = {}

\* What the hook of a call has read still holds: the limit before the script,
\* the period of the spend, and the absence of the flag it is about to set.
HookCoherent(c) ==
    LET a == AccountOf[c] IN
    /\ pc[c] = "eval" => limitRead[c] = Limit(a)
    /\ pc[c] \in {"exists", "mark"} => readIn[c] = period[a]
    /\ pc[c] = "mark" =>
        \A t \in pending[c] : IsLowest(t, pending[c]) => fired[a][t] = Never

\* A flag of an earlier period is one that a running reset still has to delete;
\* a fault may end that reset.
FlagsCoherent ==
    ~Faults => \A a \in Accounts : \A t \in Thresholds \ clearing[a] :
        fired[a][t] \in {Never, period[a]}

SerialInv ==
    /\ OneHookAtATime
    /\ NoResetUnderHook
    /\ \A c \in Calls : HookCoherent(c)
    /\ FlagsCoherent

\* While a call takes a step nobody else is in a hook and no reset is running.
LEMMA NobodyElseRuns ==
    ASSUME ~AwaitsSuspend, NEW c \in Calls, Step(c) \/ ReconcileRaises(c)
    PROVE  NobodyElse({c})
    BY DEF Step, ReadLimit, Grant, Reject, Reconcile, Release, Unkey, ReadAlertLimit,
           ReadSpent, ReadFlag, MarkFired, ReconcileRaises, MayRun

\* So a step that moves only its own call has to establish only what that
\* call relies on, and that the flags stay those of the period.
LEMMA SoleStep ==
    ASSUME TypeOK, SerialInv, NEW c \in Calls, NobodyElse({c}),
           UNCHANGED <<clearing, period>>,
           \A d \in Calls \ {c} : pc'[d] = pc[d],
           HookCoherent(c)',
           FlagsCoherent'
    PROVE  SerialInv'
<1>1. \A d \in Calls \ {c} : pc'[d] \in Parked
    BY DEF NobodyElse
<1>2. OneHookAtATime' /\ NoResetUnderHook'
    BY <1>1, Zenon DEF OneHookAtATime, NoResetUnderHook, NobodyElse
<1>3. ASSUME NEW d \in Calls \ {c} PROVE HookCoherent(d)'
    BY <1>1 DEF HookCoherent, Parked, Over
<1> QED BY <1>2, <1>3 DEF SerialInv

LEMMA CallStepSerial ==
    ASSUME TypeOK, SerialInv, ~AwaitsSuspend, NEW c \in Calls, Step(c)
    PROVE  SerialInv'
<1> USE DEF Goto, store, history
<1>0. /\ AccountOf[c] \in Accounts /\ NobodyElse({c}) /\ HookCoherent(c)
      /\ FlagsCoherent /\ pc \in [Calls -> Parked \cup InHook]
    BY CallTyped, NobodyElseRuns DEF SerialInv, TypeOK
<1>1. ASSUME UNCHANGED <<fired, period, clearing>>,
             \A d \in Calls \ {c} : pc'[d] = pc[d],
             HookCoherent(c)'
      PROVE  SerialInv'
    <2>1. FlagsCoherent'
        BY <1>0, <1>1 DEF FlagsCoherent
    <2> QED BY <1>0, <1>1, <2>1, SoleStep
<1>2. CASE ReadLimit(c)
    BY <1>0, <1>1, <1>2 DEF ReadLimit, HookCoherent, Limit, TypeOK
<1>3. CASE Grant(c)
    BY <1>0, <1>1, <1>3 DEF Grant, HookCoherent
<1>4. CASE Reject(c)
    BY <1>0, <1>1, <1>4 DEF Reject, HookCoherent
<1>5. CASE Reconcile(c)
    BY <1>0, <1>1, <1>5 DEF Reconcile, Settle, HookCoherent
<1>6. CASE Release(c)
    BY <1>0, <1>1, <1>6 DEF Release, Settle, HookCoherent
<1>7. CASE Unkey(c)
    BY <1>0, <1>1, <1>7 DEF Unkey, HookCoherent
<1>8. CASE ReadAlertLimit(c)
    BY <1>0, <1>1, <1>8 DEF ReadAlertLimit, HookCoherent
<1>9. CASE ReadSpent(c)
    <2>1. pc'[c] \in {"done", "exists"} /\ readIn'[c] = period[AccountOf[c]]
        BY <1>0, <1>9 DEF ReadSpent, VisitNext, TypeOK
    <2>2. HookCoherent(c)'
        BY <1>9, <2>1 DEF ReadSpent, HookCoherent
    <2> QED BY <1>0, <1>1, <1>9, <2>2 DEF ReadSpent, VisitNext
<1>10. CASE ReadFlag(c)
    <2>1. PICK t \in pending[c] :
            /\ IsLowest(t, pending[c])
            /\ IF AlreadyFired(AccountOf[c], t)
               THEN VisitNext(c, pending[c] \ {t})
               ELSE Goto(c, "mark") /\ UNCHANGED pending
        BY <1>10 DEF ReadFlag
    <2>2. readIn'[c] = period'[AccountOf[c]] /\ UNCHANGED <<store, readIn, period, clearing>>
        BY <1>0, <1>10 DEF ReadFlag, HookCoherent
    <2>3. HookCoherent(c)'
        <3>1. CASE AlreadyFired(AccountOf[c], t)
            <4>1. pc'[c] \in {"done", "exists"}
                BY <1>0, <2>1, <3>1 DEF VisitNext
            <4> QED BY <2>2, <4>1 DEF HookCoherent
        <3>2. CASE ~AlreadyFired(AccountOf[c], t)
            <4>1. fired[AccountOf[c]][t] = Never /\ pc'[c] = "mark" /\ pending' = pending
                BY <1>0, <2>1, <3>2 DEF AlreadyFired
            <4>2. \A u \in pending[c] : IsLowest(u, pending[c]) => u = t
                BY <2>1, BudgetAssumption DEF IsLowest, TypeOK
            <4> QED BY <2>2, <4>1, <4>2 DEF HookCoherent
        <3> QED BY <3>1, <3>2
    <2> QED BY <1>0, <1>1, <2>1, <2>2, <2>3 DEF VisitNext
<1>11. CASE MarkFired(c)
    <2>1. PICK t \in pending[c] :
            /\ fired' = [fired EXCEPT ![AccountOf[c]][t] = readIn[c]]
            /\ VisitNext(c, pending[c] \ {t})
        BY <1>11 DEF MarkFired
    <2>2. /\ UNCHANGED <<readIn, period, clearing>>
          /\ readIn[c] = period[AccountOf[c]]
        BY <1>0, <1>11 DEF MarkFired, HookCoherent
    <2>3. HookCoherent(c)'
        <3>1. pc'[c] \in {"done", "exists"}
            BY <1>0, <2>1 DEF VisitNext
        <3> QED BY <2>2, <3>1 DEF HookCoherent
    <2>4. FlagsCoherent'
        BY <1>0, <2>1, <2>2 DEF FlagsCoherent, TypeOK
    <2> QED BY <1>0, <2>1, <2>2, <2>3, <2>4, SoleStep DEF VisitNext
<1> QED BY <1>2, <1>3, <1>4, <1>5, <1>6, <1>7, <1>8, <1>9, <1>10, <1>11 DEF Step

\* An operator's step needs everybody else to be out of the way, and a fault
\* only takes a call out of its hook.
LEMMA StepSerial ==
    ASSUME TypeOK, SerialInv, ~AwaitsSuspend, [Next]_vars
    PROVE  SerialInv'
<1> USE DEF Goto, store, tasks, history
<1>1. ASSUME NEW c \in Calls, Step(c) PROVE SerialInv'
    BY <1>1, CallStepSerial
<1>2. ASSUME NEW c \in Calls, ExpireReservation(c) PROVE SerialInv'
    BY <1>2 DEF ExpireReservation, SerialInv, OneHookAtATime, NoResetUnderHook,
                HookCoherent, FlagsCoherent, Limit
<1>3. ASSUME NEW c \in Calls, Crash(c) PROVE SerialInv'
    BY <1>3 DEF Crash, SerialInv, OneHookAtATime, NoResetUnderHook, HookCoherent,
                FlagsCoherent, Limit, Parked, Over, TypeOK
<1>4. ASSUME NEW c \in Calls, ReconcileRaises(c) PROVE SerialInv'
    <2>1. NobodyElse({c}) /\ pc'[c] = "limit"
        BY <1>4, NobodyElseRuns DEF ReconcileRaises, TypeOK
    <2>2. HookCoherent(c)' /\ FlagsCoherent'
        BY <1>4, <2>1 DEF ReconcileRaises, HookCoherent, SerialInv, FlagsCoherent
    <2> QED BY <1>4, <2>1, <2>2, SoleStep DEF ReconcileRaises
<1>5. ASSUME NEW a \in Accounts, NEW l \in Limits, SetBudget(a, l) PROVE SerialInv'
    <2>1. \A d \in Calls : pc'[d] \in Parked
        BY <1>5 DEF SetBudget, MayOperate, NobodyElse
    <2>2. \A d \in Calls : HookCoherent(d)'
        BY <2>1 DEF HookCoherent, Parked, Over
    <2> QED BY <1>5, <2>1, <2>2 DEF SetBudget, SerialInv, OneHookAtATime,
                                    NoResetUnderHook, FlagsCoherent
<1>6. ASSUME NEW a \in Accounts, ResetSpend(a) PROVE SerialInv'
    <2>1. \A d \in Calls : pc'[d] \in Parked
        BY <1>6 DEF ResetSpend, MayOperate, NobodyElse
    <2>2. \A d \in Calls : HookCoherent(d)'
        BY <2>1 DEF HookCoherent, Parked, Over
    <2>3. FlagsCoherent'
        BY <1>6 DEF ResetSpend, FlagsToClear, SerialInv, FlagsCoherent, TypeOK
    <2> QED BY <2>1, <2>2, <2>3 DEF SerialInv, OneHookAtATime, NoResetUnderHook
<1>7. ASSUME NEW a \in Accounts, NEW t \in Thresholds, ClearFlag(a, t) PROVE SerialInv'
    <2>1. \A d \in Calls : pc'[d] \in Parked
        BY <1>7 DEF ClearFlag
    <2>2. \A d \in Calls : HookCoherent(d)'
        BY <2>1 DEF HookCoherent, Parked, Over
    <2>3. FlagsCoherent'
        BY <1>7 DEF ClearFlag, SerialInv, FlagsCoherent, TypeOK
    <2> QED BY <2>1, <2>2, <2>3 DEF SerialInv, OneHookAtATime, NoResetUnderHook
<1>8. ASSUME NEW a \in Accounts, ResetCutShort(a) PROVE SerialInv'
    <2>1. \A d \in Calls : HookCoherent(d)'
        BY <1>8 DEF ResetCutShort, SerialInv, HookCoherent, Limit
    <2>2. \A b \in Accounts : clearing[b] = {} => clearing'[b] = {}
        BY <1>8 DEF ResetCutShort, TypeOK
    <2>3. FlagsCoherent'
        BY <1>8 DEF ResetCutShort, FlagsCoherent
    <2> QED BY <1>8, <2>1, <2>2, <2>3
        DEF ResetCutShort, SerialInv, OneHookAtATime, NoResetUnderHook
<1>9. CASE UNCHANGED vars
    BY <1>9 DEF vars, SerialInv, OneHookAtATime, NoResetUnderHook, HookCoherent,
                FlagsCoherent, Limit
<1> QED BY <1>1, <1>2, <1>3, <1>4, <1>5, <1>6, <1>7, <1>8, <1>9 DEF Next

LEMMA StaysSerial ==
    ASSUME ~AwaitsSuspend
    PROVE  Spec => []SerialInv
<1>1. Init => SerialInv
    BY DEF Init, SerialInv, OneHookAtATime, NoResetUnderHook, HookCoherent,
           FlagsCoherent, Parked, Over
<1>2. TypeOK /\ SerialInv /\ [Next]_vars => SerialInv'
    BY StepSerial
<1> QED BY <1>1, <1>2, TypeCorrect, PTL DEF Spec

\* Where hooks do not overlap and no fault ends a reset early, every flag in the
\* store was set by a check that read the spend of the period: a reset lets
\* every threshold fire again.
THEOREM FlagsBelongToPeriod ==
    ASSUME ~AwaitsSuspend, ~Faults
    PROVE  Spec => []FlagsOfThisPeriod
<1>1. SerialInv => FlagsOfThisPeriod
    BY DEF SerialInv, FlagsCoherent, FlagsOfThisPeriod
<1> QED BY <1>1, StaysSerial, PTL

\* Where hooks do not overlap, a check marks only a threshold whose flag is
\* absent when it is set.
THEOREM FiresOncePerPeriod ==
    ASSUME ~AwaitsSuspend
    PROVE  Spec => FiresAtMostOnce
<1>1. TypeOK /\ SerialInv /\ [Next]_vars =>
        [\A c \in Calls :
            pc[c] = "mark" /\ pending'[c] # pending[c]
              => \E t \in pending[c] \ pending'[c] : fired[AccountOf[c]][t] = Never]_vars
    <2> SUFFICES ASSUME TypeOK, SerialInv, Next,
                        NEW c \in Calls, pc[c] = "mark", pending'[c] # pending[c]
                 PROVE  \E t \in pending[c] \ pending'[c] : fired[AccountOf[c]][t] = Never
        OBVIOUS
    <2>1. MarkFired(c)
        <3>1. PICK d \in Calls : Step(d)
            BY DEF Next, SetBudget, ResetSpend, ClearFlag, ResetCutShort,
                   ExpireReservation, Crash, ReconcileRaises, tasks
        <3>2. ReadSpent(d) \/ ReadFlag(d) \/ MarkFired(d)
            BY <3>1 DEF Step, ReadLimit, Grant, Reject, Reconcile, Release, Settle,
                        Unkey, ReadAlertLimit
        <3>3. d = c
            BY <3>2 DEF ReadSpent, ReadFlag, MarkFired, VisitNext, TypeOK
        <3> QED BY <3>2, <3>3 DEF ReadSpent, ReadFlag
    <2>2. PICK t \in pending[c] : /\ IsLowest(t, pending[c])
                                  /\ VisitNext(c, pending[c] \ {t})
        BY <2>1 DEF MarkFired
    <2>3. pending'[c] = pending[c] \ {t}
        BY <2>2 DEF VisitNext, TypeOK
    <2>4. fired[AccountOf[c]][t] = Never
        BY <2>2 DEF SerialInv, HookCoherent
    <2> QED BY <2>3, <2>4
<1> QED BY <1>1, TypeCorrect, StaysSerial, PTL DEF Spec, FiresAtMostOnce

\* The limit a reserve has read is still in force when its script compares.
LimitInForce == \A c \in Calls : pc[c] = "eval" => limitRead[c] = Limit(AccountOf[c])

\* That is so where hooks do not overlap with set_budget, and on either store
\* where nobody calls it.
LEMMA LimitStaysInForce ==
    ASSUME ~AwaitsSuspend \/ Limits = {}
    PROVE  Spec => []LimitInForce
<1>1. CASE ~AwaitsSuspend
    <2>1. SerialInv => LimitInForce
        BY DEF SerialInv, HookCoherent, LimitInForce
    <2> QED BY <1>1, <2>1, StaysSerial, PTL
<1>2. CASE Limits = {}
    <2>1. Init => LimitInForce
        BY DEF Init, LimitInForce
    <2>2. TypeOK /\ LimitInForce /\ [Next]_vars => LimitInForce'
        <3> SUFFICES ASSUME TypeOK, LimitInForce, [Next]_vars PROVE LimitInForce'
            OBVIOUS
        <3>1. limitKey' = limitKey
            BY <1>2 DEF Next, Step, ReadLimit, Grant, Reject, Reconcile, Release, Settle,
                        Unkey, ReadAlertLimit, ReadSpent, ReadFlag, MarkFired, SetBudget,
                        ResetSpend, ClearFlag, ResetCutShort, ExpireReservation, Crash,
                        ReconcileRaises, vars, store
        <3>2. \A c \in Calls : Limit(AccountOf[c])' = Limit(AccountOf[c])
            BY <3>1 DEF Limit
        <3>3. ASSUME NEW c \in Calls, Step(c) PROVE LimitInForce'
            BY <3>2, <3>3 DEF LimitInForce, Step, ReadLimit, Grant, Reject, Reconcile,
                              Release, Settle, Unkey, ReadAlertLimit, ReadSpent, ReadFlag,
                              MarkFired, VisitNext, Goto, TypeOK
        <3>4. ASSUME NEW c \in Calls, Crash(c) \/ ReconcileRaises(c) PROVE LimitInForce'
            BY <3>2, <3>4 DEF LimitInForce, Crash, ReconcileRaises, Goto, TypeOK
        <3>5. ASSUME UNCHANGED <<pc, limitRead>> PROVE LimitInForce'
            BY <3>2, <3>5 DEF LimitInForce
        <3> QED BY <3>3, <3>4, <3>5
            DEF Next, SetBudget, ResetSpend, ClearFlag, ResetCutShort, ExpireReservation,
                vars, tasks
    <2> QED BY <2>1, <2>2, TypeCorrect, PTL DEF Spec
<1> QED BY <1>1, <1>2

\* A hold fits the limit in force at the step that takes it, unless set_budget
\* came between the read of the limit and the script: never on MemoryStore,
\* and never on Redis while nobody sets budgets, whatever crashes or raises.
THEOREM GrantsFit ==
    ASSUME ~AwaitsSuspend \/ Limits = {}
    PROVE  Spec => GrantsFitTheLimit
<1>1. TypeOK /\ LimitInForce /\ [Next]_vars =>
        [\A c \in Calls :
            pc[c] = "eval" /\ pc'[c] = "held"
              => spent'[AccountOf[c]] <= Limit(AccountOf[c])]_vars
    <2> SUFFICES ASSUME TypeOK, LimitInForce, Next,
                        NEW c \in Calls, pc[c] = "eval", pc'[c] = "held"
                 PROVE  spent'[AccountOf[c]] <= Limit(AccountOf[c])
        OBVIOUS
    <2>1. Grant(c)
        BY DEF Next, Step, ReadLimit, Grant, Reject, Reconcile, Release, Unkey,
               ReadAlertLimit, ReadSpent, ReadFlag, MarkFired, VisitNext, SetBudget,
               ResetSpend, ClearFlag, ResetCutShort, ExpireReservation, Crash,
               ReconcileRaises, tasks, Goto, TypeOK
    <2>2. limitRead[c] = Limit(AccountOf[c])
        BY DEF LimitInForce
    <2>3. spent'[AccountOf[c]] = spent[AccountOf[c]] + estimate[c]
        BY <2>1, CallTyped DEF Grant, TypeOK
    <2> QED BY <2>1, <2>2, <2>3 DEF Grant, Fits
<1> QED BY <1>1, TypeCorrect, LimitStaysInForce, PTL DEF Spec, GrantsFitTheLimit

-----------------------------------------------------------------------------
(***************************************************************************)
(* Every unit of spend is accounted for.                                   *)
(***************************************************************************)
\* Only calls that went through the script are ever charged: finitely many,
\* however many calls there are.
Charged == {c \in Calls : heldIn[c] # Never \/ settledIn[c] # Never}

\* No stamp is of a period to come, so a new period begins without charges.
StampsPast ==
    \A c \in Calls : /\ heldIn[c] <= period[AccountOf[c]]
                     /\ settledIn[c] <= period[AccountOf[c]]

Accounted == IsFiniteSet(Charged) /\ StampsPast /\ SpendAccountedFor

LEMMA AmountsTyped ==
    ASSUME TypeOK
    PROVE  \A c \in Calls : estimate[c] \in Nat /\ cost[c] \in Nat
<1>1. Costs \cup {0} \subseteq Nat
    BY BudgetAssumption
<1> QED BY <1>1, Zenon DEF TypeOK

\* The three totals of an account are natural numbers over finite sets.
LEMMA BalanceTyped ==
    ASSUME TypeOK, IsFiniteSet(Charged), NEW a \in Accounts
    PROVE  /\ HeldNow(a) \subseteq Calls /\ IsFiniteSet(HeldNow(a))
           /\ SettledNow(a) \subseteq Calls /\ IsFiniteSet(SettledNow(a))
           /\ Total(estimate, HeldNow(a)) \in Nat
           /\ Total(estimate, SettledNow(a)) \in Nat
           /\ SettledCost(a) \in Nat
<1>1. HeldNow(a) \subseteq Charged /\ SettledNow(a) \subseteq Charged
    BY DEF HeldNow, SettledNow, ChargedTo, Charged, TypeOK
<1>2. IsFiniteSet(HeldNow(a)) /\ IsFiniteSet(SettledNow(a))
    BY <1>1, FS_Subset
<1>3. HeldNow(a) \subseteq Calls /\ SettledNow(a) \subseteq Calls
    BY DEF HeldNow, SettledNow, ChargedTo
<1>4. /\ \A c \in HeldNow(a) : estimate[c] \in Nat
      /\ \A c \in SettledNow(a) : estimate[c] \in Nat /\ cost[c] \in Nat
    BY <1>3, AmountsTyped
<1> QED BY <1>2, <1>3, <1>4, TotalType DEF SettledCost

\* A step that moves no money and no stamp keeps the accounts; an estimate may
\* change before its hold.
LEMMA UnchargedStep ==
    ASSUME TypeOK, Accounted, UNCHANGED <<spent, cost, period, heldIn, settledIn>>,
           \A c \in Charged : estimate'[c] = estimate[c]
    PROVE  Accounted'
<1>1. Charged' = Charged /\ StampsPast'
    BY DEF Charged, StampsPast, Accounted
<1>2. ASSUME NEW a \in Accounts
      PROVE  spent'[a] = Total(estimate, HeldNow(a))' - Total(estimate, SettledNow(a))'
                         + SettledCost(a)'
    <2>1. HeldNow(a)' = HeldNow(a) /\ SettledNow(a)' = SettledNow(a)
        BY DEF HeldNow, SettledNow, ChargedTo
    <2>2. HeldNow(a) \subseteq Charged /\ SettledNow(a) \subseteq Charged
        BY DEF HeldNow, SettledNow, ChargedTo, Charged, TypeOK
    <2>3. Total(estimate', HeldNow(a)) = Total(estimate, HeldNow(a))
        BY <2>2, TotalSame
    <2>4. Total(estimate', SettledNow(a)) = Total(estimate, SettledNow(a))
        BY <2>2, TotalSame
    <2>5. spent[a] = Total(estimate, HeldNow(a)) - Total(estimate, SettledNow(a))
                     + SettledCost(a)
        BY DEF Accounted, SpendAccountedFor
    <2> QED BY <2>1, <2>3, <2>4, <2>5 DEF SettledCost
<1> QED BY <1>1, <1>2 DEF Accounted, SpendAccountedFor

\* A grant adds the hold it charges.
LEMMA GrantAccounted ==
    ASSUME TypeOK, StageKnown, Accounted, NEW c \in Calls, Grant(c)
    PROVE  Accounted'
<1> DEFINE b == AccountOf[c]
<1>0. /\ b \in Accounts /\ estimate[c] \in Nat /\ period[b] \in Nat
      /\ heldIn[c] = Never /\ settledIn[c] = Never
    BY CallTyped DEF Grant, StageKnown, TypeOK
<1>1. /\ spent' = [spent EXCEPT ![b] = @ + estimate[c]]
      /\ heldIn' = [heldIn EXCEPT ![c] = period[b]]
      /\ UNCHANGED <<estimate, cost, period, settledIn>>
    BY DEF Grant
<1>2. IsFiniteSet(Charged')
    <2>1. Charged' = Charged \cup {c}
        BY <1>0, <1>1 DEF Charged, TypeOK
    <2> QED BY <2>1, FS_AddElement DEF Accounted
<1>3. StampsPast'
    BY <1>0, <1>1 DEF Accounted, StampsPast, TypeOK
<1>4. ASSUME NEW a \in Accounts
      PROVE  spent'[a] = Total(estimate, HeldNow(a))' - Total(estimate, SettledNow(a))'
                         + SettledCost(a)'
    <2>0. /\ IsFiniteSet(HeldNow(a)) /\ HeldNow(a) \subseteq Calls
          /\ Total(estimate, HeldNow(a)) \in Nat
          /\ Total(estimate, SettledNow(a)) \in Nat /\ SettledCost(a) \in Nat
          /\ spent[a] = Total(estimate, HeldNow(a)) - Total(estimate, SettledNow(a))
                        + SettledCost(a)
        BY BalanceTyped DEF Accounted, SpendAccountedFor
    <2>1. SettledNow(a)' = SettledNow(a)
        BY <1>1 DEF SettledNow, ChargedTo
    <2>2. SettledCost(a)' = SettledCost(a)
        BY <1>1, <2>1 DEF SettledCost
    <2>3. CASE a = b
        <3>1. HeldNow(a)' = HeldNow(a) \cup {c} /\ c \notin HeldNow(a)
            BY <1>0, <1>1, <2>3 DEF HeldNow, ChargedTo, TypeOK
        <3>2. \A d \in HeldNow(a) : estimate[d] \in Nat
            BY <2>0, AmountsTyped
        <3>3. Total(estimate, HeldNow(a) \cup {c}) = Total(estimate, HeldNow(a)) + estimate[c]
            BY <1>0, <2>0, <3>1, <3>2, TotalAdd
        <3>4. Total(estimate, HeldNow(a))' = Total(estimate, HeldNow(a)) + estimate[c]
            BY <1>1, <3>1, <3>3
        <3>5. spent'[a] = spent[a] + estimate[c]
            BY <1>0, <1>1, <2>3 DEF TypeOK
        <3> QED BY <1>0, <1>1, <2>0, <2>1, <2>2, <3>4, <3>5
    <2>4. CASE a # b
        <3>1. HeldNow(a)' = HeldNow(a) /\ spent'[a] = spent[a]
            BY <1>1, <2>4 DEF HeldNow, ChargedTo, TypeOK
        <3> QED BY <1>1, <2>0, <2>1, <2>2, <3>1
    <2> QED BY <2>3, <2>4
<1> QED BY <1>2, <1>3, <1>4 DEF Accounted, SpendAccountedFor

\* The settled cost of an account grows by what a call is settled at.
LEMMA SettledCostGrows ==
    ASSUME TypeOK, StageKnown, IsFiniteSet(Charged), NEW c \in Calls, pc[c] = "held",
           NEW actual \in Nat, Settle(c, actual), NEW a \in Accounts
    PROVE  /\ SettledNow(a)' = IF a = AccountOf[c] THEN SettledNow(a) \cup {c}
                               ELSE SettledNow(a)
           /\ c \notin SettledNow(a)
           /\ SettledCost(a)' = SettledCost(a) + IF a = AccountOf[c] THEN actual ELSE 0
<1>0. /\ cost' = [cost EXCEPT ![c] = actual]
      /\ settledIn' = [settledIn EXCEPT ![c] = period[AccountOf[c]]]
      /\ period' = period
    BY DEF Settle
<1>1. AccountOf[c] \in Accounts /\ settledIn[c] = Never
    BY CallTyped DEF StageKnown
<1>2. c \notin SettledNow(a)
    BY <1>1 DEF SettledNow, TypeOK
<1>3. SettledNow(a)' = IF a = AccountOf[c] THEN SettledNow(a) \cup {c} ELSE SettledNow(a)
    BY <1>0, <1>1 DEF SettledNow, ChargedTo, TypeOK
<1>4. IsFiniteSet(SettledNow(a)) /\ SettledNow(a) \subseteq Calls /\ SettledCost(a) \in Nat
    BY BalanceTyped
<1>5. cost'[c] = actual /\ \A d \in SettledNow(a) : cost'[d] = cost[d] /\ cost'[d] \in Nat
    BY <1>0, <1>2, <1>4, AmountsTyped DEF TypeOK
<1>6. Total(cost', SettledNow(a)) = SettledCost(a)
    BY <1>5, TotalSame DEF SettledCost
<1>7. Total(cost', SettledNow(a) \cup {c}) = Total(cost', SettledNow(a)) + actual
    BY <1>2, <1>4, <1>5, TotalAdd
<1> QED BY <1>2, <1>3, <1>4, <1>6, <1>7 DEF SettledCost

\* A settlement puts the cost in the place of the hold.
LEMMA SettleAccounted ==
    ASSUME TypeOK, StageKnown, Accounted, NEW c \in Calls, pc[c] = "held",
           NEW actual \in Nat, Settle(c, actual)
    PROVE  Accounted'
<1> DEFINE b == AccountOf[c]
<1>0. /\ b \in Accounts /\ estimate[c] \in Nat /\ period[b] \in Nat
      /\ heldIn[c] # Never /\ settledIn[c] = Never
    BY CallTyped DEF StageKnown, TypeOK
<1>1. /\ spent' = [spent EXCEPT ![b] = @ + (actual - estimate[c])]
      /\ settledIn' = [settledIn EXCEPT ![c] = period[b]]
      /\ UNCHANGED <<estimate, period, heldIn>>
    BY DEF Settle, Diff
<1>2. Charged' = Charged
    BY <1>0, <1>1 DEF Charged, TypeOK
<1>3. StampsPast'
    BY <1>0, <1>1 DEF Accounted, StampsPast, TypeOK
<1>4. ASSUME NEW a \in Accounts
      PROVE  spent'[a] = Total(estimate, HeldNow(a))' - Total(estimate, SettledNow(a))'
                         + SettledCost(a)'
    <2>0. /\ IsFiniteSet(SettledNow(a)) /\ SettledNow(a) \subseteq Calls
          /\ Total(estimate, HeldNow(a)) \in Nat
          /\ Total(estimate, SettledNow(a)) \in Nat /\ SettledCost(a) \in Nat
          /\ spent[a] = Total(estimate, HeldNow(a)) - Total(estimate, SettledNow(a))
                        + SettledCost(a)
        BY BalanceTyped DEF Accounted, SpendAccountedFor
    <2>1. HeldNow(a)' = HeldNow(a)
        BY <1>1 DEF HeldNow, ChargedTo
    <2>2. /\ SettledNow(a)' = IF a = b THEN SettledNow(a) \cup {c} ELSE SettledNow(a)
          /\ c \notin SettledNow(a)
          /\ SettledCost(a)' = SettledCost(a) + IF a = b THEN actual ELSE 0
        BY SettledCostGrows DEF Accounted
    <2>3. CASE a = b
        <3>1. \A d \in SettledNow(a) : estimate[d] \in Nat
            BY <2>0, AmountsTyped
        <3>2. Total(estimate, SettledNow(a) \cup {c})
                = Total(estimate, SettledNow(a)) + estimate[c]
            BY <1>0, <2>0, <2>2, <3>1, TotalAdd
        <3>3. Total(estimate, SettledNow(a))' = Total(estimate, SettledNow(a)) + estimate[c]
            BY <1>1, <2>2, <2>3, <3>2
        <3>4. spent'[a] = spent[a] + (actual - estimate[c])
            BY <1>0, <1>1, <2>3 DEF TypeOK
        <3> QED BY <1>0, <1>1, <2>0, <2>1, <2>2, <2>3, <3>3, <3>4
    <2>4. CASE a # b
        <3>1. spent'[a] = spent[a]
            BY <1>1, <2>4 DEF TypeOK
        <3> QED BY <1>1, <2>0, <2>1, <2>2, <2>4, <3>1
    <2> QED BY <2>3, <2>4
<1> QED BY <1>2, <1>3, <1>4 DEF Accounted, SpendAccountedFor

\* A reset begins a period without charges.
LEMMA ResetAccounted ==
    ASSUME TypeOK, Accounted, NEW b \in Accounts, ResetSpend(b)
    PROVE  Accounted'
<1>1. /\ spent' = [spent EXCEPT ![b] = 0]
      /\ period' = [period EXCEPT ![b] = @ + 1]
      /\ UNCHANGED <<estimate, cost, heldIn, settledIn>>
    BY DEF ResetSpend
<1>2. Charged' = Charged
    BY <1>1 DEF Charged
<1>3. ASSUME NEW c \in Calls
      PROVE  heldIn'[c] <= period'[AccountOf[c]] /\ settledIn'[c] <= period'[AccountOf[c]]
    <2>1. /\ heldIn[c] <= period[AccountOf[c]] /\ settledIn[c] <= period[AccountOf[c]]
          /\ AccountOf[c] \in Accounts
        BY CallTyped DEF Accounted, StampsPast
    <2>2. /\ heldIn[c] \in Int /\ settledIn[c] \in Int /\ period[AccountOf[c]] \in Int
          /\ period'[AccountOf[c]] \in {period[AccountOf[c]], period[AccountOf[c]] + 1}
        BY <1>1, <2>1 DEF TypeOK
    <2> QED BY <1>1, <2>1, <2>2
<1>4. ASSUME NEW a \in Accounts
      PROVE  spent'[a] = Total(estimate, HeldNow(a))' - Total(estimate, SettledNow(a))'
                         + SettledCost(a)'
    <2>1. CASE a = b
        <3>1. HeldNow(a)' = {} /\ SettledNow(a)' = {}
            BY <1>1, <2>1 DEF HeldNow, SettledNow, ChargedTo, Accounted, StampsPast, TypeOK
        <3>2. spent'[a] = 0
            BY <1>1, <2>1 DEF TypeOK
        <3>3. Total(estimate, HeldNow(a))' = 0 /\ Total(estimate, SettledNow(a))' = 0
            BY <3>1, TotalEmpty
        <3>4. SettledCost(a)' = 0
            BY <3>1, TotalEmpty DEF SettledCost
        <3> QED BY <3>2, <3>3, <3>4
    <2>2. CASE a # b
        <3>1. HeldNow(a)' = HeldNow(a) /\ SettledNow(a)' = SettledNow(a)
            BY <1>1, <2>2 DEF HeldNow, SettledNow, ChargedTo, TypeOK
        <3>2. spent'[a] = spent[a]
            BY <1>1, <2>2 DEF TypeOK
        <3> QED BY <1>1, <3>1, <3>2 DEF Accounted, SpendAccountedFor, SettledCost
    <2> QED BY <2>1, <2>2
<1> QED BY <1>2, <1>3, <1>4 DEF Accounted, StampsPast, SpendAccountedFor

LEMMA StepAccounted ==
    ASSUME TypeOK, StageKnown, Accounted, [Next]_vars
    PROVE  Accounted'
<1> USE DEF store, tasks, history
<1>1. ASSUME NEW c \in Calls, Step(c) PROVE Accounted'
    <2>1. CASE ReadLimit(c)
        <3>1. c \notin Charged
            BY <2>1 DEF ReadLimit, StageKnown, Charged
        <3>2. \A d \in Charged : estimate'[d] = estimate[d]
            BY <2>1, <3>1 DEF ReadLimit, Charged, TypeOK
        <3> QED BY <2>1, <3>2, UnchargedStep DEF ReadLimit
    <2>2. CASE Grant(c) BY <2>2, GrantAccounted
    <2>3. CASE Reject(c) BY <2>3, UnchargedStep DEF Reject
    <2>4. CASE Reconcile(c)
        <3>1. PICK actual \in Costs : Settle(c, actual)
            BY <2>4 DEF Reconcile
        <3>2. actual \in Nat /\ pc[c] = "held"
            BY <2>4, BudgetAssumption DEF Reconcile
        <3> QED BY <3>1, <3>2, SettleAccounted
    <2>5. CASE Release(c)
        <3>1. 0 \in Nat /\ pc[c] = "held" /\ Settle(c, 0)
            BY <2>5 DEF Release
        <3> QED BY <3>1, SettleAccounted
    <2>6. CASE Unkey(c) BY <2>6, UnchargedStep DEF Unkey
    <2>7. CASE ReadAlertLimit(c) BY <2>7, UnchargedStep DEF ReadAlertLimit
    <2>8. CASE ReadSpent(c) BY <2>8, UnchargedStep DEF ReadSpent
    <2>9. CASE ReadFlag(c) BY <2>9, UnchargedStep DEF ReadFlag
    <2>10. CASE MarkFired(c) BY <2>10, UnchargedStep DEF MarkFired
    <2> QED BY <1>1, <2>1, <2>2, <2>3, <2>4, <2>5, <2>6, <2>7, <2>8, <2>9, <2>10 DEF Step
<1>2. ASSUME NEW c \in Calls, ExpireReservation(c) \/ Crash(c) \/ ReconcileRaises(c)
      PROVE  Accounted'
    BY <1>2, UnchargedStep DEF ExpireReservation, Crash, ReconcileRaises
<1>3. ASSUME NEW a \in Accounts, NEW l \in Limits, SetBudget(a, l) PROVE Accounted'
    BY <1>3, UnchargedStep DEF SetBudget
<1>4. ASSUME NEW a \in Accounts, ResetSpend(a) PROVE Accounted'
    BY <1>4, ResetAccounted
<1>5. ASSUME NEW a \in Accounts, NEW t \in Thresholds, ClearFlag(a, t) PROVE Accounted'
    BY <1>5, UnchargedStep DEF ClearFlag
<1>6. ASSUME NEW a \in Accounts, ResetCutShort(a) PROVE Accounted'
    BY <1>6, UnchargedStep DEF ResetCutShort
<1>7. CASE UNCHANGED vars
    BY <1>7, UnchargedStep DEF vars
<1> QED BY <1>1, <1>2, <1>3, <1>4, <1>5, <1>6, <1>7 DEF Next

LEMMA StaysAccounted == Spec => [](StageKnown /\ Accounted)
<1>1. Init => StageKnown /\ Accounted
    <2> SUFFICES ASSUME Init PROVE StageKnown /\ Accounted
        OBVIOUS
    <2>1. StageKnown
        BY DEF Init, StageKnown
    <2>2. Charged = {} /\ StampsPast
        BY BudgetAssumption DEF Init, Charged, StampsPast
    <2>3. ASSUME NEW a \in Accounts
          PROVE  spent[a] = Total(estimate, HeldNow(a)) - Total(estimate, SettledNow(a))
                            + SettledCost(a)
        <3>1. HeldNow(a) = {} /\ SettledNow(a) = {} /\ spent[a] = 0
            BY BudgetAssumption DEF Init, HeldNow, SettledNow, ChargedTo
        <3> QED BY <3>1, TotalEmpty DEF SettledCost
    <2> QED BY <2>1, <2>2, <2>3, FS_EmptySet DEF Accounted, SpendAccountedFor
<1>2. TypeOK /\ StageKnown /\ Accounted /\ [Next]_vars => StageKnown' /\ Accounted'
    BY StepStageKnown, StepAccounted
<1> QED BY <1>1, <1>2, TypeCorrect, PTL DEF Spec

\* Whatever interleaves, crashes, raises, expires or is reset, the spend of an
\* account is what its calls hold and have cost in the period: no increment is
\* lost, doubled or charged to another account.
THEOREM SpendIsAccountedFor == Spec => []SpendAccountedFor
<1>1. Accounted => SpendAccountedFor
    BY DEF Accounted
<1> QED BY <1>1, StaysAccounted, PTL

-----------------------------------------------------------------------------
(***************************************************************************)
(* Holds drain: with any interleaving of the hooks, as long as none is cut *)
(* short and no budget is reset, what is left in the end is the cost.      *)
(***************************************************************************)
Undisturbed == ~Faults /\ MaxResets = 0

\* A hold that is not settled belongs to a call that waits for its response.
Draining ==
    /\ \A a \in Accounts : period[a] = 0 /\ clearing[a] = {}
    /\ \A c \in Calls :
        /\ settledIn[c] # Never => heldIn[c] # Never
        /\ heldIn[c] # Never /\ settledIn[c] = Never => pc[c] = "held"

LEMMA NobodyResets ==
    ASSUME Undisturbed, TypeOK, Draining
    PROVE  /\ \A a \in Accounts : /\ ~ResetSpend(a) /\ ~ResetCutShort(a)
                                 /\ \A t : ~ClearFlag(a, t)
           /\ \A c \in Calls : ~Crash(c) /\ ~ReconcileRaises(c)
    BY DEF Undisturbed, ResetSpend, ClearFlag, ResetCutShort, Crash, ReconcileRaises,
           Draining, TypeOK

LEMMA StepDraining ==
    ASSUME Undisturbed, TypeOK, StageKnown, Draining, [Next]_vars
    PROVE  Draining'
<1> USE DEF store, tasks, history, Goto
<1>1. ASSUME NEW c \in Calls, Step(c) PROVE Draining'
    <2>0. AccountOf[c] \in Accounts /\ period[AccountOf[c]] \in Nat
        BY CallTyped DEF TypeOK
    <2> USE DEF Draining, TypeOK, StageKnown
    <2>1. CASE ReadLimit(c) BY <2>1 DEF ReadLimit
    <2>2. CASE Grant(c) BY <2>0, <2>2 DEF Grant
    <2>3. CASE Reject(c) BY <2>3 DEF Reject
    <2>4. CASE Reconcile(c)
        <3>1. PICK actual \in Costs : Settle(c, actual)
            BY <2>4 DEF Reconcile
        <3> QED BY <2>0, <2>4, <3>1 DEF Reconcile, Settle
    <2>5. CASE Release(c) BY <2>0, <2>5 DEF Release, Settle
    <2>6. CASE Unkey(c) BY <2>6 DEF Unkey
    <2>7. CASE ReadAlertLimit(c) BY <2>7 DEF ReadAlertLimit
    <2>8. CASE ReadSpent(c) BY <2>8 DEF ReadSpent, VisitNext
    <2>9. CASE ReadFlag(c) BY <2>9 DEF ReadFlag, VisitNext
    <2>10. CASE MarkFired(c) BY <2>10 DEF MarkFired, VisitNext
    <2> QED BY <1>1, <2>1, <2>2, <2>3, <2>4, <2>5, <2>6, <2>7, <2>8, <2>9, <2>10 DEF Step
<1>2. ASSUME UNCHANGED <<pc, clearing, period, heldIn, settledIn>> PROVE Draining'
    BY <1>2 DEF Draining
<1> QED BY <1>1, <1>2, NobodyResets DEF Next, ExpireReservation, SetBudget, vars

\* When no call is in flight, every hold was settled, and the spend is the cost.
LEMMA DrainedIsExact ==
    ASSUME TypeOK, Accounted, Draining, \A c \in Calls : pc[c] \in Over \cup {"new"},
           NEW a \in Accounts
    PROVE  spent[a] = SettledCost(a)
<1>1. HeldNow(a) = SettledNow(a)
    <2>1. period[a] = 0
        BY DEF Draining
    <2>2. ASSUME NEW c \in ChargedTo(a)
          PROVE  heldIn[c] \in {0, Never} /\ settledIn[c] \in {0, Never}
        <3>1. /\ c \in Calls /\ heldIn[c] <= 0 /\ settledIn[c] <= 0
              /\ heldIn[c] \in Nat \cup {Never} /\ settledIn[c] \in Nat \cup {Never}
            BY <2>1 DEF ChargedTo, Accounted, StampsPast, TypeOK
        <3> QED BY <3>1
    <2>3. ASSUME NEW c \in ChargedTo(a) PROVE heldIn[c] # Never <=> settledIn[c] # Never
        <3>1. c \in Calls /\ pc[c] # "held"
            BY DEF ChargedTo, Over
        <3> QED BY <3>1 DEF Draining
    <2>4. 0 # Never
        BY DEF Never
    <2> QED BY <2>1, <2>2, <2>3, <2>4 DEF HeldNow, SettledNow
<1> QED BY <1>1, BalanceTyped DEF Accounted, SpendAccountedFor

LEMMA StaysDraining == ASSUME Undisturbed PROVE Spec => []Draining
<1>1. Init => Draining
    BY DEF Init, Draining
<1>2. TypeOK /\ StageKnown /\ Draining /\ [Next]_vars => Draining'
    BY StepDraining
<1> QED BY <1>1, <1>2, TypeCorrect, StaysAccounted, PTL DEF Spec

\* What the docstring says of orphaned holds is true where there are none: on
\* either store and with any interleaving of hooks, set_budget and expiring
\* keys, the spend is exactly the cost once the calls are over.  So the
\* divergence takes a crash, a raising store call or a reset under a hold.
THEOREM HoldsDrain == ASSUME Undisturbed PROVE Spec => []OrphansRecover
<1>1. TypeOK /\ Accounted /\ Draining => OrphansRecover
    BY DrainedIsExact DEF OrphansRecover
<1> QED BY <1>1, TypeCorrect, StaysAccounted, StaysDraining, PTL

-----------------------------------------------------------------------------
(***************************************************************************)
(* Alerts catch up with the spend, if moreover limits stay.                *)
(***************************************************************************)
Steady == Undisturbed /\ Limits = {}

\* What a check of the thresholds has read so far.
Underway ==
    \A c \in Calls :
        /\ pc[c] = "spent" => limitRead[c] = Limit(AccountOf[c])
        /\ pc[c] \in {"exists", "mark"} => readIn[c] # Never

\* The settled calls alone have reached the threshold.
Reached(a, t) == Limit(a) > 0 /\ Crosses(SettledCost(a), Limit(a), t)

\* A success hook that has yet to look at the threshold, or to mark it.
Looking(c, t) ==
    \/ pc[c] \in {"unkey", "limit", "spent"}
    \/ pc[c] \in {"exists", "mark"} /\ t \in pending[c]
Noticed(a, t) == fired[a][t] # Never \/ \E c \in ChargedTo(a) : Looking(c, t)

CatchingUp == \A a \in Accounts, t \in Labelled : Reached(a, t) => Noticed(a, t)

LEMMA StepUnderway ==
    ASSUME Steady, TypeOK, Draining, Underway, [Next]_vars
    PROVE  Underway'
<1> USE DEF store, tasks, history, Goto
<1>1. ASSUME NEW c \in Calls, Step(c) PROVE Underway'
    <2>0. AccountOf[c] \in Accounts /\ period[AccountOf[c]] \in Nat
        BY CallTyped DEF TypeOK
    <2> USE DEF Underway, TypeOK, Limit
    <2>1. CASE ReadLimit(c) BY <2>1 DEF ReadLimit
    <2>2. CASE Grant(c) BY <2>2 DEF Grant
    <2>3. CASE Reject(c) BY <2>3 DEF Reject
    <2>4. CASE Reconcile(c)
        <3>1. PICK actual \in Costs : Settle(c, actual)
            BY <2>4 DEF Reconcile
        <3> QED BY <2>4, <3>1 DEF Reconcile, Settle
    <2>5. CASE Release(c) BY <2>5 DEF Release, Settle
    <2>6. CASE Unkey(c) BY <2>6 DEF Unkey
    <2>7. CASE ReadAlertLimit(c) BY <2>7 DEF ReadAlertLimit
    <2>8. CASE ReadSpent(c) BY <2>0, <2>8 DEF ReadSpent, VisitNext
    <2>9. CASE ReadFlag(c) BY <2>9 DEF ReadFlag, VisitNext
    <2>10. CASE MarkFired(c) BY <2>10 DEF MarkFired, VisitNext
    <2> QED BY <1>1, <2>1, <2>2, <2>3, <2>4, <2>5, <2>6, <2>7, <2>8, <2>9, <2>10 DEF Step
<1>2. ASSUME UNCHANGED <<pc, limitKey, limitRead, readIn>> PROVE Underway'
    BY <1>2 DEF Underway, Limit
\* The other steps need a fault, a new limit or a reset.
<1> QED BY <1>1, <1>2, NobodyResets DEF Next, Steady, ExpireReservation, vars

\* The settled cost is part of the spend that a check reads.
LEMMA SpendCoversCost ==
    ASSUME TypeOK, Accounted, Draining, NEW a \in Accounts
    PROVE  SettledCost(a) \in Nat /\ spent[a] \in Int /\ SettledCost(a) <= spent[a]
<1>1. SettledNow(a) \subseteq HeldNow(a)
    BY DEF SettledNow, HeldNow, ChargedTo, Draining, Accounted, StampsPast, TypeOK
<1>2. IsFiniteSet(HeldNow(a)) /\ \A c \in HeldNow(a) : estimate[c] \in Nat
    BY BalanceTyped, AmountsTyped DEF Accounted
<1>3. Total(estimate, SettledNow(a)) <= Total(estimate, HeldNow(a))
    BY <1>1, <1>2, TotalSubset
<1>4. spent[a] = Total(estimate, HeldNow(a)) - Total(estimate, SettledNow(a)) + SettledCost(a)
    BY DEF Accounted, SpendAccountedFor
<1>5. /\ Total(estimate, HeldNow(a)) \in Nat /\ Total(estimate, SettledNow(a)) \in Nat
      /\ SettledCost(a) \in Nat
    BY BalanceTyped DEF Accounted
<1> QED BY <1>3, <1>4, <1>5

\* A check visits every threshold that the settled calls have reached.
LEMMA CheckSeesReached ==
    ASSUME TypeOK, Accounted, Draining, Underway, NEW c \in Calls, pc[c] = "spent",
           NEW t \in Labelled, Reached(AccountOf[c], t)
    PROVE  t \in Crossed(c)
<1> DEFINE a == AccountOf[c]
<1>1. a \in Accounts /\ limitRead[c] = Limit(a) /\ t \in Nat
    BY CallTyped, BudgetAssumption DEF Underway
<1>2. SettledCost(a) \in Nat /\ spent[a] \in Int /\ SettledCost(a) <= spent[a]
    BY <1>1, SpendCoversCost
<1>3. Limit(a) > 0 /\ limitRead[c] \in Int /\ 100 * SettledCost(a) >= t * limitRead[c]
    BY <1>1 DEF Reached, Crosses, TypeOK
<1>4. t * limitRead[c] \in Int
    BY <1>1, <1>3
<1>5. 100 * spent[a] >= t * limitRead[c]
    BY <1>2, <1>3, <1>4
<1> QED BY <1>1, <1>3, <1>5 DEF Crossed, Crosses

\* A step of a call keeps the others looking.
LEMMA OthersLook ==
    ASSUME TypeOK, NEW c \in Calls, NEW a \in Accounts, NEW t \in Labelled, Noticed(a, t),
           \A d \in Calls \ {c} : pc'[d] = pc[d] /\ pending'[d] = pending[d],
           fired[a][t] # Never => fired'[a][t] # Never,
           AccountOf[c] = a /\ Looking(c, t) => Looking(c, t)' \/ fired'[a][t] # Never
    PROVE  Noticed(a, t)'
<1>1. CASE fired[a][t] # Never
    BY <1>1 DEF Noticed
<1>2. CASE \E d \in ChargedTo(a) : Looking(d, t)
    <2>1. PICK d \in ChargedTo(a) : Looking(d, t)
        BY <1>2
    <2>2. d \in ChargedTo(a)'
        BY DEF ChargedTo
    <2>3. CASE d = c
        BY <2>1, <2>2, <2>3 DEF Noticed, ChargedTo
    <2>4. CASE d # c
        <3>1. Looking(d, t)'
            BY <2>1, <2>4 DEF Looking, ChargedTo
        <3> QED BY <2>2, <3>1 DEF Noticed
    <2> QED BY <2>3, <2>4
<1> QED BY <1>1, <1>2 DEF Noticed

LEMMA CallStepNoticed ==
    ASSUME Steady, TypeOK, StageKnown, Accounted, Draining, Underway, CatchingUp,
           NEW c \in Calls, Step(c), NEW a \in Accounts, NEW t \in Labelled, Reached(a, t)'
    PROVE  Noticed(a, t)'
<1> USE DEF Goto, store, history
<1>0. /\ AccountOf[c] \in Accounts /\ t \in Thresholds /\ Limit(a)' = Limit(a)
      /\ pc \in [Calls -> Parked \cup InHook]
      /\ pending \in [Calls -> SUBSET Thresholds]
      /\ fired \in [Accounts -> [Thresholds -> Nat \cup {Never}]]
    <2>1. UNCHANGED limitKey
        BY DEF Step, ReadLimit, Grant, Reject, Reconcile, Release, Settle, Unkey,
               ReadAlertLimit, ReadSpent, ReadFlag, MarkFired
    <2> QED BY <2>1, CallTyped, BudgetAssumption DEF Limit, TypeOK
\* Before a settlement and at any other step, it was reached already.
<1>1. ASSUME SettledCost(a)' = SettledCost(a) PROVE Reached(a, t) /\ Noticed(a, t)
    BY <1>0, <1>1 DEF Reached, Crosses, CatchingUp
<1>2. ASSUME UNCHANGED <<cost, settledIn, period>> PROVE Noticed(a, t)
    <2>1. SettledCost(a)' = SettledCost(a)
        BY <1>2 DEF SettledCost, SettledNow, ChargedTo
    <2> QED BY <1>1, <2>1
<1>3. ASSUME UNCHANGED <<cost, settledIn, period, fired, pending>>,
             \A d \in Calls \ {c} : pc'[d] = pc[d],
             pc[c] \notin {"spent", "exists", "mark"},
             pc[c] \in {"unkey", "limit"} => pc'[c] \in {"limit", "spent"}
      PROVE  Noticed(a, t)'
    BY <1>2, <1>3, OthersLook DEF Looking
<1>4. CASE ReadLimit(c) BY <1>0, <1>3, <1>4 DEF ReadLimit
<1>5. CASE Grant(c) BY <1>0, <1>3, <1>5 DEF Grant
<1>6. CASE Reject(c) BY <1>0, <1>3, <1>6 DEF Reject
<1>7. CASE Unkey(c) BY <1>0, <1>3, <1>7 DEF Unkey
<1>8. CASE ReadAlertLimit(c) BY <1>0, <1>3, <1>8 DEF ReadAlertLimit
<1>9. ASSUME NEW actual \in Nat, Settle(c, actual), pc[c] = "held", UNCHANGED pending,
             \/ pc' = [pc EXCEPT ![c] = "unkey"]
             \/ pc' = [pc EXCEPT ![c] = "unkeyReleased"] /\ actual = 0
      PROVE  Noticed(a, t)'
    <2>1. fired' = fired
        BY <1>9 DEF Settle
    <2>2. CASE a = AccountOf[c] /\ pc' = [pc EXCEPT ![c] = "unkey"]
        BY <1>0, <2>2 DEF Noticed, Looking, ChargedTo
    <2>3. CASE a # AccountOf[c] \/ actual = 0
        <3>1. SettledCost(a)' = SettledCost(a) + IF a = AccountOf[c] THEN actual ELSE 0
            BY <1>9, SettledCostGrows DEF Accounted
        <3>2. SettledCost(a)' = SettledCost(a)
            BY <2>3, <3>1, BalanceTyped DEF Accounted
        <3> QED BY <1>0, <1>1, <1>9, <2>1, <3>2, OthersLook DEF Looking
    <2> QED BY <1>9, <2>2, <2>3
<1>10. CASE Reconcile(c)
    <2>1. PICK actual \in Costs : Settle(c, actual)
        BY <1>10 DEF Reconcile
    <2>2. actual \in Nat /\ pc[c] = "held" /\ pc' = [pc EXCEPT ![c] = "unkey"]
        BY <1>10, BudgetAssumption DEF Reconcile
    <2> QED BY <1>9, <2>1, <2>2 DEF Settle
<1>11. CASE Release(c)
    <2>1. /\ 0 \in Nat /\ Settle(c, 0) /\ pc[c] = "held"
          /\ pc' = [pc EXCEPT ![c] = "unkeyReleased"]
        BY <1>11 DEF Release
    <2> QED BY <1>9, <2>1 DEF Settle
<1>12. CASE ReadSpent(c)
    <2>1. /\ pc[c] = "spent" /\ VisitNext(c, Crossed(c)) /\ fired' = fired
          /\ UNCHANGED <<cost, settledIn, period>>
        BY <1>12 DEF ReadSpent
    <2>2. ASSUME AccountOf[c] = a PROVE Looking(c, t)'
        <3>1. SettledCost(a)' = SettledCost(a)
            BY <2>1 DEF SettledCost, SettledNow, ChargedTo
        <3>2. t \in Crossed(c)
            BY <1>1, <2>1, <2>2, <3>1, CheckSeesReached
        <3> QED BY <1>0, <2>1, <3>2 DEF VisitNext, Looking
    <2> QED BY <1>0, <1>2, <2>1, <2>2, OthersLook DEF VisitNext
<1>13. CASE ReadFlag(c)
    <2>1. PICK u \in pending[c] : IF AlreadyFired(AccountOf[c], u)
                                  THEN VisitNext(c, pending[c] \ {u})
                                  ELSE Goto(c, "mark") /\ UNCHANGED pending
        BY <1>13 DEF ReadFlag
    <2>2. pc[c] = "exists" /\ fired' = fired /\ UNCHANGED <<cost, settledIn, period>>
        BY <1>13 DEF ReadFlag
    <2>3. AccountOf[c] = a /\ Looking(c, t) => Looking(c, t)' \/ fired'[a][t] # Never
        BY <1>0, <2>1, <2>2 DEF VisitNext, AlreadyFired, Looking
    <2> QED BY <1>0, <1>2, <2>1, <2>2, <2>3, OthersLook DEF VisitNext
<1>14. CASE MarkFired(c)
    <2>1. PICK u \in pending[c] :
            /\ fired' = [fired EXCEPT ![AccountOf[c]][u] = readIn[c]]
            /\ VisitNext(c, pending[c] \ {u})
        BY <1>14 DEF MarkFired
    <2>2. pc[c] = "mark" /\ readIn[c] # Never /\ UNCHANGED <<cost, settledIn, period>>
        BY <1>14 DEF MarkFired, Underway
    <2>3. fired[a][t] # Never => fired'[a][t] # Never
        BY <1>0, <2>1, <2>2
    <2>4. AccountOf[c] = a /\ Looking(c, t) => Looking(c, t)' \/ fired'[a][t] # Never
        BY <1>0, <2>1, <2>2 DEF VisitNext, Looking
    <2> QED BY <1>0, <1>2, <2>1, <2>2, <2>3, <2>4, OthersLook DEF VisitNext
<1> QED BY <1>4, <1>5, <1>6, <1>7, <1>8, <1>10, <1>11, <1>12, <1>13, <1>14 DEF Step

LEMMA StepCatchingUp ==
    ASSUME Steady, TypeOK, StageKnown, Accounted, Draining, Underway, CatchingUp,
           [Next]_vars
    PROVE  CatchingUp'
<1>1. ASSUME NEW c \in Calls, Step(c) PROVE CatchingUp'
    BY <1>1, CallStepNoticed DEF CatchingUp
<1>2. ASSUME NEW c \in Calls, ExpireReservation(c) PROVE CatchingUp'
    BY <1>2 DEF ExpireReservation, tasks, history, CatchingUp, Reached, Noticed, Looking,
                ChargedTo, SettledCost, SettledNow, Limit, Crosses
<1>3. CASE UNCHANGED vars
    BY <1>3 DEF vars, store, tasks, history, CatchingUp, Reached, Noticed, Looking,
                ChargedTo, SettledCost, SettledNow, Limit, Crosses
<1> QED BY <1>1, <1>2, <1>3, NobodyResets DEF Next, Steady

\* When no call is in flight the settled calls have cost the whole spend, and
\* nobody is left to look.
LEMMA CaughtUpAtRest ==
    ASSUME TypeOK, Accounted, Draining, CatchingUp
    PROVE  ThresholdsCaughtUp
<1> SUFFICES ASSUME \A c \in Calls : pc[c] \in Over \cup {"new"},
                    NEW a \in Accounts, NEW t \in Labelled,
                    Limit(a) > 0, Crosses(spent[a], Limit(a), t)
             PROVE  fired[a][t] # Never
    BY DEF ThresholdsCaughtUp
<1>1. spent[a] = SettledCost(a)
    BY DrainedIsExact
<1>2. Noticed(a, t)
    BY <1>1 DEF Reached, CatchingUp
<1>3. \A c \in ChargedTo(a) : ~Looking(c, t)
    BY DEF Looking, ChargedTo, Over
<1> QED BY <1>2, <1>3 DEF Noticed

\* On either store, and whichever of the interleaved success hooks sees it, every
\* threshold that the spend has reached is fired once the calls are over.
THEOREM AlertsCatchUp == ASSUME Steady PROVE Spec => []ThresholdsCaughtUp
<1>1. Init => Underway /\ CatchingUp
    <2> SUFFICES ASSUME Init PROVE Underway /\ CatchingUp
        OBVIOUS
    <2>1. Underway
        BY DEF Init, Underway
    <2>2. ASSUME NEW a \in Accounts, NEW t \in Labelled, Reached(a, t) PROVE Noticed(a, t)
        <3>1. SettledNow(a) = {}
            BY DEF Init, SettledNow, ChargedTo
        <3>2. SettledCost(a) = 0
            BY <3>1, TotalEmpty DEF SettledCost
        <3>3. Limit(a) > 0 /\ Limit(a) \in Int /\ t \in Nat \ {0}
            BY <2>2, BudgetAssumption DEF Init, Reached, Limit
        <3>4. t * Limit(a) > 0
            BY <3>3
        <3> QED BY <2>2, <3>2, <3>3, <3>4 DEF Reached, Crosses
    <2> QED BY <2>1, <2>2 DEF CatchingUp
<1>2. TypeOK /\ StageKnown /\ Accounted /\ Draining /\ Underway /\ CatchingUp /\ [Next]_vars
        => Underway' /\ CatchingUp'
    BY StepUnderway, StepCatchingUp
<1>3. TypeOK /\ Accounted /\ Draining /\ CatchingUp => ThresholdsCaughtUp
    BY CaughtUpAtRest
<1>4. Spec => []Draining
    BY StaysDraining DEF Steady
<1> QED BY <1>1, <1>2, <1>3, <1>4, TypeCorrect, StaysAccounted, PTL DEF Spec

=============================================================================
