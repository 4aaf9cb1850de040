--------------------------- MODULE ProxyHooksProofs ---------------------------
(***************************************************************************)
(* The hooks keep every hold accounted for, refuse for free and isolate    *)
(* agents, for every number of requests and agents, whichever engine calls *)
(* raise and however the hooks, resets and restarts interleave.            *)
(*                                                                         *)
(* The argument is per request: Sound(r) says what its program counter     *)
(* tells of its hold, and a step of another request does not touch it.     *)
(***************************************************************************)
EXTENDS ProxyHooks, UnitsProofs

LEMMA IdsTyped == \A r \in Requests : Before(r) \in Agents /\ After(r) \in Agents
  BY ProxyAssumption DEF Before, After, ExtractAgentId

LEMMA CountedTyped ==
  ASSUME errors \in [Agents -> 0..ErrorThreshold], NEW a \in Agents
  PROVE  Counted(a) \in 0..ErrorThreshold
  BY ProxyAssumption DEF Counted

LEMMA Losing == \A S, c : c \in S /\ c \in LosesHold => S \cap LosesHold # {}
  OBVIOUS

\* The actions in which something happens to the breakers.
BreakerTyped == state \in [Agents -> Breaker!States] /\ cooling \in [Agents -> BOOLEAN]

LEMMA BreakerKept ==
  ASSUME BreakerTyped, NEW a \in Agents,
         Look(a) \/ Breaker!Trip(a) \/ Breaker!Recover(a) \/ UNCHANGED breaker
  PROVE  BreakerTyped'
  <1>1. CASE Breaker!Trip(a)
    BY <1>1 DEF BreakerTyped, Breaker!Trip, Breaker!States
  <1>2. CASE Breaker!Recover(a)
    BY <1>2 DEF BreakerTyped, Breaker!Recover, Breaker!States
  <1>3. CASE Look(a) \/ UNCHANGED breaker
    BY <1>3 DEF BreakerTyped, Look, Breaker!Probe, Breaker!States, breaker
  <1> QED BY <1>1, <1>2, <1>3

LedgerTyped ==
  /\ spent \in [Agents -> Int]
  /\ stage \in [Requests -> {"none", "held", "settled"}]
  /\ hold \in [Requests -> Costs \cup {0}]

LEMMA HoldTyped ==
  ASSUME LedgerTyped, NEW r \in Requests, NEW e \in Costs, Ledger!Hold(r, e)
  PROVE  LedgerTyped'
  <1>1. e \in Int
    BY ProxyAssumption
  <1>2. spent' = [spent EXCEPT ![Before(r)] = @ + e]
    BY DEF Ledger!Hold
  <1>3. spent' \in [Agents -> Int]
    BY <1>1, <1>2, IdsTyped DEF LedgerTyped
  <1> QED BY <1>3 DEF LedgerTyped, Ledger!Hold

LEMMA SettleTyped ==
  ASSUME LedgerTyped, NEW r \in Requests, NEW c \in Costs \cup {0}, Ledger!Settle(r, c)
  PROVE  LedgerTyped'
  <1>0. Costs \cup {0} \subseteq Int
    BY ProxyAssumption
  <1>1. c \in Int /\ hold[r] \in Int
    BY <1>0 DEF LedgerTyped
  <1>2. spent' = [spent EXCEPT ![Before(r)] = @ + c - hold[r]]
    BY DEF Ledger!Settle
  <1>3. spent' \in [Agents -> Int]
    BY <1>1, <1>2, IdsTyped DEF LedgerTyped
  <1> QED BY <1>3 DEF LedgerTyped, Ledger!Settle

-----------------------------------------------------------------------------
(* The invariant of one request                                            *)

BeforeHold == {"new", "screening", "reserving", "tripping"}

Sound(r) ==
  /\ pc[r] \in BeforeHold => stage[r] = "none" /\ raised[r] = {} /\ r \notin carried
  /\ pc[r] \in Refused => stage[r] = "none"
  /\ pc[r] \in {"tripping", "refused"} => mode = "enforce"
  /\ pc[r] = "failed" => mode = "enforce" \/ raised[r] = {"check"}
  /\ pc[r] = "sent" => IF r \in carried THEN stage[r] = "held"
                       ELSE stage[r] = "none" \/ "reserve" \in raised[r]
  /\ pc[r] = "sent" /\ mode = "enforce" => r \in carried \/ "reserve" \in raised[r]
  /\ pc[r] = "alerting" => stage[r] = "settled" \/ "reconcile" \in raised[r]
  /\ pc[r] \in Over /\ stage[r] = "held" => raised[r] \cap LosesHold # {}

IInv == TypeOK /\ \A r \in Requests : Sound(r)

\* What a step of r leaves alone of the other requests.
OthersKept(r) ==
  /\ mode' = mode
  /\ \A q \in Requests \ {r} : /\ pc'[q] = pc[q]
                               /\ stage'[q] = stage[q]
                               /\ raised'[q] = raised[q]
                               /\ q \in carried' <=> q \in carried

LEMMA OthersSound ==
  ASSUME IInv, NEW r \in Requests, OthersKept(r), Sound(r)', TypeOK'
  PROVE  IInv'
  <1> SUFFICES ASSUME NEW q \in Requests, q # r PROVE Sound(q)'
    BY DEF IInv
  <1> QED BY DEF IInv, Sound, OthersKept

LEMMA InitSound == Init => IInv
  <1> SUFFICES ASSUME Init PROVE IInv
    OBVIOUS
  <1>1. TypeOK
    BY ProxyAssumption DEF Init, TypeOK, Ledger!Init, Breaker!States, RaisedCalls
  <1>2. ASSUME NEW r \in Requests PROVE Sound(r)
    BY DEF Init, Sound, Ledger!Init, Refused, Over
  <1> QED BY <1>1, <1>2 DEF IInv

-----------------------------------------------------------------------------
(* Steps: one lemma per action, which leaves the other requests alone and  *)
(* keeps its own sound                                                     *)

LEMMA CheckBreakerSound ==
  ASSUME IInv, NEW r \in Requests, CheckBreaker(r)
  PROVE  IInv' /\ OthersKept(r)
  <1>1. BreakerTyped'
    BY BreakerKept, IdsTyped DEF IInv, TypeOK, BreakerTyped, breaker, CheckBreaker
  <1>2. LedgerTyped'
    BY DEF IInv, TypeOK, LedgerTyped, ledger, CheckBreaker
  <1>3. TypeOK'
    BY <1>1, <1>2, IdsTyped, ProxyAssumption
       DEF IInv, TypeOK, BreakerTyped, LedgerTyped, Goto, engines, CheckBreaker,
           AfterCheck, InFlight, Over, Refused
  <1>4. OthersKept(r)
    BY DEF OthersKept, IInv, TypeOK, Goto, CheckBreaker, AfterCheck, ledger, engines
  <1>5. Sound(r)'
    BY DEF Sound, IInv, TypeOK, Goto, CheckBreaker, AfterCheck, BeforeHold, Refused,
           Over, ledger, engines
  <1> QED BY <1>3, <1>4, <1>5, OthersSound

LEMMA CheckRaisesSound ==
  ASSUME IInv, NEW r \in Requests, CheckRaises(r)
  PROVE  IInv' /\ OthersKept(r)
  <1>1. BreakerTyped'
    BY BreakerKept, IdsTyped DEF IInv, TypeOK, BreakerTyped, breaker, CheckRaises
  <1>2. LedgerTyped'
    BY DEF IInv, TypeOK, LedgerTyped, ledger, CheckRaises
  <1>3. TypeOK'
    BY <1>1, <1>2, IdsTyped, ProxyAssumption
       DEF IInv, TypeOK, BreakerTyped, LedgerTyped, Goto, engines, CheckRaises,
           InFlight, Over, Refused, Raise, RaisedCalls, LosesHold
  <1>4. OthersKept(r)
    BY DEF OthersKept, IInv, TypeOK, Goto, CheckRaises, ledger, engines, Raise
  <1>5. Sound(r)'
    BY DEF Sound, IInv, TypeOK, Goto, CheckRaises, BeforeHold, Refused, Over, ledger,
           engines, Raise, LosesHold
  <1> QED BY <1>3, <1>4, <1>5, OthersSound

LEMMA ScreenSound ==
  ASSUME IInv, NEW r \in Requests, Screen(r)
  PROVE  IInv' /\ OthersKept(r)
  <1>1. BreakerTyped'
    BY DEF IInv, TypeOK, BreakerTyped, breaker, engines, Screen
  <1>2. LedgerTyped'
    BY DEF IInv, TypeOK, LedgerTyped, ledger, engines, Screen
  <1>3. TypeOK'
    BY <1>1, <1>2, IdsTyped, ProxyAssumption
       DEF IInv, TypeOK, BreakerTyped, LedgerTyped, Goto, engines, Screen, InFlight,
           Over, Refused
  <1>4. OthersKept(r)
    BY DEF OthersKept, IInv, TypeOK, Goto, Screen, ledger, engines
  <1>5. Sound(r)'
    BY DEF Sound, IInv, TypeOK, Goto, Screen, BeforeHold, Refused, Over, ledger, engines
  <1> QED BY <1>3, <1>4, <1>5, OthersSound

LEMMA ReserveSound ==
  ASSUME IInv, NEW r \in Requests, Reserve(r)
  PROVE  IInv' /\ OthersKept(r)
  <1>1. BreakerTyped'
    BY DEF IInv, TypeOK, BreakerTyped, breaker, Reserve
  <1>2. LedgerTyped'
    BY HoldTyped DEF IInv, TypeOK, LedgerTyped, ledger, Reserve
  <1>3. TypeOK'
    BY <1>1, <1>2, IdsTyped, ProxyAssumption
       DEF IInv, TypeOK, BreakerTyped, LedgerTyped, Goto, engines, Reserve, InFlight,
           Over, Refused
  <1>4. OthersKept(r)
    BY DEF OthersKept, IInv, TypeOK, Goto, Reserve, Ledger!Hold, ledger
  <1>5. Sound(r)'
    BY DEF Sound, IInv, TypeOK, Goto, Reserve, BeforeHold, Refused, Over, Ledger!Hold,
           ledger
  <1> QED BY <1>3, <1>4, <1>5, OthersSound

LEMMA RejectSound ==
  ASSUME IInv, NEW r \in Requests, Reject(r)
  PROVE  IInv' /\ OthersKept(r)
  <1>1. BreakerTyped'
    BY DEF IInv, TypeOK, BreakerTyped, breaker, engines, Reject
  <1>2. LedgerTyped'
    BY DEF IInv, TypeOK, LedgerTyped, ledger, engines, Reject, Deny, AfterDenial
  <1>3. TypeOK'
    BY <1>1, <1>2, IdsTyped, ProxyAssumption
       DEF IInv, TypeOK, BreakerTyped, LedgerTyped, Goto, engines, Reject, Deny,
           AfterDenial, InFlight, Over, Refused
  <1>4. OthersKept(r)
    BY DEF OthersKept, IInv, TypeOK, Goto, Reject, Deny, AfterDenial, ledger, engines
  <1>5. Sound(r)'
    <2>1. Sound(r) /\ TypeOK
      BY DEF IInv
    <2>2. pc[r] = "reserving" /\ pc'[r] = AfterDenial(r)
          /\ raised'[r] = raised[r]
      BY <2>1 DEF TypeOK, Goto, Reject
    <2>3. stage'[r] = stage[r] /\ mode' = mode /\ carried' = carried
      BY <2>1 DEF TypeOK, Reject, Deny, AfterDenial, ledger, engines
    <2> QED BY <2>1, <2>2, <2>3, Losing
       DEF Sound, BeforeHold, Refused, Over, LosesHold, AfterDenial
  <1> QED BY <1>3, <1>4, <1>5, OthersSound

LEMMA ReserveRaisesSound ==
  ASSUME IInv, NEW r \in Requests, ReserveRaises(r)
  PROVE  IInv' /\ OthersKept(r)
  <1>1. BreakerTyped'
    BY DEF IInv, TypeOK, BreakerTyped, breaker, ReserveRaises
  <1>2. LedgerTyped'
    BY HoldTyped DEF IInv, TypeOK, LedgerTyped, ledger, ReserveRaises
  <1>3. TypeOK'
    BY <1>1, <1>2, IdsTyped, ProxyAssumption
       DEF IInv, TypeOK, BreakerTyped, LedgerTyped, Goto, engines, ReserveRaises,
           InFlight, Over, Refused, Raise, RaisedCalls, LosesHold
  <1>4. OthersKept(r)
    BY DEF OthersKept, IInv, TypeOK, Goto, ReserveRaises, Ledger!Hold, ledger, Raise
  <1>5. Sound(r)'
    <2>1. Sound(r) /\ TypeOK
      BY DEF IInv
    <2>2. pc[r] = "reserving" /\ pc'[r] = "sent"
          /\ raised'[r] = raised[r] \cup {"reserve"}
      BY <2>1 DEF TypeOK, Goto, ReserveRaises, Raise
    <2>3. stage'[r] \in {stage[r], "held"} /\ mode' = mode /\ carried' = carried
      BY <2>1 DEF TypeOK, ReserveRaises, Ledger!Hold, ledger
    <2> QED BY <2>1, <2>2, <2>3, Losing DEF Sound, BeforeHold, Refused, Over, LosesHold
  <1> QED BY <1>3, <1>4, <1>5, OthersSound

LEMMA TripAndRefuseSound ==
  ASSUME IInv, NEW r \in Requests, TripAndRefuse(r)
  PROVE  IInv' /\ OthersKept(r)
  <1>1. BreakerTyped'
    BY BreakerKept, IdsTyped DEF IInv, TypeOK, BreakerTyped, breaker, TripAndRefuse
  <1>2. LedgerTyped'
    BY DEF IInv, TypeOK, LedgerTyped, ledger, TripAndRefuse
  <1>3. TypeOK'
    BY <1>1, <1>2, IdsTyped, ProxyAssumption
       DEF IInv, TypeOK, BreakerTyped, LedgerTyped, Goto, engines, TripAndRefuse,
           InFlight, Over, Refused
  <1>4. OthersKept(r)
    BY DEF OthersKept, IInv, TypeOK, Goto, TripAndRefuse, ledger, engines
  <1>5. Sound(r)'
    BY DEF Sound, IInv, TypeOK, Goto, TripAndRefuse, BeforeHold, Refused, Over, ledger,
           engines
  <1> QED BY <1>3, <1>4, <1>5, OthersSound

LEMMA TripRaisesSound ==
  ASSUME IInv, NEW r \in Requests, TripRaises(r)
  PROVE  IInv' /\ OthersKept(r)
  <1>1. BreakerTyped'
    BY BreakerKept, IdsTyped DEF IInv, TypeOK, BreakerTyped, breaker, TripRaises
  <1>2. LedgerTyped'
    BY DEF IInv, TypeOK, LedgerTyped, ledger, TripRaises
  <1>3. TypeOK'
    BY <1>1, <1>2, IdsTyped, ProxyAssumption
       DEF IInv, TypeOK, BreakerTyped, LedgerTyped, Goto, engines, TripRaises, InFlight,
           Over, Refused, Raise, RaisedCalls, LosesHold
  <1>4. OthersKept(r)
    BY DEF OthersKept, IInv, TypeOK, Goto, TripRaises, ledger, engines, Raise
  <1>5. Sound(r)'
    BY DEF Sound, IInv, TypeOK, Goto, TripRaises, BeforeHold, Refused, Over, ledger,
           engines, Raise, LosesHold
  <1> QED BY <1>3, <1>4, <1>5, OthersSound

LEMMA SucceedSound ==
  ASSUME IInv, NEW r \in Requests, Succeed(r)
  PROVE  IInv' /\ OthersKept(r)
  <1>1. BreakerTyped'
    BY BreakerKept, IdsTyped
       DEF IInv, TypeOK, BreakerTyped, breaker, Succeed, RecordSuccess
  <1>2. LedgerTyped'
    BY DEF IInv, TypeOK, LedgerTyped, ledger, Succeed
  <1>e. errors' \in [Agents -> 0..ErrorThreshold]
    BY CountedTyped, IdsTyped, ProxyAssumption
       DEF IInv, TypeOK, Succeed, RecordSuccess, breaker
  <1>3. TypeOK'
    BY <1>1, <1>2, <1>e, IdsTyped, ProxyAssumption
       DEF IInv, TypeOK, BreakerTyped, LedgerTyped, Goto, engines, Succeed, Record,
           AfterSuccess, InFlight, Over, Refused
  <1>4. OthersKept(r)
    BY DEF OthersKept, IInv, TypeOK, Goto, Succeed, Record, AfterSuccess, ledger,
           engines
  <1>5. Sound(r)'
    <2>1. Sound(r) /\ TypeOK
      BY DEF IInv
    <2>2. pc[r] = "sent" /\ pc'[r] = AfterSuccess(r)
          /\ raised'[r] = raised[r]
      BY <2>1 DEF TypeOK, Goto, Succeed
    <2>3. stage'[r] = stage[r] /\ mode' = mode /\ carried' = carried
      BY <2>1 DEF TypeOK, Succeed, Record, AfterSuccess, ledger, engines
    <2> QED BY <2>1, <2>2, <2>3, Losing
       DEF Sound, BeforeHold, Refused, Over, LosesHold, AfterSuccess
  <1> QED BY <1>3, <1>4, <1>5, OthersSound

LEMMA SuccessRaisesSound ==
  ASSUME IInv, NEW r \in Requests, SuccessRaises(r)
  PROVE  IInv' /\ OthersKept(r)
  <1>1. BreakerTyped'
    BY BreakerKept, IdsTyped DEF IInv, TypeOK, BreakerTyped, breaker, SuccessRaises
  <1>2. LedgerTyped'
    BY DEF IInv, TypeOK, LedgerTyped, ledger, SuccessRaises
  <1>e. errors' \in [Agents -> 0..ErrorThreshold]
    BY CountedTyped, IdsTyped, ProxyAssumption DEF IInv, TypeOK, SuccessRaises
  <1>3. TypeOK'
    BY <1>1, <1>2, <1>e, IdsTyped, ProxyAssumption
       DEF IInv, TypeOK, BreakerTyped, LedgerTyped, Goto, engines, SuccessRaises,
           Record, InFlight, Over, Refused, Raise, RaisedCalls, LosesHold
  <1>4. OthersKept(r)
    BY DEF OthersKept, IInv, TypeOK, Goto, SuccessRaises, Record, ledger, engines, Raise
  <1>5. Sound(r)'
    <2>1. Sound(r) /\ TypeOK
      BY DEF IInv
    <2>2. pc[r] = "sent" /\ pc'[r] = "done"
          /\ raised'[r] = raised[r] \cup {"record_success"}
      BY <2>1 DEF TypeOK, Goto, SuccessRaises, Raise
    <2>3. stage'[r] = stage[r] /\ mode' = mode /\ carried' = carried
      BY <2>1 DEF TypeOK, SuccessRaises, Record, ledger, engines
    <2> QED BY <2>1, <2>2, <2>3, Losing DEF Sound, BeforeHold, Refused, Over, LosesHold
  <1> QED BY <1>3, <1>4, <1>5, OthersSound

LEMMA ReconcileSound ==
  ASSUME IInv, NEW r \in Requests, Reconcile(r)
  PROVE  IInv' /\ OthersKept(r)
  <1>1. BreakerTyped'
    BY DEF IInv, TypeOK, BreakerTyped, breaker, Reconcile
  <1>2. LedgerTyped'
    BY SettleTyped DEF IInv, TypeOK, LedgerTyped, ledger, Reconcile
  <1>3. TypeOK'
    BY <1>1, <1>2, IdsTyped, ProxyAssumption
       DEF IInv, TypeOK, BreakerTyped, LedgerTyped, Goto, engines, Reconcile, InFlight,
           Over, Refused
  <1>4. OthersKept(r)
    BY DEF OthersKept, IInv, TypeOK, Goto, Reconcile, Ledger!Settle, ledger
  <1>5. Sound(r)'
    BY DEF Sound, IInv, TypeOK, Goto, Reconcile, BeforeHold, Refused, Over,
           Ledger!Settle, ledger
  <1> QED BY <1>3, <1>4, <1>5, OthersSound

LEMMA ReconcileRaisesSound ==
  ASSUME IInv, NEW r \in Requests, ReconcileRaises(r)
  PROVE  IInv' /\ OthersKept(r)
  <1>1. BreakerTyped'
    BY DEF IInv, TypeOK, BreakerTyped, breaker, ReconcileRaises
  <1>2. LedgerTyped'
    BY SettleTyped DEF IInv, TypeOK, LedgerTyped, ledger, ReconcileRaises
  <1>3. TypeOK'
    BY <1>1, <1>2, IdsTyped, ProxyAssumption
       DEF IInv, TypeOK, BreakerTyped, LedgerTyped, Goto, engines, ReconcileRaises,
           InFlight, Over, Refused, Raise, RaisedCalls, LosesHold
  <1>4. OthersKept(r)
    BY DEF OthersKept, IInv, TypeOK, Goto, ReconcileRaises, Ledger!Settle, ledger, Raise
  <1>5. Sound(r)'
    BY DEF Sound, IInv, TypeOK, Goto, ReconcileRaises, BeforeHold, Refused, Over,
           Ledger!Settle, ledger, Raise, LosesHold
  <1> QED BY <1>3, <1>4, <1>5, OthersSound

LEMMA CheckThresholdsSound ==
  ASSUME IInv, NEW r \in Requests, CheckThresholds(r)
  PROVE  IInv' /\ OthersKept(r)
  <1>1. BreakerTyped'
    BY DEF IInv, TypeOK, BreakerTyped, breaker, engines, CheckThresholds
  <1>2. LedgerTyped'
    BY DEF IInv, TypeOK, LedgerTyped, ledger, engines, CheckThresholds, Alert
  <1>3. TypeOK'
    BY <1>1, <1>2, IdsTyped, ProxyAssumption
       DEF IInv, TypeOK, BreakerTyped, LedgerTyped, Goto, engines, CheckThresholds,
           Alert, InFlight, Over, Refused
  <1>4. OthersKept(r)
    BY DEF OthersKept, IInv, TypeOK, Goto, CheckThresholds, Alert, ledger, engines
  <1>5. Sound(r)'
    <2>1. Sound(r) /\ TypeOK
      BY DEF IInv
    <2>2. pc[r] = "alerting" /\ pc'[r] = "done"
          /\ raised'[r] = raised[r]
      BY <2>1 DEF TypeOK, Goto, CheckThresholds
    <2>3. stage'[r] = stage[r] /\ mode' = mode /\ carried' = carried
      BY <2>1 DEF TypeOK, CheckThresholds, Alert, ledger, engines
    <2> QED BY <2>1, <2>2, <2>3, Losing DEF Sound, BeforeHold, Refused, Over, LosesHold
  <1> QED BY <1>3, <1>4, <1>5, OthersSound

LEMMA ThresholdsRaiseSound ==
  ASSUME IInv, NEW r \in Requests, ThresholdsRaise(r)
  PROVE  IInv' /\ OthersKept(r)
  <1>1. BreakerTyped'
    BY DEF IInv, TypeOK, BreakerTyped, breaker, engines, ThresholdsRaise
  <1>2. LedgerTyped'
    BY DEF IInv, TypeOK, LedgerTyped, ledger, engines, ThresholdsRaise, Alert
  <1>3. TypeOK'
    BY <1>1, <1>2, IdsTyped, ProxyAssumption
       DEF IInv, TypeOK, BreakerTyped, LedgerTyped, Goto, engines, ThresholdsRaise,
           Alert, InFlight, Over, Refused, Raise, RaisedCalls, LosesHold
  <1>4. OthersKept(r)
    BY DEF OthersKept, IInv, TypeOK, Goto, ThresholdsRaise, Alert, ledger, engines,
           Raise
  <1>5. Sound(r)'
    <2>1. Sound(r) /\ TypeOK
      BY DEF IInv
    <2>2. pc[r] = "alerting" /\ pc'[r] = "done"
          /\ raised'[r] = raised[r] \cup {"check_thresholds"}
      BY <2>1 DEF TypeOK, Goto, ThresholdsRaise, Raise
    <2>3. stage'[r] = stage[r] /\ mode' = mode /\ carried' = carried
      BY <2>1 DEF TypeOK, ThresholdsRaise, Alert, ledger, engines
    <2> QED BY <2>1, <2>2, <2>3, Losing DEF Sound, BeforeHold, Refused, Over, LosesHold
  <1> QED BY <1>3, <1>4, <1>5, OthersSound

LEMMA FailSound ==
  ASSUME IInv, NEW r \in Requests, Fail(r)
  PROVE  IInv' /\ OthersKept(r)
  <1>1. BreakerTyped'
    BY BreakerKept, IdsTyped
       DEF IInv, TypeOK, BreakerTyped, breaker, Fail, RecordFailure, Look
  <1>2. LedgerTyped'
    BY DEF IInv, TypeOK, LedgerTyped, ledger, Fail
  <1>e. errors' \in [Agents -> 0..ErrorThreshold]
    BY CountedTyped, IdsTyped, ProxyAssumption DEF IInv, TypeOK, Fail, RecordFailure
  <1>3. TypeOK'
    BY <1>1, <1>2, <1>e, IdsTyped, ProxyAssumption
       DEF IInv, TypeOK, BreakerTyped, LedgerTyped, Goto, engines, Fail, AfterFailure,
           InFlight, Over, Refused
  <1>4. OthersKept(r)
    BY DEF OthersKept, IInv, TypeOK, Goto, Fail, AfterFailure, ledger, engines
  <1>5. Sound(r)'
    <2>1. Sound(r) /\ TypeOK
      BY DEF IInv
    <2>2. pc[r] = "sent" /\ pc'[r] = AfterFailure(r)
          /\ raised'[r] = raised[r]
      BY <2>1 DEF TypeOK, Goto, Fail
    <2>3. stage'[r] = stage[r] /\ mode' = mode /\ carried' = carried
      BY <2>1 DEF TypeOK, Fail, AfterFailure, ledger, engines
    <2> QED BY <2>1, <2>2, <2>3, Losing
       DEF Sound, BeforeHold, Refused, Over, LosesHold, AfterFailure
  <1> QED BY <1>3, <1>4, <1>5, OthersSound

LEMMA FailRaisesSound ==
  ASSUME IInv, NEW r \in Requests, FailRaises(r)
  PROVE  IInv' /\ OthersKept(r)
  <1>1. BreakerTyped'
    BY BreakerKept, IdsTyped DEF IInv, TypeOK, BreakerTyped, breaker, FailRaises
  <1>2. LedgerTyped'
    BY DEF IInv, TypeOK, LedgerTyped, ledger, FailRaises
  <1>e. errors' \in [Agents -> 0..ErrorThreshold]
    BY CountedTyped, IdsTyped, ProxyAssumption DEF IInv, TypeOK, FailRaises
  <1>3. TypeOK'
    BY <1>1, <1>2, <1>e, IdsTyped, ProxyAssumption
       DEF IInv, TypeOK, BreakerTyped, LedgerTyped, Goto, engines, FailRaises, InFlight,
           Over, Refused, Raise, RaisedCalls, LosesHold
  <1>4. OthersKept(r)
    BY DEF OthersKept, IInv, TypeOK, Goto, FailRaises, ledger, engines, Raise
  <1>5. Sound(r)'
    BY DEF Sound, IInv, TypeOK, Goto, FailRaises, BeforeHold, Refused, Over, ledger,
           engines, Raise, LosesHold
  <1> QED BY <1>3, <1>4, <1>5, OthersSound

LEMMA ReleaseSound ==
  ASSUME IInv, NEW r \in Requests, Release(r)
  PROVE  IInv' /\ OthersKept(r)
  <1>1. BreakerTyped'
    BY DEF IInv, TypeOK, BreakerTyped, breaker, Release
  <1>2. LedgerTyped'
    BY SettleTyped DEF IInv, TypeOK, LedgerTyped, ledger, Release
  <1>3. TypeOK'
    BY <1>1, <1>2, IdsTyped, ProxyAssumption
       DEF IInv, TypeOK, BreakerTyped, LedgerTyped, Goto, engines, Release, InFlight,
           Over, Refused
  <1>4. OthersKept(r)
    BY DEF OthersKept, IInv, TypeOK, Goto, Release, Ledger!Settle, ledger
  <1>5. Sound(r)'
    BY DEF Sound, IInv, TypeOK, Goto, Release, BeforeHold, Refused, Over, Ledger!Settle,
           ledger
  <1> QED BY <1>3, <1>4, <1>5, OthersSound

LEMMA ReleaseRaisesSound ==
  ASSUME IInv, NEW r \in Requests, ReleaseRaises(r)
  PROVE  IInv' /\ OthersKept(r)
  <1>1. BreakerTyped'
    BY DEF IInv, TypeOK, BreakerTyped, breaker, ReleaseRaises
  <1>2. LedgerTyped'
    BY SettleTyped DEF IInv, TypeOK, LedgerTyped, ledger, ReleaseRaises
  <1>3. TypeOK'
    BY <1>1, <1>2, IdsTyped, ProxyAssumption
       DEF IInv, TypeOK, BreakerTyped, LedgerTyped, Goto, engines, ReleaseRaises,
           InFlight, Over, Refused, Raise, RaisedCalls, LosesHold
  <1>4. OthersKept(r)
    BY DEF OthersKept, IInv, TypeOK, Goto, ReleaseRaises, Ledger!Settle, ledger, Raise
  <1>5. Sound(r)'
    BY DEF Sound, IInv, TypeOK, Goto, ReleaseRaises, BeforeHold, Refused, Over,
           Ledger!Settle, ledger, Raise, LosesHold
  <1> QED BY <1>3, <1>4, <1>5, OthersSound

\* Cooldowns, forgotten errors and resets touch no hold and no hook.
LEMMA EnvironmentSound ==
  ASSUME IInv, \/ \E a \in Agents : Elapse(a) \/ ForgetErrors(a) \/ Reset(a)
               \/ UNCHANGED vars
  PROVE  IInv'
  <1>1. UNCHANGED <<mode, known, ledger, alerted, pc, carried, raised>>
    BY DEF Elapse, ForgetErrors, Reset, vars, engines
  <1>2. BreakerTyped'
    <2>1. ASSUME NEW a \in Agents, Elapse(a) PROVE BreakerTyped'
      BY <2>1 DEF Elapse, Breaker!Elapse, IInv, TypeOK, BreakerTyped
    <2>2. ASSUME NEW a \in Agents, Reset(a) PROVE BreakerTyped'
      BY <2>2 DEF Reset, IInv, TypeOK, BreakerTyped, Breaker!States
    <2>3. ASSUME NEW a \in Agents, ForgetErrors(a) PROVE BreakerTyped'
      BY <2>3 DEF ForgetErrors, IInv, TypeOK, BreakerTyped, breaker
    <2>4. CASE UNCHANGED vars
      BY <2>4 DEF vars, engines, breaker, IInv, TypeOK, BreakerTyped
    <2> QED BY <2>1, <2>2, <2>3, <2>4
  <1>3. errors' \in [Agents -> 0..ErrorThreshold]
    <2>1. ASSUME NEW a \in Agents, ForgetErrors(a)
          PROVE  errors' \in [Agents -> 0..ErrorThreshold]
      BY <2>1, ProxyAssumption DEF ForgetErrors, IInv, TypeOK
    <2> QED BY <2>1 DEF Elapse, Reset, vars, engines, IInv, TypeOK
  <1>4. TypeOK'
    BY <1>1, <1>2, <1>3 DEF IInv, TypeOK, BreakerTyped, ledger
  <1>5. ASSUME NEW r \in Requests PROVE Sound(r)'
    BY <1>1 DEF IInv, Sound, ledger
  <1> QED BY <1>4, <1>5 DEF IInv

\* A request that a restart ends may leave its hold behind, and says so.
LEMMA RestartSound ==
  ASSUME IInv, Restart
  PROVE  IInv'
  <1>1. /\ UNCHANGED <<mode, breaker, ledger, alerted, carried>>
        /\ \A r \in Requests :
              IF pc[r] \in InFlight
              THEN pc'[r] = "dead" /\ raised'[r] = raised[r] \cup {"restart"}
              ELSE pc'[r] = pc[r] /\ raised'[r] = raised[r]
    BY DEF Restart
  <1>2. pc' \in [Requests -> {"new"} \cup InFlight \cup Over]
    BY DEF Restart, IInv, TypeOK, Over
  <1>3. raised' \in [Requests -> SUBSET RaisedCalls]
    BY DEF Restart, IInv, TypeOK, RaisedCalls, LosesHold
  <1>4. TypeOK'
    BY <1>1, <1>2, <1>3, ProxyAssumption DEF Restart, IInv, TypeOK, breaker, ledger
  <1>5. ASSUME NEW r \in Requests PROVE Sound(r)'
    <2>1. CASE pc[r] \in InFlight
      BY <1>1, <2>1, Losing DEF Sound, BeforeHold, Refused, Over, LosesHold
    <2>2. CASE pc[r] \notin InFlight
      BY <1>1, <2>2 DEF Sound, IInv, ledger
    <2> QED BY <2>1, <2>2
  <1> QED BY <1>4, <1>5 DEF IInv

\* A hook of r keeps the invariant and leaves the other requests alone.
LEMMA HookSound ==
  ASSUME IInv, NEW r \in Requests, CheckBreaker(r) \/ Step(r) \/ Raises(r)
  PROVE  IInv' /\ OthersKept(r)
  <1>1. CASE CheckBreaker(r) \/ Step(r)
    BY <1>1, CheckBreakerSound, ScreenSound, ReserveSound, RejectSound,
       TripAndRefuseSound, SucceedSound, ReconcileSound, CheckThresholdsSound,
       FailSound, ReleaseSound
       DEF Step
  <1>2. CASE Raises(r)
    BY <1>2, CheckRaisesSound, ReserveRaisesSound, TripRaisesSound,
       SuccessRaisesSound, ReconcileRaisesSound, ThresholdsRaiseSound,
       FailRaisesSound, ReleaseRaisesSound
       DEF Raises
  <1> QED BY <1>1, <1>2

LEMMA StepSound == IInv /\ [Next]_vars => IInv'
  BY HookSound, EnvironmentSound, RestartSound DEF Next

LEMMA AlwaysSound == Spec => []IInv
  BY InitSound, StepSound, PTL DEF Spec

-----------------------------------------------------------------------------
(* What the hooks promise                                                  *)

\* Every reachable state is well typed.
THEOREM TypeCorrect == Spec => []TypeOK
  <1>1. IInv => TypeOK
    BY DEF IInv
  <1> QED BY <1>1, AlwaysSound, PTL

\* A 429, and a request that fails on an error of the store, cost the agent
\* nothing.
THEOREM RefusalsCostNothing == Spec => []RefusalsAreFree
  <1>1. IInv => RefusalsAreFree
    BY DEF IInv, Sound, RefusalsAreFree
  <1> QED BY <1>1, AlwaysSound, PTL

\* What enforce mode lets through holds budget, unless reserve raised.
THEOREM EnforcedCallsHold == Spec => []EnforcedCallsAreFunded
  <1>1. IInv => EnforcedCallsAreFunded
    BY DEF IInv, Sound, EnforcedCallsAreFunded
  <1> QED BY <1>1, AlwaysSound, PTL

\* A hold outlives its request only where one of five engine calls raised or
\* the proxy restarted.
THEOREM HoldsAreNotLost == Spec => []NoHoldIsLost
  <1>1. IInv => NoHoldIsLost
    BY DEF IInv, Sound, NoHoldIsLost
  <1> QED BY <1>1, AlwaysSound, PTL

\* Observe mode is out of the way but for errors of the breaker's check.
THEOREM ObserveLetsThrough == Spec => []ObserveRefusesNothing
  <1>1. IInv => ObserveRefusesNothing
    BY DEF IInv, TypeOK, Sound, ObserveRefusesNothing, Refused
  <1> QED BY <1>1, AlwaysSound, PTL

-----------------------------------------------------------------------------
(* Isolation                                                               *)

\* After a response a request goes by its own name or by Unknown.
LEMMA AfterIsBefore == \A r \in Requests : After(r) # Unknown => After(r) = Before(r)
  BY ProxyAssumption DEF After, Before, ExtractAgentId

\* A trip opens one breaker, and nothing else opens any.
LEMMA TripOpensOne ==
  ASSUME TypeOK, NEW a \in Agents, NEW b \in Agents,
         Look(b) \/ Breaker!Trip(b) \/ Breaker!Recover(b) \/ UNCHANGED breaker,
         state[a] # "open", state'[a] = "open"
  PROVE  b = a
  BY DEF TypeOK, Look, Breaker!Trip, Breaker!Recover, Breaker!Probe, breaker

\* Pre-call checks and responses of a request open no breaker but that of its
\* own agent, and Unknown's.
LEMMA StepIsolates ==
  ASSUME TypeOK, [Next]_vars, NEW a \in Agents \ {Unknown},
         state[a] # "open", state'[a] = "open"
  PROVE  \E r \in Requests : Before(r) = a /\ pc'[r] # pc[r]
  <1> DEFINE Mine(r) == Before(r) = a /\ pc'[r] # pc[r]
  <1>1. ASSUME NEW r \in Requests, CheckBreaker(r) \/ CheckRaises(r)
        PROVE  Mine(r)
    <2>1. Look(Before(r)) \/ UNCHANGED breaker
      BY <1>1 DEF CheckBreaker, CheckRaises
    <2>2. Before(r) = a
      BY <2>1, IdsTyped, TripOpensOne
    <2> QED BY <1>1, <2>2 DEF CheckBreaker, CheckRaises, AfterCheck, Goto, TypeOK
  <1>2. ASSUME NEW r \in Requests, TripAndRefuse(r) \/ TripRaises(r)
        PROVE  Mine(r)
    <2>1. Breaker!Trip(Before(r)) \/ UNCHANGED breaker
      BY <1>2 DEF TripAndRefuse, TripRaises
    <2>2. Before(r) = a
      BY <2>1, IdsTyped, TripOpensOne
    <2> QED BY <1>2, <2>2 DEF TripAndRefuse, TripRaises, Goto, TypeOK
  <1>3. ASSUME NEW r \in Requests,
               Succeed(r) \/ SuccessRaises(r) \/ Fail(r) \/ FailRaises(r)
        PROVE  Mine(r)
    <2>1. Breaker!Trip(After(r)) \/ Breaker!Recover(After(r)) \/ UNCHANGED breaker
      BY <1>3 DEF Succeed, SuccessRaises, Fail, FailRaises, RecordSuccess,
                  RecordFailure, breaker
    <2>2. After(r) = a
      BY <2>1, IdsTyped, TripOpensOne
    <2>3. Before(r) = a
      BY <2>2, AfterIsBefore
    <2> QED BY <1>3, <2>3 DEF Succeed, SuccessRaises, Fail, FailRaises,
                              AfterSuccess, AfterFailure, Goto, TypeOK
  <1>4. ASSUME UNCHANGED state PROVE FALSE
    BY <1>4
  <1>5. ASSUME NEW r \in Requests,
               \/ Screen(r) \/ Reserve(r) \/ Reject(r) \/ ReserveRaises(r)
               \/ Reconcile(r) \/ ReconcileRaises(r)
               \/ CheckThresholds(r) \/ ThresholdsRaise(r)
               \/ Release(r) \/ ReleaseRaises(r)
        PROVE  FALSE
    BY <1>4, <1>5 DEF Screen, Reserve, Reject, ReserveRaises, Reconcile,
                      ReconcileRaises, CheckThresholds, ThresholdsRaise, Release,
                      ReleaseRaises, engines, breaker
  <1>6. ASSUME NEW b \in Agents, Elapse(b) \/ ForgetErrors(b) \/ Reset(b)
        PROVE  FALSE
    BY <1>6 DEF Elapse, Breaker!Elapse, ForgetErrors, Reset, breaker, TypeOK
  <1>7. CASE Restart \/ UNCHANGED vars
    BY <1>4, <1>7 DEF Restart, vars, engines, breaker
  <1>8. ASSUME NEW r \in Requests, CheckBreaker(r) \/ Step(r) \/ Raises(r)
        PROVE  Mine(r)
    BY <1>1, <1>2, <1>3, <1>5, <1>8 DEF Step, Raises
  <1> QED BY <1>6, <1>7, <1>8 DEF Next

\* "Other agents are unaffected": whatever one agent's requests do, the
\* breaker of another one opens only in that agent's own hooks.  Unknown,
\* which all requests without an explicit id fall back to after the
\* response, has no such guarantee.
THEOREM AgentsStayIsolated == Spec => AgentsIsolated
  <1> DEFINE Isolated == \A a \in Agents \ {Unknown} :
                state[a] # "open" /\ state'[a] = "open" =>
                    \E r \in Requests : Before(r) = a /\ pc'[r] # pc[r]
  <1>1. TypeOK /\ [Next]_vars => [Isolated]_vars
    BY StepIsolates
  <1> HIDE DEF Isolated
  <1>2. Spec => [][Isolated]_vars
    BY <1>1, TypeCorrect, PTL DEF Spec
  <1> QED BY <1>2 DEF Isolated, AgentsIsolated

-----------------------------------------------------------------------------
(* Alerts                                                                  *)

\* What the settled requests of a have cost: the spend without its holds.
HoldsOf(a) == {r \in Requests : Before(r) = a /\ stage[r] = "held"}
Owed(a) == spent[a] - Total(hold, HoldsOf(a))

FewHolds == IsFiniteSet({r \in Requests : stage[r] = "held"})

\* No engine call has raised in the hooks of a, and all its requests are
\* logged under its name.
Clean(a) == \A r \in Requests : Before(r) = a => raised[r] = {} /\ After(r) = a

\* A success hook of a has settled and is about to look at the threshold.
Checking(a) == \E r \in Requests : Before(r) = a /\ pc[r] = "alerting"

\* What the settled requests have cost was seen by a check, or will be.
Alerting ==
  \A a \in Agents : Clean(a) /\ Owed(a) >= AlertAt => a \in alerted \/ Checking(a)

LEMMA HoldsTyped ==
  ASSUME LedgerTyped, FewHolds, NEW a \in Agents
  PROVE  /\ IsFiniteSet(HoldsOf(a)) /\ HoldsOf(a) \subseteq Requests
         /\ \A r \in Requests : hold[r] \in Nat
         /\ Total(hold, HoldsOf(a)) \in Nat /\ spent[a] \in Int
  <1>1. IsFiniteSet(HoldsOf(a)) /\ HoldsOf(a) \subseteq Requests
    <2>1. HoldsOf(a) \subseteq {r \in Requests : stage[r] = "held"}
      BY DEF HoldsOf
    <2> QED BY <2>1, FS_Subset DEF FewHolds
  <1>2. \A r \in Requests : hold[r] \in Nat
    <2>1. Costs \cup {0} \subseteq Nat
      BY ProxyAssumption
    <2> QED BY <2>1 DEF LedgerTyped
  <1>3. spent[a] \in Int
    BY DEF LedgerTyped
  <1> QED BY <1>1, <1>2, <1>3, TotalType

\* A new hold is owed to nobody yet.
LEMMA HoldOwesNothing ==
  ASSUME LedgerTyped, FewHolds, NEW r \in Requests, NEW e \in Costs, Ledger!Hold(r, e)
  PROVE  FewHolds' /\ \A a \in Agents : Owed(a)' = Owed(a)
  <1>0. /\ stage[r] = "none" /\ stage' = [stage EXCEPT ![r] = "held"]
        /\ spent' = [spent EXCEPT ![Before(r)] = @ + e]
        /\ hold' = [hold EXCEPT ![r] = e]
        /\ e \in Nat
    BY ProxyAssumption DEF Ledger!Hold
  <1>1. FewHolds'
    <2>1. {q \in Requests : stage'[q] = "held"}
            = {q \in Requests : stage[q] = "held"} \cup {r}
      BY <1>0 DEF LedgerTyped
    <2> QED BY <2>1, FS_AddElement DEF FewHolds
  <1>2. ASSUME NEW a \in Agents PROVE Owed(a)' = Owed(a)
    <2>1. r \notin HoldsOf(a)
      BY <1>0 DEF HoldsOf
    <2>2. hold'[r] = e /\ \A q \in HoldsOf(a) : hold'[q] = hold[q] /\ hold'[q] \in Nat
      BY <1>0, <2>1, HoldsTyped DEF LedgerTyped
    <2>3. Total(hold', HoldsOf(a)) = Total(hold, HoldsOf(a))
      BY <2>2, TotalSame
    <2>4. CASE a = Before(r)
      <3>1. HoldsOf(a)' = HoldsOf(a) \cup {r}
        BY <1>0, <2>4 DEF HoldsOf, LedgerTyped
      <3>2. Total(hold', HoldsOf(a) \cup {r}) = Total(hold', HoldsOf(a)) + e
        <4>1. IsFiniteSet(HoldsOf(a)) /\ hold'[r] \in Nat
          BY <1>0, <2>2, HoldsTyped
        <4> QED BY <2>1, <2>2, <4>1, TotalAdd
      <3>3. spent'[a] = spent[a] + e
        BY <1>0, <2>4 DEF LedgerTyped
      <3> QED BY <1>0, <2>3, <3>1, <3>2, <3>3, HoldsTyped DEF Owed
    <2>5. CASE a # Before(r)
      <3>1. HoldsOf(a)' = HoldsOf(a) /\ spent'[a] = spent[a]
        BY <1>0, <2>5 DEF HoldsOf, LedgerTyped
      <3> QED BY <2>3, <3>1 DEF Owed
    <2> QED BY <2>4, <2>5
  <1> QED BY <1>1, <1>2

\* A settlement adds its cost to what is owed.
LEMMA SettleOwes ==
  ASSUME LedgerTyped, FewHolds, NEW r \in Requests, NEW c \in Costs \cup {0},
         Ledger!Settle(r, c)
  PROVE  /\ FewHolds'
         /\ \A a \in Agents : Owed(a)' = Owed(a) + IF a = Before(r) THEN c ELSE 0
  <1>0. /\ stage[r] = "held" /\ stage' = [stage EXCEPT ![r] = "settled"]
        /\ spent' = [spent EXCEPT ![Before(r)] = @ + c - hold[r]]
        /\ hold' = hold
        /\ c \in Nat
    <2>1. Costs \cup {0} \subseteq Nat
      BY ProxyAssumption
    <2> QED BY <2>1 DEF Ledger!Settle
  <1>1. FewHolds'
    <2>1. {q \in Requests : stage'[q] = "held"} \subseteq {q \in Requests : stage[q] = "held"}
      BY <1>0 DEF LedgerTyped
    <2> QED BY <2>1, FS_Subset DEF FewHolds
  <1>2. ASSUME NEW a \in Agents
        PROVE  Owed(a)' = Owed(a) + IF a = Before(r) THEN c ELSE 0
    <2>1. CASE a = Before(r)
      <3>1. HoldsOf(a)' = HoldsOf(a) \ {r} /\ r \in HoldsOf(a)
        BY <1>0, <2>1 DEF HoldsOf, LedgerTyped
      <3>2. Total(hold, HoldsOf(a) \ {r}) = Total(hold, HoldsOf(a)) - hold[r]
        BY <3>1, HoldsTyped, TotalRemove
      <3>3. spent'[a] = spent[a] + c - hold[r]
        BY <1>0, <2>1 DEF LedgerTyped
      <3>4. Total(hold, HoldsOf(a))' = Total(hold, HoldsOf(a)) - hold[r]
        BY <1>0, <3>1, <3>2
      <3>5. hold[r] \in Nat /\ Total(hold, HoldsOf(a)) \in Nat /\ spent[a] \in Int
        BY HoldsTyped
      <3> QED BY <1>0, <2>1, <3>3, <3>4, <3>5 DEF Owed
    <2>2. CASE a # Before(r)
      <3>1. HoldsOf(a)' = HoldsOf(a) /\ spent'[a] = spent[a]
        BY <1>0, <2>2 DEF HoldsOf, LedgerTyped
      <3>2. Owed(a)' = Owed(a) /\ Owed(a) \in Int
        BY <1>0, <3>1, HoldsTyped DEF Owed
      <3> QED BY <2>2, <3>2
    <2> QED BY <2>1, <2>2
  <1> QED BY <1>1, <1>2

LEMMA LedgerUntouched ==
  ASSUME FewHolds, UNCHANGED ledger
  PROVE  FewHolds' /\ \A a \in Agents : Owed(a)' = Owed(a)
  BY DEF ledger, FewHolds, Owed, HoldsOf

-----------------------------------------------------------------------------
\* Nothing that happens to r takes away what was alerted or is being checked;
\* what its own agent owes grows only as its check begins.
LEMMA StaysAlerting ==
  ASSUME Alerting, NEW r \in Requests, OthersKept(r),
         raised[r] \subseteq raised'[r], alerted \subseteq alerted',
         \A a \in Agents \ {Before(r)} : Owed(a)' = Owed(a),
         \/ ~Clean(Before(r))'
         \/ pc'[r] = "alerting"
         \/ pc[r] # "alerting" /\ Owed(Before(r))' = Owed(Before(r))
         \/ Owed(Before(r))' >= AlertAt => Before(r) \in alerted'
  PROVE  Alerting'
  <1> SUFFICES ASSUME NEW a \in Agents, Clean(a)', Owed(a)' >= AlertAt, a \notin alerted'
               PROVE  Checking(a)'
    BY DEF Alerting
  <1>1. Clean(a)
    BY DEF Clean, OthersKept
  <1>2. ASSUME Owed(a)' = Owed(a), a = Before(r) => pc[r] # "alerting"
        PROVE  Checking(a)'
    <2>1. PICK q \in Requests : Before(q) = a /\ pc[q] = "alerting"
      BY <1>1, <1>2 DEF Alerting, Checking
    <2>2. q # r
      BY <1>2, <2>1
    <2> QED BY <2>1, <2>2 DEF OthersKept, Checking
  <1>3. CASE a # Before(r)
    BY <1>2, <1>3
  <1>4. CASE a = Before(r)
    <2>1. CASE pc'[r] = "alerting"
      BY <1>4, <2>1 DEF Checking
    <2>2. CASE pc'[r] # "alerting"
      BY <1>2, <1>4, <2>2
    <2> QED BY <2>1, <2>2
  <1> QED BY <1>3, <1>4

AlertInv == FewHolds /\ Alerting

\* Requests of the agents that no engine call raised for.
LEMMA HookAlerts ==
  ASSUME IInv, AlertInv, NEW r \in Requests, CheckBreaker(r) \/ Step(r)
  PROVE  AlertInv'
  <1>0. /\ OthersKept(r) /\ TypeOK /\ LedgerTyped /\ FewHolds /\ Alerting
        /\ raised' = raised /\ Before(r) \in Agents
    BY HookSound, IdsTyped
       DEF IInv, TypeOK, LedgerTyped, AlertInv, CheckBreaker, Step, Screen, Reserve,
           Reject, TripAndRefuse, Succeed, Reconcile, CheckThresholds, Fail, Release
  <1>1. ASSUME FewHolds', \A a \in Agents : Owed(a)' = Owed(a), alerted' = alerted,
               pc[r] # "alerting"
        PROVE  AlertInv'
    BY <1>0, <1>1, StaysAlerting DEF AlertInv
  <1>2. CASE Reserve(r)
    <2>1. PICK e \in Costs : Ledger!Hold(r, e)
      BY <1>2 DEF Reserve
    <2> QED BY <1>0, <1>1, <1>2, <2>1, HoldOwesNothing DEF Reserve
  <1>3. CASE Release(r)
    <2>1. /\ FewHolds'
          /\ \A a \in Agents : Owed(a)' = Owed(a) + IF a = Before(r) THEN 0 ELSE 0
      BY <1>0, <1>3, SettleOwes DEF Release
    <2>2. ASSUME NEW a \in Agents PROVE Owed(a)' = Owed(a)
      <3>1. Owed(a) \in Int
        BY <1>0, HoldsTyped DEF Owed
      <3> QED BY <2>1, <3>1
    <2> QED BY <1>1, <1>3, <2>1, <2>2 DEF Release
  <1>4. CASE Reconcile(r)
    <2>1. PICK c \in Costs \cup {0} : Ledger!Settle(r, c)
      BY <1>4 DEF Reconcile
    <2>2. /\ FewHolds'
          /\ \A a \in Agents : Owed(a)' = Owed(a) + IF a = Before(r) THEN c ELSE 0
      BY <1>0, <2>1, SettleOwes
    <2>3. ASSUME NEW a \in Agents \ {Before(r)} PROVE Owed(a)' = Owed(a)
      <3>1. Owed(a) \in Int
        BY <1>0, HoldsTyped DEF Owed
      <3> QED BY <2>2, <3>1
    <2>4. pc'[r] = "alerting" /\ alerted' = alerted
      BY <1>0, <1>4 DEF Reconcile, Goto, TypeOK
    <2> QED BY <1>0, <2>2, <2>3, <2>4, StaysAlerting DEF AlertInv
  <1>5. CASE CheckThresholds(r)
    <2>1. FewHolds' /\ \A a \in Agents : Owed(a)' = Owed(a)
      BY <1>0, <1>5, LedgerUntouched DEF CheckThresholds
    <2>2. alerted' = alerted \cup {a \in {After(r)} : spent[a] >= AlertAt}
      BY <1>5 DEF CheckThresholds, Alert
    <2>3. ASSUME Clean(Before(r))', Owed(Before(r))' >= AlertAt
          PROVE  Before(r) \in alerted'
      <3>1. After(r) = Before(r)
        BY <2>3 DEF Clean
      <3>2. /\ Total(hold, HoldsOf(Before(r))) \in Nat /\ spent[Before(r)] \in Int
            /\ AlertAt \in Int
        BY <1>0, HoldsTyped, ProxyAssumption
      <3>3. spent[Before(r)] - Total(hold, HoldsOf(Before(r))) >= AlertAt
        BY <1>0, <2>1, <2>3 DEF Owed
      <3>4. spent[Before(r)] >= AlertAt
        BY <3>2, <3>3
      <3> QED BY <2>2, <3>1, <3>4
    <2> QED BY <1>0, <2>1, <2>2, <2>3, StaysAlerting DEF AlertInv
  <1>6. CASE \/ CheckBreaker(r) \/ Screen(r) \/ Reject(r) \/ TripAndRefuse(r)
             \/ Succeed(r) \/ Fail(r)
    <2>1. UNCHANGED <<ledger, alerted>> /\ pc[r] # "alerting"
      BY <1>6 DEF CheckBreaker, Screen, Reject, Deny, TripAndRefuse, Succeed, Fail, engines
    <2> QED BY <1>0, <1>1, <2>1, LedgerUntouched
  <1> QED BY <1>2, <1>3, <1>4, <1>5, <1>6 DEF Step

\* The agent of a request whose hook an engine call left is not clean.
LEMMA RaiseAlerts ==
  ASSUME IInv, AlertInv, NEW r \in Requests, Raises(r)
  PROVE  AlertInv'
  <1>0. /\ OthersKept(r) /\ TypeOK /\ LedgerTyped /\ FewHolds /\ Alerting
        /\ Before(r) \in Agents
    BY HookSound, IdsTyped DEF IInv, TypeOK, LedgerTyped, AlertInv
  <1>1. /\ raised[r] \subseteq raised'[r] /\ raised'[r] # {} /\ alerted \subseteq alerted'
    BY <1>0 DEF Raises, Raise, CheckRaises, ReserveRaises, TripRaises, SuccessRaises,
                ReconcileRaises, ThresholdsRaise, FailRaises, ReleaseRaises, TypeOK, Alert
  <1>2. ~Clean(Before(r))'
    BY <1>1 DEF Clean
  <1>3. ASSUME FewHolds', \A a \in Agents \ {Before(r)} : Owed(a)' = Owed(a)
        PROVE  AlertInv'
    BY <1>0, <1>1, <1>2, <1>3, StaysAlerting DEF AlertInv
  <1>4. CASE UNCHANGED ledger
    BY <1>0, <1>3, <1>4, LedgerUntouched
  <1>5. ASSUME NEW e \in Costs, Ledger!Hold(r, e) PROVE AlertInv'
    BY <1>0, <1>3, <1>5, HoldOwesNothing
  <1>6. ASSUME NEW c \in Costs \cup {0}, Ledger!Settle(r, c) PROVE AlertInv'
    <2>1. /\ FewHolds'
          /\ \A a \in Agents : Owed(a)' = Owed(a) + IF a = Before(r) THEN c ELSE 0
      BY <1>0, <1>6, SettleOwes
    <2>2. ASSUME NEW a \in Agents \ {Before(r)} PROVE Owed(a)' = Owed(a)
      <3>1. Owed(a) \in Int
        BY <1>0, HoldsTyped DEF Owed
      <3> QED BY <2>1, <3>1
    <2> QED BY <1>3, <2>1, <2>2
  <1> QED BY <1>4, <1>5, <1>6
       DEF Raises, CheckRaises, ReserveRaises, TripRaises, SuccessRaises,
           ReconcileRaises, ThresholdsRaise, FailRaises, ReleaseRaises

LEMMA StepAlerts ==
  ASSUME IInv, AlertInv, [Next]_vars
  PROVE  AlertInv'
  <1>1. ASSUME \E a \in Agents : Elapse(a) \/ ForgetErrors(a) \/ Reset(a)
        PROVE  UNCHANGED <<ledger, alerted, pc, raised>>
    BY <1>1 DEF Elapse, ForgetErrors, Reset
  <1>2. CASE UNCHANGED vars \/ \E a \in Agents : Elapse(a) \/ ForgetErrors(a) \/ Reset(a)
    <2>1. UNCHANGED <<ledger, alerted, pc, raised>>
      BY <1>1, <1>2 DEF vars, engines
    <2> QED BY <2>1, LedgerUntouched DEF AlertInv, Alerting, Clean, Checking
  <1>3. CASE Restart
    <2>1. FewHolds' /\ alerted' = alerted /\ \A a \in Agents : Owed(a)' = Owed(a)
      BY <1>3, LedgerUntouched DEF Restart, AlertInv
    <2>2. ASSUME NEW a \in Agents, Clean(a)', Owed(a)' >= AlertAt
          PROVE  a \in alerted' \/ Checking(a)'
      <3>1. \A r \in Requests : Before(r) = a => pc[r] \notin InFlight
        BY <1>3, <2>2 DEF Restart, Clean
      <3>2. Clean(a)
        BY <1>3, <2>2, <3>1 DEF Restart, Clean
      <3> QED BY <2>1, <2>2, <3>1, <3>2 DEF AlertInv, Alerting, Checking, InFlight
    <2> QED BY <2>1, <2>2 DEF AlertInv, Alerting
  <1> QED BY <1>2, <1>3, HookAlerts, RaiseAlerts DEF Next

\* A clean agent at rest has no hold left, so that it owes what it has spent.
LEMMA AlertedAtRest ==
  ASSUME IInv, AlertInv
  PROVE  AlertsReachTheirAgent
  <1> SUFFICES ASSUME NEW a \in Agents, Quiet(a), spent[a] >= AlertAt
               PROVE  a \in alerted
    BY DEF AlertsReachTheirAgent
  <1>1. Clean(a) /\ ~Checking(a)
    BY DEF Quiet, Clean, Checking, Over, Refused
  <1>2. HoldsOf(a) = {}
    <2>1. ASSUME NEW r \in Requests, Before(r) = a PROVE stage[r] # "held"
      BY <2>1 DEF Quiet, IInv, Sound, BeforeHold
    <2> QED BY <2>1 DEF HoldsOf
  <1>3. Owed(a) = spent[a]
    BY <1>2, TotalEmpty DEF Owed, IInv, TypeOK
  <1> QED BY <1>1, <1>3 DEF AlertInv, Alerting

\* However checks, settlements, releases, resets and restarts interleave, an
\* agent that no engine call raised for is alerted once its settled requests
\* have cost the threshold: the check that sees the cost is always still to
\* come, and a hold that is open then can only add to what it sees.
THEOREM AlertsArrive == Spec => []AlertsReachTheirAgent
  <1>1. Init => AlertInv
    <2> SUFFICES ASSUME Init PROVE AlertInv
      OBVIOUS
    <2>1. stage = [r \in Requests |-> "none"] /\ spent = [a \in Agents |-> 0]
      BY DEF Init, Ledger!Init
    <2>2. FewHolds
      <3>1. {r \in Requests : stage[r] = "held"} = {}
        BY <2>1
      <3> QED BY <3>1, FS_EmptySet DEF FewHolds
    <2>3. ASSUME NEW a \in Agents PROVE ~(Owed(a) >= AlertAt)
      <3>1. HoldsOf(a) = {} /\ spent[a] = 0
        BY <2>1 DEF HoldsOf
      <3>2. Owed(a) = 0
        BY <3>1, TotalEmpty DEF Owed
      <3> QED BY <3>2, ProxyAssumption
    <2> QED BY <2>2, <2>3 DEF AlertInv, Alerting
  <1>2. IInv /\ AlertInv /\ [Next]_vars => AlertInv'
    BY StepAlerts
  <1>3. IInv /\ AlertInv => AlertsReachTheirAgent
    BY AlertedAtRest
  <1> QED BY <1>1, <1>2, <1>3, AlwaysSound, PTL DEF Spec

=============================================================================
