-------------------------- MODULE LoopDetectorProofs --------------------------
(***************************************************************************)
(* Type correctness of the loop detector, the exactness of its cycle test, *)
(* the bounds of its velocity baseline, and, in enforce mode, the bound on *)
(* the repetitions of a content: for every window, threshold, number of    *)
(* requests in flight and choice of contents.                              *)
(***************************************************************************)
EXTENDS LoopDetector, UnitsProofs, SequenceTheorems, TLAPS

-----------------------------------------------------------------------------
(* Types                                                                   *)

\* The window stays a sequence of hashes that fits its deque.
LEMMA PushTyped ==
  ASSUME NEW w \in Seq(Hashes), Len(w) <= WindowSize, NEW h \in Hashes
  PROVE  Push(w, h) \in Seq(Hashes) /\ Len(Push(w, h)) <= WindowSize
  <1>1. Len(w) \in Nat /\ WindowSize \in Nat \ {0}
    BY LenProperties, DetectorAssumption
  <1>2. CASE Len(w) < WindowSize
    <2>1. Push(w, h) = Append(w, h)
      BY <1>2 DEF Push
    <2> QED BY <1>1, <1>2, <2>1, AppendProperties
  <1>3. CASE ~(Len(w) < WindowSize)
    <2>1. Push(w, h) = Append(Tail(w), h) /\ w # <<>>
      BY <1>1, <1>3, EmptySeq DEF Push
    <2>2. Tail(w) \in Seq(Hashes) /\ Len(Tail(w)) = Len(w) - 1
      BY <2>1, HeadTailProperties
    <2> QED BY <1>1, <2>1, <2>2, AppendProperties
  <1> QED BY <1>2, <1>3

LEMMA RecentTyped ==
  ASSUME NEW ts \in [Ages -> Nat]
  PROVE  Recent(ts) \in Nat /\ \A i \in Ages : ts[i] <= Recent(ts)
  <1>1. IsFiniteSet(Ages)
    BY DetectorAssumption, FS_Interval DEF Ages
  <1>2. Recent(ts) \in Nat
    BY <1>1, TotalType DEF Recent
  <1>3. ASSUME NEW i \in Ages PROVE ts[i] <= Recent(ts)
    BY <1>1, TotalCovers DEF Recent
  <1> QED BY <1>2, <1>3

\* The moving average stays between bounds that both its arguments keep.
LEMMA SmoothedBetween ==
  ASSUME NEW lo \in Nat, NEW hi \in Nat, NEW prev \in lo..hi, NEW velocity \in lo..hi
  PROVE  Smoothed(prev, velocity) \in lo..hi
  <1>1. (velocity + 9 * prev) \div 10 \in lo..hi
    OBVIOUS
  <1>2. (prev * 21) \div 20 \in Int /\ (prev * 21) \div 20 >= prev
    OBVIOUS
  <1> QED BY <1>1, <1>2 DEF Smoothed

LEMMA UpdatedTyped ==
  ASSUME NEW prev \in Nat, NEW n \in Nat, NEW ts \in [Ages -> Nat]
  PROVE  Updated(prev, n, ts) \in Nat
  <1>1. Unit * Recent(ts) \in Nat
    BY RecentTyped DEF Unit
  <1> DEFINE top == prev + Unit * Recent(ts)
  <1>2. top \in Nat /\ prev \in 0..top /\ Unit * Recent(ts) \in 0..top
    BY <1>1
  <1> HIDE DEF top
  <1>3. Smoothed(prev, Unit * Recent(ts)) \in 0..top
    BY <1>2, SmoothedBetween
  <1> QED BY <1>1, <1>2, <1>3 DEF Updated

LEMMA InitTyped == Init => TypeOK
  BY DetectorAssumption, EmptySeq DEF Init, TypeOK, NoBaseline

LEMMA RecordTyped ==
  ASSUME TypeOK, NEW s \in Slots, Record(s)
  PROVE  /\ TypeOK'
         /\ 0 \in Ages /\ times'[0] = times[0] + 1
  <1> USE DEF TypeOK, Record
  <1>0. 0 \in Ages
    BY DetectorAssumption DEF Ages
  <1>1. inFlight[s] \in Hashes
    OBVIOUS
  <1>2. window' \in Seq(Hashes) /\ Len(window') <= WindowSize
    BY <1>1, PushTyped
  <1>3. times' \in [Ages -> Nat] /\ times'[0] = times[0] + 1
    BY <1>0
  <1>4. calls' \in 0..MaxCalls
    BY DetectorAssumption
  <1>5. baseline' \in Nat
    <2>1. calls' \in Nat /\ baseline \in Nat /\ baseline' = Updated(baseline, calls', times')
      BY DetectorAssumption
    <2>2. Updated(baseline, calls', times') \in Nat
      BY <1>3, <2>1, UpdatedTyped, Zenon
    <2> QED BY <2>1, <2>2
  <1>6. peak' \in Nat
    BY <1>3, RecentTyped
  <1> QED BY <1>0, <1>1, <1>2, <1>3, <1>4, <1>5, <1>6

LEMMA StepTyped == TypeOK /\ [Next]_vars => TypeOK'
  <1> SUFFICES ASSUME TypeOK, [Next]_vars PROVE TypeOK'
    OBVIOUS
  <1>1. ASSUME NEW s \in Slots, NEW h \in Hashes, Check(s, h) PROVE TypeOK'
    BY <1>1 DEF Check, TypeOK
  <1>2. ASSUME NEW s \in Slots, Record(s) PROVE TypeOK'
    BY <1>2, RecordTyped
  <1>3. ASSUME NEW s \in Slots, Drop(s) PROVE TypeOK'
    BY <1>3 DEF Drop, TypeOK
  <1>4. CASE ClearSession
    BY <1>4, EmptySeq, DetectorAssumption DEF ClearSession, TypeOK, NoBaseline
  <1>5. CASE Tick
    <2>1. \A i \in Ages : i # 0 => i - 1 \in Ages
      BY DetectorAssumption DEF Ages
    <2>2. times' \in [Ages -> Nat]
      BY <1>5, <2>1 DEF Tick, TypeOK
    <2>3. now' \in 0..MaxTicks
      BY <1>5, DetectorAssumption DEF Tick, TypeOK
    <2> QED BY <1>5, <2>2, <2>3 DEF Tick, TypeOK
  <1>6. CASE UNCHANGED vars
    BY <1>6 DEF vars, TypeOK
  <1> QED BY <1>1, <1>2, <1>3, <1>4, <1>5, <1>6 DEF Next

\* Every reachable state is well typed, and the window fits its deque.
THEOREM TypeCorrect == Spec => []TypeOK
  BY InitTyped, StepTyped, PTL DEF Spec

-----------------------------------------------------------------------------
(* The velocity baseline                                                   *)

\* There is a baseline from the second call of a session on, between one call
\* per window and the most calls seen in one.
BaselineKnown ==
  /\ calls < 2 => baseline = NoBaseline
  /\ calls >= 2 => baseline \in Unit..(Unit * peak)

LEMMA RecordKeepsBaseline ==
  ASSUME TypeOK, BaselineKnown, NEW s \in Slots, Record(s)
  PROVE  BaselineKnown'
  <1> DEFINE r == Recent(times')
  <1>1. /\ calls \in Nat /\ calls' = calls + 1
        /\ baseline' = Updated(baseline, calls', times')
        /\ peak \in Nat /\ peak' = IF r > peak THEN r ELSE peak
    BY DEF Record, TypeOK
  <1>2. r \in Nat /\ r >= 1
    <2>1. times' \in [Ages -> Nat] /\ 0 \in Ages /\ times'[0] = times[0] + 1 /\ times[0] \in Nat
      BY RecordTyped DEF TypeOK
    <2> QED BY <2>1, RecentTyped
  <1> HIDE DEF r
  <1>3. /\ peak' \in Nat /\ Unit * peak' \in Nat /\ Unit * peak <= Unit * peak'
        /\ Unit * r \in Unit..(Unit * peak')
    BY <1>1, <1>2 DEF Unit
  <1>4. CASE calls' < 2
    BY <1>1, <1>4 DEF BaselineKnown, Updated
  <1>5. CASE calls' >= 2
    <2>1. CASE baseline = NoBaseline
      BY <1>1, <1>3, <1>5, <2>1 DEF BaselineKnown, Updated, r
    <2>2. CASE baseline # NoBaseline
      <3>1. baseline \in Unit..(Unit * peak')
        BY <1>1, <1>3, <2>2 DEF BaselineKnown, Unit
      <3>2. Smoothed(baseline, Unit * r) \in Unit..(Unit * peak')
        <4>1. Unit \in Nat
          BY DEF Unit
        <4> QED BY <1>3, <3>1, <4>1, SmoothedBetween
      <3>3. baseline' = Smoothed(baseline, Unit * r)
        BY <1>1, <1>5, <2>2 DEF Updated, r
      <3> QED BY <1>1, <1>5, <3>2, <3>3 DEF BaselineKnown
    <2> QED BY <2>1, <2>2
  <1> QED BY <1>1, <1>4, <1>5

\* The baseline never leaves the velocities observed, so an agent that makes
\* no more calls per window than the multiplier is never flagged as too fast.
THEOREM BaselineIsObserved == Spec => []BaselineWithinObserved
  <1>1. Init => BaselineKnown
    BY DEF Init, BaselineKnown
  <1>2. TypeOK /\ BaselineKnown /\ [Next]_vars => BaselineKnown'
    <2> SUFFICES ASSUME TypeOK, BaselineKnown, [Next]_vars PROVE BaselineKnown'
      OBVIOUS
    <2>1. ASSUME NEW s \in Slots, Record(s) PROVE BaselineKnown'
      BY <2>1, RecordKeepsBaseline
    <2>2. CASE ClearSession
      BY <2>2 DEF ClearSession, BaselineKnown
    <2>3. CASE UNCHANGED <<calls, baseline, peak>>
      BY <2>3 DEF BaselineKnown
    <2> QED BY <2>1, <2>2, <2>3 DEF Next, Check, Drop, Tick, vars
  <1>3. TypeOK /\ BaselineKnown => BaselineWithinObserved
    <2> SUFFICES ASSUME TypeOK, BaselineKnown, Recent(times) <= VelocityMultiplier,
                        baseline # NoBaseline
                 PROVE  ~(Unit * Recent(times) > baseline * VelocityMultiplier)
      BY DEF BaselineWithinObserved, BaselineKnown, IsTooFast
    <2> DEFINE r == Recent(times)
    <2>1. r \in Nat /\ VelocityMultiplier \in Nat /\ r <= VelocityMultiplier
      BY RecentTyped, DetectorAssumption DEF TypeOK
    <2>2. baseline \in Nat /\ baseline >= Unit
      BY DEF BaselineKnown, TypeOK, Unit
    <2> HIDE DEF r
    <2>3. baseline * VelocityMultiplier >= Unit * VelocityMultiplier
      BY <2>1, <2>2 DEF Unit
    <2>4. Unit * r <= Unit * VelocityMultiplier
      BY <2>1 DEF Unit
    <2>5. /\ baseline * VelocityMultiplier \in Int /\ Unit * r \in Int
          /\ Unit * VelocityMultiplier \in Int
      BY <2>1, <2>2 DEF Unit
    <2>6. ~(Unit * r > baseline * VelocityMultiplier)
      BY <2>3, <2>4, <2>5
    <2> QED BY <2>6 DEF r
  <1> QED BY <1>1, <1>2, <1>3, TypeCorrect, PTL DEF Spec

-----------------------------------------------------------------------------
(* The cycle test                                                          *)

\* Two slices of a window are equal when they are so place by place.
LEMMA SlicesEqual ==
  ASSUME NEW w \in Seq(Hashes), NEW p \in Nat, NEW b \in Nat, NEW c \in Nat,
         b + p <= Len(w), c + p <= Len(w)
  PROVE  SubSeq(w, b + 1, b + p) = SubSeq(w, c + 1, c + p)
           <=> \A j \in 1..p : w[b + j] = w[c + j]
  <1> DEFINE x == SubSeq(w, b + 1, b + p)
             y == SubSeq(w, c + 1, c + p)
  <1>0. Len(w) \in Nat /\ \A i \in 1..Len(w) : w[i] \in Hashes
    BY LenProperties, ElementOfSeq
  <1>1. x \in Seq(Hashes) /\ Len(x) = p /\ \A j \in 1..p : x[j] = w[b + j]
    <2>1. \A i \in (b + 1)..(b + p) : w[i] \in Hashes
      BY <1>0
    <2>2. /\ x \in Seq(Hashes)
          /\ Len(x) = IF b + 1 <= b + p THEN (b + p) - (b + 1) + 1 ELSE 0
          /\ \A j \in 1..((b + p) - (b + 1) + 1) : x[j] = w[(b + 1) + j - 1]
      BY <2>1, SubSeqProperties
    <2> HIDE DEF x
    <2> QED BY <2>2
  <1>2. y \in Seq(Hashes) /\ Len(y) = p /\ \A j \in 1..p : y[j] = w[c + j]
    <2>1. \A i \in (c + 1)..(c + p) : w[i] \in Hashes
      BY <1>0
    <2>2. /\ y \in Seq(Hashes)
          /\ Len(y) = IF c + 1 <= c + p THEN (c + p) - (c + 1) + 1 ELSE 0
          /\ \A j \in 1..((c + p) - (c + 1) + 1) : y[j] = w[(c + 1) + j - 1]
      BY <2>1, SubSeqProperties
    <2> HIDE DEF y
    <2> QED BY <2>2
  <1> HIDE DEF x, y
  <1>3. x = y <=> \A j \in 1..p : x[j] = y[j]
    BY <1>1, <1>2, SeqEqual
  <1>4. x = y <=> \A j \in 1..p : w[b + j] = w[c + j]
    BY <1>1, <1>2, <1>3
  <1> QED BY <1>4 DEF x, y

LEMMA CycleIsRepetition ==
  ASSUME NEW w \in Seq(Hashes), NEW p \in Nat \ {0}, 3 * p <= Len(w)
  PROVE  Chunk(w, p, 0) = Chunk(w, p, 1) /\ Chunk(w, p, 1) = Chunk(w, p, 2)
           <=> \A i \in (Len(w) - 2 * p + 1)..Len(w) : w[i] = w[i - p]
  <1> DEFINE n == Len(w)
  <1>0. n \in Nat
    BY LenProperties
  <1>1. /\ n - 3 * p \in Nat /\ (n - 3 * p) + p = n - 2 * p
        /\ n - 2 * p \in Nat /\ (n - 2 * p) + p = n - p
        /\ n - p \in Nat /\ (n - p) + p = n
    BY <1>0
  <1>2. /\ Chunk(w, p, 0) = SubSeq(w, (n - 3 * p) + 1, (n - 3 * p) + p)
        /\ Chunk(w, p, 1) = SubSeq(w, (n - 2 * p) + 1, (n - 2 * p) + p)
        /\ Chunk(w, p, 2) = SubSeq(w, (n - p) + 1, (n - p) + p)
    <2>1. (3 - 0) * p = 3 * p /\ (2 - 0) * p = 2 * p /\ (3 - 1) * p = 2 * p
          /\ (2 - 1) * p = p /\ (3 - 2) * p = p /\ (2 - 2) * p = 0
      OBVIOUS
    <2>2. n - (2 - 2) * p = n
      BY <1>0, <2>1
    <2> QED BY <1>1, <2>1, <2>2 DEF Chunk
  <1>a. \A b, c \in Nat : b + p <= n /\ c + p <= n =>
          (SubSeq(w, b + 1, b + p) = SubSeq(w, c + 1, c + p)
             <=> \A j \in 1..p : w[b + j] = w[c + j])
    BY SlicesEqual
  <1> HIDE DEF n
  <1>b. n - 3 * p + p <= n /\ n - 2 * p + p <= n /\ n - p + p <= n
    BY <1>0
  <1>3. Chunk(w, p, 0) = Chunk(w, p, 1)
          <=> \A j \in 1..p : w[(n - 3 * p) + j] = w[(n - 2 * p) + j]
    <2>1. SubSeq(w, (n - 3 * p) + 1, (n - 3 * p) + p) = SubSeq(w, (n - 2 * p) + 1, (n - 2 * p) + p)
            <=> \A j \in 1..p : w[(n - 3 * p) + j] = w[(n - 2 * p) + j]
      BY <1>1, <1>a, <1>b, Zenon
    <2> QED BY <1>2, <2>1, Zenon
  <1>4. Chunk(w, p, 1) = Chunk(w, p, 2)
          <=> \A j \in 1..p : w[(n - 2 * p) + j] = w[(n - p) + j]
    <2>1. SubSeq(w, (n - 2 * p) + 1, (n - 2 * p) + p) = SubSeq(w, (n - p) + 1, (n - p) + p)
            <=> \A j \in 1..p : w[(n - 2 * p) + j] = w[(n - p) + j]
      BY <1>1, <1>a, <1>b, Zenon
    <2> QED BY <1>2, <2>1, Zenon
  <1>5. (\A j \in 1..p : w[(n - 3 * p) + j] = w[(n - 2 * p) + j])
          <=> \A i \in (n - 2 * p + 1)..(n - p) : w[i] = w[i - p]
    <2>1. ASSUME \A j \in 1..p : w[(n - 3 * p) + j] = w[(n - 2 * p) + j],
                 NEW i \in (n - 2 * p + 1)..(n - p)
          PROVE  w[i] = w[i - p]
      <3>1. i - (n - 2 * p) \in 1..p /\ (n - 3 * p) + (i - (n - 2 * p)) = i - p
            /\ (n - 2 * p) + (i - (n - 2 * p)) = i
        BY <1>0
      <3> QED BY <2>1, <3>1
    <2>2. ASSUME \A i \in (n - 2 * p + 1)..(n - p) : w[i] = w[i - p], NEW j \in 1..p
          PROVE  w[(n - 3 * p) + j] = w[(n - 2 * p) + j]
      <3>1. (n - 2 * p) + j \in (n - 2 * p + 1)..(n - p)
            /\ ((n - 2 * p) + j) - p = (n - 3 * p) + j
        BY <1>0
      <3> QED BY <2>2, <3>1
    <2> QED BY <2>1, <2>2
  <1>6. (\A j \in 1..p : w[(n - 2 * p) + j] = w[(n - p) + j])
          <=> \A i \in (n - p + 1)..n : w[i] = w[i - p]
    <2>1. ASSUME \A j \in 1..p : w[(n - 2 * p) + j] = w[(n - p) + j],
                 NEW i \in (n - p + 1)..n
          PROVE  w[i] = w[i - p]
      <3>1. i - (n - p) \in 1..p /\ (n - 2 * p) + (i - (n - p)) = i - p
            /\ (n - p) + (i - (n - p)) = i
        BY <1>0
      <3> QED BY <2>1, <3>1
    <2>2. ASSUME \A i \in (n - p + 1)..n : w[i] = w[i - p], NEW j \in 1..p
          PROVE  w[(n - 2 * p) + j] = w[(n - p) + j]
      <3>1. (n - p) + j \in (n - p + 1)..n /\ ((n - p) + j) - p = (n - 2 * p) + j
        BY <1>0
      <3> QED BY <2>2, <3>1
    <2> QED BY <2>1, <2>2
  <1>7. (n - 2 * p + 1)..n = ((n - 2 * p + 1)..(n - p)) \cup ((n - p + 1)..n)
    BY <1>0, <1>1
  <1>8. Chunk(w, p, 0) = Chunk(w, p, 1) /\ Chunk(w, p, 1) = Chunk(w, p, 2)
          <=> \A i \in (n - 2 * p + 1)..n : w[i] = w[i - p]
    BY <1>3, <1>4, <1>5, <1>6, <1>7
  <1> QED BY <1>8 DEF n

\* The cycle test finds the windows that end in three repetitions, no others.
THEOREM CycleTestIsExact == Spec => []CyclesAreRepetitions
  <1>1. TypeOK => CyclesAreRepetitions
    <2> SUFFICES ASSUME window \in Seq(Hashes) PROVE CyclesAreRepetitions
      BY DEF TypeOK
    <2>1. \A p \in 2..CycleMaxPeriod : p \in Nat \ {0}
      BY DetectorAssumption
    <2>2. \A p \in 2..CycleMaxPeriod : 3 * p <= Len(window) =>
            (Chunk(window, p, 0) = Chunk(window, p, 1) /\ Chunk(window, p, 1) = Chunk(window, p, 2)
               <=> \A i \in (Len(window) - 2 * p + 1)..Len(window) : window[i] = window[i - p])
      BY <2>1, CycleIsRepetition
    <2> QED BY <2>2 DEF CyclesAreRepetitions, HasCycle
  <1> QED BY <1>1, TypeCorrect, PTL

-----------------------------------------------------------------------------
(* Occurrences of a hash in a window                                       *)

Places(w, h) == {i \in DOMAIN w : w[i] = h}

LEMMA CountPlaces ==
  ASSUME NEW w \in Seq(Hashes), NEW h
  PROVE  /\ IsFiniteSet(Places(w, h))
         /\ Count(w, h) = Cardinality(Places(w, h))
         /\ Count(w, h) \in Nat
  <1>1. DOMAIN w = 1..Len(w) /\ Len(w) \in Nat
    BY LenProperties
  <1>2. IsFiniteSet(1..Len(w))
    BY <1>1, FS_Interval
  <1>3. IsFiniteSet(Places(w, h))
    BY <1>1, <1>2, FS_Subset DEF Places
  <1>4. Count(w, h) = Cardinality(Places(w, h))
    BY DEF Count, Places
  <1> QED BY <1>3, <1>4, FS_CardinalityType

LEMMA CountEmpty == \A h : Count(<<>>, h) = 0
  <1> TAKE h
  <1>1. Places(<<>>, h) = {} /\ <<>> \in Seq(Hashes)
    BY EmptySeq DEF Places
  <1> QED BY <1>1, CountPlaces, FS_EmptySet

\* Dropping the oldest hash adds no occurrence.
LEMMA CountTail ==
  ASSUME NEW w \in Seq(Hashes), w # <<>>, NEW h
  PROVE  Tail(w) \in Seq(Hashes) /\ Count(Tail(w), h) <= Count(w, h)
  <1> DEFINE f == [i \in Places(Tail(w), h) |-> i + 1]
  <1>1. /\ Tail(w) \in Seq(Hashes)
        /\ Len(w) \in Nat \ {0}
        /\ Len(Tail(w)) = Len(w) - 1
        /\ \A i \in 1..Len(Tail(w)) : Tail(w)[i] = w[i + 1]
        /\ DOMAIN w = 1..Len(w)
        /\ DOMAIN Tail(w) = 1..Len(Tail(w))
    BY HeadTailProperties, LenProperties, EmptySeq
  <1>2. ASSUME NEW i \in Places(Tail(w), h) PROVE i \in Nat /\ i + 1 \in Places(w, h)
    BY <1>1 DEF Places
  <1>3. f \in Injection(Places(Tail(w), h), Places(w, h))
    BY <1>2 DEF Injection, IsInjective
  <1> HIDE DEF f
  <1>4. Cardinality(Places(Tail(w), h)) <= Cardinality(Places(w, h))
    BY <1>3, CountPlaces, FS_Injection
  <1> QED BY <1>1, <1>4, CountPlaces

LEMMA CountAppend ==
  ASSUME NEW w \in Seq(Hashes), NEW h \in Hashes, NEW g
  PROVE  /\ Append(w, h) \in Seq(Hashes)
         /\ Count(Append(w, h), g) <= Count(w, g) + (IF g = h THEN 1 ELSE 0)
  <1> DEFINE v == Append(w, h)
  <1>1. /\ v \in Seq(Hashes)
        /\ Len(w) \in Nat
        /\ Len(v) = Len(w) + 1
        /\ \A i \in 1..Len(w) : v[i] = w[i]
        /\ v[Len(w) + 1] = h
        /\ DOMAIN w = 1..Len(w)
        /\ DOMAIN v = 1..Len(v)
    BY AppendProperties, LenProperties
  <1> HIDE DEF v
  <1>2. CASE g = h
    <2>1. Places(v, g) = Places(w, g) \cup {Len(w) + 1}
      BY <1>1, <1>2 DEF Places
    <2>2. IsFiniteSet(Places(w, g)) /\ Len(w) + 1 \notin Places(w, g)
      <3>1. IsFiniteSet(Places(w, g))
        BY CountPlaces
      <3>2. Len(w) + 1 \notin Places(w, g)
        BY <1>1 DEF Places
      <3> QED BY <3>1, <3>2
    <2>3. Cardinality(Places(v, g)) = Cardinality(Places(w, g)) + 1
      BY <2>1, <2>2, FS_AddElement
    <2>4. Count(v, g) = Count(w, g) + 1
      BY <1>1, <2>3, CountPlaces
    <2> QED BY <1>1, <1>2, <2>4, CountPlaces DEF v
  <1>3. CASE g # h
    <2>1. Places(v, g) = Places(w, g)
      BY <1>1, <1>3 DEF Places
    <2>2. Count(v, g) = Count(w, g) /\ Count(w, g) \in Nat
      BY <1>1, <2>1, CountPlaces
    <2>3. Count(v, g) <= Count(w, g) + 0
      BY <2>2
    <2> QED BY <1>1, <1>3, <2>3 DEF v
  <1> QED BY <1>2, <1>3

\* Recording h adds at most one occurrence, and of h only.
LEMMA CountPush ==
  ASSUME NEW w \in Seq(Hashes), NEW h \in Hashes, NEW g
  PROVE  /\ Push(w, h) \in Seq(Hashes)
         /\ Count(Push(w, h), g) <= Count(w, g) + (IF g = h THEN 1 ELSE 0)
  <1>1. CASE Len(w) < WindowSize
    BY <1>1, CountAppend DEF Push
  <1>2. CASE ~(Len(w) < WindowSize)
    <2>1. w # <<>>
      BY <1>2, DetectorAssumption, EmptySeq
    <2>2. Push(w, h) = Append(Tail(w), h)
      BY <1>2 DEF Push
    <2>3. Tail(w) \in Seq(Hashes) /\ Count(Tail(w), g) <= Count(w, g)
      BY <2>1, CountTail
    <2>4. /\ Append(Tail(w), h) \in Seq(Hashes)
          /\ Count(Append(Tail(w), h), g) <= Count(Tail(w), g) + (IF g = h THEN 1 ELSE 0)
      BY <2>3, CountAppend
    <2>5. Count(w, g) \in Nat /\ Count(Tail(w), g) \in Nat
      BY <2>3, CountPlaces
    <2>6. Count(Append(Tail(w), h), g) \in Nat
      BY <2>4, CountPlaces
    <2> DEFINE one == IF g = h THEN 1 ELSE 0
    <2>7. one \in Nat /\ Count(Append(Tail(w), h), g) <= Count(Tail(w), g) + one
      BY <2>4
    <2> HIDE DEF one
    <2>8. Count(Append(Tail(w), h), g) <= Count(w, g) + one
      BY <2>3, <2>5, <2>6, <2>7
    <2> QED BY <2>2, <2>4, <2>8 DEF one
  <1> QED BY <1>1, <1>2

-----------------------------------------------------------------------------
(* Repetitions                                                             *)

LEMMA InFlightFinite ==
  \A h : /\ IsFiniteSet(InFlightOf(h))
         /\ Cardinality(InFlightOf(h)) \in Nat
         /\ Cardinality(InFlightOf(h)) <= Cardinality(Slots)
         /\ Cardinality(Slots) \in Nat
  BY DetectorAssumption, FS_Subset, FS_CardinalityType DEF InFlightOf

Bounded(h) ==
  Count(window, h) + Cardinality(InFlightOf(h)) < RepeatThreshold + Cardinality(Slots)

LEMMA InitBounded == Init => RepeatsBounded
  <1> SUFFICES ASSUME Init, NEW h \in Hashes PROVE Bounded(h)
    BY DEF RepeatsBounded, Bounded
  <1>1. Places(window, h) = {} /\ InFlightOf(h) = {}
    BY DetectorAssumption DEF Init, Places, InFlightOf
  <1>2. Count(window, h) = 0 /\ Cardinality(InFlightOf(h)) = 0
    BY <1>1, InitTyped, CountPlaces, FS_EmptySet DEF TypeOK
  <1> QED BY <1>2, InFlightFinite, DetectorAssumption DEF Bounded

LEMMA StepBounded ==
  ASSUME TypeOK, Enforce, [Next]_vars, NEW g \in Hashes, Bounded(g)
  PROVE  Bounded(g)'
  <1>0. /\ Count(window, g) \in Nat
        /\ Cardinality(InFlightOf(g)) \in Nat
        /\ Cardinality(Slots) \in Nat
        /\ RepeatThreshold \in Nat \ {0}
        /\ IsFiniteSet(InFlightOf(g))
        /\ g # Free
    BY CountPlaces, InFlightFinite, DetectorAssumption DEF TypeOK
  <1>1. ASSUME NEW s \in Slots, NEW h \in Hashes, Check(s, h) PROVE Bounded(g)'
    <2>1. CASE h = g
      <3>1. Count(window, g) < RepeatThreshold
        BY <1>0, <1>1, <2>1, DetectorAssumption DEF Check, IsLoop, IsRepeated
      <3>2. window' = window
        BY <1>1 DEF Check
      <3>3. Cardinality(InFlightOf(g))' \in Nat /\ Cardinality(InFlightOf(g))' <= Cardinality(Slots)
        <4>1. InFlightOf(g)' \in SUBSET Slots
          BY DEF InFlightOf
        <4> QED BY <4>1, DetectorAssumption, FS_Subset, FS_CardinalityType
      <3> QED BY <1>0, <3>1, <3>2, <3>3 DEF Bounded, Count
    <2>2. CASE h # g
      <3>1. InFlightOf(g)' = InFlightOf(g)
        BY <1>0, <1>1, <2>2 DEF Check, InFlightOf, TypeOK
      <3> QED BY <1>1, <3>1 DEF Bounded, Check, Count
    <2> QED BY <2>1, <2>2
  <1>2. ASSUME NEW s \in Slots, Record(s) PROVE Bounded(g)'
    <2> DEFINE h == inFlight[s]
    <2>1. h \in Hashes
      BY <1>2 DEF Record, TypeOK
    <2>2. /\ window' = Push(window, h)
          /\ Count(window', g) <= Count(window, g) + (IF g = h THEN 1 ELSE 0)
          /\ Count(window', g) \in Nat
      BY <1>2, <2>1, CountPush, CountPlaces DEF Record, TypeOK
    <2>3. InFlightOf(g)' = IF g = h THEN InFlightOf(g) \ {s} ELSE InFlightOf(g)
      BY <1>0, <1>2 DEF Record, InFlightOf, TypeOK
    <2>4. CASE g = h
      <3>1. s \in InFlightOf(g)
        BY <2>4 DEF InFlightOf
      <3>2. Cardinality(InFlightOf(g) \ {s}) = Cardinality(InFlightOf(g)) - 1
        BY <1>0, <3>1, FS_RemoveElement
      <3>3. Cardinality(InFlightOf(g))' = Cardinality(InFlightOf(g)) - 1
        BY <2>3, <2>4, <3>2
      <3>4. Count(window', g) <= Count(window, g) + 1
        BY <2>2, <2>4
      <3> QED BY <1>0, <2>2, <3>3, <3>4 DEF Bounded, Count
    <2>5. CASE g # h
      <3>1. Cardinality(InFlightOf(g))' = Cardinality(InFlightOf(g))
        BY <2>3, <2>5
      <3>2. Count(window', g) <= Count(window, g)
        BY <1>0, <2>2, <2>5
      <3> QED BY <1>0, <2>2, <3>1, <3>2 DEF Bounded, Count
    <2> QED BY <2>4, <2>5
  <1>3. ASSUME NEW s \in Slots, Drop(s) PROVE Bounded(g)'
    <2>1. InFlightOf(g)' \in SUBSET InFlightOf(g)
      BY <1>0, <1>3 DEF Drop, InFlightOf, TypeOK
    <2>2. /\ Cardinality(InFlightOf(g)') \in Nat
          /\ Cardinality(InFlightOf(g)') <= Cardinality(InFlightOf(g))
      BY <1>0, <2>1, FS_Subset, FS_CardinalityType
    <2> QED BY <1>0, <1>3, <2>2 DEF Bounded, Drop, Count
  <1>4. CASE ClearSession
    <2>1. window' = <<>> /\ <<>> \in Seq(Hashes)
      BY <1>4, EmptySeq DEF ClearSession
    <2>2. Count(window', g) = 0
      BY <2>1, CountEmpty
    <2>3. InFlightOf(g)' = InFlightOf(g)
      BY <1>4 DEF ClearSession, InFlightOf
    <2>4. Count(window, g)' = 0
      BY <2>2 DEF Count
    <2> QED BY <1>0, <2>3, <2>4 DEF Bounded
  <1>5. CASE Tick \/ UNCHANGED vars
    BY <1>5 DEF Tick, vars, Bounded, Count, InFlightOf
  <1> QED BY <1>1, <1>2, <1>3, <1>4, <1>5 DEF Next

\* The hash dedup promises to stop the RepeatThreshold-th repetition, but it
\* checks before the call and records after it.  However many requests of an
\* agent overlap, the window and the requests in flight never hold a content
\* RepeatThreshold + |Slots| times.
THEOREM RepeatsAreBounded == Spec => []RepeatsBounded
  <1>1. TypeOK /\ RepeatsBounded /\ [Next]_vars => RepeatsBounded'
    <2> SUFFICES ASSUME TypeOK, RepeatsBounded, [Next]_vars, Enforce, NEW h \in Hashes
                 PROVE  Bounded(h)'
      BY DEF RepeatsBounded, Bounded
    <2>1. Bounded(h)
      BY DEF RepeatsBounded, Bounded
    <2> QED BY <2>1, StepBounded
  <1> QED BY <1>1, InitBounded, TypeCorrect, PTL DEF Spec

=============================================================================
