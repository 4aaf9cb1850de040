-------------------------- MODULE MemoryStoreProofs --------------------------
(***************************************************************************)
(* Type correctness of the in-memory store, and that under the calls the   *)
(* engine makes it implements the store contract, for every set of keys.   *)
(***************************************************************************)
EXTENDS MemoryStore, TLAPS

-----------------------------------------------------------------------------
(* Type correctness                                                        *)

LEMMA InitTyped == Init => TypeOK
  BY StoreAssumption DEF Init, TypeOK, Keys, Hashes, NoFields

\* Discipline is kept or lost, never regained.
LEMMA DisciplineKeptOrLost ==
  ASSUME [Next]_vars
  PROVE  disciplined' = disciplined \/ disciplined' = FALSE
  <1> DEFINE Kept == disciplined' = disciplined \/ disciplined' = FALSE
  <1>1. ASSUME NEW k \in ScalarKeys, ScalarStep(k) PROVE Kept
    <2>1. CASE Get(k) \/ ExistsScalar(k) \/ DeleteScalar(k)
      BY <2>1 DEF Get, ExistsScalar, DeleteScalar
    <2>2. CASE \E v \in Amounts : SetPlain(k, v)
      BY <2>2 DEF SetPlain, Note
    <2>3. CASE \E v \in Amounts, t \in Ttls : SetWithTtl(k, v, t)
      BY <2>3 DEF SetWithTtl, Note
    <2>4. CASE \E d \in Amounts : IncrFloat(k, d)
      BY <2>4 DEF IncrFloat, Note
    <2>5. CASE \E r \in ScalarKeys, cost, limit \in Amounts, t \in Ttls :
                   Reserve(k, r, cost, limit, t)
      <3>1. \E r : Note(Persistent(k) /\ Leased(r))
        BY <2>5 DEF Reserve
      <3> QED BY <3>1 DEF Note
    <2> QED BY <1>1, <2>1, <2>2, <2>3, <2>4, <2>5 DEF ScalarStep
  <1>2. ASSUME NEW k \in HashKeys, HashStep(k) PROVE Kept
    BY <1>2 DEF HashStep, HGetAll, HSet, ExistsHash, DeleteHash
  <1>3. ASSUME NEW k \in Keys, NEW t \in Ttls, Expire(k, t) PROVE Kept
    BY <1>3 DEF Expire, Note
  <1>4. CASE Tick \/ UNCHANGED vars
    BY <1>4 DEF Tick, vars
  <1> QED BY <1>1, <1>2, <1>3, <1>4 DEF Next

LEMMA DisciplinedTyped ==
  ASSUME TypeOK, [Next]_vars
  PROVE  disciplined' \in BOOLEAN
  <1>1. disciplined \in BOOLEAN
    BY DEF TypeOK
  <1> QED BY <1>1, DisciplineKeptOrLost

LEMMA DisciplinedBefore ==
  ASSUME [Next]_vars, disciplined'
  PROVE  disciplined
  BY DisciplineKeptOrLost

\* What _check_expiry leaves has the type of what it found.
LEMMA CheckedTyped ==
  ASSUME TypeOK
  PROVE  /\ \A k \in ScalarKeys : Data(k) \in Int \cup {Absent} /\ Number(k) \in Int
         /\ \A k \in HashKeys : Hash(k) \in Hashes
         /\ \A k \in Keys : Deadline(k) \in Nat \cup {Never}
  BY StoreAssumption
     DEF TypeOK, Data, Number, Hash, Deadline, Stale, Keys, Hashes, NoFields, Never

\* Storing a number, or what is left of the old one, keeps the types.
LEMMA StoreTyped ==
  ASSUME TypeOK, NEW k \in ScalarKeys, NEW v \in Int \cup {Absent},
         v = Absent => Data(k) = Absent, Store(k, v), disciplined' \in BOOLEAN
  PROVE  TypeOK'
  <1>1. data' \in [ScalarKeys -> Int \cup {Absent}]
    BY DEF TypeOK, Store
  <1>2. expiry' \in [Keys -> Nat \cup {Never}]
    BY CheckedTyped DEF TypeOK, Store, Keys
  <1>3. ASSUME NEW j \in Keys, expiry'[j] # Never PROVE Held(j)'
    BY <1>3, StoreAssumption
       DEF TypeOK, Store, Keys, Held, Data, Deadline, Stale, Never
  <1> QED BY <1>1, <1>2, <1>3 DEF TypeOK, Store

LEMMA StoreHashTyped ==
  ASSUME TypeOK, NEW k \in HashKeys, NEW h \in Hashes,
         h = NoFields => Hash(k) = NoFields, StoreHash(k, h), disciplined' \in BOOLEAN
  PROVE  TypeOK'
  <1>1. hashes' \in [HashKeys -> Hashes]
    BY DEF TypeOK, StoreHash
  <1>2. expiry' \in [Keys -> Nat \cup {Never}]
    BY CheckedTyped DEF TypeOK, StoreHash, Keys
  <1>3. ASSUME NEW j \in Keys, expiry'[j] # Never PROVE Held(j)'
    BY <1>3, StoreAssumption
       DEF TypeOK, StoreHash, Keys, Held, Hash, Deadline, Stale, Never
  <1> QED BY <1>1, <1>2, <1>3 DEF TypeOK, StoreHash

\* hset leaves no hash empty.
LEMMA MergedHasFields ==
  ASSUME NEW h \in Hashes, NEW m \in Hashes \ {NoFields}
  PROVE  Merged(h, m) \in Hashes /\ Merged(h, m) # NoFields
  <1>1. PICK f \in Fields : m[f] # Absent
    BY DEF Hashes, NoFields
  <1>2. Merged(h, m)[f] # Absent
    BY <1>1 DEF Merged
  <1> QED BY <1>2 DEF Merged, Hashes, NoFields

LEMMA ScalarStepTyped ==
  ASSUME TypeOK, NEW k \in ScalarKeys, ScalarStep(k), disciplined' \in BOOLEAN
  PROVE  TypeOK'
  <1>1. CASE Get(k) \/ ExistsScalar(k)
    BY <1>1, CheckedTyped, StoreTyped DEF Get, ExistsScalar
  <1>2. ASSUME NEW v \in Amounts, SetPlain(k, v) PROVE TypeOK'
    BY <1>2, StoreAssumption DEF TypeOK, SetPlain, Held, Keys
  <1>3. ASSUME NEW v \in Amounts, NEW t \in Ttls, SetWithTtl(k, v, t) PROVE TypeOK'
    BY <1>3, StoreAssumption DEF TypeOK, SetWithTtl, Held, Keys
  <1>4. ASSUME NEW d \in Amounts, IncrFloat(k, d) PROVE TypeOK'
    <2>1. Number(k) + d \in Int /\ Number(k) + d # Absent
      BY CheckedTyped, StoreAssumption
    <2> QED BY <1>4, <2>1, StoreTyped DEF IncrFloat
  <1>5. CASE DeleteScalar(k)
    BY <1>5, StoreAssumption DEF TypeOK, DeleteScalar, DropDeadline, Held, Keys
  <1>6. ASSUME NEW r \in ScalarKeys, NEW cost \in Amounts, NEW limit \in Amounts,
               NEW t \in Ttls, Reserve(k, r, cost, limit, t)
        PROVE  TypeOK'
    <2>1. CASE Number(k) + cost > limit
      BY <1>6, <2>1, CheckedTyped, StoreTyped DEF Reserve
    <2>2. CASE ~(Number(k) + cost > limit)
      <3>1. /\ Number(k) + cost \in Int /\ Number(k) + cost # Absent
            /\ cost \in Int /\ cost # Absent
            /\ t \in Nat
        BY CheckedTyped, StoreAssumption
      <3>2. data' \in [ScalarKeys -> Int \cup {Absent}]
        BY <1>6, <2>2, <3>1 DEF Reserve, TypeOK
      <3>3. expiry' \in [Keys -> Nat \cup {Never}]
        BY <1>6, <2>2, <3>1, CheckedTyped DEF Reserve, TypeOK, Keys
      <3>4. ASSUME NEW j \in Keys, expiry'[j] # Never PROVE Held(j)'
        BY <1>6, <2>2, <3>1, <3>4, StoreAssumption
           DEF Reserve, TypeOK, Keys, Held, Deadline, Stale, Never
      <3> QED BY <1>6, <2>2, <3>2, <3>3, <3>4 DEF Reserve, TypeOK
    <2> QED BY <2>1, <2>2
  <1> QED BY <1>1, <1>2, <1>3, <1>4, <1>5, <1>6 DEF ScalarStep

LEMMA HashStepTyped ==
  ASSUME TypeOK, NEW k \in HashKeys, HashStep(k), disciplined' \in BOOLEAN
  PROVE  TypeOK'
  <1>1. CASE HGetAll(k) \/ ExistsHash(k)
    BY <1>1, CheckedTyped, StoreHashTyped DEF HGetAll, ExistsHash
  <1>2. ASSUME NEW m \in Hashes \ {NoFields}, HSet(k, m) PROVE TypeOK'
    BY <1>2, CheckedTyped, MergedHasFields, StoreHashTyped DEF HSet
  <1>3. CASE DeleteHash(k)
    BY <1>3, StoreAssumption
       DEF TypeOK, DeleteHash, DropDeadline, Held, Keys, Hashes, NoFields
  <1> QED BY <1>1, <1>2, <1>3 DEF HashStep

LEMMA StepTyped == TypeOK /\ [Next]_vars => TypeOK'
  <1> SUFFICES ASSUME TypeOK, [Next]_vars PROVE TypeOK'
    OBVIOUS
  <1>0. disciplined' \in BOOLEAN
    BY DisciplinedTyped
  <1>1. ASSUME NEW k \in ScalarKeys, ScalarStep(k) PROVE TypeOK'
    BY <1>0, <1>1, ScalarStepTyped
  <1>2. ASSUME NEW k \in HashKeys, HashStep(k) PROVE TypeOK'
    BY <1>0, <1>2, HashStepTyped
  <1>3. ASSUME NEW k \in Keys, NEW t \in Ttls, Expire(k, t) PROVE TypeOK'
    BY <1>0, <1>3, StoreAssumption DEF TypeOK, Expire, Held, Never
  <1>4. CASE Tick
    BY <1>0, <1>4, StoreAssumption DEF TypeOK, Tick, Held, Never
  <1>5. CASE UNCHANGED vars
    BY <1>5 DEF vars, TypeOK, Held
  <1> QED BY <1>1, <1>2, <1>3, <1>4, <1>5 DEF Next

\* Every reachable state of the store is well typed, and no deadline outlives
\* its key.
THEOREM TypeCorrect == Spec => []TypeOK
  BY InitTyped, StepTyped, PTL DEF Spec

-----------------------------------------------------------------------------
(* Refinement                                                              *)

\* The engine's discipline: keys it never gives a TTL never have a deadline.
PlainNeverExpires ==
    disciplined => \A k \in PlainKeys \cup HashKeys : expiry[k] = Never

LEMMA InitPlain == Init => PlainNeverExpires
  BY StoreAssumption DEF Init, PlainNeverExpires, Keys

LEMMA StepPlain == TypeOK /\ PlainNeverExpires /\ [Next]_vars => PlainNeverExpires'
  <1> SUFFICES ASSUME TypeOK, PlainNeverExpires, [Next]_vars, disciplined',
                      NEW j \in PlainKeys \cup HashKeys
               PROVE  expiry'[j] = Never
    BY DEF PlainNeverExpires
  <1>d. disciplined
    BY DisciplinedBefore
  <1>0. j \in Keys /\ expiry[j] = Never /\ expiry \in [Keys -> Nat \cup {Never}]
    BY <1>d, StoreAssumption DEF PlainNeverExpires, Keys, TypeOK
  <1>1. ASSUME NEW k \in ScalarKeys, ScalarStep(k) PROVE expiry'[j] = Never
    <2>1. CASE Get(k) \/ ExistsScalar(k) \/ \E d \in Amounts : IncrFloat(k, d)
      BY <2>1, <1>0 DEF Get, ExistsScalar, IncrFloat, Store, Deadline, Stale, Keys, Never
    <2>2. CASE \E v \in Amounts : SetPlain(k, v)
      BY <2>2, <1>0 DEF SetPlain
    <2>3. CASE \E v \in Amounts, t \in Ttls : SetWithTtl(k, v, t)
      BY <2>3, <1>0, StoreAssumption DEF SetWithTtl, Note, Leased, Keys
    <2>4. CASE DeleteScalar(k)
      BY <2>4, <1>0 DEF DeleteScalar, DropDeadline, Keys
    <2>5. CASE \E r \in ScalarKeys, cost, limit \in Amounts, t \in Ttls :
                   Reserve(k, r, cost, limit, t)
      BY <2>5, <1>0, StoreAssumption
         DEF Reserve, Store, Note, Leased, Deadline, Stale, Keys, Never
    <2> QED BY <1>1, <2>1, <2>2, <2>3, <2>4, <2>5 DEF ScalarStep
  <1>2. ASSUME NEW k \in HashKeys, HashStep(k) PROVE expiry'[j] = Never
    BY <1>2, <1>0 DEF HashStep, HGetAll, HSet, ExistsHash, DeleteHash,
                      StoreHash, DropDeadline, Deadline, Stale, Keys, Never
  <1>3. ASSUME NEW k \in Keys, NEW t \in Ttls, Expire(k, t) PROVE expiry'[j] = Never
    BY <1>3 DEF Expire, Note
  <1>4. CASE Tick
    BY <1>4, <1>0 DEF Tick, Never
  <1>5. CASE UNCHANGED vars
    BY <1>5, <1>0 DEF vars
  <1> QED BY <1>1, <1>2, <1>3, <1>4, <1>5 DEF Next

\* Two functions on S that differ at k only.
LEMMA Update ==
  ASSUME NEW S, NEW f, NEW g, NEW k \in S, NEW v,
         f = [j \in S |-> f[j]], g = [j \in S |-> g[j]],
         \A j \in S : g[j] = IF j = k THEN v ELSE f[j]
  PROVE  g = [f EXCEPT ![k] = v]
  OBVIOUS

LEMMA LiveFunctions ==
  /\ LiveScalars = [k \in ScalarKeys |-> LiveScalars[k]]
  /\ LiveHashes = [k \in HashKeys |-> LiveHashes[k]]
  /\ LiveTtl = [k \in Keys |-> LiveTtl[k]]
  /\ LiveScalars' = [k \in ScalarKeys |-> LiveScalars'[k]]
  /\ LiveHashes' = [k \in HashKeys |-> LiveHashes'[k]]
  /\ LiveTtl' = [k \in Keys |-> LiveTtl'[k]]
  BY DEF LiveScalars, LiveHashes, LiveTtl

LEMMA InitRefined == Init => Contract!Init
  BY DEF Init, Contract!Init, Contract!Keys, Keys, Contract!NoFields, NoFields,
         Contract!Nothing, Nothing, LiveScalars, LiveHashes, LiveTtl, Never

\* The contents of the store after _check_expiry are the live ones.
LEMMA CheckedIsLive ==
  ASSUME TypeOK
  PROVE  /\ \A k \in ScalarKeys : /\ LiveScalars[k] = Data(k)
                                  /\ Contract!Number(k) = Number(k)
                                  /\ Contract!Present(k) = (Data(k) # Absent)
         /\ \A k \in HashKeys : /\ LiveHashes[k] = Hash(k)
                                /\ Contract!Present(k) = (Hash(k) # NoFields)
  BY StoreAssumption
     DEF LiveScalars, LiveHashes, Data, Hash, Number, Stale, Contract!Number,
         Contract!Present, Contract!NoFields, NoFields

\* What Store does to the live contents: the key k holds v, and no other key
\* and no TTL changes.
LEMMA StoreLive ==
  ASSUME TypeOK, NEW k \in ScalarKeys, NEW v \in Int \cup {Absent},
         v = Absent => Data(k) = Absent, Store(k, v)
  PROVE  /\ LiveScalars' = [LiveScalars EXCEPT ![k] = v]
         /\ LiveHashes' = LiveHashes
         /\ LiveTtl' = LiveTtl
  <1>1. expiry' = [expiry EXCEPT ![k] = Deadline(k)] /\ k \in Keys
    BY DEF Store, Keys
  <1>2. ASSUME NEW j \in Keys
        PROVE  expiry'[j] = IF j = k THEN Deadline(k) ELSE expiry[j]
    BY <1>1 DEF TypeOK
  <1>3. LiveTtl' = LiveTtl
    BY <1>2, <1>1 DEF LiveTtl, Deadline, Stale, Never, TypeOK
  <1>4. LiveHashes' = LiveHashes
    BY <1>2, StoreAssumption DEF LiveHashes, Store, Keys
  <1>5. ASSUME NEW j \in ScalarKeys
        PROVE  LiveScalars'[j] = IF j = k THEN v ELSE LiveScalars[j]
    BY <1>2 DEF LiveScalars, Store, Keys, TypeOK, Data, Deadline, Stale, Never
  <1>6. LiveScalars' = [LiveScalars EXCEPT ![k] = v]
    BY <1>5, Update, LiveFunctions
  <1> QED BY <1>3, <1>4, <1>6

LEMMA StoreHashLive ==
  ASSUME TypeOK, NEW k \in HashKeys, NEW h \in Hashes, StoreHash(k, h)
  PROVE  /\ LiveHashes' = [LiveHashes EXCEPT ![k] = h]
         /\ LiveScalars' = LiveScalars
         /\ LiveTtl' = LiveTtl
  <1>1. expiry' = [expiry EXCEPT ![k] = Deadline(k)] /\ k \in Keys
    BY DEF StoreHash, Keys
  <1>2. ASSUME NEW j \in Keys
        PROVE  expiry'[j] = IF j = k THEN Deadline(k) ELSE expiry[j]
    BY <1>1 DEF TypeOK
  <1>3. LiveTtl' = LiveTtl
    BY <1>2, <1>1 DEF LiveTtl, Deadline, Stale, Never, TypeOK
  <1>4. LiveScalars' = LiveScalars
    BY <1>2, StoreAssumption DEF LiveScalars, StoreHash, Keys
  <1>5. ASSUME NEW j \in HashKeys
        PROVE  LiveHashes'[j] = IF j = k THEN h ELSE LiveHashes[j]
    BY <1>2 DEF LiveHashes, StoreHash, Keys, TypeOK, Deadline, Stale, Never
  <1>6. LiveHashes' = [LiveHashes EXCEPT ![k] = h]
    BY <1>5, Update, LiveFunctions
  <1> QED BY <1>3, <1>4, <1>6

LEMMA ScalarStepRefined ==
  ASSUME TypeOK, PlainNeverExpires, disciplined, disciplined',
         NEW k \in ScalarKeys, ScalarStep(k)
  PROVE  Contract!Next
  <1> DEFINE Effect == \/ Contract!Get(k)
                       \/ \E v \in Amounts, t \in Ttls \cup {0} : Contract!Set(k, v, t)
                       \/ \E d \in Amounts : Contract!IncrFloat(k, d)
                       \/ Contract!DeleteScalar(k)
                       \/ \E r \in ScalarKeys, cost, limit \in Amounts, t \in Ttls :
                              Contract!Reserve(k, r, cost, limit, t)
                       \/ Contract!Exists(k)
  <1> SUFFICES Effect
    BY DEF Contract!Next, Contract!Keys
  <1>a. k \in Keys /\ k \notin HashKeys
    BY StoreAssumption DEF Keys
  <1>1. CASE Get(k) \/ ExistsScalar(k)
    <2>1. LiveScalars' = [LiveScalars EXCEPT ![k] = Data(k)] /\ LiveHashes' = LiveHashes
          /\ LiveTtl' = LiveTtl
      BY <1>1, StoreLive, CheckedTyped DEF Get, ExistsScalar
    <2>2. LiveScalars' = LiveScalars
      BY <2>1, CheckedIsLive DEF LiveScalars
    <2> QED BY <1>1, <2>1, <2>2, CheckedIsLive
            DEF Get, ExistsScalar, Contract!Get, Contract!Exists
  <1>2. ASSUME NEW v \in Amounts, SetPlain(k, v) PROVE Effect
    <2>1. expiry[k] = Never /\ expiry' = expiry /\ hashes' = hashes
      BY <1>2 DEF SetPlain, Note, Persistent, PlainNeverExpires
    <2>a. ASSUME NEW j \in ScalarKeys
          PROVE  LiveScalars'[j] = IF j = k THEN v ELSE LiveScalars[j]
      BY <1>2, <2>1 DEF SetPlain, LiveScalars, TypeOK, Never
    <2>2. LiveScalars' = [LiveScalars EXCEPT ![k] = v]
      BY <2>a, Update, LiveFunctions
    <2>3. LiveTtl' = [LiveTtl EXCEPT ![k] = 0]
      BY <2>1, <1>a DEF LiveTtl, Never
    <2>4. LiveHashes' = LiveHashes
      BY <2>1 DEF LiveHashes
    <2> QED BY <1>2, <2>2, <2>3, <2>4 DEF SetPlain, Contract!Set
  <1>3. ASSUME NEW v \in Amounts, NEW t \in Ttls, SetWithTtl(k, v, t) PROVE Effect
    <2>1. t \in Nat \ {0} /\ expiry' = [expiry EXCEPT ![k] = t] /\ hashes' = hashes
      BY <1>3, StoreAssumption DEF SetWithTtl
    <2>2. LiveScalars' = [LiveScalars EXCEPT ![k] = v]
      BY <1>3, <2>1 DEF SetWithTtl, LiveScalars, TypeOK, Keys
    <2>b. ASSUME NEW j \in Keys
          PROVE  LiveTtl'[j] = IF j = k THEN t ELSE LiveTtl[j]
      BY <2>1, <1>a DEF LiveTtl, TypeOK
    <2>3. LiveTtl' = [LiveTtl EXCEPT ![k] = t]
      BY <2>b, <1>a, Update, LiveFunctions
    <2>4. LiveHashes' = LiveHashes
      BY <2>1, <1>a DEF LiveHashes, TypeOK, Keys
    <2> QED BY <1>3, <2>2, <2>3, <2>4 DEF SetWithTtl, Contract!Set
  <1>4. ASSUME NEW d \in Amounts, IncrFloat(k, d) PROVE Effect
    <2>1. Number(k) + d \in Int /\ Number(k) + d # Absent
      BY CheckedTyped, StoreAssumption
    <2>2. /\ LiveScalars' = [LiveScalars EXCEPT ![k] = Number(k) + d]
          /\ LiveHashes' = LiveHashes
          /\ LiveTtl' = LiveTtl
      BY <1>4, <2>1, StoreLive DEF IncrFloat
    <2> QED BY <1>4, <2>2, CheckedIsLive DEF IncrFloat, Contract!IncrFloat
  <1>5. CASE DeleteScalar(k)
    <2>1. expiry' = [expiry EXCEPT ![k] = Never] /\ hashes' = hashes
      BY <1>5 DEF DeleteScalar, DropDeadline
    <2>2. LiveScalars' = [LiveScalars EXCEPT ![k] = Absent]
      BY <1>5, <2>1 DEF DeleteScalar, LiveScalars, TypeOK, Keys
    <2>b. ASSUME NEW j \in Keys
          PROVE  LiveTtl'[j] = IF j = k THEN 0 ELSE LiveTtl[j]
      BY <2>1, <1>a DEF LiveTtl, TypeOK, Never
    <2>3. LiveTtl' = [LiveTtl EXCEPT ![k] = 0]
      BY <2>b, <1>a, Update, LiveFunctions
    <2>4. LiveHashes' = LiveHashes
      BY <2>1, <1>a DEF LiveHashes, TypeOK, Keys
    <2> QED BY <1>5, <2>2, <2>3, <2>4 DEF DeleteScalar, Contract!DeleteScalar
  <1>6. ASSUME NEW r \in ScalarKeys, NEW cost \in Amounts, NEW limit \in Amounts,
               NEW t \in Ttls, Reserve(k, r, cost, limit, t)
        PROVE  Effect
    <2>1. CASE Number(k) + cost > limit
      <3>1. LiveScalars' = [LiveScalars EXCEPT ![k] = Data(k)] /\ LiveHashes' = LiveHashes
            /\ LiveTtl' = LiveTtl
        BY <1>6, <2>1, StoreLive, CheckedTyped DEF Reserve
      <3>2. LiveScalars' = LiveScalars
        BY <3>1, CheckedIsLive DEF LiveScalars
      <3>3. Contract!Reserve(k, r, cost, limit, t)
        BY <1>6, <2>1, <3>1, <3>2, CheckedIsLive DEF Reserve, Contract!Reserve
      <3> QED BY <3>3
    <2>2. CASE ~(Number(k) + cost > limit)
      <3> DEFINE new == Number(k) + cost
      <3>1. /\ data' = [data EXCEPT ![k] = new, ![r] = cost]
            /\ expiry' = [expiry EXCEPT ![k] = Deadline(k), ![r] = t]
            /\ hashes' = hashes
            /\ k # r /\ t \in Nat \ {0} /\ r \in Keys /\ r \notin HashKeys
        BY <1>6, <2>2, StoreAssumption DEF Reserve, Keys
      <3>2. ASSUME NEW j \in Keys
            PROVE  expiry'[j] = IF j = r THEN t ELSE IF j = k THEN Deadline(k) ELSE expiry[j]
        BY <3>1, <1>a DEF TypeOK
      <3>a. ASSUME NEW j \in ScalarKeys
            PROVE  LiveScalars'[j] = IF j = r THEN cost ELSE IF j = k THEN new ELSE LiveScalars[j]
        <4>1. data'[j] = IF j = r THEN cost ELSE IF j = k THEN new ELSE data[j]
          BY <3>1 DEF TypeOK
        <4>2. /\ j \in Keys
              /\ LiveScalars'[j] = IF expiry'[j] = 0 THEN Absent ELSE data'[j]
              /\ LiveScalars[j] = IF expiry[j] = 0 THEN Absent ELSE data[j]
          BY DEF LiveScalars, Keys
        <4>3. CASE j = r
          BY <3>1, <3>2, <4>1, <4>2, <4>3
        <4>4. CASE j = k
          <5>1. Deadline(k) # 0
            BY DEF Deadline, Stale, Never
          <5> HIDE DEF new
          <5> QED BY <3>1, <3>2, <4>1, <4>2, <4>4, <5>1
        <4>5. CASE j # r /\ j # k
          BY <3>2, <4>1, <4>2, <4>5
        <4> QED BY <3>1, <4>3, <4>4, <4>5
      <3>3. LiveScalars' = [LiveScalars EXCEPT ![k] = new, ![r] = cost]
        <4> DEFINE mid == [LiveScalars EXCEPT ![k] = new]
        <4>1. mid = [j \in ScalarKeys |-> mid[j]]
          BY DEF LiveScalars
        <4>2. \A j \in ScalarKeys : mid[j] = IF j = k THEN new ELSE LiveScalars[j]
          BY DEF LiveScalars
        <4> HIDE DEF mid
        <4>3. LiveScalars' = [mid EXCEPT ![r] = cost]
          BY <3>a, <4>1, <4>2, Update, LiveFunctions
        <4> QED BY <4>3 DEF mid
      <3>b. ASSUME NEW j \in Keys
            PROVE  LiveTtl'[j] = IF j = r THEN t ELSE LiveTtl[j]
        BY <3>1, <3>2, <1>a DEF LiveTtl, TypeOK, Deadline, Stale, Never
      <3>4. LiveTtl' = [LiveTtl EXCEPT ![r] = t]
        BY <3>1, <3>b, Update, LiveFunctions
      <3>5. LiveHashes' = LiveHashes
        BY <3>1, <3>2, <1>a DEF LiveHashes, Keys
      <3>6. Contract!Reserve(k, r, cost, limit, t)
        BY <1>6, <2>2, <3>1, <3>3, <3>4, <3>5, CheckedIsLive DEF Reserve, Contract!Reserve
      <3> QED BY <3>6
    <2> QED BY <2>1, <2>2
  <1> HIDE DEF Effect
  <1> QED BY <1>1, <1>2, <1>3, <1>4, <1>5, <1>6 DEF ScalarStep

LEMMA HashStepRefined ==
  ASSUME TypeOK, NEW k \in HashKeys, HashStep(k)
  PROVE  Contract!Next
  <1>a. k \in Keys /\ k \notin ScalarKeys
    BY StoreAssumption DEF Keys
  <1>1. CASE HGetAll(k) \/ ExistsHash(k)
    <2>1. LiveHashes' = [LiveHashes EXCEPT ![k] = Hash(k)] /\ LiveScalars' = LiveScalars
          /\ LiveTtl' = LiveTtl
      BY <1>1, StoreHashLive, CheckedTyped DEF HGetAll, ExistsHash
    <2>2. LiveHashes' = LiveHashes
      BY <2>1, CheckedIsLive DEF LiveHashes
    <2>3. Contract!HGetAll(k) \/ Contract!Exists(k)
      BY <1>1, <2>1, <2>2, CheckedIsLive
         DEF HGetAll, ExistsHash, Contract!HGetAll, Contract!Exists
    <2> QED BY <2>3 DEF Contract!Next, Contract!Keys
  <1>2. ASSUME NEW m \in Hashes \ {NoFields}, HSet(k, m) PROVE Contract!Next
    <2>1. /\ LiveHashes' = [LiveHashes EXCEPT ![k] = Merged(Hash(k), m)]
          /\ LiveScalars' = LiveScalars
          /\ LiveTtl' = LiveTtl
      BY <1>2, MergedHasFields, CheckedTyped, StoreHashLive DEF HSet
    <2>2. Merged(Hash(k), m) = Contract!Merged(LiveHashes[k], m)
      BY CheckedIsLive DEF Merged, Contract!Merged
    <2>3. Contract!HSet(k, m)
      BY <1>2, <2>1, <2>2 DEF HSet, Contract!HSet, LiveHashes
    <2> QED BY <2>3 DEF Contract!Next, Contract!Hashes, Contract!NoFields, Hashes, NoFields
  <1>3. CASE DeleteHash(k)
    <2>1. expiry' = [expiry EXCEPT ![k] = Never] /\ data' = data
      BY <1>3 DEF DeleteHash, DropDeadline
    <2>2. LiveHashes' = [LiveHashes EXCEPT ![k] = NoFields]
      BY <1>3, <2>1 DEF DeleteHash, LiveHashes, TypeOK, Keys
    <2>b. ASSUME NEW j \in Keys
          PROVE  LiveTtl'[j] = IF j = k THEN 0 ELSE LiveTtl[j]
      BY <2>1, <1>a DEF LiveTtl, TypeOK, Never
    <2>3. LiveTtl' = [LiveTtl EXCEPT ![k] = 0]
      BY <2>b, <1>a, Update, LiveFunctions
    <2>4. LiveScalars' = LiveScalars
      BY <2>1, <1>a DEF LiveScalars, TypeOK, Keys
    <2>5. Contract!DeleteHash(k)
      BY <1>3, <2>2, <2>3, <2>4
         DEF DeleteHash, Contract!DeleteHash, Contract!NoFields, NoFields
    <2> QED BY <2>5 DEF Contract!Next
  <1> QED BY <1>1, <1>2, <1>3 DEF HashStep

\* A key whose deadline passes is evicted later, but is gone at once for
\* every caller.
LEMMA TickRefined == TypeOK /\ Tick => Contract!Tick
  <1> SUFFICES ASSUME TypeOK, Tick PROVE Contract!Tick
    OBVIOUS
  <1>1. \A j \in Keys : /\ expiry[j] \in Nat \cup {Never}
                        /\ expiry'[j] = IF expiry[j] > 0 THEN expiry[j] - 1 ELSE expiry[j]
    BY DEF TypeOK, Tick
  <1>2. LiveScalars' = [k \in ScalarKeys |-> IF LiveTtl[k] = 1 THEN Absent ELSE LiveScalars[k]]
    BY <1>1 DEF LiveScalars, LiveTtl, Tick, Keys, Never
  <1>3. LiveHashes' = [k \in HashKeys |-> IF LiveTtl[k] = 1 THEN NoFields ELSE LiveHashes[k]]
    BY <1>1 DEF LiveHashes, LiveTtl, Tick, Keys, Never
  <1>4. LiveTtl' = [k \in Keys |-> IF LiveTtl[k] = 0 THEN 0 ELSE LiveTtl[k] - 1]
    BY <1>1 DEF LiveTtl, Never
  <1> QED BY <1>2, <1>3, <1>4
          DEF Tick, Contract!Tick, Contract!Nothing, Nothing, Contract!NoFields,
              NoFields, Contract!Keys, Keys

LEMMA StepRefined ==
  TypeOK /\ PlainNeverExpires /\ [Next]_vars
    => [disciplined' => Contract!Next]_contractVars
  <1> SUFFICES ASSUME disciplined', TypeOK, PlainNeverExpires, [Next]_vars
               PROVE  [Contract!Next]_contractVars
    OBVIOUS
  <1>0. disciplined
    BY DisciplinedBefore
  <1>1. CASE \E k \in ScalarKeys : ScalarStep(k)
    BY <1>0, <1>1, ScalarStepRefined
  <1>2. CASE \E k \in HashKeys : HashStep(k)
    BY <1>2, HashStepRefined
  <1>3. CASE \E k \in Keys, t \in Ttls : Expire(k, t)
    BY <1>3 DEF Expire, Note
  <1>4. CASE Tick
    BY <1>4, TickRefined DEF Contract!Next
  <1>5. CASE UNCHANGED vars
    BY <1>5 DEF vars, contractVars, LiveScalars, LiveHashes, LiveTtl
  <1> QED BY <1>1, <1>2, <1>3, <1>4, <1>5 DEF Next

\* MemoryStore "passes the same contract as Redis" for the calls the engine
\* makes: as long as its callers keep to them, every step of the lazily
\* expiring dictionaries is one of the contract.
THEOREM ContractImplemented == Spec => ImplementsContract
  <1> DEFINE IInv == TypeOK /\ PlainNeverExpires
  <1>1. Init => IInv /\ Contract!Init
    BY InitTyped, InitPlain, InitRefined
  <1>2. IInv /\ [Next]_vars => IInv'
    BY StepTyped, StepPlain
  <1>3. IInv /\ [Next]_vars => [disciplined' => Contract!Next]_contractVars
    BY StepRefined
  <1> HIDE DEF IInv
  <1> QED BY <1>1, <1>2, <1>3, PTL DEF Spec, ImplementsContract

=============================================================================
