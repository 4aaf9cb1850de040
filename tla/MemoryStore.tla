----------------------------- MODULE MemoryStore -----------------------------
(***************************************************************************)
(* The in-memory store, src/budgetctl/store/memory.py: two dictionaries of *)
(* contents and one of deadlines.  Nothing removes a key when its deadline *)
(* passes; the next operation that calls _check_expiry on it does, and     *)
(* set, expire and delete do not call it.                                  *)
(*                                                                         *)
(* No method yields, so each is one step.  A deadline is kept as the time  *)
(* left until it.  Numbers are integers.                                   *)
(***************************************************************************)
EXTENDS Integers

CONSTANTS
    ScalarKeys,     \* keys of numbers
    HashKeys,       \* keys of hashes
    PlainKeys,      \* the scalar keys the engine never gives a TTL
    Fields,         \* fields of hashes
    FieldValues,    \* what a field may hold
    Absent,         \* no such key, or no such field
    Amounts,        \* numbers a caller writes, adds, or asks for
    Ttls,           \* durations a caller gives, in ticks
    MaxNumber       \* bound: the largest number stored

Keys == ScalarKeys \cup HashKeys

ASSUME StoreAssumption ==
    /\ ScalarKeys \cap HashKeys = {}
    /\ PlainKeys \subseteq ScalarKeys
    /\ Absent \notin Int
    /\ Absent \notin FieldValues
    /\ Amounts \subseteq Int
    /\ Ttls \subseteq Nat \ {0}
    /\ MaxNumber \in Nat

VARIABLES
    data,       \* _data
    hashes,     \* _hashes; an absent hash has no fields
    expiry,     \* _expiry, as the time left; 0: the deadline has passed
    reply,      \* the operation that ran last, its key and its answer
    disciplined \* history: every call so far was one the engine makes

vars == <<data, hashes, expiry, reply, disciplined>>

Hashes == [Fields -> FieldValues \cup {Absent}]
NoFields == [f \in Fields |-> Absent]
Never == -1     \* no entry in _expiry
Nothing == <<"none", Absent, Absent>>

Init ==
    /\ data = [k \in ScalarKeys |-> Absent]
    /\ hashes = [k \in HashKeys |-> NoFields]
    /\ expiry = [k \in Keys |-> Never]
    /\ reply = Nothing
    /\ disciplined = TRUE

-----------------------------------------------------------------------------
(* _check_expiry: what the three dictionaries hold after it                *)

Stale(k) == expiry[k] = 0

\* Seeded fault: contents are read without _check_expiry.
DataUnchecked(k) == data[k]

Data(k) == IF Stale(k) THEN Absent ELSE data[k]
Hash(k) == IF Stale(k) THEN NoFields ELSE hashes[k]
Deadline(k) == IF Stale(k) THEN Never ELSE expiry[k]

Number(k) == IF Data(k) = Absent THEN 0 ELSE Data(k)
Merged(h, m) == [f \in Fields |-> IF m[f] = Absent THEN h[f] ELSE m[f]]

\* The scalar key k holds v after its expiry was checked.
Store(k, v) ==
    /\ data' = [data EXCEPT ![k] = v]
    /\ expiry' = [expiry EXCEPT ![k] = Deadline(k)]
    /\ UNCHANGED hashes

StoreHash(k, h) ==
    /\ hashes' = [hashes EXCEPT ![k] = h]
    /\ expiry' = [expiry EXCEPT ![k] = Deadline(k)]
    /\ UNCHANGED data

-----------------------------------------------------------------------------
(* The engine gives a TTL with every write of a reservation or suspended   *)
(* key and with no write of another key, and never calls expire.  Other    *)
(* callers may; history notes that they did.                               *)

Persistent(k) == k \in PlainKeys
Leased(k) == k \in ScalarKeys \ PlainKeys
Note(asTheEngine) == disciplined' = IF asTheEngine THEN disciplined ELSE FALSE

Get(k) ==
    /\ Store(k, Data(k))
    /\ reply' = <<"get", k, Data(k)>>
    /\ UNCHANGED disciplined

\* set without a TTL leaves an existing deadline alone.
SetPlain(k, v) ==
    /\ Note(Persistent(k))
    /\ data' = [data EXCEPT ![k] = v]
    /\ reply' = <<"set", k, v>>
    /\ UNCHANGED <<hashes, expiry>>

SetWithTtl(k, v, t) ==
    /\ Note(Leased(k))
    /\ data' = [data EXCEPT ![k] = v]
    /\ expiry' = [expiry EXCEPT ![k] = t]
    /\ reply' = <<"set", k, v>>
    /\ UNCHANGED hashes

IncrFloat(k, d) ==
    /\ Note(Persistent(k))
    /\ Number(k) + d \in -MaxNumber..MaxNumber
    /\ Store(k, Number(k) + d)
    /\ reply' = <<"incr_float", k, Number(k) + d>>

ExistsScalar(k) ==
    /\ Store(k, Data(k))
    /\ reply' = <<"exists", k, Data(k) # Absent>>
    /\ UNCHANGED disciplined

ExistsHash(k) ==
    /\ StoreHash(k, Hash(k))
    /\ reply' = <<"exists", k, Hash(k) # NoFields>>
    /\ UNCHANGED disciplined

\* The deadline goes with the key.  Seeded fault: it stays.
DropNothing(k) == UNCHANGED expiry
DropDeadline(k) == expiry' = [expiry EXCEPT ![k] = Never]

DeleteScalar(k) ==
    /\ data' = [data EXCEPT ![k] = Absent]
    /\ DropDeadline(k)
    /\ reply' = <<"delete", k, Absent>>
    /\ UNCHANGED <<hashes, disciplined>>

DeleteHash(k) ==
    /\ hashes' = [hashes EXCEPT ![k] = NoFields]
    /\ DropDeadline(k)
    /\ reply' = <<"delete", k, Absent>>
    /\ UNCHANGED <<data, disciplined>>

\* expire looks at the dictionaries as they are, stale keys included.
Held(k) == IF k \in ScalarKeys THEN data[k] # Absent ELSE hashes[k] # NoFields

Expire(k, t) ==
    /\ Note(FALSE)
    /\ expiry' = [expiry EXCEPT ![k] = IF Held(k) THEN t ELSE @]
    /\ reply' = <<"expire", k, Absent>>
    /\ UNCHANGED <<data, hashes>>

HGetAll(k) ==
    /\ StoreHash(k, Hash(k))
    /\ reply' = <<"hgetall", k, Hash(k)>>
    /\ UNCHANGED disciplined

HSet(k, m) ==
    /\ StoreHash(k, Merged(Hash(k), m))
    /\ reply' = <<"hset", k, Absent>>
    /\ UNCHANGED disciplined

\* eval_lua of the reservation script: spent key k, reservation key r.
Reserve(k, r, cost, limit, t) ==
    /\ k # r
    /\ Note(Persistent(k) /\ Leased(r))
    /\ IF Number(k) + cost > limit
       THEN /\ Store(k, Data(k))
            /\ reply' = <<"rejected", k, Number(k)>>
       ELSE /\ Number(k) + cost \in -MaxNumber..MaxNumber
            /\ data' = [data EXCEPT ![k] = Number(k) + cost, ![r] = cost]
            /\ expiry' = [expiry EXCEPT ![k] = Deadline(k), ![r] = t]
            /\ reply' = <<"reserved", k, Number(k) + cost>>
            /\ UNCHANGED hashes

\* A unit of time passes, and touches no dictionary.
Tick ==
    /\ expiry' = [k \in Keys |-> IF expiry[k] > 0 THEN expiry[k] - 1 ELSE expiry[k]]
    /\ reply' = Nothing
    /\ UNCHANGED <<data, hashes, disciplined>>

ScalarStep(k) ==
    \/ Get(k)
    \/ \E v \in Amounts : SetPlain(k, v)
    \/ \E v \in Amounts, t \in Ttls : SetWithTtl(k, v, t)
    \/ \E d \in Amounts : IncrFloat(k, d)
    \/ ExistsScalar(k)
    \/ DeleteScalar(k)
    \/ \E r \in ScalarKeys, cost, limit \in Amounts, t \in Ttls :
           Reserve(k, r, cost, limit, t)

HashStep(k) ==
    \/ HGetAll(k)
    \/ \E m \in Hashes \ {NoFields} : HSet(k, m)
    \/ ExistsHash(k)
    \/ DeleteHash(k)

Next ==
    \/ \E k \in ScalarKeys : ScalarStep(k)
    \/ \E k \in HashKeys : HashStep(k)
    \/ \E k \in Keys, t \in Ttls : Expire(k, t)
    \/ Tick

Spec == Init /\ [][Next]_vars

-----------------------------------------------------------------------------
(* Properties                                                              *)

\* Every variable has its type, and only a key that is held has a deadline.
TypeOK ==
    /\ data \in [ScalarKeys -> Int \cup {Absent}]
    /\ hashes \in [HashKeys -> Hashes]
    /\ expiry \in [Keys -> Nat \cup {Never}]
    /\ disciplined \in BOOLEAN
    /\ \A k \in Keys : expiry[k] # Never => Held(k)

\* The dictionaries as the contract sees them: a key whose deadline has
\* passed is gone although it is still held.
LiveScalars == [k \in ScalarKeys |-> IF expiry[k] = 0 THEN Absent ELSE data[k]]
LiveHashes == [k \in HashKeys |-> IF expiry[k] = 0 THEN NoFields ELSE hashes[k]]
LiveTtl == [k \in Keys |-> IF expiry[k] > 0 THEN expiry[k] ELSE 0]

Contract == INSTANCE KeyValueStore
    WITH scalars <- LiveScalars, hashes <- LiveHashes, ttl <- LiveTtl

contractVars == <<LiveScalars, LiveHashes, LiveTtl, reply>>

\* The store "passes the same contract as Redis": as long as its callers make
\* the calls the engine makes, and however late a stale key is noticed, every
\* answer is the contract's.
ImplementsContract ==
    Contract!Init /\ [][disciplined' => Contract!Next]_contractVars

=============================================================================
