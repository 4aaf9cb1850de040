---------------------------- MODULE KeyValueStore ----------------------------
(***************************************************************************)
(* What the engine relies on its store for: the contract of StoreInterface *)
(* in src/budgetctl/store/__init__.py, with the meaning RedisStore gives   *)
(* it.  A key that has a TTL is gone, for every operation, from the moment *)
(* the TTL has passed, and a write without a TTL lasts.                    *)
(*                                                                         *)
(* Each operation is atomic and answers in reply.  Keys hold a number or   *)
(* a hash once and for all, as the engine's key schema has it.             *)
(***************************************************************************)
EXTENDS Integers

CONSTANTS
    ScalarKeys,     \* keys of numbers
    HashKeys,       \* keys of hashes
    Fields,         \* fields of hashes
    FieldValues,    \* what a field may hold
    Absent,         \* no such key, or no such field
    Amounts,        \* numbers a caller writes, adds, or asks for
    Ttls            \* durations a caller gives, in ticks

VARIABLES
    scalars,    \* the number at each key
    hashes,     \* the fields at each key; a hash without fields is no key
    ttl,        \* remaining time of each key; 0: it does not expire
    reply       \* the operation that ran last, its key and its answer

vars == <<scalars, hashes, ttl, reply>>

Keys == ScalarKeys \cup HashKeys
Hashes == [Fields -> FieldValues \cup {Absent}]
NoFields == [f \in Fields |-> Absent]
Nothing == <<"none", Absent, Absent>>

Number(k) == IF scalars[k] = Absent THEN 0 ELSE scalars[k]
Present(k) == IF k \in ScalarKeys THEN scalars[k] # Absent
                                  ELSE hashes[k] # NoFields

\* The hash h after the fields of mapping m were set.
Merged(h, m) == [f \in Fields |-> IF m[f] = Absent THEN h[f] ELSE m[f]]

Init ==
    /\ scalars = [k \in ScalarKeys |-> Absent]
    /\ hashes = [k \in HashKeys |-> NoFields]
    /\ ttl = [k \in Keys |-> 0]
    /\ reply = Nothing

Get(k) ==
    /\ reply' = <<"get", k, scalars[k]>>
    /\ UNCHANGED <<scalars, hashes, ttl>>

\* t = 0 stands for a call without a TTL.
Set(k, v, t) ==
    /\ scalars' = [scalars EXCEPT ![k] = v]
    /\ ttl' = [ttl EXCEPT ![k] = t]
    /\ reply' = <<"set", k, v>>
    /\ UNCHANGED hashes

IncrFloat(k, d) ==
    /\ scalars' = [scalars EXCEPT ![k] = Number(k) + d]
    /\ reply' = <<"incr_float", k, Number(k) + d>>
    /\ UNCHANGED <<hashes, ttl>>

Exists(k) ==
    /\ reply' = <<"exists", k, Present(k)>>
    /\ UNCHANGED <<scalars, hashes, ttl>>

DeleteScalar(k) ==
    /\ scalars' = [scalars EXCEPT ![k] = Absent]
    /\ ttl' = [ttl EXCEPT ![k] = 0]
    /\ reply' = <<"delete", k, Absent>>
    /\ UNCHANGED hashes

DeleteHash(k) ==
    /\ hashes' = [hashes EXCEPT ![k] = NoFields]
    /\ ttl' = [ttl EXCEPT ![k] = 0]
    /\ reply' = <<"delete", k, Absent>>
    /\ UNCHANGED scalars

Expire(k, t) ==
    /\ ttl' = [ttl EXCEPT ![k] = IF Present(k) THEN t ELSE @]
    /\ reply' = <<"expire", k, Absent>>
    /\ UNCHANGED <<scalars, hashes>>

HGetAll(k) ==
    /\ reply' = <<"hgetall", k, hashes[k]>>
    /\ UNCHANGED <<scalars, hashes, ttl>>

HSet(k, m) ==
    /\ hashes' = [hashes EXCEPT ![k] = Merged(@, m)]
    /\ reply' = <<"hset", k, Absent>>
    /\ UNCHANGED <<scalars, ttl>>

\* eval_lua of the reservation script: spent key k, reservation key r.
Reserve(k, r, cost, limit, t) ==
    /\ k # r
    /\ IF Number(k) + cost > limit
       THEN /\ reply' = <<"rejected", k, Number(k)>>
            /\ UNCHANGED <<scalars, ttl>>
       ELSE /\ scalars' = [scalars EXCEPT ![k] = Number(k) + cost, ![r] = cost]
            /\ ttl' = [ttl EXCEPT ![r] = t]
            /\ reply' = <<"reserved", k, Number(k) + cost>>
    /\ UNCHANGED hashes

\* A unit of time passes; keys whose TTL is over are gone.
Tick ==
    /\ scalars' = [k \in ScalarKeys |-> IF ttl[k] = 1 THEN Absent ELSE scalars[k]]
    /\ hashes' = [k \in HashKeys |-> IF ttl[k] = 1 THEN NoFields ELSE hashes[k]]
    /\ ttl' = [k \in Keys |-> IF ttl[k] = 0 THEN 0 ELSE ttl[k] - 1]
    /\ reply' = Nothing

Next ==
    \/ \E k \in ScalarKeys :
        \/ Get(k)
        \/ \E v \in Amounts, t \in Ttls \cup {0} : Set(k, v, t)
        \/ \E d \in Amounts : IncrFloat(k, d)
        \/ DeleteScalar(k)
        \/ \E r \in ScalarKeys, cost, limit \in Amounts, t \in Ttls :
               Reserve(k, r, cost, limit, t)
    \/ \E k \in HashKeys :
        \/ HGetAll(k)
        \/ \E m \in Hashes \ {NoFields} : HSet(k, m)
        \/ DeleteHash(k)
    \/ \E k \in Keys : Exists(k) \/ \E t \in Ttls : Expire(k, t)
    \/ Tick

Spec == Init /\ [][Next]_vars

=============================================================================
