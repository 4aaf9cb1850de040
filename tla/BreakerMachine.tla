--------------------------- MODULE BreakerMachine ---------------------------
(***************************************************************************)
(* What the circuit breaker promises: the three-state machine of the       *)
(* docstring of src/budgetctl/engine/circuit_breaker.py,                   *)
(*                                                                         *)
(*     CLOSED --[trip]--> OPEN --[cooldown expires]--> HALF_OPEN           *)
(*     HALF_OPEN --[success]--> CLOSED,  HALF_OPEN --[failure]--> OPEN     *)
(*                                                                         *)
(* and the operator's reset.  It says nothing of keys, hooks or processes. *)
(***************************************************************************)
CONSTANT Agents

VARIABLES
    state,      \* of the breaker of each agent
    cooling,    \* TRUE while its cooldown runs
    resetting   \* agents a reset command is at work on

States == {"closed", "open", "half_open"}

Init ==
    /\ state = [a \in Agents |-> "closed"]
    /\ cooling = [a \in Agents |-> FALSE]
    /\ resetting = {}

\* Any state: a loop, a spent budget or too many errors; cooldown restarts.
Trip(a) ==
    /\ state' = [state EXCEPT ![a] = "open"]
    /\ cooling' = [cooling EXCEPT ![a] = TRUE]
    /\ UNCHANGED resetting

\* Cooldowns elapse; no breaker changes its state by that.
Elapse(S) ==
    /\ cooling' = [a \in Agents |-> cooling[a] /\ a \notin S]
    /\ UNCHANGED <<state, resetting>>

\* The first look after the cooldown lets probes through.
Probe(a) ==
    /\ state[a] = "open"
    /\ ~cooling[a]
    /\ state' = [state EXCEPT ![a] = "half_open"]
    /\ UNCHANGED <<cooling, resetting>>

Recover(a) ==
    /\ state[a] = "half_open"
    /\ state' = [state EXCEPT ![a] = "closed"]
    /\ UNCHANGED <<cooling, resetting>>

\* Only a reset command closes a breaker that is open, and it does so once.
Reset(a) ==
    /\ a \notin resetting
    /\ state' = [state EXCEPT ![a] = "closed"]
    /\ cooling' = [cooling EXCEPT ![a] = FALSE]
    /\ resetting' = resetting \cup {a}

EndReset(a) ==
    /\ a \in resetting
    /\ resetting' = resetting \ {a}
    /\ UNCHANGED <<state, cooling>>

Next ==
    \/ \E a \in Agents : Trip(a) \/ Probe(a) \/ Recover(a) \/ Reset(a) \/ EndReset(a)
    \/ \E S \in SUBSET Agents : Elapse(S)

Spec == Init /\ [][Next]_<<state, cooling, resetting>>

=============================================================================
