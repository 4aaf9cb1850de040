---------------------------- MODULE LoopDetector ----------------------------
(***************************************************************************)
(* The loop detector, src/budgetctl/engine/loop_detector.py, for one       *)
(* agent: its dictionaries are keyed by agent and no method relates two.   *)
(*                                                                         *)
(* The pre-call hook checks a request before it is sent to the LLM and the *)
(* success hook records it after the response, so several requests of the  *)
(* agent are in flight between their check and their record.  A request    *)
(* is its content hash.                                                    *)
(*                                                                         *)
(* Velocities are in calls per velocity window instead of calls per        *)
(* minute, which scales both sides of the comparison alike, and in units   *)
(* of a thousandth: floating point is abstracted to integer arithmetic.    *)
(***************************************************************************)
EXTENDS Integers, FiniteSets, Sequences, Units

CONSTANTS
    Hashes,             \* contents an agent may send
    Slots,              \* requests the agent may have in flight
    Free,               \* an unused slot
    WindowSize,         \* window_size
    RepeatThreshold,    \* repeat_threshold
    CycleMaxPeriod,     \* cycle_max_period
    VelocityWindow,     \* velocity_window_sec, in ticks
    VelocityMultiplier, \* velocity_multiplier
    Warmup,             \* _VELOCITY_WARMUP_CALLS
    Enforce,            \* config.mode is "enforce" rather than "observe"
    MaxCalls,           \* bound: recorded calls
    MaxTicks            \* bound: units of time

ASSUME DetectorAssumption ==
    /\ Free \notin Hashes
    /\ IsFiniteSet(Slots)
    /\ WindowSize \in Nat \ {0}
    /\ RepeatThreshold \in Nat \ {0}
    /\ CycleMaxPeriod \in Nat
    /\ VelocityWindow \in Nat
    /\ VelocityMultiplier \in Nat \ {0}
    /\ Warmup \in Nat
    /\ Enforce \in BOOLEAN
    /\ MaxCalls \in Nat
    /\ MaxTicks \in Nat

Unit == 1000        \* one call per window
NoBaseline == 0     \* no entry in _velocity_baseline, or 0.0
Ages == 0..VelocityWindow

VARIABLES
    window,     \* _hash_windows: the newest hashes, oldest first
    times,      \* _call_times: how many calls have each age, while recent
    calls,      \* _call_counts
    baseline,   \* _velocity_baseline
    inFlight,   \* requests between their check and their record
    now,        \* ticks so far
    peak        \* history: the most calls that were recent at a record

vars == <<window, times, calls, baseline, inFlight, now, peak>>

Init ==
    /\ window = <<>>
    /\ times = [i \in Ages |-> 0]
    /\ calls = 0
    /\ baseline = NoBaseline
    /\ inFlight = [s \in Slots |-> Free]
    /\ now = 0
    /\ peak = 0

-----------------------------------------------------------------------------
(* The three strategies                                                    *)

Count(w, h) == Cardinality({i \in DOMAIN w : w[i] = h})

\* Seeded fault: one repetition too many.
IsRepeatedMore(w, h) == Count(w, h) > RepeatThreshold

\* Strategy A
IsRepeated(w, h) == Count(w, h) >= RepeatThreshold

\* The i-th of the three chunks of length p that end the window.
Chunk(w, p, i) == SubSeq(w, Len(w) - (3 - i) * p + 1, Len(w) - (2 - i) * p)

\* Seeded fault: the oldest of the three repetitions is not compared.
HasCycleOfTwo(w) ==
    \E p \in 2..CycleMaxPeriod :
        3 * p <= Len(w) /\ Chunk(w, p, 1) = Chunk(w, p, 2)

\* Strategy B
HasCycle(w) ==
    \E p \in 2..CycleMaxPeriod :
        /\ 3 * p <= Len(w)
        /\ Chunk(w, p, 0) = Chunk(w, p, 1)
        /\ Chunk(w, p, 1) = Chunk(w, p, 2)

\* The calls that are at most velocity_window_sec old.
Recent(ts) == Total(ts, Ages)

\* Strategy C
IsTooFast ==
    /\ calls >= Warmup
    /\ baseline # NoBaseline
    /\ Unit * Recent(times) > baseline * VelocityMultiplier

IsLoop(h) == IsRepeated(window, h) \/ HasCycle(window) \/ IsTooFast

-----------------------------------------------------------------------------
(* The hooks                                                               *)

\* check, in the pre-call hook.  It changes nothing; a request it flags is
\* answered with a 429 in enforce mode and goes on in observe mode.
Check(s, h) ==
    /\ inFlight[s] = Free
    /\ Enforce => ~IsLoop(h)
    /\ inFlight' = [inFlight EXCEPT ![s] = h]
    /\ UNCHANGED <<window, times, calls, baseline, now, peak>>

\* Seeded fault: a list without a bound.
PushUnbounded(w, h) == Append(w, h)

\* deque(maxlen=window_size): the oldest hash falls out.
Push(w, h) == Append(IF Len(w) < WindowSize THEN w ELSE Tail(w), h)

\* Seeded fault: the old average keeps its full weight.
SmoothedUpwards(prev, velocity) == prev + velocity \div 10

\* The moving average with _EMA_ALPHA, capped by _BASELINE_GROWTH_CAP.
Smoothed(prev, velocity) ==
    LET candidate == (velocity + 9 * prev) \div 10
        allowed == (prev * 21) \div 20
    IN  IF candidate <= allowed THEN candidate ELSE allowed

\* _update_velocity_baseline, once the new call is counted.
Updated(prev, n, ts) ==
    IF n < 2 THEN prev
    ELSE IF prev = NoBaseline THEN Unit * Recent(ts)
    ELSE Smoothed(prev, Unit * Recent(ts))

\* record, in the success hook.
Record(s) ==
    /\ inFlight[s] # Free
    /\ calls < MaxCalls
    /\ window' = Push(window, inFlight[s])
    /\ times' = [times EXCEPT ![0] = @ + 1]
    /\ calls' = calls + 1
    /\ baseline' = Updated(baseline, calls', times')
    /\ inFlight' = [inFlight EXCEPT ![s] = Free]
    /\ peak' = IF Recent(times') > peak THEN Recent(times') ELSE peak
    /\ UNCHANGED now

\* The failure hook records nothing; nor does a request the breaker or the
\* budget turns down after its check.
Drop(s) ==
    /\ inFlight[s] # Free
    /\ inFlight' = [inFlight EXCEPT ![s] = Free]
    /\ UNCHANGED <<window, times, calls, baseline, now, peak>>

\* clear_session forgets the agent, but not the requests already checked.
ClearSession ==
    /\ window' = <<>>
    /\ times' = [i \in Ages |-> 0]
    /\ calls' = 0
    /\ baseline' = NoBaseline
    /\ UNCHANGED <<inFlight, now, peak>>

\* Time passes; calls leave the velocity window.
Tick ==
    /\ now < MaxTicks
    /\ now' = now + 1
    /\ times' = [i \in Ages |-> IF i = 0 THEN 0 ELSE times[i - 1]]
    /\ UNCHANGED <<window, calls, baseline, inFlight, peak>>

Next ==
    \/ \E s \in Slots :
        \/ \E h \in Hashes : Check(s, h)
        \/ Record(s)
        \/ Drop(s)
    \/ ClearSession
    \/ Tick

Spec == Init /\ [][Next]_vars

-----------------------------------------------------------------------------
(* Properties                                                              *)

\* Every variable has its type; the window never outgrows its deque.
TypeOK ==
    /\ window \in Seq(Hashes) /\ Len(window) <= WindowSize
    /\ times \in [Ages -> Nat]
    /\ calls \in 0..MaxCalls
    /\ baseline \in Nat
    /\ inFlight \in [Slots -> Hashes \cup {Free}]
    /\ now \in 0..MaxTicks
    /\ peak \in Nat

InFlightOf(h) == {s \in Slots : inFlight[s] = h}

\* In enforce mode a content passes at most repeat_threshold times within a
\* window, plus once for every other request that was in flight when its
\* check passed: requests that are checked before any of them is recorded
\* do not get more through than that.
RepeatsBounded ==
    Enforce => \A h \in Hashes :
        Count(window, h) + Cardinality(InFlightOf(h))
            < RepeatThreshold + Cardinality(Slots)

\* The cycle check finds exactly the windows that end in three repetitions:
\* each of the last 2p hashes equals the one p places before it.
CyclesAreRepetitions ==
    HasCycle(window) <=>
        \E p \in 2..CycleMaxPeriod :
            /\ 3 * p <= Len(window)
            /\ \A i \in (Len(window) - 2 * p + 1)..Len(window) :
                   window[i] = window[i - p]

\* The moving average stays between the slowest velocity there can be, one
\* call per window, and the fastest one observed; so an agent with no more
\* calls per window than the multiplier is never flagged for its velocity.
BaselineWithinObserved ==
    /\ calls >= 2 => baseline \in Unit..(Unit * peak)
    /\ Recent(times) <= VelocityMultiplier => ~IsTooFast

\* After a manual reset of the breaker the agent's requests are to go through
\* "again": when nothing is in flight, some content passes the repetition
\* checks.
SomethingPasses ==
    (\A s \in Slots : inFlight[s] = Free) =>
        \E h \in Hashes : ~IsRepeated(window, h) /\ ~HasCycle(window)

=============================================================================
