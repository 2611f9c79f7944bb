--------------------------- MODULE CircuitBreaker ---------------------------
(***************************************************************************)
(* lunaroute-routing/src/circuit_breaker.rs: one breaker shared by the     *)
(* threads that send requests to a provider.  The breaker's state, its two *)
(* counters and its timestamp are separate atomics, so every access is a   *)
(* step of its own and a thread may act on a state it read several steps   *)
(* ago.  Accesses are sequentially consistent (the code uses               *)
(* Acquire/Release; no property here relies on weaker orders).             *)
(*                                                                         *)
(* Time: only "has Timeout elapsed since last_state_change?" is ever asked *)
(* in the breaker, so the timestamp is the number of clock ticks since it  *)
(* was written, counted up to Timeout (all later instants look the same).  *)
(***************************************************************************)
EXTENDS Integers

CONSTANTS
    Threads,           \* callers of the breaker, each with one request at a time
    FailureThreshold,  \* CircuitBreakerConfig.failure_threshold
    SuccessThreshold,  \* CircuitBreakerConfig.success_threshold
    Timeout,           \* CircuitBreakerConfig.timeout, in ticks
    MaxU32,            \* the largest counter value (u32::MAX in the code)
    ManualOverride     \* whether force_open and force_close are called

(* validate(): no threshold and no timeout is zero; thresholds are u32. *)
ASSUME ConfigAssumption ==
    /\ FailureThreshold \in Nat \ {0}
    /\ SuccessThreshold \in Nat \ {0}
    /\ Timeout \in Nat \ {0}
    /\ MaxU32 \in Nat
    /\ FailureThreshold <= MaxU32
    /\ SuccessThreshold <= MaxU32
    /\ ManualOverride \in BOOLEAN

States == {"Closed", "Open", "HalfOpen"}
Counter == 0 .. MaxU32

VARIABLES
    state,      \* the state atomic
    failures,   \* consecutive_failures
    successes,  \* consecutive_successes
    age,        \* elapsed() of last_state_change, capped at Timeout
    pc,         \* where each thread is
    goal,       \* the state the thread's pending transition stores
    seen,       \* the thread's local "failures" or "successes"
    since       \* auxiliary: real time since state last changed, capped

shared == <<state, failures, successes, age, since>>
vars == <<state, failures, successes, age, pc, goal, seen, since>>

Init ==
    /\ state = "Closed"
    /\ failures = 0
    /\ successes = 0
    /\ age = 0
    /\ since = 0
    /\ pc = [t \in Threads |-> "idle"]
    /\ goal = [t \in Threads |-> "Closed"]
    /\ seen = [t \in Threads |-> 0]

SaturatingInc(n) == IF n = MaxU32 THEN n ELSE n + 1

(* fetch_update returns the old value; the code adds 1 to it outside the   *)
(* closure, in u32 arithmetic that wraps in a release build.               *)
LocalCount(old) == (old + 1) % (MaxU32 + 1)

At(t, from, to) == pc[t] = from /\ pc' = [pc EXCEPT ![t] = to]

Aim(t, s) == goal' = [goal EXCEPT ![t] = s]

-----------------------------------------------------------------------------
(* allow_request *)

AllowAtOnce(t) ==
    /\ state # "Open"
    /\ At(t, "idle", "inflight")
    /\ UNCHANGED <<state, failures, successes, age, since, goal, seen>>

SeeOpen(t) ==
    /\ state = "Open"
    /\ At(t, "idle", "elapsed")
    /\ UNCHANGED <<state, failures, successes, age, since, goal, seen>>

Reject(t) ==
    /\ age < Timeout
    /\ At(t, "elapsed", "idle")
    /\ UNCHANGED <<state, failures, successes, age, since, goal, seen>>

TimeoutExpired(t) ==
    /\ age = Timeout
    /\ At(t, "elapsed", "probe")
    /\ UNCHANGED <<state, failures, successes, age, since, goal, seen>>

(* The compare_exchange of Open with HalfOpen, and its two results.        *)
WinProbe(t) ==
    /\ state = "Open"
    /\ At(t, "probe", "stamp")
    /\ Aim(t, "HalfOpen")
    /\ state' = "HalfOpen"
    /\ since' = 0
    /\ UNCHANGED <<failures, successes, age, seen>>

LoseProbe(t) ==
    /\ state # "Open"
    /\ At(t, "probe", "inflight")
    /\ UNCHANGED <<state, failures, successes, age, since, goal, seen>>

-----------------------------------------------------------------------------
(* record_success: the load of the state, then what it leads to *)

CallSucceeds(t) ==
    /\ At(t, "inflight", IF state = "HalfOpen" THEN "countSuccess" ELSE "clearFailures")
    /\ UNCHANGED <<state, failures, successes, age, since, goal, seen>>

ClearFailures(t) ==
    /\ At(t, "clearFailures", "idle")
    /\ failures' = 0
    /\ UNCHANGED <<state, successes, age, since, goal, seen>>

CountSuccess(t) ==
    /\ At(t, "countSuccess", "checkSuccess")
    /\ successes' = SaturatingInc(successes)
    /\ seen' = [seen EXCEPT ![t] = LocalCount(successes)]
    /\ UNCHANGED <<state, failures, age, since, goal>>

(* Mutant: > where the code has >=. *)
WrongCheckSuccess(t) ==
    /\ At(t, "checkSuccess", IF seen[t] > SuccessThreshold THEN "store" ELSE "idle")
    /\ Aim(t, "Closed")
    /\ failures' = 0
    /\ UNCHANGED <<state, successes, age, since, seen>>

(* Mutant: record_success clears the wrong counter. *)
WrongClearSuccesses(t) ==
    /\ At(t, "checkSuccess", IF seen[t] >= SuccessThreshold THEN "store" ELSE "idle")
    /\ Aim(t, "Closed")
    /\ successes' = 0
    /\ UNCHANGED <<state, failures, age, since, seen>>

CheckSuccess(t) ==
    /\ At(t, "checkSuccess", IF seen[t] >= SuccessThreshold THEN "store" ELSE "idle")
    /\ Aim(t, "Closed")
    /\ failures' = 0
    /\ UNCHANGED <<state, successes, age, since, seen>>

-----------------------------------------------------------------------------
(* record_failure *)

CallFails(t) ==
    /\ At(t, "inflight", CASE state = "Closed"   -> "countFailure"
                           [] state = "HalfOpen" -> "reopen"
                           [] state = "Open"     -> "trackFailure")
    /\ UNCHANGED <<state, failures, successes, age, since, goal, seen>>

CountFailure(t) ==
    /\ At(t, "countFailure", "checkFailure")
    /\ failures' = SaturatingInc(failures)
    /\ seen' = [seen EXCEPT ![t] = LocalCount(failures)]
    /\ UNCHANGED <<state, successes, age, since, goal>>

CheckFailure(t) ==
    /\ At(t, "checkFailure", IF seen[t] >= FailureThreshold THEN "store" ELSE "idle")
    /\ Aim(t, "Open")
    /\ successes' = 0
    /\ UNCHANGED <<state, failures, age, since, seen>>

Reopen(t) ==
    /\ At(t, "reopen", "store")
    /\ Aim(t, "Open")
    /\ successes' = 0
    /\ UNCHANGED <<state, failures, age, since, seen>>

TrackFailure(t) ==
    /\ At(t, "trackFailure", "idle")
    /\ failures' = SaturatingInc(failures)
    /\ UNCHANGED <<state, successes, age, since, goal, seen>>

-----------------------------------------------------------------------------
(* transition_to_open, transition_to_closed and the tail of the winning    *)
(* probe: store the state, stamp the time, clear one counter, then the     *)
(* other.                                                                  *)

StoreState(t) ==
    /\ At(t, "store", "stamp")
    /\ state' = goal[t]
    /\ since' = IF state = goal[t] THEN since ELSE 0
    /\ UNCHANGED <<failures, successes, age, goal, seen>>

Stamp(t) ==
    /\ At(t, "stamp", "zeroFailures")
    /\ age' = 0
    /\ UNCHANGED <<state, failures, successes, since, goal, seen>>

(* Mutant: the transition forgets to clear consecutive_failures. *)
WrongKeepFailures(t) ==
    /\ At(t, "zeroFailures", "zeroSuccesses")
    /\ UNCHANGED <<state, failures, successes, age, since, goal, seen>>

ZeroFailures(t) ==
    /\ At(t, "zeroFailures", "zeroSuccesses")
    /\ failures' = 0
    /\ UNCHANGED <<state, successes, age, since, goal, seen>>

ZeroSuccesses(t) ==
    /\ At(t, "zeroSuccesses", IF goal[t] = "HalfOpen" THEN "inflight" ELSE "idle")
    /\ successes' = 0
    /\ UNCHANGED <<state, failures, age, since, goal, seen>>

-----------------------------------------------------------------------------
(* An allowed call that reports nothing: the provider is not registered,   *)
(* the caller dropped the future, or the call is a stream.                 *)
Abandon(t) ==
    /\ At(t, "inflight", "idle")
    /\ UNCHANGED <<state, failures, successes, age, since, goal, seen>>

(* force_open and force_close *)
Override(t) ==
    /\ ManualOverride
    /\ \E s \in {"Open", "Closed"} : Aim(t, s)
    /\ At(t, "idle", "store")
    /\ UNCHANGED <<state, failures, successes, age, since, seen>>

Tick ==
    /\ age < Timeout \/ since < Timeout
    /\ age' = IF age = Timeout THEN age ELSE age + 1
    /\ since' = IF since = Timeout THEN since ELSE since + 1
    /\ UNCHANGED <<state, failures, successes, pc, goal, seen>>

(* What a thread does by itself once it is inside the breaker's code. *)
Step(t) ==
    \/ Reject(t) \/ TimeoutExpired(t) \/ WinProbe(t) \/ LoseProbe(t)
    \/ ClearFailures(t) \/ CountSuccess(t) \/ CheckSuccess(t)
    \/ CountFailure(t) \/ CheckFailure(t) \/ Reopen(t) \/ TrackFailure(t)
    \/ StoreState(t) \/ Stamp(t) \/ ZeroFailures(t) \/ ZeroSuccesses(t)

Arrive(t) == AllowAtOnce(t) \/ SeeOpen(t)

Next ==
    \/ \E t \in Threads : \/ Arrive(t) \/ Step(t) \/ Override(t)
                          \/ CallSucceeds(t) \/ CallFails(t) \/ Abandon(t)
    \/ Tick

Spec == Init /\ [][Next]_vars

(* Threads inside the breaker keep running, the clock advances, and there  *)
(* is traffic: requests keep arriving and some of them are answered well.  *)
SteadyTraffic ==
    /\ WF_vars(Tick)
    /\ \A t \in Threads :
        /\ WF_vars(Step(t))
        /\ WF_vars(Arrive(t))
        /\ SF_vars(CallSucceeds(t))

FairSpec == Spec /\ SteadyTraffic

-----------------------------------------------------------------------------
PCs == {"idle", "elapsed", "probe", "inflight", "clearFailures",
        "countSuccess", "checkSuccess", "countFailure", "checkFailure",
        "reopen", "trackFailure", "store", "stamp", "zeroFailures",
        "zeroSuccesses"}

(* Every variable keeps its type; counters never leave u32. *)
TypeOK ==
    /\ state \in States
    /\ failures \in Counter
    /\ successes \in Counter
    /\ age \in 0 .. Timeout
    /\ since \in 0 .. Timeout
    /\ pc \in [Threads -> PCs]
    /\ goal \in [Threads -> States]
    /\ seen \in [Threads -> Counter]

(* The thread counted enough successes and has not yet cleared the counter *)
(* on its way through transition_to_closed.                                *)
Closing(t) ==
    /\ seen[t] >= SuccessThreshold
    /\ \/ pc[t] = "checkSuccess"
       \/ /\ pc[t] \in {"store", "stamp", "zeroFailures", "zeroSuccesses"}
          /\ goal[t] = "Closed"

(* record_success never loses the closing of the circuit: whenever the     *)
(* success counter has reached the threshold, some thread that saw it      *)
(* reach it is still on its way to close the circuit and clear the counter,*)
(* whatever the other threads do between the increment and the check.      *)
NoLostClose ==
    successes >= SuccessThreshold => \E t \in Threads : Closing(t)

(* last_state_change may be older than the state it belongs to only while  *)
(* some thread is between its write of the state and its write of the time;*)
(* no interleaving leaves a stale timestamp behind.                        *)
StaleStampHasOwner ==
    age > since => \E t \in Threads : pc[t] = "stamp"

(* The compare_exchange in allow_request: the circuit becomes half-open    *)
(* only from open, never by a thread that saw Open before it was closed.   *)
HalfOpenOnlyFromOpen ==
    [][state' = "HalfOpen" /\ state # "HalfOpen" => state = "Open"]_vars

(* Recovery: if requests keep arriving, from some time on no call fails    *)
(* and nobody forces the circuit, then it closes for good - no combination *)
(* of lost counts, stale reads and repeated probes keeps it open.          *)
Recovery ==
    <>[][\A t \in Threads : ~CallFails(t) /\ ~Override(t)]_vars => <>[](state = "Closed")

-----------------------------------------------------------------------------
(* What the module comment promises (circuit_breaker.rs:9-13): a circuit   *)
(* closes only from half-open.                                             *)
ClosesOnlyFromHalfOpen ==
    [][state' = "Closed" /\ state # "Closed" => state = "HalfOpen"]_vars

(* ... and an open circuit waits its timeout before it tests recovery.     *)
HalfOpenAfterTimeout ==
    [][state = "Open" /\ state' = "HalfOpen" => since = Timeout]_vars
=============================================================================
