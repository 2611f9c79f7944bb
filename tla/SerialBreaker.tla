--------------------------- MODULE SerialBreaker ---------------------------
(***************************************************************************)
(* CircuitBreaker with calls that do not overlap: while a thread is inside *)
(* allow_request, record_success or record_failure, no other thread is.    *)
(* Requests still overlap, so results arrive late, in any order and in any *)
(* state of the circuit.                                                   *)
(***************************************************************************)
EXTENDS CircuitBreaker

Outside == {"idle", "inflight"}

Serial == \A t, u \in {x \in Threads : pc'[x] \notin Outside} : t = u

SerialSpec == Init /\ [][Next /\ Serial]_vars

(* The state a transition that is under way will leave behind. *)
Target(t) ==
    CASE pc[t] = "checkSuccess" -> "Closed"
      [] pc[t] = "checkFailure" -> "Open"
      [] OTHER                  -> goal[t]

Transitioning(t) ==
    \/ pc[t] \in {"store", "stamp", "zeroFailures", "zeroSuccesses"}
    \/ pc[t] = "checkSuccess" /\ seen[t] >= SuccessThreshold
    \/ pc[t] = "checkFailure" /\ seen[t] >= FailureThreshold

Arriving(t) ==
    [state |-> Target(t), failures |-> 0, successes |-> 0,
     age |-> IF pc[t] \in {"zeroFailures", "zeroSuccesses"} THEN age ELSE 0]

Standing == [state |-> state, failures |-> failures, successes |-> successes, age |-> age]

(* The refinement mapping: a transition takes effect when it is decided,   *)
(* and its clock starts then.                                              *)
Atomic ==
    IF \E t \in Threads : Transitioning(t)
    THEN Arriving(CHOOSE t \in Threads : Transitioning(t))
    ELSE Standing

Documented == INSTANCE AtomicBreaker WITH breaker <- Atomic

(* Calls that do not overlap implement the documented circuit breaker:     *)
(* every step of the concrete breaker is one documented call, one tick, or *)
(* nothing.                                                                *)
ImplementsDocumented == Documented!Spec
=============================================================================
