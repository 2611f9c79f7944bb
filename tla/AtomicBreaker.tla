---------------------------- MODULE AtomicBreaker ----------------------------
(***************************************************************************)
(* The circuit breaker as circuit_breaker.rs documents it: every call is   *)
(* one step on one record.  SerialBreaker shows that CircuitBreaker        *)
(* implements this specification as long as its calls do not overlap.      *)
(***************************************************************************)
EXTENDS BreakerOps

CONSTANT ManualOverride  \* whether force_open and force_close are called

VARIABLE breaker

Init == breaker = Fresh("Closed")

(* force_open and force_close: a transition like any other. *)
Forced == IF ManualOverride THEN {Fresh("Open"), Fresh("Closed")} ELSE {}

Next == breaker' \in {AfterAllow(breaker), AfterSuccess(breaker),
                      AfterFailure(breaker), Aged(breaker)} \cup Forced

Spec == Init /\ [][Next]_breaker
=============================================================================
