----------------------------- MODULE BreakerOps -----------------------------
(***************************************************************************)
(* The circuit breaker's calls (circuit_breaker.rs) as functions on one    *)
(* record: what a call does when no other call runs inside it.             *)
(***************************************************************************)
EXTENDS Integers

CONSTANTS FailureThreshold, SuccessThreshold, Timeout, MaxU32

Fresh(s) == [state |-> s, failures |-> 0, successes |-> 0, age |-> 0]

Breaker == [state : {"Closed", "Open", "HalfOpen"}, failures : 0 .. MaxU32,
            successes : 0 .. MaxU32, age : 0 .. Timeout]

Sat(n) == IF n = MaxU32 THEN n ELSE n + 1

(* allow_request: what it answers and what it leaves behind. *)
Admits(b) == b.state # "Open" \/ b.age = Timeout

AfterAllow(b) ==
    IF b.state = "Open" /\ b.age = Timeout THEN Fresh("HalfOpen") ELSE b

(* record_success *)
AfterSuccess(b) ==
    IF b.state # "HalfOpen" THEN [b EXCEPT !.failures = 0]
    ELSE IF b.successes + 1 >= SuccessThreshold THEN Fresh("Closed")
    ELSE [b EXCEPT !.successes = @ + 1, !.failures = 0]

(* record_failure *)
AfterFailure(b) ==
    CASE b.state = "HalfOpen" -> Fresh("Open")
      [] b.state = "Open"     -> [b EXCEPT !.failures = Sat(@)]
      [] b.state = "Closed"   ->
            IF b.failures + 1 >= FailureThreshold THEN Fresh("Open")
            ELSE [b EXCEPT !.failures = @ + 1, !.successes = 0]

(* One clock tick: elapsed() of last_state_change, up to Timeout. *)
Aged(b) == IF b.age = Timeout THEN b ELSE [b EXCEPT !.age = @ + 1]
=============================================================================
