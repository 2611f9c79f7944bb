-------------------------- MODULE MCCircuitBreaker --------------------------
(* Small instances: CircuitBreaker with every interleaving, or else, with  *)
(* more threads and longer thresholds, SerialBreaker.  The breaker that is *)
(* not looked at stays as it was at first.                                 *)
EXTENDS CircuitBreaker

CONSTANTS Callers

VARIABLES serial, sState, sFailures, sSuccesses, sAge, sPc, sGoal, sSeen, sSince

sVars == <<sState, sFailures, sSuccesses, sAge, sPc, sGoal, sSeen, sSince>>

Alone == INSTANCE SerialBreaker WITH
  Threads <- Callers, FailureThreshold <- 3, SuccessThreshold <- 2, Timeout <- 1, MaxU32 <- 3,
  ManualOverride <- FALSE,
  state <- sState, failures <- sFailures, successes <- sSuccesses, age <- sAge,
  pc <- sPc, goal <- sGoal, seen <- sSeen, since <- sSince

ImplementsDocumented == Alone!ImplementsDocumented

MCInit == serial \in BOOLEAN /\ Init /\ Alone!Init
MCNext ==
  \/ ~serial /\ Next /\ UNCHANGED <<serial, sState, sFailures, sSuccesses, sAge, sPc, sGoal, sSeen, sSince>>
  \/ serial /\ Alone!Next /\ Alone!Serial /\ UNCHANGED <<serial, vars>>
MCSpec == MCInit /\ [][MCNext]_<<serial, vars, sVars>> /\ SteadyTraffic
=============================================================================
