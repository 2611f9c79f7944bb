------------------------ MODULE CircuitBreakerProofs ------------------------
(***************************************************************************)
(* Proofs about CircuitBreaker, for every set of threads and every         *)
(* configuration that validate() accepts, and that SerialBreaker           *)
(* implements AtomicBreaker: each step of the atomics is one documented    *)
(* call, one clock tick, or nothing that the documented breaker could see. *)
(***************************************************************************)
EXTENDS SerialBreaker, TLAPS

(* Only a winning probe aims at HalfOpen, and it stores the state itself:  *)
(* a thread about to store a state stores Open or Closed.                  *)
StoresOpenOrClosed ==
    \A t \in Threads : pc[t] = "store" => goal[t] \in {"Open", "Closed"}

IInv == TypeOK /\ StoresOpenOrClosed /\ NoLostClose /\ StaleStampHasOwner

(* Counter arithmetic stays in u32, and below the limit the local count is *)
(* the new value of the counter.                                           *)
LEMMA CounterArithmetic ==
    ASSUME NEW n \in Counter
    PROVE  /\ SaturatingInc(n) \in Counter
           /\ LocalCount(n) \in Counter
           /\ n < MaxU32 => SaturatingInc(n) = n + 1 /\ LocalCount(n) = n + 1
           /\ n = MaxU32 => SaturatingInc(n) = n
<1>1. MaxU32 \in Nat
  BY ConfigAssumption
<1>2. (n + 1) % (MaxU32 + 1) \in 0 .. MaxU32
  BY <1>1 DEF Counter
<1>3. n < MaxU32 => (n + 1) % (MaxU32 + 1) = n + 1
  BY <1>1 DEF Counter
<1> QED
  BY <1>1, <1>2, <1>3 DEF Counter, SaturatingInc, LocalCount

LEMMA InitInv == Init => IInv
BY ConfigAssumption DEF Init, IInv, TypeOK, StoresOpenOrClosed, NoLostClose,
   StaleStampHasOwner, States, PCs, Counter

(* Every action keeps the types.                                           *)
LEMMA TypeStep == TypeOK /\ [Next]_vars => TypeOK'
<1> SUFFICES ASSUME TypeOK, [Next]_vars PROVE TypeOK'
  OBVIOUS
<1> USE DEF TypeOK, At, Aim, States, PCs, shared
<1>1. ASSUME NEW t \in Threads, Arrive(t) \/ Abandon(t) \/ CallSucceeds(t) \/ CallFails(t)
      PROVE  TypeOK'
  BY <1>1 DEF Arrive, AllowAtOnce, SeeOpen, Abandon, CallSucceeds, CallFails
<1>2. ASSUME NEW t \in Threads, Reject(t) \/ TimeoutExpired(t) \/ LoseProbe(t) \/ WinProbe(t)
      PROVE  TypeOK'
  BY <1>2, ConfigAssumption DEF Reject, TimeoutExpired, LoseProbe, WinProbe
<1>3. ASSUME NEW t \in Threads, CountSuccess(t) \/ CountFailure(t) \/ TrackFailure(t)
      PROVE  TypeOK'
  BY <1>3, CounterArithmetic DEF CountSuccess, CountFailure, TrackFailure
<1>4. ASSUME NEW t \in Threads,
             \/ ClearFailures(t) \/ CheckSuccess(t) \/ CheckFailure(t) \/ Reopen(t)
             \/ ZeroFailures(t) \/ ZeroSuccesses(t)
      PROVE  TypeOK'
  BY <1>4, ConfigAssumption
     DEF ClearFailures, CheckSuccess, CheckFailure, Reopen, ZeroFailures, ZeroSuccesses, Counter
<1>5. ASSUME NEW t \in Threads, StoreState(t) \/ Stamp(t) \/ Override(t)
      PROVE  TypeOK'
  BY <1>5, ConfigAssumption DEF StoreState, Stamp, Override
<1>6. CASE Tick
  BY <1>6, ConfigAssumption DEF Tick
<1>7. CASE UNCHANGED vars
  BY <1>7 DEF vars
<1> HIDE DEF TypeOK, At, Aim, States, PCs, shared
<1> QED
  BY <1>1, <1>2, <1>3, <1>4, <1>5, <1>6, <1>7 DEF Next, Step

(* Only StoreState's predecessors set goal, and never to HalfOpen.         *)
LEMMA StoresStep == TypeOK /\ StoresOpenOrClosed /\ [Next]_vars => StoresOpenOrClosed'
<1> SUFFICES ASSUME TypeOK, StoresOpenOrClosed, [Next]_vars,
                    NEW u \in Threads, pc'[u] = "store"
             PROVE  goal'[u] \in {"Open", "Closed"}
  BY DEF StoresOpenOrClosed
<1> USE DEF TypeOK, StoresOpenOrClosed, At, Aim, shared
<1>1. ASSUME NEW t \in Threads,
             \/ Arrive(t) \/ Abandon(t) \/ CallSucceeds(t) \/ CallFails(t)
             \/ Reject(t) \/ TimeoutExpired(t) \/ LoseProbe(t) \/ WinProbe(t)
      PROVE  goal'[u] \in {"Open", "Closed"}
  BY <1>1 DEF Arrive, AllowAtOnce, SeeOpen, Abandon, CallSucceeds, CallFails,
              Reject, TimeoutExpired, LoseProbe, WinProbe, States
<1>2. ASSUME NEW t \in Threads,
             \/ ClearFailures(t) \/ CountSuccess(t) \/ CountFailure(t) \/ TrackFailure(t)
             \/ StoreState(t) \/ Stamp(t) \/ ZeroFailures(t) \/ ZeroSuccesses(t)
      PROVE  goal'[u] \in {"Open", "Closed"}
  BY <1>2 DEF ClearFailures, CountSuccess, CountFailure, TrackFailure,
              StoreState, Stamp, ZeroFailures, ZeroSuccesses
<1>3. ASSUME NEW t \in Threads,
             CheckSuccess(t) \/ CheckFailure(t) \/ Reopen(t) \/ Override(t)
      PROVE  goal'[u] \in {"Open", "Closed"}
  BY <1>3 DEF CheckSuccess, CheckFailure, Reopen, Override
<1>4. CASE Tick \/ UNCHANGED vars
  BY <1>4 DEF Tick, vars
<1> HIDE DEF TypeOK, StoresOpenOrClosed, At, Aim, shared
<1> QED
  BY <1>1, <1>2, <1>3, <1>4 DEF Next, Step

(* The thread that is closing keeps closing until it clears the counter,   *)
(* and the thread that makes the counter reach the threshold starts to.    *)
LEMMA NoLostCloseStep == TypeOK /\ NoLostClose /\ [Next]_vars => NoLostClose'
<1> SUFFICES ASSUME TypeOK, NoLostClose, [Next]_vars,
                    successes' >= SuccessThreshold
             PROVE  \E u \in Threads : Closing(u)'
  BY DEF NoLostClose
<1> USE DEF TypeOK, NoLostClose, Closing, At, Aim, shared
<1>1. ASSUME NEW t \in Threads,
             \/ Arrive(t) \/ Abandon(t) \/ CallSucceeds(t) \/ CallFails(t)
             \/ Reject(t) \/ TimeoutExpired(t) \/ LoseProbe(t) \/ WinProbe(t)
      PROVE  \E u \in Threads : Closing(u)'
  BY <1>1 DEF Arrive, AllowAtOnce, SeeOpen, Abandon, CallSucceeds, CallFails,
              Reject, TimeoutExpired, LoseProbe, WinProbe
<1>2. ASSUME NEW t \in Threads, CountSuccess(t)
      PROVE  \E u \in Threads : Closing(u)'
  <2>1. CASE successes >= SuccessThreshold
    <3>1. PICK u \in Threads : Closing(u)
      BY <2>1
    <3> QED
      BY <1>2, <3>1 DEF CountSuccess
  <2>2. CASE successes < SuccessThreshold
    <3>1. successes < MaxU32 /\ successes' = successes + 1 /\ LocalCount(successes) = successes + 1
      BY <1>2, <2>2, ConfigAssumption, CounterArithmetic DEF CountSuccess, Counter
    <3>2. seen'[t] = successes' /\ pc'[t] = "checkSuccess"
      BY <1>2, <3>1 DEF CountSuccess
    <3> QED
      BY <3>2
  <2> QED
    BY <2>1, <2>2, ConfigAssumption DEF Counter
<1>3. ASSUME NEW t \in Threads, CheckSuccess(t)
      PROVE  \E u \in Threads : Closing(u)'
  BY <1>3 DEF CheckSuccess
<1>4. ASSUME NEW t \in Threads,
             \/ ClearFailures(t) \/ CountFailure(t) \/ TrackFailure(t)
             \/ StoreState(t) \/ Stamp(t) \/ ZeroFailures(t) \/ Override(t)
      PROVE  \E u \in Threads : Closing(u)'
  BY <1>4 DEF ClearFailures, CountFailure, TrackFailure,
              StoreState, Stamp, ZeroFailures, Override
<1>5. ASSUME NEW t \in Threads,
             CheckFailure(t) \/ Reopen(t) \/ ZeroSuccesses(t)
      PROVE  \E u \in Threads : Closing(u)'
  BY <1>5, ConfigAssumption DEF CheckFailure, Reopen, ZeroSuccesses
<1>6. CASE Tick \/ UNCHANGED vars
  BY <1>6 DEF Tick, vars
<1> HIDE DEF TypeOK, NoLostClose, Closing, At, Aim, shared
<1> QED
  BY <1>1, <1>2, <1>3, <1>4, <1>5, <1>6 DEF Next, Step

(* A write of the state is followed by the writer's own write of the time. *)
LEMMA StampStep == TypeOK /\ StaleStampHasOwner /\ [Next]_vars => StaleStampHasOwner'
<1> SUFFICES ASSUME TypeOK, StaleStampHasOwner, [Next]_vars, age' > since'
             PROVE  \E u \in Threads : pc'[u] = "stamp"
  BY DEF StaleStampHasOwner
<1> USE DEF TypeOK, StaleStampHasOwner, At, Aim, shared
<1>1. ASSUME NEW t \in Threads,
             \/ Arrive(t) \/ Abandon(t) \/ CallSucceeds(t) \/ CallFails(t)
             \/ Reject(t) \/ TimeoutExpired(t) \/ LoseProbe(t)
      PROVE  \E u \in Threads : pc'[u] = "stamp"
  BY <1>1 DEF Arrive, AllowAtOnce, SeeOpen, Abandon, CallSucceeds, CallFails,
              Reject, TimeoutExpired, LoseProbe
<1>2. ASSUME NEW t \in Threads, WinProbe(t) \/ StoreState(t)
      PROVE  \E u \in Threads : pc'[u] = "stamp"
  BY <1>2 DEF WinProbe, StoreState
<1>3. ASSUME NEW t \in Threads, Stamp(t)
      PROVE  FALSE
  BY <1>3, ConfigAssumption DEF Stamp
<1>4. ASSUME NEW t \in Threads,
             \/ ClearFailures(t) \/ CountSuccess(t) \/ CheckSuccess(t)
             \/ CountFailure(t) \/ CheckFailure(t) \/ Reopen(t) \/ TrackFailure(t)
             \/ ZeroFailures(t) \/ ZeroSuccesses(t) \/ Override(t)
      PROVE  \E u \in Threads : pc'[u] = "stamp"
  BY <1>4 DEF ClearFailures, CountSuccess, CheckSuccess, CountFailure, CheckFailure,
              Reopen, TrackFailure, ZeroFailures, ZeroSuccesses, Override
<1>5. CASE Tick
  BY <1>5, ConfigAssumption DEF Tick
<1>6. CASE UNCHANGED vars
  BY <1>6 DEF vars
<1> HIDE DEF TypeOK, StaleStampHasOwner, At, Aim, shared
<1> QED
  BY <1>1, <1>2, <1>3, <1>4, <1>5, <1>6 DEF Next, Step

(* The inductive invariant holds in every reachable state.                 *)
THEOREM Invariance == Spec => []IInv
<1>1. IInv /\ [Next]_vars => IInv'
  BY TypeStep, StoresStep, NoLostCloseStep, StampStep DEF IInv
<1> QED
  BY <1>1, InitInv, PTL DEF Spec

(* Every variable of the breaker keeps its type, u32 counters included.    *)
THEOREM TypeCorrect == Spec => []TypeOK
BY Invariance, PTL DEF IInv

(* The closing of the circuit is never lost (record_success).              *)
THEOREM CloseNeverLost == Spec => []NoLostClose
BY Invariance, PTL DEF IInv

(* A timestamp older than its state is about to be written.                *)
THEOREM StaleStampIsOwned == Spec => []StaleStampHasOwner
BY Invariance, PTL DEF IInv

(* The circuit becomes half-open only from open (allow_request's CAS).     *)
THEOREM HalfOpenFromOpen == Spec => HalfOpenOnlyFromOpen
<1>1. TypeOK /\ StoresOpenOrClosed /\ [Next]_vars
      => [state' = "HalfOpen" /\ state # "HalfOpen" => state = "Open"]_vars
  <2> SUFFICES ASSUME TypeOK, StoresOpenOrClosed, Next, state' # state, state' = "HalfOpen"
               PROVE  state = "Open"
    OBVIOUS
  <2>1. PICK t \in Threads : WinProbe(t) \/ StoreState(t)
    BY DEF Next, Arrive, Step, AllowAtOnce, SeeOpen, Abandon, CallSucceeds, CallFails,
           Reject, TimeoutExpired, LoseProbe, ClearFailures, CountSuccess, CheckSuccess,
           CountFailure, CheckFailure, Reopen, TrackFailure, Stamp, ZeroFailures,
           ZeroSuccesses, Override, Tick, shared
  <2>2. ~StoreState(t)
    BY DEF StoreState, StoresOpenOrClosed, At
  <2> QED
    BY <2>1, <2>2 DEF WinProbe
<1>2. Spec => [](TypeOK /\ StoresOpenOrClosed)
  BY Invariance, PTL DEF IInv
<1> QED
  BY <1>1, <1>2, PTL DEF Spec, HalfOpenOnlyFromOpen

-----------------------------------------------------------------------------
(* Calls that do not overlap *)

(* Calls do not overlap: at most one thread is inside the breaker. *)
OneInside == \A t, u \in {x \in Threads : pc[x] \notin Outside} : t = u

(* What the thread inside has read, and nobody has changed since. *)
Knows(t) ==
    /\ pc[t] = "elapsed" => state = "Open"
    /\ pc[t] = "probe" => state = "Open" /\ age = Timeout
    /\ pc[t] = "clearFailures" => state # "HalfOpen"
    /\ pc[t] \in {"countSuccess", "checkSuccess", "reopen"} => state = "HalfOpen"
    /\ pc[t] \in {"countFailure", "checkFailure"} => state = "Closed"
    /\ pc[t] = "trackFailure" => state = "Open"
    /\ pc[t] = "checkSuccess" => seen[t] = successes
    /\ pc[t] = "checkFailure" => seen[t] = failures
    /\ pc[t] \in {"stamp", "zeroFailures", "zeroSuccesses"} => goal[t] = state
    /\ pc[t] = "zeroSuccesses" => failures = 0

(* Between transitions a closed or an open circuit counts no successes, a  *)
(* half-open one no failures, and no counter stands at its threshold.      *)
Settled ==
    /\ state # "HalfOpen" => successes = 0
    /\ state = "HalfOpen" => failures = 0 /\ successes < SuccessThreshold
    /\ state = "Closed" => failures < FailureThreshold

SerialInv ==
    /\ TypeOK
    /\ OneInside
    /\ \A t \in Threads : Knows(t)
    /\ (\A t \in Threads : ~Transitioning(t)) => Settled

-----------------------------------------------------------------------------
(* While a thread is inside, or in the step that lets it in or out, every  *)
(* other thread is outside and stays where it is.                          *)
LEMMA OthersStayOut ==
    ASSUME TypeOK, OneInside, OneInside', NEW t \in Threads, NEW from, NEW to \in PCs,
           At(t, from, to), from \notin Outside \/ to \notin Outside
    PROVE  /\ pc[t] = from /\ pc'[t] = to
           /\ \A u \in Threads \ {t} : pc[u] \in Outside /\ pc'[u] = pc[u]
BY DEF TypeOK, OneInside, At

(* The documented breaker when no thread but t can be inside.              *)
LEMMA AtomicIs ==
    ASSUME NEW t \in Threads, \A u \in Threads \ {t} : pc[u] \in Outside
    PROVE  Atomic = IF Transitioning(t) THEN Arriving(t) ELSE Standing
<1>1. \A u \in Threads \ {t} : ~Transitioning(u)
  BY DEF Transitioning, Outside
<1>2. CASE Transitioning(t)
  <2>1. (CHOOSE u \in Threads : Transitioning(u)) = t
    BY <1>1, <1>2
  <2> QED
    BY <1>2, <2>1 DEF Atomic
<1>3. CASE ~Transitioning(t)
  BY <1>1, <1>3 DEF Atomic
<1> QED
  BY <1>2, <1>3

(* The same of the next state.                                             *)
LEMMA AtomicBecomes ==
    ASSUME NEW t \in Threads, \A u \in Threads \ {t} : pc'[u] \in Outside
    PROVE  Atomic' = IF Transitioning(t)' THEN Arriving(t)' ELSE Standing'
<1>1. \A u \in Threads \ {t} : ~Transitioning(u)'
  BY DEF Transitioning, Outside
<1>2. CASE Transitioning(t)'
  <2>1. (CHOOSE u \in Threads : Transitioning(u)') = t
    BY <1>1, <1>2
  <2> QED
    BY <1>2, <2>1 DEF Atomic
<1>3. CASE ~Transitioning(t)'
  BY <1>1, <1>3 DEF Atomic
<1> QED
  BY <1>2, <1>3

Simulates == [Documented!Next]_Atomic

(* A step of t that begins or ends inside: all that matters before and     *)
(* after it is what t knows and where t is.                                *)
LEMMA Moves ==
    ASSUME SerialInv, TypeOK', OneInside', NEW t \in Threads, NEW from, NEW to \in PCs,
           At(t, from, to), from \notin Outside \/ to \notin Outside
    PROVE  /\ pc[t] = from /\ pc'[t] = to
           /\ Knows(t)
           /\ ~Transitioning(t) => Settled
           /\ Atomic = IF Transitioning(t) THEN Arriving(t) ELSE Standing
           /\ Atomic' = IF Transitioning(t)' THEN Arriving(t)' ELSE Standing'
           /\ Knows(t)' /\ (~Transitioning(t)' => Settled') => SerialInv'
<1>1. /\ pc[t] = from /\ pc'[t] = to
      /\ \A u \in Threads \ {t} : pc[u] \in Outside /\ pc'[u] = pc[u]
  BY OthersStayOut DEF SerialInv
<1>2. Atomic = IF Transitioning(t) THEN Arriving(t) ELSE Standing
  BY <1>1, AtomicIs
<1>3. Atomic' = IF Transitioning(t)' THEN Arriving(t)' ELSE Standing'
  BY <1>1, AtomicBecomes
<1>4. ~Transitioning(t) => Settled
  BY <1>1 DEF SerialInv, Transitioning, Outside
<1>5. \A u \in Threads \ {t} : Knows(u)'
  BY <1>1 DEF Knows, Outside
<1> QED
  BY <1>1, <1>2, <1>3, <1>4, <1>5 DEF SerialInv

(* Steps the documented breaker does not see: reads, and the writes of a   *)
(* transition that it took when the transition was decided.                *)
LEMMA SilentStep ==
    ASSUME SerialInv, TypeOK', OneInside', NEW t \in Threads,
           \/ SeeOpen(t) \/ Reject(t) \/ TimeoutExpired(t) \/ LoseProbe(t)
           \/ CallSucceeds(t) \/ CallFails(t)
    PROVE  SerialInv' /\ Simulates
<1> USE DEF Outside, PCs, Knows, Transitioning, Settled, Target, Arriving, Standing, Simulates
<1>1. CASE SeeOpen(t)
  BY <1>1, Moves DEF SeeOpen
<1>2. CASE Reject(t)
  BY <1>2, Moves DEF Reject
<1>3. CASE TimeoutExpired(t)
  BY <1>3, Moves DEF TimeoutExpired
<1>4. CASE LoseProbe(t)
  BY <1>4, Moves DEF LoseProbe
<1>5. CASE CallSucceeds(t)
  BY <1>5, Moves DEF CallSucceeds
<1>6. CASE CallFails(t)
  BY <1>6, Moves DEF CallFails, SerialInv, TypeOK, States
<1> QED
  BY <1>1, <1>2, <1>3, <1>4, <1>5, <1>6

LEMMA TransitionStep ==
    ASSUME SerialInv, TypeOK', OneInside', NEW t \in Threads,
           \/ CheckSuccess(t) \/ CheckFailure(t) \/ StoreState(t) \/ Stamp(t)
           \/ ZeroFailures(t) \/ ZeroSuccesses(t)
    PROVE  SerialInv' /\ Simulates
<1> USE ConfigAssumption DEF Outside, PCs, Knows, Transitioning, Settled, Target, Arriving, Standing,
    Simulates, SerialInv, TypeOK, Aim, Counter
<1>1. CASE CheckSuccess(t)
  BY <1>1, Moves DEF CheckSuccess
<1>2. CASE CheckFailure(t)
  BY <1>2, Moves DEF CheckFailure
<1>3. CASE StoreState(t)
  BY <1>3, Moves DEF StoreState
<1>4. CASE Stamp(t)
  BY <1>4, Moves DEF Stamp
<1>5. CASE ZeroFailures(t)
  BY <1>5, Moves DEF ZeroFailures
<1>6. CASE ZeroSuccesses(t)
  BY <1>6, Moves DEF ZeroSuccesses
<1> QED
  BY <1>1, <1>2, <1>3, <1>4, <1>5, <1>6

(* Steps that are a call of the documented breaker.                        *)
LEMMA VisibleStep ==
    ASSUME SerialInv, TypeOK', OneInside', NEW t \in Threads,
           \/ WinProbe(t) \/ ClearFailures(t) \/ CountSuccess(t)
           \/ CountFailure(t) \/ Reopen(t) \/ TrackFailure(t) \/ Override(t)
    PROVE  SerialInv' /\ Simulates
<1> USE ConfigAssumption DEF Outside, PCs, Knows, Transitioning, Settled, Target, Arriving, Standing,
    Simulates, Documented!Next, Documented!Fresh, SerialInv, TypeOK, Aim, Counter
<1>1. CASE WinProbe(t)
  BY <1>1, Moves DEF WinProbe, Documented!AfterAllow
<1>2. CASE ClearFailures(t)
  BY <1>2, Moves DEF ClearFailures, Documented!AfterSuccess
<1>3. CASE CountSuccess(t)
  <2>1. /\ state = "HalfOpen" /\ failures = 0 /\ successes < SuccessThreshold
        /\ Atomic = Standing
        /\ Atomic' = IF Transitioning(t)' THEN Arriving(t)' ELSE Standing'
        /\ pc'[t] = "checkSuccess"
        /\ Knows(t)' /\ (~Transitioning(t)' => Settled') => SerialInv'
    BY <1>3, Moves DEF CountSuccess
  <2>2. successes' = successes + 1 /\ seen'[t] = successes + 1
    BY <1>3, <2>1, CounterArithmetic DEF CountSuccess
  <2>3. SerialInv'
    BY <1>3, <2>1, <2>2 DEF CountSuccess
  <2>4. Atomic' = Documented!AfterSuccess(Atomic)
    BY <1>3, <2>1, <2>2 DEF CountSuccess, Documented!AfterSuccess
  <2> QED
    BY <2>3, <2>4
<1>4. CASE CountFailure(t)
  <2>1. /\ state = "Closed" /\ successes = 0 /\ failures < FailureThreshold
        /\ Atomic = Standing
        /\ Atomic' = IF Transitioning(t)' THEN Arriving(t)' ELSE Standing'
        /\ pc'[t] = "checkFailure"
        /\ Knows(t)' /\ (~Transitioning(t)' => Settled') => SerialInv'
    BY <1>4, Moves DEF CountFailure
  <2>2. failures' = failures + 1 /\ seen'[t] = failures + 1
    BY <1>4, <2>1, CounterArithmetic DEF CountFailure
  <2>3. SerialInv'
    BY <1>4, <2>1, <2>2 DEF CountFailure
  <2>4. Atomic' = Documented!AfterFailure(Atomic)
    BY <1>4, <2>1, <2>2 DEF CountFailure, Documented!AfterFailure
  <2> QED
    BY <2>3, <2>4
<1>5. CASE Reopen(t)
  BY <1>5, Moves DEF Reopen, Documented!AfterFailure
<1>6. CASE TrackFailure(t)
  <2>1. /\ state = "Open" /\ successes = 0
        /\ Atomic = Standing /\ Atomic' = Standing'
        /\ pc'[t] = "idle"
        /\ Knows(t)' /\ (~Transitioning(t)' => Settled') => SerialInv'
    BY <1>6, Moves DEF TrackFailure
  <2>2. SerialInv'
    BY <1>6, <2>1 DEF TrackFailure
  <2>3. Atomic' = Documented!AfterFailure(Atomic)
    BY <1>6, <2>1 DEF TrackFailure, Documented!AfterFailure, Documented!Sat, SaturatingInc
  <2> QED
    BY <2>2, <2>3
<1>7. CASE Override(t)
  BY <1>7, Moves DEF Override, Documented!Forced
<1> QED
  BY <1>1, <1>2, <1>3, <1>4, <1>5, <1>6, <1>7

(* Some thread stands for all: no other one is inside.                     *)
LEMMA SomeOwner ==
    ASSUME SerialInv, NEW t \in Threads
    PROVE  \E v \in Threads : \A u \in Threads \ {v} : pc[u] \in Outside
<1>1. CASE \E v \in Threads : pc[v] \notin Outside
  BY <1>1 DEF SerialInv, OneInside
<1>2. CASE \A v \in Threads : pc[v] \in Outside
  BY <1>2
<1> QED
  BY <1>1, <1>2

(* Entering and leaving without a look at the counters, and stuttering,    *)
(* change nothing but one pc.                                              *)
LEMMA OutsideStep ==
    ASSUME SerialInv, TypeOK', OneInside',
           \/ UNCHANGED vars
           \/ \E t \in Threads : AllowAtOnce(t) \/ Abandon(t)
    PROVE  SerialInv' /\ Simulates
<1>1. /\ UNCHANGED <<state, failures, successes, age, goal, seen>>
      /\ \A u \in Threads : \/ pc'[u] = pc[u]
                            \/ (pc[u] \in Outside /\ pc'[u] \in Outside)
  <2>1. CASE UNCHANGED vars
    BY <2>1 DEF vars
  <2>2. ASSUME NEW t \in Threads, AllowAtOnce(t) \/ Abandon(t)
        PROVE  /\ UNCHANGED <<state, failures, successes, age, goal, seen>>
               /\ pc[t] \in Outside /\ pc'[t] \in Outside
               /\ \A u \in Threads \ {t} : pc'[u] = pc[u]
    BY <2>2 DEF AllowAtOnce, Abandon, At, Outside, SerialInv, TypeOK
  <2> QED
    BY <2>1, <2>2
<1>2. \A u \in Threads : Knows(u)' /\ (Transitioning(u)' <=> Transitioning(u))
  BY <1>1 DEF Knows, Transitioning, Outside, SerialInv
<1>3. SerialInv'
  BY <1>1, <1>2 DEF SerialInv, Settled
<1>4. CASE Threads = {}
  BY <1>1, <1>3, <1>4 DEF Simulates, Atomic, Standing
<1>5. CASE Threads # {}
  <2>1. PICK v \in Threads : \A u \in Threads \ {v} : pc[u] \in Outside
    BY <1>5, SomeOwner
  <2>2. Atomic = IF Transitioning(v) THEN Arriving(v) ELSE Standing
    BY <2>1, AtomicIs
  <2>3. Atomic' = IF Transitioning(v)' THEN Arriving(v)' ELSE Standing'
    BY <1>1, <2>1, AtomicBecomes
  <2>4. Transitioning(v) => Arriving(v)' = Arriving(v)
    BY <1>1 DEF Arriving, Target, Transitioning, Outside
  <2> QED
    BY <1>1, <1>2, <1>3, <2>2, <2>3, <2>4 DEF Simulates, Standing
<1> QED
  BY <1>4, <1>5

(* A tick ages the documented breaker, unless its transition has yet to    *)
(* stamp the time.                                                         *)
LEMMA TickStep ==
    ASSUME SerialInv, TypeOK', OneInside', Tick
    PROVE  SerialInv' /\ Simulates
<1>1. UNCHANGED <<state, failures, successes, pc, goal, seen>>
  BY DEF Tick
<1>2. \A u \in Threads : Knows(u)' /\ (Transitioning(u)' <=> Transitioning(u))
  BY <1>1 DEF Knows, Transitioning, SerialInv, Tick
<1>3. SerialInv'
  BY <1>1, <1>2 DEF SerialInv, Settled
<1>4. Standing' = Documented!Aged(Standing)
  BY <1>1 DEF Tick, Standing, Documented!Aged
<1>5. CASE Threads = {}
  BY <1>3, <1>4, <1>5 DEF Simulates, Atomic, Documented!Next
<1>6. CASE Threads # {}
  <2>1. PICK v \in Threads : \A u \in Threads \ {v} : pc[u] \in Outside
    BY <1>6, SomeOwner
  <2>2. Atomic = IF Transitioning(v) THEN Arriving(v) ELSE Standing
    BY <2>1, AtomicIs
  <2>3. Atomic' = IF Transitioning(v)' THEN Arriving(v)' ELSE Standing'
    BY <1>1, <2>1, AtomicBecomes
  <2>4. Arriving(v)' = Arriving(v) \/ Arriving(v)' = Documented!Aged(Arriving(v))
    BY <1>1 DEF Tick, Arriving, Target, Documented!Aged
  <2> QED
    BY <1>2, <1>3, <1>4, <2>2, <2>3, <2>4 DEF Simulates, Documented!Next
<1> QED
  BY <1>5, <1>6

LEMMA SerialInit == Init => SerialInv /\ Documented!Init
<1> SUFFICES ASSUME Init PROVE SerialInv /\ Documented!Init
  OBVIOUS
<1>1. TypeOK
  BY InitInv DEF IInv
<1>2. \A t \in Threads : ~Transitioning(t)
  BY DEF Init, Transitioning
<1>3. SerialInv
  BY <1>1, <1>2, ConfigAssumption DEF SerialInv, OneInside, Outside, Knows, Settled, Init
<1>4. Documented!Init
  BY <1>2 DEF Init, Atomic, Standing, Documented!Init, Documented!Fresh
<1> QED
  BY <1>3, <1>4

LEMMA SerialStep ==
    SerialInv /\ [Next /\ Serial]_vars => SerialInv' /\ Simulates
<1> SUFFICES ASSUME SerialInv, [Next /\ Serial]_vars PROVE SerialInv' /\ Simulates
  OBVIOUS
<1>1. TypeOK'
  BY TypeStep DEF SerialInv
<1>2. OneInside'
  BY DEF SerialInv, OneInside, Serial, vars
<1> QED
  BY <1>1, <1>2, SilentStep, TransitionStep, VisibleStep, OutsideStep, TickStep
     DEF Next, Arrive, Step

(* Calls that do not overlap are the documented circuit breaker: with one  *)
(* thread at a time inside allow_request, record_success, record_failure,  *)
(* force_open and force_close, the separate atomics behave as one record,  *)
(* whatever the thresholds, and however late and out of order the results  *)
(* of the requests arrive.                                                 *)
THEOREM SerialIsDocumented == SerialSpec => ImplementsDocumented
<1>1. Init => SerialInv /\ Documented!Init
  BY SerialInit
<1>2. SerialInv /\ [Next /\ Serial]_vars => SerialInv' /\ [Documented!Next]_Atomic
  BY SerialStep DEF Simulates
<1> QED
  BY <1>1, <1>2, PTL DEF SerialSpec, ImplementsDocumented, Documented!Spec
=============================================================================
