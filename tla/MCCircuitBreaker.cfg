SPECIFICATION MCSpec
CONSTANTS
  Threads = {t1, t2}
  Callers = {u1, u2, u3}
  FailureThreshold = 2
  SuccessThreshold = 2
  Timeout = 1
  MaxU32 = 3
  ManualOverride = TRUE
INVARIANT NoLostClose
PROPERTIES ImplementsDocumented Recovery
