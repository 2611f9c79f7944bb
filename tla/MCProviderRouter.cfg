SPECIFICATION FairSpec
CONSTANTS
  p1 = p1
  p2 = p2
  p3 = p3
  p4 = p4
  r1 = r1
  r2 = r2
  r3 = r3
  Providers = {p1, p2, p3, p4}
  Requests = {r1, r2, r3}
  Rules <- SomeRules
  Weight <- Weights
  RetryAfters = {0}
  BackoffBase = 1
  MaxEntries = 2
  MaxUsize = 2
  FailureThreshold = 1
  SuccessThreshold = 1
  Timeout = 1
  MaxU32 = 1
INVARIANTS EachProviderOnce NoticeTellsTheTruth WeightedShares
PROPERTIES ProvidersMayRecover EveryRequestEnds
