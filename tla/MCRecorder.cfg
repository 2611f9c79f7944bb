SPECIFICATION FairSpec
CONSTANTS
  Sessions = {s1, s2}
  MaxEvents = 2
  ChannelSize = 2
  BatchSize = 2
  Writers = {sqlite, jsonl}
  Faulty = {jsonl}
  Callers = {c1, c2}
INVARIANTS Conservation SessionOrder
PROPERTIES ImplementsLog EventuallyStored FlushReturns
CHECK_DEADLOCK FALSE
