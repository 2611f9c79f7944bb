SPECIFICATION Spec
CONSTANTS
  Sessions = {s1}
  MaxEvents = 3
  ChannelSize = 2
  BatchSize = 2
  Writers = {sqlite}
  Faulty = {}
  Callers = {c1, c2}
INVARIANT FlushWritesPending
CHECK_DEADLOCK FALSE
