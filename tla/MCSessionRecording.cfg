SPECIFICATION FairSpec
CONSTANTS
  r1 = r1
  r2 = r2
  own1 = own1
  own2 = own2
  shared = shared
  odd = odd
  Requests = {r1, r2}
  Sessions = {own1, own2, shared, odd}
  ValidIds = {own1, own2, shared}
  Tool = tool
  Unknown = unknown
  Tokens = {0, 1}
  ChannelSize = 2
  BatchSize = 2
  Mixes <- MCMixes
INVARIANTS CountsCoverExecutions OneRowPerRequest StartedLeads
PROPERTIES TokensNeverShrink RoutedEnds
CHECK_DEADLOCK FALSE
