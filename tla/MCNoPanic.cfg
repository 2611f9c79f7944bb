SPECIFICATION MCSpec
CONSTANTS
  Peers <- AllPeers
  FrameKinds = {"create", "warmup", "unsupported", "ping", "close"}
  EventKinds = {"delta", "error", "completed"}
  MaxFrames = 0
  MaxEvents = 2
  Routes <- AllRoutes
  MaxSaid = 4
  MaxCalls = 3
  MaxWire = 8
  Pairs <- AllPairs
  MaxRetries = 0
  MaxWords = 1
  MaxUses = 1
  Launches <- AllLaunches
  UserMessages <- AllMessages
  Configs <- AllConfigs
  Overrides <- AllOverrides
  Texts <- AllTexts
  Setups <- AllSetups
  Callers = {"a", "b"}
  Requests <- AllRequests
  Shapes <- AllShapes
  MaxLogins = 2
  MaxResends = 1
  WithChanges <- Changes
  MaxMessages = 0
INVARIANT NoPanic
CHECK_DEADLOCK FALSE
