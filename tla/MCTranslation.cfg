SPECIFICATION MCSpec
CONSTANTS
  Peers <- AllPeers
  FrameKinds = {"create", "warmup", "unsupported", "ping", "close"}
  EventKinds = {"delta", "error", "completed"}
  MaxFrames = 2
  MaxEvents = 2
  Routes <- AllRoutes
  MaxSaid = 4
  MaxCalls = 3
  MaxWire = 8
  Pairs <- AllPairs
  MaxRetries = 2
  MaxWords = 9
  MaxUses = 3
  Launches <- AllLaunches
  UserMessages <- AllMessages
  Configs <- AllConfigs
  Overrides <- AllOverrides
  Texts <- AllTexts
  Setups <- AllSetups
  Callers = {"a", "b"}
  Requests <- AllRequests
  Shapes <- AllShapes
  MaxLogins = 2
  MaxResends = 1
  WithChanges <- Changes
  MaxMessages = 3
INVARIANTS WellFormed AllArrives DialogueArrives NoRouteToNowhere MarkersStayHere OnlyDetectionsChange OneIdentity BodyArrives TurnsStayApart
PROPERTY ChainStaysTogether
CHECK_DEADLOCK FALSE
