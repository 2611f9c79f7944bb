SPECIFICATION MCSpec
CONSTANTS
  t1 = t1
  t2 = t2
  Tasks = {t1, t2}
  Sessions = {s1, s2}
  Crews <- OneOrTwo
  CacheSize = 1
  BufferSize = 1
  MaxAge = 2
  CompressAfter = 1
  SizeLimit = 1
  MaxDay = 3
  MaxEvents = 3
  MaxSweeps = 1
  MaxFaults = 1
  Threads = {h1, h2}
  Keys = {k1, k2}
  Kinds = {"sessions", "state", "lock", "none"}
  MaxFile = 3
  EventSizes = {1, 2}
  Limit = 2
  MaxCalls = 4
  MaxFailures = 1
  Answers <- AllAnswers
  Filters <- AllFilters
  MaxErrors = 1
  SessionIds = {"one", "two", "odd"}
  ImportableIds = {"one", "two"}
  RequestIds = {"q1", "q2"}
  Directories <- AllDirectories
  Settings <- AllSettings
  MaxRuns = 2
  Dialects = {"anthropic", "openai"}
  ToolNames = {"t", "u"}
  Variants = {1}
  Gaps = {0, 1}
  SomeTexts <- OneText
  MaxTokens = 1
  MaxEventsSaid = 5
  MAX_COLLECTED_EVENTS = 3
  MAX_CHUNK_LATENCIES = 4
  MAX_ACCUMULATED_TEXT_BYTES = 4
SYMMETRY Symmetry
INVARIANTS AcknowledgedIsKept StoreReadsBack RecordTellsTheTruth ReportIsTrue
PROPERTY ImportIsWhole
CHECK_DEADLOCK FALSE
