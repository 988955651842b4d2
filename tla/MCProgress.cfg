SPECIFICATION Spec
CONSTANTS
  PUsers = {u1}
  PGroups = {g1, g2}
  Grants = {0, 1, 2}
  MaxChanges = 2
  MaxBridgeFaults = 1
  SyncAttempts = 2
  Blocks = {b1}
  Syncers = {w1, w2}
  MaxSaves = 2
  MaxRuns = 0
  MaxBridgeErrors = 1
  MaxPublishes = 0
  MaxQueue = 3
  Batch = 2
  MaxRetries = 2
  MaxRecords = 6
  People = {"ann", "bob"}
  MaxSignIns = 1
  MaxWebFaults = 1
  MaxInFlight = 2
  NumTexts = 3
  MaxBatchSize = 2
  EmbedTries = 2
  MaxDeltas = 2
  Spaces = {"s1"}
  Docs = {"d1"}
  MaxClicks = 2
  MaxFaults = 1
INVARIANTS LogIsWhole ProviderAnswersFit
PROPERTIES DocmostCatchesUp WaitingEnds
CHECK_DEADLOCK FALSE
