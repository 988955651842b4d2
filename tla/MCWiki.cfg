SPECIFICATION Spec
CONSTANTS
  Indexers = {w1, w2}
  Syncers = {w1, w2}
  Officers = {w1, w2}
  Pages = {p1}
  MaxVersions = 2
  MaxEdits = 1
  MaxIndexJobs = 2
  MaxIndexFaults = 1
  max_attempts = 3
  Blocks = {b1}
  MaxSaves = 2
  MaxRuns = 1
  MaxBridgeErrors = 1
  MaxPublishes = 1
  Headings = {"x-y", "z"}
  Editors = {"ann", "bob"}
  MaxExported = 2
  MaxStored = 3
  MaxSyncs = 2
  OpenConversations = {c1, c2}
  MaxSends = 2
  MaxOpens = 2
  MaxDeletes = 1
  MaxChatFaults = 1
  Spaces = {"s1", "s2"}
  MaxNodes = 2
  MaxEdges = 1
  MaxClicks = 4
  Docs = {w1, w2}
  MaxCenterClicks = 3
  MaxFaults = 0
  GovPages = {p1, p2}
  GovEdges = {e1, e2}
  Feedbacks = {1, 2, 3}
  Proposals = {q1, q2}
  NoPage = NoPage
  PageSize = 1
  MaxInstant = 2
  MaxQueueErrors = 1
SYMMETRY Symmetric
INVARIANTS FeedbackIsSettledOnce LateAnswersDoNotShow
PROPERTIES IndexIsWhole SyncKeepsHumanText MergeKeepsEntries
CHECK_DEADLOCK FALSE
