SPECIFICATION Spec
CONSTANTS
  Conversations = {c1}
  Turns = {t1, t2}
  ChatRequests = {t1, t2}
  Processes = {p1, p2}
  Tabs = {p1, p2}
  NoOne = NoOne
  MaxConcurrentAgents = 1
  MAX_QUEUE_SIZE = 1
  MaxReconfigs = 1
  NoTab = NoTab
  ChatSpaces = {x, y}
  MaxChatErrors = 1
  MaxScopeChanges = 1
  MaxRevocations = 1
  TopK = 2
  K = 1
  Expanded = 1
  MaxCandidates = 2
SYMMETRY Symmetric
INVARIANTS AgentTurnsAreServed ScopeWasAuthorized CompleteIsCited RetrievalKeepsTheBest
CHECK_DEADLOCK FALSE
