SPECIFICATION Spec
CONSTANTS
  UpSpaces = {s1, s2}
  UploadIds = {u1, u2}
  UrlSpaces = {s1}
  GDocs = {d1}
  Immediate = {d1}
  Runs = {r1, r2}
  NoRun = NoRun
  Handlers = {a1, a2}
  MaxReprocess = 2
  GraphifyWorkers = {a1, a2}
  RunJobs = {j1}
  RetryBudget = 3
  MaxStarts = 3
  MaxMishaps = 3
  Passes = 4
  ImportRuns = {i1, i2}
  MaxPageFails = 1
  IngestWorkers = {a1, a2}
  MaxDocuments = 2
  IngestAttempts = 3
  MaxIngestFaults = 3
  Hosts = {host1, host2}
  Addresses = {pub, priv}
  Forbidden = {priv}
  MaxRedirects = 1
  MaxChunks = 1
  TotalTimeout = 1
  MaxChanges = 1
  FetchAttempts = 2
  MaxNesting = 1
  MaxEntries = 2
  MaxTotal = 2
  MaxRatio = 1
  MaxWalk = 4
  GraphNodes = {1, 2, 3, 4}
SYMMETRY Symmetric
INVARIANTS IntakeKeepsContent OnlyCheckedContentEnters IngestionKeepsItsWord ImportedOnce
  AttemptsStayApart GeneratedPagesAreRight GraphAnswersAreRight
PROPERTIES DecisionsStay
CHECK_DEADLOCK FALSE
