SPECIFICATION LiveSpec
CONSTANTS
  Jobs = {j1}
  Workers = {w1}
  NoWorker = NoWorker
  MaxAttempts = 2
  NoJob = NoJob
  Restartable = {}
  Calls = {c1}
  NoCall = NoCall
  Scanners = {s1}
  Users = {}
  MaxCancelRetries = 1
  MaxClaims = 2
PROPERTIES AbandonedJobIsReclaimed
CHECK_DEADLOCK FALSE
