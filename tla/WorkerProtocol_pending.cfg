SPECIFICATION LiveSpec
CONSTANTS
  Jobs = {j1}
  Workers = {w1}
  NoWorker = NoWorker
  MaxAttempts = 2
  NoJob = NoJob
  Restartable = {w1}
  Calls = {c1}
  NoCall = NoCall
  Scanners = {s1}
  Users = {}
  MaxCancelRetries = 1
  MaxClaims = 2
PROPERTIES PendingIsServed
CHECK_DEADLOCK FALSE
