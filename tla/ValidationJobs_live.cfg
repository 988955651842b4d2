SPECIFICATION LiveSpec
CONSTANTS
  Jobs = {j1}
  Workers = {w1, w2}
  NoWorker = NoWorker
  MaxAttempts = 2
  NoJob = NoJob
  Scanners = {s1}
  Users = {}
  MaxCancelRetries = 1
  Clean = {j1}
  VALIDATION_JOB_BATCH = 5
  MaxFaults = 1
PROPERTIES JobsMoveOn
CHECK_DEADLOCK FALSE
