SPECIFICATION LiveSpec
CONSTANTS
  Jobs = {j1}
  Workers = {w1, w2}
  NoWorker = NoWorker
  MaxAttempts = 3
  NoJob = NoJob
  Scanners = {s1}
  Users = {}
  MaxCancelRetries = 1
  Clean = {j1}
  VALIDATION_JOB_BATCH = 5
  MaxFaults = 1
PROPERTIES ValidatingDocumentRecovers
CHECK_DEADLOCK FALSE
