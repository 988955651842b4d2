SPECIFICATION Spec
CONSTANTS
  Jobs = {j1}
  Workers = {w1, w2}
  NoWorker = NoWorker
  MaxAttempts = 2
  NoJob = NoJob
  Scanners = {s1}
  Users = {u1}
  MaxCancelRetries = 1
  Clean = {j1}
  VALIDATION_JOB_BATCH = 5
  MaxFaults = 1
SYMMETRY Symmetric
INVARIANTS TypeOK SucceededMeansDecided ContentKept
PROPERTIES ImplementsLifecycle
CHECK_DEADLOCK FALSE
