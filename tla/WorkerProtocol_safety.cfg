SPECIFICATION Spec
CONSTANTS
  Jobs = {j1}
  Workers = {w1, w2}
  NoWorker = NoWorker
  MaxAttempts = 2
  NoJob = NoJob
  Restartable = {w1, w2}
  Calls = {c1, c2}
  NoCall = NoCall
  Scanners = {s1}
  Users = {u1}
  MaxCancelRetries = 1
  MaxClaims = 2
SYMMETRY Symmetric
CONSTRAINT TwoAtATime
INVARIANTS TypeOK LockMatchesOwner AttemptBudget EffectsAtMostOnce CancelAnswerHolds
PROPERTIES ImplementsLifecycle
CHECK_DEADLOCK FALSE
