SPECIFICATION Spec
CONSTANTS
  SessRequests = {q1, q2}
  Calls = {q1, q2}
  Admins = {q1, q2}
  ModelAdmins = {q1, q2}
  Invocations = {q1, q2, q3}
  Passwords = {n1, n2}
  Names = {n1, n2}
  ModelIds = {m1, m2}
  MaxSessions = 3
  MAX_ACTIVE_SESSIONS_PER_USER = 1
  LOGIN_LOCKOUT_THRESHOLD = 1
  MaxRedisErrors = 1
  MaxCounterErrors = 1
  MaxGuesses = 4
  IdemKeys = {k1}
  Webhooks = {w1}
  Limit = 1
  Window = 2
  SignatureWindow = 1
  NonceTtl = 2
  MaxSkew = 0
  MaxClock = 4
  MaxLapses = 1
  AccessTokens = {t1}
  McpLimit = 1
  MaxToolEdits = 1
  Addresses = {private, listed}
  Unsafe = {private, listed}
  Allowlisted = {listed}
  MaxModelEdits = 3
  People = {m1, m2}
  MaxSignIns = 2
  MaxWebFaults = 1
  MaxInFlight = 3
SYMMETRY Symmetric
INVARIANTS IdempotencyHolds GuardsHold TokensHold ModelsAreChecked 
PROPERTIES SessionsAreSafe
CHECK_DEADLOCK FALSE
