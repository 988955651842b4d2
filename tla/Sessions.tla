------------------------------ MODULE Sessions ------------------------------
(***************************************************************************)
(* Login, refresh-token rotation, logout and the session limit             *)
(* (AuthService, SessionService), with the operations of UserService and   *)
(* changePassword that they race with.  All requests concern one account.  *)
(*                                                                         *)
(* Each statement a request awaits is a step.  refresh works in a          *)
(* transaction under READ COMMITTED: what it revoked and created is seen   *)
(* by nobody else until its commit, and the rows it wrote are locked until *)
(* then.  A session past expires_at is refused and not counted exactly     *)
(* like a revoked one, so "revoked" stands for both.                       *)
(***************************************************************************)
EXTENDS Naturals, FiniteSets

CONSTANTS
    SessRequests,          \* requests in flight
    Passwords,
    MaxSessions,           \* bound: sessions ever created
    MAX_ACTIVE_SESSIONS_PER_USER,
    LOGIN_LOCKOUT_THRESHOLD,
    MaxCounterErrors,      \* bound: errors of the lockout counter
    MaxGuesses             \* bound: wrong passwords tried

ASSUME SessionLimits ==
    /\ IsFiniteSet(SessRequests) /\ MaxSessions \in Nat
    /\ MAX_ACTIVE_SESSIONS_PER_USER \in Nat /\ LOGIN_LOCKOUT_THRESHOLD \in Nat \ {0}

VARIABLES
    sess,        \* sessions: state and the session it was rotated from
    created,     \* sessions are numbered in the order of created_at
    userStatus,  \* users.status
    password,    \* users.password_hash
    failures,    \* the Redis counter login_fail:<email>
    guesses,     \* wrong passwords verified since the counter was cleared
    counterErrors,
    areq         \* requests in flight

sessVars == <<sess, created, userStatus, password, failures, guesses, counterErrors, areq>>

SessionIds == 1 .. MaxSessions
NoSession == 0

(* del and add: revoked and created by the open transaction; over and rows: *)
(* what a statement read for the next one.  wasActive is a history          *)
(* variable: the account was active at some moment of the request.          *)
FreeReq == [op |-> "free", pc |-> "free", s |-> NoSession, pw |-> "none", over |-> 0,
            rows |-> {}, del |-> {}, add |-> {}, wasActive |-> FALSE]

Live == {s \in SessionIds : sess[s].state = "live"}

SessInit ==
    /\ sess = [s \in SessionIds |-> [state |-> "none", from |-> NoSession]]
    /\ created = 0
    /\ userStatus = "active"
    /\ password \in Passwords
    /\ failures = 0 /\ guesses = 0 /\ counterErrors = 0
    /\ areq = [q \in SessRequests |-> FreeReq]

ReqAt(q, op, pc) == areq[q].op = op /\ areq[q].pc = pc
ReqGoto(q, pc) == areq' = [areq EXCEPT ![q].pc = pc]
ReqEnds(q) == areq' = [areq EXCEPT ![q] = FreeReq]
ReqBegins(q, rec) ==
    /\ areq[q] = FreeReq
    /\ areq' = [areq EXCEPT ![q] = [rec EXCEPT !.wasActive = userStatus = "active"]]

LockedByOthers(q) == UNION {areq[p].del : p \in SessRequests \ {q}}
Sees(q) == (Live \ areq[q].del) \cup areq[q].add
Revoked(rows) == [s \in SessionIds |-> IF s \in rows THEN [sess[s] EXCEPT !.state = "revoked"] ELSE sess[s]]

-----------------------------------------------------------------------------
(* login *)

(* isLoginLocked.  A counter that cannot be read counts as zero. *)
LockedOneLate(q, pw) ==    \* mutant: locked only beyond the threshold
    /\ failures <= LOGIN_LOCKOUT_THRESHOLD
    /\ ReqBegins(q, [FreeReq EXCEPT !.op = "login", !.pc = "verify", !.pw = pw])
    /\ UNCHANGED <<sess, created, userStatus, password, failures, guesses, counterErrors>>

LoginStart(q, pw) ==
    /\ failures < LOGIN_LOCKOUT_THRESHOLD
    /\ ReqBegins(q, [FreeReq EXCEPT !.op = "login", !.pc = "verify", !.pw = pw])
    /\ UNCHANGED <<sess, created, userStatus, password, failures, guesses, counterErrors>>

LoginStartBlind(q, pw) ==
    /\ counterErrors < MaxCounterErrors
    /\ counterErrors' = counterErrors + 1
    /\ ReqBegins(q, [FreeReq EXCEPT !.op = "login", !.pc = "verify", !.pw = pw])
    /\ UNCHANGED <<sess, created, userStatus, password, failures, guesses>>

(* The row found by email decides on password and status. *)
LoginVerify(q) ==
    /\ ReqAt(q, "login", "verify")
    /\ \/ /\ areq[q].pw # password /\ guesses < MaxGuesses
          /\ guesses' = guesses + 1
          /\ ReqGoto(q, "count")
       \/ /\ areq[q].pw = password
          /\ IF userStatus = "active" THEN ReqGoto(q, "reset") ELSE ReqEnds(q)
          /\ UNCHANGED guesses
    /\ UNCHANGED <<sess, created, userStatus, password, failures, counterErrors>>

(* incrementLoginFailure; after an error the failure is not counted.       *)
LoginFails(q) ==
    /\ ReqAt(q, "login", "count")
    /\ \/ failures' = failures + 1 /\ UNCHANGED counterErrors
       \/ counterErrors < MaxCounterErrors /\ counterErrors' = counterErrors + 1 /\ UNCHANGED failures
    /\ ReqEnds(q)
    /\ UNCHANGED <<sess, created, userStatus, password, guesses>>

(* The counter's key expires 15 minutes after the last failure.  Requests  *)
(* do not take that long: those that passed the check have ended.          *)
LockoutExpires ==
    /\ failures > 0
    /\ \A q \in SessRequests : areq[q].op # "login"
    /\ failures' = 0 /\ guesses' = 0
    /\ UNCHANGED <<sess, created, userStatus, password, counterErrors, areq>>

(* resetLoginFailure *)
LoginResets(q) ==
    /\ ReqAt(q, "login", "reset")
    /\ failures' = 0
    /\ guesses' = 0
    /\ ReqGoto(q, "insert")
    /\ UNCHANGED <<sess, created, userStatus, password, counterErrors>>

(* createSession outside a transaction: the row is visible at once.        *)
LoginInserts(q) ==
    /\ ReqAt(q, "login", "insert") /\ created < MaxSessions
    /\ created' = created + 1
    /\ sess' = [sess EXCEPT ![created + 1].state = "live"]
    /\ areq' = [areq EXCEPT ![q].pc = "count active", ![q].s = created + 1]
    /\ UNCHANGED <<userStatus, password, failures, guesses, counterErrors>>

-----------------------------------------------------------------------------
(* revokeOldestActiveSessionsOverLimit, for login and refresh *)

CountActive(q) ==
    /\ areq[q].pc = "count active"
    /\ LET n == Cardinality(Sees(q))
           over == IF n > MAX_ACTIVE_SESSIONS_PER_USER THEN n - MAX_ACTIVE_SESSIONS_PER_USER ELSE 0
       IN  areq' = [areq EXCEPT ![q].over = over, ![q].pc = IF over = 0 THEN "trimmed" ELSE "select"]
    /\ UNCHANGED <<sess, created, userStatus, password, failures, guesses, counterErrors>>

Oldest(rows, n) == {s \in rows : Cardinality({t \in rows : t < s}) < n}

SelectOldest(q) ==
    /\ areq[q].pc = "select"
    /\ areq' = [areq EXCEPT ![q].rows = Oldest(Sees(q), areq[q].over), ![q].pc = "trim"]
    /\ UNCHANGED <<sess, created, userStatus, password, failures, guesses, counterErrors>>

(* The UPDATE waits for rows others have written and then skips those that *)
(* are revoked.                                                            *)
TrimOldest(q) ==
    /\ areq[q].pc = "trim"
    /\ areq[q].rows \cap Live \cap LockedByOthers(q) = {}
    /\ LET rows == areq[q].rows \cap Sees(q)
       IN  \/ /\ areq[q].op = "login"
              /\ sess' = Revoked(rows)
              /\ ReqGoto(q, "trimmed")
           \/ /\ areq[q].op = "refresh"
              /\ areq' = [areq EXCEPT ![q].pc = "trimmed", ![q].add = @ \ rows,
                                      ![q].del = @ \cup (rows \ areq[q].add)]
              /\ UNCHANGED sess
    /\ UNCHANGED <<created, userStatus, password, failures, guesses, counterErrors>>

(* last_login_at is written and the pair returned. *)
LoginDone(q) ==
    /\ ReqAt(q, "login", "trimmed")
    /\ ReqEnds(q)
    /\ UNCHANGED <<sess, created, userStatus, password, failures, guesses, counterErrors>>

-----------------------------------------------------------------------------
(* refresh *)

RefreshRead(q, s) ==
    /\ sess[s].state = "live"
    /\ ReqBegins(q, [FreeReq EXCEPT !.op = "refresh", !.pc = "revoke", !.s = s])
    /\ UNCHANGED <<sess, created, userStatus, password, failures, guesses, counterErrors>>

(* The UPDATE that revokes the old session is what decides a race.         *)
RevokeUnguarded(q) ==      \* mutant: without isNull(revoked_at)
    /\ ReqAt(q, "refresh", "revoke")
    /\ areq[q].s \notin LockedByOthers(q)
    /\ areq' = [areq EXCEPT ![q].pc = "user", ![q].del = {areq[q].s}]
    /\ UNCHANGED <<sess, created, userStatus, password, failures, guesses, counterErrors>>

RefreshRevokes(q) ==
    /\ ReqAt(q, "refresh", "revoke")
    /\ areq[q].s \notin LockedByOthers(q)
    /\ IF areq[q].s \in Live
       THEN areq' = [areq EXCEPT ![q].pc = "user", ![q].del = {areq[q].s}]
       ELSE ReqEnds(q)
    /\ UNCHANGED <<sess, created, userStatus, password, failures, guesses, counterErrors>>

(* findUserById within the transaction. *)
AnyUser(q) ==              \* mutant: the status is not looked at
    /\ ReqAt(q, "refresh", "user")
    /\ ReqGoto(q, "insert")
    /\ UNCHANGED <<sess, created, userStatus, password, failures, guesses, counterErrors>>

RefreshChecksUser(q) ==
    /\ ReqAt(q, "refresh", "user")
    /\ IF userStatus = "active" THEN ReqGoto(q, "insert") ELSE ReqEnds(q)
    /\ UNCHANGED <<sess, created, userStatus, password, failures, guesses, counterErrors>>

RefreshInserts(q) ==
    /\ ReqAt(q, "refresh", "insert") /\ created < MaxSessions
    /\ created' = created + 1
    /\ areq' = [areq EXCEPT ![q].pc = "count active", ![q].add = {created + 1}]
    /\ UNCHANGED <<sess, userStatus, password, failures, guesses, counterErrors>>

RefreshCommits(q) ==
    /\ ReqAt(q, "refresh", "trimmed")
    /\ sess' = [s \in SessionIds |->
                  IF s \in areq[q].add THEN [state |-> "live", from |-> areq[q].s]
                  ELSE Revoked(areq[q].del)[s]]
    /\ ReqEnds(q)
    /\ UNCHANGED <<created, userStatus, password, failures, guesses, counterErrors>>

(* An error, a crash or a deadlock the database resolves: the transaction  *)
(* leaves nothing, a login what it had written.  Before the failure is     *)
(* counted it is the error of LoginFails.                                  *)
RequestAborts(q) ==
    /\ areq[q] # FreeReq /\ areq[q].pc # "count"
    /\ ReqEnds(q)
    /\ UNCHANGED <<sess, created, userStatus, password, failures, guesses, counterErrors>>

-----------------------------------------------------------------------------
(* logout and revokeSession: read, then an UPDATE by id *)

RevokeRead(q, s) ==
    /\ sess[s].state # "none"
    /\ ReqBegins(q, [FreeReq EXCEPT !.op = "revoke", !.pc = "write", !.s = s])
    /\ UNCHANGED <<sess, created, userStatus, password, failures, guesses, counterErrors>>

RevokeById(q) ==
    /\ ReqAt(q, "revoke", "write") /\ areq[q].s \notin LockedByOthers(q)
    /\ sess' = Revoked({areq[q].s})
    /\ ReqEnds(q)
    /\ UNCHANGED <<created, userStatus, password, failures, guesses, counterErrors>>

SessionExpires(s) ==
    /\ sess[s].state = "live"
    /\ sess' = Revoked({s})
    /\ UNCHANGED <<created, userStatus, password, failures, guesses, counterErrors, areq>>

(* changePassword: verified against the row read, then an UPDATE by id.    *)
ChangePasswordRead(q, pw, new) ==
    /\ pw = password /\ new # pw
    /\ ReqBegins(q, [FreeReq EXCEPT !.op = "password", !.pc = "write", !.pw = new])
    /\ UNCHANGED <<sess, created, userStatus, password, failures, guesses, counterErrors>>

ChangePasswordWrite(q) ==
    /\ ReqAt(q, "password", "write")
    /\ password' = areq[q].pw
    /\ ReqEnds(q)
    /\ UNCHANGED <<sess, created, userStatus, failures, guesses, counterErrors>>

-----------------------------------------------------------------------------
(* UserService: updateUser (status) and deleteUser *)

Reenabled(q) == [p \in SessRequests |->
                   IF p = q \/ areq[p] = FreeReq THEN areq[p] ELSE [areq[p] EXCEPT !.wasActive = TRUE]]

(* The status read decides whether the request changes anything. *)
UpdateStatusRead(q, to) ==
    /\ userStatus \notin {to, "deleted"}
    /\ ReqBegins(q, [FreeReq EXCEPT !.op = "status", !.pc = to])
    /\ UNCHANGED <<sess, created, userStatus, password, failures, guesses, counterErrors>>

(* The UPDATE compares nothing: a user deleted meanwhile gets the status.  *)
UpdateStatusWrite(q) ==
    /\ areq[q].op = "status" /\ areq[q].pc \in {"active", "disabled"}
    /\ userStatus' = areq[q].pc
    /\ areq' = IF areq[q].pc = "active" THEN [Reenabled(q) EXCEPT ![q] = FreeReq]
               ELSE [areq EXCEPT ![q].pc = "revoke all"]
    /\ UNCHANGED <<sess, created, password, failures, guesses, counterErrors>>

(* revokeAllActiveSessionsForUser: the UPDATE works on the rows committed  *)
(* when it starts, and waits for those that are locked.                    *)
RevokeAllStart(q) ==
    /\ ReqAt(q, "status", "revoke all")
    /\ areq' = [areq EXCEPT ![q].pc = "revoking", ![q].rows = Live]
    /\ UNCHANGED <<sess, created, userStatus, password, failures, guesses, counterErrors>>

RevokeAllEnds(q) ==
    /\ areq[q].pc = "revoking"
    /\ areq[q].rows \cap LockedByOthers(q) = {}
    /\ sess' = Revoked(areq[q].rows)
    /\ ReqEnds(q)
    /\ UNCHANGED <<created, userStatus, password, failures, guesses, counterErrors>>

(* deleteUser's transaction, taken when no session row is locked.  Deleted *)
(* rows are marked revoked: a refresh finds neither.                       *)
DeleteUser ==
    /\ userStatus # "deleted"
    /\ \A q \in SessRequests : areq[q].del = {}
    /\ userStatus' = "deleted"
    /\ sess' = Revoked(Live)
    /\ UNCHANGED <<created, password, failures, guesses, counterErrors, areq>>

-----------------------------------------------------------------------------

SessStep(q) ==
    \/ LoginVerify(q) \/ LoginFails(q) \/ LoginResets(q) \/ LoginInserts(q) \/ LoginDone(q)
    \/ CountActive(q) \/ SelectOldest(q) \/ TrimOldest(q)
    \/ RefreshRevokes(q) \/ RefreshChecksUser(q) \/ RefreshInserts(q) \/ RefreshCommits(q)
    \/ RevokeById(q) \/ ChangePasswordWrite(q)
    \/ UpdateStatusWrite(q) \/ RevokeAllStart(q) \/ RevokeAllEnds(q)

SessRequest(q) ==
    \/ \E pw \in Passwords : LoginStart(q, pw) \/ LoginStartBlind(q, pw)
    \/ \E s \in SessionIds : RefreshRead(q, s) \/ RevokeRead(q, s)
    \/ \E pw, new \in Passwords : ChangePasswordRead(q, pw, new)
    \/ \E to \in {"active", "disabled"} : UpdateStatusRead(q, to)

SessNext ==
    \/ \E q \in SessRequests : SessRequest(q) \/ SessStep(q) \/ RequestAborts(q)
    \/ LockoutExpires
    \/ \E s \in SessionIds : SessionExpires(s)
    \/ DeleteUser

SessSpec == SessInit /\ [][SessNext]_sessVars

-----------------------------------------------------------------------------
(* Safety *)

(* A refresh token is spent once: no two sessions descend from the same    *)
(* one, however many requests present its token at the same time.          *)
RotatedOnce ==
    \A s, t \in SessionIds : sess[s].from = sess[t].from /\ sess[s].from # NoSession => s = t

(* Between two resets of the counter an account's password is tried at     *)
(* most THRESHOLD - 1 times, once more by each request that passed the     *)
(* check before the failures of the others were counted, and once more for *)
(* each error of the counter.                                              *)
GuessBudget ==
    guesses <= LOGIN_LOCKOUT_THRESHOLD - 1 + Cardinality(SessRequests) + counterErrors

(* A new session is only issued to an account that was active at some      *)
(* moment of the request, also while the disabling of the account has not  *)
(* got to revoking its sessions.                                           *)
IssuedWhileActiveStep ==
    \A q \in SessRequests :
       areq[q].op \in {"login", "refresh"} /\ Cardinality(Live') > Cardinality(Live) /\ areq'[q] # areq[q]
          => areq[q].wasActive

(* A refresh token is spent once, the lockout bounds the passwords that    *)
(* are tried, and a session is only issued to an account that was active   *)
(* meanwhile.                                                              *)
SessionsAreSafe == [](RotatedOnce /\ GuessBudget) /\ [][IssuedWhileActiveStep]_sessVars

=============================================================================
