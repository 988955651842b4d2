---------------------------- MODULE RequestGate ----------------------------
(***************************************************************************)
(* What a request meets before its handler: the decision of RbacGuard      *)
(* (rbac.guard.ts), the idempotency middleware, the sliding-window rate    *)
(* limit, and, for Docmost's webhooks, the bridge signature and rate-limit *)
(* guards.  Redis keeps all the state; its keys expire.                    *)
(*                                                                         *)
(* IdempotencyMiddleware runs before authentication, so the user part of   *)
(* its key is always 'anon' and a key is just the header's value.          *)
(***************************************************************************)
EXTENDS Naturals, FiniteSets, Sequences

CONSTANTS Calls, IdemKeys, Webhooks,
          Limit,          \* requests admitted in a window
          Window,         \* its length, in ticks of the clock
          SignatureWindow,\* BRIDGE_TIMESTAMP_WINDOW_SECONDS, in ticks
          NonceTtl,       \* BRIDGE_NONCE_TTL_SECONDS, in ticks
          MaxSkew,        \* bound: how far Docmost's clock is ahead
          MaxClock,       \* bound: ticks of the clock
          MaxLapses,      \* bound: reservations outlived by their request
          MaxRedisErrors  \* bound: Redis commands that throw

ASSUME GateLimits ==
    /\ IdemKeys # {} /\ Limit \in Nat /\ Window \in Nat /\ SignatureWindow \in Nat
    /\ NonceTtl \in Nat /\ MaxSkew \in Nat /\ MaxClock \in Nat

\* 600 s against 300 s: holds as long as Docmost's clock is less than 300 s ahead.
ASSUME NonceOutlives == SignatureWindow + MaxSkew < NonceTtl

VARIABLES
    clock,
    idem,        \* idempotency:<key>: "none", "processing" or "stored"
    call,        \* requests between the middleware and the finish event
    succeeded,   \* per key, handlers that ran and answered 2xx
    lapsed,      \* keys whose reservation expired under a running request
    admitted,    \* the sorted sets of the rate limits: the ticks of their entries
    hook,        \* Docmost's webhook calls: the signed timestamp, 0 if unsent
    nonce,       \* bridge:nonce:<n>: when it expires, 0 if it is not set
    accepted,    \* how often a webhook call passed the guards' nonce check
    redisErrors

gateVars == <<clock, idem, call, succeeded, lapsed, admitted, hook, nonce, accepted, redisErrors>>

Dimensions == {"user", "global", "ip", "space"}

NewCall == [at |-> "new", key |-> CHOOSE k \in IdemKeys : TRUE, reserved |-> FALSE]

GateInit ==
    /\ clock = 1 /\ redisErrors = 0
    /\ idem = [k \in IdemKeys |-> "none"]
    /\ call = [c \in Calls |-> NewCall]
    /\ succeeded = [k \in IdemKeys |-> 0]
    /\ lapsed = {}
    /\ admitted = [d \in Dimensions |-> <<>>]
    /\ hook = [w \in Webhooks |-> 0]
    /\ nonce = [w \in Webhooks |-> 0]
    /\ accepted = [w \in Webhooks |-> 0]

CallAt(c, at) == call[c].at = at
CallTo(c, at) == call' = [call EXCEPT ![c].at = at]
RedisFails == redisErrors < MaxRedisErrors /\ redisErrors' = redisErrors + 1

\* mutant: SET without NX
ReserveAnyway(k) == TRUE

(***************************************************************************)
(* The idempotency middleware.                                             *)
(***************************************************************************)
\* SET key processing NX
Reserve(k) == idem[k] = "none"

\* use, reserveOrReadExisting: the key is reserved, or it must be read.
ArriveWithKey(c, k) ==
    /\ CallAt(c, "new")
    /\ LET reserved == Reserve(k) IN
       /\ call' = [call EXCEPT ![c] = [at |-> IF reserved THEN "guards" ELSE "read", key |-> k, reserved |-> reserved]]
       /\ idem' = IF reserved THEN [idem EXCEPT ![k] = "processing"] ELSE idem
    /\ UNCHANGED <<clock, succeeded, lapsed, admitted, hook, nonce, accepted, redisErrors>>

\* A Redis error lets the request through, unreserved.
ArriveUnreserved(c, k) ==
    /\ CallAt(c, "new") /\ RedisFails
    /\ call' = [call EXCEPT ![c] = [at |-> "guards", key |-> k, reserved |-> FALSE]]
    /\ UNCHANGED <<clock, idem, succeeded, lapsed, admitted, hook, nonce, accepted>>

\* The second command: replay, 409, or, when the key has gone, just run.
ReadExisting(c) ==
    /\ CallAt(c, "read")
    /\ CallTo(c, CASE idem[call[c].key] = "none" -> "guards"
                   [] idem[call[c].key] = "processing" -> "conflict"
                   [] OTHER -> "replayed")
    /\ UNCHANGED <<clock, idem, succeeded, lapsed, admitted, hook, nonce, accepted, redisErrors>>

(***************************************************************************)
(* The rate limit.  One Lua script: forget what left the window, count,    *)
(* refuse at the limit, or add an entry.                                   *)
(***************************************************************************)
Entries(d, now) == {i \in DOMAIN admitted[d] : admitted[d][i] + Window > now /\ admitted[d][i] <= now}
InWindow(d, now) == Cardinality(Entries(d, now))

\* mutant: count > limit
AllowedOneMore(d) == InWindow(d, clock) <= Limit

Allowed(d) == InWindow(d, clock) < Limit

Admit(ds) == admitted' = [d \in Dimensions |-> IF d \in ds THEN Append(admitted[d], clock) ELSE admitted[d]]

\* RateLimitGuard.canActivate: a refusal is a response, so its finish event
\* settles the reservation; a Redis error admits the request.
RateLimitPasses(c) ==
    /\ CallAt(c, "guards")
    /\ \/ Allowed("user") /\ Admit({"user"}) /\ UNCHANGED redisErrors
       \/ RedisFails /\ UNCHANGED admitted
    /\ CallTo(c, "run")
    /\ UNCHANGED <<clock, idem, succeeded, lapsed, hook, nonce, accepted>>

RateLimited(c) ==
    /\ CallAt(c, "guards") /\ ~Allowed("user")
    /\ CallTo(c, "failed")
    /\ UNCHANGED <<clock, idem, succeeded, lapsed, admitted, hook, nonce, accepted, redisErrors>>

HandlerRuns(c) ==
    /\ CallAt(c, "run")
    /\ \/ CallTo(c, "ok") /\ succeeded' = [succeeded EXCEPT ![call[c].key] = @ + 1]
       \/ CallTo(c, "failed") /\ UNCHANGED succeeded
    /\ UNCHANGED <<clock, idem, lapsed, admitted, hook, nonce, accepted, redisErrors>>

\* mutant: every answer is kept
KeepsAny(c) == CallAt(c, "ok") \/ CallAt(c, "failed")

\* isCacheableResponse: a 2xx JSON answer (one over 1 MB is not kept).
IsCacheable(c) == CallAt(c, "ok")

\* The finish listener: setex of the answer, or clearReservation.  Either is
\* written to Redis after the client has its answer, and may fail unnoticed.
ResponseFinished(c) ==
    /\ call[c].at \in {"ok", "failed"}
    /\ CallTo(c, "done")
    /\ \/ call[c].reserved /\ IsCacheable(c) /\ idem' = [idem EXCEPT ![call[c].key] = "stored"] /\ UNCHANGED redisErrors
       \/ call[c].reserved /\ ~IsCacheable(c) /\ idem' = [idem EXCEPT ![call[c].key] = "none"] /\ UNCHANGED redisErrors
       \/ call[c].reserved /\ RedisFails /\ UNCHANGED idem
       \/ ~call[c].reserved /\ UNCHANGED <<idem, redisErrors>>
    /\ UNCHANGED <<clock, succeeded, lapsed, admitted, hook, nonce, accepted>>

Holding(k) == {c \in Calls : call[c].key = k /\ call[c].reserved /\ call[c].at \in {"guards", "run", "ok", "failed"}}

\* IDEMPOTENCY_PROCESSING_TTL_SECONDS pass; the request may still run.
ReservationExpires(k) ==
    /\ idem[k] = "processing"
    /\ Holding(k) # {} => Cardinality(lapsed) < MaxLapses
    /\ lapsed' = IF Holding(k) # {} THEN lapsed \union {k} ELSE lapsed
    /\ idem' = [idem EXCEPT ![k] = "none"]
    /\ UNCHANGED <<clock, call, succeeded, admitted, hook, nonce, accepted, redisErrors>>

\* The API process dies: its requests go, their reservations stay.
ApiCrashes ==
    /\ \E c \in Calls : call[c].at \in {"guards", "run", "ok", "failed", "read"}
    /\ call' = [c \in Calls |-> IF CallAt(c, "new") THEN call[c] ELSE [call[c] EXCEPT !.at = "lost"]]
    /\ UNCHANGED <<clock, idem, succeeded, lapsed, admitted, hook, nonce, accepted, redisErrors>>

(***************************************************************************)
(* Docmost's webhooks.  A call is signed once with the sender's clock and  *)
(* may be delivered again (a retry of the same request).                   *)
(***************************************************************************)
SignHook(w) ==
    /\ hook[w] = 0
    /\ \E s \in 0..MaxSkew : hook' = [hook EXCEPT ![w] = clock + s]
    /\ UNCHANGED <<clock, idem, call, succeeded, lapsed, admitted, nonce, accepted, redisErrors>>

\* isFreshTimestamp
Fresh(w) == clock <= hook[w] + SignatureWindow /\ hook[w] <= clock + SignatureWindow

\* mutant: the nonce is kept for the window only
ForgetsNonce(w) == nonce[w] <= clock + SignatureWindow

\* storeNonce: SET NX EX; a Redis error here is a refusal.
NonceIsNew(w) == nonce[w] <= clock

\* BridgeAuthGuard, then BridgeRateLimitGuard: one check after the other, and
\* what an earlier one counted stays counted when a later one refuses.
HookArrives(w) ==
    /\ hook[w] # 0 /\ Fresh(w) /\ NonceIsNew(w)
    /\ nonce' = [nonce EXCEPT ![w] = clock + NonceTtl]
    /\ accepted' = [accepted EXCEPT ![w] = @ + 1]
    /\ CASE ~Allowed("global") -> Admit({})
         [] Allowed("global") /\ ~Allowed("ip") -> Admit({"global"})
         [] Allowed("global") /\ Allowed("ip") /\ ~Allowed("space") -> Admit({"global", "ip"})
         [] OTHER -> Admit({"global", "ip", "space"})
    /\ UNCHANGED <<clock, idem, call, succeeded, lapsed, hook, redisErrors>>

Tick ==
    /\ clock < MaxClock /\ clock' = clock + 1
    /\ UNCHANGED <<idem, call, succeeded, lapsed, admitted, hook, nonce, accepted, redisErrors>>

CallStep(c) ==
    \/ \E k \in IdemKeys : ArriveWithKey(c, k) \/ ArriveUnreserved(c, k)
    \/ ReadExisting(c) \/ RateLimitPasses(c) \/ RateLimited(c) \/ HandlerRuns(c) \/ ResponseFinished(c)

GateNext ==
    \/ \E c \in Calls : CallStep(c)
    \/ \E k \in IdemKeys : ReservationExpires(k)
    \/ \E w \in Webhooks : SignHook(w) \/ HookArrives(w)
    \/ ApiCrashes \/ Tick

GateSpec == GateInit /\ [][GateNext]_gateVars

(***************************************************************************)
(* RbacGuard, as an operator over what it reads: the role, the permissions *)
(* of the route, whether the request names a space, the grants of the      *)
(* user's groups on that space and, for an API token, its scopes.          *)
(***************************************************************************)
SpacePoints == {"space:read", "space:view", "space:edit", "space:admin", "upload:create", "upload:read",
                "wiki:publish", "wiki:rollback", "graphify:run", "graphify:view", "chat:use"}
SitePoints == {"model:use", "admin", "admin:user_manage", "admin:model_manage", "admin:audit_view"}
Points == SpacePoints \union SitePoints

\* mutant: a point is left out of the space administrator's list
LostPoint ==
    [owner |-> Points, admin |-> Points,
     space_admin |-> (SpacePoints \ {"upload:read"}) \union {"model:use"},
     editor |-> (SpacePoints \ {"space:admin", "wiki:rollback"}) \union {"model:use"},
     viewer |-> {"space:read", "space:view", "upload:read", "chat:use", "model:use"},
     auditor |-> {"space:read", "space:view", "admin:audit_view"}, unknown |-> {}]

\* ROLE_PERMISSIONS; "unknown" is a name normalizeRole has no role for
RolePermissions ==
    [owner |-> Points, admin |-> Points,
     space_admin |-> SpacePoints \union {"model:use"},
     editor |-> (SpacePoints \ {"space:admin", "wiki:rollback"}) \union {"model:use"},
     viewer |-> {"space:read", "space:view", "upload:read", "chat:use", "model:use"},
     auditor |-> {"space:read", "space:view", "admin:audit_view"}, unknown |-> {}]

Roles == DOMAIN RolePermissions

\* isResourceAclDeferrable: the service checks the space of the resource itself
Deferrable == {"space:read", "upload:read", "upload:create", "graphify:view", "graphify:run"}

\* getApiTokenScopeDenial: a token needs the scope of every permission
ScopesSuffice(q) == q.token => q.required \subseteq q.scopes

\* permissionSetSatisfies: reading follows from editing, everything from admin
Satisfies(grants, p) ==
    \/ p \in {"space:read", "space:view"} /\ grants \cap {"space:read", "space:view", "space:edit", "space:admin"} # {}
    \/ p \in grants \/ "space:admin" \in grants

\* mutant: a grant is enough, whatever the role may do
GrantIsEnough(q, p) == q.role = "admin" \/ Satisfies(q.grants, p)

\* mutant: for a token, the scope stands for the role's site permissions
ScopeIsEnough(q, p) ==
    \/ q.role = "admin" \/ (q.token /\ p \in SitePoints)
    \/ p \in RolePermissions[q.role] /\ (p \in SitePoints \/ Satisfies(q.grants, p))

\* hasPermission, for a request that names its space
HasPermission(q, p) ==
    \/ q.role = "admin" /\ p \in RolePermissions.admin
    \/ p \in RolePermissions[q.role] /\ (p \in SitePoints \/ Satisfies(q.grants, p))

\* RbacGuard.canActivate
CanActivate(q) ==
    IF q.required = {} THEN q.public \/ ~q.token
    ELSE /\ ScopesSuffice(q)
         /\ \/ q.role = "owner"
            \/ /\ q.role # "unknown"
               /\ IF ~q.space /\ q.required \cap SpacePoints # {}
                  THEN q.required \subseteq Deferrable \/ q.role = "admin"
                  ELSE \A p \in q.required : HasPermission(q, p)

\* What a route, a user and the permission tables can give the guard.
RbacRequests ==
    [role : Roles, required : {s \in SUBSET Points : Cardinality(s) \in 1..2}, space : BOOLEAN, public : {FALSE},
     grants : SUBSET {"space:read", "space:edit", "space:admin"}, token : BOOLEAN,
     scopes : {{"space:read"}, Points}]
    \union
    [role : Roles, required : {{}}, space : BOOLEAN, public : BOOLEAN, grants : {{}}, token : BOOLEAN, scopes : {Points}]

(***************************************************************************)
(* Properties.                                                             *)
(***************************************************************************)
\* SET NX makes the key a lock: as long as no reservation runs out under a
\* running request (300 s), one request at a time works under a key, whatever
\* crashes, refusals and Redis errors come between.
OneCallHoldsTheKey == \A k \in IdemKeys : k \in lapsed \/ Cardinality(Holding(k)) <= 1

\* An answer that is replayed is the answer of a handler that succeeded:
\* neither a refusal nor a failed request is ever kept and served as 200.
ReplayedMeansSucceeded == \A c \in Calls : CallAt(c, "replayed") => succeeded[call[c].key] > 0

\* In no window of the clock does a limit admit more than its number, however
\* requests and ticks interleave (Redis errors aside, which admit uncounted).
WindowBudget == \A d \in Dimensions : \A t \in 1..MaxClock : InWindow(d, t) <= Limit

\* A signed webhook call passes the guards once, however often it is delivered:
\* its nonce outlives the time its timestamp is fresh.
HookAcceptedOnce == \A w \in Webhooks : accepted[w] <= 1

IdempotencyHolds == OneCallHoldsTheKey /\ ReplayedMeansSucceeded
GuardsHold       == WindowBudget /\ HookAcceptedOnce

(* Properties of the decision of RbacGuard.                                *)
\* A stronger role is let in wherever a weaker one is, all else being equal:
\* no branch of the guard and no line of ROLE_PERMISSIONS favours the weaker.
StrongerRoleMayMore(q) ==
    \A w \in {<<"viewer", "editor">>, <<"editor", "space_admin">>, <<"space_admin", "admin">>, <<"admin", "owner">>} :
        q.role = w[1] /\ CanActivate(q) => CanActivate([q EXCEPT !.role = w[2]])

\* On a request that names its space, who is neither owner nor admin needs for
\* a space permission both the role for it and a grant on that very space.
SpaceNeedsGrant(q) ==
    q.space /\ q.role \notin {"owner", "admin"} /\ CanActivate(q)
        => \A p \in q.required \cap SpacePoints : q.grants # {} /\ p \in RolePermissions[q.role]

\* An API token never opens what its owner's session would not.
TokenAddsNoRights(q) == q.token /\ CanActivate(q) => CanActivate([q EXCEPT !.token = FALSE])

=============================================================================
