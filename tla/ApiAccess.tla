----------------------------- MODULE ApiAccess -----------------------------
(***************************************************************************)
(* API tokens (api-token.service.ts), the MCP tool registry and the        *)
(* invocation of a tool with a token (mcp.service.ts, mcp-policy.ts,       *)
(* mcp-rate-limit.ts).  One tool name.  Every await of a handler is a      *)
(* point where other requests run.  The policy of a tool is "open" (it     *)
(* lets the caller in) or "closed" (scope, role or space is not allowed).  *)
(***************************************************************************)
EXTENDS Naturals, FiniteSets

CONSTANTS AccessTokens, Invocations, Admins, McpLimit,
          MaxToolEdits   \* bound: policy updates, deletions and owner changes

ASSUME AccessLimits == AccessTokens # {} /\ IsFiniteSet(Invocations) /\ McpLimit \in Nat

VARIABLES
    token,        \* api_tokens: "none", "live", "expired" or "revoked"
    revocations,  \* audit records api_token.revoked, per token
    owner,        \* the users row of the tokens' owner: active or not
    tool,         \* mcp_tool_registry: the row of the name, and its policy
    admin,        \* admin requests between their SELECT and their write
    invoke,       \* tool invocations
    entries,      \* the sorted set mcp:rate:<token>:<tool>, per token
    audited,      \* invocations with an audit record, and its action
    toolEdits

accessVars == <<token, revocations, owner, tool, admin, invoke, entries, audited, toolEdits>>

NoAdmin == [op |-> "idle", on |-> CHOOSE t \in AccessTokens : TRUE]
NewInvocation == [at |-> "new", by |-> CHOOSE t \in AccessTokens : TRUE, policy |-> "open"]

AccessInit ==
    /\ token = [t \in AccessTokens |-> "none"]
    /\ revocations = [t \in AccessTokens |-> 0]
    /\ owner = "active"
    /\ tool = [row |-> "absent", policy |-> "open"]
    /\ admin = [a \in Admins |-> NoAdmin]
    /\ invoke = [i \in Invocations |-> NewInvocation]
    /\ entries = [t \in AccessTokens |-> {}]
    /\ audited = [i \in Invocations |-> "none"]
    /\ toolEdits = 0

Edit == toolEdits < MaxToolEdits /\ toolEdits' = toolEdits + 1
InvAt(i, at) == invoke[i].at = at
InvTo(i, at) == invoke' = [invoke EXCEPT ![i].at = at]
\* The invocation ends, and auditInvocation pushes its record.
InvEnds(i, action) == InvTo(i, "ended") /\ audited' = [audited EXCEPT ![i] = action]

(***************************************************************************)
(* Tokens.                                                                 *)
(***************************************************************************)
CreateToken(t) ==
    /\ token[t] = "none" /\ token' = [token EXCEPT ![t] = "live"]
    /\ UNCHANGED <<revocations, owner, tool, admin, invoke, entries, audited, toolEdits>>

TokenExpires(t) ==
    /\ token[t] = "live" /\ token' = [token EXCEPT ![t] = "expired"]
    /\ UNCHANGED <<revocations, owner, tool, admin, invoke, entries, audited, toolEdits>>

\* findTokenForTenant: a token that is revoked already is answered as it is.
RevokeFinds(a, t) ==
    /\ admin[a].op = "idle" /\ token[t] \in {"live", "expired"}
    /\ admin' = [admin EXCEPT ![a] = [op |-> "revoke", on |-> t]]
    /\ UNCHANGED <<token, revocations, owner, tool, invoke, entries, audited, toolEdits>>

\* mutant: UPDATE without isNull(revoked_at)
RevokeAlways(t) == TRUE

\* The condition of the UPDATE
StillUnrevoked(t) == token[t] # "revoked"

RevokeWrites(a) ==
    /\ admin[a].op = "revoke"
    /\ LET t == admin[a].on IN
       IF StillUnrevoked(t)
       THEN /\ token' = [token EXCEPT ![t] = "revoked"]
            /\ revocations' = [revocations EXCEPT ![t] = @ + 1]
       ELSE UNCHANGED <<token, revocations>>
    /\ admin' = [admin EXCEPT ![a] = NoAdmin]
    /\ UNCHANGED <<owner, tool, invoke, entries, audited, toolEdits>>

SetOwner(s) ==
    /\ owner # s /\ Edit /\ owner' = s
    /\ UNCHANGED <<token, revocations, tool, admin, invoke, entries, audited>>

(***************************************************************************)
(* The registry.                                                           *)
(***************************************************************************)
\* findToolByName; an inactive tool keeps its name
CreateToolFinds(a) ==
    /\ admin[a].op = "idle" /\ tool.row = "absent"
    /\ admin' = [admin EXCEPT ![a].op = "create"]
    /\ UNCHANGED <<token, revocations, owner, tool, invoke, entries, audited, toolEdits>>

\* The insert, or the unique violation that becomes 409.
CreateToolInserts(a) ==
    /\ admin[a].op = "create"
    /\ tool' = IF tool.row = "absent" THEN [row |-> "active", policy |-> "open"] ELSE tool
    /\ admin' = [admin EXCEPT ![a] = NoAdmin]
    /\ UNCHANGED <<token, revocations, owner, invoke, entries, audited, toolEdits>>

DeleteTool ==
    /\ tool.row = "active" /\ Edit
    /\ tool' = [tool EXCEPT !.row = "inactive"]
    /\ UNCHANGED <<token, revocations, owner, admin, invoke, entries, audited>>

\* The last write wins; an inactive tool can be edited too.
UpdatePolicy(p) ==
    /\ tool.row # "absent" /\ tool.policy # p /\ Edit
    /\ tool' = [tool EXCEPT !.policy = p]
    /\ UNCHANGED <<token, revocations, owner, admin, invoke, entries, audited>>

(***************************************************************************)
(* ApiTokenGuard and invokeTool.                                           *)
(***************************************************************************)
\* authenticateRawToken, first SELECT
ReadToken(i, t) ==
    /\ InvAt(i, "new") /\ token[t] # "none"
    /\ invoke' = [invoke EXCEPT ![i] = [NewInvocation EXCEPT !.at = IF token[t] = "live" THEN "owner" ELSE "ended", !.by = t]]
    /\ UNCHANGED <<token, revocations, owner, tool, admin, entries, audited, toolEdits>>

\* the SELECT of the owner, and the update of last_used_at
ReadOwner(i) ==
    /\ InvAt(i, "owner")
    /\ InvTo(i, IF owner = "active" THEN "find" ELSE "ended")
    /\ UNCHANGED <<token, revocations, owner, tool, admin, entries, audited, toolEdits>>

\* checkMcpAuthorization on the policy of the row that was read
IsAuthorized(policy) == policy = "open"

\* findActiveToolByName, then the authorization, with no await between them
FindTool(i) ==
    /\ InvAt(i, "find")
    /\ CASE tool.row # "active" -> InvEnds(i, "mcp.tool.error")
         [] tool.row = "active" /\ ~IsAuthorized(tool.policy) -> InvEnds(i, "mcp.tool.denied")
         [] OTHER -> InvTo(i, "add") /\ UNCHANGED audited
    /\ UNCHANGED <<token, revocations, owner, tool, admin, entries, toolEdits>>

\* McpRateLimiter.check: ZADD first, so that a refused call counts as well
LimiterAdds(i) ==
    /\ InvAt(i, "add")
    /\ entries' = [entries EXCEPT ![invoke[i].by] = @ \union {i}]
    /\ InvTo(i, "count")
    /\ UNCHANGED <<token, revocations, owner, tool, admin, audited, toolEdits>>

\* mutant: the limit is one too high
OverLimitLate(n) == n > McpLimit + 1

\* ZCARD, some commands of other requests later
OverLimit(n) == n > McpLimit

LimiterCounts(i) ==
    /\ InvAt(i, "count")
    /\ IF OverLimit(Cardinality(entries[invoke[i].by]))
       THEN InvEnds(i, "mcp.rate_limit.exceeded")
       ELSE InvTo(i, "forwarded") /\ UNCHANGED audited
    /\ UNCHANGED <<token, revocations, owner, tool, admin, entries, toolEdits>>

\* forwardToMcpServer and readMcpResponse: an answer, an error status, a
\* timeout, or a body that cannot be read, which throws past every audit.
ServerAnswers(i) ==
    /\ InvAt(i, "forwarded")
    /\ \/ InvEnds(i, "mcp.tool.invoked")
       \/ InvEnds(i, "mcp.tool.error")
       \/ InvTo(i, "unread") /\ UNCHANGED audited
    /\ UNCHANGED <<token, revocations, owner, tool, admin, entries, toolEdits>>

\* A minute after its ZADD an entry is out of the window (ZREMRANGEBYSCORE).
EntryLeaves(t, i) ==
    /\ i \in entries[t] /\ ~InvAt(i, "count")
    /\ entries' = [entries EXCEPT ![t] = @ \ {i}]
    /\ UNCHANGED <<token, revocations, owner, tool, admin, invoke, audited, toolEdits>>

InvocationStep(i) ==
    \/ \E t \in AccessTokens : ReadToken(i, t) \/ EntryLeaves(t, i)
    \/ ReadOwner(i) \/ FindTool(i) \/ LimiterAdds(i) \/ LimiterCounts(i) \/ ServerAnswers(i)

AdminStep(a) ==
    \/ \E t \in AccessTokens : RevokeFinds(a, t)
    \/ RevokeWrites(a) \/ CreateToolFinds(a) \/ CreateToolInserts(a)

AccessNext ==
    \/ \E i \in Invocations : InvocationStep(i)
    \/ \E a \in Admins : AdminStep(a)
    \/ \E t \in AccessTokens : CreateToken(t) \/ TokenExpires(t)
    \/ \E s \in {"active", "disabled"} : SetOwner(s)
    \/ \E p \in {"open", "closed"} : UpdatePolicy(p)
    \/ DeleteTool

AccessSpec == AccessInit /\ [][AccessNext]_accessVars

(***************************************************************************)
(* Properties.                                                             *)
(***************************************************************************)
Forwarded(i) == audited[i] = "mcp.tool.invoked" \/ invoke[i].at \in {"forwarded", "unread"}

\* The MCP limit holds although ZADD and ZCARD are separate commands: of the
\* invocations whose entries are in the window, at most the limit went through.
McpBudget == \A t \in AccessTokens : Cardinality({i \in entries[t] : Forwarded(i)}) <= McpLimit

\* Two admins who revoke a token at the same time revoke it once: one record
\* in the audit log, and none for a token that is not revoked.
RevokedOnce == \A t \in AccessTokens : revocations[t] = IF token[t] = "revoked" THEN 1 ELSE 0

TokensHold == McpBudget /\ RevokedOnce

=============================================================================
