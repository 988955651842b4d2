----------------------------- MODULE ChatTurns -----------------------------
(***************************************************************************)
(* One conversation of the chat: browser tabs (useChatStream.ts), the      *)
(* completion requests they send (chat.controller.ts, chat.service.ts and  *)
(* the session boundary, routing and persistence services), and what other *)
(* requests do to the same session meanwhile: its spaces are changed, it   *)
(* is deleted, permissions are revoked.                                    *)
(*                                                                         *)
(* Each request is a generator: it can be left (iterator.return) only at a *)
(* yield.  The agent turn is what AgentSessions leaves visible of it: one  *)
(* turn at a time, which ends with a terminal event or without one.        *)
(***************************************************************************)
EXTENDS Naturals, Sequences, FiniteSets

CONSTANTS Tabs, NoTab, ChatRequests, ChatSpaces,
          MaxChatErrors,   \* bound: database statements that throw
          MaxScopeChanges, \* bound: updates of the session's spaces
          MaxRevocations   \* bound: changes of the user's permissions

VARIABLES
    chat,        \* the chat_sessions row, its spaces and title
    said,        \* chat_messages: <<role, request>> in the order of insertion
    cited,       \* requests whose answer_citations rows are stored
    chatUse,     \* the spaces on which the user has chat:use
    creq,        \* completion requests: server side
    shown,       \* the assistant message of a request in its tab
    boundAgent,  \* hasSession: an agent session exists for the conversation
    agentTurn,   \* requests that are in their agent turn
    scopeUpdate, \* updateSessionSpaces between its checks and its writes
    chatErrors, scopeChanges, revocations

chatVars == <<chat, said, cited, chatUse, creq, shown, boundAgent, agentTurn, scopeUpdate,
              chatErrors, scopeChanges, revocations>>

NewRequest == [at |-> "new", tab |-> NoTab, spaces |-> {}, checked |-> {}, path |-> "none"]

ChatInit ==
    /\ chat = [exists |-> FALSE, deleted |-> FALSE, spaces |-> {}, title |-> "none"]
    /\ said = <<>> /\ cited = {} /\ chatUse = ChatSpaces
    /\ creq = [r \in ChatRequests |-> NewRequest]
    /\ shown = [r \in ChatRequests |-> "nothing"]
    /\ boundAgent = FALSE /\ agentTurn = {} /\ scopeUpdate = {}
    /\ chatErrors = 0 /\ scopeChanges = 0 /\ revocations = 0

ReqIs(r, at) == creq[r].at = at
ReqTo(r, at) == creq' = [creq EXCEPT ![r].at = at]
Count(role) == Cardinality({i \in 1..Len(said) : said[i][1] = role})
Stored(role, r) == \E i \in 1..Len(said) : said[i] = <<role, r>>

\* The stream ends with an error event, or the request with an error status.
Fails(r) ==
    /\ creq' = [creq EXCEPT ![r].at = "ended"]
    /\ shown' = [shown EXCEPT ![r] = IF @ = "streaming" THEN "error" ELSE @]
    /\ agentTurn' = agentTurn \ {r}

(***************************************************************************)
(* The tab.                                                                *)
(***************************************************************************)
NotStreaming(k) == \A r \in ChatRequests : creq[r].tab = k => shown[r] # "streaming"

\* A first message creates the conversation; the others are sent to it.
SendMessage(k, r) ==
    /\ ReqIs(r, "new") /\ ~chat.deleted /\ NotStreaming(k)
    /\ chat.exists \/ \A q \in ChatRequests : creq[q].at \in {"new", "ended"}
    /\ creq' = [creq EXCEPT ![r].at = "arrived", ![r].tab = k]
    /\ shown' = [shown EXCEPT ![r] = "streaming"]
    /\ UNCHANGED <<chat, said, cited, chatUse, boundAgent, agentTurn, scopeUpdate, chatErrors, scopeChanges, revocations>>

\* loadSession, startNewSession or unmount: the request is aborted.  The
\* rejected read runs the finally block before the tab handles anything else.
LeaveConversation(k, r) ==
    /\ creq[r].tab = k /\ shown[r] = "streaming"
    /\ shown' = [shown EXCEPT ![r] = "gone"]
    /\ UNCHANGED <<chat, said, cited, chatUse, creq, boundAgent, agentTurn, scopeUpdate, chatErrors, scopeChanges, revocations>>

\* The connection is closed: the generator is left at its next yield.
ServerLeaves(r) ==
    /\ shown[r] = "gone" /\ creq[r].at \in {"static", "content", "agent", "nohit", "stored"}
    /\ creq' = [creq EXCEPT ![r].at = "ended"]
    /\ agentTurn' = agentTurn \ {r}
    /\ UNCHANGED <<chat, said, cited, chatUse, shown, boundAgent, scopeUpdate, chatErrors, scopeChanges, revocations>>

(***************************************************************************)
(* streamCompletion: session, permissions, the user's message.             *)
(***************************************************************************)
Permitted(S) == S \subseteq chatUse

\* Without a session id the requested spaces are authorised first.
Preauthorize(r, S) ==
    /\ ReqIs(r, "arrived") /\ ~chat.exists /\ ~chat.deleted /\ S # {}
    /\ \/ /\ Permitted(S)
          /\ creq' = [creq EXCEPT ![r].at = "create", ![r].spaces = S, ![r].checked = S]
          /\ UNCHANGED <<shown, agentTurn>>
       \/ ~Permitted(S) /\ Fails(r)
    /\ UNCHANGED <<chat, said, cited, chatUse, boundAgent, scopeUpdate, chatErrors, scopeChanges, revocations>>

\* createSession: the row and its spaces in one transaction.
CreateSession(r) ==
    /\ ReqIs(r, "create")
    /\ chat' = [chat EXCEPT !.exists = TRUE, !.spaces = creq[r].spaces]
    /\ ReqTo(r, "history")
    /\ UNCHANGED <<said, cited, chatUse, shown, boundAgent, agentTurn, scopeUpdate, chatErrors, scopeChanges, revocations>>

\* resolveSession: the stored scope is used, whatever was requested.
ResolveSession(r) ==
    /\ ReqIs(r, "arrived") /\ (chat.exists \/ chat.deleted)
    /\ \/ /\ chat.exists
          /\ creq' = [creq EXCEPT ![r].at = "authorize", ![r].spaces = chat.spaces]
          /\ UNCHANGED <<shown, agentTurn>>
       \/ ~chat.exists /\ Fails(r)
    /\ UNCHANGED <<chat, said, cited, chatUse, boundAgent, scopeUpdate, chatErrors, scopeChanges, revocations>>

\* mutant: an existing session is taken as authorised
NoSecondCheck(r) ==
    /\ ReqIs(r, "authorize")
    /\ ReqTo(r, "history") /\ UNCHANGED <<shown, agentTurn>>
    /\ UNCHANGED <<chat, said, cited, chatUse, boundAgent, scopeUpdate, chatErrors, scopeChanges, revocations>>

AssertChatUseOnSpaces(r) ==
    /\ ReqIs(r, "authorize")
    /\ \/ /\ Permitted(creq[r].spaces)
          /\ creq' = [creq EXCEPT ![r].at = "history", ![r].checked = creq[r].spaces]
          /\ UNCHANGED <<shown, agentTurn>>
       \/ ~Permitted(creq[r].spaces) /\ Fails(r)
    /\ UNCHANGED <<chat, said, cited, chatUse, boundAgent, scopeUpdate, chatErrors, scopeChanges, revocations>>

\* loadRecentHistory, then persistMessage; a deleted session fails its key.
PersistUserMessage(r) ==
    /\ ReqIs(r, "history")
    /\ \/ /\ chat.exists /\ said' = Append(said, <<"user", r>>)
          /\ creq' = [creq EXCEPT ![r].at = "route"] /\ UNCHANGED <<shown, agentTurn>>
       \/ ~chat.exists /\ Fails(r) /\ UNCHANGED said
    /\ UNCHANGED <<chat, cited, chatUse, boundAgent, scopeUpdate, chatErrors, scopeChanges, revocations>>

\* decideQueryRoute: a bound agent session takes every further message; the
\* switches, the retrieval mode and the intent decide otherwise.
DecideRoute(r) ==
    /\ ReqIs(r, "route")
    /\ \E p \in IF boundAgent THEN {"agent"} ELSE {"agent", "static"} :
          creq' = [creq EXCEPT ![r].at = p, ![r].path = p]
    /\ UNCHANGED <<chat, said, cited, chatUse, shown, boundAgent, agentTurn, scopeUpdate, chatErrors, scopeChanges, revocations>>

(***************************************************************************)
(* runCompletion.                                                          *)
(***************************************************************************)
\* retrieveContext: hits, nothing found in a strict space, or the agent.
Retrieve(r) ==
    /\ ReqIs(r, "static")
    /\ \E next \in {"content", "nohit", "agent"} :
          creq' = [creq EXCEPT ![r].at = next, ![r].path = IF next = "agent" THEN "agent" ELSE next]
    /\ UNCHANGED <<chat, said, cited, chatUse, shown, boundAgent, agentTurn, scopeUpdate, chatErrors, scopeChanges, revocations>>

ProviderFails(r) ==
    /\ creq[r].at \in {"static", "content"} /\ Fails(r)
    /\ UNCHANGED <<chat, said, cited, chatUse, boundAgent, scopeUpdate, chatErrors, scopeChanges, revocations>>

\* persistMessage of the assistant's text; the cascade of a deleted session
\* makes the insert fail.
PersistAnswer(r) ==
    /\ creq[r].at \in {"content", "nohit", "completed"}
    /\ \/ /\ chat.exists /\ said' = Append(said, <<"assistant", r>>)
          /\ ReqTo(r, IF creq[r].path = "content" THEN "citing" ELSE "stored")
          /\ UNCHANGED <<shown, agentTurn>>
       \/ ~chat.exists /\ Fails(r) /\ UNCHANGED said
    /\ UNCHANGED <<chat, cited, chatUse, boundAgent, scopeUpdate, chatErrors, scopeChanges, revocations>>

\* mutant: the citations are sent before they are stored
CiteLater(r) ==
    /\ ReqIs(r, "citing") /\ ReqTo(r, "stored")
    /\ UNCHANGED <<chat, said, cited, chatUse, shown, boundAgent, agentTurn, scopeUpdate, chatErrors, scopeChanges, revocations>>

\* persistCitations; it throws when the session and its messages are gone.
PersistCitations(r) ==
    /\ ReqIs(r, "citing")
    /\ \/ chat.exists /\ cited' = cited \cup {r} /\ ReqTo(r, "stored") /\ UNCHANGED <<shown, agentTurn>>
       \/ ~chat.exists /\ Fails(r) /\ UNCHANGED cited
    /\ UNCHANGED <<chat, said, chatUse, boundAgent, scopeUpdate, chatErrors, scopeChanges, revocations>>

DatabaseFails(r) ==
    /\ chatErrors < MaxChatErrors /\ creq[r].at \in {"history", "content", "citing", "completed"}
    /\ Fails(r) /\ chatErrors' = chatErrors + 1
    /\ UNCHANGED <<chat, said, cited, chatUse, boundAgent, scopeUpdate, scopeChanges, revocations>>

\* citations, usage, message.completed and [DONE].
MessageCompleted(r) ==
    /\ ReqIs(r, "stored")
    /\ ReqTo(r, "ended") /\ agentTurn' = agentTurn \ {r}
    /\ shown' = [shown EXCEPT ![r] = IF @ = "streaming" THEN "complete" ELSE @]
    /\ UNCHANGED <<chat, said, cited, chatUse, boundAgent, scopeUpdate, chatErrors, scopeChanges, revocations>>

(***************************************************************************)
(* runAgentCompletion.                                                     *)
(***************************************************************************)
Busy(r) == agentTurn \ {r} # {}

\* sendTurn: busy, or the agent session is created with the turn; its row
\* needs the chat session's.
StartAgentTurn(r) ==
    /\ ReqIs(r, "agent") /\ r \notin agentTurn
    /\ \/ ~Busy(r) /\ (chat.exists \/ boundAgent)
          /\ agentTurn' = agentTurn \cup {r} /\ boundAgent' = TRUE
          /\ UNCHANGED <<creq, shown>>
       \/ (Busy(r) \/ ~(chat.exists \/ boundAgent)) /\ Fails(r) /\ UNCHANGED boundAgent
    /\ UNCHANGED <<chat, said, cited, chatUse, scopeUpdate, chatErrors, scopeChanges, revocations>>

AgentCompletes(r) ==
    /\ ReqIs(r, "agent") /\ r \in agentTurn /\ ReqTo(r, "completed")
    /\ UNCHANGED <<chat, said, cited, chatUse, shown, boundAgent, agentTurn, scopeUpdate, chatErrors, scopeChanges, revocations>>

AgentFails(r) ==
    /\ ReqIs(r, "agent") /\ r \in agentTurn /\ Fails(r)
    /\ UNCHANGED <<chat, said, cited, chatUse, boundAgent, scopeUpdate, chatErrors, scopeChanges, revocations>>

\* The turn ends without a terminal event: [DONE] is all the tab receives.
AgentEndsSilently(r) ==
    /\ ReqIs(r, "agent") /\ r \in agentTurn
    /\ ReqTo(r, "ended") /\ agentTurn' = agentTurn \ {r}
    /\ shown' = [shown EXCEPT ![r] = IF @ = "streaming" THEN "complete" ELSE @]
    /\ UNCHANGED <<chat, said, cited, chatUse, boundAgent, scopeUpdate, chatErrors, scopeChanges, revocations>>

(***************************************************************************)
(* The title, the session's spaces, deletion, permissions.                 *)
(***************************************************************************)
\* maybeGenerateTitle counts after the answer was stored, not with it.
MaybeGenerateTitle ==
    /\ chat.exists /\ chat.title = "none" /\ Count("assistant") > 0
    /\ chat' = [chat EXCEPT !.title = IF Len(said) = 2 THEN "asked" ELSE @]
    /\ chat' # chat
    /\ UNCHANGED <<said, cited, chatUse, creq, shown, boundAgent, agentTurn, scopeUpdate, chatErrors, scopeChanges, revocations>>

GenerateSessionTitle ==
    /\ chat.exists /\ chat.title = "asked"
    /\ chat' = [chat EXCEPT !.title = "set"]
    /\ UNCHANGED <<said, cited, chatUse, creq, shown, boundAgent, agentTurn, scopeUpdate, chatErrors, scopeChanges, revocations>>

\* updateSessionSpaces checks the stored and the requested scope first.
CheckScope(S) ==
    /\ chat.exists /\ scopeUpdate = {} /\ scopeChanges < MaxScopeChanges
    /\ S # {} /\ S # chat.spaces /\ Permitted(chat.spaces \cup S)
    /\ scopeUpdate' = S /\ scopeChanges' = scopeChanges + 1
    /\ UNCHANGED <<chat, said, cited, chatUse, creq, shown, boundAgent, agentTurn, chatErrors, revocations>>

UpdateSessionSpaces ==
    /\ scopeUpdate # {} /\ scopeUpdate' = {}
    /\ chat' = [chat EXCEPT !.spaces = IF chat.exists THEN scopeUpdate ELSE @]
    /\ UNCHANGED <<said, cited, chatUse, creq, shown, boundAgent, agentTurn, chatErrors, scopeChanges, revocations>>

\* deleteSessionRecord with its cascades, then agent.close.
DeleteSession ==
    /\ chat.exists /\ Permitted(chat.spaces)
    /\ chat' = [chat EXCEPT !.exists = FALSE, !.deleted = TRUE] /\ said' = <<>> /\ cited' = {}
    /\ UNCHANGED <<chatUse, creq, shown, boundAgent, agentTurn, scopeUpdate, chatErrors, scopeChanges, revocations>>

CloseAgent ==
    /\ chat.deleted /\ boundAgent /\ boundAgent' = FALSE
    /\ UNCHANGED <<chat, said, cited, chatUse, creq, shown, agentTurn, scopeUpdate, chatErrors, scopeChanges, revocations>>

PermissionsChange(S) ==
    /\ revocations < MaxRevocations /\ S # chatUse
    /\ chatUse' = S /\ revocations' = revocations + 1
    /\ UNCHANGED <<chat, said, cited, creq, shown, boundAgent, agentTurn, scopeUpdate, chatErrors, scopeChanges>>

RequestStep(r) ==
    \/ \E k \in Tabs : SendMessage(k, r) \/ LeaveConversation(k, r)
    \/ ServerLeaves(r)
    \/ \E S \in SUBSET ChatSpaces : Preauthorize(r, S)
    \/ CreateSession(r) \/ ResolveSession(r) \/ AssertChatUseOnSpaces(r) \/ PersistUserMessage(r) \/ DecideRoute(r)
    \/ Retrieve(r) \/ ProviderFails(r) \/ PersistAnswer(r) \/ PersistCitations(r) \/ DatabaseFails(r)
    \/ MessageCompleted(r)
    \/ StartAgentTurn(r) \/ AgentCompletes(r) \/ AgentFails(r) \/ AgentEndsSilently(r)

ChatNext ==
    \/ \E r \in ChatRequests : RequestStep(r)
    \/ MaybeGenerateTitle \/ GenerateSessionTitle \/ UpdateSessionSpaces \/ DeleteSession \/ CloseAgent
    \/ \E S \in SUBSET ChatSpaces : CheckScope(S) \/ PermissionsChange(S)

ChatSpec == ChatInit /\ [][ChatNext]_chatVars

(***************************************************************************)
(* Properties.                                                             *)
(***************************************************************************)
\* What is retrieved for a request, or given to its agent, comes from spaces
\* on which the user had chat:use when that request was checked, however the
\* session's scope and the permissions change meanwhile.
ScopeWasAuthorized ==
    \A r \in ChatRequests :
        creq[r].at \notin {"new", "arrived", "create", "authorize", "ended"} => creq[r].spaces \subseteq creq[r].checked

\* An answer from the wiki that a tab shows as complete is stored with its
\* question and its citations, unless the conversation was deleted.
CompleteIsCited ==
    \A r \in ChatRequests :
        (shown[r] = "complete" /\ creq[r].path = "content" /\ chat.exists)
            => Stored("user", r) /\ Stored("assistant", r) /\ r \in cited

=============================================================================
