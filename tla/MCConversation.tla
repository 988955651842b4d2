--------------------------- MODULE MCConversation ---------------------------
(***************************************************************************)
(* Conversations: the agent's processes, the turns of the chat, and the    *)
(* retrieval behind them.  Each component is checked by itself: `part` is  *)
(* chosen at the start.  AgentSessions and ChatTurns, whose theorems are   *)
(* in ConversationProofs, are extended and have their own variables.       *)
(***************************************************************************)
EXTENDS ChatTurns, AgentSessions, TLC

CONSTANTS TopK, K, Expanded, MaxCandidates

VARIABLES
    part,  \* the component that is checked
    asked  \* the input of a component that is a function: {} or {input}

-----------------------------------------------------------------------------

Find == INSTANCE Retrieval

Requests ==
    [retrieval |-> Find!RetrievalRequests,
     reranking |-> Find!RerankRequests,
     chunking |-> Find!ChunkRequests,
     candidates |-> Find!GraphHits,
     budget |-> Find!BudgetRequests]

Init ==
    /\ asked = {} /\ ChatInit /\ AgentInit
    /\ part \in {"agent", "chat"} \cup DOMAIN Requests

Next ==
    \/ /\ part = "agent" /\ AgentNext
       /\ UNCHANGED <<part, asked, chatVars>>
    \/ /\ part = "chat" /\ ChatNext
       /\ UNCHANGED <<part, asked, agentVars>>
    \/ /\ part \in DOMAIN Requests /\ asked = {} /\ \E r \in Requests[part] : asked' = {r}
       /\ UNCHANGED <<part, agentVars, chatVars>>

vars == <<part, asked, agentVars, chatVars>>

Spec == Init /\ [][Next]_vars

(* The turns of the agent and the requests of the chat are one set of values,
   and so are the processes and the tabs. *)
Symmetric == Permutations(Turns) \cup Permutations(Processes) \cup Permutations(ChatSpaces)

-----------------------------------------------------------------------------
(* AgentTurnsAreServed, ScopeWasAuthorized and CompleteIsCited are stated  *)
(* in the components' modules.                                             *)

Asked(p) == IF part = p THEN asked ELSE {}

\* Retrieval loses nothing it should keep: the windows of a page cover it, a
\* risky chunk does not displace a safe one near the top and stands alone only
\* if enough of them crowd the safe ones out, reranking keeps the chunks, a
\* node keeps its best match, a community is not cut before its nodes, and
\* what fits into the budget is used.
RetrievalKeepsTheBest ==
    /\ \A r \in Asked("retrieval") : Find!NeverOnlyRisky(r) /\ Find!SafeComesFirst(r)
    /\ \A r \in Asked("reranking") : Find!RerankKeepsAll(r)
    /\ \A r \in Asked("chunking") : Find!WindowsCover(r)
    /\ \A r \in Asked("candidates") : Find!BestMatchStays(r) /\ Find!CommunityBeforeNodes(r)
    /\ \A r \in Asked("budget") : Find!BudgetIsUsed(r)

=============================================================================
