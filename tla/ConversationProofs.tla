------------------------- MODULE ConversationProofs -------------------------
(***************************************************************************)
(* Theorems about ChatTurns, for every number of tabs, requests and spaces *)
(* and every interleaving of requests, scope updates, revocations and the  *)
(* deletion of the session; and about AgentSessions, for every number of   *)
(* conversations, turns and processes, every limit of the slots and of the *)
(* queue, and every order of events, exits, timers and calls.              *)
(***************************************************************************)
EXTENDS ChatTurns, AgentSessions, SequenceTheorems, TLAPS

-----------------------------------------------------------------------------
(* Types *)

ReqStates == {"new", "arrived", "create", "authorize", "history", "route", "static", "content",
              "nohit", "agent", "completed", "citing", "stored", "ended"}
Shows == {"nothing", "streaming", "gone", "error", "complete"}
Roles == {"user", "assistant"}
Request == [at : ReqStates, tab : Tabs \union {NoTab}, spaces : SUBSET ChatSpaces,
            checked : SUBSET ChatSpaces, path : {"none", "agent", "static", "content", "nohit"}]

ChatTypeOK ==
    /\ chat \in [exists : BOOLEAN, deleted : BOOLEAN, spaces : SUBSET ChatSpaces,
                 title : {"none", "asked", "set"}]
    /\ said \in Seq(Roles \X ChatRequests)
    /\ cited \in SUBSET ChatRequests
    /\ creq \in [ChatRequests -> Request]
    /\ shown \in [ChatRequests -> Shows]
    /\ scopeUpdate \in SUBSET ChatSpaces

LEMMA ChatTypeInit == ChatInit => ChatTypeOK
<1> SUFFICES ASSUME ChatInit PROVE ChatTypeOK  OBVIOUS
<1>1. <<>> \in Seq(Roles \X ChatRequests)  BY EmptySeq
<1> QED  BY <1>1 DEF ChatInit, ChatTypeOK, NewRequest, Request, ReqStates, Shows

(* A request that moves to another state is otherwise the same. *)
LEMMA ReqMoves ==
    ASSUME ChatTypeOK, NEW r \in ChatRequests, NEW s \in ReqStates, creq' = [creq EXCEPT ![r].at = s]
    PROVE  /\ creq'[r].at = s /\ creq'[r].spaces = creq[r].spaces
           /\ creq'[r].checked = creq[r].checked /\ creq'[r].path = creq[r].path
           /\ \A q \in ChatRequests : q # r => creq'[q] = creq[q]
           /\ creq' \in [ChatRequests -> Request]
<1>1. creq[r] \in Request  BY DEF ChatTypeOK
<1>2. creq'[r] = [creq[r] EXCEPT !.at = s]  BY DEF ChatTypeOK
<1>3. \A q \in ChatRequests : q # r => creq'[q] = creq[q]  BY DEF ChatTypeOK
<1>4. creq' \in [ChatRequests -> Request]
  <2>1. [creq[r] EXCEPT !.at = s] \in Request  BY <1>1 DEF Request
  <2>2. creq' = [creq EXCEPT ![r] = [creq[r] EXCEPT !.at = s]]  OBVIOUS
  <2> QED  BY <2>1, <2>2 DEF ChatTypeOK
<1> QED  BY <1>1, <1>2, <1>3, <1>4 DEF Request

(* A stream that fails ends the request, and shows an error where it is open. *)
LEMMA FailMoves ==
    ASSUME ChatTypeOK, NEW r \in ChatRequests, Fails(r)
    PROVE  /\ creq'[r].at = "ended" /\ creq'[r].path = creq[r].path
           /\ shown'[r] = "error" \/ shown'[r] = shown[r]
           /\ \A q \in ChatRequests : q # r => creq'[q] = creq[q] /\ shown'[q] = shown[q]
           /\ creq' \in [ChatRequests -> Request] /\ shown' \in [ChatRequests -> Shows]
<1>1. creq' = [creq EXCEPT ![r].at = "ended"]  BY DEF Fails
<1>2. shown' = [shown EXCEPT ![r] = IF @ = "streaming" THEN "error" ELSE @]  BY DEF Fails
<1>3. /\ shown'[r] = "error" \/ shown'[r] = shown[r]
      /\ \A q \in ChatRequests : q # r => shown'[q] = shown[q]
      /\ shown' \in [ChatRequests -> Shows]
  BY <1>2 DEF ChatTypeOK, Shows
<1> QED  BY <1>1, <1>3, ReqMoves DEF ReqStates

(* A message that is appended is stored, with those before it. *)
LEMMA Says ==
    ASSUME ChatTypeOK, NEW role \in Roles, NEW r \in ChatRequests, said' = Append(said, <<role, r>>)
    PROVE  /\ said' \in Seq(Roles \X ChatRequests)
           /\ Stored(role, r)'
           /\ \A x \in Roles, q \in ChatRequests : Stored(x, q) => Stored(x, q)'
<1>1. said \in Seq(Roles \X ChatRequests) /\ Len(said) \in Nat  BY LenProperties DEF ChatTypeOK
<1>2. /\ said' \in Seq(Roles \X ChatRequests) /\ Len(said') = Len(said) + 1
      /\ \A i \in 1 .. Len(said) : said'[i] = said[i]
      /\ said'[Len(said) + 1] = <<role, r>>
  BY <1>1, AppendProperties
<1>3. Len(said) + 1 \in 1 .. Len(said')  BY <1>1, <1>2
<1>4. \A i \in 1 .. Len(said) : i \in 1 .. Len(said')  BY <1>1, <1>2
<1> QED  BY <1>2, <1>3, <1>4 DEF Stored

(* One request is changed, to another record of a request. *)
LEMMA OneIsChanged ==
    ASSUME ChatTypeOK, NEW r \in ChatRequests, creq'[r] \in Request,
           creq' = [q \in ChatRequests |-> creq'[q]],
           \A q \in ChatRequests : q # r => creq'[q] = creq[q]
    PROVE  creq' \in [ChatRequests -> Request]
<1>1. \A q \in ChatRequests : creq'[q] \in Request  BY DEF ChatTypeOK
<1> QED  BY <1>1

-----------------------------------------------------------------------------
(* The inductive invariant *)

(* What holds of one request.  The session of a conversation without a row  *)
(* is being created by a first request, and nothing is complete yet; once   *)
(* it exists, a request has stored what its state says.                     *)
Asked == {"route", "static", "content", "nohit", "agent", "completed", "citing", "stored"}
Unborn == ~ chat.exists /\ ~ chat.deleted

Fine(r) ==
    /\ creq[r].at \notin {"new", "arrived", "authorize", "ended"} => creq[r].spaces \subseteq creq[r].checked
    /\ creq[r].at = "create" => Unborn
    /\ Unborn => creq[r].at \in {"new", "arrived", "create", "ended"} /\ shown[r] # "complete"
    /\ chat.exists /\ creq[r].at \in Asked => Stored("user", r)
    /\ chat.exists /\ creq[r].at \in {"citing", "stored"} => Stored("assistant", r)
    /\ chat.exists /\ creq[r].at = "stored" /\ creq[r].path = "content" => r \in cited
    /\ creq[r].at = "agent" => creq[r].path = "agent"
    /\ shown[r] = "complete" => creq[r].at = "ended"
    /\ shown[r] = "complete" /\ creq[r].path = "content" /\ chat.exists
           => Stored("user", r) /\ Stored("assistant", r) /\ r \in cited

Starting(r) == creq[r].at \in {"arrived", "create"}

ChatInv ==
    /\ ChatTypeOK
    /\ chat.deleted => ~ chat.exists
    /\ Unborn => \A r, q \in ChatRequests : Starting(r) /\ Starting(q) => r = q
    /\ \A r \in ChatRequests : Fine(r)

(* A step of one request: the others stay as they are, and what is stored   *)
(* stays stored.                                                            *)
LEMMA OneRequest ==
    ASSUME ChatInv, ChatTypeOK', NEW r \in ChatRequests, Fine(r)', chat' = chat,
           \A q \in ChatRequests : q # r => creq'[q] = creq[q] /\ shown'[q] = shown[q],
           \A x \in Roles, q \in ChatRequests : Stored(x, q) => Stored(x, q)',
           cited \subseteq cited',
           Starting(r)' => Starting(r) \/ ~ Unborn
    PROVE  ChatInv'
<1>1. ASSUME NEW q \in ChatRequests, q # r  PROVE Fine(q)'
  <2>1. Fine(q)  BY DEF ChatInv
  <2>2. Stored("user", q) => Stored("user", q)'  BY DEF Roles
  <2>3. Stored("assistant", q) => Stored("assistant", q)'  BY DEF Roles
  <2> QED  BY <1>1, <2>1, <2>2, <2>3 DEF Fine, Unborn
<1>2. \A q \in ChatRequests : Fine(q)'  BY <1>1
<1>3. Unborn' => \A p, q \in ChatRequests : Starting(p)' /\ Starting(q)' => p = q
  <2> SUFFICES ASSUME Unborn', NEW p \in ChatRequests, NEW q \in ChatRequests,
                      Starting(p)', Starting(q)'
               PROVE  p = q
    OBVIOUS
  <2>1. Unborn  BY DEF Unborn
  <2>2. Starting(p) /\ Starting(q)  BY <2>1 DEF Starting
  <2> QED  BY <2>1, <2>2 DEF ChatInv
<1> QED  BY <1>2, <1>3 DEF ChatInv

(* A failed request keeps the invariant, whenever it fails. *)
LEMMA FailsInv ==
    ASSUME ChatInv, NEW r \in ChatRequests, Fails(r), UNCHANGED <<chat, said, cited, scopeUpdate>>
    PROVE  ChatInv'
<1>1. /\ creq'[r].at = "ended" /\ creq'[r].path = creq[r].path
      /\ shown'[r] = "error" \/ shown'[r] = shown[r]
      /\ \A q \in ChatRequests : q # r => creq'[q] = creq[q] /\ shown'[q] = shown[q]
      /\ creq' \in [ChatRequests -> Request] /\ shown' \in [ChatRequests -> Shows]
  BY FailMoves DEF ChatInv
<1>2. ChatTypeOK'  BY <1>1 DEF ChatInv, ChatTypeOK
<1>3. \A x \in Roles, q \in ChatRequests : Stored(x, q)' <=> Stored(x, q)  BY DEF Stored
<1>4. Fine(r)'
  <2>1. Fine(r)  BY DEF ChatInv
  <2> QED  BY <1>1, <1>3, <2>1 DEF Fine, Unborn, Asked, Roles
<1>5. ~ Starting(r)'  BY <1>1 DEF Starting
<1> QED  BY <1>1, <1>2, <1>3, <1>4, <1>5, OneRequest

(* A request that moves on: nothing is stored, nothing is shown. *)
LEMMA MovesInv ==
    ASSUME ChatInv, NEW r \in ChatRequests, UNCHANGED <<chat, said, cited, shown, scopeUpdate>>,
           creq' \in [ChatRequests -> Request],
           \A q \in ChatRequests : q # r => creq'[q] = creq[q],
           Fine(r)', Starting(r)' => Starting(r) \/ ~ Unborn
    PROVE  ChatInv'
<1>1. ChatTypeOK'  BY DEF ChatInv, ChatTypeOK
<1>2. \A x \in Roles, q \in ChatRequests : Stored(x, q)' <=> Stored(x, q)  BY DEF Stored
<1> QED  BY <1>1, <1>2, OneRequest

-----------------------------------------------------------------------------
(* The steps of a request *)

LEMMA SendMessageInv ==
    ASSUME ChatInv, NEW k \in Tabs, NEW r \in ChatRequests, SendMessage(k, r)
    PROVE  ChatInv'
<1>1. /\ creq[r].at = "new" /\ ~ chat.deleted
      /\ chat.exists \/ \A q \in ChatRequests : creq[q].at \in {"new", "ended"}
      /\ creq' = [creq EXCEPT ![r].at = "arrived", ![r].tab = k]
      /\ shown' = [shown EXCEPT ![r] = "streaming"]
      /\ UNCHANGED <<chat, said, cited, scopeUpdate>>
  BY DEF SendMessage, ReqIs
<1>2. /\ creq'[r].at = "arrived"
      /\ \A q \in ChatRequests : q # r => creq'[q] = creq[q] /\ shown'[q] = shown[q]
      /\ shown'[r] = "streaming"
  <2>1. creq[r] \in Request  BY DEF ChatInv, ChatTypeOK
  <2>2. creq'[r] = [creq[r] EXCEPT !.at = "arrived", !.tab = k]  BY <1>1 DEF ChatInv, ChatTypeOK
  <2>3. creq'[r].at = "arrived"  BY <2>1, <2>2 DEF Request
  <2> QED  BY <1>1, <2>3 DEF ChatInv, ChatTypeOK
<1>3. ChatTypeOK'
  <2>1. creq'[r] \in Request
    <3>1. creq[r] \in Request  BY DEF ChatInv, ChatTypeOK
    <3>2. creq'[r] = [creq[r] EXCEPT !.at = "arrived", !.tab = k]  BY <1>1 DEF ChatInv, ChatTypeOK
    <3> QED  BY <3>1, <3>2 DEF Request, ReqStates
  <2>2. creq' = [q \in ChatRequests |-> creq'[q]]  BY <1>1 DEF ChatInv, ChatTypeOK
  <2>3. creq' \in [ChatRequests -> Request]  BY <1>2, <2>1, <2>2, OneIsChanged DEF ChatInv
  <2> QED  BY <1>1, <2>3 DEF ChatInv, ChatTypeOK, Shows
<1>4. \A x \in Roles, q \in ChatRequests : Stored(x, q)' <=> Stored(x, q)  BY <1>1 DEF Stored
<1>5. \A q \in ChatRequests : Fine(q)'
  <2>1. Fine(r)'  BY <1>1, <1>2 DEF Fine, Unborn, Asked
  <2>2. ASSUME NEW q \in ChatRequests, q # r  PROVE Fine(q)'
    <3>1. Fine(q)  BY DEF ChatInv
    <3> QED  BY <1>1, <1>2, <1>4, <2>2, <3>1 DEF Fine, Unborn, Roles
  <2> QED  BY <2>1, <2>2
<1>6. Unborn' => \A p, q \in ChatRequests : Starting(p)' /\ Starting(q)' => p = q
  BY <1>1, <1>2 DEF Unborn, Starting
<1> QED  BY <1>1, <1>3, <1>5, <1>6 DEF ChatInv

(* The stream is left, by the tab or by the server, or shown as complete. *)
LEMMA LeavesInv ==
    ASSUME ChatInv, NEW r \in ChatRequests,
           (\E k \in Tabs : LeaveConversation(k, r)) \/ ServerLeaves(r)
    PROVE  ChatInv'
<1>1. CASE \E k \in Tabs : LeaveConversation(k, r)
  <2>1. /\ shown[r] = "streaming" /\ shown' = [shown EXCEPT ![r] = "gone"]
        /\ UNCHANGED <<chat, said, cited, creq, scopeUpdate>>
    BY <1>1 DEF LeaveConversation
  <2>2. shown'[r] = "gone" /\ \A q \in ChatRequests : q # r => shown'[q] = shown[q]
    BY <2>1 DEF ChatInv, ChatTypeOK
  <2>3. ChatTypeOK'  BY <2>1 DEF ChatInv, ChatTypeOK, Shows
  <2>4. \A x \in Roles, q \in ChatRequests : Stored(x, q)' <=> Stored(x, q)  BY <2>1 DEF Stored
  <2>5. Fine(r)'
    <3>1. Fine(r)  BY DEF ChatInv
    <3> QED  BY <2>1, <2>2, <2>4, <3>1 DEF Fine, Unborn, Roles
  <2>6. Starting(r)' => Starting(r)  BY <2>1 DEF Starting
  <2> QED  BY <2>1, <2>2, <2>3, <2>4, <2>5, <2>6, OneRequest
<1>2. CASE ServerLeaves(r)
  <2>1. /\ creq' = [creq EXCEPT ![r].at = "ended"] /\ shown[r] = "gone"
        /\ UNCHANGED <<chat, said, cited, shown, scopeUpdate>>
    BY <1>2 DEF ServerLeaves
  <2>2. /\ creq'[r].at = "ended" /\ creq'[r].path = creq[r].path
        /\ \A q \in ChatRequests : q # r => creq'[q] = creq[q]
        /\ creq' \in [ChatRequests -> Request]
    BY <2>1, ReqMoves DEF ChatInv, ReqStates
  <2>3. Fine(r)'
    <3>1. Fine(r)  BY DEF ChatInv
    <3> QED  BY <2>1, <2>2, <3>1 DEF Fine, Unborn, Asked
  <2>4. ~ Starting(r)'  BY <2>2 DEF Starting
  <2> QED  BY <2>1, <2>2, <2>3, <2>4, MovesInv
<1> QED  BY <1>1, <1>2

(* streamCompletion up to the route: the scope, its check, the first row.   *)
LEMMA ScopeInv ==
    ASSUME ChatInv, NEW r \in ChatRequests,
           \/ \E S \in SUBSET ChatSpaces : Preauthorize(r, S)
           \/ ResolveSession(r) \/ AssertChatUseOnSpaces(r)
    PROVE  ChatInv'
<1>0. UNCHANGED <<chat, said, cited, scopeUpdate>>
  BY DEF Preauthorize, ResolveSession, AssertChatUseOnSpaces
<1>1. CASE Fails(r)  BY <1>0, <1>1, FailsInv
<1>2. Fine(r) /\ creq[r] \in Request  BY DEF ChatInv, ChatTypeOK
<1>3. ASSUME NEW S \in SUBSET ChatSpaces, Preauthorize(r, S), ~ Fails(r)  PROVE ChatInv'
  <2>1. /\ creq[r].at = "arrived" /\ Unborn /\ UNCHANGED shown
        /\ creq' = [creq EXCEPT ![r].at = "create", ![r].spaces = S, ![r].checked = S]
    BY <1>3 DEF Preauthorize, ReqIs, Unborn
  <2>2. /\ creq'[r] = [creq[r] EXCEPT !.at = "create", !.spaces = S, !.checked = S]
        /\ \A q \in ChatRequests : q # r => creq'[q] = creq[q]
    BY <2>1 DEF ChatInv, ChatTypeOK
  <2>3. creq'[r].at = "create" /\ creq'[r].spaces = S /\ creq'[r].checked = S
    BY <1>2, <2>2 DEF Request
  <2>4. creq' \in [ChatRequests -> Request]
    <3>1. creq'[r] \in Request  BY <1>2, <2>2 DEF Request, ReqStates
    <3>2. creq' = [q \in ChatRequests |-> creq'[q]]  BY <2>1 DEF ChatInv, ChatTypeOK
    <3> QED  BY <2>2, <3>1, <3>2, OneIsChanged DEF ChatInv
  <2>5. Fine(r)'  BY <1>0, <1>2, <2>1, <2>3 DEF Fine, Unborn, Asked
  <2>6. Starting(r)  BY <2>1 DEF Starting
  <2> QED  BY <1>0, <2>1, <2>2, <2>4, <2>5, <2>6, MovesInv
<1>4. ASSUME ResolveSession(r), ~ Fails(r)  PROVE ChatInv'
  <2>1. /\ creq[r].at = "arrived" /\ chat.exists /\ UNCHANGED shown
        /\ creq' = [creq EXCEPT ![r].at = "authorize", ![r].spaces = chat.spaces]
    BY <1>4 DEF ResolveSession, ReqIs
  <2>2. /\ creq'[r] = [creq[r] EXCEPT !.at = "authorize", !.spaces = chat.spaces]
        /\ \A q \in ChatRequests : q # r => creq'[q] = creq[q]
    BY <2>1 DEF ChatInv, ChatTypeOK
  <2>3. creq'[r].at = "authorize"  BY <1>2, <2>2 DEF Request
  <2>4. chat.spaces \in SUBSET ChatSpaces  BY DEF ChatInv, ChatTypeOK
  <2>5. creq' \in [ChatRequests -> Request]
    <3>1. creq'[r] \in Request  BY <1>2, <2>2, <2>4 DEF Request, ReqStates
    <3>2. creq' = [q \in ChatRequests |-> creq'[q]]  BY <2>1 DEF ChatInv, ChatTypeOK
    <3> QED  BY <2>2, <3>1, <3>2, OneIsChanged DEF ChatInv
  <2>6. Fine(r)'  BY <1>0, <1>2, <2>1, <2>3 DEF Fine, Unborn, Asked
  <2>7. ~ Starting(r)'  BY <2>3 DEF Starting
  <2> QED  BY <1>0, <2>1, <2>2, <2>5, <2>6, <2>7, MovesInv
<1>5. ASSUME AssertChatUseOnSpaces(r), ~ Fails(r)  PROVE ChatInv'
  <2>1. /\ creq[r].at = "authorize" /\ UNCHANGED shown
        /\ creq' = [creq EXCEPT ![r].at = "history", ![r].checked = creq[r].spaces]
    BY <1>5 DEF AssertChatUseOnSpaces, ReqIs
  <2>2. /\ creq'[r] = [creq[r] EXCEPT !.at = "history", !.checked = creq[r].spaces]
        /\ \A q \in ChatRequests : q # r => creq'[q] = creq[q]
    BY <2>1 DEF ChatInv, ChatTypeOK
  <2>3. /\ creq'[r].at = "history" /\ creq'[r].spaces = creq[r].spaces
        /\ creq'[r].checked = creq[r].spaces
    BY <1>2, <2>2 DEF Request
  <2>4. creq' \in [ChatRequests -> Request]
    <3>1. creq'[r] \in Request  BY <1>2, <2>2 DEF Request, ReqStates
    <3>2. creq' = [q \in ChatRequests |-> creq'[q]]  BY <2>1 DEF ChatInv, ChatTypeOK
    <3> QED  BY <2>2, <3>1, <3>2, OneIsChanged DEF ChatInv
  <2>5. Fine(r)'  BY <1>0, <1>2, <2>1, <2>3 DEF Fine, Unborn, Asked
  <2>6. ~ Starting(r)'  BY <2>3 DEF Starting
  <2> QED  BY <1>0, <2>1, <2>2, <2>4, <2>5, <2>6, MovesInv
<1> QED  BY <1>1, <1>3, <1>4, <1>5

(* The row is created by the only request that is under way. *)
LEMMA CreateSessionInv ==
    ASSUME ChatInv, NEW r \in ChatRequests, CreateSession(r)
    PROVE  ChatInv'
<1>1. /\ creq[r].at = "create" /\ creq' = [creq EXCEPT ![r].at = "history"]
      /\ chat' = [chat EXCEPT !.exists = TRUE, !.spaces = creq[r].spaces]
      /\ UNCHANGED <<said, cited, shown, scopeUpdate>>
  BY DEF CreateSession, ReqIs, ReqTo
<1>2. /\ creq'[r].at = "history" /\ creq'[r].spaces = creq[r].spaces
      /\ creq'[r].checked = creq[r].checked
      /\ \A q \in ChatRequests : q # r => creq'[q] = creq[q]
      /\ creq' \in [ChatRequests -> Request]
  BY <1>1, ReqMoves DEF ChatInv, ReqStates
<1>3. /\ chat'.exists = TRUE /\ chat'.deleted = chat.deleted
      /\ chat' \in [exists : BOOLEAN, deleted : BOOLEAN, spaces : SUBSET ChatSpaces,
                    title : {"none", "asked", "set"}]
  <2>1. creq[r].spaces \in SUBSET ChatSpaces  BY DEF ChatInv, ChatTypeOK, Request
  <2> QED  BY <1>1, <2>1 DEF ChatInv, ChatTypeOK
<1>4. Fine(r)  BY DEF ChatInv
<1>5. Unborn  BY <1>1, <1>4 DEF Fine
<1>6. ~ Unborn' /\ ~ chat'.deleted  BY <1>3, <1>5 DEF Unborn
<1>7. ChatTypeOK'  BY <1>1, <1>2, <1>3 DEF ChatInv, ChatTypeOK
<1>8. Fine(r)'  BY <1>1, <1>2, <1>4, <1>5, <1>6 DEF Fine, Asked
<1>9. ASSUME NEW q \in ChatRequests, q # r  PROVE Fine(q)'
  <2>1. Fine(q)  BY DEF ChatInv
  <2>2. creq[q].at \in {"new", "ended"} /\ shown[q] # "complete"
    <3>1. creq[q].at \in {"new", "arrived", "create", "ended"} /\ shown[q] # "complete"
      BY <1>5, <2>1 DEF Fine
    <3>2. ~ Starting(q)  BY <1>1, <1>5, <1>9 DEF ChatInv, Starting
    <3> QED  BY <3>1, <3>2 DEF Starting
  <2> QED  BY <1>1, <1>2, <1>6, <1>9, <2>2 DEF Fine, Asked
<1> QED  BY <1>6, <1>7, <1>8, <1>9 DEF ChatInv

(* The messages and the citations are stored while the session exists. *)
LEMMA PersistInv ==
    ASSUME ChatInv, NEW r \in ChatRequests,
           PersistUserMessage(r) \/ PersistAnswer(r) \/ PersistCitations(r)
    PROVE  ChatInv'
<1>0. Fine(r) /\ creq[r] \in Request /\ ChatTypeOK /\ UNCHANGED <<chat, scopeUpdate>>
  BY DEF ChatInv, ChatTypeOK, PersistUserMessage, PersistAnswer, PersistCitations
<1>1. CASE Fails(r) /\ UNCHANGED <<said, cited>>  BY <1>0, <1>1, FailsInv
<1>2. ASSUME PersistUserMessage(r), ~ (Fails(r) /\ UNCHANGED <<said, cited>>)  PROVE ChatInv'
  <2>1. /\ creq[r].at = "history" /\ chat.exists /\ said' = Append(said, <<"user", r>>)
        /\ creq' = [creq EXCEPT ![r].at = "route"] /\ UNCHANGED <<shown, cited>>
    BY <1>2 DEF PersistUserMessage, ReqIs
  <2>2. /\ creq'[r].at = "route" /\ creq'[r].spaces = creq[r].spaces
        /\ creq'[r].checked = creq[r].checked
        /\ \A q \in ChatRequests : q # r => creq'[q] = creq[q]
        /\ creq' \in [ChatRequests -> Request]
    BY <1>0, <2>1, ReqMoves DEF ReqStates
  <2>3. /\ said' \in Seq(Roles \X ChatRequests) /\ Stored("user", r)'
        /\ \A x \in Roles, q \in ChatRequests : Stored(x, q) => Stored(x, q)'
    BY <1>0, <2>1, Says DEF Roles
  <2>4. ChatTypeOK'  BY <1>0, <2>1, <2>2, <2>3 DEF ChatTypeOK
  <2>5. Fine(r)'  BY <1>0, <2>1, <2>2, <2>3 DEF Fine, Unborn, Asked
  <2>6. ~ Starting(r)'  BY <2>2 DEF Starting
  <2> QED  BY <1>0, <2>1, <2>2, <2>3, <2>4, <2>5, <2>6, OneRequest
<1>3. ASSUME PersistAnswer(r), ~ (Fails(r) /\ UNCHANGED <<said, cited>>)  PROVE ChatInv'
  <2>1. PICK s \in {"citing", "stored"} :
            /\ creq' = [creq EXCEPT ![r].at = s]
            /\ s = "stored" => creq[r].path # "content"
    BY <1>3 DEF PersistAnswer, ReqTo
  <2>2. /\ creq[r].at \in {"content", "nohit", "completed"} /\ chat.exists
        /\ said' = Append(said, <<"assistant", r>>) /\ UNCHANGED <<shown, cited>>
    BY <1>3 DEF PersistAnswer
  <2>3. /\ creq'[r].at = s /\ creq'[r].spaces = creq[r].spaces
        /\ creq'[r].checked = creq[r].checked /\ creq'[r].path = creq[r].path
        /\ \A q \in ChatRequests : q # r => creq'[q] = creq[q]
        /\ creq' \in [ChatRequests -> Request]
    BY <1>0, <2>1, ReqMoves DEF ReqStates
  <2>4. /\ said' \in Seq(Roles \X ChatRequests) /\ Stored("assistant", r)'
        /\ \A x \in Roles, q \in ChatRequests : Stored(x, q) => Stored(x, q)'
    BY <1>0, <2>2, Says DEF Roles
  <2>5. Stored("user", r)'
    <3>1. Stored("user", r)  BY <1>0, <2>2 DEF Fine, Asked
    <3> QED  BY <2>4, <3>1 DEF Roles
  <2>6. ChatTypeOK'  BY <1>0, <2>2, <2>3, <2>4 DEF ChatTypeOK
  <2>7. Fine(r)'  BY <1>0, <2>1, <2>2, <2>3, <2>4, <2>5 DEF Fine, Unborn, Asked
  <2>8. ~ Starting(r)'  BY <2>1, <2>3 DEF Starting
  <2> QED  BY <1>0, <2>2, <2>3, <2>4, <2>6, <2>7, <2>8, OneRequest
<1>4. ASSUME PersistCitations(r), ~ (Fails(r) /\ UNCHANGED <<said, cited>>)  PROVE ChatInv'
  <2>1. /\ creq[r].at = "citing" /\ chat.exists /\ cited' = cited \union {r}
        /\ creq' = [creq EXCEPT ![r].at = "stored"] /\ UNCHANGED <<shown, said>>
    BY <1>4 DEF PersistCitations, ReqIs, ReqTo
  <2>2. /\ creq'[r].at = "stored" /\ creq'[r].spaces = creq[r].spaces
        /\ creq'[r].checked = creq[r].checked /\ creq'[r].path = creq[r].path
        /\ \A q \in ChatRequests : q # r => creq'[q] = creq[q]
        /\ creq' \in [ChatRequests -> Request]
    BY <1>0, <2>1, ReqMoves DEF ReqStates
  <2>3. \A x \in Roles, q \in ChatRequests : Stored(x, q)' <=> Stored(x, q)  BY <2>1 DEF Stored
  <2>4. ChatTypeOK'  BY <1>0, <2>1, <2>2 DEF ChatTypeOK
  <2>5. Fine(r)'
    BY <1>0, <2>1, <2>2, <2>3 DEF Fine, Unborn, Asked, Roles
  <2>6. ~ Starting(r)'  BY <2>2 DEF Starting
  <2> QED  BY <1>0, <2>1, <2>2, <2>3, <2>4, <2>5, <2>6, OneRequest
<1>5. (Fails(r) /\ UNCHANGED <<said, cited>>)
        \/ (PersistUserMessage(r) /\ ~ (Fails(r) /\ UNCHANGED <<said, cited>>))
        \/ (PersistAnswer(r) /\ ~ (Fails(r) /\ UNCHANGED <<said, cited>>))
        \/ (PersistCitations(r) /\ ~ (Fails(r) /\ UNCHANGED <<said, cited>>))
  OBVIOUS
<1> QED  BY <1>1, <1>2, <1>3, <1>4, <1>5

(* The route, the retrieval and the agent's answer. *)
LEMMA RoutesInv ==
    ASSUME ChatInv, NEW r \in ChatRequests,
           DecideRoute(r) \/ Retrieve(r) \/ AgentCompletes(r)
    PROVE  ChatInv'
<1>0. Fine(r) /\ creq[r] \in Request /\ ChatTypeOK /\ UNCHANGED <<chat, said, cited, shown, scopeUpdate>>
  BY DEF ChatInv, ChatTypeOK, DecideRoute, Retrieve, AgentCompletes
<1>1. PICK s \in {"static", "content", "nohit", "agent"}, p \in {"agent", "static", "content", "nohit"} :
          \/ /\ creq[r].at \in {"route", "static"}
             /\ creq' = [creq EXCEPT ![r].at = s, ![r].path = p] /\ (s = "agent" => p = "agent")
          \/ /\ creq[r].at = "agent" /\ creq' = [creq EXCEPT ![r].at = "completed"]
  <2>1. CASE DecideRoute(r)
    <3>1. PICK p \in {"agent", "static"} : creq' = [creq EXCEPT ![r].at = p, ![r].path = p]
      BY <2>1 DEF DecideRoute
    <3>2. creq[r].at \in {"route", "static"}  BY <2>1 DEF DecideRoute, ReqIs
    <3> QED  BY <3>1, <3>2
  <2>2. CASE Retrieve(r)
    <3>1. PICK s \in {"content", "nohit", "agent"} : creq' = [creq EXCEPT ![r].at = s, ![r].path = s]
      BY <2>2 DEF Retrieve
    <3>2. creq[r].at \in {"route", "static"}  BY <2>2 DEF Retrieve, ReqIs
    <3> QED  BY <3>1, <3>2
  <2>3. CASE AgentCompletes(r)  BY <2>3 DEF AgentCompletes, ReqIs, ReqTo
  <2> QED  BY <2>1, <2>2, <2>3
<1>2. CASE creq[r].at = "agent" /\ creq' = [creq EXCEPT ![r].at = "completed"]
  <2>1. /\ creq'[r].at = "completed" /\ creq'[r].spaces = creq[r].spaces
        /\ creq'[r].checked = creq[r].checked
        /\ \A q \in ChatRequests : q # r => creq'[q] = creq[q]
        /\ creq' \in [ChatRequests -> Request]
    BY <1>0, <1>2, ReqMoves DEF ReqStates
  <2>2. Fine(r)'
    <3>1. \A x \in Roles : Stored(x, r)' <=> Stored(x, r)  BY <1>0 DEF Stored
    <3> QED  BY <1>0, <1>2, <2>1, <3>1 DEF Fine, Unborn, Asked, Roles
  <2>3. ~ Starting(r)'  BY <2>1 DEF Starting
  <2> QED  BY <1>0, <2>1, <2>2, <2>3, MovesInv
<1>3. CASE /\ creq[r].at \in {"route", "static"}
           /\ creq' = [creq EXCEPT ![r].at = s, ![r].path = p] /\ (s = "agent" => p = "agent")
  <2>1. /\ creq'[r] = [creq[r] EXCEPT !.at = s, !.path = p]
        /\ \A q \in ChatRequests : q # r => creq'[q] = creq[q]
    BY <1>0, <1>3 DEF ChatTypeOK
  <2>2. /\ creq'[r].at = s /\ creq'[r].path = p /\ creq'[r].spaces = creq[r].spaces
        /\ creq'[r].checked = creq[r].checked
    BY <1>0, <2>1 DEF Request
  <2>3. creq' \in [ChatRequests -> Request]
    <3>1. creq'[r] \in Request  BY <1>0, <2>1 DEF Request, ReqStates
    <3>2. creq' = [q \in ChatRequests |-> creq'[q]]  BY <1>0, <1>3 DEF ChatTypeOK
    <3> QED  BY <1>0, <2>1, <3>1, <3>2, OneIsChanged
  <2>4. Fine(r)'
    <3>1. \A x \in Roles : Stored(x, r)' <=> Stored(x, r)  BY <1>0 DEF Stored
    <3> QED  BY <1>0, <1>3, <2>2, <3>1 DEF Fine, Unborn, Asked, Roles
  <2>5. ~ Starting(r)'  BY <2>2 DEF Starting
  <2> QED  BY <1>0, <2>1, <2>3, <2>4, <2>5, MovesInv
<1> QED  BY <1>1, <1>2, <1>3

(* The end of a stream: the answer is shown as complete. *)
LEMMA CompletesInv ==
    ASSUME ChatInv, NEW r \in ChatRequests, MessageCompleted(r) \/ AgentEndsSilently(r)
    PROVE  ChatInv'
<1>1. /\ creq[r].at \in {"stored", "agent"} /\ creq' = [creq EXCEPT ![r].at = "ended"]
      /\ shown' = [shown EXCEPT ![r] = IF @ = "streaming" THEN "complete" ELSE @]
      /\ UNCHANGED <<chat, said, cited, scopeUpdate>>
  BY DEF MessageCompleted, AgentEndsSilently, ReqIs, ReqTo
<1>2. /\ creq'[r].at = "ended" /\ creq'[r].path = creq[r].path
      /\ \A q \in ChatRequests : q # r => creq'[q] = creq[q]
      /\ creq' \in [ChatRequests -> Request]
  BY <1>1, ReqMoves DEF ChatInv, ReqStates
<1>3. /\ shown'[r] \in Shows
      /\ \A q \in ChatRequests : q # r => shown'[q] = shown[q]
      /\ shown' \in [ChatRequests -> Shows]
  BY <1>1 DEF ChatInv, ChatTypeOK, Shows
<1>4. ChatTypeOK'  BY <1>1, <1>2, <1>3 DEF ChatInv, ChatTypeOK
<1>5. \A x \in Roles, q \in ChatRequests : Stored(x, q)' <=> Stored(x, q)  BY <1>1 DEF Stored
<1>6. Fine(r)'
  <2>1. Fine(r)  BY DEF ChatInv
  <2>2. ~ Unborn  BY <1>1, <2>1 DEF Fine
  <2>3. creq[r].path = "content" => creq[r].at = "stored"  BY <1>1, <2>1 DEF Fine
  <2>4. chat.exists => Stored("user", r)  BY <1>1, <2>1 DEF Fine, Asked
  <2> QED  BY <1>1, <1>2, <1>5, <2>1, <2>2, <2>3, <2>4 DEF Fine, Unborn, Asked, Roles
<1>7. ~ Starting(r)'  BY <1>2 DEF Starting
<1> QED  BY <1>1, <1>2, <1>3, <1>4, <1>5, <1>6, <1>7, OneRequest

(* The steps that leave the requests, the messages and the row alone. *)
LEMMA ChatQuiet ==
    ASSUME ChatInv, UNCHANGED <<said, cited, creq, shown>>, ChatTypeOK',
           chat'.exists = chat.exists, chat'.deleted = chat.deleted
    PROVE  ChatInv'
<1>1. \A x \in Roles, q \in ChatRequests : Stored(x, q)' <=> Stored(x, q)  BY DEF Stored
<1>2. ASSUME NEW q \in ChatRequests  PROVE Fine(q)'
  <2>1. Fine(q)  BY DEF ChatInv
  <2> QED  BY <1>1, <2>1 DEF Fine, Unborn, Roles
<1> QED  BY <1>2 DEF ChatInv, Unborn, Starting

LEMMA RequestInv ==
    ASSUME ChatInv, NEW r \in ChatRequests, RequestStep(r)
    PROVE  ChatInv'
<1>1. CASE \E k \in Tabs : SendMessage(k, r)  BY <1>1, SendMessageInv
<1>2. CASE (\E k \in Tabs : LeaveConversation(k, r)) \/ ServerLeaves(r)  BY <1>2, LeavesInv
<1>3. CASE \/ \E S \in SUBSET ChatSpaces : Preauthorize(r, S)
           \/ ResolveSession(r) \/ AssertChatUseOnSpaces(r)
  BY <1>3, ScopeInv
<1>4. CASE CreateSession(r)  BY <1>4, CreateSessionInv
<1>5. CASE PersistUserMessage(r) \/ PersistAnswer(r) \/ PersistCitations(r)  BY <1>5, PersistInv
<1>6. CASE DecideRoute(r) \/ Retrieve(r) \/ AgentCompletes(r)  BY <1>6, RoutesInv
<1>7. CASE MessageCompleted(r) \/ AgentEndsSilently(r)  BY <1>7, CompletesInv
<1>8. CASE ProviderFails(r) \/ DatabaseFails(r) \/ AgentFails(r)
  BY <1>8, FailsInv DEF ProviderFails, DatabaseFails, AgentFails
<1>9. CASE StartAgentTurn(r)
  <2>1. CASE Fails(r)  BY <1>9, <2>1, FailsInv DEF StartAgentTurn
  <2>2. CASE UNCHANGED <<creq, shown>>
    <3>1. UNCHANGED <<chat, said, cited, scopeUpdate>>  BY <1>9 DEF StartAgentTurn
    <3>2. ChatTypeOK'  BY <2>2, <3>1 DEF ChatInv, ChatTypeOK
    <3> QED  BY <2>2, <3>1, <3>2, ChatQuiet
  <2> QED  BY <1>9, <2>1, <2>2 DEF StartAgentTurn
<1> QED
  BY <1>1, <1>2, <1>3, <1>4, <1>5, <1>6, <1>7, <1>8, <1>9 DEF RequestStep

LEMMA ChatStep == ChatInv /\ [ChatNext]_chatVars => ChatInv'
<1> SUFFICES ASSUME ChatInv, [ChatNext]_chatVars PROVE ChatInv'  OBVIOUS
<1>0. chat \in [exists : BOOLEAN, deleted : BOOLEAN, spaces : SUBSET ChatSpaces,
                title : {"none", "asked", "set"}]
  BY DEF ChatInv, ChatTypeOK
<1>1. ASSUME NEW r \in ChatRequests, RequestStep(r)  PROVE ChatInv'  BY <1>1, RequestInv
<1>2. CASE MaybeGenerateTitle \/ GenerateSessionTitle
  <2>1. /\ \E t \in {"none", "asked", "set"} : chat' = [chat EXCEPT !.title = t]
        /\ UNCHANGED <<said, cited, creq, shown, scopeUpdate>>
    BY <1>0, <1>2 DEF MaybeGenerateTitle, GenerateSessionTitle
  <2>2. chat'.exists = chat.exists /\ chat'.deleted = chat.deleted  BY <1>0, <2>1
  <2>3. ChatTypeOK'  BY <1>0, <2>1 DEF ChatInv, ChatTypeOK
  <2> QED  BY <2>1, <2>2, <2>3, ChatQuiet
<1>3. CASE UpdateSessionSpaces
  <2>1. /\ \E S \in SUBSET ChatSpaces : chat' = [chat EXCEPT !.spaces = S]
        /\ scopeUpdate' = {} /\ UNCHANGED <<said, cited, creq, shown>>
    BY <1>0, <1>3 DEF UpdateSessionSpaces, ChatInv, ChatTypeOK
  <2>2. chat'.exists = chat.exists /\ chat'.deleted = chat.deleted  BY <1>0, <2>1
  <2>3. ChatTypeOK'  BY <1>0, <2>1 DEF ChatInv, ChatTypeOK
  <2> QED  BY <2>1, <2>2, <2>3, ChatQuiet
<1>4. CASE DeleteSession
  <2>1. /\ chat.exists /\ chat' = [chat EXCEPT !.exists = FALSE, !.deleted = TRUE]
        /\ said' = <<>> /\ cited' = {} /\ UNCHANGED <<creq, shown, scopeUpdate>>
    BY <1>4 DEF DeleteSession
  <2>2. /\ chat'.exists = FALSE /\ chat'.deleted = TRUE
        /\ chat' \in [exists : BOOLEAN, deleted : BOOLEAN, spaces : SUBSET ChatSpaces,
                      title : {"none", "asked", "set"}]
    BY <1>0, <2>1
  <2>3. <<>> \in Seq(Roles \X ChatRequests)  BY EmptySeq
  <2>4. ChatTypeOK'  BY <2>1, <2>2, <2>3 DEF ChatInv, ChatTypeOK
  <2>5. ~ Unborn /\ ~ Unborn'  BY <2>1, <2>2 DEF Unborn
  <2>6. ASSUME NEW q \in ChatRequests  PROVE Fine(q)'
    <3>1. Fine(q)  BY DEF ChatInv
    <3> QED  BY <2>1, <2>2, <2>5, <3>1 DEF Fine
  <2> QED  BY <2>2, <2>4, <2>5, <2>6 DEF ChatInv
<1>5. CASE \/ CloseAgent \/ UNCHANGED chatVars
           \/ \E S \in SUBSET ChatSpaces : CheckScope(S) \/ PermissionsChange(S)
  <2>1. /\ UNCHANGED <<chat, said, cited, creq, shown>>
        /\ scopeUpdate' \in SUBSET ChatSpaces
    BY <1>5 DEF CloseAgent, CheckScope, PermissionsChange, chatVars, ChatInv, ChatTypeOK
  <2>2. ChatTypeOK'  BY <2>1 DEF ChatInv, ChatTypeOK
  <2> QED  BY <2>1, <2>2, ChatQuiet
<1> QED  BY <1>1, <1>2, <1>3, <1>4, <1>5 DEF ChatNext

LEMMA ChatInitInv == ChatInit => ChatInv
<1> SUFFICES ASSUME ChatInit PROVE ChatInv  OBVIOUS
<1>1. ChatTypeOK  BY ChatTypeInit
<1>2. \A r \in ChatRequests : creq[r].at = "new" /\ shown[r] = "nothing"
  BY DEF ChatInit, NewRequest
<1>3. ~ chat.exists /\ ~ chat.deleted  BY DEF ChatInit
<1>4. \A r \in ChatRequests : Fine(r)  BY <1>2, <1>3 DEF Fine, Unborn, Asked
<1> QED  BY <1>1, <1>2, <1>3, <1>4 DEF ChatInv, Starting

-----------------------------------------------------------------------------
(* The theorems *)

(* The states of the requests fit the row of the session and what is stored *)
(* of them.  It is the inductive invariant of the conversation.             *)
THEOREM ChatInvariant == ChatSpec => []ChatInv
<1> QED  BY ChatInitInv, ChatStep, PTL DEF ChatSpec

(* What is retrieved for a request comes from spaces on which the user had  *)
(* chat:use when that very request was checked (chat-session-boundary and   *)
(* chat.service.ts), for any number of requests, scope updates and          *)
(* revocations.                                                             *)
THEOREM ScopeIsAuthorized == ChatSpec => []ScopeWasAuthorized
<1>1. ChatInv => ScopeWasAuthorized
  BY DEF ChatInv, Fine, ScopeWasAuthorized
<1> QED  BY <1>1, ChatInvariant, PTL

(* An answer from the wiki that a tab shows as complete is stored with its  *)
(* question and its citations, as long as the session exists.               *)
THEOREM CompleteAnswersAreCited == ChatSpec => []CompleteIsCited
<1>1. ChatInv => CompleteIsCited
  BY DEF ChatInv, Fine, CompleteIsCited
<1> QED  BY <1>1, ChatInvariant, PTL

-----------------------------------------------------------------------------
(* The agent processes: the invariant. *)

Life    == {"none", "live", "exited", "killed"}
Resting == {"new", "busy"}
Serving == {"write", "events", "cancel", "killing", "catch", "unwritten"}
TurnStates ==
    Resting \cup Serving \cup
    {"session", "refresh", "restarting", "config", "spawn", "queued", "granted", "files",
     "attached", "unattached", "grace", "failing", "cleanup", "thrown", "turn", "unavailable"}

SessionRec == [here : BOOLEAN, status : Status, child : Processes \cup {NoOne},
               provider : BOOLEAN, ending : {"no", "idle", "closed"}]
ChildRec == [conv : Conversations \cup {NoOne}, life : Life, signalled : BOOLEAN, reading : BOOLEAN,
             turn : Turns \cup {NoOne}, exit : {"untracked", "tracked", "stopping", "done"}]
TurnRec == [at : TurnStates, conv : Conversations \cup {NoOne}, child : Processes \cup {NoOne},
            status : Status, provider : BOOLEAN, locked : {"no", "yes", "recovering"}, resuming : BOOLEAN,
            got : {"nothing", "event", "terminal"}, done : BOOLEAN]

AgentTyped ==
    /\ session \in [Conversations -> SessionRec]
    /\ parser \in [Conversations -> Processes \cup {NoOne}]
    /\ turnMutex \in [Conversations -> Turns \cup {NoOne}]
    /\ child \in [Processes -> ChildRec]
    /\ turn \in [Turns -> TurnRec]

\* The queue and the slots.
SlotsInv ==
    /\ holders \subseteq Conversations /\ activeAgents \in 0 .. MaxConcurrentAgents
    /\ waiting \in Seq(Turns)
    /\ WaitingTurnsAreQueued

\* A turn beyond the check of the lock holds it.
LocksInv ==
    /\ \A t \in Turns : turn[t].at \notin Resting =>
          turn[t].conv \in Conversations /\ turnMutex[turn[t].conv] = t
    /\ \A t \in Turns : turn[t].at = "busy" => turn[t].conv \in Conversations
    /\ \A t \in Turns : turn[t].at \in Resting => turn[t].child = NoOne /\ turn[t].got = "nothing"

\* A process belongs to a conversation from its start until it is replaced.
ProcessesInv ==
    \A p \in Processes : (child[p].life = "none" <=> child[p].conv = NoOne)
                         /\ (child[p].life = "none" => child[p].turn = NoOne /\ child[p].exit = "untracked")

Known(c, p) == p # NoOne => child[p].conv = c /\ child[p].life # "none"

Spawning(c) == turnMutex[c] # NoOne /\ turn[turnMutex[c]].at \in {"attached", "failing", "unattached"}

\* What a conversation's session, its turn and its parser know is one process,
\* but for the time in which another is started.
OneProcess(c) ==
    LET h == turnMutex[c] IN
    /\ Known(c, parser[c]) /\ Known(c, session[c].child)
    /\ ~session[c].here => session[c].child = NoOne /\ session[c].status = "stopped"
    /\ parser[c] # NoOne /\ session[c].child # NoOne /\ ~Spawning(c) => parser[c] = session[c].child
    /\ h # NoOne =>
          /\ turn[h].conv = c /\ turn[h].at \notin Resting /\ Known(c, turn[h].child)
          /\ parser[c] # NoOne /\ turn[h].child # NoOne /\ ~Spawning(c) => parser[c] = turn[h].child
          /\ turn[h].at \in {"attached", "grace"} => turn[h].child # NoOne
          /\ turn[h].at = "attached" => session[c].child \in {NoOne, turn[h].child}
    /\ parser[c] # NoOne /\ child[parser[c]].reading /\ Gone(parser[c]) =>
          h # NoOne /\ turn[h].at \in {"grace", "failing"}

\* A process serves the turn that holds the lock, is read, and lives; its session
\* is not idle.
ServesHolder(c) ==
    LET h == turnMutex[c] IN
    /\ \A p \in Processes : child[p].conv = c /\ child[p].turn # NoOne =>
          /\ h = child[p].turn /\ turn[h].at \in Serving /\ ~turn[h].done
          /\ parser[c] = p /\ turn[h].child = p /\ child[p].life = "live"
          /\ session[c].status # "idle"
    /\ h # NoOne /\ turn[h].got = "terminal" => turn[h].done

AgentInv ==
    /\ AgentTyped /\ SlotsInv /\ LocksInv /\ ProcessesInv
    /\ \A c \in Conversations : OneProcess(c) /\ ServesHolder(c)

Active(t) == turn[t].at \notin Resting

\* What a step of one conversation leaves alone, and what its own turn may become.
OnlyOf(c) ==
    /\ \A d \in Conversations \ {c} :
          session'[d] = session[d] /\ parser'[d] = parser[d] /\ turnMutex'[d] = turnMutex[d]
    /\ \A p \in Processes :
          child'[p] = child[p] \/ {child[p].conv, child'[p].conv} \subseteq {c, NoOne}
    /\ \A t \in Turns :
          \/ turn'[t] = turn[t]
          \/ turn[t].at = "queued" /\ turn'[t] = [turn[t] EXCEPT !.at = "granted"]
          \/ turnMutex[c] = t \/ turn[t].at \in Resting

OwnLock(c) ==
    \A t \in Turns : turnMutex[c] = t \/ turn[t].at \in Resting =>
        /\ turn'[t].at \notin Resting => turn'[t].conv = c /\ turnMutex'[c] = t
        /\ turn'[t].at = "busy" => turn'[t].conv \in Conversations
        /\ turn'[t].at \in Resting => turn'[t].child = NoOne /\ turn'[t].got = "nothing"

(* A step of one conversation leaves the other conversations as they were.  *)
LEMMA OthersKeep ==
    ASSUME AgentInv, NEW c \in Conversations, AgentTyped', OnlyOf(c), NEW d \in Conversations \ {c}
    PROVE  OneProcess(d)' /\ ServesHolder(d)'
<1> DEFINE h == turnMutex[d]
<1>1. /\ session'[d] = session[d] /\ parser'[d] = parser[d] /\ turnMutex'[d] = h
      /\ h # NoOne => h \in Turns
  BY DEF OnlyOf, AgentInv, AgentTyped
<1>2. OneProcess(d) /\ ServesHolder(d)  BY DEF AgentInv
<1>3. h # NoOne => \/ turn'[h] = turn[h]
                   \/ turn[h].at = "queued" /\ turn'[h] = [turn[h] EXCEPT !.at = "granted"]
  <2> HAVE h # NoOne
  <2>1. h \in Turns /\ turn[h].conv = d /\ turn[h].at \notin Resting  BY <1>1, <1>2 DEF OneProcess
  <2>2. turnMutex[c] # h
    <3> SUFFICES ASSUME turnMutex[c] = h PROVE FALSE  OBVIOUS
    <3>1. turn[h].conv = c  BY AgentLimits, <2>1 DEF AgentInv, OneProcess
    <3> QED  BY <2>1, <3>1
  <2> QED  BY <2>1, <2>2 DEF OnlyOf
<1>4. h # NoOne => /\ turn'[h].conv = turn[h].conv /\ turn'[h].child = turn[h].child
                   /\ turn'[h].got = turn[h].got /\ turn'[h].done = turn[h].done
                   /\ turn'[h].at = turn[h].at \/ (turn[h].at = "queued" /\ turn'[h].at = "granted")
  <2> HAVE h # NoOne
  <2>1. turn[h] \in TurnRec  BY <1>1 DEF AgentInv, AgentTyped
  <2> QED  BY <1>3, <2>1 DEF TurnRec
<1>5. \A p \in Processes : child[p].conv = d \/ child'[p].conv = d => child'[p] = child[p]
  BY AgentLimits DEF OnlyOf
<1>6. parser[d] \in Processes \cup {NoOne} /\ session[d].child \in Processes \cup {NoOne}
      /\ (h # NoOne => turn[h].child \in Processes \cup {NoOne})
  BY <1>1 DEF AgentInv, AgentTyped, SessionRec, TurnRec
<1>7. OneProcess(d)'
  BY <1>1, <1>2, <1>4, <1>5, <1>6 DEF OneProcess, Known, Spawning, Gone, Resting
<1>8. ServesHolder(d)'
  BY <1>1, <1>2, <1>4, <1>5 DEF ServesHolder, Serving
<1> QED  BY <1>7, <1>8

(* What there is to show of a step of one conversation.                     *)
LEMMA StepOf ==
    ASSUME AgentInv, NEW c \in Conversations, AgentTyped', SlotsInv', ProcessesInv', OnlyOf(c),
           OwnLock(c), OneProcess(c)', ServesHolder(c)'
    PROVE  AgentInv'
<1>1. LocksInv'
  <2> SUFFICES ASSUME NEW t \in Turns
               PROVE  /\ turn'[t].at \notin Resting =>
                            turn'[t].conv \in Conversations /\ turnMutex'[turn'[t].conv] = t
                      /\ turn'[t].at = "busy" => turn'[t].conv \in Conversations
                      /\ turn'[t].at \in Resting => turn'[t].child = NoOne /\ turn'[t].got = "nothing"
    BY DEF LocksInv
  <2>1. turn[t] \in TurnRec  BY DEF AgentInv, AgentTyped
  <2>2. CASE turnMutex[c] = t \/ turn[t].at \in Resting  BY <2>2 DEF OwnLock
  <2>3. CASE ~(turnMutex[c] = t \/ turn[t].at \in Resting)
    <3>1. turn[t].conv \in Conversations \ {c} /\ turnMutex[turn[t].conv] = t
      BY <2>3 DEF AgentInv, LocksInv
    <3>2. turn'[t].conv = turn[t].conv /\ turn'[t].at \notin Resting
      BY <2>1, <2>3 DEF OnlyOf, TurnRec, Resting
    <3> QED  BY <3>1, <3>2 DEF OnlyOf, Resting
  <2> QED  BY <2>2, <2>3
<1>2. \A d \in Conversations : OneProcess(d)' /\ ServesHolder(d)'  BY OthersKeep
<1> QED  BY <1>1, <1>2 DEF AgentInv

(* A turn beyond the check of the lock.                                     *)
LEMMA HolderFacts ==
    ASSUME AgentInv, NEW t \in Turns, turn[t].at \notin Resting
    PROVE  /\ Conv(t) \in Conversations /\ turnMutex[Conv(t)] = t /\ t # NoOne
           /\ OneProcess(Conv(t)) /\ ServesHolder(Conv(t))
           /\ turn \in [Turns -> TurnRec] /\ turn[t] \in TurnRec
BY AgentLimits DEF AgentInv, AgentTyped, LocksInv, Conv

LEMMA QueueKeeps ==
    ASSUME AgentInv, UNCHANGED <<holders, activeAgents, waiting>>,
           \A t \in Turns : turn'[t].at = "queued" <=> turn[t].at = "queued"
    PROVE  SlotsInv'
BY DEF AgentInv, SlotsInv, WaitingTurnsAreQueued, TurnAt

(* A step of a turn that holds its lock and whose process, session and      *)
(* parser stay.                                                             *)
LEMMA TurnMoves ==
    ASSUME AgentInv, NEW t \in Turns, turn[t].at \notin Resting, NEW r \in TurnRec,
           turn' = [turn EXCEPT ![t] = r], UNCHANGED <<session, parser, turnMutex, child>>, SlotsInv',
           r.conv = turn[t].conv, r.at \notin Resting, r.got = turn[t].got, r.done = turn[t].done,
           turn[t].at \in Serving => r.at \in Serving /\ r.child = turn[t].child,
           OneProcess(turn[t].conv)'
    PROVE  AgentInv'
<1> DEFINE c == turn[t].conv
<1>1. c \in Conversations /\ turnMutex[c] = t /\ t # NoOne /\ ServesHolder(c)  BY HolderFacts DEF Conv
<1>2. turn \in [Turns -> TurnRec] /\ turn'[t] = r /\ \A q \in Turns \ {t} : turn'[q] = turn[q]
  BY DEF AgentInv, AgentTyped
<1>3. AgentTyped' /\ ProcessesInv'  BY DEF AgentInv, AgentTyped, ProcessesInv
<1>4. OnlyOf(c)  BY <1>1, <1>2 DEF OnlyOf
<1>5. OwnLock(c)
  <2> SUFFICES ASSUME NEW q \in Turns, turnMutex[c] = q \/ turn[q].at \in Resting
               PROVE  /\ turn'[q].at \notin Resting => turn'[q].conv = c /\ turnMutex'[c] = q
                      /\ turn'[q].at = "busy" => turn'[q].conv \in Conversations
                      /\ turn'[q].at \in Resting => turn'[q].child = NoOne /\ turn'[q].got = "nothing"
    BY DEF OwnLock
  <2>1. CASE q = t  BY <1>1, <1>2, <2>1
  <2>2. CASE q # t  BY <1>1, <1>2, <2>2 DEF AgentInv, LocksInv
  <2> QED  BY <2>1, <2>2
<1>6. ServesHolder(c)'  BY <1>1, <1>2 DEF ServesHolder
<1> QED  BY <1>1, <1>3, <1>4, <1>5, <1>6, StepOf

(* The turn keeps its process: it does not start or forget one.             *)
LEMMA TurnGoesOn ==
    ASSUME AgentInv, NEW t \in Turns, turn[t].at \notin Resting, NEW r \in TurnRec,
           turn' = [turn EXCEPT ![t] = r], UNCHANGED <<session, parser, turnMutex, child>>, SlotsInv',
           r.conv = turn[t].conv, r.child = turn[t].child, r.got = turn[t].got, r.done = turn[t].done,
           r.at \notin Resting \cup {"attached", "grace"},
           turn[t].at \in Serving => r.at \in Serving,
           turn[t].at = "attached" => r.at = "unattached",
           turn[t].at \in {"failing", "unattached"} => r.at = turn[t].at,
           turn[t].at = "grace" => r.at = "failing" \/ ~Gone(turn[t].child)
    PROVE  AgentInv'
<1> SUFFICES ASSUME NEW c, c = turn[t].conv PROVE AgentInv'  OBVIOUS
<1>1. /\ c \in Conversations /\ turnMutex[c] = t /\ t # NoOne /\ OneProcess(c)
      /\ turn \in [Turns -> TurnRec]
  BY HolderFacts DEF Conv
<1>2. turn'[t] = r /\ Spawning(c) => r.at \in {"failing", "unattached"}  BY <1>1 DEF Spawning
<1>3. turn'[t] = r  BY <1>1
<1>4. OneProcess(c)'
  <2>1. Known(c, parser[c])' /\ Known(c, session[c].child)' /\ Known(c, r.child)
    BY <1>1 DEF OneProcess, Known
  <2>2. ~Spawning(c)' => ~Spawning(c)  BY <1>1, <1>2, <1>3 DEF Spawning
  <2>3. parser[c] # NoOne /\ child[parser[c]].reading /\ Gone(parser[c]) => r.at = "failing"
    BY <1>1 DEF OneProcess, Spawning
  <2>4. (parser[c] # NoOne /\ child[parser[c]].reading /\ Gone(parser[c]))' => r.at = "failing"
    BY <2>3 DEF Gone
  <2>5. /\ turnMutex'[c] = t /\ session'[c] = session[c] /\ parser'[c] = parser[c]
    BY <1>1
  <2>6. /\ ~session[c].here => session[c].child = NoOne /\ session[c].status = "stopped"
        /\ parser[c] # NoOne /\ session[c].child # NoOne /\ ~Spawning(c) => parser[c] = session[c].child
        /\ parser[c] # NoOne /\ turn[t].child # NoOne /\ ~Spawning(c) => parser[c] = turn[t].child
    BY <1>1 DEF OneProcess
  <2> QED
    BY <1>1, <1>3, <2>1, <2>2, <2>4, <2>5, <2>6 DEF OneProcess, Known
<1> QED  BY <1>3, <1>4, TurnMoves DEF Resting

LEMMA TurnGoesTo ==
    ASSUME AgentInv, NEW t \in Turns, turn[t].at \notin Resting \cup {"queued"},
           NEW a \in TurnStates, TurnGoes(t, a), UNCHANGED <<session, parser, turnMutex, child>>,
           UNCHANGED <<activeAgents, waiting>>, holders' \subseteq Conversations,
           a \notin Resting \cup {"queued", "attached", "grace"},
           turn[t].at \in Serving => a \in Serving,
           turn[t].at = "attached" => a = "unattached",
           turn[t].at \in {"failing", "unattached"} => a = turn[t].at,
           turn[t].at = "grace" => a = "failing" \/ ~Gone(turn[t].child)
    PROVE  AgentInv'
<1> DEFINE r == [turn[t] EXCEPT !.at = a]
<1>1. turn \in [Turns -> TurnRec] /\ turn[t] \in TurnRec  BY HolderFacts
<1>2. /\ r \in TurnRec /\ r.at = a /\ r.conv = turn[t].conv /\ r.child = turn[t].child
      /\ r.got = turn[t].got /\ r.done = turn[t].done
  BY <1>1 DEF TurnRec
<1>3. turn' = [turn EXCEPT ![t] = r]  BY DEF TurnGoes
<1> HIDE DEF r
<1>4. \A q \in Turns : turn'[q].at = "queued" <=> turn[q].at = "queued"  BY <1>1, <1>2, <1>3
<1>5. SlotsInv'  BY <1>4 DEF AgentInv, SlotsInv, WaitingTurnsAreQueued, TurnAt
<1> QED  BY <1>2, <1>3, <1>5, TurnGoesOn

(* The steps that only move a turn on.                                      *)
LEMMA ConfigSteps ==
    ASSUME AgentInv, NEW t \in Turns,
           \/ RefreshConfig(t) \/ UpdateRuntimeConfig(t) \/ AlreadyRunning(t) \/ HoldSlot(t)
           \/ CheckEarlyProcessExit(t) \/ LaunchFails(t) \/ RespawnForTurn(t) \/ TurnUnavailable(t)
           \/ WriteTurn(t) \/ AcquireSlot(t)
    PROVE  AgentInv'
<1> DEFINE c == turn[t].conv
<1> SUFFICES ASSUME turn[t].at \notin Resting PROVE AgentInv'
  BY DEF RefreshConfig, UpdateRuntimeConfig, AlreadyRunning, HoldSlot, CheckEarlyProcessExit, LaunchFails,
         RespawnForTurn, TurnUnavailable, WriteTurn, AcquireSlot, TurnAt, Resting
<1>0. /\ c \in Conversations /\ turnMutex[c] = t /\ t # NoOne /\ OneProcess(c)
      /\ turn \in [Turns -> TurnRec] /\ turn[t] \in TurnRec
  BY HolderFacts DEF Conv
<1>1. CASE \/ RefreshConfig(t) \/ AlreadyRunning(t) \/ CheckEarlyProcessExit(t) \/ LaunchFails(t)
           \/ TurnUnavailable(t) \/ WriteTurn(t)
  <2>1. UNCHANGED <<session, parser, turnMutex, child, holders, activeAgents, waiting>>
    BY <1>1 DEF RefreshConfig, AlreadyRunning, CheckEarlyProcessExit, LaunchFails, TurnUnavailable, WriteTurn
  <2>2. PICK a \in {"config", "turn", "failing", "unattached", "unavailable", "unwritten", "catch", "events"} :
           /\ TurnGoes(t, a)
           /\ turn[t].at \in {"refresh", "spawn", "grace", "files", "attached", "turn", "write"}
           /\ turn[t].at = "write" => a \in {"events", "unwritten", "catch"}
           /\ turn[t].at = "attached" => a = "unattached"
           /\ turn[t].at = "grace" => a = "failing" \/ ~Gone(turn[t].child)
    BY <1>1 DEF RefreshConfig, AlreadyRunning, CheckEarlyProcessExit, LaunchFails, TurnUnavailable, WriteTurn,
                TurnAt
  <2>3. a \in TurnStates \ (Resting \cup {"queued", "attached", "grace"})
    BY DEF TurnStates, Serving, Resting
  <2>4. turn[t].at # "queued" /\ (turn[t].at \in Serving => a \in Serving)
    BY <2>2 DEF Serving
  <2> QED  BY <2>1, <2>2, <2>3, <2>4, TurnGoesTo DEF AgentInv, SlotsInv
<1>2. CASE HoldSlot(t)
  <2>1. /\ turn[t].at = "granted" /\ TurnGoes(t, "files") /\ holders' \subseteq Conversations
        /\ UNCHANGED <<session, parser, activeAgents, waiting, turnMutex, child>>
    BY <1>0, <1>2 DEF HoldSlot, TurnAt, Conv, AgentInv, SlotsInv
  <2>2. "files" \in TurnStates \ (Resting \cup {"queued", "attached", "grace"})
    BY DEF TurnStates, Serving, Resting
  <2> QED  BY <2>1, <2>2, TurnGoesTo DEF Serving
<1>3. CASE RespawnForTurn(t)
  <2> DEFINE r == [turn[t] EXCEPT !.at = "spawn", !.locked = "yes", !.resuming = turn[t].provider]
  <2>1. /\ turn[t].at = "turn" /\ turn' = [turn EXCEPT ![t] = r]
        /\ UNCHANGED <<session, parser, holders, activeAgents, waiting, turnMutex, child>>
    BY <1>3 DEF RespawnForTurn, TurnAt
  <2>2. /\ r \in TurnRec /\ r.at = "spawn" /\ r.conv = c /\ r.child = turn[t].child
        /\ r.got = turn[t].got /\ r.done = turn[t].done
    BY <1>0 DEF TurnRec, TurnStates
  <2> HIDE DEF r
  <2>3. SlotsInv'  BY <1>0, <2>1, <2>2, QueueKeeps
  <2> QED  BY <2>1, <2>2, <2>3, TurnGoesOn DEF Serving, Resting
<1>4. CASE UpdateRuntimeConfig(t) /\ session[c].here
  <2>1. PICK a \in {"spawn", "turn"} :
          turn' = [Cloned(t, session[c]) EXCEPT ![t].at = a, ![t].resuming = Cloned(t, session[c])[t].provider]
    BY <1>4 DEF UpdateRuntimeConfig, Conv
  <2> DEFINE r == [turn[t] EXCEPT !.at = a, !.child = session[c].child, !.status = session[c].status,
                             !.provider = session[c].provider, !.resuming = session[c].provider]
  <2>2. /\ session[c] \in SessionRec /\ turn[t].at = "config"
        /\ UNCHANGED <<session, parser, holders, activeAgents, waiting, turnMutex, child>>
    BY <1>0, <1>4 DEF UpdateRuntimeConfig, TurnAt, AgentInv, AgentTyped
  <2>3. turn' = [turn EXCEPT ![t] = r]  BY <1>0, <2>1, <2>2 DEF Cloned, TurnRec, SessionRec
  <2>4. r \in TurnRec  BY <1>0, <2>2 DEF TurnRec, TurnStates, SessionRec
  <2>5. r.conv = c /\ r.at = a /\ r.got = turn[t].got /\ r.done = turn[t].done /\ r.child = session[c].child
    BY <1>0 DEF TurnRec
  <2> HIDE DEF r
  <2>6. SlotsInv'  BY <1>0, <2>1, <2>2, <2>3, <2>5, QueueKeeps
  <2>7. OneProcess(c)'  BY <1>0, <2>2, <2>3, <2>5 DEF OneProcess, Known, Spawning, Gone, Resting
  <2> QED  BY <1>0, <2>2, <2>3, <2>4, <2>5, <2>6, <2>7, TurnMoves DEF Resting, Serving
<1>5. CASE UpdateRuntimeConfig(t) /\ ~session[c].here
  <2>1. PICK a \in {"spawn", "turn"} :
          turn' = [turn EXCEPT ![t].at = a, ![t].resuming = turn[t].provider]
    BY <1>5 DEF UpdateRuntimeConfig, Conv
  <2> DEFINE r == [turn[t] EXCEPT !.at = a, !.resuming = turn[t].provider]
  <2>2. /\ turn[t].at = "config" /\ turn' = [turn EXCEPT ![t] = r]
        /\ UNCHANGED <<session, parser, holders, activeAgents, waiting, turnMutex, child>>
    <3>1. [turn EXCEPT ![t].at = a, ![t].resuming = turn[t].provider] = [turn EXCEPT ![t] = r]
      BY <1>0 DEF TurnRec
    <3> QED  BY <1>5, <2>1, <3>1 DEF UpdateRuntimeConfig, TurnAt
  <2>3. /\ r \in TurnRec /\ r.at = a /\ r.conv = c /\ r.child = turn[t].child
        /\ r.got = turn[t].got /\ r.done = turn[t].done
    BY <1>0 DEF TurnRec, TurnStates
  <2> HIDE DEF r
  <2>4. SlotsInv'  BY <1>0, <2>1, <2>2, <2>3, QueueKeeps
  <2> QED  BY <2>1, <2>2, <2>3, <2>4, TurnGoesOn DEF Serving, Resting
<1>6. CASE AcquireSlot(t)
  <2>1. PICK a \in {"granted", "queued", "thrown"} :
           /\ turn[t].at = "spawn" /\ TurnGoes(t, a)
           /\ a = "granted" => activeAgents < MaxConcurrentAgents /\ activeAgents' = activeAgents + 1 /\ UNCHANGED waiting
           /\ a = "queued" => /\ activeAgents >= MaxConcurrentAgents /\ Len(waiting) < MAX_QUEUE_SIZE
                              /\ waiting' = Append(waiting, t) /\ UNCHANGED activeAgents
           /\ a = "thrown" => UNCHANGED <<activeAgents, waiting>>
           /\ UNCHANGED <<session, parser, holders, turnMutex, child>>
    BY <1>6, AgentLimits DEF AcquireSlot, TurnAt, SlotIsFree, AgentInv, SlotsInv
  <2> DEFINE r == [turn[t] EXCEPT !.at = a]
  <2>2. turn' = [turn EXCEPT ![t] = r]  BY <2>1 DEF TurnGoes
  <2>3. /\ r \in TurnRec /\ r.at = a /\ r.conv = c /\ r.child = turn[t].child
        /\ r.got = turn[t].got /\ r.done = turn[t].done
    BY <1>0 DEF TurnRec, TurnStates
  <2> HIDE DEF r
  <2>4. \A q \in Turns : turn'[q].at = IF q = t THEN a ELSE turn[q].at  BY <1>0, <2>2, <2>3
  <2>5. SlotsInv /\ \A i \in 1 .. Len(waiting) : waiting[i] # t
    BY <2>1 DEF AgentInv, SlotsInv, WaitingTurnsAreQueued, TurnAt
  <2>6. SlotsInv'
    <3>1. CASE a = "granted"
      BY <1>0, <2>1, <2>4, <2>5, <3>1, AgentLimits DEF SlotsInv, WaitingTurnsAreQueued, TurnAt
    <3>2. CASE a = "queued"
      <4>1. /\ waiting' \in Seq(Turns) /\ Len(waiting') = Len(waiting) + 1 /\ Len(waiting) \in Nat
            /\ waiting'[Len(waiting) + 1] = t
            /\ \A i \in 1 .. Len(waiting) : waiting'[i] = waiting[i]
        BY <2>1, <2>5, <3>2 DEF SlotsInv
      <4>2. \A i \in 1 .. Len(waiting) : waiting[i] \in Turns /\ turn'[waiting[i]].at = "queued"
        BY <2>4, <2>5, <3>2 DEF SlotsInv, WaitingTurnsAreQueued, TurnAt
      <4>3. \A q \in Turns : turn'[q].at = "queued" => \E i \in 1 .. Len(waiting') : waiting'[i] = q
        BY <2>4, <2>5, <3>2, <4>1 DEF SlotsInv, WaitingTurnsAreQueued, TurnAt
      <4>4. \A i, j \in 1 .. Len(waiting') :
               turn'[waiting'[i]].at = "queued" /\ (i # j => waiting'[i] # waiting'[j])
        BY <2>4, <2>5, <3>2, <4>1, <4>2 DEF WaitingTurnsAreQueued, SlotsInv
      <4>5. activeAgents' = MaxConcurrentAgents /\ Len(waiting') <= MAX_QUEUE_SIZE
        BY <2>1, <2>5, <3>2, <4>1, AgentLimits DEF SlotsInv
      <4> QED  BY <2>1, <2>5, <3>2, <4>1, <4>3, <4>4, <4>5, AgentLimits DEF SlotsInv, WaitingTurnsAreQueued, TurnAt
    <3>3. CASE a = "thrown"
      BY <1>0, <2>1, <2>4, <2>5, <3>3 DEF SlotsInv, WaitingTurnsAreQueued, TurnAt
    <3> QED  BY <3>1, <3>2, <3>3
  <2> QED  BY <2>1, <2>2, <2>3, <2>6, TurnGoesOn DEF Serving, Resting
<1> QED  BY <1>1, <1>2, <1>3, <1>4, <1>5, <1>6

\* What happens to a process beside its start and its exit: it is signalled, or
\* no longer read.
Calmed(p) ==
    /\ child'[p].conv = child[p].conv /\ child'[p].life = child[p].life
    /\ child'[p].reading => child[p].reading
    /\ child'[p].turn \in {NoOne, child[p].turn}
    /\ child'[p].exit = child[p].exit \/ child[p].life # "none"

CalmIn(c) ==
    /\ child' \in [Processes -> ChildRec]
    /\ \A p \in Processes : Calmed(p) /\ (child'[p] = child[p] \/ child[p].conv = c)

\* The session of c may lose its process and change its status.
SessionIn(c) ==
    /\ session' \in [Conversations -> SessionRec]
    /\ \A d \in Conversations \ {c} : session'[d] = session[d]
    /\ session'[c].child \in {NoOne, session[c].child}
    /\ ~session'[c].here => session'[c].child = NoOne /\ session'[c].status = "stopped"

ParserIn(c) ==
    /\ parser' \in [Conversations -> Processes \cup {NoOne}]
    /\ \A d \in Conversations \ {c} : parser'[d] = parser[d]
    /\ parser'[c] \in {NoOne, parser[c]}

SameOrWoken(t) ==
    \/ turn'[t] = turn[t]
    \/ turn[t].at = "queued" /\ turn'[t] = [turn[t] EXCEPT !.at = "granted"]

LEMMA WokenTyped ==
    ASSUME AgentInv, NEW t \in Turns, SameOrWoken(t)
    PROVE  /\ turn'[t] \in TurnRec /\ turn'[t].conv = turn[t].conv /\ turn'[t].child = turn[t].child
           /\ turn'[t].got = turn[t].got /\ turn'[t].done = turn[t].done
           /\ turn'[t].at = turn[t].at \/ (turn[t].at = "queued" /\ turn'[t].at = "granted")
<1>1. turn[t] \in TurnRec  BY DEF AgentInv, AgentTyped
<1> QED  BY <1>1 DEF SameOrWoken, TurnRec, TurnStates

LEMMA CalmProcesses ==
    ASSUME AgentInv, NEW c, CalmIn(c)
    PROVE  ProcessesInv'
BY DEF AgentInv, ProcessesInv, CalmIn, Calmed

(* A step beside the turns: timers, exits, and the end of a conversation.   *)
LEMMA CalmStep ==
    ASSUME AgentInv, NEW c \in Conversations, SessionIn(c), ParserIn(c), CalmIn(c), SlotsInv',
           UNCHANGED turnMutex, turn' \in [Turns -> TurnRec], \A t \in Turns : SameOrWoken(t),
           session'[c].status = "idle" => session[c].status = "idle",
           \/ parser'[c] = parser[c]
           \/ \A p \in Processes : child[p].conv = c => child'[p].turn = NoOne
    PROVE  AgentInv'
<1> DEFINE h == turnMutex[c]
<1>1. /\ h \in Turns \cup {NoOne} /\ turnMutex'[c] = h /\ OneProcess(c) /\ ServesHolder(c)
      /\ h # NoOne => turn[h].child \in Processes \cup {NoOne}
      /\ parser[c] \in Processes \cup {NoOne} /\ session[c].child \in Processes \cup {NoOne}
  BY DEF AgentInv, AgentTyped, TurnRec, SessionRec
<1>2. AgentTyped'  BY DEF AgentInv, AgentTyped, SessionIn, ParserIn, CalmIn
<1>3. ProcessesInv'  BY CalmProcesses
<1>4. h # NoOne => /\ turn'[h].conv = turn[h].conv /\ turn'[h].child = turn[h].child
                   /\ turn'[h].got = turn[h].got /\ turn'[h].done = turn[h].done
                   /\ turn'[h].at = turn[h].at \/ (turn[h].at = "queued" /\ turn'[h].at = "granted")
  BY <1>1, WokenTyped
<1>5. OnlyOf(c)  BY DEF OnlyOf, SessionIn, ParserIn, CalmIn, Calmed, SameOrWoken
<1>6. OwnLock(c)
  <2> SUFFICES ASSUME NEW q \in Turns, turnMutex[c] = q \/ turn[q].at \in Resting
               PROVE  /\ turn'[q].at \notin Resting => turn'[q].conv = c /\ turnMutex'[c] = q
                      /\ turn'[q].at = "busy" => turn'[q].conv \in Conversations
                      /\ turn'[q].at \in Resting => turn'[q].child = NoOne /\ turn'[q].got = "nothing"
    BY DEF OwnLock
  <2>1. turn'[q].conv = turn[q].conv /\ turn'[q].child = turn[q].child /\ turn'[q].got = turn[q].got
        /\ (turn'[q].at = turn[q].at \/ (turn[q].at = "queued" /\ turn'[q].at = "granted"))
    BY WokenTyped
  <2> QED  BY <1>1, <2>1, AgentLimits DEF OneProcess, AgentInv, LocksInv, Resting
<1>7. OneProcess(c)'
  BY <1>1, <1>4 DEF OneProcess, Known, Spawning, Gone, Resting, SessionIn, ParserIn, CalmIn, Calmed
<1>8. ServesHolder(c)'
  BY <1>1, <1>4 DEF ServesHolder, Serving, SessionIn, ParserIn, CalmIn, Calmed
<1> QED  BY <1>2, <1>3, <1>5, <1>6, <1>7, <1>8, StepOf

(* A step of the turn that holds the lock, after which it still does.       *)
LEMMA HolderStep ==
    ASSUME AgentInv, NEW t \in Turns, turn[t].at \notin Resting, NEW c, c = turn[t].conv,
           SessionIn(c), ParserIn(c), CalmIn(c), SlotsInv', UNCHANGED turnMutex,
           turn' \in [Turns -> TurnRec], \A q \in Turns \ {t} : SameOrWoken(q),
           turn'[t].conv = c, turn'[t].at \notin Resting \cup {"attached", "grace"},
           turn'[t].child \in {NoOne, turn[t].child},
           turn'[t].got = "terminal" => turn'[t].done,
           parser'[c] = NoOne \/ turn[t].at \notin {"attached", "unattached", "grace", "failing"},
           \/ \A p \in Processes : child[p].conv = c => child'[p].turn = NoOne
           \/ /\ turn'[t].at \in Serving /\ turn'[t].done = turn[t].done /\ turn'[t].child = turn[t].child
              /\ parser'[c] = parser[c] /\ session'[c].status = session[c].status
    PROVE  AgentInv'
<1>1. /\ c \in Conversations /\ turnMutex[c] = t /\ turnMutex'[c] = t /\ t # NoOne
      /\ OneProcess(c) /\ ServesHolder(c) /\ turn[t] \in TurnRec
      /\ parser[c] \in Processes \cup {NoOne} /\ session[c].child \in Processes \cup {NoOne}
      /\ turn[t].child \in Processes \cup {NoOne}
  BY HolderFacts DEF Conv, AgentInv, AgentTyped, TurnRec, SessionRec
<1>2. AgentTyped'  BY DEF AgentInv, AgentTyped, SessionIn, ParserIn, CalmIn
<1>3. ProcessesInv'  BY CalmProcesses
<1>4. OnlyOf(c)  BY <1>1 DEF OnlyOf, SessionIn, ParserIn, CalmIn, Calmed, SameOrWoken
<1>5. OwnLock(c)
  <2> SUFFICES ASSUME NEW q \in Turns, turnMutex[c] = q \/ turn[q].at \in Resting
               PROVE  /\ turn'[q].at \notin Resting => turn'[q].conv = c /\ turnMutex'[c] = q
                      /\ turn'[q].at = "busy" => turn'[q].conv \in Conversations
                      /\ turn'[q].at \in Resting => turn'[q].child = NoOne /\ turn'[q].got = "nothing"
    BY DEF OwnLock
  <2>1. CASE q = t  BY <1>1, <2>1 DEF Resting
  <2>2. CASE q # t
    <3>1. turn'[q].conv = turn[q].conv /\ turn'[q].child = turn[q].child /\ turn'[q].got = turn[q].got
          /\ (turn'[q].at = turn[q].at \/ (turn[q].at = "queued" /\ turn'[q].at = "granted"))
      BY <2>2, WokenTyped
    <3> QED  BY <1>1, <2>2, <3>1 DEF AgentInv, LocksInv, Resting
  <2> QED  BY <2>1, <2>2
<1>6. OneProcess(c)'
  BY <1>1 DEF OneProcess, Known, Spawning, Gone, Resting, SessionIn, ParserIn, CalmIn, Calmed
<1>7. ServesHolder(c)'
  BY <1>1 DEF ServesHolder, Serving, SessionIn, ParserIn, CalmIn, Calmed
<1> QED  BY <1>1, <1>2, <1>3, <1>4, <1>5, <1>6, <1>7, StepOf

(* The end of a turn: the lock is free and no process serves the            *)
(* conversation.                                                            *)
LEMMA TurnEnded ==
    ASSUME AgentInv, NEW t \in Turns, turn[t].at \notin Resting, NEW c, c = turn[t].conv,
           SessionIn(c), ParserIn(c), CalmIn(c), SlotsInv',
           turnMutex' = [turnMutex EXCEPT ![c] = IF @ = t THEN NoOne ELSE @],
           turn' \in [Turns -> TurnRec], turn'[t] = NewTurn, \A q \in Turns \ {t} : SameOrWoken(q),
           turn[t].at \notin {"attached", "unattached", "grace", "failing"},
           \A p \in Processes : child[p].conv = c => child'[p].turn = NoOne
    PROVE  AgentInv'
<1>1. /\ c \in Conversations /\ turnMutex[c] = t /\ t # NoOne
      /\ OneProcess(c) /\ turn[t] \in TurnRec /\ turnMutex \in [Conversations -> Turns \cup {NoOne}]
      /\ parser[c] \in Processes \cup {NoOne} /\ session[c].child \in Processes \cup {NoOne}
  BY HolderFacts DEF Conv, AgentInv, AgentTyped, TurnRec, SessionRec
<1>2. /\ turnMutex' \in [Conversations -> Turns \cup {NoOne}] /\ turnMutex'[c] = NoOne
      /\ \A d \in Conversations \ {c} : turnMutex'[d] = turnMutex[d]
  BY <1>1
<1>3. AgentTyped'  BY <1>2 DEF AgentInv, AgentTyped, SessionIn, ParserIn, CalmIn
<1>4. ProcessesInv'  BY CalmProcesses
<1>5. OnlyOf(c)  BY <1>1, <1>2 DEF OnlyOf, SessionIn, ParserIn, CalmIn, Calmed, SameOrWoken
<1>6. OwnLock(c)
  <2> SUFFICES ASSUME NEW q \in Turns, turnMutex[c] = q \/ turn[q].at \in Resting
               PROVE  /\ turn'[q].at \notin Resting => turn'[q].conv = c /\ turnMutex'[c] = q
                      /\ turn'[q].at = "busy" => turn'[q].conv \in Conversations
                      /\ turn'[q].at \in Resting => turn'[q].child = NoOne /\ turn'[q].got = "nothing"
    BY DEF OwnLock
  <2>1. CASE q = t  BY <2>1 DEF Resting, NewTurn
  <2>2. CASE q # t
    <3>1. turn'[q].conv = turn[q].conv /\ turn'[q].child = turn[q].child /\ turn'[q].got = turn[q].got
          /\ (turn'[q].at = turn[q].at \/ (turn[q].at = "queued" /\ turn'[q].at = "granted"))
      BY <2>2, WokenTyped
    <3> QED  BY <1>1, <2>2, <3>1 DEF AgentInv, LocksInv, Resting
  <2> QED  BY <2>1, <2>2
<1>7. OneProcess(c)'
  BY <1>1, <1>2 DEF OneProcess, Known, Spawning, Gone, SessionIn, ParserIn, CalmIn, Calmed
<1>8. ServesHolder(c)'
  BY <1>1, <1>2 DEF ServesHolder, CalmIn, Calmed
<1> QED  BY <1>1, <1>3, <1>4, <1>5, <1>6, <1>7, <1>8, StepOf

(* Signals, and parsers that stop: the process of one conversation is calmed. *)
LEMMA ChildCalmed ==
    ASSUME AgentInv, NEW c \in Conversations, NEW p \in Processes \cup {NoOne}, Known(c, p),
           \/ child' = Signalled(child, p) \/ child' = StopReading(child, p)
           \/ child' = CancelActiveTurn(child, p)
    PROVE  /\ CalmIn(c)
           /\ child' # Signalled(child, p) /\ p # NoOne => child'[p].turn = NoOne
<1>1. child \in [Processes -> ChildRec]  BY DEF AgentInv, AgentTyped
<1>2. CASE p = NoOne  BY <1>1, <1>2 DEF Signalled, StopReading, CancelActiveTurn, CalmIn, Calmed
<1>3. CASE p # NoOne
  <2>1. child[p] \in ChildRec /\ child[p].conv = c  BY <1>1, <1>3 DEF Known
  <2>2. \A q \in Processes \ {p} : child'[q] = child[q]
    BY <1>1, <1>3 DEF Signalled, StopReading, CancelActiveTurn
  <2>3. \/ child'[p] = [child[p] EXCEPT !.signalled = TRUE]
        \/ child'[p] = [child[p] EXCEPT !.reading = FALSE, !.turn = NoOne]
        \/ child'[p] = [child[p] EXCEPT !.turn = NoOne]
    BY <1>1, <1>3, <2>1 DEF Signalled, StopReading, CancelActiveTurn, ChildRec
  <2>4. child'[p] \in ChildRec /\ Calmed(p)  BY <2>1, <2>3 DEF ChildRec, Calmed
  <2>5. DOMAIN child' = Processes /\ child' = [q \in Processes |-> child'[q]]
    BY <1>1, <1>3 DEF Signalled, StopReading, CancelActiveTurn
  <2>6. child' \in [Processes -> ChildRec]  BY <1>1, <2>2, <2>4, <2>5
  <2>7. \A q \in Processes \ {p} : Calmed(q)  BY <2>2 DEF Calmed
  <2>8. child' # Signalled(child, p) => child'[p].turn = NoOne
    BY <1>1, <1>3, <2>1 DEF StopReading, CancelActiveTurn, ChildRec
  <2> QED  BY <2>1, <2>2, <2>4, <2>6, <2>7, <2>8 DEF CalmIn, Calmed
<1> QED  BY <1>2, <1>3

LEMMA BothCalmed ==
    ASSUME AgentInv, NEW c \in Conversations,
           NEW p \in Processes \cup {NoOne}, Known(c, p), NEW q \in Processes \cup {NoOne}, Known(c, q),
           \/ child' = Signalled(StopReading(child, p), q)
           \/ child' = Signalled(CancelActiveTurn(child, p), q)
    PROVE  /\ CalmIn(c)
           /\ p # NoOne => child'[p].turn = NoOne
<1>1. child \in [Processes -> ChildRec]  BY DEF AgentInv, AgentTyped
<1>2. PICK f : /\ (f = StopReading(child, p) \/ f = CancelActiveTurn(child, p))
               /\ child' = Signalled(f, q)
  OBVIOUS
<1>3. /\ f \in [Processes -> ChildRec]
      /\ \A x \in Processes :
            /\ f[x].conv = child[x].conv /\ f[x].life = child[x].life
            /\ f[x].exit = child[x].exit /\ (f[x].reading => child[x].reading)
            /\ f[x].turn \in {NoOne, child[x].turn}
            /\ f[x] = child[x] \/ child[x].conv = c
      /\ p # NoOne => f[p].turn = NoOne
  <2>1. CASE p = NoOne  BY <1>1, <1>2, <2>1 DEF StopReading, CancelActiveTurn
  <2>2. CASE p # NoOne
    <3>1. child[p] \in ChildRec /\ child[p].conv = c  BY <1>1, <2>2 DEF Known
    <3>2. PICK r : /\ r = [child[p] EXCEPT !.reading = FALSE, !.turn = NoOne] \/ r = [child[p] EXCEPT !.turn = NoOne]
                   /\ f = [child EXCEPT ![p] = r]
      BY <1>1, <1>2, <2>2, <3>1 DEF StopReading, CancelActiveTurn, ChildRec
    <3>3. /\ r \in ChildRec /\ r.conv = child[p].conv /\ r.life = child[p].life
          /\ r.exit = child[p].exit /\ (r.reading => child[p].reading)
          /\ r.turn = NoOne
      BY <3>1, <3>2 DEF ChildRec
    <3> QED  BY <1>1, <2>2, <3>1, <3>2, <3>3
  <2> QED  BY <2>1, <2>2
<1>4. CASE q = NoOne  BY <1>2, <1>3, <1>4 DEF Signalled, CalmIn, Calmed
<1>5. CASE q # NoOne
  <2>1. f[q] \in ChildRec /\ child[q].conv = c  BY <1>3, <1>5 DEF Known
  <2>2. child' = [f EXCEPT ![q] = [f[q] EXCEPT !.signalled = TRUE]]
    BY <1>2, <1>3, <1>5, <2>1 DEF Signalled, ChildRec
  <2>3. /\ [f[q] EXCEPT !.signalled = TRUE] \in ChildRec
        /\ [f[q] EXCEPT !.signalled = TRUE].conv = f[q].conv
        /\ [f[q] EXCEPT !.signalled = TRUE].life = f[q].life
        /\ [f[q] EXCEPT !.signalled = TRUE].reading = f[q].reading
        /\ [f[q] EXCEPT !.signalled = TRUE].turn = f[q].turn
        /\ [f[q] EXCEPT !.signalled = TRUE].exit = f[q].exit
    BY <2>1 DEF ChildRec
  <2> QED  BY <1>3, <1>5, <2>1, <2>2, <2>3 DEF CalmIn, Calmed
<1> QED  BY <1>4, <1>5

(* What an action leaves alone, forgets, or sets.                           *)
LEMMA ChildKept ==
    ASSUME AgentInv, NEW c, UNCHANGED child
    PROVE  CalmIn(c)
BY DEF AgentInv, AgentTyped, CalmIn, Calmed

LEMMA ParserKept ==
    ASSUME AgentInv, NEW c \in Conversations, UNCHANGED parser
    PROVE  ParserIn(c)
BY DEF AgentInv, AgentTyped, ParserIn

LEMMA ParserForgotten ==
    ASSUME AgentInv, NEW c \in Conversations, parser' = [parser EXCEPT ![c] = NoOne]
    PROVE  ParserIn(c) /\ parser'[c] = NoOne
BY DEF AgentInv, AgentTyped, ParserIn

LEMMA SessionKept ==
    ASSUME AgentInv, NEW c \in Conversations, UNCHANGED session
    PROVE  SessionIn(c)
BY DEF AgentInv, AgentTyped, SessionIn, OneProcess

(* A session that changes but gets no process.                              *)
LEMMA SessionSet ==
    ASSUME AgentInv, NEW c \in Conversations, NEW r \in SessionRec, session' = [session EXCEPT ![c] = r],
           r.child \in {NoOne, session[c].child}, r.here \/ (r.child = NoOne /\ r.status = "stopped")
    PROVE  SessionIn(c) /\ session'[c] = r
BY DEF AgentInv, AgentTyped, SessionIn

LEMMA SessionEnded ==
    ASSUME AgentInv, NEW c \in Conversations, NEW s \in {"stopped", "failed"},
           session' = MarkEnded(session, c, s)
    PROVE  SessionIn(c)
<1> DEFINE r == [session[c] EXCEPT !.child = NoOne, !.status = IF session[c].here THEN s ELSE @]
<1>1. session \in [Conversations -> SessionRec] /\ session[c] \in SessionRec /\ OneProcess(c)
  BY DEF AgentInv, AgentTyped
<1>2. session' = [session EXCEPT ![c] = r]  BY <1>1 DEF MarkEnded, SessionRec
<1>3. r \in SessionRec /\ r.child = NoOne /\ r.here = session[c].here /\ (~session[c].here => r.status = session[c].status)
  BY <1>1 DEF SessionRec, Status
<1>4. ~session[c].here => session[c].child = NoOne /\ session[c].status = "stopped"
  BY <1>1 DEF OneProcess
<1> HIDE DEF r
<1> QED  BY <1>2, <1>3, <1>4, SessionSet

LEMMA SessionIdle ==
    ASSUME AgentInv, NEW c \in Conversations, session' = MarkIdle(c)
    PROVE  SessionIn(c)
<1> DEFINE r == [session[c] EXCEPT !.status = IF session[c].here THEN "idle" ELSE @]
<1>1. session \in [Conversations -> SessionRec] /\ session[c] \in SessionRec /\ OneProcess(c)
  BY DEF AgentInv, AgentTyped
<1>2. session' = [session EXCEPT ![c] = r]  BY <1>1 DEF MarkIdle, SessionRec
<1>3. r \in SessionRec /\ r.child = session[c].child /\ r.here = session[c].here /\ (~session[c].here => r.status = session[c].status)
  BY <1>1 DEF SessionRec, Status
<1>4. ~session[c].here => session[c].child = NoOne /\ session[c].status = "stopped"
  BY <1>1 DEF OneProcess
<1> HIDE DEF r
<1> QED  BY <1>2, <1>3, <1>4, SessionSet

LEMMA ChildTaken ==
    ASSUME AgentInv, NEW c \in Conversations, session' = TakeChild(c)
    PROVE  SessionIn(c) /\ session'[c].status = session[c].status
<1> DEFINE r == [session[c] EXCEPT !.child = NoOne]
<1>1. session \in [Conversations -> SessionRec] /\ session[c] \in SessionRec /\ OneProcess(c)
  BY DEF AgentInv, AgentTyped
<1>2. session' = [session EXCEPT ![c] = r]  BY <1>1 DEF TakeChild, SessionRec
<1>3. r \in SessionRec /\ r.child = NoOne /\ r.here = session[c].here /\ r.status = session[c].status
  BY <1>1 DEF SessionRec
<1> QED  BY <1>1, <1>2, <1>3, SessionSet DEF OneProcess

(* The release of a slot: the first turn that waits takes it over.          *)
LEMMA SlotReleased ==
    ASSUME AgentInv, NEW c, NEW tn \in [Turns -> TurnRec],
           \A t \in Turns : tn[t].at = "queued" <=> turn[t].at = "queued",
           ReleasePersistentSlot(c, tn)
    PROVE  /\ SlotsInv' /\ turn' \in [Turns -> TurnRec]
           /\ \A t \in Turns : \/ turn'[t] = tn[t]
                               \/ tn[t].at = "queued" /\ turn'[t] = [tn[t] EXCEPT !.at = "granted"]
<1>1. SlotsInv  BY DEF AgentInv
<1>2. CASE turn' = tn /\ UNCHANGED waiting /\ holders' \subseteq holders
           /\ (activeAgents' = activeAgents
               \/ (waiting = <<>> /\ activeAgents' = IF activeAgents = 0 THEN 0 ELSE activeAgents - 1))
  BY <1>1, <1>2, AgentLimits DEF SlotsInv, WaitingTurnsAreQueued, TurnAt
<1>3. CASE /\ waiting # <<>> /\ turn' = [tn EXCEPT ![Head(waiting)].at = "granted"]
           /\ waiting' = Tail(waiting) /\ UNCHANGED activeAgents /\ holders' \subseteq holders
  <2> DEFINE q == Head(waiting)
  <2>1. /\ q \in Turns /\ q = waiting[1] /\ 1 \in 1 .. Len(waiting) /\ waiting' \in Seq(Turns)
        /\ Len(waiting') = Len(waiting) - 1 /\ Len(waiting) \in Nat
        /\ \A i \in 1 .. Len(waiting') : waiting'[i] = waiting[i + 1] /\ i + 1 \in 1 .. Len(waiting)
    BY <1>1, <1>3 DEF SlotsInv
  <2>2. turn[q].at = "queued"  BY <1>1, <2>1 DEF SlotsInv, WaitingTurnsAreQueued, TurnAt
  <2>3. /\ turn' \in [Turns -> TurnRec] /\ turn'[q] = [tn[q] EXCEPT !.at = "granted"]
        /\ \A t \in Turns \ {q} : turn'[t] = tn[t]
    <3> DEFINE r == [tn[q] EXCEPT !.at = "granted"]
    <3>1. r \in TurnRec  BY <2>1, SMTT(30) DEF TurnRec, TurnStates
    <3>2. turn' = [tn EXCEPT ![q] = r]  BY <1>3, <2>1
    <3> HIDE DEF r
    <3>3. turn' \in [Turns -> TurnRec] /\ turn'[q] = r /\ \A t \in Turns \ {q} : turn'[t] = tn[t]
      BY <2>1, <3>1, <3>2
    <3> QED  BY <3>3 DEF r
  <2>4. turn'[q].at = "granted"  BY <2>1, <2>3 DEF TurnRec
  <2> HIDE DEF q
  <2>5. \A t \in Turns : turn'[t].at = "queued" <=> (turn[t].at = "queued" /\ t # q)  BY <2>3, <2>4
  <2>6. \A t \in Turns : turn'[t].at = "queued" => \E i \in 1 .. Len(waiting') : waiting'[i] = t
    <3> SUFFICES ASSUME NEW t \in Turns, turn'[t].at = "queued"
                 PROVE  \E i \in 1 .. Len(waiting') : waiting'[i] = t
      OBVIOUS
    <3>1. PICK i \in 1 .. Len(waiting) : waiting[i] = t
      BY <1>1, <2>5 DEF SlotsInv, WaitingTurnsAreQueued, TurnAt
    <3>2. i # 1  BY <2>1, <2>5, <3>1
    <3>3. i - 1 \in 1 .. Len(waiting') /\ waiting'[i - 1] = t  BY <2>1, <3>1, <3>2
    <3> QED  BY <3>3
  <2>7. \A i, j \in 1 .. Len(waiting') :
           turn'[waiting'[i]].at = "queued" /\ (i # j => waiting'[i] # waiting'[j])
    <3> SUFFICES ASSUME NEW i \in 1 .. Len(waiting'), NEW j \in 1 .. Len(waiting')
                 PROVE  turn'[waiting'[i]].at = "queued" /\ (i # j => waiting'[i] # waiting'[j])
      OBVIOUS
    <3>1. /\ turn[waiting[i + 1]].at = "queued" /\ waiting[i + 1] # waiting[1]
          /\ i # j => waiting[i + 1] # waiting[j + 1]
      BY <1>1, <2>1 DEF SlotsInv, WaitingTurnsAreQueued, TurnAt
    <3>2. waiting[i + 1] \in Turns  BY <1>1, <2>1 DEF SlotsInv
    <3> QED  BY <2>1, <2>5, <3>1, <3>2
  <2>8. activeAgents' = MaxConcurrentAgents /\ Len(waiting') <= MAX_QUEUE_SIZE
    BY <1>1, <1>3, <2>1, AgentLimits DEF SlotsInv, WaitingTurnsAreQueued
  <2>9. SlotsInv'  BY <1>1, <1>3, <2>1, <2>6, <2>7, <2>8 DEF SlotsInv, WaitingTurnsAreQueued, TurnAt
  <2> QED  BY <2>2, <2>3, <2>9
<1>4. \/ /\ turn' = tn /\ UNCHANGED waiting /\ holders' \subseteq holders
         /\ (activeAgents' = activeAgents
             \/ (waiting = <<>> /\ activeAgents' = IF activeAgents = 0 THEN 0 ELSE activeAgents - 1))
      \/ /\ waiting # <<>> /\ turn' = [tn EXCEPT ![Head(waiting)].at = "granted"]
         /\ waiting' = Tail(waiting) /\ UNCHANGED activeAgents /\ holders' \subseteq holders
  BY DEF ReleasePersistentSlot, ReleaseSlot
<1> QED  BY <1>2, <1>3, <1>4

(* The lock: a turn takes it, or is refused and leaves it.                  *)
LEMMA LockSteps ==
    ASSUME AgentInv, NEW t \in Turns, TurnRefused(t) \/ \E c \in Conversations : SendTurn(t, c)
    PROVE  AgentInv'
<1>0. /\ turn \in [Turns -> TurnRec] /\ turn[t] \in TurnRec
      /\ turnMutex \in [Conversations -> Turns \cup {NoOne}] /\ t # NoOne
  BY AgentLimits DEF AgentInv, AgentTyped
<1>1. CASE TurnRefused(t)
  <2> SUFFICES ASSUME NEW c, c = turn[t].conv PROVE AgentInv'  OBVIOUS
  <2>1. turn[t].at = "busy" /\ c \in Conversations /\ turnMutex[c] # t
    BY <1>0, <1>1 DEF TurnRefused, TurnAt, AgentInv, LocksInv, OneProcess, Resting
  <2>2. UNCHANGED <<session, parser, holders, activeAgents, waiting, turnMutex, child>>
    BY <1>0, <1>1, <2>1 DEF TurnRefused, TurnEnds, Conv
  <2>3. NewTurn \in TurnRec /\ turn' = [turn EXCEPT ![t] = NewTurn]
    BY <1>1 DEF TurnRefused, TurnEnds, NewTurn, TurnRec, TurnStates, Resting, Status
  <2>4. turn' \in [Turns -> TurnRec] /\ turn'[t] = NewTurn /\ \A q \in Turns \ {t} : turn'[q] = turn[q]
    BY <1>0, <2>3
  <2>5. AgentTyped' /\ ProcessesInv'  BY <2>2, <2>4 DEF AgentInv, AgentTyped, ProcessesInv
  <2>6. SlotsInv'  BY <2>1, <2>2, <2>4, QueueKeeps DEF NewTurn
  <2>7. OnlyOf(c)  BY <2>1, <2>2, <2>4 DEF OnlyOf, Resting
  <2>8. OneProcess(c) /\ ServesHolder(c) /\ (turnMutex[c] # NoOne => turnMutex[c] \in Turns \ {t})
    BY <1>0, <2>1 DEF AgentInv
  <2>9. turnMutex[c] # NoOne => turn'[turnMutex[c]] = turn[turnMutex[c]]  BY <2>4, <2>8
  <2>10. OwnLock(c)
    <3> SUFFICES ASSUME NEW q \in Turns, turnMutex[c] = q \/ turn[q].at \in Resting
                 PROVE  /\ turn'[q].at \notin Resting => turn'[q].conv = c /\ turnMutex'[c] = q
                        /\ turn'[q].at = "busy" => turn'[q].conv \in Conversations
                        /\ turn'[q].at \in Resting => turn'[q].child = NoOne /\ turn'[q].got = "nothing"
      BY DEF OwnLock
    <3>1. CASE q = t  BY <2>4, <3>1 DEF NewTurn, Resting
    <3>2. CASE q # t  BY <1>0, <2>2, <2>4, <2>8, <3>2, AgentLimits DEF OneProcess, AgentInv, LocksInv
    <3> QED  BY <3>1, <3>2
  <2>11. OneProcess(c)'  BY <2>2, <2>8, <2>9 DEF OneProcess, Known, Spawning, Gone
  <2>12. ServesHolder(c)'  BY <2>2, <2>8, <2>9 DEF ServesHolder
  <2> QED  BY <2>1, <2>5, <2>6, <2>7, <2>10, <2>11, <2>12, StepOf
<1>2. CASE \E c \in Conversations : SendTurn(t, c)
  <2>1. PICK c \in Conversations : SendTurn(t, c)  BY <1>2
  <2>2. PICK a \in {"session", "busy"} :
          /\ turn' = [turn EXCEPT ![t].at = a, ![t].conv = c]
          /\ turnMutex' = IF a = "session" THEN [turnMutex EXCEPT ![c] = t] ELSE turnMutex
          /\ a = "session" <=> turnMutex[c] = NoOne
    BY <2>1 DEF SendTurn
  <2>3. turn[t].at = "new" /\ UNCHANGED <<session, parser, holders, activeAgents, waiting, child>>
    BY <2>1 DEF SendTurn, TurnAt
  <2> DEFINE r == [turn[t] EXCEPT !.at = a, !.conv = c]
  <2>4. /\ r \in TurnRec /\ r.at = a /\ r.conv = c /\ r.child = NoOne /\ r.got = "nothing"
        /\ turn' = [turn EXCEPT ![t] = r]
    BY <1>0, <2>2, <2>3 DEF TurnRec, TurnStates, Resting, AgentInv, LocksInv
  <2> HIDE DEF r
  <2>5. turn' \in [Turns -> TurnRec] /\ turn'[t] = r /\ \A q \in Turns \ {t} : turn'[q] = turn[q]
    BY <1>0, <2>4
  <2>6. /\ turnMutex' \in [Conversations -> Turns \cup {NoOne}]
        /\ turnMutex'[c] = (IF a = "session" THEN t ELSE turnMutex[c])
        /\ \A d \in Conversations \ {c} : turnMutex'[d] = turnMutex[d]
    BY <1>0, <2>2
  <2>7. AgentTyped' /\ ProcessesInv'  BY <2>3, <2>5, <2>6 DEF AgentInv, AgentTyped, ProcessesInv
  <2>8. SlotsInv'  BY <2>3, <2>4, <2>5, QueueKeeps
  <2>9. OnlyOf(c)  BY <2>3, <2>5, <2>6 DEF OnlyOf, Resting
  <2>10. /\ OneProcess(c) /\ ServesHolder(c) /\ turnMutex[c] # t
         /\ turnMutex[c] # NoOne => turnMutex[c] \in Turns \ {t}
    BY <1>0, <2>3 DEF AgentInv, OneProcess, Resting
  <2>11. OwnLock(c)
    <3> SUFFICES ASSUME NEW q \in Turns, turnMutex[c] = q \/ turn[q].at \in Resting
                 PROVE  /\ turn'[q].at \notin Resting => turn'[q].conv = c /\ turnMutex'[c] = q
                        /\ turn'[q].at = "busy" => turn'[q].conv \in Conversations
                        /\ turn'[q].at \in Resting => turn'[q].child = NoOne /\ turn'[q].got = "nothing"
      BY DEF OwnLock
    <3>1. CASE q = t  BY <2>4, <2>5, <2>6, <3>1 DEF Resting
    <3>2. CASE q # t  BY <1>0, <2>2, <2>5, <2>6, <2>10, <3>2, AgentLimits DEF OneProcess, AgentInv, LocksInv
    <3> QED  BY <3>1, <3>2
  <2>12. OneProcess(c)' /\ ServesHolder(c)'
    <3>1. CASE a = "session"
      <4>1. turnMutex'[c] = t /\ turnMutex[c] = NoOne /\ turn'[t] = r  BY <2>2, <2>5, <2>6, <3>1
      <4>2. OneProcess(c)'
        BY <1>0, <2>3, <2>4, <2>10, <3>1, <4>1 DEF OneProcess, Known, Spawning, Gone, Resting
      <4>3. ServesHolder(c)'  BY <1>0, <2>3, <2>4, <2>10, <4>1 DEF ServesHolder
      <4> QED  BY <4>2, <4>3
    <3>2. CASE a = "busy"
      <4>1. turnMutex'[c] = turnMutex[c] /\ (turnMutex[c] # NoOne => turn'[turnMutex[c]] = turn[turnMutex[c]])
        BY <2>5, <2>6, <2>10, <3>2
      <4>2. OneProcess(c)'  BY <2>3, <2>10, <4>1 DEF OneProcess, Known, Spawning, Gone
      <4>3. ServesHolder(c)'  BY <2>3, <2>10, <4>1 DEF ServesHolder
      <4> QED  BY <4>2, <4>3
    <3> QED  BY <3>1, <3>2
  <2> QED  BY <2>7, <2>8, <2>9, <2>11, <2>12, StepOf
<1> QED  BY <1>1, <1>2

(* A turn that no process serves: its conversation's processes serve none.  *)
LEMMA NobodyServes ==
    ASSUME AgentInv, NEW t \in Turns, turn[t].at \notin Resting,
           turn[t].at \notin Serving \/ turn[t].done \/ turn[t].got = "terminal"
    PROVE  /\ \A p \in Processes : child[p].conv = turn[t].conv => child[p].turn = NoOne
           /\ TurnOf(parser[turn[t].conv]) = NoOne
           /\ turn[t].got = "terminal" => turn[t].done
<1>1. turnMutex[turn[t].conv] = t /\ t # NoOne /\ ServesHolder(turn[t].conv) /\ OneProcess(turn[t].conv)
      /\ turn[t].conv \in Conversations
  BY HolderFacts DEF Conv
<1>2. \A p \in Processes : child[p].conv = turn[t].conv => child[p].turn = NoOne
  BY <1>1 DEF ServesHolder
<1>3. parser[turn[t].conv] \in Processes \cup {NoOne}  BY <1>1 DEF AgentInv, AgentTyped
<1> QED  BY <1>1, <1>2, <1>3 DEF TurnOf, OneProcess, Known, ServesHolder

(* A session is created, or found.                                          *)
LEMMA GetSession ==
    ASSUME AgentInv, NEW t \in Turns, GetOrCreateSession(t)
    PROVE  AgentInv'
<1> SUFFICES ASSUME NEW c, c = turn[t].conv PROVE AgentInv'  OBVIOUS
<1> DEFINE s == IF session[c].here THEN session[c]
                ELSE [session[c] EXCEPT !.here = TRUE, !.status = "starting", !.child = NoOne, !.provider = FALSE]
           r == [turn[t] EXCEPT !.at = "refresh", !.child = s.child, !.status = s.status, !.provider = s.provider]
<1>1. /\ turn[t].at = "session" /\ session' = [session EXCEPT ![c] = s]
      /\ turn' = [Cloned(t, s) EXCEPT ![t].at = "refresh"]
      /\ UNCHANGED <<parser, holders, activeAgents, waiting, turnMutex, child>>
  BY DEF GetOrCreateSession, Conv, TurnAt
<1>2. /\ c \in Conversations /\ turnMutex[c] = t /\ t # NoOne /\ OneProcess(c) /\ ServesHolder(c)
      /\ turn \in [Turns -> TurnRec] /\ turn[t] \in TurnRec
      /\ session \in [Conversations -> SessionRec] /\ session[c] \in SessionRec
      /\ turn[t].at \notin Resting \cup Serving
  BY <1>1, HolderFacts DEF Conv, Resting, Serving, AgentInv, AgentTyped
<1>3. ~session[c].here => session[c].child = NoOne  BY <1>2 DEF OneProcess
<1>4. s \in SessionRec /\ s.here /\ s.child = session[c].child  BY <1>2, <1>3 DEF SessionRec, Status
<1> HIDE DEF s
<1>5. turn' = [turn EXCEPT ![t] = r]  BY <1>1, <1>2 DEF Cloned, TurnRec
<1>6. /\ r \in TurnRec /\ r.at = "refresh" /\ r.conv = c /\ r.child = s.child
      /\ r.got = turn[t].got /\ r.done = turn[t].done
  BY <1>2, <1>4 DEF TurnRec, TurnStates, SessionRec
<1> HIDE DEF r
<1>7. turn' \in [Turns -> TurnRec] /\ turn'[t] = r /\ \A q \in Turns \ {t} : turn'[q] = turn[q]
  BY <1>2, <1>5, <1>6
<1>8. /\ session' \in [Conversations -> SessionRec] /\ session'[c] = s
      /\ \A d \in Conversations \ {c} : session'[d] = session[d]
  BY <1>1, <1>2, <1>4
<1>9. AgentTyped' /\ ProcessesInv'  BY <1>1, <1>7, <1>8 DEF AgentInv, AgentTyped, ProcessesInv
<1>10. SlotsInv'  BY <1>1, <1>6, <1>7, QueueKeeps
<1>11. OnlyOf(c)  BY <1>1, <1>2, <1>7, <1>8 DEF OnlyOf
<1>12. OwnLock(c)
  <2> SUFFICES ASSUME NEW q \in Turns, turnMutex[c] = q \/ turn[q].at \in Resting
               PROVE  /\ turn'[q].at \notin Resting => turn'[q].conv = c /\ turnMutex'[c] = q
                      /\ turn'[q].at = "busy" => turn'[q].conv \in Conversations
                      /\ turn'[q].at \in Resting => turn'[q].child = NoOne /\ turn'[q].got = "nothing"
    BY DEF OwnLock
  <2>1. CASE q = t  BY <1>1, <1>2, <1>6, <1>7, <2>1 DEF Resting
  <2>2. CASE q # t  BY <1>1, <1>2, <1>7, <2>2 DEF AgentInv, LocksInv
  <2> QED  BY <2>1, <2>2
<1>13. OneProcess(c)'
  <2>1. /\ turnMutex'[c] = t /\ turn'[t] = r /\ session'[c] = s /\ turn[t].at = "session"
        /\ UNCHANGED <<parser, child>>
    BY <1>1, <1>2, <1>7, <1>8
  <2>2. /\ Known(c, parser[c]) /\ Known(c, session[c].child)
        /\ parser[c] # NoOne /\ session[c].child # NoOne => parser[c] = session[c].child
        /\ ~(parser[c] # NoOne /\ child[parser[c]].reading /\ Gone(parser[c]))
    BY <1>2, <2>1 DEF OneProcess, Spawning
  <2> QED  BY <1>2, <1>4, <1>6, <2>1, <2>2 DEF OneProcess, Known, Spawning, Gone, Resting
<1>14. \A p \in Processes : child[p].conv = c => child[p].turn = NoOne  BY <1>2, NobodyServes
<1>15. ServesHolder(c)'  BY <1>1, <1>2, <1>6, <1>7, <1>14 DEF ServesHolder
<1> QED  BY <1>2, <1>9, <1>10, <1>11, <1>12, <1>13, <1>15, StepOf

(* A turn ends, and no slot is released.                                    *)
LEMMA PlainEnd ==
    ASSUME AgentInv, NEW t \in Turns, turn[t].at \notin Resting, NEW c, c = turn[t].conv,
           TurnEnds(t, turn), UNCHANGED <<parser, holders, activeAgents, waiting>>,
           SessionIn(c), CalmIn(c),
           turn[t].at \notin {"queued", "attached", "unattached", "grace", "failing"},
           \A p \in Processes : child[p].conv = c => child'[p].turn = NoOne
    PROVE  AgentInv'
<1>1. c \in Conversations /\ turn \in [Turns -> TurnRec]  BY HolderFacts DEF Conv
<1>2. /\ turn' = [turn EXCEPT ![t] = NewTurn]
      /\ turnMutex' = [turnMutex EXCEPT ![c] = IF @ = t THEN NoOne ELSE @]
  BY DEF TurnEnds, Conv
<1>3. NewTurn \in TurnRec  BY DEF NewTurn, TurnRec, TurnStates, Resting, Status
<1>4. turn' \in [Turns -> TurnRec] /\ turn'[t] = NewTurn /\ \A q \in Turns \ {t} : SameOrWoken(q)
  BY <1>1, <1>2, <1>3 DEF SameOrWoken
<1>5. SlotsInv'  BY <1>1, <1>2, <1>4, QueueKeeps DEF NewTurn
<1>6. ParserIn(c)  BY <1>1, ParserKept
<1> QED  BY <1>2, <1>4, <1>5, <1>6, TurnEnded

(* A turn that holds its lock goes on, and no slot is released.             *)
LEMMA PlainStep ==
    ASSUME AgentInv, NEW t \in Turns, turn[t].at \notin Resting, NEW c, c = turn[t].conv,
           NEW r \in TurnRec, turn' = [turn EXCEPT ![t] = r],
           UNCHANGED <<holders, activeAgents, waiting, turnMutex>>,
           SessionIn(c), ParserIn(c), CalmIn(c),
           turn[t].at # "queued", r.at \notin Resting \cup {"queued", "attached", "grace"},
           r.conv = c, r.child \in {NoOne, turn[t].child}, r.got = "terminal" => r.done,
           parser'[c] = NoOne \/ turn[t].at \notin {"attached", "unattached", "grace", "failing"},
           \/ \A p \in Processes : child[p].conv = c => child'[p].turn = NoOne
           \/ /\ r.at \in Serving /\ r.done = turn[t].done /\ r.child = turn[t].child
              /\ parser'[c] = parser[c] /\ session'[c].status = session[c].status
    PROVE  AgentInv'
<1>1. turn \in [Turns -> TurnRec]  BY DEF AgentInv, AgentTyped
<1>2. turn' \in [Turns -> TurnRec] /\ turn'[t] = r /\ \A q \in Turns \ {t} : turn'[q] = turn[q]
  BY <1>1
<1>3. SlotsInv'  BY <1>2, QueueKeeps
<1>4. \A q \in Turns \ {t} : SameOrWoken(q)  BY <1>2 DEF SameOrWoken
<1> QED  BY <1>2, <1>3, <1>4, HolderStep

(* A turn that holds its lock goes on and gives its slot back.              *)
LEMMA ReleaseStep ==
    ASSUME AgentInv, NEW t \in Turns, turn[t].at \notin Resting, NEW c, c = turn[t].conv,
           NEW r \in TurnRec, ReleasePersistentSlot(c, [turn EXCEPT ![t] = r]), UNCHANGED turnMutex,
           SessionIn(c), ParserIn(c), CalmIn(c),
           turn[t].at # "queued", r.at \notin Resting \cup {"queued", "attached", "grace"},
           r.conv = c, r.child \in {NoOne, turn[t].child}, r.got = "terminal" => r.done,
           parser'[c] = NoOne \/ turn[t].at \notin {"attached", "unattached", "grace", "failing"},
           \A p \in Processes : child[p].conv = c => child'[p].turn = NoOne
    PROVE  AgentInv'
<1> DEFINE tn == [turn EXCEPT ![t] = r]
<1>1. turn \in [Turns -> TurnRec]  BY DEF AgentInv, AgentTyped
<1>2. tn \in [Turns -> TurnRec] /\ tn[t] = r /\ \A q \in Turns \ {t} : tn[q] = turn[q]
  BY <1>1
<1>3. ReleasePersistentSlot(c, tn)  OBVIOUS
<1> HIDE DEF tn
<1>4. /\ SlotsInv' /\ turn' \in [Turns -> TurnRec]
      /\ \A q \in Turns : \/ turn'[q] = tn[q]
                          \/ tn[q].at = "queued" /\ turn'[q] = [tn[q] EXCEPT !.at = "granted"]
  BY <1>2, <1>3, SlotReleased
<1>5. turn'[t] = r /\ \A q \in Turns \ {t} : SameOrWoken(q)  BY <1>2, <1>4 DEF SameOrWoken
<1> QED  BY <1>4, <1>5, HolderStep

(* New options end an idle process; the slot is freed when it has ended.    *)
LEMMA RestartSteps ==
    ASSUME AgentInv, NEW t \in Turns, RestartForConfig(t) \/ Restarted(t)
    PROVE  AgentInv'
<1> SUFFICES ASSUME NEW c, c = turn[t].conv PROVE AgentInv'  OBVIOUS
<1>1. turn[t].at \in {"refresh", "restarting"}  BY DEF RestartForConfig, Restarted, TurnAt
<1>2. /\ c \in Conversations /\ turn[t] \in TurnRec /\ turn \in [Turns -> TurnRec] /\ OneProcess(c)
      /\ turn[t].at \notin Resting
      /\ \A p \in Processes : child[p].conv = c => child[p].turn = NoOne
      /\ TurnOf(parser[c]) = NoOne /\ (turn[t].got = "terminal" => turn[t].done)
      /\ parser[c] \in Processes \cup {NoOne} /\ session[c].child \in Processes \cup {NoOne}
  BY <1>1, HolderFacts, NobodyServes DEF Resting, Serving, Conv, AgentInv, AgentTyped, SessionRec
<1>3. Known(c, parser[c]) /\ Known(c, session[c].child)  BY <1>2 DEF OneProcess
<1>4. CASE RestartForConfig(t)
  <2>0. turn[t].at = "refresh" /\ UNCHANGED <<holders, activeAgents, waiting>>
    BY <1>4 DEF RestartForConfig, TurnAt
  <2>1. CASE TurnEnds(t, turn) /\ UNCHANGED <<session, parser, child>>
    BY <1>2, <2>0, <2>1, SessionKept, ChildKept, PlainEnd
  <2>2. CASE /\ child' = Signalled(StopReading(child, parser[c]), session[c].child)
             /\ parser' = [parser EXCEPT ![c] = NoOne]
             /\ session' = TakeChild(c)
             /\ turn' = [Settle(turn, TurnOf(parser[c])) EXCEPT ![t].at = "restarting"]
             /\ UNCHANGED turnMutex
    <3> DEFINE r == [turn[t] EXCEPT !.at = "restarting"]
    <3>1. turn' = [turn EXCEPT ![t] = r]  BY <1>2, <2>2 DEF Settle, TurnRec
    <3>2. r \in TurnRec /\ r.at = "restarting" /\ r.conv = c /\ r.child = turn[t].child
          /\ r.got = turn[t].got /\ r.done = turn[t].done
      BY <1>2 DEF TurnRec, TurnStates
    <3> HIDE DEF r
    <3>3. CalmIn(c)  BY <1>2, <1>3, <2>2, BothCalmed
    <3>4. \A p \in Processes : child[p].conv = c => child'[p].turn = NoOne
      BY <1>2, <3>3 DEF CalmIn, Calmed
    <3>5. SessionIn(c) /\ ParserIn(c)  BY <1>2, <2>2, ChildTaken, ParserForgotten
    <3> QED  BY <1>2, <2>0, <2>2, <3>1, <3>2, <3>3, <3>4, <3>5, PlainStep DEF Resting
  <2> QED  BY <1>4, <2>1, <2>2 DEF RestartForConfig, Conv
<1>5. CASE Restarted(t)
  <2> DEFINE r == [turn[t] EXCEPT !.at = "config", !.child = NoOne, !.status = "stopped"]
  <2>1. /\ turn[t].at = "restarting" /\ UNCHANGED <<parser, turnMutex, child>>
        /\ session' = MarkEnded(session, c, "stopped")
        /\ ReleasePersistentSlot(c, [turn EXCEPT ![t].at = "config", ![t].child = NoOne, ![t].status = "stopped"])
    BY <1>5 DEF Restarted, TurnAt, Conv
  <2>2. [turn EXCEPT ![t].at = "config", ![t].child = NoOne, ![t].status = "stopped"] = [turn EXCEPT ![t] = r]
    BY <1>2 DEF TurnRec
  <2>3. r \in TurnRec /\ r.at = "config" /\ r.conv = c /\ r.child = NoOne
        /\ r.got = turn[t].got /\ r.done = turn[t].done
    <3>1. "config" \in TurnStates /\ {"starting", "stopped"} \subseteq Status  BY DEF TurnStates, Status
    <3>2. r \in TurnRec  BY <1>2, <3>1 DEF TurnRec
    <3>3. /\ r.at = "config" /\ r.conv = c /\ r.child = NoOne
          /\ r.got = turn[t].got /\ r.done = turn[t].done
      BY <1>2 DEF TurnRec
    <3> QED  BY <3>2, <3>3
  <2>4. ReleasePersistentSlot(c, [turn EXCEPT ![t] = r])  BY <2>1, <2>2
  <2> HIDE DEF r
  <2>5. SessionIn(c) /\ ParserIn(c) /\ CalmIn(c)
    BY <1>2, <2>1, SessionEnded, ParserKept, ChildKept
  <2>6. \A p \in Processes : child[p].conv = c => child'[p].turn = NoOne  BY <1>2, <2>1
  <2> QED  BY <1>2, <2>1, <2>3, <2>4, <2>5, <2>6, ReleaseStep DEF Resting
<1> QED  BY <1>4, <1>5

(* A start that fails: the parser stops, the slot is freed, and the error is *)
(* thrown or answered by a fresh start.                                     *)
LEMMA FailureSteps ==
    ASSUME AgentInv, NEW t \in Turns,
           \/ SpawnCatch(t) \/ SpawnCleanup(t) \/ SpawnThrows(t)
           \/ RecoverFromResumeFailure(t) \/ RecoverFindsNoSession(t)
    PROVE  AgentInv'
<1> SUFFICES ASSUME NEW c, c = turn[t].conv PROVE AgentInv'  OBVIOUS
<1>1. /\ turn[t].at \in {"failing", "unattached", "cleanup", "thrown", "unavailable", "unwritten"}
      /\ turn[t].at = "unwritten" => ~IsLiveProcess(turn[t].child)
  BY DEF SpawnCatch, SpawnCleanup, SpawnThrows, RecoverFromResumeFailure, RecoverFindsNoSession, Resumes,
         Recovers, TurnAt
<1>0. \A p \in Processes : turn[t].conv = child[p].conv => child[p].turn = NoOne
  <2>1. CASE turn[t].at # "unwritten"
    BY <1>1, <2>1, NobodyServes DEF Resting, Serving
  <2>2. CASE turn[t].at = "unwritten"
    <3>1. ServesHolder(turn[t].conv) /\ turnMutex[turn[t].conv] = t /\ t # NoOne
      BY <2>2, HolderFacts DEF Resting, Conv
    <3> QED  BY <1>1, <2>2, <3>1, AgentLimits DEF ServesHolder, IsLiveProcess
  <2> QED  BY <2>1, <2>2
<1>2. /\ c \in Conversations /\ turn[t] \in TurnRec /\ turn \in [Turns -> TurnRec] /\ OneProcess(c)
      /\ turn[t].at \notin Resting /\ turnMutex[c] = t /\ t # NoOne
      /\ \A p \in Processes : child[p].conv = c => child[p].turn = NoOne
      /\ TurnOf(parser[c]) = NoOne /\ (turn[t].got = "terminal" => turn[t].done)
      /\ parser[c] \in Processes \cup {NoOne} /\ session[c].child \in Processes \cup {NoOne}
      /\ turn[t].child \in Processes \cup {NoOne}
      /\ session \in [Conversations -> SessionRec] /\ session[c] \in SessionRec
  <2>1. /\ c \in Conversations /\ turn[t] \in TurnRec /\ turn \in [Turns -> TurnRec] /\ OneProcess(c)
        /\ turn[t].at \notin Resting /\ turnMutex[c] = t /\ t # NoOne /\ ServesHolder(c)
    BY <1>1, HolderFacts DEF Resting, Conv
  <2>2. /\ parser[c] \in Processes \cup {NoOne} /\ session[c].child \in Processes \cup {NoOne}
        /\ turn[t].child \in Processes \cup {NoOne}
        /\ session \in [Conversations -> SessionRec] /\ session[c] \in SessionRec
    BY <2>1 DEF AgentInv, AgentTyped, SessionRec, TurnRec
  <2>3. TurnOf(parser[c]) = NoOne  BY <1>0, <2>1, <2>2 DEF TurnOf, OneProcess, Known
  <2> QED  BY <1>0, <2>1, <2>2, <2>3 DEF ServesHolder
<1>3. Known(c, parser[c]) /\ Known(c, session[c].child) /\ Known(c, turn[t].child)
  BY <1>2 DEF OneProcess
<1>4. CalmIn(c) => \A p \in Processes : child[p].conv = c => child'[p].turn = NoOne
  BY <1>2 DEF CalmIn, Calmed
<1> DEFINE locked == LockedOf(t)
<1>10. locked \in {"no", "yes", "recovering"}  BY <1>2 DEF LockedOf, TurnRec
<1>5. CASE SpawnCatch(t)
  <2> DEFINE r == [turn[t] EXCEPT !.at = "cleanup",
                                  !.child = IF TurnAt(t, "unattached") THEN NoOne ELSE turn[t].child]
  <2>1. /\ child' = Signalled(StopReading(child, parser[c]), turn[t].child)
        /\ parser' = [parser EXCEPT ![c] = NoOne]
        /\ UNCHANGED <<session, holders, activeAgents, waiting, turnMutex>>
    BY <1>5 DEF SpawnCatch, Conv
  <2>2. turn' = [turn EXCEPT ![t] = r]  BY <1>2, <1>5 DEF SpawnCatch, TurnRec
  <2>3. r \in TurnRec /\ r.at = "cleanup" /\ r.conv = c /\ r.child \in {NoOne, turn[t].child}
        /\ r.got = turn[t].got /\ r.done = turn[t].done
    <3>1. "cleanup" \in TurnStates  BY DEF TurnStates
    <3>2. r.child \in {NoOne, turn[t].child} /\ r.at = "cleanup"  BY <1>2 DEF TurnRec
    <3>3. r \in TurnRec  BY <1>2, <3>1, <3>2 DEF TurnRec
    <3> QED  BY <1>2, <3>2, <3>3 DEF TurnRec
  <2> HIDE DEF r
  <2>4. CalmIn(c)  BY <1>2, <1>3, <2>1, BothCalmed
  <2>5. SessionIn(c) /\ ParserIn(c) /\ parser'[c] = NoOne
    BY <1>2, <2>1, SessionKept, ParserForgotten
  <2> QED  BY <1>1, <1>2, <1>4, <2>1, <2>2, <2>3, <2>4, <2>5, PlainStep DEF Resting
<1>6. CASE SpawnCleanup(t)
  <2> DEFINE r == [turn[t] EXCEPT !.at = "thrown"]
  <2>1. /\ turn[t].at = "cleanup" /\ child' = Signalled(child, session[c].child)
        /\ session' = MarkEnded(session, c, "failed")
        /\ ReleasePersistentSlot(c, [turn EXCEPT ![t].at = "thrown"])
        /\ UNCHANGED <<parser, turnMutex>>
    BY <1>6 DEF SpawnCleanup, Conv, TurnAt
  <2>2. [turn EXCEPT ![t].at = "thrown"] = [turn EXCEPT ![t] = r]  OBVIOUS
  <2>3. r \in TurnRec /\ r.at = "thrown" /\ r.conv = c /\ r.child = turn[t].child
        /\ r.got = turn[t].got /\ r.done = turn[t].done
    BY <1>2 DEF TurnRec, TurnStates
  <2>4. ReleasePersistentSlot(c, [turn EXCEPT ![t] = r])  BY <2>1, <2>2
  <2> HIDE DEF r
  <2>5. SessionIn(c) /\ ParserIn(c) /\ CalmIn(c)
    BY <1>2, <1>3, <2>1, SessionEnded, ParserKept, ChildCalmed
  <2> QED  BY <1>2, <1>4, <2>1, <2>3, <2>4, <2>5, ReleaseStep DEF Resting
<1>7. CASE SpawnThrows(t)
  <2>0. turn[t].at = "thrown" /\ UNCHANGED <<parser, holders, activeAgents, waiting>>
    BY <1>7 DEF SpawnThrows, TurnAt
  <2>1. CASE TurnEnds(t, turn) /\ UNCHANGED <<session, child>>
    BY <1>2, <1>4, <2>0, <2>1, SessionKept, ChildKept, PlainEnd
  <2>2. CASE TurnGoes(t, "unavailable") /\ UNCHANGED <<session, child, turnMutex>>
    BY <1>2, <2>0, <2>2, TurnGoesTo DEF TurnStates, Serving, Resting, AgentInv, SlotsInv
  <2>3. CASE /\ TurnEnds(t, turn) /\ session' = MarkEnded(session, c, "failed")
             /\ child' = Signalled(child, session[c].child)
    <3>1. SessionIn(c) /\ CalmIn(c)  BY <1>2, <1>3, <2>3, SessionEnded, ChildCalmed
    <3> QED  BY <1>2, <1>4, <2>0, <2>3, <3>1, PlainEnd
  <2> QED  BY <1>7, <2>1, <2>2, <2>3 DEF SpawnThrows, Conv
<1>8. CASE RecoverFromResumeFailure(t)
  <2> DEFINE r == [turn[t] EXCEPT !.at = "spawn", !.child = NoOne, !.status = "starting", !.provider = FALSE,
                                  !.resuming = FALSE, !.locked = locked]
             s == [session[c] EXCEPT !.child = NoOne, !.status = "starting", !.provider = FALSE]
             tn == [Settle(turn, TurnOf(parser[c])) EXCEPT ![t].at = "spawn", ![t].child = NoOne,
                       ![t].status = "starting", ![t].provider = FALSE, ![t].resuming = FALSE,
                       ![t].locked = locked]
  <2>1. /\ session[c].here
        /\ child' = Signalled(StopReading(child, parser[c]), session[c].child)
        /\ parser' = [parser EXCEPT ![c] = NoOne] /\ UNCHANGED turnMutex
        /\ ReleasePersistentSlot(c, tn)
    BY <1>8 DEF RecoverFromResumeFailure, Conv, TurnAt
  <2>2. session' = [session EXCEPT ![c] = s]
    BY <1>2, <1>8 DEF RecoverFromResumeFailure, Conv, SessionRec
  <2>3. tn = [turn EXCEPT ![t] = r]  BY <1>2 DEF Settle, TurnRec
  <2>4. ReleasePersistentSlot(c, [turn EXCEPT ![t] = r])  BY <2>1, <2>3
  <2>5. r \in TurnRec /\ r.at = "spawn" /\ r.conv = c /\ r.child = NoOne
        /\ r.got = turn[t].got /\ r.done = turn[t].done
    <3>1. "spawn" \in TurnStates /\ {"starting", "stopped"} \subseteq Status  BY DEF TurnStates, Status
    <3>2. r \in TurnRec  BY <1>2, <1>10, <3>1 DEF TurnRec
    <3>3. /\ r.at = "spawn" /\ r.conv = c /\ r.child = NoOne
          /\ r.got = turn[t].got /\ r.done = turn[t].done
      BY <1>2 DEF TurnRec
    <3> QED  BY <3>2, <3>3
  <2>6. s \in SessionRec /\ s.child = NoOne /\ s.here
    BY <1>2, <2>1 DEF SessionRec, Status
  <2> HIDE DEF r, s, tn
  <2>7. SessionIn(c)  BY <1>2, <2>2, <2>6, SessionSet
  <2>8. ParserIn(c) /\ CalmIn(c) /\ parser'[c] = NoOne  BY <1>2, <1>3, <2>1, ParserForgotten, BothCalmed
  <2> QED  BY <1>1, <1>2, <1>4, <2>1, <2>4, <2>5, <2>7, <2>8, ReleaseStep DEF Resting
<1>9. CASE RecoverFindsNoSession(t)
  <2> DEFINE r == [turn[t] EXCEPT !.at = "thrown", !.resuming = FALSE, !.locked = locked]
             tn == [Settle(turn, TurnOf(parser[c])) EXCEPT ![t].at = "thrown", ![t].resuming = FALSE,
                       ![t].locked = locked]
  <2>1. /\ child' = StopReading(child, parser[c])
        /\ parser' = [parser EXCEPT ![c] = NoOne] /\ UNCHANGED <<session, turnMutex>>
        /\ ReleasePersistentSlot(c, tn)
    BY <1>9 DEF RecoverFindsNoSession, Conv, TurnAt
  <2>2. tn = [turn EXCEPT ![t] = r]  BY <1>2 DEF Settle, TurnRec
  <2>3. ReleasePersistentSlot(c, [turn EXCEPT ![t] = r])  BY <2>1, <2>2
  <2>4. r \in TurnRec /\ r.at = "thrown" /\ r.conv = c /\ r.child = turn[t].child
        /\ r.got = turn[t].got /\ r.done = turn[t].done
    <3>1. "thrown" \in TurnStates  BY DEF TurnStates
    <3>2. r \in TurnRec  BY <1>2, <1>10, <3>1 DEF TurnRec
    <3> QED  BY <1>2, <3>2 DEF TurnRec
  <2> HIDE DEF r, tn
  <2>5. SessionIn(c) /\ ParserIn(c) /\ CalmIn(c) /\ parser'[c] = NoOne
    BY <1>2, <1>3, <2>1, SessionKept, ParserForgotten, ChildCalmed
  <2> QED  BY <1>1, <1>2, <1>4, <2>1, <2>3, <2>4, <2>5, ReleaseStep DEF Resting
<1> QED  BY <1>5, <1>6, <1>7, <1>8, <1>9

\* What a step of turn t of conversation c does when it goes on as r, with the
\* session s and the process p as k.
StepAs(t, c, r, s, p, k) ==
    /\ turn' = [turn EXCEPT ![t] = r] /\ session' = [session EXCEPT ![c] = s]
    /\ child' = [child EXCEPT ![p] = k]
    /\ UNCHANGED <<holders, activeAgents, waiting, turnMutex>>

(* Such a step keeps the invariant if it does so for its conversation.      *)
LEMMA StepAsStep ==
    ASSUME AgentInv, NEW t \in Turns, turn[t].at \notin Resting \cup {"queued"}, NEW c, c = turn[t].conv,
           NEW p \in Processes, NEW r \in TurnRec, NEW s \in SessionRec, NEW k \in ChildRec,
           StepAs(t, c, r, s, p, k), ParserIn(c) \/ parser' = [parser EXCEPT ![c] = p],
           r.conv = c, r.at \notin Resting \cup {"queued"},
           child[p].conv \in {c, NoOne}, k.conv = c, k.life # "none",
           OneProcess(c)', ServesHolder(c)'
    PROVE  AgentInv'
<1>1. /\ c \in Conversations /\ turnMutex[c] = t /\ turn \in [Turns -> TurnRec]
      /\ session \in [Conversations -> SessionRec] /\ child \in [Processes -> ChildRec]
      /\ parser \in [Conversations -> Processes \cup {NoOne}]
  BY HolderFacts DEF Conv, AgentInv, AgentTyped
<1>2. /\ turn' \in [Turns -> TurnRec] /\ turn'[t] = r /\ \A q \in Turns \ {t} : turn'[q] = turn[q]
      /\ session' \in [Conversations -> SessionRec] /\ \A d \in Conversations \ {c} : session'[d] = session[d]
      /\ child' \in [Processes -> ChildRec] /\ child'[p] = k /\ \A q \in Processes \ {p} : child'[q] = child[q]
  BY <1>1 DEF StepAs
<1>3. parser' \in [Conversations -> Processes \cup {NoOne}] /\ \A d \in Conversations \ {c} : parser'[d] = parser[d]
  BY <1>1 DEF ParserIn
<1>4. AgentTyped'  BY <1>2, <1>3 DEF StepAs, AgentInv, AgentTyped
<1>5. ProcessesInv'  BY <1>1, <1>2, AgentLimits DEF AgentInv, ProcessesInv
<1>6. SlotsInv'  BY <1>2, QueueKeeps DEF StepAs
<1>7. OnlyOf(c)  BY <1>1, <1>2, <1>3 DEF OnlyOf, StepAs
<1>8. OwnLock(c)
  <2> SUFFICES ASSUME NEW q \in Turns, turnMutex[c] = q \/ turn[q].at \in Resting
               PROVE  /\ turn'[q].at \notin Resting => turn'[q].conv = c /\ turnMutex'[c] = q
                      /\ turn'[q].at = "busy" => turn'[q].conv \in Conversations
                      /\ turn'[q].at \in Resting => turn'[q].child = NoOne /\ turn'[q].got = "nothing"
    BY DEF OwnLock
  <2>1. CASE q = t  BY <1>1, <1>2, <2>1 DEF StepAs, Resting
  <2>2. CASE q # t  BY <1>1, <1>2, <2>2 DEF AgentInv, LocksInv
  <2> QED  BY <2>1, <2>2
<1> QED  BY <1>1, <1>4, <1>5, <1>6, <1>7, <1>8, StepOf

(* A process is started and read, and gets a turn to serve.                 *)
LEMMA LaunchStep ==
    ASSUME AgentInv, NEW t \in Turns, NEW p \in Processes, Launch(t, p)
    PROVE  AgentInv'
<1> SUFFICES ASSUME NEW c, c = turn[t].conv PROVE AgentInv'  OBVIOUS
<1>1. turn[t].at = "files" /\ child[p].life = "none" /\ UNCHANGED <<parser, holders, activeAgents, waiting, turnMutex>>
  BY DEF Launch, TurnAt
<1>2. /\ c \in Conversations /\ turn[t] \in TurnRec /\ turn \in [Turns -> TurnRec] /\ OneProcess(c)
      /\ turn[t].at \notin Resting /\ turnMutex[c] = t /\ t # NoOne
      /\ \A q \in Processes : child[q].conv = c => child[q].turn = NoOne
      /\ turn[t].got = "terminal" => turn[t].done
      /\ parser[c] \in Processes \cup {NoOne}
      /\ session \in [Conversations -> SessionRec] /\ session[c] \in SessionRec
      /\ child[p].conv = NoOne /\ p # NoOne
  BY <1>1, HolderFacts, NobodyServes, AgentLimits
  DEF Resting, Serving, Conv, AgentInv, AgentTyped, ProcessesInv
<1> DEFINE r == [turn[t] EXCEPT !.at = "attached", !.child = p, !.status = "running"]
           s == [session[c] EXCEPT !.child = IF session[c].here THEN p ELSE @,
                                   !.status = IF session[c].here THEN "running" ELSE @]
           k == [NoChild EXCEPT !.conv = c, !.life = "live"]
<1>3. StepAs(t, c, r, s, p, k)
  BY <1>1, <1>2 DEF Launch, StepAs, Conv, TurnRec, SessionRec
<1>4. r \in TurnRec /\ r.at = "attached" /\ r.conv = c /\ r.child = p
      /\ r.got = turn[t].got /\ r.done = turn[t].done
  BY <1>2 DEF TurnRec, TurnStates, Status
<1>5. /\ s \in SessionRec /\ s.here = session[c].here
      /\ s.child \in {session[c].child, p} /\ (s.here => s.child = p)
      /\ ~s.here => s.child = session[c].child /\ s.status = session[c].status
  BY <1>2 DEF SessionRec, Status
<1>6. k \in ChildRec /\ k.conv = c /\ k.life = "live" /\ k.turn = NoOne
  BY <1>2 DEF NoChild, ChildRec, Life
<1> HIDE DEF r, s, k
<1>7. /\ turn'[t] = r /\ session'[c] = s /\ child'[p] = k /\ \A q \in Processes \ {p} : child'[q] = child[q]
  BY <1>2, <1>3 DEF StepAs, AgentInv, AgentTyped
<1>8. parser[c] # p  BY <1>1, <1>2 DEF OneProcess, Known
<1>9. OneProcess(c)'
  <2>1. ~(parser[c] # NoOne /\ child[parser[c]].reading /\ Gone(parser[c])) /\ Known(c, parser[c])
    BY <1>1, <1>2 DEF OneProcess
  <2>2. ~session[c].here => session[c].child = NoOne /\ session[c].status = "stopped"  BY <1>2 DEF OneProcess
  <2> QED  BY <1>1, <1>2, <1>4, <1>5, <1>6, <1>7, <1>8, <2>1, <2>2 DEF OneProcess, Known, Spawning, Gone, Resting
<1>10. ServesHolder(c)'
  BY <1>1, <1>2, <1>4, <1>6, <1>7 DEF ServesHolder
<1>11. ParserIn(c)  BY <1>1, <1>2, ParserKept
<1> QED  BY <1>1, <1>2, <1>3, <1>4, <1>5, <1>6, <1>9, <1>10, <1>11, StepAsStep DEF Resting

(* The parser of the new process is registered.                             *)
LEMMA ReadingStep ==
    ASSUME AgentInv, NEW t \in Turns, StartReading(t)
    PROVE  AgentInv'
<1> SUFFICES ASSUME NEW c, c = turn[t].conv, NEW p, p = turn[t].child PROVE AgentInv'  OBVIOUS
<1>1. turn[t].at = "attached" /\ UNCHANGED <<session, holders, activeAgents, waiting, turnMutex>>
  BY DEF StartReading, TurnAt
<1>2. /\ c \in Conversations /\ turn[t] \in TurnRec /\ turn \in [Turns -> TurnRec] /\ OneProcess(c)
      /\ turn[t].at \notin Resting /\ turnMutex[c] = t /\ t # NoOne
      /\ \A q \in Processes : child[q].conv = c => child[q].turn = NoOne
      /\ turn[t].got = "terminal" => turn[t].done
      /\ parser \in [Conversations -> Processes \cup {NoOne}]
      /\ session \in [Conversations -> SessionRec] /\ session[c] \in SessionRec
      /\ child \in [Processes -> ChildRec]
  BY <1>1, HolderFacts, NobodyServes DEF Resting, Serving, Conv, AgentInv, AgentTyped
<1>3. /\ p \in Processes /\ p # NoOne /\ child[p].conv = c /\ child[p].life # "none" /\ child[p] \in ChildRec
      /\ session[c].child \in {NoOne, p}
  BY <1>1, <1>2 DEF OneProcess, Known, TurnRec
<1> DEFINE r == [turn[t] EXCEPT !.at = "grace"]
           k == [child[p] EXCEPT !.reading = TRUE, !.exit = "tracked"]
<1>4. child' = [child EXCEPT ![p] = k] /\ parser' = [parser EXCEPT ![c] = p] /\ turn' = [turn EXCEPT ![t] = r]
  BY <1>2, <1>3 DEF StartReading, Conv, TurnGoes, ChildRec
<1>5. r \in TurnRec /\ r.at = "grace" /\ r.conv = c /\ r.child = p /\ r.got = turn[t].got /\ r.done = turn[t].done
  BY <1>2 DEF TurnRec, TurnStates
<1>6. k \in ChildRec /\ k.conv = c /\ k.life = child[p].life /\ k.turn = NoOne
  BY <1>2, <1>3 DEF ChildRec
<1> HIDE DEF r, k
<1>7. StepAs(t, c, r, session[c], p, k)  BY <1>1, <1>2, <1>4 DEF StepAs
<1>8. /\ turn'[t] = r /\ parser'[c] = p /\ child'[p] = k /\ \A q \in Processes \ {p} : child'[q] = child[q]
  BY <1>2, <1>3, <1>4
<1>9. OneProcess(c)'
  <2>1. ~session[c].here => session[c].child = NoOne /\ session[c].status = "stopped"  BY <1>2 DEF OneProcess
  <2> QED  BY <1>1, <1>2, <1>3, <1>5, <1>6, <1>8, <2>1 DEF OneProcess, Known, Spawning, Resting
<1>10. ServesHolder(c)'  BY <1>1, <1>2, <1>5, <1>6, <1>8 DEF ServesHolder
<1> QED  BY <1>1, <1>2, <1>3, <1>4, <1>5, <1>6, <1>7, <1>9, <1>10, StepAsStep DEF Resting

(* The process that is read gets the turn to serve.                         *)
LEMMA CreateStep ==
    ASSUME AgentInv, NEW t \in Turns, CreateTurn(t)
    PROVE  AgentInv'
<1> SUFFICES ASSUME NEW c, c = turn[t].conv, NEW p, p = parser[c] PROVE AgentInv'  OBVIOUS
<1>1. /\ turn[t].at = "turn" /\ UNCHANGED <<parser, holders, activeAgents, waiting, turnMutex>>
      /\ turn[t].child # NoOne /\ p # NoOne /\ child[p].turn = NoOne /\ child[p].reading
  BY DEF CreateTurn, TurnAt, Available, IsLiveProcess, Conv
<1>2. /\ c \in Conversations /\ turn[t] \in TurnRec /\ turn \in [Turns -> TurnRec] /\ OneProcess(c)
      /\ turn[t].at \notin Resting /\ turnMutex[c] = t /\ t # NoOne
      /\ \A q \in Processes : child[q].conv = c => child[q].turn = NoOne
      /\ parser \in [Conversations -> Processes \cup {NoOne}]
      /\ session \in [Conversations -> SessionRec] /\ session[c] \in SessionRec
      /\ child \in [Processes -> ChildRec]
  BY <1>1, HolderFacts, NobodyServes DEF Resting, Serving, Conv, AgentInv, AgentTyped
<1>3. /\ p \in Processes /\ p = turn[t].child /\ child[p].conv = c /\ child[p] \in ChildRec
      /\ child[p].life # "none" /\ ~Gone(p)
  BY <1>1, <1>2 DEF OneProcess, Known, Spawning
<1>4. child[p].life = "live"  BY <1>3 DEF ChildRec, Life, Gone
<1> DEFINE r == [turn[t] EXCEPT !.at = "write", !.status = "running", !.got = "nothing", !.done = FALSE]
           s == [session[c] EXCEPT !.child = IF session[c].here THEN p ELSE @,
                                   !.status = IF session[c].here THEN "running" ELSE @]
           k == [child[p] EXCEPT !.turn = t]
<1>5. StepAs(t, c, r, s, p, k)
  <2>1. child' = [child EXCEPT ![p] = k]  BY <1>3 DEF CreateTurn, Conv
  <2>2. turn' = [turn EXCEPT ![t] = r]  BY <1>2 DEF CreateTurn, TurnRec
  <2>3. session' = AttachProcess(c, p)  BY <1>3 DEF CreateTurn, Conv
  <2>4. session' = [session EXCEPT ![c] = s]  BY <1>2, <2>3 DEF AttachProcess, SessionRec
  <2> QED  BY <1>1, <2>1, <2>2, <2>4 DEF StepAs
<1>6. r \in TurnRec /\ r.at = "write" /\ r.conv = c /\ r.child = p /\ r.got = "nothing" /\ r.done = FALSE
  BY <1>2, <1>3 DEF TurnRec, TurnStates, Serving, Status
<1>7. /\ s \in SessionRec /\ s.here = session[c].here
      /\ s.here => s.child = p /\ s.status = "running"
      /\ ~s.here => s.child = session[c].child /\ s.status = session[c].status
  BY <1>2, <1>3 DEF SessionRec, Status
<1>8. k \in ChildRec /\ k.conv = c /\ k.life = "live" /\ k.turn = t
  BY <1>3, <1>4 DEF ChildRec
<1> HIDE DEF r, s, k
<1>9. /\ turn'[t] = r /\ session'[c] = s /\ child'[p] = k /\ \A q \in Processes \ {p} : child'[q] = child[q]
  BY <1>2, <1>3, <1>5 DEF StepAs
<1>10. ~session[c].here => session[c].child = NoOne /\ session[c].status = "stopped"  BY <1>2 DEF OneProcess
<1>11. OneProcess(c)'
  BY <1>1, <1>2, <1>3, <1>6, <1>7, <1>8, <1>9, <1>10 DEF OneProcess, Known, Spawning, Gone, Resting
<1>12. ServesHolder(c)'
  BY <1>1, <1>2, <1>3, <1>6, <1>7, <1>8, <1>9, <1>10 DEF ServesHolder, Serving
<1>13. ParserIn(c)  BY <1>1, <1>2, ParserKept
<1> QED
  BY <1>1, <1>2, <1>3, <1>5, <1>6, <1>7, <1>8, <1>11, <1>12, <1>13, StepAsStep DEF Resting

(* A turn that no process serves any more is finished.                      *)
LEMMA Finished ==
    ASSUME AgentInv, NEW t \in Turns, turn[t].at \notin Resting, NEW c, c = turn[t].conv, FinishTurn(t),
           \A p \in Processes : child[p].conv = c => child[p].turn = NoOne
    PROVE  /\ SessionIn(c) /\ CalmIn(c)
           /\ \A p \in Processes : child[p].conv = c => child'[p].turn = NoOne
<1>1. /\ c \in Conversations /\ Known(c, session[c].child) /\ session[c].child \in Processes \cup {NoOne}
  BY HolderFacts DEF Conv, OneProcess, AgentInv, AgentTyped, SessionRec
<1>2. CASE session' = MarkIdle(c) /\ UNCHANGED child
  BY <1>1, <1>2, SessionIdle, ChildKept
<1>3. CASE session' = MarkEnded(session, c, "failed") /\ child' = Signalled(child, session[c].child)
  <2>1. SessionIn(c) /\ CalmIn(c)  BY <1>1, <1>3, SessionEnded, ChildCalmed
  <2> QED  BY <2>1 DEF CalmIn, Calmed
<1> QED  BY <1>2, <1>3 DEF FinishTurn, Conv

(* A turn that is served ends, or its caller leaves.                        *)
LEMMA ServedSteps ==
    ASSUME AgentInv, NEW t \in Turns,
           \/ TurnCatch(t) \/ TurnCompletes(t) \/ StreamEnds(t) \/ CallerLeaves(t)
           \/ CancelSettles(t) \/ CancelExits(t) \/ CancelTimesOut(t) \/ KillTimesOut(t)
    PROVE  AgentInv'
<1> SUFFICES ASSUME NEW c, c = turn[t].conv PROVE AgentInv'  OBVIOUS
<1>1. turn[t].at \in Serving \/ (TurnCatch(t) /\ turn[t].at = "unavailable")
  BY DEF TurnCatch, TurnCompletes, StreamEnds, CallerLeaves, CancelSettles, CancelExits, CancelTimesOut,
         KillTimesOut, TurnAt, Serving
<1>2. /\ c \in Conversations /\ turn[t] \in TurnRec /\ turn \in [Turns -> TurnRec] /\ OneProcess(c)
      /\ turn[t].at \notin Resting /\ turnMutex[c] = t /\ t # NoOne /\ ServesHolder(c)
      /\ parser[c] \in Processes \cup {NoOne} /\ session[c].child \in Processes \cup {NoOne}
      /\ turn[t].child \in Processes \cup {NoOne}
  BY <1>1, HolderFacts DEF Resting, Serving, Conv, AgentInv, AgentTyped, SessionRec, TurnRec
<1>3. Known(c, parser[c]) /\ Known(c, session[c].child) /\ Known(c, turn[t].child)
  BY <1>2 DEF OneProcess
<1>4. turn[t].at \notin Resting \cup {"queued", "attached", "unattached", "grace", "failing"}
  BY <1>1, <1>2 DEF Serving
<1>5. \A q \in Processes : child[q].conv = c /\ child[q].turn # NoOne =>
         parser[c] = q /\ turn[t].child = q /\ ~Gone(q) /\ ~turn[t].done
  BY <1>2 DEF ServesHolder, Gone
<1>6. turn[t].got = "terminal" => turn[t].done  BY <1>2 DEF ServesHolder
<1>7. CalmIn(c) /\ (parser[c] # NoOne => child'[parser[c]].turn = NoOne) =>
         \A q \in Processes : child[q].conv = c => child'[q].turn = NoOne
  <2> SUFFICES ASSUME CalmIn(c), parser[c] # NoOne => child'[parser[c]].turn = NoOne,
                      NEW q \in Processes, child[q].conv = c
               PROVE  child'[q].turn = NoOne
    OBVIOUS
  <2>1. child'[q].turn \in {NoOne, child[q].turn} /\ q # NoOne  BY AgentLimits DEF CalmIn, Calmed
  <2> QED  BY <1>5, <2>1
<1>8. CASE TurnCatch(t)
  <2> DEFINE ch == IF TurnAt(t, "unavailable") THEN child ELSE CancelActiveTurn(child, parser[c])
  <2>1. /\ TurnEnds(t, turn) /\ UNCHANGED <<parser, holders, activeAgents, waiting>>
        /\ \/ session' = MarkIdle(c) /\ child' = ch
           \/ session' = MarkEnded(session, c, "failed") /\ child' = Signalled(ch, session[c].child)
    BY <1>8 DEF TurnCatch, Conv
  <2>2. SessionIn(c)  BY <1>2, <2>1, SessionIdle, SessionEnded
  <2>3. CASE turn[t].at = "unavailable"
    <3>1. ch = child  BY <2>3 DEF TurnAt
    <3>2. \A q \in Processes : child[q].conv = c => child[q].turn = NoOne
      BY <1>2, <2>3, NobodyServes DEF Serving, Resting
    <3> HIDE DEF ch
    <3>3. CalmIn(c)
      <4>1. CASE child' = Signalled(child, session[c].child)  BY <1>2, <1>3, <4>1, ChildCalmed
      <4>2. CASE child' = child  BY <1>2, <4>2, ChildKept
      <4> QED  BY <2>1, <3>1, <4>1, <4>2
    <3>4. \A q \in Processes : child[q].conv = c => child'[q].turn = NoOne
      BY <3>2, <3>3 DEF CalmIn, Calmed
    <3> QED  BY <1>2, <1>4, <2>1, <2>2, <3>3, <3>4, PlainEnd
  <2>4. CASE turn[t].at # "unavailable"
    <3>1. ch = CancelActiveTurn(child, parser[c])  BY <2>4 DEF TurnAt
    <3> HIDE DEF ch
    <3>2. CASE child' = Signalled(CancelActiveTurn(child, parser[c]), session[c].child)
      BY <1>2, <1>3, <1>4, <1>7, <2>1, <2>2, <3>2, BothCalmed, PlainEnd
    <3>3. CASE child' = CancelActiveTurn(child, parser[c])
      <4>1. CalmIn(c)  BY <1>2, <1>3, <3>3, ChildCalmed
      <4>2. parser[c] # NoOne => child'[parser[c]].turn = NoOne
        BY <1>2, <3>3 DEF CancelActiveTurn, AgentInv, AgentTyped, ChildRec
      <4> QED  BY <1>2, <1>4, <1>7, <2>1, <2>2, <4>1, <4>2, PlainEnd
    <3> QED  BY <2>1, <3>1, <3>2, <3>3
  <2> QED  BY <2>3, <2>4
<1>9. CASE TurnCompletes(t) \/ (CancelSettles(t) /\ IsLiveProcess(turn[t].child))
  <2>1. /\ TurnEnds(t, turn) /\ UNCHANGED <<parser, holders, activeAgents, waiting>> /\ FinishTurn(t)
        /\ turn[t].done
    BY <1>6, <1>9 DEF TurnCompletes, CancelSettles
  <2>2. \A q \in Processes : child[q].conv = c => child[q].turn = NoOne  BY <1>5, <2>1
  <2>3. /\ SessionIn(c) /\ CalmIn(c)
        /\ \A q \in Processes : child[q].conv = c => child'[q].turn = NoOne
    BY <1>2, <2>1, <2>2, Finished
  <2> QED  BY <1>2, <1>4, <2>1, <2>3, PlainEnd
<1>10. CASE \/ StreamEnds(t) \/ CancelExits(t)
            \/ CancelSettles(t) /\ ~IsLiveProcess(turn[t].child)
  <2>1. /\ TurnEnds(t, turn) /\ UNCHANGED <<session, parser, holders, activeAgents, waiting, child>>
        /\ turn[t].done \/ Gone(turn[t].child)
    BY <1>10 DEF StreamEnds, CancelExits, CancelSettles
  <2>2. \A q \in Processes : child[q].conv = c => child'[q].turn = NoOne  BY <1>5, <2>1
  <2> QED  BY <1>2, <1>4, <2>1, <2>2, SessionKept, ChildKept, PlainEnd
<1>11. CASE CallerLeaves(t)
  <2>0. turn[t].got = "event" /\ UNCHANGED <<session, parser, holders, activeAgents, waiting>>
    BY <1>11 DEF CallerLeaves
  <2>1. CASE turn' = [turn EXCEPT ![t].at = "cancel"] /\ UNCHANGED <<child, turnMutex>>
    <3> DEFINE r == [turn[t] EXCEPT !.at = "cancel"]
    <3>1. turn' = [turn EXCEPT ![t] = r]  BY <2>1
    <3>2. r \in TurnRec /\ r.at = "cancel" /\ r.conv = c /\ r.child = turn[t].child
          /\ r.got = turn[t].got /\ r.done = turn[t].done
      BY <1>2 DEF TurnRec, TurnStates, Serving
    <3> HIDE DEF r
    <3>3. SessionIn(c) /\ ParserIn(c) /\ CalmIn(c)  BY <1>2, <2>0, <2>1, SessionKept, ParserKept, ChildKept
    <3> QED  BY <1>2, <1>4, <2>0, <2>1, <3>1, <3>2, <3>3, PlainStep DEF Resting, Serving
  <2>2. CASE child' = CancelActiveTurn(child, parser[c]) /\ TurnEnds(t, turn)
    <3>1. CalmIn(c)  BY <1>2, <1>3, <2>2, ChildCalmed
    <3>2. parser[c] # NoOne => child'[parser[c]].turn = NoOne
      BY <1>2, <2>2 DEF CancelActiveTurn, AgentInv, AgentTyped, ChildRec
    <3> QED  BY <1>2, <1>4, <1>7, <2>0, <2>2, <3>1, <3>2, SessionKept, PlainEnd
  <2> QED  BY <1>11, <2>1, <2>2 DEF CallerLeaves, TurnGoes, Conv
<1>12. CASE CancelTimesOut(t)
  <2> DEFINE r == [turn[t] EXCEPT !.at = "killing"]
  <2>1. /\ child' = Signalled(child, turn[t].child) /\ turn' = [turn EXCEPT ![t] = r]
        /\ UNCHANGED <<session, parser, holders, activeAgents, waiting, turnMutex>>
    BY <1>12 DEF CancelTimesOut, TurnGoes
  <2>2. r \in TurnRec /\ r.at = "killing" /\ r.conv = c /\ r.child = turn[t].child
        /\ r.got = turn[t].got /\ r.done = turn[t].done
    BY <1>2 DEF TurnRec, TurnStates, Serving
  <2> HIDE DEF r
  <2>3. SessionIn(c) /\ ParserIn(c) /\ CalmIn(c)  BY <1>2, <1>3, <2>1, SessionKept, ParserKept, ChildCalmed
  <2> QED  BY <1>2, <1>4, <1>6, <2>1, <2>2, <2>3, PlainStep DEF Resting, Serving
<1>13. CASE KillTimesOut(t)
  <2>1. /\ child' = Signalled(StopReading(child, parser[c]), session[c].child)
        /\ parser' = [parser EXCEPT ![c] = NoOne] /\ session' = MarkEnded(session, c, "failed")
        /\ turnMutex' = [turnMutex EXCEPT ![c] = IF @ = t THEN NoOne ELSE @]
        /\ ReleasePersistentSlot(c, [turn EXCEPT ![t] = NewTurn])
    BY <1>13 DEF KillTimesOut, Conv
  <2>2. CalmIn(c) /\ (parser[c] # NoOne => child'[parser[c]].turn = NoOne)
    BY <1>2, <1>3, <2>1, BothCalmed
  <2>3. SessionIn(c) /\ ParserIn(c)  BY <1>2, <2>1, SessionEnded, ParserForgotten
  <2> DEFINE tn == [turn EXCEPT ![t] = NewTurn]
  <2>4. NewTurn \in TurnRec /\ NewTurn.at = "new"  BY DEF NewTurn, TurnRec, TurnStates, Resting, Status
  <2>5. tn \in [Turns -> TurnRec] /\ tn[t] = NewTurn /\ \A q \in Turns \ {t} : tn[q] = turn[q]
    BY <1>2, <2>4
  <2>6. ReleasePersistentSlot(c, tn)  BY <2>1
  <2> HIDE DEF tn
  <2>7. /\ SlotsInv' /\ turn' \in [Turns -> TurnRec]
        /\ \A q \in Turns : \/ turn'[q] = tn[q]
                            \/ tn[q].at = "queued" /\ turn'[q] = [tn[q] EXCEPT !.at = "granted"]
    BY <1>4, <2>4, <2>5, <2>6, SlotReleased
  <2>8. turn'[t] = NewTurn /\ \A q \in Turns \ {t} : SameOrWoken(q)
    BY <2>4, <2>5, <2>7 DEF SameOrWoken
  <2> QED  BY <1>2, <1>4, <1>7, <2>1, <2>2, <2>3, <2>7, <2>8, TurnEnded
<1> QED  BY <1>8, <1>9, <1>10, <1>11, <1>12, <1>13

(* The exit of a process is noted; what is left of its conversation is      *)
(* signalled.                                                               *)
LEMMA ExitNoted ==
    ASSUME AgentInv, NEW c \in Conversations, NEW x \in Processes \cup {NoOne}, Known(c, x),
           NEW p \in Processes, child[p].conv = c, child[p].life # "none", NEW e \in {"stopping", "done"},
           child' = [Signalled(child, x) EXCEPT ![p].exit = e]
    PROVE  CalmIn(c)
<1> DEFINE f == Signalled(child, x)
           k == [f[p] EXCEPT !.exit = e]
<1>1. child \in [Processes -> ChildRec]  BY DEF AgentInv, AgentTyped
<1>2. /\ f \in [Processes -> ChildRec]
      /\ \A q \in Processes :
            /\ f[q].conv = child[q].conv /\ f[q].life = child[q].life
            /\ f[q].reading = child[q].reading /\ f[q].turn = child[q].turn
            /\ f[q].exit = child[q].exit
            /\ f[q] = child[q] \/ child[q].conv = c
  <2>1. CASE x = NoOne  BY <1>1, <2>1 DEF Signalled
  <2>2. CASE x # NoOne
    <3> DEFINE r == [child[x] EXCEPT !.signalled = TRUE]
    <3>1. child[x] \in ChildRec /\ child[x].conv = c  BY <1>1, <2>2 DEF Known
    <3>2. f = [child EXCEPT ![x] = r]  BY <1>1, <2>2, <3>1 DEF Signalled, ChildRec
    <3>3. /\ r \in ChildRec /\ r.conv = child[x].conv /\ r.life = child[x].life
          /\ r.reading = child[x].reading /\ r.turn = child[x].turn /\ r.exit = child[x].exit
      BY <3>1 DEF ChildRec
    <3> HIDE DEF r, f
    <3> QED  BY <1>1, <2>2, <3>1, <3>2, <3>3
  <2> QED  BY <2>1, <2>2
<1> HIDE DEF f
<1>3. child' = [f EXCEPT ![p] = k]  BY <1>2 DEF f, ChildRec
<1>4. /\ k \in ChildRec /\ k.conv = f[p].conv /\ k.life = f[p].life
      /\ k.reading = f[p].reading /\ k.turn = f[p].turn
  BY <1>2 DEF ChildRec
<1> HIDE DEF k
<1>5. child' \in [Processes -> ChildRec]  BY <1>2, <1>3, <1>4
<1>6. child'[p] = k /\ \A q \in Processes \ {p} : child'[q] = f[q]  BY <1>2, <1>3
<1>7. \A q \in Processes : Calmed(q) /\ (child'[q] = child[q] \/ child[q].conv = c)
  <2> SUFFICES ASSUME NEW q \in Processes
               PROVE  Calmed(q) /\ (child'[q] = child[q] \/ child[q].conv = c)
    OBVIOUS
  <2>1. CASE q = p  BY <1>2, <1>4, <1>6, <2>1 DEF Calmed
  <2>2. CASE q # p  BY <1>2, <1>6, <2>2 DEF Calmed
  <2> QED  BY <2>1, <2>2
<1> QED  BY <1>5, <1>7 DEF CalmIn

(* A process that is alive belongs to a conversation, and if it serves a    *)
(* turn, that is the turn that holds the conversation's lock.               *)
LEMMA ProcessFacts ==
    ASSUME AgentInv, NEW p \in Processes, child[p].life # "none", NEW c, c = child[p].conv
    PROVE  /\ c \in Conversations /\ child[p] \in ChildRec /\ OneProcess(c) /\ ServesHolder(c)
           /\ p # NoOne /\ session[c].child \in Processes \cup {NoOne} /\ session[c] \in SessionRec
           /\ \A q \in Processes : child[q].conv = c /\ child[q].turn # NoOne => parser[c] = q /\ ~Gone(q)
<1>1. child[p] \in ChildRec /\ c \in Conversations
  BY DEF AgentInv, AgentTyped, ChildRec, ProcessesInv
<1>2. session[c] \in SessionRec  BY <1>1 DEF AgentInv, AgentTyped
<1>3. OneProcess(c) /\ ServesHolder(c)  BY <1>1 DEF AgentInv
<1> QED  BY <1>1, <1>2, <1>3, AgentLimits DEF SessionRec, ServesHolder, Gone

(* The process answers: an event, or the result.                            *)
LEMMA AnswerSteps ==
    ASSUME AgentInv, NEW p \in Processes, Emits(p) \/ Result(p)
    PROVE  AgentInv'
<1> SUFFICES ASSUME NEW c, c = child[p].conv, NEW t, t = child[p].turn PROVE AgentInv'  OBVIOUS
<1>1. child[p].life = "live" /\ t # NoOne  BY DEF Emits, Result
<1>2. /\ c \in Conversations /\ child[p] \in ChildRec /\ OneProcess(c) /\ ServesHolder(c)
      /\ p # NoOne /\ session[c].child \in Processes \cup {NoOne} /\ session[c] \in SessionRec
  BY <1>1, ProcessFacts
<1>3. /\ t \in Turns /\ turnMutex[c] = t /\ turn[t].at \in Serving /\ ~turn[t].done
      /\ parser[c] = p /\ turn[t].conv = c /\ turn[t].at \notin Resting
  BY <1>1, <1>2 DEF ChildRec, ServesHolder, OneProcess
<1>4. turn[t] \in TurnRec /\ turn \in [Turns -> TurnRec]  BY <1>3 DEF AgentInv, AgentTyped
<1>5. turn[t].at \notin Resting \cup {"queued", "attached", "unattached", "grace", "failing"}  BY <1>3 DEF Serving
<1>6. CASE Emits(p)
  <2> DEFINE r == [turn[t] EXCEPT !.got = "event"]
             s == [session[c] EXCEPT !.provider = session[c].here]
  <2>1. /\ UNCHANGED <<parser, holders, activeAgents, waiting, turnMutex, child>>
        /\ turn' = [turn EXCEPT ![t] = r] /\ session' = [session EXCEPT ![c] = s]
    BY <1>2, <1>4, <1>6 DEF Emits, TurnRec, SessionRec
  <2>2. /\ r \in TurnRec /\ r.at = turn[t].at /\ r.conv = c /\ r.child = turn[t].child
        /\ r.done = turn[t].done /\ r.got = "event"
    BY <1>3, <1>4 DEF TurnRec
  <2>3. /\ s \in SessionRec /\ s.child = session[c].child /\ s.here = session[c].here
        /\ s.status = session[c].status
    BY <1>2 DEF SessionRec
  <2> HIDE DEF r, s
  <2>4. ~session[c].here => session[c].child = NoOne /\ session[c].status = "stopped"  BY <1>2 DEF OneProcess
  <2>5. SessionIn(c) /\ session'[c] = s  BY <1>2, <2>1, <2>3, <2>4, SessionSet
  <2>6. ParserIn(c) /\ CalmIn(c)  BY <1>2, <2>1, ParserKept, ChildKept
  <2> QED  BY <1>2, <1>3, <1>5, <2>1, <2>2, <2>3, <2>5, <2>6, PlainStep
<1>7. CASE Result(p)
  <2>1. PICK got \in {"terminal", turn[t].got} : turn' = [turn EXCEPT ![t].got = got, ![t].done = TRUE]
    BY <1>7 DEF Result
  <2> DEFINE r == [turn[t] EXCEPT !.got = got, !.done = TRUE]
  <2>2. /\ UNCHANGED <<session, parser, holders, activeAgents, waiting, turnMutex>>
        /\ child' = CancelActiveTurn(child, p) /\ turn' = [turn EXCEPT ![t] = r]
    BY <1>2, <1>4, <1>7, <2>1 DEF Result, CancelActiveTurn, TurnRec
  <2>3. r \in TurnRec /\ r.at = turn[t].at /\ r.conv = c /\ r.child = turn[t].child /\ r.done
    BY <1>3, <1>4, <2>1 DEF TurnRec
  <2> HIDE DEF r
  <2>4. CalmIn(c)  BY <1>1, <1>2, <2>2, ChildCalmed DEF Known
  <2>5. child'[p].turn = NoOne
    BY <1>2, <2>2 DEF CancelActiveTurn, AgentInv, AgentTyped, ChildRec
  <2>6. \A q \in Processes : child[q].conv = c => child'[q].turn = NoOne
    BY <1>2, <1>3, <2>4, <2>5 DEF ServesHolder, CalmIn, Calmed
  <2>7. SessionIn(c) /\ ParserIn(c)  BY <1>2, <2>2, SessionKept, ParserKept
  <2> QED  BY <1>2, <1>3, <1>5, <2>2, <2>3, <2>4, <2>6, <2>7, PlainStep
<1> QED  BY <1>6, <1>7

\* What a process that is known may not lose.
StaysKnown(p) ==
    p # NoOne => /\ child'[p].conv = child[p].conv
                 /\ child[p].life # "none" => child'[p].life # "none"
                 /\ child'[p].reading => child[p].reading /\ child'[p].life = child[p].life

LEMMA OneProcessStays ==
    ASSUME NEW c, OneProcess(c), UNCHANGED <<session, parser, turnMutex>>,
           StaysKnown(parser[c]), StaysKnown(session[c].child),
           turnMutex[c] # NoOne =>
               LET h == turnMutex[c] IN
               /\ turn'[h].at = turn[h].at /\ turn'[h].conv = turn[h].conv /\ turn'[h].child = turn[h].child
               /\ StaysKnown(turn[h].child)
    PROVE  OneProcess(c)'
<1> DEFINE h == turnMutex[c]
<1>1. Spawning(c)' <=> Spawning(c)  BY DEF Spawning
<1>2. /\ Known(c, parser[c])' /\ Known(c, session[c].child)'
      /\ h # NoOne => Known(c, turn[h].child)'
  BY DEF OneProcess, Known, StaysKnown
<1>3. h # NoOne => /\ turn'[h].conv = c /\ turn'[h].at \notin Resting
                   /\ parser[c] # NoOne /\ turn'[h].child # NoOne /\ ~Spawning(c) => parser[c] = turn'[h].child
                   /\ turn'[h].at \in {"attached", "grace"} => turn'[h].child # NoOne
                   /\ turn'[h].at = "attached" => session[c].child \in {NoOne, turn'[h].child}
  BY DEF OneProcess
<1>4. parser[c] # NoOne /\ child'[parser[c]].reading /\ child'[parser[c]].life \in {"exited", "killed"} =>
         h # NoOne /\ turn'[h].at \in {"grace", "failing"}
  BY DEF OneProcess, StaysKnown, Gone
<1>5. /\ ~session[c].here => session[c].child = NoOne /\ session[c].status = "stopped"
      /\ parser[c] # NoOne /\ session[c].child # NoOne /\ ~Spawning(c) => parser[c] = session[c].child
  BY DEF OneProcess
<1> QED  BY <1>1, <1>2, <1>3, <1>4, <1>5 DEF OneProcess, Gone

(* The process exits; the turn it serves is settled.                        *)
LEMMA ExitStep ==
    ASSUME AgentInv, NEW p \in Processes, Exits(p)
    PROVE  AgentInv'
<1> SUFFICES ASSUME NEW c, c = child[p].conv PROVE AgentInv'  OBVIOUS
<1>1. child[p].life = "live" /\ UNCHANGED <<session, parser, holders, activeAgents, waiting, turnMutex>>
  BY DEF Exits
<1>2. /\ c \in Conversations /\ child[p] \in ChildRec /\ OneProcess(c) /\ ServesHolder(c) /\ p # NoOne
      /\ child \in [Processes -> ChildRec] /\ turn \in [Turns -> TurnRec]
  BY <1>1, ProcessFacts DEF AgentInv, AgentTyped
<1>3. PICK l \in {"exited", "killed"} :
         child' = [child EXCEPT ![p].life = l, ![p].reading = FALSE, ![p].turn = NoOne]
  BY DEF Exits
<1> DEFINE k == [child[p] EXCEPT !.life = l, !.reading = FALSE, !.turn = NoOne]
<1>4. child' = [child EXCEPT ![p] = k]  BY <1>2, <1>3 DEF ChildRec
<1>5. k \in ChildRec /\ k.conv = c /\ k.life = l /\ k.reading = FALSE /\ k.turn = NoOne
  BY <1>2 DEF ChildRec, Life
<1> HIDE DEF k
<1>6. child' \in [Processes -> ChildRec] /\ child'[p] = k /\ \A q \in Processes \ {p} : child'[q] = child[q]
  BY <1>2, <1>4, <1>5
<1>7. /\ turn' \in [Turns -> TurnRec]
      /\ \A q \in Turns : /\ turn'[q].at = turn[q].at /\ turn'[q].conv = turn[q].conv
                          /\ turn'[q].child = turn[q].child /\ turn'[q].got = turn[q].got
                          /\ turn[q].done => turn'[q].done
                          /\ turn'[q] = turn[q] \/ (child[p].turn = q /\ turnMutex[c] = q)
  <2>1. turn' = Settle(turn, child[p].turn)  BY DEF Exits
  <2>2. CASE child[p].turn = NoOne  BY <1>2, <2>1, <2>2 DEF Settle
  <2>3. CASE child[p].turn # NoOne
    <3> SUFFICES ASSUME NEW t, t = child[p].turn
                 PROVE  /\ turn' \in [Turns -> TurnRec]
                        /\ \A q \in Turns : /\ turn'[q].at = turn[q].at /\ turn'[q].conv = turn[q].conv
                                            /\ turn'[q].child = turn[q].child /\ turn'[q].got = turn[q].got
                                            /\ turn[q].done => turn'[q].done
                                            /\ turn'[q] = turn[q] \/ (child[p].turn = q /\ turnMutex[c] = q)
      OBVIOUS
    <3> DEFINE r == [turn[t] EXCEPT !.done = TRUE]
    <3>1. t \in Turns /\ turnMutex[c] = t  BY <1>2, <2>3 DEF ChildRec, ServesHolder
    <3>2. turn[t] \in TurnRec /\ turn' = [turn EXCEPT ![t] = r]
      BY <1>2, <2>1, <2>3, <3>1 DEF Settle, TurnRec
    <3>3. /\ r \in TurnRec /\ r.at = turn[t].at /\ r.conv = turn[t].conv /\ r.child = turn[t].child
          /\ r.got = turn[t].got /\ r.done
      BY <3>2 DEF TurnRec
    <3> HIDE DEF r
    <3> QED  BY <1>2, <3>1, <3>2, <3>3
  <2> QED  BY <2>2, <2>3
<1>8. AgentTyped'  BY <1>1, <1>6, <1>7 DEF AgentInv, AgentTyped
<1>9. ProcessesInv'  BY <1>1, <1>2, <1>5, <1>6 DEF AgentInv, ProcessesInv
<1>10. SlotsInv'  BY <1>1, <1>7, QueueKeeps
<1>11. OnlyOf(c)  BY <1>1, <1>2, <1>5, <1>6, <1>7 DEF OnlyOf
<1>12. OwnLock(c)
  <2> SUFFICES ASSUME NEW q \in Turns, turnMutex[c] = q \/ turn[q].at \in Resting
               PROVE  /\ turn'[q].at \notin Resting => turn'[q].conv = c /\ turnMutex'[c] = q
                      /\ turn'[q].at = "busy" => turn'[q].conv \in Conversations
                      /\ turn'[q].at \in Resting => turn'[q].child = NoOne /\ turn'[q].got = "nothing"
    BY DEF OwnLock
  <2> QED  BY <1>1, <1>2, <1>7, AgentLimits DEF AgentInv, LocksInv, OneProcess
<1>13. turnMutex[c] \in Turns \cup {NoOne}  BY <1>2 DEF AgentInv, AgentTyped
<1>14. OneProcess(c)'
  <2>1. /\ parser[c] \in Processes \cup {NoOne} /\ session[c].child \in Processes \cup {NoOne}
        /\ turnMutex[c] # NoOne => turn[turnMutex[c]].child \in Processes \cup {NoOne}
    BY <1>2, <1>13 DEF AgentInv, AgentTyped, SessionRec, TurnRec
  <2>2. \A q \in Processes : StaysKnown(q)  BY <1>1, <1>2, <1>5, <1>6 DEF StaysKnown
  <2>3. StaysKnown(NoOne)  BY DEF StaysKnown
  <2> QED  BY <1>1, <1>2, <1>7, <1>13, <2>1, <2>2, <2>3, OneProcessStays
<1>15. ServesHolder(c)'
  BY <1>1, <1>2, <1>5, <1>6, <1>7, <1>13 DEF ServesHolder
<1> QED  BY <1>2, <1>8, <1>9, <1>10, <1>11, <1>12, <1>14, <1>15, StepOf

(* The exit is noticed, then the slot is given back.                        *)
LEMMA TrackSteps ==
    ASSUME AgentInv, NEW p \in Processes, TrackExit(p) \/ TrackReleases(p)
    PROVE  AgentInv'
<1> SUFFICES ASSUME NEW c, c = child[p].conv PROVE AgentInv'  OBVIOUS
<1>1. child[p].life # "none"  BY DEF TrackExit, TrackReleases, Gone, AgentInv, ProcessesInv
<1>2. /\ c \in Conversations /\ child[p] \in ChildRec /\ OneProcess(c) /\ ServesHolder(c)
      /\ p # NoOne /\ session[c].child \in Processes \cup {NoOne} /\ session[c] \in SessionRec
      /\ \A q \in Processes : child[q].conv = c /\ child[q].turn # NoOne => parser[c] = q /\ ~Gone(q)
      /\ turn \in [Turns -> TurnRec] /\ Known(c, session[c].child)
  BY <1>1, ProcessFacts DEF AgentInv, AgentTyped, OneProcess
<1>3. Signalled(child, NoOne) = child /\ Known(c, NoOne)  BY DEF Signalled, Known
<1>4. CASE TrackExit(p)
  <2>1. Gone(p) /\ UNCHANGED <<holders, activeAgents, waiting, turnMutex, turn>>
    BY <1>4 DEF TrackExit
  <2>2. SlotsInv' /\ turn' \in [Turns -> TurnRec] /\ \A t \in Turns : SameOrWoken(t)
    BY <1>2, <2>1, QueueKeeps DEF SameOrWoken
  <2>3. CASE parser[c] = p
    <3>1. /\ child' = [Signalled(child, session[c].child) EXCEPT ![p].exit = "stopping"]
          /\ parser' = [parser EXCEPT ![c] = NoOne] /\ session' = TakeChild(c)
      BY <1>4, <2>3 DEF TrackExit
    <3>2. CalmIn(c)  BY <1>1, <1>2, <3>1, ExitNoted
    <3>3. /\ SessionIn(c) /\ session'[c].status = session[c].status /\ ParserIn(c)
      BY <1>2, <3>1, ChildTaken, ParserForgotten
    <3>4. \A q \in Processes : child[q].conv = c => child'[q].turn = NoOne
      BY <1>2, <2>1, <2>3, <3>2 DEF CalmIn, Calmed
    <3> QED  BY <1>2, <2>1, <2>2, <3>2, <3>3, <3>4, CalmStep
  <2>4. CASE parser[c] # p
    <3>1. child' = [child EXCEPT ![p].exit = "done"] /\ UNCHANGED <<parser, session>>
      BY <1>4, <2>4 DEF TrackExit
    <3>2. CalmIn(c)  BY <1>1, <1>2, <1>3, <3>1, ExitNoted
    <3>3. SessionIn(c) /\ ParserIn(c)  BY <1>2, <3>1, SessionKept, ParserKept
    <3> QED  BY <1>2, <2>1, <2>2, <3>1, <3>2, <3>3, CalmStep
  <2> QED  BY <2>3, <2>4
<1>5. CASE TrackReleases(p)
  <2>1. PICK e \in {"stopped", "failed"} :
           session' = [session EXCEPT ![c].status = IF session[c].here THEN e ELSE @]
    BY <1>5 DEF TrackReleases
  <2> DEFINE s == [session[c] EXCEPT !.status = IF session[c].here THEN e ELSE @]
  <2>2. /\ child' = [child EXCEPT ![p].exit = "done"] /\ UNCHANGED <<parser, turnMutex>>
        /\ ReleasePersistentSlot(c, turn) /\ session' = [session EXCEPT ![c] = s]
    BY <1>2, <1>5, <2>1 DEF TrackReleases, SessionRec
  <2>3. /\ s \in SessionRec /\ s.child = session[c].child /\ s.here = session[c].here
        /\ s.status = IF session[c].here THEN e ELSE session[c].status
    BY <1>2 DEF SessionRec, Status
  <2> HIDE DEF s
  <2>4. ~session[c].here => session[c].child = NoOne /\ session[c].status = "stopped"  BY <1>2 DEF OneProcess
  <2>5. SessionIn(c) /\ session'[c] = s
    <3>1. s.child \in {NoOne, session[c].child} /\ (s.here \/ (s.child = NoOne /\ s.status = "stopped"))
      BY <2>3, <2>4
    <3> QED  BY <1>2, <2>2, <2>3, <3>1, SessionSet
  <2>6. CalmIn(c)  BY <1>1, <1>2, <1>3, <2>2, ExitNoted
  <2>7. ParserIn(c) /\ parser'[c] = parser[c]  BY <1>2, <2>2, ParserKept
  <2>8. SlotsInv' /\ turn' \in [Turns -> TurnRec] /\ \A t \in Turns : SameOrWoken(t)
    BY <1>2, <2>2, SlotReleased DEF SameOrWoken
  <2>9. session'[c].status = "idle" => session[c].status = "idle"  BY <2>3, <2>5
  <2> QED  BY <1>2, <2>2, <2>5, <2>6, <2>7, <2>8, <2>9, CalmStep
<1> QED  BY <1>4, <1>5

(* A process that everybody forgot is replaced.                             *)
LEMMA ReapStep ==
    ASSUME AgentInv, NEW p \in Processes, Reap(p)
    PROVE  AgentInv'
<1> SUFFICES ASSUME NEW c, c = child[p].conv PROVE AgentInv'  OBVIOUS
<1>1. /\ Forgotten(p) /\ child[p].life # "none" /\ child' = [child EXCEPT ![p] = NoChild]
      /\ UNCHANGED <<session, parser, holders, activeAgents, waiting, turnMutex, turn>>
  BY DEF Reap, Forgotten, Gone
<1>2. /\ c \in Conversations /\ OneProcess(c) /\ ServesHolder(c) /\ child \in [Processes -> ChildRec]
      /\ turnMutex[c] \in Turns \cup {NoOne}
  BY <1>1, ProcessFacts DEF AgentInv, AgentTyped
<1>3. NoChild \in ChildRec /\ NoChild.conv = NoOne /\ NoChild.life = "none" /\ NoChild.turn = NoOne
      /\ NoChild.exit = "untracked"
  BY DEF NoChild, ChildRec, Life
<1>4. child' \in [Processes -> ChildRec] /\ child'[p] = NoChild /\ \A q \in Processes \ {p} : child'[q] = child[q]
  BY <1>1, <1>2, <1>3
<1>5. AgentTyped' /\ ProcessesInv'
  BY <1>1, <1>3, <1>4 DEF AgentInv, AgentTyped, ProcessesInv
<1>6. SlotsInv'  BY <1>1, QueueKeeps
<1>7. OnlyOf(c)  BY <1>1, <1>3, <1>4 DEF OnlyOf
<1>8. OwnLock(c)  BY <1>1, <1>2, AgentLimits DEF OwnLock, AgentInv, LocksInv, OneProcess
<1>9. parser[c] # p /\ session[c].child # p /\ (turnMutex[c] # NoOne => turn[turnMutex[c]].child # p)
  BY <1>1, <1>2 DEF Forgotten
<1>10. OneProcess(c)'
  <2>1. /\ parser[c] \in Processes \cup {NoOne} /\ session[c].child \in Processes \cup {NoOne}
        /\ turnMutex[c] # NoOne => turn[turnMutex[c]].child \in Processes \cup {NoOne}
    BY <1>2 DEF AgentInv, AgentTyped, SessionRec, TurnRec
  <2>2. StaysKnown(NoOne) /\ \A q \in Processes \ {p} : StaysKnown(q)  BY <1>4 DEF StaysKnown
  <2> QED  BY <1>1, <1>2, <1>9, <2>1, <2>2, OneProcessStays
<1>11. ServesHolder(c)'  BY <1>1, <1>2, <1>3, <1>4, AgentLimits DEF ServesHolder
<1> QED  BY <1>2, <1>5, <1>6, <1>7, <1>8, <1>10, <1>11, StepOf

(* The idle sweep, the LRU eviction and close.                              *)
LEMMA ManagerSteps ==
    ASSUME AgentInv, NEW c \in Conversations, ManagerStep(c)
    PROVE  AgentInv'
<1>1. /\ OneProcess(c) /\ session[c] \in SessionRec /\ session \in [Conversations -> SessionRec]
      /\ session[c].child \in Processes \cup {NoOne} /\ Known(c, session[c].child)
      /\ turn \in [Turns -> TurnRec]
  BY DEF AgentInv, AgentTyped, SessionRec, OneProcess
<1>2. ~session[c].here => session[c].child = NoOne /\ session[c].status = "stopped"  BY <1>1 DEF OneProcess
<1>3. UNCHANGED <<parser, holders, activeAgents, waiting, turnMutex, turn>>
  BY DEF ManagerStep, StopIdle, StopIdleEnds, Close, CloseDeletes
<1>4. SlotsInv' /\ turn' \in [Turns -> TurnRec] /\ ParserIn(c) /\ \A t \in Turns : SameOrWoken(t)
  BY <1>1, <1>3, QueueKeeps, ParserKept DEF SameOrWoken
<1>5. CalmIn(c)  BY <1>1, ChildCalmed, ChildKept DEF ManagerStep, StopIdle, StopIdleEnds, Close, CloseDeletes
<1>6. PICK s \in SessionRec :
         /\ session' = [session EXCEPT ![c] = s] /\ s.child \in {NoOne, session[c].child}
         /\ s.here \/ (s.child = NoOne /\ s.status = "stopped")
         /\ s.status = "idle" => session[c].status = "idle"
  <2>1. CASE StopIdle(c)
    <3> DEFINE s == [session[c] EXCEPT !.child = NoOne, !.ending = "idle"]
    <3>1. session' = [session EXCEPT ![c] = s] /\ session[c].here
      BY <1>1, <2>1 DEF StopIdle, TakeChild, SessionRec
    <3>2. s \in SessionRec /\ s.child = NoOne /\ s.here /\ s.status = session[c].status
      BY <1>1, <3>1 DEF SessionRec
    <3> QED  BY <3>1, <3>2
  <2>2. CASE StopIdleEnds(c)
    <3> DEFINE s == [session[c] EXCEPT !.status = IF session[c].here THEN "stopped" ELSE @, !.ending = "no"]
    <3>1. session' = [session EXCEPT ![c] = s]  BY <1>1, <2>2 DEF StopIdleEnds, SessionRec
    <3>2. s \in SessionRec /\ s.child = session[c].child /\ s.here = session[c].here /\ s.status \in {"stopped", session[c].status}
          /\ (~session[c].here => s.status = session[c].status)
      BY <1>1 DEF SessionRec, Status
    <3> HIDE DEF s
    <3> QED  BY <1>2, <3>1, <3>2
  <2>3. CASE Close(c)
    <3> DEFINE s == [session[c] EXCEPT !.child = NoOne, !.status = "stopping", !.ending = "closed"]
    <3>1. session' = [session EXCEPT ![c] = s] /\ session[c].here
      BY <1>1, <2>3 DEF Close, TakeChild, SessionRec
    <3>2. s \in SessionRec /\ s.child = NoOne /\ s.here /\ s.status = "stopping"
      BY <1>1, <3>1 DEF SessionRec, Status
    <3> QED  BY <3>1, <3>2
  <2>4. CASE CloseDeletes(c)
    <3> DEFINE s == [NoAgentSession EXCEPT !.ending = "closed"]
    <3>1. session' = [session EXCEPT ![c] = s]  BY <2>4 DEF CloseDeletes
    <3>2. s \in SessionRec /\ s.child = NoOne /\ s.status = "stopped"
      BY DEF NoAgentSession, SessionRec, Status
    <3> QED  BY <3>1, <3>2
  <2> QED  BY <2>1, <2>2, <2>3, <2>4 DEF ManagerStep
<1>7. SessionIn(c) /\ session'[c] = s  BY <1>6, SessionSet
<1> QED  BY <1>3, <1>4, <1>5, <1>6, <1>7, CalmStep

LEMMA AgentInitially == AgentInit => AgentInv
<1> SUFFICES ASSUME AgentInit PROVE AgentInv  OBVIOUS
<1>1. NoAgentSession \in SessionRec /\ NoChild \in ChildRec /\ NewTurn \in TurnRec
  BY DEF NoAgentSession, NoChild, NewTurn, SessionRec, ChildRec, TurnRec, Status, Life, TurnStates, Resting
<1>2. AgentTyped  BY <1>1 DEF AgentInit, AgentTyped
<1>3. SlotsInv  BY AgentLimits DEF AgentInit, SlotsInv, WaitingTurnsAreQueued, TurnAt, NewTurn
<1>4. LocksInv  BY DEF AgentInit, LocksInv, NewTurn, Resting
<1>5. ProcessesInv  BY DEF AgentInit, ProcessesInv, NoChild
<1>6. \A c \in Conversations : OneProcess(c) /\ ServesHolder(c)
  BY DEF AgentInit, OneProcess, ServesHolder, Known, NoAgentSession, NoChild
<1> QED  BY <1>2, <1>3, <1>4, <1>5, <1>6 DEF AgentInv

LEMMA AgentStep == AgentInv /\ [AgentNext]_agentVars => AgentInv'
<1> SUFFICES ASSUME AgentInv, [AgentNext]_agentVars PROVE AgentInv'  OBVIOUS
<1>1. ASSUME NEW t \in Turns, TurnStep(t) PROVE AgentInv'
  BY <1>1, LockSteps, GetSession, ConfigSteps, RestartSteps, LaunchStep, ReadingStep, FailureSteps,
     CreateStep, ServedSteps
  DEF TurnStep
<1>2. ASSUME NEW p \in Processes, ChildStep(p) PROVE AgentInv'
  BY <1>2, AnswerSteps, ExitStep, TrackSteps, ReapStep DEF ChildStep
<1>3. ASSUME NEW c \in Conversations, ManagerStep(c) PROVE AgentInv'  BY <1>3, ManagerSteps
<1>4. CASE UNCHANGED agentVars
  BY <1>4 DEF agentVars, AgentInv, AgentTyped, SlotsInv, WaitingTurnsAreQueued, TurnAt, LocksInv, ProcessesInv,
              OneProcess, ServesHolder, Known, Spawning, Gone
<1> QED  BY <1>1, <1>2, <1>3, <1>4 DEF AgentNext

(* What a conversation's session, its turn and its parser know is one       *)
(* process, but for the time in which another is started, and a process     *)
(* that serves a turn serves the one that holds the conversation's lock.    *)
THEOREM AgentInvariant == AgentSpec => []AgentInv
<1>1. AgentInit => AgentInv  BY AgentInitially
<1>2. AgentInv /\ [AgentNext]_agentVars => AgentInv'  BY AgentStep
<1> QED  BY <1>1, <1>2, PTL DEF AgentSpec

(* What the invariant says of the turns that are served.                    *)
LEMMA ServedIfInv == AgentInv => AgentTurnsAreServed
<1> SUFFICES ASSUME AgentInv PROVE AgentTurnsAreServed  OBVIOUS
<1>1. \A c \in Conversations : OneProcess(c) /\ ServesHolder(c)  BY DEF AgentInv
<1>2. AgentTypeOK
  BY <1>1 DEF AgentInv, AgentTyped, SlotsInv, AgentTypeOK, SessionRec, OneProcess, Known
<1>3. WaitingTurnsAreQueued  BY DEF AgentInv, SlotsInv
<1>4. NoTurnLeftBehind
  <2> SUFFICES ASSUME NEW p \in Processes, child[p].turn # NoOne
               PROVE  LET t == child[p].turn IN turn[t].at \in Serving /\ turnMutex[Conv(t)] = t
    BY DEF NoTurnLeftBehind, Serving
  <2>1. child[p].life # "none"  BY DEF AgentInv, ProcessesInv
  <2>2. child[p].conv \in Conversations  BY <2>1, ProcessFacts
  <2> QED  BY <1>1, <2>2 DEF ServesHolder, OneProcess, Conv
<1>5. ServedTurnIsNotEvicted
  <2> SUFFICES ASSUME NEW c \in Conversations, session[c].child # NoOne, child[session[c].child].turn # NoOne
               PROVE  session[c].status # "idle"
    BY DEF ServedTurnIsNotEvicted, Evictable
  <2>1. session[c].child \in Processes /\ child[session[c].child].conv = c
    BY <1>1 DEF AgentInv, AgentTyped, SessionRec, OneProcess, Known
  <2> QED  BY <1>1, <2>1 DEF ServesHolder
<1> QED  BY <1>2, <1>3, <1>4, <1>5 DEF AgentTurnsAreServed

(* The slots taken stay within the limit, a turn that waits is queued while *)
(* all of them are taken, no parser keeps a turn that has ended, and a      *)
(* session whose process serves a turn is not idle, so it is not evicted.   *)
THEOREM TurnsServed == AgentSpec => []AgentTurnsAreServed
BY AgentInvariant, ServedIfInv, PTL

=============================================================================
