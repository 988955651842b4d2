------------------------------- MODULE WebChat -------------------------------
(***************************************************************************)
(* The chat page of the web application (hooks/useChatStream.ts and        *)
(* pages/chat/useChatSessions.ts): one answer streamed at a time, while    *)
(* the person opens, starts and deletes conversations whose requests are   *)
(* answered later and in any order.  Aborting a stream ends it before the  *)
(* next event of the page: the rejected read and its finally block run as  *)
(* microtasks.  The choice of spaces is left out.                          *)
(***************************************************************************)
EXTENDS Sequences, Naturals

CONSTANTS
    Conversations,  \* the ids the server gives to conversations
    MaxSends,       \* bound: messages sent
    MaxOpens,       \* bound: conversations opened
    MaxDeletes,     \* bound: conversations deleted
    MaxChatFaults   \* bound: failed requests and broken streams

VARIABLES
    exists,     \* the conversations of the server
    view,       \* sessionId, the assistant bubbles, isStreaming
    stream,     \* the stream being read and what sendMessage knows of it
    opens,      \* the calls of openSession, sessionSwitchRef is their number
    removal,    \* the call of executeDeleteSession, with the session it saw active
    sends, deletes, chatFaults,
    wanted,     \* history: the conversation last asked for
    crossed     \* history: something was asked for before an earlier answer came

webChatVars == <<exists, view, stream, opens, removal, sends, deletes, chatFaults,
                 wanted, crossed>>

None      == "none"
NoStream  == [pc |-> "idle", bubble |-> 0, session |-> None, done |-> FALSE, failed |-> FALSE]
NoRemoval == [pc |-> "idle", session |-> None, active |-> None]
Stored(s) == <<[id |-> 0, session |-> s, status |-> "complete"]>>

WebChatInit ==
    /\ exists \in SUBSET Conversations
    /\ view = [session |-> None, bubbles |-> <<>>, streaming |-> FALSE]
    /\ stream = NoStream /\ opens = <<>> /\ removal = NoRemoval
    /\ sends = 0 /\ deletes = 0 /\ chatFaults = 0
    /\ wanted = None /\ crossed = FALSE

Pending == {t \in 1..Len(opens) : opens[t].pc # "done"}
Crosses == crossed' = (crossed \/ Pending # {} \/ removal.pc # "idle")
SameHistory == UNCHANGED <<wanted, crossed>>
SameCalls == UNCHANGED <<opens, removal, sends, deletes>>

-----------------------------------------------------------------------------
(* sendMessage                                                             *)

Send ==
    /\ ~view.streaming /\ stream.pc = "idle"
    /\ sends < MaxSends /\ sends' = sends + 1
    /\ view' = [view EXCEPT !.streaming = TRUE,
                            !.bubbles = Append(@, [id |-> sends', session |-> view.session,
                                                  status |-> "streaming"])]
    /\ stream' = [NoStream EXCEPT !.pc = "asked", !.bubble = sends', !.session = view.session]
    /\ Crosses
    /\ UNCHANGED <<exists, opens, removal, deletes, chatFaults, wanted>>

\* The bubble is found by its id, if it is still on the page.
Marked(v, status) ==
    [v EXCEPT !.bubbles = [i \in DOMAIN @ |->
        IF @[i].id = stream.bubble THEN [@[i] EXCEPT !.status = status] ELSE @[i]]]

\* The finally block.
Finished(v) == [v EXCEPT !.streaming = FALSE]

ResponseOpens ==
    /\ stream.pc = "asked"
    /\ stream' = [stream EXCEPT !.pc = "started"]
    /\ UNCHANGED <<exists, view, chatFaults>> /\ SameCalls /\ SameHistory

\* The server names the conversation: the one of the request, or a new one.
SessionEvent ==
    /\ stream.pc = "started"
    /\ \E s \in IF stream.session = None THEN Conversations \ exists ELSE {stream.session} :
         /\ exists' = exists \cup {s}
         /\ stream' = [stream EXCEPT !.pc = "open", !.session = s]
         /\ view' = [view EXCEPT !.session = s,
                        !.bubbles = [i \in DOMAIN @ |->
                            IF @[i].session = None THEN [@[i] EXCEPT !.session = s] ELSE @[i]]]
         /\ wanted' = IF stream.session = None /\ Len(opens) \notin Pending THEN s ELSE wanted
    /\ UNCHANGED <<chatFaults, crossed>> /\ SameCalls

\* Text, citations, usage, tool uses and charts: text sets the status again.
ContentEvent ==
    /\ stream.pc = "open" /\ ~stream.done /\ ~stream.failed
    /\ view' = Marked(view, "streaming") \/ view' = view
    /\ UNCHANGED <<exists, stream, chatFaults>> /\ SameCalls /\ SameHistory

\* message.completed, or the bare [DONE] of the static path
DoneEvent ==
    /\ stream.pc = "open" /\ ~stream.done /\ ~stream.failed
    /\ stream' = [stream EXCEPT !.done = TRUE]
    /\ view' = Marked(view, "complete") \/ view' = view
    /\ UNCHANGED <<exists, chatFaults>> /\ SameCalls /\ SameHistory

ErrorEvent ==
    /\ stream.pc = "open" /\ ~stream.done /\ ~stream.failed
    /\ chatFaults < MaxChatFaults /\ chatFaults' = chatFaults + 1
    /\ stream' = [stream EXCEPT !.failed = TRUE]
    /\ view' = Marked(view, "error")
    /\ UNCHANGED exists /\ SameCalls /\ SameHistory

Interrupted == ~stream.done /\ ~stream.failed

\* mutant: a stream that ends early is taken for a finished one
NothingMissing(v) == v

\* What the end of the response does to the bubble.
AtStreamEnd(v) ==
    CASE Interrupted -> Marked(v, "error")
      [] stream.done /\ ~stream.failed -> Marked(v, "complete")
      [] OTHER -> v

StreamCloses ==
    /\ stream.pc \in {"started", "open"}
    /\ IF Interrupted THEN chatFaults < MaxChatFaults /\ chatFaults' = chatFaults + 1
                      ELSE UNCHANGED chatFaults
    /\ view' = Finished(AtStreamEnd(view))
    /\ stream' = NoStream
    /\ UNCHANGED exists /\ SameCalls /\ SameHistory

\* An error response, or the connection breaks.
StreamBreaks ==
    /\ stream.pc # "idle"
    /\ chatFaults < MaxChatFaults /\ chatFaults' = chatFaults + 1
    /\ view' = Finished(Marked(view, "error"))
    /\ stream' = NoStream
    /\ UNCHANGED exists /\ SameCalls /\ SameHistory

-----------------------------------------------------------------------------
(* The conversations                                                       *)

\* mutant: the stream of the conversation that is left goes on
StreamGoesOn == stream

\* abortControllerRef.current?.abort()
Aborted == NoStream

LoadSession(s) ==
    /\ view' = [session |-> s, bubbles |-> Stored(s), streaming |-> FALSE]
    /\ stream' = Aborted

StartNewSession ==
    /\ view' = [session |-> None, bubbles |-> <<>>, streaming |-> FALSE]
    /\ stream' = Aborted

OpenSession(s) ==
    /\ s \in exists /\ Len(opens) < MaxOpens
    /\ opens' = Append(opens, [session |-> s, pc |-> "sent"])
    /\ wanted' = s
    /\ crossed' = (crossed \/ removal.pc # "idle")
    /\ UNCHANGED <<exists, view, stream, removal, sends, deletes, chatFaults>>

\* The server reads the conversation; the request fails or its page is gone.
OpenIsServed(t) ==
    /\ t \in Pending /\ opens[t].pc = "sent"
    /\ \/ opens[t].session \in exists /\ opens' = [opens EXCEPT ![t].pc = "found"]
          /\ UNCHANGED chatFaults
       \/ opens[t].session \notin exists /\ opens' = [opens EXCEPT ![t].pc = "failed"]
          /\ UNCHANGED chatFaults
       \/ chatFaults < MaxChatFaults /\ chatFaults' = chatFaults + 1
          /\ opens' = [opens EXCEPT ![t].pc = "failed"]
    /\ UNCHANGED <<exists, view, stream, removal, sends, deletes>> /\ SameHistory

\* mutant: an answer is shown whatever was opened since
AnyOpen(t) == TRUE

\* sessionSwitchRef.current === switchVersion
IsLastOpen(t) == t = Len(opens)

OpenIsAnswered(t) ==
    /\ t \in Pending /\ opens[t].pc \in {"found", "failed"}
    /\ opens' = [opens EXCEPT ![t].pc = "done"]
    /\ IF IsLastOpen(t) /\ opens[t].pc = "found"
       THEN LoadSession(opens[t].session)
       ELSE UNCHANGED <<view, stream>>
    /\ wanted' = IF t = Len(opens) /\ opens[t].pc = "failed" THEN view.session ELSE wanted
    /\ UNCHANGED <<exists, removal, sends, deletes, chatFaults, crossed>>

NewChat ==
    /\ view.session # None \/ view.bubbles # <<>>
    /\ StartNewSession
    /\ wanted' = None
    /\ Crosses
    /\ UNCHANGED <<exists, opens, removal, sends, deletes, chatFaults>>

DeleteSession(s) ==
    /\ removal.pc = "idle" /\ s \in exists
    /\ deletes < MaxDeletes /\ deletes' = deletes + 1
    /\ removal' = [pc |-> "sent", session |-> s, active |-> view.session]
    /\ Crosses
    /\ UNCHANGED <<exists, view, stream, opens, sends, chatFaults, wanted>>

DeleteIsServed ==
    /\ removal.pc = "sent"
    /\ \/ exists' = exists \ {removal.session} /\ removal' = [removal EXCEPT !.pc = "gone"]
          /\ UNCHANGED chatFaults
       \/ chatFaults < MaxChatFaults /\ chatFaults' = chatFaults + 1
          /\ removal' = [removal EXCEPT !.pc = "failed"] /\ UNCHANGED exists
    /\ UNCHANGED <<view, stream, opens, sends, deletes>> /\ SameHistory

DeleteIsAnswered ==
    /\ removal.pc \in {"gone", "failed"}
    /\ removal' = NoRemoval
    /\ IF removal.pc = "gone" /\ removal.session = removal.active
       THEN StartNewSession /\ wanted' = None
       ELSE UNCHANGED <<view, stream, wanted>>
    /\ UNCHANGED <<exists, opens, sends, deletes, chatFaults, crossed>>

-----------------------------------------------------------------------------
StreamStep == ResponseOpens \/ SessionEvent \/ ContentEvent \/ DoneEvent \/ ErrorEvent
    \/ StreamCloses \/ StreamBreaks
ListStep == \/ \E s \in Conversations : OpenSession(s) \/ DeleteSession(s)
            \/ \E t \in 1..MaxOpens : OpenIsServed(t) \/ OpenIsAnswered(t)
            \/ NewChat \/ DeleteIsServed \/ DeleteIsAnswered

WebChatNext == Send \/ StreamStep \/ ListStep

WebChatSpec == WebChatInit /\ [][WebChatNext]_webChatVars

-----------------------------------------------------------------------------
(* Properties                                                              *)

\* The bubbles on the page are all of the conversation it names, so what is
\* sent next goes where the person reads: no event of a stream that was left
\* reaches the conversation opened after it.
OneConversationShown ==
    \A i \in DOMAIN view.bubbles : view.bubbles[i].session = view.session

\* When no answer is being streamed no bubble still claims that it is,
\* however the stream ended.
BubblesSettle ==
    ~view.streaming => \A i \in DOMAIN view.bubbles : view.bubbles[i].status # "streaming"

\* Opening conversations in quick succession ends at the last one, in
\* whatever order they are answered - unless something else (a message, a
\* new chat, a deletion) was asked for before the answers came.
ShowsWhatWasAsked == ~crossed /\ Pending = {} /\ removal.pc = "idle" => view.session = wanted
=============================================================================
