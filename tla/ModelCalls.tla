------------------------------ MODULE ModelCalls ------------------------------
(***************************************************************************)
(* How the applications call a model provider (ai-core): a chat answer     *)
(* that is streamed, with a timeout until its first chunk and one more try *)
(* when the provider limits the rate; and the embeddings of a list of      *)
(* texts, batch after batch, each tried again while the error may pass.    *)
(*                                                                         *)
(* The provider is the world: it answers, fails or says nothing, breaks a  *)
(* stream off (without a status), and returns embeddings in any order.     *)
(* The embedding of the i-th text is the number i.                         *)
(***************************************************************************)
EXTENDS Naturals, Sequences, FiniteSets, Functions

CONSTANTS
    NumTexts,       \* texts of embedBatch
    MaxBatchSize,
    EmbedTries,     \* one more than RETRY_DELAYS_MS has delays
    MaxDeltas       \* bound: chunks of a stream

ASSUME CallLimits ==
    /\ NumTexts \in Nat /\ MaxBatchSize \in Nat \ {0}
    /\ EmbedTries \in Nat \ {0} /\ MaxDeltas \in Nat

VARIABLES
    chat,       \* a call of streamCompletion
    said,       \* ghost: the attempts that have yielded text
    embed       \* a call of embedBatch

callVars == <<chat, said, embed>>

\* The timer of an attempt is set before its request.
\* mutant: the second attempt is made without one
FirstOnly(attempt) == [step |-> "create", attempt |-> attempt, timer |-> attempt = 0,
                       heard |-> FALSE, deltas |-> 0, outcome |-> "none"]

Attempt(attempt) == [step |-> "create", attempt |-> attempt, timer |-> TRUE,
                     heard |-> FALSE, deltas |-> 0, outcome |-> "none"]

CallInit ==
    /\ chat = Attempt(0)
    /\ said = {}
    /\ embed = [step |-> "request", tries |-> 0, got |-> <<>>]

-----------------------------------------------------------------------------
(* streamCompletion                                                        *)

At(steps) == chat.step \in steps

\* The finally clause: whatever ends the attempt stops its timer.
ChatEnds(outcome) == chat' = [chat EXCEPT !.step = "ended", !.outcome = outcome, !.timer = FALSE]

StreamOpens ==
    /\ At({"create"}) /\ chat' = [chat EXCEPT !.step = "stream"]
    /\ UNCHANGED <<said, embed>>

\* mutant: any error is tried again
AnyError(status) == chat.attempt = 0

TriesAgain(status) == status = 429 /\ chat.attempt = 0

\* 0 stands for an error without a status.
ChatFails(status) ==
    /\ IF TriesAgain(status) THEN chat' = [chat EXCEPT !.step = "sleeping", !.timer = FALSE]
       ELSE ChatEnds("error")
    /\ UNCHANGED <<said, embed>>

CreateFails == At({"create"}) /\ \E status \in {0, 429, 500} : ChatFails(status)
StreamBreaks == At({"stream"}) /\ ChatFails(0)

WakesUp ==
    /\ At({"sleeping"}) /\ chat' = Attempt(1)
    /\ UNCHANGED <<said, embed>>

\* The first chunk stops the timer; a chunk need not hold text.
Chunk ==
    /\ At({"stream"}) /\ chat.deltas < MaxDeltas
    /\ \E text \in BOOLEAN :
         /\ said' = IF text THEN said \cup {chat.attempt} ELSE said
         /\ chat' = [chat EXCEPT !.heard = TRUE, !.timer = FALSE, !.deltas = @ + 1]
    /\ UNCHANGED embed

StreamEnds == At({"stream"}) /\ ChatEnds("done") /\ UNCHANGED <<said, embed>>

\* The abort makes the request fail, or ends the stream that it opened.
TimerFires ==
    /\ chat.timer /\ At({"create", "stream"})
    /\ ChatEnds("error") \/ (At({"stream"}) /\ ChatEnds("done"))
    /\ UNCHANGED <<said, embed>>

-----------------------------------------------------------------------------
(* embedBatch                                                              *)

\* mutant: the answers are taken in the order they come in
AsTheyCome(data) == data

\* sort: the k-th item is the one that k - 1 others precede.  No two items have
\* one index.
NumberBefore(data, i) == Cardinality({j \in DOMAIN data : data[j].index < data[i].index})
ByIndex(data) == [k \in DOMAIN data |-> data[CHOOSE i \in DOMAIN data : NumberBefore(data, i) = k - 1]]

Done == Len(embed.got)
BatchLength == IF NumTexts - Done < MaxBatchSize THEN NumTexts - Done ELSE MaxBatchSize

\* The provider returns the embeddings of the batch in any order, and perhaps
\* not all of them.
EmbedAnswers ==
    /\ embed.step = "request" /\ Done < NumTexts
    /\ \/ embed' = [embed EXCEPT !.step = "failed"]
       \/ \E order \in Bijection(1..BatchLength, 1..BatchLength) :
            LET data == [i \in 1..BatchLength |-> [index |-> order[i], embedding |-> Done + order[i]]]
                sorted == ByIndex(data)
            IN  embed' = [embed EXCEPT !.tries = 0, !.got = @ \o [i \in DOMAIN sorted |-> sorted[i].embedding]]
    /\ UNCHANGED <<chat, said>>

EmbedFails ==
    /\ embed.step = "request" /\ Done < NumTexts
    /\ \E retryable \in BOOLEAN :
         embed' = IF retryable /\ embed.tries + 1 < EmbedTries THEN [embed EXCEPT !.tries = @ + 1]
                  ELSE [embed EXCEPT !.step = "failed"]
    /\ UNCHANGED <<chat, said>>

EmbedReturns ==
    /\ embed.step = "request" /\ Done = NumTexts
    /\ embed' = [embed EXCEPT !.step = "returned"]
    /\ UNCHANGED <<chat, said>>

CallNext ==
    \/ StreamOpens \/ CreateFails \/ StreamBreaks \/ WakesUp \/ Chunk \/ StreamEnds \/ TimerFires
    \/ EmbedAnswers \/ EmbedFails \/ EmbedReturns

\* Timers fire; nothing is assumed of the provider.
CallFair == WF_callVars(TimerFires) /\ WF_callVars(WakesUp)

CallSpec == CallInit /\ [][CallNext]_callVars
CallLive == CallSpec /\ CallFair

-----------------------------------------------------------------------------
(* Properties                                                              *)

\* However often the provider is asked, the reader hears one answer: text
\* once yielded is not said again by a second attempt.
OneAnswerIsHeard == said \in {{}, {0}, {1}}

\* The embeddings returned are those of the texts, in their order, whatever
\* the batches, the retries and the order of the answers.
EmbeddingsFitTexts == embed.step = "returned" => embed.got = [i \in 1..NumTexts |-> i]

\* A call of a provider delivers one answer, and the embeddings of the texts in
\* their order.
ProviderAnswersFit == OneAnswerIsHeard /\ EmbeddingsFitTexts

\* A provider that says nothing does not hold the call: an attempt hears a
\* chunk, or the call ends.
NotHeard == At({"create", "sleeping"})
HeardOrEnded == chat.heard \/ At({"ended"})
SilenceEnds == NotHeard ~> HeardOrEnded
=============================================================================
