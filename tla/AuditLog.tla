------------------------------ MODULE AuditLog ------------------------------
(***************************************************************************)
(* AuditService (audit.service.ts): every component pushes its records to  *)
(* a bounded queue in memory, which one flush at a time writes to          *)
(* audit_logs in batches.  A failed batch goes back to the head of the     *)
(* queue, up to a number of retries.  Records are numbered as pushed.      *)
(***************************************************************************)
EXTENDS Naturals, SequencesExt

CONSTANTS MaxQueue,    \* AUDIT_MAX_QUEUE_SIZE
          Batch,       \* AUDIT_FLUSH_BATCH_SIZE
          MaxRetries,  \* AUDIT_MAX_FLUSH_RETRIES
          MaxRecords   \* bound: records pushed

ASSUME AuditLimits ==
    /\ MaxQueue \in Nat \ {0} /\ Batch \in Nat \ {0}
    /\ MaxRetries \in Nat /\ MaxRecords \in Nat

VARIABLES
    queue,     \* this.queue
    batch,     \* the records of the INSERT under way; <<>> when none is
    pushed,    \* how many records were pushed
    rows,      \* audit_logs, in the order of insertion
    overflow,  \* records dropped because the queue was full
    givenUp,   \* records dropped with a batch that failed too often
    closing    \* "no", "draining" (onModuleDestroy runs, the timer is cleared) or "closed"

auditVars == <<queue, batch, pushed, rows, overflow, givenUp, closing>>

AuditInit ==
    /\ queue = <<>> /\ batch = <<>> /\ pushed = 0 /\ rows = <<>>
    /\ overflow = {} /\ givenUp = {} /\ closing = "no"

Flushing == batch # <<>>
Records(s) == {s[i].id : i \in DOMAIN s}
NumberOf(n) == IF n < Batch THEN n ELSE Batch
\* splice: flushQueuedBatch takes the head of q
Takes(q) == batch' = SubSeq(q, 1, NumberOf(Len(q))) /\ queue' = SubSeq(q, NumberOf(Len(q)) + 1, Len(q))

\* mutant: push does not look at the length
NeverFull == FALSE

IsFull == Len(queue) >= MaxQueue

\* push; it starts a flush when a batch is full, in the same turn of the loop
Push ==
    /\ pushed < MaxRecords /\ pushed' = pushed + 1
    /\ LET q == Append(IF IsFull THEN Tail(queue) ELSE queue, [id |-> pushed + 1, retries |-> 0])
       IN  /\ overflow' = IF IsFull THEN overflow \union {Head(queue).id} ELSE overflow
           /\ IF ~Flushing /\ Len(q) >= Batch THEN Takes(q) ELSE queue' = q /\ UNCHANGED batch
    /\ UNCHANGED <<rows, givenUp, closing>>

\* The timer, or the loop of onModuleDestroy: flush what there is.  Neither
\* runs when the shutdown has ended: then only a full batch is flushed, by push.
FlushBegins ==
    /\ closing # "closed" /\ ~Flushing /\ queue # <<>>
    /\ Takes(queue)
    /\ UNCHANGED <<pushed, rows, overflow, givenUp, closing>>

\* flushQueuedBatches goes on while a whole batch is waiting.
Continues(q) == IF Len(q) >= Batch THEN Takes(q) ELSE queue' = q /\ batch' = <<>>

\* One INSERT: a record that is in the table already (its id is the primary
\* key) fails the whole statement.
CanInsert == Records(batch) \cap ToSet(rows) = {}

InsertSucceeds ==
    /\ Flushing /\ CanInsert
    /\ rows' = rows \o [i \in DOMAIN batch |-> batch[i].id]
    /\ Continues(queue)
    /\ UNCHANGED <<pushed, overflow, givenUp, closing>>

\* mutant: the count starts again with every batch
CountForgotten == 1

Retries == 1 + Max({0} \union {batch[i].retries : i \in DOMAIN batch})

\* mutant: the failed records go to the end of the queue
BackToTail(q, b) == q \o b

\* mutant: the batch is not put back
ForgetsBatch(q, b) == q

\* unshift
BackToHead(q, b) == b \o q

TooOften == Retries > MaxRetries

\* The catch clause.  The error may be the answer that was lost: the rows may
\* have been written.
InsertFails ==
    /\ Flushing
    /\ rows' \in {rows} \union (IF CanInsert THEN {rows \o [i \in DOMAIN batch |-> batch[i].id]} ELSE {})
    /\ IF TooOften
       THEN givenUp' = givenUp \union Records(batch) /\ Continues(queue)
       ELSE /\ Continues(BackToHead(queue, [i \in DOMAIN batch |-> [batch[i] EXCEPT !.retries = Retries]]))
            /\ UNCHANGED givenUp
    /\ UNCHANGED <<pushed, overflow, closing>>

\* onModuleDestroy, of a process that is closed in order (app.close)
Close ==
    /\ closing = "no" /\ closing' = "draining"
    /\ UNCHANGED <<queue, batch, pushed, rows, overflow, givenUp>>

\* ... whose loop ends on an empty queue
DrainEnds ==
    /\ closing = "draining" /\ ~Flushing /\ queue = <<>> /\ closing' = "closed"
    /\ UNCHANGED <<queue, batch, pushed, rows, overflow, givenUp>>

InsertEnds == InsertSucceeds \/ InsertFails

AuditNext == Push \/ FlushBegins \/ InsertEnds \/ Close \/ DrainEnds

AuditSpec == AuditInit /\ [][AuditNext]_auditVars

\* The event loop runs the timer and the loop, and the database answers.
AuditFair == WF_auditVars(FlushBegins) /\ WF_auditVars(InsertEnds) /\ WF_auditVars(DrainEnds)
AuditLive == AuditSpec /\ AuditFair

(***************************************************************************)
(* Properties.                                                             *)
(***************************************************************************)
\* The log keeps the order of the events and has each of them once, through
\* failed, retried and half-answered batches.
StoredInOrder == \A i, j \in DOMAIN rows : i < j => rows[i] < rows[j]

\* A record that is neither stored nor waiting was dropped for one of the two
\* reasons the service logs: the full queue or the retry limit.
NothingVanishes ==
    (1..pushed) = Records(queue) \union Records(batch) \union ToSet(rows) \union overflow \union givenUp

\* The memory the log takes: the queue never outgrows its limit by more than
\* the batch that came back.
QueueIsBounded == Len(queue) + Len(batch) <= MaxQueue + Batch

LogIsWhole == QueueIsBounded /\ StoredInOrder /\ NothingVanishes

\* A shutdown that began ends, whether the database answers or fails for good,
\* and while records still come.
ShutdownEnds == closing = "draining" ~> closing = "closed"

\* A record that waits is settled: stored, or dropped for a reason that is
\* logged.  This is not so of one that is pushed after the shutdown: it waits
\* for a full batch, and is lost when the process ends.
RecordsSettle ==
    \A n \in 1 .. MaxRecords :
        (n \in Records(queue) /\ closing # "closed") ~> n \notin Records(queue) \union Records(batch)

=============================================================================
