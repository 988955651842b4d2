---------------------------- MODULE GraphifyRuns ----------------------------
(***************************************************************************)
(* What follows ingestion: the effects InternalJobsService runs when an    *)
(* ingestion or graphify job ends, the hand-off of parsed documents to     *)
(* graphify, and the runs users create, cancel and retry                   *)
(* (GraphifyService).  The documents are those of one upload batch in one  *)
(* space.  The jobs themselves are modelled in WorkerProtocol; here a job  *)
(* is its status, and reports its end at most once.                        *)
(*                                                                         *)
(* A handler is a record in hand; each await that reads or writes is a     *)
(* step.  Errors are caught and logged by the callers: a handler may stop  *)
(* at any step, and what it did stays.                                     *)
(***************************************************************************)
EXTENDS SourceDocuments, Naturals, Sequences

CONSTANTS
    GDocs,        \* source documents of the batch
    Immediate,    \* those with processing_strategy immediate
    Runs,         \* bound: graphify_runs rows that can be created
    NoRun,
    Handlers,     \* bound: handlers in flight
    MaxReprocess  \* bound: reprocess requests

ASSUME RunIds == NoRun \notin Runs /\ Immediate \subseteq GDocs

VARIABLES
    sdoc,        \* source documents: status and metadata graphify_run_id
    ingest,      \* ingest[d]: ingestion jobs of d that have not reported
    run,         \* graphify_runs: status and job_id
    gjob,        \* graphify jobs, named by the run_id of their payload
    batchJob,    \* the job with the idempotency key of the batch
    hand,        \* handlers in flight
    imported,    \* imported[r]: how often the graph of r was imported
    reprocesses

runVars == <<sdoc, ingest, run, gjob, batchJob, hand, imported, reprocesses>>

(* The code asks for pending or running, but nothing ever writes running. *)
Active == {"pending"}

Idle == [op |-> "idle", pc |-> "idle", d |-> {}, path |-> <<>>, r |-> NoRun, seen |-> "none"]

RunInit ==
    /\ sdoc = [d \in GDocs |-> [status |-> "archived", run |-> NoRun]]
    /\ ingest = [d \in GDocs |-> 1]
    /\ run = [r \in Runs |-> [status |-> "none", job |-> NoRun]]
    /\ gjob = [r \in Runs |-> "none"]
    /\ batchJob = NoRun
    /\ hand = [h \in Handlers |-> Idle]
    /\ imported = [r \in Runs |-> 0]
    /\ reprocesses = 0

HandAt(h, op, pc) == hand[h].op = op /\ hand[h].pc = pc
Done(h) == hand' = [hand EXCEPT ![h] = Idle]
Start(h, rec) == hand[h] = Idle /\ hand' = [hand EXCEPT ![h] = rec]

-----------------------------------------------------------------------------
(* The end of an ingestion job *)

(* reportComplete or the last reportFailure of the job, then               *)
(* markIngestionComplete or markIngestionFailed reads the document.        *)
IngestionEnds(h, d, ok) ==
    /\ ingest[d] > 0
    /\ ingest' = [ingest EXCEPT ![d] = @ - 1]
    /\ Start(h, [Idle EXCEPT !.op = IF ok THEN "complete" ELSE "fail", !.pc = "read", !.d = {d}])
    /\ UNCHANGED <<sdoc, run, gjob, batchJob, imported, reprocesses>>

(* advanceDocumentToParsing, by the status of the document read. *)
AdvancePath(status) ==
    CASE status = "uploaded" -> <<"validating", "archived", "parsing">>
      [] status = "archived" -> <<"parsing">>
      [] OTHER -> <<>>

MarkRead(h) ==
    /\ hand[h].op \in {"complete", "fail"} /\ hand[h].pc = "read"
    /\ \E d \in hand[h].d :
          LET decided == sdoc[d].status \in {"parsed", "parse_failed"}
              target == IF hand[h].op = "complete" THEN "parsed" ELSE "parse_failed"
          IN  hand' = [hand EXCEPT ![h].pc = "move",
                                   ![h].path = IF decided THEN <<>>
                                               ELSE Append(AdvancePath(sdoc[d].status), target)]
    /\ UNCHANGED <<sdoc, ingest, run, gjob, batchJob, imported, reprocesses>>

(* One updateStatus of the path; an illegal one ends the handler. *)
MarkMove(h) ==
    /\ hand[h].op \in {"complete", "fail"} /\ hand[h].pc = "move" /\ hand[h].path # <<>>
    /\ \E d \in hand[h].d :
          IF CanMove(sdoc[d].status, Head(hand[h].path))
          THEN /\ sdoc' = [sdoc EXCEPT ![d].status = Head(hand[h].path)]
               /\ hand' = [hand EXCEPT ![h].path = Tail(@)]
          ELSE UNCHANGED sdoc /\ Done(h)
    /\ UNCHANGED <<ingest, run, gjob, batchJob, imported, reprocesses>>

(* markIngestionFailed ends here; a completion goes on to the hand-off.    *)
MarkEnds(h) ==
    /\ hand[h].op \in {"complete", "fail"} /\ hand[h].pc = "move" /\ hand[h].path = <<>>
    /\ IF hand[h].op = "complete"
       THEN hand' = [hand EXCEPT ![h].op = "handoff", ![h].pc = "read"]
       ELSE Done(h)
    /\ UNCHANGED <<sdoc, ingest, run, gjob, batchJob, imported, reprocesses>>

(* handleGraphifyHandoff: only a parsed document that is to be processed   *)
(* immediately; with it, the batch's documents that are ready.             *)
HandoffRead(h) ==
    /\ HandAt(h, "handoff", "read")
    /\ \E d \in hand[h].d :
          IF sdoc[d].status = "parsed" /\ d \in Immediate
          THEN hand' = [hand EXCEPT ![h].pc = "tx",
                                    ![h].d = {e \in Immediate : sdoc[e].status = "parsed"}]
          ELSE Done(h)
    /\ UNCHANGED <<sdoc, ingest, run, gjob, batchJob, imported, reprocesses>>

Fresh(r) == run[r].status = "none"

(* The transaction: a new run, and a job under the idempotency key of the  *)
(* batch, which is the old job if the batch had one.                       *)
HandoffTx(h, r) ==
    /\ HandAt(h, "handoff", "tx") /\ Fresh(r)
    /\ LET first == batchJob = NoRun
       IN  /\ run' = [run EXCEPT ![r] = [status |-> "pending", job |-> IF first THEN r ELSE batchJob]]
           /\ gjob' = IF first THEN [gjob EXCEPT ![r] = "pending"] ELSE gjob
           /\ batchJob' = IF first THEN r ELSE batchJob
    /\ hand' = [hand EXCEPT ![h].pc = "docs", ![h].r = r]
    /\ UNCHANGED <<sdoc, ingest, imported, reprocesses>>

(* updateStatus(graphify_pending) with the run's id, document by document. *)
HandoffDoc(h, d) ==
    /\ HandAt(h, "handoff", "docs") /\ d \in hand[h].d
    /\ IF CanMove(sdoc[d].status, "graphify_pending")
       THEN /\ sdoc' = [sdoc EXCEPT ![d] = [status |-> "graphify_pending", run |-> hand[h].r]]
            /\ hand' = [hand EXCEPT ![h].d = @ \ {d}]
       ELSE UNCHANGED sdoc /\ Done(h)
    /\ UNCHANGED <<ingest, run, gjob, batchJob, imported, reprocesses>>

HandoffEnds(h) ==
    /\ HandAt(h, "handoff", "docs") /\ hand[h].d = {}
    /\ Done(h)
    /\ UNCHANGED <<sdoc, ingest, run, gjob, batchJob, imported, reprocesses>>

-----------------------------------------------------------------------------
(* reprocess *)

ReprocessRead(h, d) ==
    /\ reprocesses < MaxReprocess
    /\ sdoc[d].status = "parse_failed"
    /\ Start(h, [Idle EXCEPT !.op = "reprocess", !.pc = "reset", !.d = {d}])
    /\ reprocesses' = reprocesses + 1
    /\ UNCHANGED <<sdoc, ingest, run, gjob, batchJob, imported>>

(* updateStatus(uploaded), which a document reset meanwhile also accepts.  *)
ReprocessReset(h) ==
    /\ HandAt(h, "reprocess", "reset")
    /\ \E d \in hand[h].d :
          IF CanMove(sdoc[d].status, "uploaded")
          THEN /\ sdoc' = [sdoc EXCEPT ![d].status = "uploaded"]
               /\ hand' = [hand EXCEPT ![h].pc = "job"]
          ELSE UNCHANGED sdoc /\ Done(h)
    /\ UNCHANGED <<ingest, run, gjob, batchJob, imported, reprocesses>>

(* createIngestionJob with forceNew: no idempotency key. *)
ReprocessJob(h) ==
    /\ HandAt(h, "reprocess", "job")
    /\ \E d \in hand[h].d : ingest' = [ingest EXCEPT ![d] = @ + 1]
    /\ Done(h)
    /\ UNCHANGED <<sdoc, run, gjob, batchJob, imported, reprocesses>>

-----------------------------------------------------------------------------
(* GraphifyService: createRun and retryRun, cancelRun *)

(* assertNoConcurrentRun; a retry asks first that its run is terminal.     *)
CreateCheck(h) ==
    /\ \A r \in Runs : run[r].status \notin Active
    /\ Start(h, [Idle EXCEPT !.op = "create", !.pc = "tx"])
    /\ UNCHANGED <<sdoc, ingest, run, gjob, batchJob, imported, reprocesses>>

RetryCheck(h, r) ==
    /\ run[r].status \in {"failed", "cancelled", "succeeded"}
    /\ CreateCheck(h)

(* createRunRecord: run and job in one transaction, no idempotency key.    *)
CreateRunRecord(h, r) ==
    /\ HandAt(h, "create", "tx") /\ Fresh(r)
    /\ run' = [run EXCEPT ![r] = [status |-> "pending", job |-> r]]
    /\ gjob' = [gjob EXCEPT ![r] = "pending"]
    /\ Done(h)
    /\ UNCHANGED <<sdoc, ingest, batchJob, imported, reprocesses>>

CancelRunRead(h, r) ==
    /\ run[r].status \in Active
    /\ Start(h, [Idle EXCEPT !.op = "cancel", !.pc = "job", !.r = r])
    /\ UNCHANGED <<sdoc, ingest, run, gjob, batchJob, imported, reprocesses>>

(* cancelRunJob reads the job within the transaction ...                   *)
CancelFindJob(h) ==
    /\ HandAt(h, "cancel", "job")
    /\ hand' = [hand EXCEPT ![h].pc = "commit", ![h].seen = gjob[run[hand[h].r].job]]
    /\ UNCHANGED <<sdoc, ingest, run, gjob, batchJob, imported, reprocesses>>

(* ... and neither UPDATE compares what it overwrites. *)
CancelRunCommit(h) ==
    /\ HandAt(h, "cancel", "commit")
    /\ run' = [run EXCEPT ![hand[h].r].status = "cancelled"]
    /\ gjob' = IF hand[h].seen = "pending"
               THEN [gjob EXCEPT ![run[hand[h].r].job] = "cancelled"] ELSE gjob
    /\ Done(h)
    /\ UNCHANGED <<sdoc, ingest, batchJob, imported, reprocesses>>

-----------------------------------------------------------------------------
(* The graphify job and what follows it *)

JobClaimed(r) ==
    /\ gjob[r] = "pending"
    /\ gjob' = [gjob EXCEPT ![r] = "running"]
    /\ UNCHANGED <<sdoc, ingest, run, batchJob, hand, imported, reprocesses>>

(* The attempt fails and is retried: handleFailedJob returns at once.      *)
JobRetried(r) ==
    /\ gjob[r] = "running"
    /\ gjob' = [gjob EXCEPT ![r] = "pending"]
    /\ UNCHANGED <<sdoc, ingest, run, batchJob, hand, imported, reprocesses>>

(* handleRunFailure, on the run the payload names. *)
OverwriteRun(r) ==         \* mutant: the status of the run is not compared
    /\ gjob[r] = "running"
    /\ gjob' = [gjob EXCEPT ![r] = "failed"]
    /\ run' = [run EXCEPT ![r].status = "failed"]
    /\ UNCHANGED <<sdoc, ingest, batchJob, hand, imported, reprocesses>>

JobFailed(r) ==
    /\ gjob[r] = "running"
    /\ gjob' = [gjob EXCEPT ![r] = "failed"]
    /\ run' = [run EXCEPT ![r].status = IF @ \in Active THEN "failed" ELSE @]
    /\ UNCHANGED <<sdoc, ingest, batchJob, hand, imported, reprocesses>>

(* failDeadWorkerJob ends the job; for a graphify job it tells nobody.     *)
JobFailedByScan(r) ==
    /\ gjob[r] = "running"
    /\ gjob' = [gjob EXCEPT ![r] = "failed"]
    /\ UNCHANGED <<sdoc, ingest, run, batchJob, hand, imported, reprocesses>>

SucceedsAgain(h, r) ==     \* mutant: a completion reported twice is taken twice
    /\ gjob[r] \in {"running", "succeeded"}
    /\ gjob' = [gjob EXCEPT ![r] = "succeeded"]
    /\ Start(h, [Idle EXCEPT !.op = "graphify", !.pc = "complete", !.r = r])
    /\ UNCHANGED <<sdoc, ingest, run, batchJob, imported, reprocesses>>

JobSucceeds(h, r) ==
    /\ gjob[r] = "running"
    /\ gjob' = [gjob EXCEPT ![r] = "succeeded"]
    /\ Start(h, [Idle EXCEPT !.op = "graphify", !.pc = "complete", !.r = r])
    /\ UNCHANGED <<sdoc, ingest, run, batchJob, imported, reprocesses>>

(* handleRunCompletion: the run is updated if it is active; a run that is  *)
(* not leads to graphify_failed, whatever ended it.                        *)
RunCompletion(h) ==
    /\ HandAt(h, "graphify", "complete")
    /\ LET r == hand[h].r
           won == run[r].status \in Active
           succeeded == won \/ run[r].status = "succeeded"
       IN  /\ run' = IF won THEN [run EXCEPT ![r].status = "succeeded"] ELSE run
           /\ hand' = [hand EXCEPT ![h].pc = IF succeeded THEN "import" ELSE "load",
                                   ![h].path = IF succeeded THEN <<"wiki_proposed">>
                                               ELSE <<"graphify_failed">>]
    /\ UNCHANGED <<sdoc, ingest, gjob, batchJob, imported, reprocesses>>

(* importGraphData and generateForRun, whose errors are logged: the        *)
(* transaction of the import commits or not, the pipeline goes on.         *)
ImportGraphData(h, ok) ==
    /\ HandAt(h, "graphify", "import")
    /\ imported' = [imported EXCEPT ![hand[h].r] = IF ok THEN @ + 1 ELSE @]
    /\ hand' = [hand EXCEPT ![h].pc = "load"]
    /\ UNCHANGED <<sdoc, ingest, run, gjob, batchJob, reprocesses>>

(* advanceRunDocuments: the documents of the run that are in graphify.     *)
LoadRunDocuments(h) ==
    /\ HandAt(h, "graphify", "load")
    /\ hand' = [hand EXCEPT ![h].pc = "advance",
                            ![h].d = {d \in GDocs : /\ sdoc[d].run = hand[h].r
                                                    /\ sdoc[d].status \in {"graphify_pending",
                                                                           "graphify_running"}}]
    /\ UNCHANGED <<sdoc, ingest, run, gjob, batchJob, imported, reprocesses>>

(* transitionSourceDocument, one guarded hop; a document that moved        *)
(* meanwhile is left alone.                                                *)
AdvanceDocument(h, d) ==
    /\ HandAt(h, "graphify", "advance") /\ d \in hand[h].d
    /\ \/ /\ sdoc[d].status = "graphify_pending"
          /\ sdoc' = [sdoc EXCEPT ![d].status = "graphify_running"]
          /\ UNCHANGED hand
       \/ /\ sdoc[d].status = "graphify_running"
          /\ sdoc' = [sdoc EXCEPT ![d].status = Head(hand[h].path)]
          /\ hand' = [hand EXCEPT ![h].d = @ \ {d}]
       \/ /\ sdoc[d].status \notin {"graphify_pending", "graphify_running"}
          /\ hand' = [hand EXCEPT ![h].d = @ \ {d}]
          /\ UNCHANGED sdoc
    /\ UNCHANGED <<ingest, run, gjob, batchJob, imported, reprocesses>>

(* The reindex job, and for a space mapped to Docmost the push job: the    *)
(* run, if still succeeded, shows how that went.                           *)
PipelineEnds(h, outcome) ==
    /\ HandAt(h, "graphify", "advance") /\ hand[h].d = {}
    /\ outcome \in {"unmapped", "docmost_syncing", "docmost_sync_failed"}
    /\ run' = IF /\ outcome # "unmapped"
                 /\ hand[h].path = <<"wiki_proposed">>
                 /\ run[hand[h].r].status = "succeeded"
              THEN [run EXCEPT ![hand[h].r].status = outcome] ELSE run
    /\ Done(h)
    /\ UNCHANGED <<sdoc, ingest, gjob, batchJob, imported, reprocesses>>

HandlerAborts(h) ==
    /\ hand[h] # Idle
    /\ Done(h)
    /\ UNCHANGED <<sdoc, ingest, run, gjob, batchJob, imported, reprocesses>>

-----------------------------------------------------------------------------

RunHandlerStep(h) ==
    \/ MarkRead(h) \/ MarkMove(h) \/ MarkEnds(h)
    \/ HandoffRead(h) \/ (\E r \in Runs : HandoffTx(h, r)) \/ HandoffEnds(h)
    \/ \E d \in GDocs : HandoffDoc(h, d) \/ AdvanceDocument(h, d)
    \/ ReprocessReset(h) \/ ReprocessJob(h)
    \/ \E r \in Runs : CreateRunRecord(h, r)
    \/ CancelFindJob(h) \/ CancelRunCommit(h)
    \/ RunCompletion(h)
    \/ \E ok \in BOOLEAN : ImportGraphData(h, ok)
    \/ LoadRunDocuments(h)
    \/ \E o \in {"unmapped", "docmost_syncing", "docmost_sync_failed"} : PipelineEnds(h, o)

RunRequest(h) ==
    \/ \E d \in GDocs : ReprocessRead(h, d) \/ \E ok \in BOOLEAN : IngestionEnds(h, d, ok)
    \/ CreateCheck(h)
    \/ \E r \in Runs : RetryCheck(h, r) \/ CancelRunRead(h, r) \/ JobSucceeds(h, r)

RunNext ==
    \/ \E h \in Handlers : RunRequest(h) \/ RunHandlerStep(h) \/ HandlerAborts(h)
    \/ \E r \in Runs : JobClaimed(r) \/ JobRetried(r) \/ JobFailed(r) \/ JobFailedByScan(r)

RunSpec == RunInit /\ [][RunNext]_runVars

-----------------------------------------------------------------------------
(* Safety *)

BeforeHandoff == {"uploaded", "validating", "archived", "parsing", "parsed", "parse_failed"}

(* A document handed to graphify never falls back behind the hand-off: a   *)
(* second ingestion job (two reprocess requests create two) that reports   *)
(* late, in any order with the first, is refused by updateStatus.          *)
HandoffIsKeptStep ==
    \A d \in GDocs : sdoc[d].status \notin BeforeHandoff =>
         sdoc'[d].status \notin BeforeHandoff

HandoffIsKept == [][HandoffIsKeptStep]_runVars

(* The graph of a run is imported at most once, and only after the job     *)
(* that names the run succeeded (or its status was overwritten by a        *)
(* cancellation): not for a second run of the batch that shares the job.   *)
ImportedOnce ==
    \A r \in Runs : imported[r] <= 1 /\ (imported[r] = 1 => gjob[r] \in {"succeeded", "cancelled"})

(* cancelRun's answer stays true of the run: completions, failures and the *)
(* Docmost status that arrive after it leave a cancelled run alone.        *)
CancelledRunStaysStep ==
    \A r \in Runs : run[r].status = "cancelled" => run'[r].status = "cancelled"

CancelledRunStays == [][CancelledRunStaysStep]_runVars

(* What the hand-off and a cancellation decided of a document and of a run. *)
DecisionsStay == HandoffIsKept /\ CancelledRunStays

=============================================================================
