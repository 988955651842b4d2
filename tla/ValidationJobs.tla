--------------------------- MODULE ValidationJobs ---------------------------
(***************************************************************************)
(* Jobs run inside the API: the validation of uploads over 5 MB.  Every    *)
(* replica polls for pending validation jobs, claims them with the Redis   *)
(* lock and the status machine, validates and archives the file, and ends  *)
(* the job (processPendingValidationJobs and what it calls).  A replica    *)
(* sends no heartbeats, so the dead-worker scan judges it by the age of    *)
(* its claims: it can take a job away from a replica that is alive and     *)
(* slow, whose task then ends against the row of a later attempt.          *)
(*                                                                         *)
(* Workers are the replicas: the owner identity is internal:validation:    *)
(* followed by a UUID drawn at start, so a crashed one never comes back.   *)
(* A job stands for its source document as well.                           *)
(***************************************************************************)
EXTENDS JobControl, FiniteSets, TLC

CONSTANTS
    Clean,                  \* jobs whose file passes the validators (mime type, zip limits)
    VALIDATION_JOB_BATCH,
    MaxFaults               \* bound: database, storage and Redis errors, and crashes

ASSUME CleanAssumption == Clean \subseteq Jobs
ASSUME BatchAssumption == VALIDATION_JOB_BATCH \in Nat \ {0}
ASSUME MaxFaultsAssumption == MaxFaults \in Nat

VARIABLES
    task,      \* task[w][j]: runInternalValidationJob of replica w for job j
    up,        \* replicas that are running
    aged,      \* aged[j]: the locked_at of a running job is over 90 s old
    doc,       \* source_documents.status
    stored,    \* buckets that hold the file
    ingest,    \* jobs whose ingestion job exists (its idempotency key makes it one)
    faults     \* history: faults so far

taskVars == <<task, up, aged, doc, stored, ingest, faults>>
vars == <<row, lock, scan, cancel, task, up, aged, doc, stored, ingest, faults>>

(* parsing stands for itself and what ingestion makes of the document later.*)
DocStatus == {"validating", "archived", "security_rejected", "parsing"}

(* n is attempt_count of the row the claim returned, seen is the status    *)
(* updateStatus read.                                                      *)
Work == {"validate", "copy", "delete", "status", "write", "ingest"}
Task == [pc : {"none", "read", "lock", "claim", "commit", "fail", "unlock", "release"} \cup Work,
         n : Nat, seen : DocStatus]
NoTask == [pc |-> "none", n |-> 0, seen |-> "validating"]

TypeOK ==
    /\ ControlTypeOK
    /\ task \in [Workers -> [Jobs -> Task]]
    /\ up \in SUBSET Workers
    /\ aged \in [Jobs -> BOOLEAN]
    /\ doc \in [Jobs -> DocStatus]
    /\ stored \in [Jobs -> SUBSET {"quarantine", "archives"}]
    /\ ingest \in SUBSET Jobs
    /\ faults \in Nat

(* uploadFile left the file in quarantine, the document validating and the *)
(* job pending.                                                            *)
Init ==
    /\ ControlInit
    /\ task = [w \in Workers |-> [j \in Jobs |-> NoTask]]
    /\ up = Workers
    /\ aged = [j \in Jobs |-> FALSE]
    /\ doc = [j \in Jobs |-> "validating"]
    /\ stored = [j \in Jobs |-> {"quarantine"}]
    /\ ingest = {}
    /\ faults = 0

-----------------------------------------------------------------------------
(* processPendingValidationJobs *)

At(w, j, pc) == task[w][j].pc = pc
Goto(w, j, pc) == task' = [task EXCEPT ![w][j].pc = pc]
Done(w, j) == task' = [task EXCEPT ![w][j] = NoTask]

PollInFlight(w) == \E j \in Jobs : ~At(w, j, "none")

(* One batch at a time; its tasks run concurrently. *)
Poll(w) ==
    /\ w \in up /\ ~PollInFlight(w)
    /\ LET pending == {j \in Jobs : row[j].status = "pending"} IN
       \E batch \in SUBSET pending :
          /\ batch # {} /\ Cardinality(batch) <= VALIDATION_JOB_BATCH
          /\ batch # pending => Cardinality(batch) = VALIDATION_JOB_BATCH
          /\ task' = [task EXCEPT ![w] = [j \in Jobs |->
                        IF j \in batch THEN [NoTask EXCEPT !.pc = "read"] ELSE NoTask]]
    /\ UNCHANGED <<row, lock, scan, cancel, up, aged, doc, stored, ingest, faults>>

-----------------------------------------------------------------------------
(* runInternalValidationJob *)

ReadJob(w, j) ==
    /\ At(w, j, "read")
    /\ IF row[j].status = "pending" THEN Goto(w, j, "lock") ELSE Done(w, j)
    /\ UNCHANGED <<row, lock, scan, cancel, up, aged, doc, stored, ingest, faults>>

AcquireLock(w, j) ==
    /\ At(w, j, "lock")
    /\ IF LockFree(lock, j)
       THEN lock' = Acquired(lock, j, w) /\ Goto(w, j, "claim")
       ELSE Done(w, j) /\ UNCHANGED lock
    /\ UNCHANGED <<row, scan, cancel, up, aged, doc, stored, ingest, faults>>

(* pending -> running.  Losing the race returns without a release: the     *)
(* lock stays until it expires.                                            *)
Claim(w, j) ==
    /\ At(w, j, "claim")
    /\ IF CanTransition(row[j], "pending", "running")
       THEN /\ row' = [row EXCEPT ![j] = ClaimedBy(@, w)]
            /\ aged' = [aged EXCEPT ![j] = FALSE]
            /\ task' = [task EXCEPT ![w][j] = [pc |-> "validate", n |-> row[j].attempt_count,
                                                    seen |-> "validating"]]
       ELSE Done(w, j) /\ UNCHANGED <<row, aged>>
    /\ UNCHANGED <<lock, scan, cancel, up, doc, stored, ingest, faults>>

(* validateQuarantinedUpload: download the file, run the validators. *)
Validate(w, j) ==
    /\ At(w, j, "validate")
    /\ Goto(w, j, IF "quarantine" \notin stored[j] THEN "fail"
                  ELSE IF j \in Clean THEN "copy" ELSE "status")
    /\ UNCHANGED <<row, lock, scan, cancel, up, aged, doc, stored, ingest, faults>>

(* Mutant: the original is deleted before the copy exists. *)
DeleteFirst(w, j) ==
    /\ At(w, j, "copy")
    /\ stored' = [stored EXCEPT ![j] = {}] /\ Goto(w, j, "delete")
    /\ UNCHANGED <<row, lock, scan, cancel, up, aged, doc, ingest, faults>>

(* completeValidation: promoteToArchive copies the object ...              *)
CopyToArchive(w, j) ==
    /\ At(w, j, "copy")
    /\ IF "quarantine" \in stored[j]
       THEN stored' = [stored EXCEPT ![j] = @ \cup {"archives"}] /\ Goto(w, j, "delete")
       ELSE Goto(w, j, "fail") /\ UNCHANGED stored
    /\ UNCHANGED <<row, lock, scan, cancel, up, aged, doc, ingest, faults>>

(* ... and deletes the original; deleting a missing object succeeds. *)
DeleteQuarantine(w, j) ==
    /\ At(w, j, "delete")
    /\ stored' = [stored EXCEPT ![j] = @ \ {"quarantine"}]
    /\ Goto(w, j, "status")
    /\ UNCHANGED <<row, lock, scan, cancel, up, aged, doc, ingest, faults>>

Verdict(j) == IF j \in Clean THEN "archived" ELSE "security_rejected"

(* SourceDocumentStateMachine: staying put is legal. *)
DocCanBecome(j, to) == doc[j] \in {"validating", to}

(* updateStatus reads the status and checks the transition to the verdict  *)
(* (an archived file has had its updateStorageUri) ...                     *)
ReadStatus(w, j) ==
    /\ At(w, j, "status")
    /\ IF DocCanBecome(j, Verdict(j))
       THEN task' = [task EXCEPT ![w][j].pc = "write", ![w][j].seen = doc[j]]
       ELSE Goto(w, j, "fail")
    /\ UNCHANGED <<row, lock, scan, cancel, up, aged, doc, stored, ingest, faults>>

(* Mutant: the ingestion job is left for later. *)
WriteOnly(w, j) ==
    /\ At(w, j, "write")
    /\ doc' = [doc EXCEPT ![j] = Verdict(j)] /\ Goto(w, j, "commit")
    /\ UNCHANGED <<row, lock, scan, cancel, up, aged, stored, ingest, faults>>

(* ... and updates the row if the status is still the one it read.  A      *)
(* rejection ends the work.                                                *)
WriteStatus(w, j) ==
    /\ At(w, j, "write")
    /\ IF doc[j] = task[w][j].seen
       THEN /\ doc' = [doc EXCEPT ![j] = Verdict(j)]
            /\ Goto(w, j, IF j \in Clean THEN "ingest" ELSE "commit")
       ELSE Goto(w, j, "fail") /\ UNCHANGED doc
    /\ UNCHANGED <<row, lock, scan, cancel, up, aged, stored, ingest, faults>>

CreateIngestionJob(w, j) ==
    /\ At(w, j, "ingest")
    /\ ingest' = ingest \cup {j}
    /\ Goto(w, j, "commit")
    /\ UNCHANGED <<row, lock, scan, cancel, up, aged, doc, stored, faults>>

(* running -> succeeded; a conflict is logged and the lock released. *)
Commit(w, j) ==
    /\ At(w, j, "commit")
    /\ row' = IF CanTransition(row[j], "running", "succeeded")
              THEN [row EXCEPT ![j] = Succeeded(@)] ELSE row
    /\ Goto(w, j, "release")
    /\ UNCHANGED <<lock, scan, cancel, up, aged, doc, stored, ingest, faults>>

(* failInternalValidationJob; its finally clause releases the lock. *)
FailJob(w, j) ==
    /\ At(w, j, "fail")
    /\ row' = IF CanTransition(row[j], "running", "failed")
              THEN [row EXCEPT ![j] = FailedAttempt(@, task[w][j].n, TRUE)] ELSE row
    /\ Goto(w, j, "unlock")
    /\ UNCHANGED <<lock, scan, cancel, up, aged, doc, stored, ingest, faults>>

ReleaseLock(w, j) ==
    /\ At(w, j, "unlock") \/ At(w, j, "release")
    /\ lock' = Released(lock, j, w)
    /\ Done(w, j)
    /\ UNCHANGED <<row, scan, cancel, up, aged, doc, stored, ingest, faults>>

(* A step throws: the work leads to failInternalValidationJob, which       *)
(* swallows an error of its transaction; an error of its release or of     *)
(* another transaction leads to the release in the catch clause, the rest  *)
(* to nothing.                                                             *)
StepThrows(w, j) ==
    /\ faults < MaxFaults
    /\ ~At(w, j, "none")
    /\ \/ task[w][j].pc \in Work /\ Goto(w, j, "fail")
       \/ task[w][j].pc = "fail" /\ Goto(w, j, "unlock")
       \/ task[w][j].pc \in {"claim", "commit", "unlock"} /\ Goto(w, j, "release")
       \/ task[w][j].pc \in {"read", "lock", "release"} /\ Done(w, j)
    /\ faults' = faults + 1
    /\ UNCHANGED <<row, lock, scan, cancel, up, aged, doc, stored, ingest>>

Crash(w) ==
    /\ faults < MaxFaults
    /\ w \in up
    /\ up' = up \ {w}
    /\ task' = [task EXCEPT ![w] = [j \in Jobs |-> NoTask]]
    /\ faults' = faults + 1
    /\ UNCHANGED <<row, lock, scan, cancel, aged, doc, stored, ingest>>

(* The ingestion job takes the document on (advanceDocumentToParsing). *)
IngestionAdvances(j) ==
    /\ j \in ingest /\ doc[j] = "archived"
    /\ doc' = [doc EXCEPT ![j] = "parsing"]
    /\ UNCHANGED <<row, lock, scan, cancel, task, up, aged, stored, ingest, faults>>

-----------------------------------------------------------------------------
(* Time and the scan *)

(* 90 s pass since a claim. *)
ClaimAges(j) ==
    /\ row[j].status = "running" /\ ~aged[j]
    /\ aged' = [aged EXCEPT ![j] = TRUE]
    /\ UNCHANGED <<row, lock, scan, cancel, task, up, doc, stored, ingest, faults>>

LockWithoutTTL(j) == FALSE /\ UNCHANGED vars    \* mutant: the lock is set without EX

(* 600 s pass since the lock was acquired; nothing renews it.  By then the *)
(* claim that followed has aged (a task does not stall that long between   *)
(* the two).                                                               *)
LockExpires(j) ==
    /\ lock[j] # NoWorker
    /\ ~At(lock[j], j, "claim")
    /\ row[j].status = "running" /\ row[j].locked_by = lock[j] => aged[j]
    /\ lock' = [lock EXCEPT ![j] = NoWorker]
    /\ UNCHANGED <<row, scan, cancel, task, up, aged, doc, stored, ingest, faults>>

NoHeartbeatIsAlive(s) == Workers      \* mutant: no fallback to the age of the claims

(* isDeadWorker without a heartbeat: the latest claim of the owner counts. *)
Alive(s) == {e.w : e \in {f \in scan[s].todo : ~aged[f.j]}}

ReadRunning(s) == ScanRead(s) /\ UNCHANGED taskVars
CheckWorker(s) == ScanWorker(s, Alive(s)) /\ UNCHANGED taskVars
FailDeadWorkerJob(s) == ScanFail(s) /\ UNCHANGED taskVars
ReleaseDeadLock(s) == ScanRelease(s) /\ UNCHANGED taskVars

-----------------------------------------------------------------------------

TaskStep(w, j) ==
    \/ ReadJob(w, j)
    \/ AcquireLock(w, j)
    \/ Claim(w, j)
    \/ Validate(w, j)
    \/ CopyToArchive(w, j)
    \/ DeleteQuarantine(w, j)
    \/ ReadStatus(w, j)
    \/ WriteStatus(w, j)
    \/ CreateIngestionJob(w, j)
    \/ Commit(w, j)
    \/ FailJob(w, j)
    \/ ReleaseLock(w, j)

ScanStep(s) == ReadRunning(s) \/ CheckWorker(s) \/ FailDeadWorkerJob(s) \/ ReleaseDeadLock(s)

Next ==
    \/ \E w \in Workers : Poll(w) \/ Crash(w)
    \/ \E w \in Workers, j \in Jobs : TaskStep(w, j) \/ StepThrows(w, j)
    \/ \E j \in Jobs : ClaimAges(j) \/ LockExpires(j) \/ IngestionAdvances(j)
    \/ \E s \in Scanners : ScanStep(s) \/ (ScanAbort(s) /\ UNCHANGED taskVars)
    \/ \E u \in Users : CancelStep(u) /\ UNCHANGED taskVars

Spec == Init /\ [][Next]_vars

-----------------------------------------------------------------------------
(* Safety *)

Archived(j) == doc[j] \in {"archived", "parsing"}

Decided(j) == IF j \in Clean THEN Archived(j) /\ j \in ingest ELSE doc[j] = "security_rejected"

(* A job that succeeded did its work: the document is decided as its file  *)
(* deserves and, if archived, was handed to ingestion, even when the task  *)
(* that wrote succeeded had lost the job to a later attempt.               *)
SucceededMeansDecided ==
    \A j \in Jobs : row[j].status = "succeeded" => Decided(j)

(* The file is never lost, and an archived document has its file in the    *)
(* archive, although several tasks may copy and delete it at once and any  *)
(* of them may stop half-way.                                              *)
ContentKept ==
    \A j \in Jobs : stored[j] # {} /\ (Archived(j) => "archives" \in stored[j])

-----------------------------------------------------------------------------
(* Liveness *)

(* The poll, the scan and the clock go on; a task runs to its end unless   *)
(* its replica stops; locks expire.                                        *)
Fairness ==
    /\ \A w \in Workers : SF_vars(Poll(w))
    /\ \A w \in Workers, j \in Jobs : WF_vars(TaskStep(w, j))
    /\ \A j \in Jobs : WF_vars(ClaimAges(j)) /\ SF_vars(LockExpires(j))
    /\ \A s \in Scanners : /\ WF_vars(ReadRunning(s))
                           /\ SF_vars(CheckWorker(s))
                           /\ SF_vars(FailDeadWorkerJob(s))
                           /\ WF_vars(ReleaseDeadLock(s))

LiveSpec == Spec /\ Fairness

(* No attempt lasts for ever: the job of a replica that stopped, or whose  *)
(* last transaction was lost, is reclaimed.                                *)
AttemptEnds == \A j \in Jobs : row[j].status = "running" ~> row[j].status # "running"

(* A pending job is claimed in the end, although a task that loses the     *)
(* race to claim it leaves the lock behind.                                *)
PendingIsClaimed == \A j \in Jobs : row[j].status = "pending" ~> row[j].status # "pending"

\* No job of this consumer waits or runs for ever.
JobsMoveOn == AttemptEnds /\ PendingIsClaimed

-----------------------------------------------------------------------------
(* What the comments say and the code does not do *)

(* internal-jobs.service.ts:355: "a stuck `validating` document always has *)
(* a recovery path".  So with fewer faults than attempts the document is   *)
(* decided in the end.                                                     *)
ValidatingDocumentRecovers == \A j \in Jobs : doc[j] = "validating" ~> doc[j] # "validating"

(* Identities are interchangeable where no liveness property is checked.   *)
Symmetric == Permutations(Workers) \cup Permutations(Scanners) \cup Permutations(Users)
=============================================================================
