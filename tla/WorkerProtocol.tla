--------------------------- MODULE WorkerProtocol ---------------------------
(***************************************************************************)
(* Jobs run by remote workers (ingestion, url_fetch): the Python poll loop *)
(* of cherry_worker_protocol, the /internal/jobs handlers of               *)
(* InternalJobsService, its dead-worker scan, and user cancellation by     *)
(* JobsService, all sharing the jobs table and the Redis job locks.        *)
(*                                                                         *)
(* Every await in a handler is a point where the others may run: a handler *)
(* is a call record that remembers the row it read, and each database      *)
(* transaction or Redis command is one step.  A transaction is atomic (the *)
(* status UPDATE holds the row lock until commit).                         *)
(***************************************************************************)
EXTENDS JobControl

CONSTANTS
    Restartable,        \* workers deployed with a fixed WORKER_ID: a restart keeps the identity
    Calls,              \* bound: HTTP handlers of workers in flight at once
    NoCall,
    MaxClaims           \* bound: a job is no longer polled after this many claims

ASSUME RestartableAssumption == Restartable \subseteq Workers
ASSUME NoCallAssumption == NoCall \notin Calls
ASSUME MaxClaimsAssumption == MaxClaims \in Nat

VARIABLES
    beat,      \* beat[w]: the stored heartbeat of w is at most 90 s old
    worker,    \* the poll loop of each worker process
    calls,     \* handlers in flight in the API
    claims,    \* history: how often the job was claimed
    applied    \* history: how often the effects of its completion were run

vars == <<row, lock, beat, worker, calls, scan, cancel, claims, applied>>

-----------------------------------------------------------------------------
(* Types *)

WorkerState == [pc : {"idle", "work", "failing", "await", "down"},
                job : Jobs \cup {NoJob},
                call : Calls \cup {NoCall},
                claimed : BOOLEAN]

(* A worker at a point of its loop where it awaits and has claimed nothing.*)
WorkerAt(pc, j) == [pc |-> pc, job |-> j, call |-> NoCall, claimed |-> FALSE]
IdleWorker == WorkerAt("idle", NoJob)

Ops == {"progress", "complete", "fail"}

(* n is job.attempt_count as reportFailure read it; retry is the request's   *)
(* retryable flag.                                                         *)
Call == [pc : {"read", "claim", "unlock", "renew", "commit", "release", "effects"},
         op : Ops, w : Workers, j : Jobs, n : Nat, retry : BOOLEAN]

TypeOK ==
    /\ ControlTypeOK
    /\ beat \in [Workers -> BOOLEAN]
    /\ worker \in [Workers -> WorkerState]
    /\ calls \in [Calls -> Call \cup {NoCall}]
    /\ claims \in [Jobs -> Nat]
    /\ applied \in [Jobs -> Nat]

Init ==
    /\ ControlInit
    /\ beat = [w \in Workers |-> FALSE]
    /\ worker = [w \in Workers |-> IdleWorker]
    /\ calls = [c \in Calls |-> NoCall]
    /\ claims = [j \in Jobs |-> 0]
    /\ applied = [j \in Jobs |-> 0]

-----------------------------------------------------------------------------
(* The worker process: run_once, poll_jobs and the heartbeat thread *)

(* fetch_pending_job: a pending job of the type is returned and becomes an *)
(* active job.  It is not yet claimed: the first progress report does that.*)
FetchPendingJob(w) ==
    /\ worker[w].pc = "idle"
    /\ \E j \in Jobs :
          /\ row[j].status = "pending"
          /\ claims[j] < MaxClaims
          /\ worker' = [worker EXCEPT ![w] = WorkerAt("work", j)]
    /\ UNCHANGED <<row, lock, beat, calls, scan, cancel, claims, applied>>

Awaiting(wk, c, op) ==
    [wk EXCEPT !.pc = "await", !.call = c,
               !.claimed = IF op = "progress" THEN @ ELSE FALSE]

(* One HTTP request.  The handler reports progress before it does any work *)
(* and completes only after that; it may raise at any point.               *)
Send(w, op) ==
    /\ \/ worker[w].pc = "work" /\ (op = "complete" => worker[w].claimed)
       \/ worker[w].pc = "failing" /\ op = "fail"
    /\ \E c \in Calls, retry \in BOOLEAN :
          /\ calls[c] = NoCall
          /\ op # "fail" => retry
          /\ calls' = [calls EXCEPT ![c] = [pc |-> "read", op |-> op, w |-> w,
                                            j |-> worker[w].job, n |-> 0, retry |-> retry]]
          /\ worker' = [worker EXCEPT ![w] = Awaiting(@, c, op)]
    /\ UNCHANGED <<row, lock, beat, scan, cancel, claims, applied>>

(* What the loop does when a call returns or raises.  A failed claim makes *)
(* the job handler raise, which leads to fail_job; a failed complete or    *)
(* fail request is logged by poll_jobs and the job is dropped from the     *)
(* active jobs either way.                                                 *)
AfterCall(wk, op, ok) ==
    IF op = "progress"
    THEN [wk EXCEPT !.pc = IF ok \/ wk.claimed THEN "work" ELSE "failing",
                    !.call = NoCall,
                    !.claimed = IF ok THEN TRUE ELSE @]
    ELSE IdleWorker

(* The handler of call c ends; its answer reaches the worker if that is    *)
(* still waiting for it.                                                   *)
Answer(c, ok) ==
    /\ calls' = [calls EXCEPT ![c] = NoCall]
    /\ LET w == calls[c].w IN
       worker' = [worker EXCEPT ![w] = IF @.pc = "await" /\ @.call = c
                                       THEN AfterCall(@, calls[c].op, ok) ELSE @]

(* The client's 10 s timeout: the worker goes on, the handler too. *)
RequestTimeout(w) ==
    /\ worker[w].pc = "await"
    /\ worker' = [worker EXCEPT ![w] = AfterCall(@, calls[worker[w].call].op, FALSE)]
    /\ UNCHANGED <<row, lock, beat, calls, scan, cancel, claims, applied>>

(* The request is lost, or the API process dies in the middle of the       *)
(* handler: what it did so far stays, the rest never happens.              *)
LoseCall(c) ==
    /\ calls[c] # NoCall
    /\ Answer(c, FALSE)
    /\ UNCHANGED <<row, lock, beat, scan, cancel, claims, applied>>

(* recordHeartbeat: the 30 s heartbeat thread.  Renewing the locks of the  *)
(* active jobs is what keeps LockExpires disabled; the response            *)
(* (lost_locks, cancel_requested) is discarded by the loop.                *)
Heartbeat(w) ==
    /\ worker[w].pc # "down"
    /\ ~beat[w]
    /\ beat' = [beat EXCEPT ![w] = TRUE]
    /\ UNCHANGED <<row, lock, worker, calls, scan, cancel, claims, applied>>

(* DEAD_WORKER_THRESHOLD_MS passes without a heartbeat of w. *)
HeartbeatAges(w) ==
    /\ beat[w]
    /\ beat' = [beat EXCEPT ![w] = FALSE]
    /\ UNCHANGED <<row, lock, worker, calls, scan, cancel, claims, applied>>

LockWithoutTTL(j) == FALSE /\ UNCHANGED vars    \* mutant: the lock is set without EX

(* The lock's 600 s pass without a renewal.  The holder's heartbeats renew *)
(* it while they arrive and name the job as active.                        *)
LockExpires(j) ==
    /\ lock[j] # NoWorker
    /\ ~(beat[lock[j]] /\ worker[lock[j]].job = j)
    /\ lock' = [lock EXCEPT ![j] = NoWorker]
    /\ UNCHANGED <<row, beat, worker, calls, scan, cancel, claims, applied>>

Crash(w) ==
    /\ worker[w].pc # "down"
    /\ worker' = [worker EXCEPT ![w] = WorkerAt("down", NoJob)]
    /\ UNCHANGED <<row, lock, beat, calls, scan, cancel, claims, applied>>

(* generate_worker_id: only a worker with WORKER_ID set comes back under   *)
(* the identity it had.                                                    *)
Restart(w) ==
    /\ w \in Restartable
    /\ worker[w].pc = "down"
    /\ worker' = [worker EXCEPT ![w] = IdleWorker]
    /\ UNCHANGED <<row, lock, beat, calls, scan, cancel, claims, applied>>

-----------------------------------------------------------------------------
(* InternalJobsService: the handlers a worker calls *)

At(c, op, pc) == calls[c] # NoCall /\ calls[c].op \in op /\ calls[c].pc = pc

Goto(c, pc) == calls' = [calls EXCEPT ![c].pc = pc] /\ UNCHANGED worker

(* After the commit a handler no longer uses the row it read. *)
Committed(c) ==
    /\ calls' = [calls EXCEPT ![c].pc = "release", ![c].n = 0, ![c].retry = TRUE]
    /\ UNCHANGED worker

(* assertRunningJobOwner, on the row just read. *)
RunningJobOwner(j, w) == row[j].status = "running" /\ row[j].locked_by = w

(* reportProgress reads the row.  For a pending job it touches the         *)
(* heartbeat and goes on to activate the job.                              *)
ProgressRead(c) ==
    /\ At(c, {"progress"}, "read")
    /\ LET j == calls[c].j
           w == calls[c].w
       IN  \/ /\ row[j].status = "pending"
              /\ beat' = [beat EXCEPT ![w] = TRUE]
              /\ Goto(c, "claim")
           \/ /\ RunningJobOwner(j, w)
              /\ Goto(c, "renew")
              /\ UNCHANGED beat
           \/ /\ row[j].status # "pending" /\ ~RunningJobOwner(j, w)
              /\ Answer(c, FALSE)
              /\ UNCHANGED beat
    /\ UNCHANGED <<row, lock, scan, cancel, claims, applied>>

(* The activation transaction: pending -> running, then the Redis lock; a  *)
(* lost race or a held lock rolls it back.                                 *)
ProgressClaim(c) ==
    /\ At(c, {"progress"}, "claim")
    /\ LET j == calls[c].j
           w == calls[c].w
           won == CanTransition(row[j], "pending", "running") /\ LockFree(lock, j)
       IN  /\ row' = IF won THEN [row EXCEPT ![j] = ClaimedBy(@, w)] ELSE row
           /\ lock' = IF won THEN Acquired(lock, j, w) ELSE lock
           /\ claims' = IF won THEN [claims EXCEPT ![j] = @ + 1] ELSE claims
           /\ Answer(c, won)
    /\ UNCHANGED <<beat, scan, cancel, applied>>

(* The transaction fails after the lock was acquired: the row rolls back,  *)
(* the lock does not.                                                      *)
ProgressClaimRollback(c) ==
    /\ At(c, {"progress"}, "claim")
    /\ CanTransition(row[calls[c].j], "pending", "running")
    /\ LockFree(lock, calls[c].j)
    /\ lock' = Acquired(lock, calls[c].j, calls[c].w)
    /\ Goto(c, "unlock")
    /\ UNCHANGED <<row, beat, scan, cancel, claims, applied>>

(* ... and the catch clause releases it. *)
ProgressUnlock(c) ==
    /\ At(c, {"progress"}, "unlock")
    /\ lock' = Released(lock, calls[c].j, calls[c].w)
    /\ Answer(c, FALSE)
    /\ UNCHANGED <<row, beat, scan, cancel, claims, applied>>

(* A progress report of a running job: renew the lock, touch the heartbeat.*)
ProgressRenew(c) ==
    /\ At(c, {"progress"}, "renew")
    /\ LET owned == Renewable(lock, calls[c].j, calls[c].w)
       IN  /\ beat' = IF owned THEN [beat EXCEPT ![calls[c].w] = TRUE] ELSE beat
           /\ Answer(c, owned)
    /\ UNCHANGED <<row, lock, scan, cancel, claims, applied>>

(* reportComplete and reportFailure read the row and check its owner. *)
ReportRead(c) ==
    /\ At(c, {"complete", "fail"}, "read")
    /\ LET j == calls[c].j IN
       IF RunningJobOwner(j, calls[c].w)
       THEN /\ calls' = [calls EXCEPT ![c].pc = "renew",
                                      ![c].n = IF calls[c].op = "fail" THEN row[j].attempt_count ELSE @]
            /\ UNCHANGED worker
       ELSE Answer(c, FALSE)
    /\ UNCHANGED <<row, lock, beat, scan, cancel, claims, applied>>

(* renewOwnedJobLock. *)
ReportRenew(c) ==
    /\ At(c, {"complete", "fail"}, "renew")
    /\ IF Renewable(lock, calls[c].j, calls[c].w) THEN Goto(c, "commit") ELSE Answer(c, FALSE)
    /\ UNCHANGED <<row, lock, beat, scan, cancel, claims, applied>>

(* reportComplete's transaction. *)
CompleteCommit(c) ==
    /\ At(c, {"complete"}, "commit")
    /\ LET j == calls[c].j IN
       IF CanTransition(row[j], "running", "succeeded")
       THEN row' = [row EXCEPT ![j] = Succeeded(@)] /\ Committed(c)
       ELSE UNCHANGED row /\ Answer(c, FALSE)
    /\ UNCHANGED <<lock, beat, scan, cancel, claims, applied>>

(* reportFailure's transaction. *)
FailCommit(c) ==
    /\ At(c, {"fail"}, "commit")
    /\ LET j == calls[c].j IN
       IF CanTransition(row[j], "running", "failed")
       THEN /\ row' = [row EXCEPT ![j] = FailedAttempt(@, calls[c].n, calls[c].retry)]
            /\ Committed(c)
       ELSE UNCHANGED row /\ Answer(c, FALSE)
    /\ UNCHANGED <<lock, beat, scan, cancel, claims, applied>>

(* releaseJobLock; a lock that changed hands is left alone. *)
ReportRelease(c) ==
    /\ At(c, {"complete", "fail"}, "release")
    /\ lock' = Released(lock, calls[c].j, calls[c].w)
    /\ Goto(c, "effects")
    /\ UNCHANGED <<row, beat, scan, cancel, claims, applied>>

(* handleSuccessfulJobCompletion or handleFailedJob, then the response.    *)
(* The worker's loop treats an error here like success.                    *)
ReportEffects(c) ==
    /\ At(c, {"complete", "fail"}, "effects")
    /\ applied' = IF calls[c].op = "complete"
                  THEN [applied EXCEPT ![calls[c].j] = @ + 1] ELSE applied
    /\ Answer(c, TRUE)
    /\ UNCHANGED <<row, lock, beat, scan, cancel, claims>>

-----------------------------------------------------------------------------

WorkerStep(w) ==
    \/ FetchPendingJob(w)
    \/ \E op \in Ops : Send(w, op)
    \/ RequestTimeout(w)
    \/ Heartbeat(w)
    \/ HeartbeatAges(w)
    \/ Crash(w)
    \/ Restart(w)

(* The steps a handler takes by itself. *)
HandlerStep(c) ==
    \/ ProgressRead(c)
    \/ ProgressClaim(c)
    \/ ProgressClaimRollback(c)
    \/ ProgressUnlock(c)
    \/ ProgressRenew(c)
    \/ ReportRead(c)
    \/ ReportRenew(c)
    \/ CompleteCommit(c)
    \/ FailCommit(c)
    \/ ReportRelease(c)
    \/ ReportEffects(c)

workerVars == <<beat, worker, calls, claims, applied>>

EverSeen == Workers      \* mutant: the age of the heartbeat is not checked

(* isDeadWorker: an owner has sent a heartbeat (the claim does), so a      *)
(* missing key is one that expired, and its jobs are as old.               *)
Alive == {w \in Workers : beat[w]}

ReadRunning(s) == ScanRead(s) /\ UNCHANGED workerVars
CheckWorker(s) == ScanWorker(s, Alive) /\ UNCHANGED workerVars
FailDeadWorkerJob(s) == ScanFail(s) /\ UNCHANGED workerVars
ReleaseDeadLock(s) == ScanRelease(s) /\ UNCHANGED workerVars

ScanStep(s) == ReadRunning(s) \/ CheckWorker(s) \/ FailDeadWorkerJob(s) \/ ReleaseDeadLock(s)

Next ==
    \/ \E w \in Workers : WorkerStep(w)
    \/ \E c \in Calls : HandlerStep(c) \/ LoseCall(c)
    \/ \E s \in Scanners : ScanStep(s) \/ (ScanAbort(s) /\ UNCHANGED workerVars)
    \/ \E u \in Users : CancelStep(u) /\ UNCHANGED workerVars
    \/ \E j \in Jobs : LockExpires(j)

Spec == Init /\ [][Next]_vars

-----------------------------------------------------------------------------
(* Safety *)

(* The effects of a completion (archiving, hand-off, imports) are run at   *)
(* most once per job, only after it succeeded, even when the completion is *)
(* reported by several workers or twice by one.                            *)
EffectsAtMostOnce ==
    \A j \in Jobs : applied[j] <= 1 /\ (applied[j] = 1 => row[j].status = "succeeded")

-----------------------------------------------------------------------------
(* Liveness *)

(* The fairness the deployment gives.  A dead process sends no heartbeat,  *)
(* so its last one ages; the scan is on a timer, and is not aborted every  *)
(* time it reaches a step.                                                 *)
HeartbeatOfDeadAges(w) == worker[w].pc = "down" /\ HeartbeatAges(w)

ScanFairness ==
    /\ \A w \in Workers : WF_vars(HeartbeatOfDeadAges(w))
    /\ \A s \in Scanners : /\ WF_vars(ReadRunning(s))
                           /\ SF_vars(CheckWorker(s))
                           /\ SF_vars(FailDeadWorkerJob(s))
                           /\ WF_vars(ReleaseDeadLock(s))

(* Workers are restarted and poll; the handlers in the API run to their    *)
(* end.                                                                    *)
PollFairness ==
    /\ \A w \in Workers : WF_vars(Restart(w)) /\ SF_vars(FetchPendingJob(w))
    /\ \A c \in Calls : WF_vars(HandlerStep(c))

(* Unrenewed locks expire.  The payload of the job is one its handler      *)
(* accepts, so that polling it leads to a first progress report.  Requests *)
(* are not all lost, and a claim that could succeed is not rolled back     *)
(* every time.                                                             *)
ClaimFairness ==
    /\ \A j \in Jobs : SF_vars(LockExpires(j))
    /\ \A w \in Workers : /\ SF_vars(Send(w, "progress"))
                          /\ SF_vars(worker[w].pc = "failing" /\ Send(w, "fail"))
    /\ \A c \in Calls : /\ SF_vars(ProgressRead(c))
                        /\ SF_vars(ProgressClaim(c) /\ claims' # claims)

(* The work on a claimed job comes to an end (parsers and fetchers have    *)
(* timeouts of their own).                                                 *)
WorkEnds ==
    \A w \in Workers :
        SF_vars(worker[w].claimed /\ \E op \in {"complete", "fail"} : Send(w, op))

ScanSpec == Spec /\ ScanFairness
ClaimSpec == Spec /\ ScanFairness /\ PollFairness /\ ClaimFairness
LiveSpec == ClaimSpec /\ WorkEnds

OwnedBy(j, w) == row[j].status = "running" /\ row[j].locked_by = w

(* scanDeadWorkers: a job whose worker died for good is taken away from it,*)
(* however the scan races with the reports the worker left in flight.      *)
DeadWorkerLosesJob ==
    \A j \in Jobs, w \in Workers \ Restartable :
        OwnedBy(j, w) /\ worker[w].pc = "down" ~> ~OwnedBy(j, w)

(* A pending job does not starve behind an orphaned lock or a lost claim:  *)
(* it is claimed (or finished) as long as it is polled at all.             *)
PendingIsServed ==
    \A j \in Jobs :
        row[j].status = "pending" ~> row[j].status # "pending" \/ claims[j] >= MaxClaims

-----------------------------------------------------------------------------
(* What the documents say and the code does not do *)

(* job-lifecycle/spec.md:65: "The system SHALL run a periodic scanner that *)
(* detects jobs stuck in `running` status beyond their `timeout_seconds`." *)
(* So a job nobody works on any more does not stay running.                *)
AbandonedJobIsReclaimed ==
    \A j \in Jobs, w \in Workers :
        /\ OwnedBy(j, w) /\ worker[w].job # j
        /\ \A c \in Calls : calls[c] # NoCall => calls[c].j # j
        ~> ~OwnedBy(j, w)
=============================================================================
