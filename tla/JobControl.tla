----------------------------- MODULE JobControl -----------------------------
(***************************************************************************)
(* What the API does to any job, whoever runs it: the dead-worker scan of  *)
(* InternalJobsService (every 30 s) and the cancellation of JobsService.   *)
(* Both act on a row they read some steps earlier.  An action here says    *)
(* nothing of the variables of the module that runs the jobs.              *)
(***************************************************************************)
EXTENDS JobCore

CONSTANTS
    NoJob,
    Scanners,           \* scans that may overlap: API replicas, and @Interval ticks of one replica
    Users,              \* cancellation requests
    MaxCancelRetries    \* MAX_CANCELLATION_RETRIES

ASSUME NoJobAssumption == NoJob \notin Jobs
ASSUME MaxCancelRetriesAssumption == MaxCancelRetries \in Nat

VARIABLES
    row,       \* jobs table
    lock,      \* Redis job:lock:<id>
    scan,      \* dead-worker scans in flight
    cancel     \* cancellation requests

controlVars == <<row, lock, scan, cancel>>

(* A row of the scan's SELECT: the job, its locked_by and attempt_count. *)
Snapshot == [j : Jobs, w : Workers, n : Nat]

ScanState == [todo : SUBSET Snapshot, dead : SUBSET Snapshot, release : SUBSET Snapshot]
IdleScan == [todo |-> {}, dead |-> {}, release |-> {}]

Answers == {"none", "cancelled", "requested", "terminal", "changed"}
CancelState == [pc : {"read", "tx", "resolve", "done"}, job : Jobs \cup {NoJob},
                seen : {"pending", "running"}, tries : Nat, answer : Answers]
NewCancel == [pc |-> "read", job |-> NoJob, seen |-> "pending", tries |-> 0, answer |-> "none"]

ControlTypeOK ==
    /\ row \in [Jobs -> Row]
    /\ lock \in [Jobs -> Owners]
    /\ scan \in [Scanners -> ScanState]
    /\ cancel \in [Users -> CancelState]

ControlInit ==
    /\ row = [j \in Jobs |-> NewRow]
    /\ lock = [j \in Jobs |-> NoWorker]
    /\ scan = [s \in Scanners |-> IdleScan]
    /\ cancel = [u \in Users |-> NewCancel]

-----------------------------------------------------------------------------
(* scanDeadWorkers and failDeadWorkerJob *)

(* SELECT ... WHERE status = running AND locked_by IS NOT NULL. *)
ScanRead(s) ==
    /\ scan[s] = IdleScan
    /\ LET owned == {j \in Jobs : row[j].status = "running" /\ row[j].locked_by # NoWorker}
       IN  /\ owned # {}
           /\ scan' = [scan EXCEPT ![s].todo =
                 {[j |-> j, w |-> row[j].locked_by, n |-> row[j].attempt_count] : j \in owned}]
    /\ UNCHANGED <<row, lock, cancel>>

(* getWorkerHeartbeat and isDeadWorker for the next owner of the snapshot; *)
(* alive is the set of owners isDeadWorker does not find dead.             *)
ScanWorker(s, alive) ==
    /\ scan[s].dead = {} /\ scan[s].release = {}
    /\ \E e \in scan[s].todo :
          LET its == {f \in scan[s].todo : f.w = e.w}
          IN  scan' = [scan EXCEPT ![s].todo = @ \ its,
                                   ![s].dead = IF e.w \in alive THEN {} ELSE its]
    /\ UNCHANGED <<row, lock, cancel>>

(* failDeadWorkerJob's transaction, on the row of the snapshot. *)
ScanFail(s) ==
    /\ scan[s].release = {}
    /\ \E e \in scan[s].dead :
          LET won == CanTransition(row[e.j], "running", "failed")
          IN  /\ row' = IF won THEN [row EXCEPT ![e.j] = FailedAttempt(@, e.n, TRUE)] ELSE row
              /\ scan' = [scan EXCEPT ![s].dead = @ \ {e},
                                      ![s].release = IF won THEN {e} ELSE {}]
    /\ UNCHANGED <<lock, cancel>>

(* ... followed by releaseJobLock for the worker of the snapshot. *)
ScanRelease(s) ==
    /\ \E e \in scan[s].release : lock' = Released(lock, e.j, e.w)
    /\ scan' = [scan EXCEPT ![s].release = {}]
    /\ UNCHANGED <<row, cancel>>

(* A database or Redis error ends the scan (it is logged), and so does the *)
(* death of the replica.                                                   *)
ScanAbort(s) ==
    /\ scan[s] # IdleScan
    /\ scan' = [scan EXCEPT ![s] = IdleScan]
    /\ UNCHANGED <<row, lock, cancel>>

-----------------------------------------------------------------------------
(* JobsService.cancelJob *)

Answered(u, a) == cancel' = [cancel EXCEPT ![u].pc = "done", ![u].answer = a]

(* The answer a row read leads to before anything is written. *)
SettledAnswer(r) ==
    IF r.status = "cancelled" THEN "cancelled"
    ELSE IF r.status \in {"succeeded", "failed"} THEN "terminal"
    ELSE IF r.status = "running" /\ r.cancel_requested THEN "requested"
    ELSE "none"

(* cancelJobInternal reads the row (again, on a retry). *)
CancelRead(u, j) ==
    /\ cancel[u].pc = "read"
    /\ cancel[u].job \in {j, NoJob}
    /\ cancel' = [cancel EXCEPT ![u].job = j,
                                ![u].answer = SettledAnswer(row[j]),
                                ![u].pc = IF SettledAnswer(row[j]) = "none" THEN "tx" ELSE "done",
                                ![u].seen = IF SettledAnswer(row[j]) = "none" THEN row[j].status ELSE @]
    /\ UNCHANGED <<row, lock, scan>>

(* The transaction: a job seen pending is cancelled, one seen running gets *)
(* its cancel_requested_at; both only if the row still qualifies.          *)
CancelTx(u) ==
    /\ cancel[u].pc = "tx"
    /\ LET j == cancel[u].job IN
       \/ /\ cancel[u].seen = "pending" /\ CanTransition(row[j], "pending", "cancelled")
          /\ row' = [row EXCEPT ![j] = Cancelled(@)]
          /\ Answered(u, "cancelled")
       \/ /\ cancel[u].seen = "running" /\ row[j].status = "running" /\ ~row[j].cancel_requested
          /\ row' = [row EXCEPT ![j] = CancelRequested(@)]
          /\ Answered(u, "requested")
       \/ /\ ~(cancel[u].seen = "pending" /\ CanTransition(row[j], "pending", "cancelled"))
          /\ ~(cancel[u].seen = "running" /\ row[j].status = "running" /\ ~row[j].cancel_requested)
          /\ cancel' = [cancel EXCEPT ![u].pc = "resolve"]
          /\ UNCHANGED row
    /\ UNCHANGED <<lock, scan>>

(* resolveCancellationConflict. *)
CancelResolve(u) ==
    /\ cancel[u].pc = "resolve"
    /\ LET a == SettledAnswer(row[cancel[u].job]) IN
       \/ a # "none" /\ Answered(u, a)
       \/ /\ a = "none" /\ cancel[u].tries < MaxCancelRetries
          /\ cancel' = [cancel EXCEPT ![u].pc = "read", ![u].tries = @ + 1]
       \/ a = "none" /\ cancel[u].tries >= MaxCancelRetries /\ Answered(u, "changed")
    /\ UNCHANGED <<row, lock, scan>>

CancelStep(u) == (\E j \in Jobs : CancelRead(u, j)) \/ CancelTx(u) \/ CancelResolve(u)

-----------------------------------------------------------------------------
(* Safety *)

Terminal == {"succeeded", "failed", "cancelled"}

(* The Redis lock and the jobs table agree on who runs a job: the lock of  *)
(* a running job is held by the worker in locked_by or by nobody (it       *)
(* expired, or its releaser was late), whatever order claims, expiries,    *)
(* scans and late releases come in.                                        *)
LockMatchesOwner ==
    \A j \in Jobs : row[j].status = "running" =>
        row[j].locked_by # NoWorker /\ lock[j] \in {row[j].locked_by, NoWorker}

(* The attempt budget, although attempt_count is written from a row read   *)
(* earlier: it never exceeds max_attempts, and a job that is pending or    *)
(* running still has an attempt left.                                      *)
AttemptBudget ==
    \A j \in Jobs : /\ row[j].attempt_count <= MaxAttempts
                    /\ row[j].status \in {"pending", "running"} =>
                          row[j].attempt_count < MaxAttempts

(* A finished job stays as it is: late reports, scans and cancellations    *)
(* that were in flight when it finished all conflict.  In particular       *)
(* failed is final, because a retry leaves it within one transaction.      *)
TerminalIsFinal ==
    [][\A j \in Jobs : row[j].status \in Terminal =>
            row'[j].status = row[j].status /\ row'[j].attempt_count = row[j].attempt_count]_controlVars

(* The rows of the jobs table behave as JobLifecycle says, whatever the    *)
(* handlers, scans and cancellations in flight do to one another.          *)
Lifecycle == INSTANCE JobLifecycle WITH row <- row
ImplementsLifecycle == Lifecycle!Spec

(* What a user was told about a cancellation stays true: a job reported    *)
(* cancelled is cancelled, one reported terminal is terminal, and a        *)
(* recorded request is never forgotten, not even by a retry of the job.    *)
CancelAnswerHolds ==
    \A u \in Users :
        LET r == row[cancel[u].job] IN
        /\ cancel[u].answer = "cancelled" => r.status = "cancelled"
        /\ cancel[u].answer = "terminal" => r.status \in {"succeeded", "failed"}
        /\ cancel[u].answer = "requested" => r.cancel_requested
=============================================================================
