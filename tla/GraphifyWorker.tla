--------------------------- MODULE GraphifyWorker ---------------------------
(***************************************************************************)
(* The graphify workers (apps/graphify-worker): each polls for a job,      *)
(* takes the job's Redis lease, claims the job from the API, runs the      *)
(* graphify agent as a child process in a session directory of its disk,   *)
(* checks what the agent wrote, uploads it to the object store under a     *)
(* prefix named for the run, and reports.  The API's side is reduced to    *)
(* the row of the job (WorkerProtocol models it in full).                  *)
(***************************************************************************)
EXTENDS Naturals, FiniteSets

CONSTANTS
    GraphifyWorkers,
    RunJobs,            \* graphify jobs; all are of one space
    RetryBudget,        \* max_attempts of a job
    MaxStarts,          \* bound: claims, over all jobs
    MaxMishaps          \* bound: crashes, stops, lost answers, expiries, starved heartbeats

VARIABLES
    jobRow,     \* jobs: status, locked_by, attempt_count
    lease,      \* lock:job:<id>
    worker,     \* the poll loop of each worker
    agent,      \* its child process
    disk,       \* the session directory of each run on its disk
    bucket,     \* the objects under the prefix of each run
    starts,     \* claims so far; the number of a claim names the attempt
    mishaps

graphifyVars == <<jobRow, lease, worker, agent, disk, bucket, starts, mishaps>>

Nobody == "nobody"
Gone   == "gone"        \* the id of a worker that has restarted since
Files  == {"graph", "wiki"}
NoDir  == [made |-> FALSE, graph |-> 0, wiki |-> 0]    \* 0: no such file
EmptyDir == [NoDir EXCEPT !.made = TRUE]
IdleWorker == [pc |-> "idle", todo |-> {}, job |-> "none", try |-> 0, verdict |-> "none",
               crashed |-> FALSE]

GraphifyInit ==
    /\ jobRow = [j \in RunJobs |-> [status |-> "pending", owner |-> Nobody, tries |-> 0]]
    /\ lease = [j \in RunJobs |-> Nobody]
    /\ worker = [w \in GraphifyWorkers |-> IdleWorker]
    /\ agent = [w \in GraphifyWorkers |-> "none"]
    /\ disk = [w \in GraphifyWorkers |-> [j \in RunJobs |-> NoDir]]
    /\ bucket = [j \in RunJobs |-> NoDir]
    /\ starts = 0
    /\ mishaps = 0

At(w, pc)  == worker[w].pc = pc
To(w, pc)  == worker' = [worker EXCEPT ![w].pc = pc]
Ends(w, pc, verdict) == worker' = [worker EXCEPT ![w].pc = pc, ![w].verdict = verdict]
Mine(w)    == worker[w].job
Session(w) == disk[w][Mine(w)]
Mishap     == mishaps < MaxMishaps /\ mishaps' = mishaps + 1

-----------------------------------------------------------------------------
(* The poll loop.                                                          *)

FetchPendingJobs(w) ==
    LET pending == {j \in RunJobs : jobRow[j].status = "pending"} IN
    /\ At(w, "idle") /\ pending # {}
    /\ worker' = [worker EXCEPT ![w].pc = "lock", ![w].todo = pending]
    /\ UNCHANGED <<jobRow, lease, agent, disk, bucket, starts, mishaps>>

AcquireLock(w) ==
    /\ At(w, "lock")
    /\ \/ \E j \in worker[w].todo :
             /\ lease[j] = Nobody
             /\ lease' = [lease EXCEPT ![j] = w]
             /\ worker' = [worker EXCEPT ![w].pc = "claim", ![w].todo = {}, ![w].job = j]
       \/ /\ \A j \in worker[w].todo : lease[j] # Nobody
          /\ worker' = [worker EXCEPT ![w].pc = "idle", ![w].todo = {}]
          /\ UNCHANGED lease
    /\ UNCHANGED <<jobRow, agent, disk, bucket, starts, mishaps>>

\* The first progress report moves the job from pending to running; when
\* its answer is lost the worker gives a job up that the API counts as its.
ClaimJob(w) ==
    LET j == Mine(w) IN
    /\ At(w, "claim")
    /\ IF jobRow[j].status = "pending" /\ starts < MaxStarts
       THEN /\ jobRow' = [jobRow EXCEPT ![j].status = "running", ![j].owner = w]
            /\ starts' = starts + 1
            /\ \/ /\ worker' = [worker EXCEPT ![w].pc = "download", ![w].try = starts + 1]
                  /\ UNCHANGED mishaps
               \/ To(w, "release") /\ Mishap
       ELSE To(w, "release") /\ UNCHANGED <<jobRow, starts, mishaps>>
    /\ UNCHANGED <<lease, agent, disk, bucket>>

Reports(w, j) == jobRow[j].status = "running" /\ jobRow[j].owner = w

AfterFailure(row, retryable) ==
    [row EXCEPT !.owner = Nobody, !.tries = @ + 1,
                !.status = IF retryable /\ row.tries + 1 < RetryBudget
                           THEN "pending" ELSE "failed"]

CompleteJob(w) ==
    LET j == Mine(w) IN
    /\ At(w, "report") /\ worker[w].verdict = "success"
    /\ jobRow' = IF Reports(w, j)
                 THEN [jobRow EXCEPT ![j].status = "succeeded", ![j].owner = Nobody]
                 ELSE jobRow
    /\ To(w, "release")
    /\ UNCHANGED <<lease, agent, disk, bucket, starts, mishaps>>

\* Only a RuntimeError that carries retryable = true in its JSON is retried.
FailJob(w) ==
    LET j == Mine(w) IN
    /\ At(w, "report") /\ worker[w].verdict \in {"retryable", "final"}
    /\ jobRow' = IF Reports(w, j)
                 THEN [jobRow EXCEPT ![j] = AfterFailure(@, worker[w].verdict = "retryable")]
                 ELSE jobRow
    /\ To(w, "release")
    /\ UNCHANGED <<lease, agent, disk, bucket, starts, mishaps>>

ReleaseLock(w, j) == IF lease[j] = w THEN [lease EXCEPT ![j] = Nobody] ELSE lease

EndOfJob(w) ==
    /\ At(w, "release")
    /\ lease' = ReleaseLock(w, Mine(w))
    /\ worker' = [worker EXCEPT ![w] = [IdleWorker EXCEPT !.crashed = worker[w].crashed]]
    /\ UNCHANGED <<jobRow, agent, disk, bucket, starts, mishaps>>

-----------------------------------------------------------------------------
(* One run: inputs, session directory, agent, stream, cleanup.             *)

DownloadInputs(w) ==
    /\ At(w, "download")
    /\ To(w, "preflight") \/ Ends(w, "sweep", "final")
    /\ UNCHANGED <<jobRow, lease, agent, disk, bucket, starts, mishaps>>

\* A disabled runner is retried; input that is missing, too large or holds
\* a link, a missing key and a skill that cannot be installed are not.
Preflight(w) ==
    /\ At(w, "preflight")
    /\ \/ To(w, "prepare")
       \/ Ends(w, "sweep", "final")
       \/ Ends(w, "sweep", "retryable")
    /\ UNCHANGED <<jobRow, lease, agent, disk, bucket, starts, mishaps>>

\* mutant: an existing session directory is used as it is
KeepsSession(dir) == IF dir = NoDir THEN EmptyDir ELSE dir

PreparedDir(dir) == EmptyDir

PrepareRunDirs(w) ==
    /\ At(w, "prepare")
    /\ disk' = [disk EXCEPT ![w][Mine(w)] = PreparedDir(@)]
    /\ To(w, "spawn")
    /\ UNCHANGED <<jobRow, lease, agent, bucket, starts, mishaps>>

SpawnClaude(w) ==
    /\ At(w, "spawn")
    /\ \/ agent' = [agent EXCEPT ![w] = "running"] /\ To(w, "stream")
       \/ UNCHANGED agent /\ Ends(w, "sweep", "final")
    /\ UNCHANGED <<jobRow, lease, disk, bucket, starts, mishaps>>

\* The agent writes while it runs, and after a SIGTERM until it exits.
AgentWrites(w) ==
    /\ agent[w] \in {"running", "terminating"} /\ Mine(w) # "none"
    /\ \E f \in Files :
          /\ Session(w)[f] # worker[w].try /\ Session(w).made
          /\ disk' = [disk EXCEPT ![w][Mine(w)][f] = worker[w].try]
    /\ UNCHANGED <<jobRow, lease, worker, agent, bucket, starts, mishaps>>

AgentExits(w) ==
    /\ agent[w] \in {"running", "terminating"}
    /\ agent' = [agent EXCEPT ![w] = "exited"]
    /\ UNCHANGED <<jobRow, lease, worker, disk, bucket, starts, mishaps>>

RequestTerminate(w) ==
    IF agent[w] = "running" THEN [agent EXCEPT ![w] = "terminating"] ELSE agent

OutputComplete(dir) == \A f \in Files : dir[f] # 0

\* A result without error: the run is judged by what is in the directory.
StreamResult(w) ==
    /\ At(w, "stream") /\ agent[w] \in {"running", "exited"}
    /\ agent' = RequestTerminate(w)
    /\ Ends(w, "wait", IF OutputComplete(Session(w)) THEN "success" ELSE "final")
    /\ UNCHANGED <<jobRow, lease, disk, bucket, starts, mishaps>>

StreamError(w) ==
    /\ At(w, "stream") /\ agent[w] \in {"running", "exited"}
    /\ agent' = RequestTerminate(w)
    /\ Ends(w, "wait", "retryable")
    /\ UNCHANGED <<jobRow, lease, disk, bucket, starts, mishaps>>

StreamEof(w) ==
    /\ At(w, "stream") /\ agent[w] = "exited"
    /\ Ends(w, "cleanup", IF OutputComplete(Session(w)) THEN "success" ELSE "retryable")
    /\ UNCHANGED <<jobRow, lease, agent, disk, bucket, starts, mishaps>>

\* wait_for(..., 10): an agent that does not exit in time raises
\* TimeoutError, which no handler turns into a verdict of its own.
WaitForProcessExit(w) ==
    /\ At(w, "wait")
    /\ IF agent[w] = "exited" THEN To(w, "cleanup") ELSE Ends(w, "cleanup", "final")
    /\ UNCHANGED <<jobRow, lease, agent, disk, bucket, starts, mishaps>>

TerminateForTimeout(w) ==
    /\ At(w, "stream") /\ agent[w] = "running"
    /\ agent' = [agent EXCEPT ![w] = "exited"]
    /\ Ends(w, "cleanup", "retryable")
    /\ UNCHANGED <<jobRow, lease, disk, bucket, starts, mishaps>>

\* mutant: SIGTERM is enough
TermOnly(w) == RequestTerminate(w)

\* SIGTERM, five seconds, SIGKILL: a killed process is gone.
StopsProcess(w) == [agent EXCEPT ![w] = "none"]

CleanupProcess(w) ==
    /\ At(w, "cleanup")
    /\ agent' = StopsProcess(w)
    /\ To(w, IF worker[w].verdict = "success" THEN "validate" ELSE "sweep")
    /\ UNCHANGED <<jobRow, lease, disk, bucket, starts, mishaps>>

\* The checks of the files present; the other checks (links, sizes, JSON)
\* may refuse any directory.
ValidateOutput(w) ==
    /\ At(w, "validate")
    /\ \/ OutputComplete(Session(w)) /\ To(w, "upload")
       \/ Ends(w, "sweep", "final")
    /\ UNCHANGED <<jobRow, lease, agent, disk, bucket, starts, mishaps>>

Unsent(w) == {f \in Files : bucket[Mine(w)][f] # worker[w].try}

UploadFails(w) == Ends(w, "sweep", "final")

UploadDirectory(w) ==
    /\ At(w, "upload")
    /\ \/ /\ \E f \in Unsent(w) : bucket' = [bucket EXCEPT ![Mine(w)][f] = worker[w].try]
          /\ UNCHANGED worker
       \/ Unsent(w) = {} /\ To(w, "sweep") /\ UNCHANGED bucket
       \/ Unsent(w) # {} /\ UploadFails(w) /\ UNCHANGED bucket
    /\ UNCHANGED <<jobRow, lease, agent, disk, starts, mishaps>>

SweptDir(w) == NoDir

\* finally: both work directories are removed, then the verdict goes out.
SweepDirs(w) ==
    /\ At(w, "sweep")
    /\ disk' = [disk EXCEPT ![w][Mine(w)] = SweptDir(w)]
    /\ To(w, IF worker[w].verdict = "stopped" THEN "release" ELSE "report")
    /\ UNCHANGED <<jobRow, lease, agent, bucket, starts, mishaps>>

-----------------------------------------------------------------------------
(* Mishaps.                                                                *)

Forget(w) == [j \in RunJobs |->
                IF jobRow[j].owner = w THEN [jobRow[j] EXCEPT !.owner = Gone] ELSE jobRow[j]]

\* The container dies: child and poll loop are gone, the disk stays, and
\* the worker that restarts has another id.
WorkerCrashes(w) ==
    /\ ~At(w, "idle") /\ Mishap
    /\ worker' = [worker EXCEPT ![w] = [IdleWorker EXCEPT !.crashed = TRUE]]
    /\ agent' = [agent EXCEPT ![w] = "none"]
    /\ jobRow' = Forget(w)
    /\ lease' = [j \in RunJobs |-> IF lease[j] = w THEN Gone ELSE lease[j]]
    /\ UNCHANGED <<disk, bucket, starts>>

\* SIGTERM while the stream is read: the poll task is cancelled, its finally
\* clauses run, nothing is reported.
ShutdownWorker(w) ==
    /\ At(w, "stream") /\ Mishap
    /\ agent' = [agent EXCEPT ![w] = "none"]
    /\ Ends(w, "sweep", "stopped")
    /\ UNCHANGED <<jobRow, lease, disk, bucket, starts>>

\* The lease is set once, for 600 s, and never renewed.
LeaseExpires(j) ==
    /\ lease[j] # Nobody /\ Mishap
    /\ lease' = [lease EXCEPT ![j] = Nobody]
    /\ UNCHANGED <<jobRow, worker, agent, disk, bucket, starts>>

\* No heartbeat for 90 s: the worker is gone, or its heartbeat task is
\* starved by a download or an upload, which block the event loop.
HeartbeatMissed(j) ==
    /\ jobRow[j].status = "running" /\ Mishap
    /\ jobRow' = [jobRow EXCEPT ![j] = AfterFailure(@, TRUE)]
    /\ UNCHANGED <<lease, worker, agent, disk, bucket, starts>>

-----------------------------------------------------------------------------
PollStep(w) == FetchPendingJobs(w) \/ AcquireLock(w) \/ ClaimJob(w) \/ CompleteJob(w)
    \/ FailJob(w) \/ EndOfJob(w)
RunStep(w) == DownloadInputs(w) \/ Preflight(w) \/ PrepareRunDirs(w) \/ SpawnClaude(w)
    \/ StreamResult(w) \/ StreamError(w) \/ StreamEof(w) \/ WaitForProcessExit(w)
    \/ TerminateForTimeout(w) \/ CleanupProcess(w) \/ ValidateOutput(w) \/ UploadDirectory(w)
    \/ SweepDirs(w)
AgentStep(w) == AgentWrites(w) \/ AgentExits(w)

GraphifyNext ==
    \/ \E w \in GraphifyWorkers :
          PollStep(w) \/ RunStep(w) \/ AgentStep(w) \/ WorkerCrashes(w) \/ ShutdownWorker(w)
    \/ \E j \in RunJobs : LeaseExpires(j) \/ HeartbeatMissed(j)

GraphifySpec == GraphifyInit /\ [][GraphifyNext]_graphifyVars

-----------------------------------------------------------------------------
(* Properties                                                              *)

\* What is validated and uploaded was written by this attempt's agent, not
\* left by an attempt that crashed on the same disk.
OutputIsFresh ==
    \A w \in GraphifyWorkers : worker[w].pc \in {"validate", "upload"} =>
        \A f \in Files : Session(w)[f] = worker[w].try

\* Nothing writes the directory while it is validated and uploaded, and no
\* agent outlives its run.
NoAgentOutlivesItsRun ==
    \A w \in GraphifyWorkers :
        worker[w].pc \notin {"stream", "wait", "cleanup"} => agent[w] = "none"

\* A job that succeeded has its whole output in the object store, whatever
\* attempts failed half-way or were given up before.
SucceededIsWhole ==
    \A j \in RunJobs : jobRow[j].status = "succeeded" => OutputComplete(bucket[j])

\* A worker between two jobs that has not crashed leaves no directory and no
\* lease behind.
IdleLeavesNothing ==
    \A w \in GraphifyWorkers : worker[w].pc = "idle" /\ ~worker[w].crashed =>
        \A j \in RunJobs : disk[w][j] = NoDir /\ lease[j] # w

=============================================================================
