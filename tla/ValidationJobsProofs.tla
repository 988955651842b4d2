------------------------ MODULE ValidationJobsProofs ------------------------
(***************************************************************************)
(* Theorems about ValidationJobs, for any number of jobs, replicas, scans, *)
(* cancellations and faults.                                               *)
(***************************************************************************)
EXTENDS ValidationJobs, JobControlProofs

USE CleanAssumption, MaxFaultsAssumption

TaskTypeOK ==
    /\ task \in [Workers -> [Jobs -> Task]]
    /\ up \in SUBSET Workers
    /\ aged \in [Jobs -> BOOLEAN]
    /\ doc \in [Jobs -> DocStatus]
    /\ stored \in [Jobs -> SUBSET {"quarantine", "archives"}]
    /\ ingest \in SUBSET Jobs
    /\ faults \in Nat

(* What a task knows: the attempt number it will write was within the      *)
(* budget, and each stage of the work finds what the stages before it did, *)
(* whatever other tasks of the job do meanwhile.                           *)
TaskFacts(w, j) ==
    LET pc == task[w][j].pc IN
    /\ pc \in Work \cup {"fail"} => task[w][j].n < MaxAttempts
    /\ pc \in {"copy", "delete", "ingest"} => j \in Clean
    /\ pc = "delete" => "archives" \in stored[j]
    /\ pc \in {"status", "write"} /\ j \in Clean => "archives" \in stored[j]
    /\ pc = "write" => task[w][j].seen \in {"validating", Verdict(j)}
    /\ pc = "ingest" => Archived(j)
    /\ pc = "commit" => Decided(j)

(* A decided document was decided as its file deserves. *)
DocFitsFile ==
    \A j \in Jobs : /\ Archived(j) => j \in Clean
                    /\ doc[j] = "security_rejected" => j \notin Clean

Inv ==
    /\ ControlInv
    /\ TaskTypeOK
    /\ \A w \in Workers, j \in Jobs : TaskFacts(w, j)
    /\ DocFitsFile
    /\ ContentKept
    /\ SucceededMeansDecided

-----------------------------------------------------------------------------
(* Tasks *)

(* A task that goes on keeps its attempt number; one that ends is cleared. *)
LEMMA GotoTask ==
    ASSUME TaskTypeOK, NEW w \in Workers, NEW j \in Jobs,
           NEW pc \in {"lock", "claim", "commit", "fail", "unlock", "release"} \cup Work, Goto(w, j, pc)
    PROVE  /\ task' \in [Workers -> [Jobs -> Task]]
           /\ task'[w][j].pc = pc /\ task'[w][j].n = task[w][j].n
           /\ \A v \in Workers, i \in Jobs : v # w \/ i # j => task'[v][i] = task[v][i]
<1> DEFINE q == [task[w][j] EXCEPT !.pc = pc]
<1>0. task[w][j] \in Task  BY DEF TaskTypeOK
<1>1. q \in Task /\ q.pc = pc /\ q.n = task[w][j].n  BY <1>0 DEF Task
<1>2. task' = [task EXCEPT ![w] = [task[w] EXCEPT ![j] = q]]  BY DEF Goto
<1> HIDE DEF q
<1> QED  BY <1>1, <1>2 DEF TaskTypeOK

LEMMA SetTask ==
    ASSUME TaskTypeOK, NEW w \in Workers, NEW j \in Jobs, NEW q \in Task,
           task' = [task EXCEPT ![w][j] = q]
    PROVE  /\ task' \in [Workers -> [Jobs -> Task]]
           /\ task'[w][j] = q
           /\ \A v \in Workers, i \in Jobs : v # w \/ i # j => task'[v][i] = task[v][i]
BY DEF TaskTypeOK

ReadTask == [NoTask EXCEPT !.pc = "read"]

LEMMA NoTaskType == NoTask \in Task /\ NoTask.pc = "none"
BY DEF NoTask, Task, DocStatus

LEMMA ReadTaskType == ReadTask \in Task /\ ReadTask.pc = "read"
BY NoTaskType DEF ReadTask, Task

-----------------------------------------------------------------------------
(* Steps *)

(* Nothing undoes the work: a file in the archive stays there, a decided   *)
(* document stays decided, an ingestion job stays.                         *)
WorkStays ==
    /\ \A j \in Jobs : "archives" \in stored[j] => "archives" \in stored'[j]
    /\ \A j \in Jobs : Archived(j) => Archived(j)'
    /\ \A j \in Jobs : doc[j] = "security_rejected" => doc'[j] = "security_rejected"
    /\ ingest \subseteq ingest'

(* What is left to show for a step: that the tasks it moves have the facts *)
(* of their new place, and that a job it makes succeed is decided.         *)
LEMMA StepInv ==
    ASSUME Inv, ControlInv', TaskTypeOK', DocFitsFile', ContentKept', WorkStays,
           \A w \in Workers, j \in Jobs : task'[w][j] = task[w][j] \/ TaskFacts(w, j)',
           \A j \in Jobs : row'[j].status = "succeeded" => row[j].status = "succeeded" \/ Decided(j)'
    PROVE  Inv'
<1>1. \A j \in Jobs : Decided(j) => Decided(j)'  BY DEF WorkStays, Decided, Inv, TaskTypeOK
<1>2. ASSUME NEW w \in Workers, NEW j \in Jobs PROVE TaskFacts(w, j)'
  <2>1. CASE task'[w][j] = task[w][j]
    BY <1>1, <2>1 DEF Inv, TaskFacts, WorkStays, Verdict
  <2> QED  BY <2>1
<1>3. SucceededMeansDecided'  BY <1>1 DEF Inv, SucceededMeansDecided
<1> QED  BY <1>2, <1>3 DEF Inv

(* A step that changes no document, file or ingestion job and makes no job *)
(* succeed.                                                                *)
LEMMA PlainStepInv ==
    ASSUME Inv, ControlInv', UNCHANGED <<doc, stored, ingest>>,
           task' \in [Workers -> [Jobs -> Task]], up' \in SUBSET Workers,
           aged' \in [Jobs -> BOOLEAN], faults' \in Nat,
           \A w \in Workers, j \in Jobs : task'[w][j] = task[w][j] \/ TaskFacts(w, j)',
           \A j \in Jobs : row'[j].status = "succeeded" => row[j].status = "succeeded" \/ Decided(j)'
    PROVE  Inv'
<1>1. TaskTypeOK' /\ DocFitsFile' /\ ContentKept' /\ WorkStays
  BY DEF Inv, TaskTypeOK, DocFitsFile, ContentKept, WorkStays, Archived
<1> QED  BY <1>1, StepInv

(* The steps of a task. *)
LEMMA TaskStepInv ==
    ASSUME Inv, NEW w \in Workers, NEW j \in Jobs, TaskStep(w, j)
    PROVE  Inv' /\ [Lifecycle!Next]_row
<1>t. TaskTypeOK /\ task[w][j] \in Task /\ TaskFacts(w, j) /\ row[j] \in Row /\ DocFitsFile
      /\ ContentKept /\ row[j].attempt_count \in Nat /\ task[w][j].n \in Nat
  BY DEF Inv, TaskTypeOK, ControlInv, ControlTypeOK, Row, Task
<1>1. CASE ReadJob(w, j) \/ ReleaseLock(w, j) \/ AcquireLock(w, j)
  <2>0. UNCHANGED <<row, scan, cancel, up, aged, doc, stored, ingest, faults>>
    BY <1>1 DEF ReadJob, ReleaseLock, AcquireLock
  <2>1. lock' \in [Jobs -> Owners]
    BY <1>1, LockWrites DEF ReadJob, ReleaseLock, AcquireLock, Inv, ControlInv, ControlTypeOK
  <2>2. ControlInv' /\ [Lifecycle!Next]_row  BY <2>0, <2>1, RunnerStepControlInv DEF Inv
  <2>3. (\E pc \in {"lock", "claim"} : Goto(w, j, pc)) \/ task' = [task EXCEPT ![w][j] = NoTask]
    BY <1>1 DEF ReadJob, ReleaseLock, AcquireLock, Done
  <2>4. /\ task' \in [Workers -> [Jobs -> Task]]
        /\ task'[w][j].pc \in {"none", "lock", "claim"}
        /\ \A v \in Workers, i \in Jobs : v # w \/ i # j => task'[v][i] = task[v][i]
    BY <1>t, <2>3, GotoTask, SetTask, NoTaskType
  <2>5. TaskFacts(w, j)'  BY <2>4 DEF TaskFacts, Work
  <2> QED  BY <1>t, <2>0, <2>2, <2>4, <2>5, PlainStepInv DEF TaskTypeOK
<1>2. CASE Claim(w, j)
  <2>0. UNCHANGED <<lock, scan, cancel, up, doc, stored, ingest, faults>>  BY <1>2 DEF Claim
  <2>1. CASE row[j].status = "pending"
    <3> DEFINE q == [pc |-> "validate", n |-> row[j].attempt_count, seen |-> "validating"]
    <3>1. /\ row' = [row EXCEPT ![j] = ClaimedBy(row[j], w)]
          /\ aged' = [aged EXCEPT ![j] = FALSE]
          /\ task' = [task EXCEPT ![w][j] = q]
      BY <1>2, <2>1 DEF Claim, CanTransition, TRANSITIONS
    <3>2. Lifecycle!Claim(j, w)
      BY <2>1, <3>1, LifecycleWrites DEF Lifecycle!Claim, Lifecycle!Pending
    <3>3. [Lifecycle!Next]_row  BY <3>2 DEF Lifecycle!Next
    <3>4. ControlInv'  BY <2>0, <3>3, RunnerStepControlInv DEF Inv, ControlInv, ControlTypeOK
    <3>5. q \in Task /\ q.pc = "validate" /\ q.n < MaxAttempts
      BY <1>t, <2>1 DEF Task, Work, DocStatus, Inv, ControlInv, AttemptBudget
    <3> HIDE DEF q
    <3>6. /\ task' \in [Workers -> [Jobs -> Task]]
          /\ task'[w][j] = q
          /\ \A v \in Workers, i \in Jobs : v # w \/ i # j => task'[v][i] = task[v][i]
      <4>1. TaskTypeOK /\ q \in Task /\ task' = [task EXCEPT ![w][j] = q]  BY <1>t, <3>1, <3>5
      <4> QED  BY <4>1 DEF TaskTypeOK
    <3>7. TaskFacts(w, j)'  BY <3>5, <3>6 DEF TaskFacts
    <3>8. \A i \in Jobs : row'[i].status = "succeeded" => row[i].status = "succeeded"
      BY <1>t, <3>1, ClaimWrite DEF Inv, ControlInv, ControlTypeOK
    <3>9. aged' \in [Jobs -> BOOLEAN]  BY <1>t, <3>1 DEF TaskTypeOK
    <3> QED  BY <1>t, <2>0, <3>3, <3>4, <3>6, <3>7, <3>8, <3>9, PlainStepInv DEF TaskTypeOK
  <2>2. CASE row[j].status # "pending"
    <3>1. UNCHANGED <<row, aged>> /\ task' = [task EXCEPT ![w][j] = NoTask]
      BY <1>2, <2>2 DEF Claim, CanTransition, Done
    <3>2. ControlInv' /\ [Lifecycle!Next]_row  BY <2>0, <3>1, IdleStepControlInv DEF Inv
    <3>3. /\ task' \in [Workers -> [Jobs -> Task]]
          /\ task'[w][j].pc = "none"
          /\ \A v \in Workers, i \in Jobs : v # w \/ i # j => task'[v][i] = task[v][i]
      <4>1. TaskTypeOK /\ NoTask \in Task /\ NoTask.pc = "none"  BY <1>t, NoTaskType
      <4>2. task' = [task EXCEPT ![w][j] = NoTask]  BY <3>1
      <4> QED  BY <4>1, <4>2 DEF TaskTypeOK
    <3>4. TaskFacts(w, j)'  BY <3>3 DEF TaskFacts, Work
    <3> QED  BY <1>t, <2>0, <3>1, <3>2, <3>3, <3>4, PlainStepInv DEF TaskTypeOK
  <2> QED  BY <2>1, <2>2
<1>3. CASE Commit(w, j) \/ FailJob(w, j)
  <2>0. UNCHANGED <<lock, scan, cancel, up, aged, doc, stored, ingest, faults>>
        /\ (Goto(w, j, "release") \/ Goto(w, j, "unlock"))
    BY <1>3 DEF Commit, FailJob
  <2>1. /\ task' \in [Workers -> [Jobs -> Task]]
        /\ task'[w][j].pc \in {"unlock", "release"}
        /\ \A v \in Workers, i \in Jobs : v # w \/ i # j => task'[v][i] = task[v][i]
    BY <1>t, <2>0, GotoTask
  <2>2. TaskFacts(w, j)'  BY <2>1 DEF TaskFacts, Work
  <2>3. /\ [Lifecycle!Next]_row
        /\ \A i \in Jobs : row'[i].status = "succeeded" => row[i].status = "succeeded" \/ Decided(i)
    <3>1. CASE UNCHANGED row  BY <3>1
    <3>2. CASE row[j].status = "running" /\ row' = [row EXCEPT ![j] = Succeeded(row[j])] /\ Decided(j)
      <4>1. Lifecycle!Succeed(j)
        BY <3>2, LifecycleWrites DEF Lifecycle!Succeed, Lifecycle!Running
      <4>2. [Lifecycle!Next]_row  BY <4>1 DEF Lifecycle!Next
      <4>3. \A i \in Jobs : i # j => row'[i] = row[i]
        BY <3>2 DEF Inv, ControlInv, ControlTypeOK
      <4> QED  BY <3>2, <4>2, <4>3
    <3>3. CASE /\ row[j].status = "running"
               /\ row' = [row EXCEPT ![j] = FailedAttempt(row[j], task[w][j].n, TRUE)]
               /\ task[w][j].n < MaxAttempts
      <4>1. [Lifecycle!Next]_row  BY <1>t, <3>3, FailedAttemptAllowed
      <4>2. FailedAttempt(row[j], task[w][j].n, TRUE).status # "succeeded"
        <5> task[w][j].n + 1 \in Nat  BY <1>t
        <5> QED  BY <1>t, RequeueWrite, GiveUpWrite DEF FailedAttempt, NextAttempt
      <4> QED  BY <3>3, <4>1, <4>2 DEF Inv, ControlInv, ControlTypeOK
    <3>4. CASE Commit(w, j)
      BY <1>t, <3>1, <3>2, <3>4 DEF Commit, CanTransition, TaskFacts, At
    <3>5. CASE FailJob(w, j)
      BY <1>t, <3>1, <3>3, <3>5 DEF FailJob, CanTransition, TaskFacts, At
    <3> QED  BY <1>3, <3>4, <3>5
  <2>4. ControlInv'  BY <2>0, <2>3, RunnerStepControlInv DEF Inv, ControlInv, ControlTypeOK
  <2>5. \A i \in Jobs : Decided(i) => Decided(i)'  BY <2>0 DEF Decided, Archived
  <2> QED  BY <1>t, <2>0, <2>1, <2>2, <2>3, <2>4, <2>5, PlainStepInv DEF TaskTypeOK
<1>4. CASE \/ Validate(w, j) \/ CopyToArchive(w, j) \/ DeleteQuarantine(w, j)
           \/ ReadStatus(w, j) \/ WriteStatus(w, j) \/ CreateIngestionJob(w, j)
  <2>0. UNCHANGED <<row, lock, scan, cancel, up, aged, faults>>
    BY <1>4 DEF Validate, CopyToArchive, DeleteQuarantine, ReadStatus, WriteStatus, CreateIngestionJob
  <2>1. ControlInv' /\ [Lifecycle!Next]_row  BY <2>0, IdleStepControlInv DEF Inv
  <2>2. task[w][j].n < MaxAttempts
    BY <1>t, <1>4 DEF Validate, CopyToArchive, DeleteQuarantine, ReadStatus, WriteStatus,
                      CreateIngestionJob, TaskFacts, At, Work
  <2>3. /\ TaskTypeOK' /\ DocFitsFile' /\ ContentKept' /\ WorkStays /\ TaskFacts(w, j)'
        /\ \A v \in Workers, i \in Jobs : v # w \/ i # j => task'[v][i] = task[v][i]
    <3>1. ASSUME NEW pc \in Work \cup {"commit", "fail"}, Goto(w, j, pc)
          PROVE  /\ task' \in [Workers -> [Jobs -> Task]]
                 /\ task'[w][j].pc = pc /\ task'[w][j].n = task[w][j].n
                 /\ \A v \in Workers, i \in Jobs : v # w \/ i # j => task'[v][i] = task[v][i]
      BY <1>t, <3>1, GotoTask
    <3>p. ASSUME UNCHANGED <<doc, stored, ingest>>
          PROVE  DocFitsFile' /\ ContentKept' /\ WorkStays
      BY <1>t, <3>p DEF DocFitsFile, ContentKept, WorkStays, Archived
    <3>f. ASSUME Goto(w, j, "fail"), UNCHANGED <<doc, stored, ingest>>
          PROVE  <2>3!:
      <4>1. TaskTypeOK' /\ TaskFacts(w, j)'
        BY <1>t, <2>0, <2>2, <3>1, <3>f DEF TaskTypeOK, TaskFacts, Work
      <4> QED  BY <3>1, <3>f, <3>p, <4>1
    <3>2. CASE Validate(w, j)
      <4>0. UNCHANGED <<doc, stored, ingest>>  BY <3>2 DEF Validate
      <4>1. CASE \/ j \in Clean /\ Goto(w, j, "copy")
                 \/ j \notin Clean /\ Goto(w, j, "status")
        <5>1. TaskTypeOK' /\ TaskFacts(w, j)'
          BY <1>t, <2>0, <2>2, <3>1, <4>0, <4>1 DEF TaskTypeOK, TaskFacts, Work
        <5> QED  BY <3>1, <3>p, <4>0, <4>1, <5>1 DEF Work
      <4> QED  BY <3>2, <3>f, <4>0, <4>1 DEF Validate
    <3>3. CASE CopyToArchive(w, j)
      <4>0. UNCHANGED <<doc, ingest>> /\ j \in Clean  BY <1>t, <3>3 DEF CopyToArchive, TaskFacts, At
      <4>1. CASE Goto(w, j, "delete") /\ stored' = [stored EXCEPT ![j] = @ \cup {"archives"}]
        <5>1. stored' \in [Jobs -> SUBSET {"quarantine", "archives"}]  BY <1>t, <4>1 DEF TaskTypeOK
        <5>2. TaskTypeOK' /\ TaskFacts(w, j)'
          BY <1>t, <2>0, <2>2, <3>1, <4>0, <4>1, <5>1 DEF TaskTypeOK, TaskFacts, Work
        <5>3. DocFitsFile' /\ ContentKept' /\ WorkStays
          BY <1>t, <4>0, <4>1 DEF TaskTypeOK, DocFitsFile, ContentKept, WorkStays, Archived
        <5> QED  BY <3>1, <4>1, <5>2, <5>3 DEF Work
      <4> QED  BY <3>3, <3>f, <4>0, <4>1 DEF CopyToArchive
    <3>4. CASE DeleteQuarantine(w, j)
      <4>0. /\ UNCHANGED <<doc, ingest>> /\ j \in Clean /\ "archives" \in stored[j]
            /\ Goto(w, j, "status") /\ stored' = [stored EXCEPT ![j] = @ \ {"quarantine"}]
        BY <1>t, <3>4 DEF DeleteQuarantine, TaskFacts, At
      <4>1. stored' \in [Jobs -> SUBSET {"quarantine", "archives"}]  BY <1>t, <4>0 DEF TaskTypeOK
      <4>2. TaskTypeOK' /\ TaskFacts(w, j)'
        BY <1>t, <2>0, <2>2, <3>1, <4>0, <4>1 DEF TaskTypeOK, TaskFacts, Work
      <4>3. DocFitsFile' /\ ContentKept' /\ WorkStays
        BY <1>t, <4>0 DEF TaskTypeOK, DocFitsFile, ContentKept, WorkStays, Archived
      <4> QED  BY <3>1, <4>0, <4>2, <4>3 DEF Work
    <3>5. CASE ReadStatus(w, j)
      <4>0. UNCHANGED <<doc, stored, ingest>> /\ task[w][j].pc = "status"
        BY <3>5 DEF ReadStatus, At
      <4>1. CASE /\ DocCanBecome(j, Verdict(j))
                 /\ task' = [task EXCEPT ![w][j].pc = "write", ![w][j].seen = doc[j]]
        <5> DEFINE q == [task[w][j] EXCEPT !.pc = "write", !.seen = doc[j]]
        <5>1. q \in Task /\ q.pc = "write" /\ q.n = task[w][j].n /\ q.seen = doc[j]
          BY <1>t DEF TaskTypeOK, Task, Work
        <5>2. task' = [task EXCEPT ![w][j] = q]  BY <1>t, <4>1 DEF TaskTypeOK
        <5> HIDE DEF q
        <5>3. /\ task' \in [Workers -> [Jobs -> Task]]
              /\ task'[w][j] = q
              /\ \A v \in Workers, i \in Jobs : v # w \/ i # j => task'[v][i] = task[v][i]
          <6>1. TaskTypeOK /\ q \in Task  BY <1>t, <5>1
          <6> QED  BY <5>2, <6>1 DEF TaskTypeOK
        <5>4. TaskFacts(w, j)'
          BY <1>t, <2>2, <4>0, <4>1, <5>1, <5>3 DEF TaskFacts, DocCanBecome, Verdict
        <5>5. TaskTypeOK'  BY <1>t, <2>0, <4>0, <5>3 DEF TaskTypeOK
        <5> QED  BY <3>p, <4>0, <5>3, <5>4, <5>5
      <4> QED  BY <3>5, <3>f, <4>0, <4>1 DEF ReadStatus
    <3>6. CASE WriteStatus(w, j)
      <4>0. /\ UNCHANGED <<stored, ingest>> /\ task[w][j].seen \in {"validating", Verdict(j)}
            /\ (j \in Clean => "archives" \in stored[j])
        BY <1>t, <3>6 DEF WriteStatus, TaskFacts, At
      <4>1. CASE /\ doc[j] = task[w][j].seen /\ doc' = [doc EXCEPT ![j] = Verdict(j)]
                 /\ Goto(w, j, IF j \in Clean THEN "ingest" ELSE "commit")
        <5>1. doc' \in [Jobs -> DocStatus] /\ doc'[j] = Verdict(j)
              /\ \A i \in Jobs : i # j => doc'[i] = doc[i]
          BY <1>t, <4>1 DEF TaskTypeOK, DocStatus, Verdict
        <5>2. TaskTypeOK' /\ TaskFacts(w, j)'
          BY <1>t, <2>0, <2>2, <3>1, <4>0, <4>1, <5>1
             DEF TaskTypeOK, TaskFacts, Work, Decided, Archived, Verdict
        <5>3. DocFitsFile' /\ ContentKept' /\ WorkStays
          BY <1>t, <4>0, <4>1, <5>1 DEF DocFitsFile, ContentKept, WorkStays, Archived, Verdict
        <5> QED  BY <3>1, <4>1, <5>2, <5>3 DEF Work
      <4> QED  BY <3>6, <3>f, <4>0, <4>1 DEF WriteStatus
    <3>7. CASE CreateIngestionJob(w, j)
      <4>0. /\ UNCHANGED <<doc, stored>> /\ j \in Clean /\ Archived(j)
            /\ Goto(w, j, "commit") /\ ingest' = ingest \cup {j}
        BY <1>t, <3>7 DEF CreateIngestionJob, TaskFacts, At
      <4>1. TaskTypeOK' /\ TaskFacts(w, j)'
        BY <1>t, <2>0, <2>2, <3>1, <4>0 DEF TaskTypeOK, TaskFacts, Work, Decided, Archived
      <4>2. DocFitsFile' /\ ContentKept' /\ WorkStays
        BY <1>t, <4>0 DEF DocFitsFile, ContentKept, WorkStays, Archived
      <4> QED  BY <3>1, <4>0, <4>1, <4>2
    <3> QED  BY <1>4, <3>2, <3>3, <3>4, <3>5, <3>6, <3>7
  <2> QED  BY <2>0, <2>1, <2>3, StepInv
<1> QED  BY <1>1, <1>2, <1>3, <1>4 DEF TaskStep

(* A batch starts, a step throws, a replica stops. *)
LEMMA ReplicaStepInv ==
    ASSUME Inv, NEW w \in Workers,
           Poll(w) \/ Crash(w) \/ \E j \in Jobs : StepThrows(w, j)
    PROVE  Inv' /\ [Lifecycle!Next]_row
<1>t. TaskTypeOK  BY DEF Inv
<1>0. UNCHANGED <<row, lock, scan, cancel, aged, doc, stored, ingest>>
  BY DEF Poll, Crash, StepThrows
<1>1. ControlInv' /\ [Lifecycle!Next]_row  BY <1>0, IdleStepControlInv DEF Inv
<1>2. up' \in SUBSET Workers /\ faults' \in Nat
  BY <1>t DEF Poll, Crash, StepThrows, TaskTypeOK
<1>3. /\ task' \in [Workers -> [Jobs -> Task]]
      /\ \A v \in Workers, i \in Jobs : task'[v][i] = task[v][i] \/ TaskFacts(v, i)'
  <2>1. CASE Poll(w) \/ Crash(w)
    <3>1. PICK f \in [Jobs -> {NoTask, ReadTask}] : task' = [task EXCEPT ![w] = f]
      <4>1. CASE Poll(w)
        <5> PICK batch \in SUBSET Jobs :
              task' = [task EXCEPT ![w] = [j \in Jobs |->
                         IF j \in batch THEN ReadTask ELSE NoTask]]
          BY <4>1 DEF Poll, ReadTask
        <5> QED  OBVIOUS
      <4>2. CASE Crash(w)  BY <4>2 DEF Crash
      <4> QED  BY <2>1, <4>1, <4>2
    <3>2. \A q \in {NoTask, ReadTask} : q \in Task /\ q.pc \in {"none", "read"}
      BY NoTaskType, ReadTaskType
    <3>3. /\ task' \in [Workers -> [Jobs -> Task]]
          /\ \A v \in Workers : v # w => task'[v] = task[v]
          /\ \A i \in Jobs : task'[w][i].pc \in {"none", "read"}
      BY <1>t, <3>1, <3>2 DEF TaskTypeOK
    <3> QED  BY <3>3 DEF TaskFacts, Work
  <2>2. CASE \E j \in Jobs : StepThrows(w, j)
    <3> PICK j \in Jobs : StepThrows(w, j)  BY <2>2
    <3>1. CASE task[w][j].pc \in Work /\ Goto(w, j, "fail")
      <4>1. task[w][j].n < MaxAttempts  BY <3>1 DEF Inv, TaskFacts
      <4>2. /\ task' \in [Workers -> [Jobs -> Task]]
            /\ task'[w][j].pc = "fail" /\ task'[w][j].n = task[w][j].n
            /\ \A v \in Workers, i \in Jobs : v # w \/ i # j => task'[v][i] = task[v][i]
        BY <1>t, <3>1, GotoTask
      <4>3. TaskFacts(w, j)'  BY <4>1, <4>2 DEF TaskFacts
      <4> QED  BY <4>2, <4>3
    <3>2. CASE Goto(w, j, "unlock") \/ Goto(w, j, "release") \/ Done(w, j)
      <4>1. /\ task' \in [Workers -> [Jobs -> Task]]
            /\ task'[w][j].pc \in {"none", "unlock", "release"}
            /\ \A v \in Workers, i \in Jobs : v # w \/ i # j => task'[v][i] = task[v][i]
        BY <1>t, <3>2, GotoTask, SetTask, NoTaskType DEF Done
      <4>2. TaskFacts(w, j)'  BY <4>1 DEF TaskFacts, Work
      <4> QED  BY <4>1, <4>2
    <3> QED  BY <3>1, <3>2 DEF StepThrows
  <2> QED  BY <2>1, <2>2
<1> QED  BY <1>t, <1>0, <1>1, <1>2, <1>3, PlainStepInv DEF TaskTypeOK

(* Time, the scan and cancellations. *)
LEMMA ControlStepInv ==
    ASSUME Inv, ControlInv', [Lifecycle!Next]_row, UNCHANGED <<task, up, doc, stored, ingest, faults>>,
           aged' \in [Jobs -> BOOLEAN],
           \A j \in Jobs : row'[j].status = "succeeded" => row[j].status = "succeeded"
    PROVE  Inv'
<1>1. TaskTypeOK  BY DEF Inv
<1> QED  BY <1>1, PlainStepInv DEF TaskTypeOK

(* Neither the scan nor a cancellation makes a job succeed. *)
LEMMA ControlNeverSucceeds ==
    ASSUME ControlInv,
           \/ \E s \in Scanners : \/ ScanRead(s) \/ ScanWorker(s, Alive(s)) \/ ScanFail(s)
                                  \/ ScanRelease(s) \/ ScanAbort(s)
           \/ \E u \in Users : CancelStep(u)
    PROVE  \A j \in Jobs : row'[j].status = "succeeded" => row[j].status = "succeeded"
<1> USE DEF ControlInv, ControlTypeOK
<1>1. CASE UNCHANGED row  BY <1>1
<1>2. CASE \E s \in Scanners : ScanFail(s)
  <2> PICK s \in Scanners : ScanFail(s)  BY <1>2
  <2> PICK e \in scan[s].dead :
        row' = IF CanTransition(row[e.j], "running", "failed")
               THEN [row EXCEPT ![e.j] = FailedAttempt(row[e.j], e.n, TRUE)] ELSE row
    BY DEF ScanFail
  <2>1. row[e.j] \in Row /\ e.n + 1 \in Nat /\ e.j \in Jobs  BY DEF ScanState, Snapshot
  <2>2. FailedAttempt(row[e.j], e.n, TRUE).status # "succeeded"
    BY <2>1, RequeueWrite, GiveUpWrite DEF FailedAttempt, NextAttempt
  <2> QED  BY <2>1, <2>2
<1>3. CASE \E u \in Users : CancelTx(u)
  <2> PICK u \in Users : CancelTx(u)  BY <1>3
  <2> DEFINE j == cancel[u].job
  <2>1. j \in Jobs /\ row[j] \in Row  BY DEF CancelTx, CancelPhases
  <2>2. \/ row' = [row EXCEPT ![j] = Cancelled(row[j])]
        \/ row' = [row EXCEPT ![j] = CancelRequested(row[j])]
        \/ row' = row
    BY DEF CancelTx
  <2> QED  BY <2>1, <2>2, CancelWrite, CancelRequestWrite
<1> QED
  BY <1>1, <1>2, <1>3 DEF ScanRead, ScanWorker, ScanRelease, ScanAbort, CancelStep, CancelRead, CancelResolve

(* The invariant is preserved, by steps that JobLifecycle allows. *)
LEMMA NextInv ==
    ASSUME Inv, [Next]_vars
    PROVE  Inv' /\ [Lifecycle!Next]_row
<1>0. TaskTypeOK /\ ControlInv  BY DEF Inv
<1>1. CASE \E w \in Workers : Poll(w) \/ Crash(w)  BY <1>1, ReplicaStepInv
<1>2. CASE \E w \in Workers, j \in Jobs : TaskStep(w, j)  BY <1>2, TaskStepInv
<1>3. CASE \E w \in Workers, j \in Jobs : StepThrows(w, j)  BY <1>3, ReplicaStepInv
<1>4. CASE \E j \in Jobs : ClaimAges(j)
  <2>1. UNCHANGED <<row, lock, scan, cancel, task, up, doc, stored, ingest, faults>>
        /\ aged' \in [Jobs -> BOOLEAN]
    BY <1>0, <1>4 DEF ClaimAges, TaskTypeOK
  <2>2. ControlInv' /\ [Lifecycle!Next]_row  BY <1>0, <2>1, IdleStepControlInv
  <2> QED  BY <2>1, <2>2, ControlStepInv
<1>5. CASE \E j \in Jobs : LockExpires(j)
  <2>1. UNCHANGED <<row, scan, cancel, task, up, aged, doc, stored, ingest, faults>>
        /\ lock' \in [Jobs -> Owners]
    BY <1>0, <1>5 DEF LockExpires, ControlInv, ControlTypeOK, Owners
  <2>2. ControlInv' /\ [Lifecycle!Next]_row  BY <1>0, <2>1, RunnerStepControlInv
  <2>3. aged' \in [Jobs -> BOOLEAN]  BY <1>0, <2>1 DEF TaskTypeOK
  <2> QED  BY <2>1, <2>2, <2>3, ControlStepInv
<1>9. CASE \E j \in Jobs : IngestionAdvances(j)
  <2> PICK j \in Jobs : IngestionAdvances(j)  BY <1>9
  <2>1. /\ UNCHANGED <<row, lock, scan, cancel, task, up, aged, stored, ingest, faults>>
        /\ doc[j] = "archived" /\ doc' = [doc EXCEPT ![j] = "parsing"]
    BY DEF IngestionAdvances
  <2>2. ControlInv' /\ [Lifecycle!Next]_row  BY <1>0, <2>1, IdleStepControlInv
  <2>3. doc'[j] = "parsing" /\ \A i \in Jobs : i # j => doc'[i] = doc[i]
    BY <1>0, <2>1 DEF TaskTypeOK
  <2>4. TaskTypeOK' /\ DocFitsFile' /\ ContentKept' /\ WorkStays
    BY <2>1, <2>3 DEF Inv, TaskTypeOK, DocStatus, DocFitsFile, ContentKept, WorkStays, Archived
  <2> QED  BY <2>1, <2>2, <2>4, StepInv
<1>6. CASE \E s \in Scanners : ScanStep(s) \/ (ScanAbort(s) /\ UNCHANGED taskVars)
  <2> PICK s \in Scanners : ScanStep(s) \/ (ScanAbort(s) /\ UNCHANGED taskVars)  BY <1>6
  <2>1. /\ \/ ScanRead(s) \/ ScanWorker(s, Alive(s)) \/ ScanFail(s)
           \/ ScanRelease(s) \/ ScanAbort(s)
        /\ UNCHANGED taskVars
    BY DEF ScanStep, ReadRunning, CheckWorker, FailDeadWorkerJob, ReleaseDeadLock
  <2>2. Alive(s) \in SUBSET Workers
    BY <1>0 DEF Alive, ControlInv, ControlTypeOK, ScanState, Snapshot
  <2>3. ControlInv' /\ [Lifecycle!Next]_row  BY <1>0, <2>1, <2>2, ScanStepControlInv
  <2>4. \A j \in Jobs : row'[j].status = "succeeded" => row[j].status = "succeeded"
    BY <1>0, <2>1, ControlNeverSucceeds
  <2>5. aged' \in [Jobs -> BOOLEAN]  BY <1>0, <2>1 DEF TaskTypeOK, taskVars
  <2> QED  BY <2>1, <2>3, <2>4, <2>5, ControlStepInv DEF taskVars
<1>7. CASE \E u \in Users : CancelStep(u) /\ UNCHANGED taskVars
  <2>1. ControlInv' /\ [Lifecycle!Next]_row /\ UNCHANGED taskVars
    BY <1>0, <1>7, CancelStepControlInv
  <2>2. \A j \in Jobs : row'[j].status = "succeeded" => row[j].status = "succeeded"
    BY <1>0, <1>7, ControlNeverSucceeds
  <2>3. aged' \in [Jobs -> BOOLEAN]  BY <1>0, <2>1 DEF TaskTypeOK, taskVars
  <2> QED  BY <2>1, <2>2, <2>3, ControlStepInv DEF taskVars
<1>8. CASE UNCHANGED vars
  <2>1. ControlInv' /\ [Lifecycle!Next]_row  BY <1>0, <1>8, IdleStepControlInv DEF vars
  <2>2. aged' \in [Jobs -> BOOLEAN]  BY <1>0, <1>8 DEF TaskTypeOK, vars
  <2> QED  BY <1>8, <2>1, <2>2, ControlStepInv DEF vars
<1> QED  BY <1>1, <1>2, <1>3, <1>4, <1>5, <1>6, <1>7, <1>8, <1>9 DEF Next

(* The inductive invariant holds in every reachable state. *)
LEMMA Invariance == Spec => []Inv
<1>1. Init => Inv
  <2> SUFFICES ASSUME Init PROVE Inv  OBVIOUS
  <2>1. ControlInv  BY InitControlInv DEF Init
  <2>2. TaskTypeOK  BY NoTaskType DEF Init, TaskTypeOK, DocStatus
  <2>3. \A w \in Workers, j \in Jobs : TaskFacts(w, j)
    BY NoTaskType DEF Init, TaskFacts, Work
  <2>4. DocFitsFile /\ ContentKept /\ SucceededMeansDecided
    BY DEF Init, ControlInit, NewRow, DocFitsFile, ContentKept, SucceededMeansDecided, Archived
  <2> QED  BY <2>1, <2>2, <2>3, <2>4 DEF Inv
<1>2. Inv /\ [Next]_vars => Inv'  BY NextInv
<1> QED  BY <1>1, <1>2, PTL DEF Spec

-----------------------------------------------------------------------------
(* The theorems *)

(* Every reachable state is well typed. *)
THEOREM TypeCorrect == Spec => []TypeOK
<1>1. Inv => TypeOK  BY DEF Inv, ControlInv, TaskTypeOK, TypeOK
<1> QED  BY <1>1, Invariance, PTL

(* A slow task and the scan may both end the same job, from old reads, and *)
(* still attempt_count stays within max_attempts.                          *)
THEOREM BudgetKept == Spec => []AttemptBudget
<1>1. Inv => AttemptBudget  BY DEF Inv, ControlInv
<1> QED  BY <1>1, Invariance, PTL

(* Only a job whose document is decided and handed on succeeds. *)
THEOREM SuccessMeansDecided == Spec => []SucceededMeansDecided
<1>1. Inv => SucceededMeansDecided  BY DEF Inv
<1> QED  BY <1>1, Invariance, PTL

(* No interleaving of copies and deletes loses the file. *)
THEOREM FileKept == Spec => []ContentKept
<1>1. Inv => ContentKept  BY DEF Inv
<1> QED  BY <1>1, Invariance, PTL

(* What cancelJob answered stays true. *)
THEOREM CancelAnswersHold == Spec => []CancelAnswerHolds
<1>1. Inv => CancelAnswerHolds  BY DEF Inv, ControlInv
<1> QED  BY <1>1, Invariance, PTL

(* The in-process consumer implements the abstract life cycle of a job. *)
THEOREM Refinement == Spec => ImplementsLifecycle
<1>1. Init => Lifecycle!Init
  BY DEF Init, ControlInit, Lifecycle!Init, NewRow, Lifecycle!NewRow
<1>2. Inv /\ [Next]_vars => [Lifecycle!Next]_row  BY NextInv
<1> QED  BY <1>1, <1>2, Invariance, PTL DEF Spec, ImplementsLifecycle, Lifecycle!Spec

(* A finished job is never changed again. *)
THEOREM TerminalStays == Spec => TerminalIsFinal
<1>1. Inv /\ [Next]_vars =>
        [\A j \in Jobs : row[j].status \in Terminal =>
            row'[j].status = row[j].status /\ row'[j].attempt_count = row[j].attempt_count]_controlVars
  <2> SUFFICES ASSUME Inv, [Next]_vars
               PROVE  \A j \in Jobs : row[j].status \in Terminal => row'[j] = row[j]
    OBVIOUS
  <2>1. [Lifecycle!Next]_row  BY NextInv
  <2> QED  BY <2>1, LifecycleStep DEF Inv, ControlInv, ControlTypeOK, RowsOK
<1> QED  BY <1>1, Invariance, PTL DEF Spec, TerminalIsFinal
=============================================================================
