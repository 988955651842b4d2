------------------------ MODULE WorkerProtocolProofs ------------------------
(***************************************************************************)
(* Theorems about WorkerProtocol, for any sets of jobs, workers, calls,    *)
(* scanners and users and any bounds.                                      *)
(***************************************************************************)
EXTENDS WorkerProtocol, JobControlProofs

-----------------------------------------------------------------------------
(* Type correctness *)

(* A worker that is working on a job, or waiting for an answer about it,   *)
(* has one.                                                                *)
WorkerHasJob ==
    \A w \in Workers :
        /\ worker[w].pc \in {"work", "failing", "await"} => worker[w].job \in Jobs
        /\ worker[w].pc = "await" => worker[w].call \in Calls

RunnerTypeOK ==
    /\ beat \in [Workers -> BOOLEAN]
    /\ worker \in [Workers -> WorkerState]
    /\ calls \in [Calls -> Call \cup {NoCall}]
    /\ claims \in [Jobs -> Nat]
    /\ applied \in [Jobs -> Nat]
    /\ WorkerHasJob

USE NoCallAssumption, MaxClaimsAssumption, RestartableAssumption

(* The initial state is well typed. *)
LEMMA InitRunnerTypeOK == Init => RunnerTypeOK
BY DEF Init, RunnerTypeOK, WorkerHasJob, WorkerState, IdleWorker, WorkerAt

(* The states of the poll loop are well typed. *)
LEMMA WorkerAtType ==
    ASSUME NEW pc \in {"idle", "work", "down"}, NEW j \in Jobs \cup {NoJob}
    PROVE  WorkerAt(pc, j) \in WorkerState
BY DEF WorkerAt, WorkerState

LEMMA AwaitingType ==
    ASSUME NEW wk \in WorkerState, NEW c \in Calls, NEW op
    PROVE  /\ Awaiting(wk, c, op) \in WorkerState
           /\ Awaiting(wk, c, op).call = c
           /\ Awaiting(wk, c, op).job = wk.job
BY DEF Awaiting, WorkerState

(* After a call the loop is well typed and not waiting; if it still works, *)
(* then on the same job.                                                   *)
LEMMA AfterCallType ==
    ASSUME NEW wk \in WorkerState, NEW op, NEW ok \in BOOLEAN
    PROVE  /\ AfterCall(wk, op, ok) \in WorkerState
           /\ AfterCall(wk, op, ok).pc \in {"idle", "work", "failing"}
           /\ AfterCall(wk, op, ok).pc # "idle" => AfterCall(wk, op, ok).job = wk.job
<1>1. CASE op = "progress"
  BY <1>1 DEF AfterCall, WorkerState
<1>2. CASE op # "progress"
  BY <1>2, WorkerAtType DEF AfterCall, IdleWorker, WorkerAt
<1> QED  BY <1>1, <1>2

(* What a worker does keeps the types. *)
LEMMA WorkerStepType ==
    ASSUME RunnerTypeOK, NEW w \in Workers, WorkerStep(w)
    PROVE  RunnerTypeOK'
<1> USE DEF RunnerTypeOK, WorkerHasJob
<1>1. CASE FetchPendingJob(w)
  <2> PICK j \in Jobs :
        worker' = [worker EXCEPT ![w] = WorkerAt("work", j)]
    BY <1>1 DEF FetchPendingJob
  <2>1. worker' \in [Workers -> WorkerState]  BY WorkerAtType
  <2>2. WorkerHasJob'  BY DEF WorkerAt
  <2> QED  BY <1>1, <2>1, <2>2 DEF FetchPendingJob
<1>2. CASE \E op \in Ops : Send(w, op)
  <2> PICK op \in Ops : Send(w, op)  BY <1>2
  <2> PICK c \in Calls, retry \in BOOLEAN :
        /\ calls' = [calls EXCEPT ![c] = [pc |-> "read", op |-> op, w |-> w,
                                          j |-> worker[w].job, n |-> 0, retry |-> retry]]
        /\ worker' = [worker EXCEPT ![w] = Awaiting(@, c, op)]
    BY DEF Send
  <2> worker[w].job \in Jobs  BY DEF Send
  <2>1. calls' \in [Calls -> Call \cup {NoCall}]  BY DEF Call
  <2>2. worker' \in [Workers -> WorkerState] /\ WorkerHasJob'  BY AwaitingType
  <2> QED  BY <2>1, <2>2 DEF Send
<1>3. CASE RequestTimeout(w)
  <2> DEFINE wk == AfterCall(worker[w], calls[worker[w].call].op, FALSE)
  <2>1. worker' = [worker EXCEPT ![w] = wk]  BY <1>3 DEF RequestTimeout
  <2>2. /\ wk \in WorkerState
        /\ wk.pc \in {"idle", "work", "failing"}
        /\ wk.pc # "idle" => wk.job = worker[w].job
    BY AfterCallType
  <2>3. worker[w].job \in Jobs  BY <1>3 DEF RequestTimeout
  <2> HIDE DEF wk
  <2>4. worker' \in [Workers -> WorkerState] /\ WorkerHasJob'  BY <2>1, <2>2, <2>3
  <2> QED  BY <1>3, <2>4 DEF RequestTimeout
<1>4. CASE Heartbeat(w) \/ HeartbeatAges(w)
  BY <1>4 DEF Heartbeat, HeartbeatAges
<1>5. CASE Crash(w) \/ Restart(w)
  <2>1. worker' \in [Workers -> WorkerState] /\ WorkerHasJob'
    BY <1>5, WorkerAtType DEF Crash, Restart, IdleWorker, WorkerAt
  <2> QED  BY <1>5, <2>1 DEF Crash, Restart
<1> QED  BY <1>1, <1>2, <1>3, <1>4, <1>5 DEF WorkerStep

(* The end of a call frees its slot and moves on at most the worker that   *)
(* made it.                                                                *)
LEMMA AnswerType ==
    ASSUME RunnerTypeOK, NEW c \in Calls, calls[c] # NoCall, NEW ok \in BOOLEAN, Answer(c, ok)
    PROVE  /\ worker' \in [Workers -> WorkerState]
           /\ WorkerHasJob'
           /\ calls' = [calls EXCEPT ![c] = NoCall]
<1> USE DEF RunnerTypeOK, WorkerHasJob
<1> DEFINE w == calls[c].w
           wk == AfterCall(worker[w], calls[c].op, ok)
<1>0. w \in Workers  BY DEF Call
<1>1. worker' = [worker EXCEPT ![w] = IF @.pc = "await" /\ @.call = c THEN wk ELSE @]
  BY DEF Answer
<1>2. /\ wk \in WorkerState
      /\ wk.pc \in {"idle", "work", "failing"}
      /\ wk.pc # "idle" => wk.job = worker[w].job
  BY <1>0, AfterCallType
<1> HIDE DEF wk
<1>3. worker' \in [Workers -> WorkerState] /\ WorkerHasJob'  BY <1>0, <1>1, <1>2
<1> QED  BY <1>3 DEF Answer

(* A call that goes on keeps everything but its place in the handler. *)
LEMMA GotoType ==
    ASSUME RunnerTypeOK, NEW c \in Calls, calls[c] # NoCall,
           NEW pc \in {"claim", "unlock", "renew", "commit", "effects"}, Goto(c, pc)
    PROVE  /\ calls' \in [Calls -> Call \cup {NoCall}]
           /\ worker' \in [Workers -> WorkerState]
           /\ WorkerHasJob'
           /\ calls'[c].pc = pc /\ calls'[c].op = calls[c].op /\ calls'[c].j = calls[c].j
           /\ calls'[c].n = calls[c].n
           /\ \A d \in Calls : d # c => calls'[d] = calls[d]
<1>1. calls[c] \in Call  BY DEF RunnerTypeOK
<1>2. calls' = [calls EXCEPT ![c].pc = pc] /\ UNCHANGED worker  BY DEF Goto
<1>3. worker' \in [Workers -> WorkerState] /\ WorkerHasJob'
  BY <1>2 DEF RunnerTypeOK, WorkerHasJob
<1>4. calls' \in [Calls -> Call \cup {NoCall}]  BY <1>1, <1>2 DEF RunnerTypeOK, Call
<1> QED  BY <1>1, <1>2, <1>3, <1>4 DEF RunnerTypeOK, Call

LEMMA CommittedType ==
    ASSUME RunnerTypeOK, NEW c \in Calls, calls[c] # NoCall, Committed(c)
    PROVE  /\ calls' \in [Calls -> Call \cup {NoCall}]
           /\ worker' \in [Workers -> WorkerState]
           /\ WorkerHasJob'
           /\ calls'[c].pc = "release" /\ calls'[c].op = calls[c].op /\ calls'[c].j = calls[c].j
           /\ \A d \in Calls : d # c => calls'[d] = calls[d]
<1>1. calls[c] \in Call  BY DEF RunnerTypeOK
<1>2. UNCHANGED worker /\ calls' = [calls EXCEPT ![c].pc = "release", ![c].n = 0, ![c].retry = TRUE]
  BY DEF Committed
<1>3. worker' \in [Workers -> WorkerState] /\ WorkerHasJob'
  BY <1>2 DEF RunnerTypeOK, WorkerHasJob
<1>4. calls' \in [Calls -> Call \cup {NoCall}]  BY <1>1, <1>2 DEF RunnerTypeOK, Call
<1> QED  BY <1>1, <1>2, <1>3, <1>4 DEF RunnerTypeOK, Call

-----------------------------------------------------------------------------
(* The inductive invariant *)

(* A failure report that is about to be written was built from a row whose *)
(* budget held.                                                            *)
CallsInBudget ==
    \A c \in Calls : At(c, {"fail"}, "renew") \/ At(c, {"fail"}, "commit") =>
        calls[c].n < MaxAttempts

(* A call that committed a completion and has not run its effects yet is   *)
(* the only one of its job, which it made succeed.                         *)
Completing(c) == At(c, {"complete"}, "release") \/ At(c, {"complete"}, "effects")

CompletionsUnique ==
    /\ \A c \in Calls : Completing(c) =>
          row[calls[c].j].status = "succeeded" /\ applied[calls[c].j] = 0
    /\ \A c, d \in Calls :
          Completing(c) /\ Completing(d) /\ calls[c].j = calls[d].j => c = d

Inv ==
    /\ ControlInv
    /\ LockMatchesOwner
    /\ RunnerTypeOK
    /\ CallsInBudget
    /\ CompletionsUnique
    /\ EffectsAtMostOnce

(* What is left to show for a step that commits no completion and runs no  *)
(* effects.                                                                *)
LEMMA QuietStep ==
    ASSUME Inv, [Lifecycle!Next]_row, UNCHANGED applied,
           \A c \in Calls : Completing(c)' => Completing(c) /\ calls'[c].j = calls[c].j
    PROVE  CompletionsUnique' /\ EffectsAtMostOnce'
<1>1. \A j \in Jobs : row[j].status = "succeeded" => row'[j] = row[j]
  BY LifecycleStep DEF Inv, ControlInv, ControlTypeOK, RowsOK, Terminal
<1>2. \A c \in Calls : Completing(c) => calls[c].j \in Jobs
  BY DEF Inv, RunnerTypeOK, Completing, At, Call
<1>3. CompletionsUnique'
  <2>1. ASSUME NEW c \in Calls, Completing(c)'
        PROVE  row'[calls'[c].j].status = "succeeded" /\ applied'[calls'[c].j] = 0
    BY <1>1, <1>2, <2>1 DEF Inv, CompletionsUnique
  <2>2. ASSUME NEW c \in Calls, NEW d \in Calls, Completing(c)', Completing(d)',
               calls'[c].j = calls'[d].j
        PROVE  c = d
    BY <2>2 DEF Inv, CompletionsUnique
  <2> QED  BY <2>1, <2>2 DEF CompletionsUnique
<1>4. EffectsAtMostOnce'
  BY <1>1 DEF Inv, EffectsAtMostOnce
<1> QED  BY <1>3, <1>4

(* A worker sends, waits, beats, dies and restarts without disturbing the  *)
(* invariant.                                                              *)
LEMMA WorkerStepInv ==
    ASSUME Inv, NEW w \in Workers, WorkerStep(w)
    PROVE  Inv' /\ [Lifecycle!Next]_row
<1>1. RunnerTypeOK'  BY WorkerStepType DEF Inv
<1>2. UNCHANGED <<row, lock, scan, cancel, applied>>
  BY DEF WorkerStep, FetchPendingJob, Send, RequestTimeout, Heartbeat, HeartbeatAges, Crash, Restart
<1>3. ControlInv' /\ LockMatchesOwner' /\ [Lifecycle!Next]_row  BY <1>2, IdleStepControlInv DEF Inv
<1>4. \A c \in Calls : calls'[c] = calls[c] \/ calls'[c].pc = "read"
  <2>1. CASE \E op \in Ops : Send(w, op)
    <3> PICK op \in Ops : Send(w, op)  BY <2>1
    <3> PICK c \in Calls, retry \in BOOLEAN :
          calls' = [calls EXCEPT ![c] = [pc |-> "read", op |-> op, w |-> w,
                                         j |-> worker[w].job, n |-> 0, retry |-> retry]]
      BY DEF Send
    <3> QED  BY DEF Inv, RunnerTypeOK
  <2>2. CASE ~\E op \in Ops : Send(w, op)
    BY <2>2 DEF WorkerStep, FetchPendingJob, RequestTimeout, Heartbeat, HeartbeatAges, Crash, Restart
  <2> QED  BY <2>1, <2>2
<1>5. CallsInBudget'  BY <1>4 DEF Inv, CallsInBudget, At
<1>6. \A c \in Calls : Completing(c)' => Completing(c) /\ calls'[c].j = calls[c].j
  BY <1>4 DEF Completing, At
<1>7. CompletionsUnique' /\ EffectsAtMostOnce'  BY <1>2, <1>3, <1>6, QuietStep
<1> QED  BY <1>1, <1>3, <1>5, <1>7 DEF Inv

(* A handler that ends without writing anything. *)
LEMMA AnswerStepInv ==
    ASSUME Inv, NEW c \in Calls, calls[c] # NoCall, NEW ok \in BOOLEAN, Answer(c, ok),
           ControlInv', LockMatchesOwner', [Lifecycle!Next]_row, UNCHANGED applied,
           beat' \in [Workers -> BOOLEAN], claims' \in [Jobs -> Nat]
    PROVE  Inv'
<1>1. /\ worker' \in [Workers -> WorkerState]
      /\ WorkerHasJob'
      /\ calls' = [calls EXCEPT ![c] = NoCall]
  BY AnswerType DEF Inv
<1>2. RunnerTypeOK'  BY <1>1 DEF Inv, RunnerTypeOK
<1>3. \A d \in Calls : calls'[d] = calls[d] \/ calls'[d] = NoCall  BY <1>1 DEF Inv, RunnerTypeOK
<1>4. CallsInBudget'  BY <1>3 DEF Inv, CallsInBudget, At
<1>5. \A d \in Calls : Completing(d)' => Completing(d) /\ calls'[d].j = calls[d].j
  BY <1>3 DEF Completing, At
<1>6. CompletionsUnique' /\ EffectsAtMostOnce'  BY <1>5, QuietStep
<1> QED  BY <1>2, <1>4, <1>6 DEF Inv

(* A handler that goes on to its next step. *)
LEMMA GotoStepInv ==
    ASSUME Inv, NEW c \in Calls, calls[c] # NoCall,
           NEW pc \in {"claim", "unlock", "renew", "commit", "effects"}, Goto(c, pc),
           pc \in {"renew", "commit"} /\ calls[c].op = "fail" => calls[c].n < MaxAttempts,
           pc = "effects" => Completing(c) \/ calls[c].op # "complete",
           ControlInv', LockMatchesOwner', [Lifecycle!Next]_row, UNCHANGED <<applied, claims>>,
           beat' \in [Workers -> BOOLEAN]
    PROVE  Inv'
<1>1. /\ calls' \in [Calls -> Call \cup {NoCall}]
      /\ worker' \in [Workers -> WorkerState]
      /\ WorkerHasJob'
      /\ calls'[c].pc = pc /\ calls'[c].op = calls[c].op /\ calls'[c].j = calls[c].j
      /\ calls'[c].n = calls[c].n
      /\ \A d \in Calls : d # c => calls'[d] = calls[d]
  BY GotoType DEF Inv
<1>2. RunnerTypeOK'  BY <1>1 DEF Inv, RunnerTypeOK
<1>3. CallsInBudget'  BY <1>1 DEF Inv, CallsInBudget, At
<1>4. \A d \in Calls : Completing(d)' => Completing(d) /\ calls'[d].j = calls[d].j
  BY <1>1 DEF Completing, At
<1>5. CompletionsUnique' /\ EffectsAtMostOnce'  BY <1>4, QuietStep
<1> QED  BY <1>2, <1>3, <1>5 DEF Inv

(* One step per action of the handlers.  The lock matters in the claim,    *)
(* whose two writes are decided together, and in the releases, which leave *)
(* the lock of another worker alone.                                       *)
LEMMA HandlerStepInv ==
    ASSUME Inv, NEW c \in Calls, HandlerStep(c)
    PROVE  Inv' /\ [Lifecycle!Next]_row
<1> DEFINE j == calls[c].j
           w == calls[c].w
<1> USE DEF At
<1>0. /\ calls[c] # NoCall /\ j \in Jobs /\ w \in Workers /\ row[j] \in Row
      /\ calls[c].n \in Nat /\ calls[c].retry \in BOOLEAN
  BY DEF HandlerStep, ProgressRead, ProgressClaim, ProgressClaimRollback, ProgressUnlock,
         ProgressRenew, ReportRead, ReportRenew, CompleteCommit, FailCommit, ReportRelease,
         ReportEffects, Inv, RunnerTypeOK, Call, ControlInv, ControlTypeOK
<1>b. /\ beat \in [Workers -> BOOLEAN] /\ [beat EXCEPT ![w] = TRUE] \in [Workers -> BOOLEAN]
      /\ claims \in [Jobs -> Nat] /\ [claims EXCEPT ![j] = @ + 1] \in [Jobs -> Nat]
  BY <1>0 DEF Inv, RunnerTypeOK
<1>1. CASE ProgressRead(c)
  <2>1. ControlInv' /\ LockMatchesOwner' /\ [Lifecycle!Next]_row
    BY <1>1, IdleStepControlInv DEF ProgressRead, Inv
  <2>2. UNCHANGED <<applied, claims>> /\ beat' \in [Workers -> BOOLEAN]
    BY <1>1, <1>b DEF ProgressRead
  <2>3. \/ \E pc \in {"claim", "renew"} : Goto(c, pc) /\ calls[c].op # "fail"
        \/ Answer(c, FALSE)
    BY <1>1 DEF ProgressRead
  <2> QED  BY <1>0, <1>b, <2>1, <2>2, <2>3, GotoStepInv, AnswerStepInv
<1>2. CASE ProgressClaim(c)
  <2> DEFINE won == CanTransition(row[j], "pending", "running") /\ LockFree(lock, j)
  <2>0. UNCHANGED <<scan, cancel, applied, beat>> /\ Answer(c, won) /\ won \in BOOLEAN
    BY <1>2 DEF ProgressClaim
  <2>1. CASE won
    <3>1. row' = [row EXCEPT ![j] = ClaimedBy(row[j], w)] /\ lock' = Acquired(lock, j, w)
          /\ claims' \in [Jobs -> Nat]
      BY <1>2, <1>b, <2>1 DEF ProgressClaim
    <3>2. Lifecycle!Claim(j, w)
      BY <2>1, <3>1, LifecycleWrites DEF CanTransition, Lifecycle!Claim, Lifecycle!Pending
    <3>3. [Lifecycle!Next]_row  BY <1>0, <3>2 DEF Lifecycle!Next
    <3>4. /\ row'[j].status = "running" /\ row'[j].locked_by = w /\ lock'[j] = w
          /\ lock' \in [Jobs -> Owners]
          /\ \A i \in Jobs : i # j => row'[i] = row[i] /\ lock'[i] = lock[i]
      BY <1>0, <2>1, <3>1, ClaimWrite, LockWrites DEF Inv, ControlInv, ControlTypeOK
    <3>5. LockMatchesOwner'  BY <1>0, <3>4, NoWorkerAssumption DEF Inv, ControlInv, LockMatchesOwner
    <3>6. ControlInv' /\ LockMatchesOwner'  BY <2>0, <3>3, <3>4, <3>5, RunnerStepControlInv DEF Inv
    <3> QED  BY <1>0, <1>b, <2>0, <3>1, <3>3, <3>6, AnswerStepInv
  <2>2. CASE ~won
    <3>1. UNCHANGED <<row, lock, claims>>  BY <1>2, <2>2 DEF ProgressClaim
    <3>2. ControlInv' /\ LockMatchesOwner' /\ [Lifecycle!Next]_row  BY <2>0, <3>1, IdleStepControlInv DEF Inv
    <3> QED  BY <1>0, <1>b, <2>0, <3>1, <3>2, AnswerStepInv
  <2> QED  BY <2>1, <2>2
<1>3. CASE ProgressClaimRollback(c)
  <2>1. /\ row[j].status = "pending" /\ lock' = Acquired(lock, j, w) /\ Goto(c, "unlock")
        /\ UNCHANGED <<row, beat, scan, cancel, claims, applied>>
    BY <1>3 DEF ProgressClaimRollback, CanTransition
  <2>2. lock' \in [Jobs -> Owners] /\ \A i \in Jobs : i # j => lock'[i] = lock[i]
    BY <1>0, <2>1, LockWrites DEF Inv, ControlInv, ControlTypeOK
  <2>3. LockMatchesOwner'
    BY <2>1, <2>2 DEF Inv, ControlInv, LockMatchesOwner
  <2>4. ControlInv' /\ LockMatchesOwner' /\ [Lifecycle!Next]_row  BY <2>1, <2>2, <2>3, RunnerStepControlInv DEF Inv
  <2> QED  BY <1>0, <1>b, <2>1, <2>4, GotoStepInv
<1>4. CASE ProgressUnlock(c) \/ ReportRelease(c)
  <2>1. lock' = Released(lock, j, w) /\ UNCHANGED <<row, beat, scan, cancel, claims, applied>>
    BY <1>4 DEF ProgressUnlock, ReportRelease
  <2>2. lock' \in [Jobs -> Owners] /\ \A i \in Jobs : lock'[i] \in {lock[i], NoWorker}
    BY <1>0, <2>1, LockWrites DEF Inv, ControlInv, ControlTypeOK
  <2>3. LockMatchesOwner'  BY <2>1, <2>2 DEF Inv, ControlInv, LockMatchesOwner
  <2>4. ControlInv' /\ LockMatchesOwner' /\ [Lifecycle!Next]_row  BY <2>1, <2>2, <2>3, RunnerStepControlInv DEF Inv
  <2>5. CASE ProgressUnlock(c)
    BY <1>0, <1>b, <2>1, <2>4, <2>5, AnswerStepInv DEF ProgressUnlock
  <2>6. CASE ReportRelease(c)
    BY <1>0, <1>b, <2>1, <2>4, <2>6, GotoStepInv DEF ReportRelease, Completing
  <2> QED  BY <1>4, <2>5, <2>6
<1>5. CASE ProgressRenew(c)
  <2>1. ControlInv' /\ LockMatchesOwner' /\ [Lifecycle!Next]_row
    BY <1>5, IdleStepControlInv DEF ProgressRenew, Inv
  <2>2. UNCHANGED <<applied, claims>> /\ beat' \in [Workers -> BOOLEAN]
    BY <1>5, <1>b DEF ProgressRenew
  <2>3. \E ok \in BOOLEAN : Answer(c, ok)  BY <1>5 DEF ProgressRenew, Renewable
  <2> QED  BY <1>0, <1>b, <2>1, <2>2, <2>3, AnswerStepInv
<1>6. CASE ReportRead(c)
  <2>1. ControlInv' /\ LockMatchesOwner' /\ [Lifecycle!Next]_row
    BY <1>6, IdleStepControlInv DEF ReportRead, Inv
  <2>2. UNCHANGED <<beat, applied, claims>>  BY <1>6 DEF ReportRead
  <2>3. CASE Answer(c, FALSE)  BY <1>0, <1>b, <2>1, <2>2, <2>3, AnswerStepInv
  <2>4. CASE ~Answer(c, FALSE)
    <3> DEFINE n == IF calls[c].op = "fail" THEN row[j].attempt_count ELSE calls[c].n
    <3>1. /\ calls' = [calls EXCEPT ![c].pc = "renew", ![c].n = n] /\ UNCHANGED worker
          /\ row[j].status = "running"
      BY <1>6, <2>4 DEF ReportRead, RunningJobOwner
    <3>2. n \in Nat /\ (calls[c].op = "fail" => n < MaxAttempts)
      BY <1>0, <3>1 DEF Inv, ControlInv, AttemptBudget, Row
    <3> HIDE DEF n
    <3>3. RunnerTypeOK'
      <4> DEFINE q == [calls[c] EXCEPT !.pc = "renew", !.n = n]
      <4>a. calls[c] \in Call  BY <1>0 DEF Inv, RunnerTypeOK
      <4>b. calls' = [calls EXCEPT ![c] = q]  BY <3>1 DEF Inv, RunnerTypeOK
      <4>c. q \in Call  BY <3>2, <4>a DEF Call
      <4> HIDE DEF q
      <4>1. calls' \in [Calls -> Call \cup {NoCall}]  BY <4>b, <4>c DEF Inv, RunnerTypeOK
      <4> QED  BY <2>2, <3>1, <4>1 DEF Inv, RunnerTypeOK, WorkerHasJob
    <3>4. /\ calls'[c].pc = "renew" /\ calls'[c].op = calls[c].op /\ calls'[c].n = n
          /\ \A d \in Calls : d # c => calls'[d] = calls[d]
      BY <1>0, <3>1 DEF Inv, RunnerTypeOK, Call
    <3>5. CallsInBudget'  BY <3>2, <3>4 DEF Inv, CallsInBudget
    <3>6. \A d \in Calls : Completing(d)' => Completing(d) /\ calls'[d].j = calls[d].j
      BY <3>4 DEF Completing
    <3>7. CompletionsUnique' /\ EffectsAtMostOnce'  BY <2>1, <2>2, <3>6, QuietStep
    <3> QED  BY <2>1, <3>3, <3>5, <3>7 DEF Inv
  <2> QED  BY <2>3, <2>4
<1>7. CASE ReportRenew(c)
  <2>1. ControlInv' /\ LockMatchesOwner' /\ [Lifecycle!Next]_row
    BY <1>7, IdleStepControlInv DEF ReportRenew, Inv
  <2>2. UNCHANGED <<beat, applied, claims>> /\ calls[c].pc = "renew"
        /\ (Goto(c, "commit") \/ Answer(c, FALSE))
    BY <1>7 DEF ReportRenew
  <2>3. calls[c].op = "fail" => calls[c].n < MaxAttempts
    BY <1>0, <2>2 DEF Inv, CallsInBudget
  <2> QED  BY <1>0, <1>b, <2>1, <2>2, <2>3, GotoStepInv, AnswerStepInv
<1>8. CASE CompleteCommit(c)
  <2>0. UNCHANGED <<lock, beat, scan, cancel, claims, applied>> /\ calls[c].op = "complete"
    BY <1>8 DEF CompleteCommit
  <2>1. CASE row[j].status # "running"
    <3>1. UNCHANGED row /\ Answer(c, FALSE)  BY <1>8, <2>1 DEF CompleteCommit, CanTransition
    <3>2. ControlInv' /\ LockMatchesOwner' /\ [Lifecycle!Next]_row  BY <2>0, <3>1, IdleStepControlInv DEF Inv
    <3> QED  BY <1>0, <1>b, <2>0, <3>1, <3>2, AnswerStepInv
  <2>2. CASE row[j].status = "running"
    <3>1. row' = [row EXCEPT ![j] = Succeeded(row[j])] /\ Committed(c)
      BY <1>8, <2>2 DEF CompleteCommit, CanTransition, TRANSITIONS
    <3>2. Lifecycle!Succeed(j)
      BY <2>2, <3>1, LifecycleWrites DEF Lifecycle!Succeed, Lifecycle!Running
    <3>3. [Lifecycle!Next]_row  BY <1>0, <3>2 DEF Lifecycle!Next
    <3>4. /\ row'[j].status = "succeeded"
          /\ \A i \in Jobs : i # j => row'[i] = row[i]
      BY <1>0, <3>1, SucceedWrite DEF Inv, ControlInv, ControlTypeOK
    <3>5. LockMatchesOwner'  BY <1>0, <2>0, <3>4 DEF Inv, ControlInv, LockMatchesOwner
    <3>6. ControlInv' /\ LockMatchesOwner'
      BY <2>0, <3>3, <3>5, RunnerStepControlInv DEF Inv, ControlInv, ControlTypeOK
    <3>7. /\ calls' \in [Calls -> Call \cup {NoCall}]
          /\ worker' \in [Workers -> WorkerState]
          /\ WorkerHasJob'
          /\ calls'[c].pc = "release" /\ calls'[c].op = "complete" /\ calls'[c].j = j
          /\ \A d \in Calls : d # c => calls'[d] = calls[d]
      BY <1>0, <2>0, <3>1, CommittedType DEF Inv
    <3>8. RunnerTypeOK'  BY <2>0, <3>7 DEF Inv, RunnerTypeOK
    <3>9. CallsInBudget'  BY <3>7 DEF Inv, CallsInBudget
    <3>10. applied[j] = 0
      BY <1>0, <2>2 DEF Inv, RunnerTypeOK, EffectsAtMostOnce
    <3>11. \A d \in Calls : d # c /\ Completing(d)' =>
             Completing(d) /\ calls'[d].j = calls[d].j /\ calls[d].j # j /\ calls[d].j \in Jobs
      BY <2>2, <3>7 DEF Inv, CompletionsUnique, Completing, RunnerTypeOK, Call
    <3>12. CompletionsUnique'
      <4>1. ASSUME NEW d \in Calls, Completing(d)'
            PROVE  row'[calls'[d].j].status = "succeeded" /\ applied'[calls'[d].j] = 0
        BY <2>0, <3>4, <3>7, <3>10, <3>11, <4>1 DEF Inv, CompletionsUnique
      <4>2. ASSUME NEW d \in Calls, NEW e \in Calls, Completing(d)', Completing(e)',
                   calls'[d].j = calls'[e].j
            PROVE  d = e
        BY <3>7, <3>11, <4>2 DEF Inv, CompletionsUnique
      <4> QED  BY <4>1, <4>2 DEF CompletionsUnique
    <3>13. EffectsAtMostOnce'  BY <2>0, <3>4 DEF Inv, EffectsAtMostOnce
    <3> QED  BY <3>3, <3>6, <3>8, <3>9, <3>12, <3>13 DEF Inv
  <2> QED  BY <2>1, <2>2
<1>9. CASE FailCommit(c)
  <2>0. /\ UNCHANGED <<lock, beat, scan, cancel, claims, applied>>
        /\ calls[c].op = "fail" /\ calls[c].pc = "commit"
    BY <1>9 DEF FailCommit
  <2>1. CASE row[j].status # "running"
    <3>1. UNCHANGED row /\ Answer(c, FALSE)  BY <1>9, <2>1 DEF FailCommit, CanTransition
    <3>2. ControlInv' /\ LockMatchesOwner' /\ [Lifecycle!Next]_row  BY <2>0, <3>1, IdleStepControlInv DEF Inv
    <3> QED  BY <1>0, <1>b, <2>0, <3>1, <3>2, AnswerStepInv
  <2>2. CASE row[j].status = "running"
    <3>1. /\ row' = [row EXCEPT ![j] = FailedAttempt(row[j], calls[c].n, calls[c].retry)]
          /\ Committed(c)
      BY <1>9, <2>2 DEF FailCommit, CanTransition, TRANSITIONS
    <3>2. calls[c].n < MaxAttempts  BY <1>0, <2>0 DEF Inv, CallsInBudget
    <3>3. [Lifecycle!Next]_row  BY <1>0, <2>2, <3>1, <3>2, FailedAttemptAllowed
    <3>4. /\ row'[j].status # "running"
          /\ \A i \in Jobs : i # j => row'[i] = row[i]
      <4> calls[c].n + 1 \in Nat  BY <1>0
      <4>1. FailedAttempt(row[j], calls[c].n, calls[c].retry).status # "running"
        BY <1>0, RequeueWrite, GiveUpWrite DEF FailedAttempt, NextAttempt
      <4> QED  BY <1>0, <3>1, <4>1 DEF Inv, ControlInv, ControlTypeOK
    <3>5. LockMatchesOwner'  BY <1>0, <2>0, <3>4 DEF Inv, ControlInv, LockMatchesOwner
    <3>6. ControlInv' /\ LockMatchesOwner'
      BY <2>0, <3>3, <3>5, RunnerStepControlInv DEF Inv, ControlInv, ControlTypeOK
    <3>7. /\ calls' \in [Calls -> Call \cup {NoCall}]
          /\ worker' \in [Workers -> WorkerState]
          /\ WorkerHasJob'
          /\ calls'[c].pc = "release" /\ calls'[c].op = "fail"
          /\ \A d \in Calls : d # c => calls'[d] = calls[d]
      BY <1>0, <2>0, <3>1, CommittedType DEF Inv
    <3>8. RunnerTypeOK'  BY <2>0, <3>7 DEF Inv, RunnerTypeOK
    <3>9. CallsInBudget'  BY <3>7 DEF Inv, CallsInBudget
    <3>10. \A d \in Calls : Completing(d)' => Completing(d) /\ calls'[d].j = calls[d].j
      BY <3>7 DEF Completing
    <3>11. CompletionsUnique' /\ EffectsAtMostOnce'  BY <2>0, <3>3, <3>10, QuietStep
    <3> QED  BY <3>3, <3>6, <3>8, <3>9, <3>11 DEF Inv
  <2> QED  BY <2>1, <2>2
<1>10. CASE ReportEffects(c)
  <2>0. /\ UNCHANGED <<row, lock, beat, scan, cancel, claims>> /\ Answer(c, TRUE)
        /\ calls[c].pc = "effects"
    BY <1>10 DEF ReportEffects
  <2>1. ControlInv' /\ LockMatchesOwner' /\ [Lifecycle!Next]_row  BY <2>0, IdleStepControlInv DEF Inv
  <2>2. CASE calls[c].op # "complete"
    <3>1. UNCHANGED applied  BY <1>10, <2>2 DEF ReportEffects
    <3> QED  BY <1>0, <1>b, <2>0, <2>1, <3>1, AnswerStepInv
  <2>3. CASE calls[c].op = "complete"
    <3>1. applied' = [applied EXCEPT ![j] = @ + 1]  BY <1>10, <2>3 DEF ReportEffects
    <3>2. row[j].status = "succeeded" /\ applied[j] = 0 /\ Completing(c)
      BY <1>0, <2>0, <2>3 DEF Inv, CompletionsUnique, Completing
    <3>3. /\ applied' \in [Jobs -> Nat] /\ applied'[j] = 1
          /\ \A i \in Jobs : i # j => applied'[i] = applied[i]
      BY <1>0, <3>1, <3>2 DEF Inv, RunnerTypeOK
    <3>4. /\ worker' \in [Workers -> WorkerState]
          /\ WorkerHasJob'
          /\ calls' = [calls EXCEPT ![c] = NoCall]
      BY <1>0, <2>0, AnswerType DEF Inv
    <3>5. RunnerTypeOK'  BY <2>0, <3>3, <3>4 DEF Inv, RunnerTypeOK
    <3>6. calls'[c] = NoCall /\ \A d \in Calls : d # c => calls'[d] = calls[d]
      BY <3>4 DEF Inv, RunnerTypeOK
    <3>7. CallsInBudget'  BY <3>6 DEF Inv, CallsInBudget
    <3>8. \A d \in Calls : Completing(d)' =>
             d # c /\ Completing(d) /\ calls'[d].j = calls[d].j /\ calls[d].j \in Jobs \ {j}
      BY <3>2, <3>6 DEF Inv, CompletionsUnique, Completing, RunnerTypeOK, Call
    <3>9. CompletionsUnique'
      <4>1. ASSUME NEW d \in Calls, Completing(d)'
            PROVE  row'[calls'[d].j].status = "succeeded" /\ applied'[calls'[d].j] = 0
        BY <2>0, <3>3, <3>8, <4>1 DEF Inv, CompletionsUnique
      <4>2. ASSUME NEW d \in Calls, NEW e \in Calls, Completing(d)', Completing(e)',
                   calls'[d].j = calls'[e].j
            PROVE  d = e
        BY <3>8, <4>2 DEF Inv, CompletionsUnique
      <4> QED  BY <4>1, <4>2 DEF CompletionsUnique
    <3>10. EffectsAtMostOnce'  BY <2>0, <3>2, <3>3 DEF Inv, EffectsAtMostOnce
    <3> QED  BY <2>1, <3>5, <3>7, <3>9, <3>10 DEF Inv
  <2> QED  BY <2>2, <2>3
<1> QED  BY <1>1, <1>2, <1>3, <1>4, <1>5, <1>6, <1>7, <1>8, <1>9, <1>10 DEF HandlerStep

(* The invariant is preserved, by steps that JobLifecycle allows. *)
LEMMA NextInv ==
    ASSUME Inv, [Next]_vars
    PROVE  Inv' /\ [Lifecycle!Next]_row
<1>1. CASE \E w \in Workers : WorkerStep(w)  BY <1>1, WorkerStepInv
<1>2. CASE \E c \in Calls : HandlerStep(c)  BY <1>2, HandlerStepInv
<1>3. CASE \E c \in Calls : LoseCall(c)
  <2> PICK c \in Calls : LoseCall(c)  BY <1>3
  <2>1. /\ calls[c] # NoCall /\ Answer(c, FALSE)
        /\ UNCHANGED <<row, lock, beat, scan, cancel, claims, applied>>
    BY DEF LoseCall
  <2>2. ControlInv' /\ LockMatchesOwner' /\ [Lifecycle!Next]_row  BY <2>1, IdleStepControlInv DEF Inv
  <2> QED  BY <2>1, <2>2, AnswerStepInv DEF Inv, RunnerTypeOK
<1>4. ASSUME ControlInv' /\ LockMatchesOwner' /\ [Lifecycle!Next]_row /\ UNCHANGED workerVars
      PROVE  Inv'
  <2>1. UNCHANGED applied /\ RunnerTypeOK'
    BY <1>4 DEF Inv, RunnerTypeOK, WorkerHasJob, workerVars
  <2>2. CallsInBudget' /\ \A c \in Calls : Completing(c)' => Completing(c) /\ calls'[c].j = calls[c].j
    BY <1>4 DEF Inv, CallsInBudget, Completing, At, workerVars
  <2>3. CompletionsUnique' /\ EffectsAtMostOnce'  BY <1>4, <2>1, <2>2, QuietStep
  <2> QED  BY <1>4, <2>1, <2>2, <2>3 DEF Inv
<1>5. CASE \E s \in Scanners : ScanStep(s) \/ (ScanAbort(s) /\ UNCHANGED workerVars)
  <2> PICK s \in Scanners : ScanStep(s) \/ (ScanAbort(s) /\ UNCHANGED workerVars)  BY <1>5
  <2>1. Alive \in SUBSET Workers  BY DEF Alive
  <2>2. /\ \/ ScanRead(s)
           \/ \E alive \in SUBSET Workers : ScanWorker(s, alive)
           \/ ScanFail(s)
           \/ ScanRelease(s)
           \/ ScanAbort(s)
        /\ UNCHANGED workerVars
    BY <2>1 DEF ScanStep, ReadRunning, CheckWorker, FailDeadWorkerJob, ReleaseDeadLock
  <2> QED  BY <1>4, <2>2, ScanStepControlInv DEF Inv
<1>6. CASE \E u \in Users : CancelStep(u) /\ UNCHANGED workerVars
  BY <1>4, <1>6, CancelStepControlInv DEF Inv
<1>7. CASE \E j \in Jobs : LockExpires(j)
  <2> PICK j \in Jobs : LockExpires(j)  BY <1>7
  <2>1. lock' = [lock EXCEPT ![j] = NoWorker]
        /\ UNCHANGED <<row, beat, worker, calls, scan, cancel, claims, applied>>
    BY DEF LockExpires
  <2>2. lock' \in [Jobs -> Owners] /\ LockMatchesOwner'
    BY <2>1 DEF Inv, ControlInv, ControlTypeOK, LockMatchesOwner, Owners
  <2>3. ControlInv' /\ LockMatchesOwner' /\ [Lifecycle!Next]_row  BY <2>1, <2>2, RunnerStepControlInv DEF Inv
  <2> QED  BY <1>4, <2>1, <2>3 DEF workerVars
<1>8. CASE UNCHANGED vars
  BY <1>4, <1>8, IdleStepControlInv DEF vars, workerVars, Inv
<1> QED  BY <1>1, <1>2, <1>3, <1>5, <1>6, <1>7, <1>8 DEF Next

(* The inductive invariant holds in every reachable state. *)
LEMMA Invariance == Spec => []Inv
<1>1. Init => Inv
  <2> SUFFICES ASSUME Init PROVE Inv  OBVIOUS
  <2>1. ControlInv /\ LockMatchesOwner  BY InitControlInv DEF Init
  <2>2. RunnerTypeOK  BY InitRunnerTypeOK
  <2>3. CallsInBudget /\ CompletionsUnique /\ EffectsAtMostOnce
    BY DEF Init, CallsInBudget, CompletionsUnique, Completing, At, EffectsAtMostOnce
  <2> QED  BY <2>1, <2>2, <2>3 DEF Inv
<1>2. Inv /\ [Next]_vars => Inv'  BY NextInv
<1> QED  BY <1>1, <1>2, PTL DEF Spec

-----------------------------------------------------------------------------
(* The theorems *)

(* Every reachable state is well typed. *)
THEOREM TypeCorrect == Spec => []TypeOK
<1>1. Inv => TypeOK  BY DEF Inv, ControlInv, RunnerTypeOK, TypeOK
<1> QED  BY <1>1, Invariance, PTL

(* The lock of a running job is held by the worker in locked_by or by      *)
(* nobody, for any number of workers, handlers, scans and expiries.        *)
THEOREM LocksAgree == Spec => []LockMatchesOwner
<1>1. Inv => LockMatchesOwner  BY DEF Inv
<1> QED  BY <1>1, Invariance, PTL

(* reportFailure and the scan, although they write the number of an old    *)
(* read, keep attempt_count within max_attempts.                           *)
THEOREM BudgetKept == Spec => []AttemptBudget
<1>1. Inv => AttemptBudget  BY DEF Inv, ControlInv
<1> QED  BY <1>1, Invariance, PTL

(* However often and by however many workers a completion is reported, its *)
(* effects are run at most once.                                           *)
THEOREM EffectsOnce == Spec => []EffectsAtMostOnce
<1>1. Inv => EffectsAtMostOnce  BY DEF Inv
<1> QED  BY <1>1, Invariance, PTL

(* What cancelJob answered stays true. *)
THEOREM CancelAnswersHold == Spec => []CancelAnswerHolds
<1>1. Inv => CancelAnswerHolds  BY DEF Inv, ControlInv
<1> QED  BY <1>1, Invariance, PTL

(* The protocol implements the abstract life cycle of a job. *)
THEOREM Refinement == Spec => ImplementsLifecycle
<1>1. Init => Lifecycle!Init
  BY DEF Init, ControlInit, Lifecycle!Init, NewRow, Lifecycle!NewRow
<1>2. Inv /\ [Next]_vars => [Lifecycle!Next]_row  BY NextInv
<1> QED  BY <1>1, <1>2, Invariance, PTL DEF Spec, ImplementsLifecycle, Lifecycle!Spec

(* A finished job is never changed again. *)
THEOREM TerminalStays == Spec => TerminalIsFinal
<1>1. Inv /\ [Next]_vars =>
        [\A j \in Jobs : row[j].status \in Terminal =>
            row'[j].status = row[j].status /\ row'[j].attempt_count = row[j].attempt_count]_controlVars
  <2> SUFFICES ASSUME Inv, [Next]_vars
               PROVE  \A j \in Jobs : row[j].status \in Terminal => row'[j] = row[j]
    OBVIOUS
  <2>1. [Lifecycle!Next]_row  BY NextInv
  <2> QED  BY <2>1, LifecycleStep DEF Inv, ControlInv, ControlTypeOK, RowsOK
<1> QED  BY <1>1, Invariance, PTL DEF Spec, TerminalIsFinal
=============================================================================
