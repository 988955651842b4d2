-------------------------- MODULE JobControlProofs --------------------------
(***************************************************************************)
(* Facts about JobCore, JobLifecycle and JobControl that the theorems about*)
(* the modules that run jobs rest on.                                      *)
(***************************************************************************)
EXTENDS JobControl, TLAPS

USE NoWorkerAssumption, MaxAttemptsAssumption, NoJobAssumption, MaxCancelRetriesAssumption

-----------------------------------------------------------------------------
(* Rows and locks *)

(* What the writes of a row return, column by column. *)
LEMMA ClaimWrite ==
    ASSUME NEW r \in Row, NEW w \in Workers
    PROVE  /\ ClaimedBy(r, w) \in Row
           /\ ClaimedBy(r, w).status = "running"
           /\ ClaimedBy(r, w).locked_by = w
           /\ ClaimedBy(r, w).attempt_count = r.attempt_count
           /\ ClaimedBy(r, w).cancel_requested = r.cancel_requested
BY DEF ClaimedBy, Row, Status, Owners

LEMMA SucceedWrite ==
    ASSUME NEW r \in Row
    PROVE  /\ Succeeded(r) \in Row
           /\ Succeeded(r).status = "succeeded"
           /\ Succeeded(r).attempt_count = r.attempt_count
           /\ Succeeded(r).cancel_requested = r.cancel_requested
BY DEF Succeeded, Row, Status, Owners

LEMMA GiveUpWrite ==
    ASSUME NEW r \in Row, NEW n \in Nat
    PROVE  /\ GivenUp(r, n) \in Row
           /\ GivenUp(r, n).status = "failed"
           /\ GivenUp(r, n).attempt_count = n
           /\ GivenUp(r, n).cancel_requested = r.cancel_requested
BY DEF GivenUp, Row, Status, Owners

LEMMA RequeueWrite ==
    ASSUME NEW r \in Row, NEW n \in Nat
    PROVE  /\ Requeued(r, n) \in Row
           /\ Requeued(r, n).status = "pending"
           /\ Requeued(r, n).attempt_count = n
           /\ Requeued(r, n).cancel_requested = r.cancel_requested
BY DEF Requeued, Row, Status, Owners

LEMMA CancelWrite ==
    ASSUME NEW r \in Row
    PROVE  /\ Cancelled(r) \in Row
           /\ Cancelled(r).status = "cancelled"
           /\ Cancelled(r).attempt_count = r.attempt_count
           /\ Cancelled(r).cancel_requested = r.cancel_requested
BY DEF Cancelled, Row, Status, Owners

LEMMA CancelRequestWrite ==
    ASSUME NEW r \in Row
    PROVE  /\ CancelRequested(r) \in Row
           /\ CancelRequested(r).status = r.status
           /\ CancelRequested(r).locked_by = r.locked_by
           /\ CancelRequested(r).attempt_count = r.attempt_count
           /\ CancelRequested(r).cancel_requested = TRUE
BY DEF CancelRequested, Row, Status, Owners

(* A lock operation keeps the type of the locks and touches one of them.   *)
(* An owner-checked release frees the owner's lock and no other.           *)
LEMMA LockWrites ==
    ASSUME NEW l \in [Jobs -> Owners], NEW j \in Jobs, NEW w \in Workers
    PROVE  /\ Acquired(l, j, w) \in [Jobs -> Owners]
           /\ LockFree(l, j) => Acquired(l, j, w)[j] = w
           /\ Released(l, j, w) \in [Jobs -> Owners]
           /\ \A i \in Jobs : i # j => /\ Acquired(l, j, w)[i] = l[i]
                                       /\ Released(l, j, w)[i] = l[i]
           /\ \A i \in Jobs : Released(l, j, w)[i] \in {l[i], NoWorker}
           /\ l[j] # w => Released(l, j, w)[j] = l[j]
BY DEF LockFree, Acquired, Released, Owners

-----------------------------------------------------------------------------
(* Consequences of JobLifecycle *)

RowsOK == row \in [Jobs -> Row]

(* JobLifecycle is instantiated with this module's constants, so that its  *)
(* operators on rows are the ones of JobCore.                              *)
LEMMA LifecycleWrites ==
    /\ \A r, w : Lifecycle!ClaimedBy(r, w) = ClaimedBy(r, w)
    /\ \A r : Lifecycle!Succeeded(r) = Succeeded(r)
    /\ \A r, n : Lifecycle!GivenUp(r, n) = GivenUp(r, n)
    /\ \A r, n : Lifecycle!Requeued(r, n) = Requeued(r, n)
    /\ \A r : Lifecycle!Cancelled(r) = Cancelled(r)
    /\ \A r : Lifecycle!CancelRequested(r) = CancelRequested(r)
BY DEF Lifecycle!ClaimedBy, ClaimedBy, Lifecycle!Succeeded, Succeeded, Lifecycle!GivenUp, GivenUp,
       Lifecycle!Requeued, Requeued, Lifecycle!Cancelled, Cancelled,
       Lifecycle!CancelRequested, CancelRequested

(* A step that JobLifecycle allows changes at most one job, and that one   *)
(* was not finished; it keeps the attempt budget.                          *)
LEMMA LifecycleStep ==
    ASSUME RowsOK, AttemptBudget, [Lifecycle!Next]_row
    PROVE  /\ RowsOK'
           /\ AttemptBudget'
           /\ \A j \in Jobs : row[j].status \in Terminal => row'[j] = row[j]
           /\ \A j \in Jobs : row[j].cancel_requested => row'[j].cancel_requested
<1> USE DEF RowsOK, AttemptBudget, Terminal
<1>1. CASE UNCHANGED row
  BY <1>1
<1>2. CASE Lifecycle!Next
  <2> PICK j \in Jobs :
        \/ \E w \in Workers : Lifecycle!Claim(j, w)
        \/ Lifecycle!Succeed(j)
        \/ \E n \in 1 .. MaxAttempts : Lifecycle!Retry(j, n) \/ Lifecycle!GiveUp(j, n)
        \/ Lifecycle!Cancel(j)
        \/ Lifecycle!RequestCancel(j)
    BY <1>2 DEF Lifecycle!Next
  <2>1. \E r \in Row :
          /\ row' = [row EXCEPT ![j] = r]
          /\ row[j].status \notin Terminal
          /\ row[j].cancel_requested => r.cancel_requested
          /\ r.attempt_count <= MaxAttempts
          /\ r.status \in {"pending", "running"} => r.attempt_count < MaxAttempts
    <3> DEFINE Goal(r) ==
          /\ r \in Row
          /\ row' = [row EXCEPT ![j] = r]
          /\ row[j].status \notin Terminal
          /\ row[j].cancel_requested => r.cancel_requested
          /\ r.attempt_count <= MaxAttempts
          /\ r.status \in {"pending", "running"} => r.attempt_count < MaxAttempts
    <3>0. row[j] \in Row /\ row[j].attempt_count \in Nat  BY DEF Row
    <3>1. CASE \E w \in Workers : Lifecycle!Claim(j, w)
      <4> PICK w \in Workers : Lifecycle!Claim(j, w)  BY <3>1
      <4>1. Goal(ClaimedBy(row[j], w))
        BY <3>0, ClaimWrite, LifecycleWrites DEF Lifecycle!Claim, Lifecycle!Pending
      <4> QED  BY <4>1
    <3>2. CASE Lifecycle!Succeed(j)
      <4>1. Goal(Succeeded(row[j]))
        BY <3>0, <3>2, SucceedWrite, LifecycleWrites DEF Lifecycle!Succeed, Lifecycle!Running
      <4> QED  BY <4>1
    <3>3. CASE \E n \in 1 .. MaxAttempts : Lifecycle!Retry(j, n)
      <4> PICK n \in 1 .. MaxAttempts : Lifecycle!Retry(j, n)  BY <3>3
      <4>0. n \in Nat /\ n <= MaxAttempts  OBVIOUS
      <4>1. Goal(Requeued(row[j], n))
        BY <3>0, <4>0, RequeueWrite, LifecycleWrites DEF Lifecycle!Retry, Lifecycle!Running
      <4> QED  BY <4>1
    <3>4. CASE \E n \in 1 .. MaxAttempts : Lifecycle!GiveUp(j, n)
      <4> PICK n \in 1 .. MaxAttempts : Lifecycle!GiveUp(j, n)  BY <3>4
      <4>0. n \in Nat /\ n <= MaxAttempts  OBVIOUS
      <4>1. Goal(GivenUp(row[j], n))
        BY <3>0, <4>0, GiveUpWrite, LifecycleWrites DEF Lifecycle!GiveUp, Lifecycle!Running
      <4> QED  BY <4>1
    <3>5. CASE Lifecycle!Cancel(j)
      <4>1. Goal(Cancelled(row[j]))
        BY <3>0, <3>5, CancelWrite, LifecycleWrites DEF Lifecycle!Cancel, Lifecycle!Pending
      <4> QED  BY <4>1
    <3>6. CASE Lifecycle!RequestCancel(j)
      <4>1. Goal(CancelRequested(row[j]))
        BY <3>0, <3>6, CancelRequestWrite, LifecycleWrites DEF Lifecycle!RequestCancel, Lifecycle!Running
      <4> QED  BY <4>1
    <3> QED  BY <3>1, <3>2, <3>3, <3>4, <3>5, <3>6
  <2> QED  BY <2>1
<1> QED  BY <1>1, <1>2

(* The end of an attempt whose number was read while the budget held is    *)
(* one of the two ends JobLifecycle allows.                                *)
LEMMA FailedAttemptAllowed ==
    ASSUME NEW j \in Jobs, NEW n \in Nat, n < MaxAttempts, NEW retry,
           row[j].status = "running",
           row' = [row EXCEPT ![j] = FailedAttempt(row[j], n, retry)]
    PROVE  Lifecycle!Next
<1>0. n + 1 \in 1 .. MaxAttempts /\ n + 1 <= MaxAttempts  OBVIOUS
<1>1. CASE WillRetry(n, retry)
  <2>1. Lifecycle!Retry(j, n + 1)
    BY <1>0, <1>1, LifecycleWrites
    DEF FailedAttempt, WillRetry, NextAttempt, Lifecycle!Retry, Lifecycle!Running
  <2> QED  BY <1>0, <2>1 DEF Lifecycle!Next
<1>2. CASE ~WillRetry(n, retry)
  <2>1. Lifecycle!GiveUp(j, n + 1)
    BY <1>0, <1>2, LifecycleWrites
    DEF FailedAttempt, NextAttempt, Lifecycle!GiveUp, Lifecycle!Running
  <2> QED  BY <1>0, <2>1 DEF Lifecycle!Next
<1> QED  BY <1>1, <1>2

-----------------------------------------------------------------------------
(* The scan and the cancellation *)

(* Every attempt number a scan still has to use was within the budget.  It *)
(* is what makes AttemptBudget inductive: a scan writes from its snapshot. *)
SnapshotsInBudget ==
    \A s \in Scanners : \A e \in scan[s].todo \cup scan[s].dead : e.n < MaxAttempts

(* A cancellation request that has read the row knows its job, and has an  *)
(* answer only when it is done.                                            *)
CancelPhases ==
    \A u \in Users : /\ cancel[u].pc # "read" => cancel[u].job \in Jobs
                     /\ cancel[u].answer # "none" => cancel[u].pc = "done"

ControlInv ==
    /\ ControlTypeOK
    /\ SnapshotsInBudget
    /\ CancelPhases
    /\ AttemptBudget
    /\ CancelAnswerHolds

(* The invariant holds initially. *)
LEMMA InitControlInv == ControlInit => ControlInv /\ LockMatchesOwner
BY DEF ControlInit, ControlInv, ControlTypeOK, SnapshotsInBudget, CancelPhases, AttemptBudget,
       LockMatchesOwner, CancelAnswerHolds, NewRow, Row, Status, Owners, ScanState, IdleScan,
       CancelState, NewCancel, Answers

(* What is left to show for a step that touches neither scans nor          *)
(* cancellations: that it is a step of JobLifecycle.                       *)
LEMMA RunnerStepControlInv ==
    ASSUME ControlInv, [Lifecycle!Next]_row, UNCHANGED <<scan, cancel>>,
           lock' \in [Jobs -> Owners]
    PROVE  ControlInv'
<1>1. /\ RowsOK' /\ AttemptBudget'
      /\ \A j \in Jobs : row[j].status \in Terminal => row'[j] = row[j]
      /\ \A j \in Jobs : row[j].cancel_requested => row'[j].cancel_requested
  BY LifecycleStep DEF ControlInv, ControlTypeOK, RowsOK
<1>2. ControlTypeOK' /\ SnapshotsInBudget' /\ CancelPhases'
  BY <1>1 DEF ControlInv, ControlTypeOK, SnapshotsInBudget, CancelPhases, RowsOK
<1>3. CancelAnswerHolds'
  BY <1>1 DEF ControlInv, CancelPhases, CancelAnswerHolds, Terminal
<1> QED  BY <1>1, <1>2, <1>3 DEF ControlInv

(* A step that changes no row and no lock keeps the invariant. *)
LEMMA IdleStepControlInv ==
    ASSUME ControlInv, UNCHANGED <<row, lock, scan, cancel>>
    PROVE  ControlInv' /\ [Lifecycle!Next]_row /\ (LockMatchesOwner => LockMatchesOwner')
BY DEF ControlInv, ControlTypeOK, SnapshotsInBudget, CancelPhases, AttemptBudget,
       LockMatchesOwner, CancelAnswerHolds

(* What a scan still knows after a step it already knew before. *)
LEMMA ScanWrite ==
    ASSUME scan \in [Scanners -> ScanState], SnapshotsInBudget, NEW s \in Scanners,
           NEW q \in ScanState, scan' = [scan EXCEPT ![s] = q],
           q.todo \cup q.dead \subseteq scan[s].todo \cup scan[s].dead
    PROVE  scan' \in [Scanners -> ScanState] /\ SnapshotsInBudget'
<1>1. scan'[s] = q /\ \A z \in Scanners : z # s => scan'[z] = scan[z]  OBVIOUS
<1> QED  BY <1>1 DEF SnapshotsInBudget

(* What an answer writes. *)
LEMMA AnswerWrite ==
    ASSUME cancel \in [Users -> CancelState], NEW u \in Users, NEW a \in Answers, Answered(u, a)
    PROVE  /\ cancel' \in [Users -> CancelState]
           /\ cancel'[u].job = cancel[u].job /\ cancel'[u].pc = "done" /\ cancel'[u].answer = a
           /\ \A v \in Users : v # u => cancel'[v] = cancel[v]
<1> DEFINE q == [cancel[u] EXCEPT !.pc = "done", !.answer = a]
<1>1. cancel[u] \in CancelState  OBVIOUS
<1>2. q \in CancelState /\ q.job = cancel[u].job /\ q.pc = "done" /\ q.answer = a
  BY <1>1 DEF CancelState
<1>3. cancel' = [cancel EXCEPT ![u] = q]  BY DEF Answered
<1> HIDE DEF q
<1> QED  BY <1>2, <1>3

(* A step of a scan keeps the invariant and is a step of JobLifecycle. *)
LEMMA ScanStepControlInv ==
    ASSUME ControlInv, NEW s \in Scanners,
           \/ ScanRead(s)
           \/ \E alive \in SUBSET Workers : ScanWorker(s, alive)
           \/ ScanFail(s)
           \/ ScanRelease(s)
           \/ ScanAbort(s)
    PROVE  ControlInv' /\ [Lifecycle!Next]_row /\ (LockMatchesOwner => LockMatchesOwner')
<1> USE DEF ControlInv, ControlTypeOK
<1>1. CASE ScanRead(s)
  <2> DEFINE owned == {j \in Jobs : row[j].status = "running" /\ row[j].locked_by # NoWorker}
             found == {[j |-> j, w |-> row[j].locked_by, n |-> row[j].attempt_count] : j \in owned}
  <2>1. scan' = [scan EXCEPT ![s].todo = found]  BY <1>1 DEF ScanRead
  <2>2. found \subseteq Snapshot /\ \A e \in found : e.n < MaxAttempts
    BY DEF Snapshot, Row, Owners, AttemptBudget
  <2> HIDE DEF found
  <2>3. scan' \in [Scanners -> ScanState] /\ SnapshotsInBudget'
    BY <2>1, <2>2 DEF ScanState, SnapshotsInBudget
  <2> QED
    BY <1>1, <2>3 DEF ScanRead, CancelPhases, AttemptBudget, LockMatchesOwner, CancelAnswerHolds
<1>2. CASE \E alive \in SUBSET Workers : ScanWorker(s, alive)
  <2> PICK alive \in SUBSET Workers : ScanWorker(s, alive)  BY <1>2
  <2> PICK e \in scan[s].todo :
        LET its == {f \in scan[s].todo : f.w = e.w}
        IN  scan' = [scan EXCEPT ![s].todo = @ \ its,
                                 ![s].dead = IF e.w \in alive THEN {} ELSE its]
    BY DEF ScanWorker
  <2> DEFINE its == {f \in scan[s].todo : f.w = e.w}
             q == [scan[s] EXCEPT !.todo = @ \ its, !.dead = IF e.w \in alive THEN {} ELSE its]
  <2>a. /\ q \in ScanState /\ q.todo \subseteq scan[s].todo /\ q.dead \subseteq scan[s].todo
    BY DEF ScanState
  <2>b. scan' = [scan EXCEPT ![s] = q]  OBVIOUS
  <2> HIDE DEF q
  <2>1. scan' \in [Scanners -> ScanState] /\ SnapshotsInBudget'
    BY <2>a, <2>b, ScanWrite
  <2> QED
    BY <2>1 DEF ScanWorker, CancelPhases, AttemptBudget, LockMatchesOwner, CancelAnswerHolds
<1>3. CASE ScanFail(s)
  <2> PICK e \in scan[s].dead :
        LET won == CanTransition(row[e.j], "running", "failed")
        IN  /\ row' = IF won THEN [row EXCEPT ![e.j] = FailedAttempt(row[e.j], e.n, TRUE)] ELSE row
            /\ scan' = [scan EXCEPT ![s].dead = @ \ {e}, ![s].release = IF won THEN {e} ELSE {}]
    BY <1>3 DEF ScanFail
  <2>0. e \in Snapshot /\ e.j \in Jobs /\ e.n \in Nat /\ e.n < MaxAttempts
    BY DEF ScanState, Snapshot, SnapshotsInBudget
  <2>1. [Lifecycle!Next]_row
    BY <2>0, FailedAttemptAllowed DEF CanTransition
  <2>2. scan' \in [Scanners -> ScanState] /\ SnapshotsInBudget'
    <3> DEFINE won == CanTransition(row[e.j], "running", "failed")
               q == [scan[s] EXCEPT !.dead = @ \ {e}, !.release = IF won THEN {e} ELSE {}]
    <3>1. q \in ScanState /\ q.todo \subseteq scan[s].todo /\ q.dead \subseteq scan[s].dead
      BY <2>0 DEF ScanState
    <3>2. scan' = [scan EXCEPT ![s] = q]  OBVIOUS
    <3> HIDE DEF q
    <3> QED  BY <3>1, <3>2, ScanWrite
  <2>3. /\ RowsOK' /\ AttemptBudget'
        /\ \A j \in Jobs : row[j].status \in Terminal => row'[j] = row[j]
        /\ \A j \in Jobs : row[j].cancel_requested => row'[j].cancel_requested
    BY <2>1, LifecycleStep DEF RowsOK
  <2>4. LockMatchesOwner => LockMatchesOwner'
    <3> SUFFICES ASSUME LockMatchesOwner, NEW j \in Jobs, row'[j].status = "running"
                 PROVE  row'[j] = row[j] /\ lock'[j] = lock[j]
      BY DEF LockMatchesOwner
    <3>1. FailedAttempt(row[e.j], e.n, TRUE).status # "running"
      <4> row[e.j] \in Row /\ e.n + 1 \in Nat  BY <2>0
      <4> QED  BY RequeueWrite, GiveUpWrite DEF FailedAttempt, NextAttempt
    <3> QED  BY <1>3, <3>1 DEF ScanFail
  <2>5. CancelPhases' /\ CancelAnswerHolds'
    <3>1. UNCHANGED cancel  BY <1>3 DEF ScanFail
    <3>2. CancelPhases'  BY <3>1 DEF CancelPhases
    <3> QED  BY <2>3, <3>1 DEF CancelPhases, CancelAnswerHolds, Terminal
  <2> QED  BY <1>3, <2>1, <2>2, <2>3, <2>4, <2>5 DEF ScanFail, RowsOK
<1>4. CASE ScanRelease(s)
  <2> PICK e \in scan[s].release : lock' = Released(lock, e.j, e.w)  BY <1>4 DEF ScanRelease
  <2>0. e.j \in Jobs /\ e.w \in Workers  BY DEF ScanState, Snapshot
  <2>1. lock' \in [Jobs -> Owners] /\ \A j \in Jobs : lock'[j] \in {lock[j], NoWorker}
    BY <2>0, LockWrites
  <2>2. LockMatchesOwner => LockMatchesOwner'  BY <1>4, <2>1 DEF ScanRelease, LockMatchesOwner
  <2>3. scan' \in [Scanners -> ScanState] /\ SnapshotsInBudget'
    BY <1>4 DEF ScanRelease, ScanState, SnapshotsInBudget
  <2> QED
    BY <1>4, <2>1, <2>2, <2>3 DEF ScanRelease, CancelPhases, AttemptBudget, CancelAnswerHolds
<1>5. CASE ScanAbort(s)
  BY <1>5 DEF ScanAbort, IdleScan, ScanState, SnapshotsInBudget, CancelPhases, AttemptBudget,
              LockMatchesOwner, CancelAnswerHolds
<1> QED  BY <1>1, <1>2, <1>3, <1>4, <1>5

(* A step of a cancellation request keeps the invariant and is a step of   *)
(* JobLifecycle.                                                           *)
LEMMA CancelStepControlInv ==
    ASSUME ControlInv, NEW u \in Users, CancelStep(u)
    PROVE  ControlInv' /\ [Lifecycle!Next]_row /\ (LockMatchesOwner => LockMatchesOwner')
<1> USE DEF ControlInv, ControlTypeOK
<1>1. CASE \E j \in Jobs : CancelRead(u, j)
  <2> PICK j \in Jobs : CancelRead(u, j)  BY <1>1
  <2> DEFINE a == SettledAnswer(row[j])
  <2>1. /\ a \in Answers
        /\ a = "none" => row[j].status \in {"pending", "running"}
        /\ a = "cancelled" => row[j].status = "cancelled"
        /\ a = "terminal" => row[j].status \in {"succeeded", "failed"}
        /\ a = "requested" => row[j].cancel_requested
    BY DEF SettledAnswer, Answers, Row, Status
  <2>2. cancel' = [cancel EXCEPT ![u].job = j, ![u].answer = a,
                                 ![u].pc = IF a = "none" THEN "tx" ELSE "done",
                                 ![u].seen = IF a = "none" THEN row[j].status ELSE @]
    BY DEF CancelRead
  <2> HIDE DEF a
  <2>3. cancel' \in [Users -> CancelState]
    <3> DEFINE pc == IF a = "none" THEN "tx" ELSE "done"
               seen == IF a = "none" THEN row[j].status ELSE cancel[u].seen
               q == [cancel[u] EXCEPT !.job = j, !.answer = a, !.pc = pc, !.seen = seen]
    <3>1. pc \in {"tx", "done"} /\ seen \in {"pending", "running"}  BY <2>1 DEF CancelState
    <3>2. cancel' = [cancel EXCEPT ![u] = q]  BY <2>2 DEF CancelState
    <3> HIDE DEF pc, seen
    <3>3. q \in CancelState  BY <2>1, <3>1 DEF CancelState
    <3> HIDE DEF q
    <3> QED  BY <3>2, <3>3
  <2>4. /\ cancel'[u].job = j /\ cancel'[u].answer = a
        /\ cancel'[u].pc = IF a = "none" THEN "tx" ELSE "done"
        /\ \A v \in Users : v # u => cancel'[v] = cancel[v]
    BY <2>2 DEF CancelState
  <2>5. CancelPhases' /\ CancelAnswerHolds'
    BY <2>1, <2>4 DEF CancelRead, CancelPhases, CancelAnswerHolds
  <2> QED
    BY <2>3, <2>5 DEF CancelRead, SnapshotsInBudget, AttemptBudget, LockMatchesOwner
<1>2. CASE CancelTx(u)
  <2> DEFINE j == cancel[u].job
  <2>0. j \in Jobs  BY <1>2 DEF CancelTx, CancelPhases
  <2>1. CASE /\ CanTransition(row[j], "pending", "cancelled")
             /\ row' = [row EXCEPT ![j] = Cancelled(@)]
             /\ Answered(u, "cancelled")
    <3>1. Lifecycle!Cancel(j)
      BY <2>1, LifecycleWrites DEF Lifecycle!Cancel, Lifecycle!Pending, CanTransition
    <3>2. [Lifecycle!Next]_row  BY <2>0, <3>1 DEF Lifecycle!Next
    <3>3. row'[j].status = "cancelled"  BY <2>0, <2>1, CancelWrite
    <3>4. LockMatchesOwner => LockMatchesOwner'  BY <1>2, <2>0, <2>1, <3>3 DEF CancelTx, LockMatchesOwner
    <3>5. /\ cancel' \in [Users -> CancelState]
          /\ cancel'[u].job = j /\ cancel'[u].pc = "done" /\ cancel'[u].answer = "cancelled"
          /\ \A v \in Users : v # u => cancel'[v] = cancel[v]
      BY <2>1, AnswerWrite DEF Answers
    <3>6. /\ RowsOK' /\ AttemptBudget'
          /\ \A i \in Jobs : row[i].status \in Terminal => row'[i] = row[i]
          /\ \A i \in Jobs : row[i].cancel_requested => row'[i].cancel_requested
      BY <3>2, LifecycleStep DEF RowsOK
    <3>7. CancelPhases' /\ CancelAnswerHolds'
      BY <2>0, <3>3, <3>5, <3>6 DEF CancelPhases, CancelAnswerHolds, Terminal
    <3> QED  BY <1>2, <3>2, <3>4, <3>5, <3>6, <3>7 DEF CancelTx, RowsOK, SnapshotsInBudget
  <2>2. CASE /\ row[j].status = "running" /\ ~row[j].cancel_requested
             /\ row' = [row EXCEPT ![j] = CancelRequested(@)]
             /\ Answered(u, "requested")
    <3>1. Lifecycle!RequestCancel(j)
      BY <2>2, LifecycleWrites DEF Lifecycle!RequestCancel, Lifecycle!Running
    <3>2. [Lifecycle!Next]_row  BY <2>0, <3>1 DEF Lifecycle!Next
    <3>3. row'[j].cancel_requested /\ row'[j].locked_by = row[j].locked_by
          /\ row'[j].status = row[j].status
      BY <2>0, <2>2, CancelRequestWrite
    <3>4. LockMatchesOwner => LockMatchesOwner'  BY <1>2, <2>0, <2>2, <3>3 DEF CancelTx, LockMatchesOwner
    <3>5. /\ cancel' \in [Users -> CancelState]
          /\ cancel'[u].job = j /\ cancel'[u].pc = "done" /\ cancel'[u].answer = "requested"
          /\ \A v \in Users : v # u => cancel'[v] = cancel[v]
      BY <2>2, AnswerWrite DEF Answers
    <3>6. /\ RowsOK' /\ AttemptBudget'
          /\ \A i \in Jobs : row[i].status \in Terminal => row'[i] = row[i]
          /\ \A i \in Jobs : row[i].cancel_requested => row'[i].cancel_requested
      BY <3>2, LifecycleStep DEF RowsOK
    <3>7. CancelPhases' /\ CancelAnswerHolds'
      BY <2>0, <3>3, <3>5, <3>6 DEF CancelPhases, CancelAnswerHolds, Terminal
    <3> QED  BY <1>2, <3>2, <3>4, <3>5, <3>6, <3>7 DEF CancelTx, RowsOK, SnapshotsInBudget
  <2>3. CASE cancel' = [cancel EXCEPT ![u].pc = "resolve"] /\ UNCHANGED row
    <3>1. cancel' \in [Users -> CancelState]  BY <2>3 DEF CancelState
    <3>2. CancelPhases' /\ CancelAnswerHolds'
      BY <1>2, <2>0, <2>3 DEF CancelTx, CancelPhases, CancelAnswerHolds, CancelState
    <3> QED
      BY <1>2, <2>3, <3>1, <3>2 DEF CancelTx, SnapshotsInBudget, AttemptBudget, LockMatchesOwner
  <2> QED  BY <1>2, <2>1, <2>2, <2>3 DEF CancelTx
<1>3. CASE CancelResolve(u)
  <2> DEFINE j == cancel[u].job
             a == SettledAnswer(row[j])
  <2>0. j \in Jobs /\ row[j] \in Row  BY <1>3 DEF CancelResolve, CancelPhases
  <2>1. /\ a \in Answers
        /\ a = "cancelled" => row[j].status = "cancelled"
        /\ a = "terminal" => row[j].status \in {"succeeded", "failed"}
        /\ a = "requested" => row[j].cancel_requested
    BY <2>0 DEF SettledAnswer, Answers, Row, Status
  <2>2. \/ \E b \in {a, "changed"} : Answered(u, b)
        \/ cancel' = [cancel EXCEPT ![u].pc = "read", ![u].tries = @ + 1]
    BY <1>3 DEF CancelResolve
  <2> HIDE DEF a
  <2>3. cancel' \in [Users -> CancelState] /\ CancelPhases' /\ CancelAnswerHolds'
    <3>1. CASE \E b \in {a, "changed"} : Answered(u, b)
      <4> PICK b \in {a, "changed"} : Answered(u, b)  BY <3>1
      <4>1. /\ cancel' \in [Users -> CancelState]
            /\ cancel'[u].job = j /\ cancel'[u].pc = "done" /\ cancel'[u].answer = b
            /\ \A v \in Users : v # u => cancel'[v] = cancel[v]
        <5>1. b \in Answers  BY <2>1 DEF Answers
        <5> QED  BY <5>1 DEF Answered, CancelState
      <4> QED  BY <1>3, <2>0, <2>1, <4>1 DEF CancelResolve, CancelPhases, CancelAnswerHolds
    <3>2. CASE cancel' = [cancel EXCEPT ![u].pc = "read", ![u].tries = @ + 1]
      <4>1. cancel[u].answer = "none"  BY <1>3 DEF CancelResolve, CancelPhases
      <4>2. /\ cancel' \in [Users -> CancelState]
            /\ cancel'[u].pc = "read" /\ cancel'[u].answer = "none"
            /\ \A v \in Users : v # u => cancel'[v] = cancel[v]
        BY <3>2, <4>1 DEF CancelState
      <4> QED  BY <1>3, <4>2 DEF CancelResolve, CancelPhases, CancelAnswerHolds
    <3> QED  BY <2>2, <3>1, <3>2
  <2> QED
    BY <1>3, <2>3 DEF CancelResolve, SnapshotsInBudget, AttemptBudget, LockMatchesOwner
<1> QED  BY <1>1, <1>2, <1>3 DEF CancelStep
=============================================================================
