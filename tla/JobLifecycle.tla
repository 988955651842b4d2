---------------------------- MODULE JobLifecycle ----------------------------
(***************************************************************************)
(* What the job system promises of a row of the jobs table, with locks,    *)
(* handlers, scans and their stale reads abstracted away: a job is run by  *)
(* one owner at a time, an attempt that ends either decides the job or     *)
(* uses up part of its budget of attempts, and a decided job never moves   *)
(* again.  WorkerProtocol and ValidationJobs implement this specification. *)
(*                                                                         *)
(* It does not promise that attempt_count counts the attempts: a report    *)
(* built from an old row may write an old count (see ValidationJobs).      *)
(***************************************************************************)
EXTENDS JobCore

VARIABLE row

Pending(j) == row[j].status = "pending"
Running(j) == row[j].status = "running"

Init == row = [j \in Jobs |-> NewRow]

Claim(j, w) ==
    /\ Pending(j)
    /\ row' = [row EXCEPT ![j] = ClaimedBy(@, w)]

Succeed(j) ==
    /\ Running(j)
    /\ row' = [row EXCEPT ![j] = Succeeded(@)]

(* An attempt fails and the job is queued again: the budget is not used up.*)
Retry(j, n) ==
    /\ Running(j) /\ n < MaxAttempts
    /\ row' = [row EXCEPT ![j] = Requeued(@, n)]

(* An attempt fails for good. *)
GiveUp(j, n) ==
    /\ Running(j) /\ n <= MaxAttempts
    /\ row' = [row EXCEPT ![j] = GivenUp(@, n)]

Cancel(j) ==
    /\ Pending(j)
    /\ row' = [row EXCEPT ![j] = Cancelled(@)]

RequestCancel(j) ==
    /\ Running(j) /\ ~row[j].cancel_requested
    /\ row' = [row EXCEPT ![j] = CancelRequested(@)]

Next ==
    \E j \in Jobs :
        \/ \E w \in Workers : Claim(j, w)
        \/ Succeed(j)
        \/ \E n \in 1 .. MaxAttempts : Retry(j, n) \/ GiveUp(j, n)
        \/ Cancel(j)
        \/ RequestCancel(j)

Spec == Init /\ [][Next]_row
=============================================================================
