------------------------------ MODULE JobCore ------------------------------
(***************************************************************************)
(* The vocabulary of packages/job-core: the row of the jobs table, the     *)
(* status machine every write of a status goes through, and the per-job    *)
(* Redis lock.  Constant operators only; the modules that extend this one  *)
(* own the variables.                                                      *)
(*                                                                         *)
(* Definitions marked mutant are faults of the definition that follows,    *)
(* which the runs must detect; nothing uses them.                          *)
(*                                                                         *)
(* Data that no property tells apart is left out of a row: payloads,       *)
(* results, error documents, timestamps and the job_events audit rows      *)
(* (every event insert shares the transaction of the status write).        *)
(***************************************************************************)
EXTENDS Naturals

CONSTANTS
    Jobs,         \* jobs.id
    Workers,      \* identities that may own a job: jobs.locked_by and the lock's value
    NoWorker,     \* SQL NULL in locked_by, an absent Redis key
    MaxAttempts   \* jobs.max_attempts (3 unless the creator of the job says otherwise)

ASSUME NoWorkerAssumption == NoWorker \notin Workers
ASSUME MaxAttemptsAssumption == MaxAttempts \in Nat \ {0}

Owners == Workers \cup {NoWorker}

Status == {"pending", "running", "succeeded", "failed", "cancelled"}

(* JobStateMachine.TRANSITIONS. *)
TRANSITIONS ==
    [pending   |-> {"running", "cancelled"},
     running   |-> {"succeeded", "failed", "cancelled"},
     succeeded |-> {},
     failed    |-> {"pending"},
     cancelled |-> {}]

Row == [status : Status,
        locked_by : Owners,
        attempt_count : Nat,
        cancel_requested : BOOLEAN]

(* The column defaults a row is inserted with. *)
NewRow == [status |-> "pending", locked_by |-> NoWorker,
           attempt_count |-> 0, cancel_requested |-> FALSE]

(***************************************************************************)
(* JobStateMachine.transition is UPDATE ... WHERE id = j AND status = from *)
(* guarded by validate(from, to).  It compares the status and nothing      *)
(* else: neither locked_by nor attempt_count takes part.  When             *)
(* CanTransition is false the code throws JobConflictError.                *)
(***************************************************************************)
AnyStatus(r, from, to) == to \in TRANSITIONS[from]                 \* mutant: no comparison
CanTransition(r, from, to) == to \in TRANSITIONS[from] /\ r.status = from

(* pending -> running, with the columns the claim sets. *)
ClaimedBy(r, w) == [r EXCEPT !.status = "running", !.locked_by = w]

(* running -> succeeded. *)
Succeeded(r) == [r EXCEPT !.status = "succeeded", !.locked_by = NoWorker]

(* running -> failed, and then failed -> pending in the same transaction,  *)
(* with the new attempt_count.  cancel_requested_at is not reset.          *)
GivenUp(r, n) ==
    [r EXCEPT !.status = "failed", !.locked_by = NoWorker, !.attempt_count = n]
RequeuedAfresh(r, n) == [NewRow EXCEPT !.attempt_count = n]        \* mutant: a new row
Requeued(r, n) ==
    [r EXCEPT !.status = "pending", !.locked_by = NoWorker, !.attempt_count = n]

(* An attempt fails.  Its number is computed from the row that was read    *)
(* earlier (n is that row's attempt_count), not from the row updated.      *)
AttemptsLeft(n) == n - 1                                           \* mutant: counts down
NextAttempt(n) == n + 1

OneRetryMore(n, retryable) == retryable /\ NextAttempt(n) <= MaxAttempts    \* mutant: <= for <
WillRetry(n, retryable) == retryable /\ NextAttempt(n) < MaxAttempts

FailedAttempt(r, n, retryable) ==
    IF WillRetry(n, retryable) THEN Requeued(r, NextAttempt(n)) ELSE GivenUp(r, NextAttempt(n))

(* pending -> cancelled, and the request recorded on a running job. *)
Cancelled(r) == [r EXCEPT !.status = "cancelled"]
CancelRequested(r) == [r EXCEPT !.cancel_requested = TRUE]

(***************************************************************************)
(* RedisJobLock: SET NX EX, and the two owner-checked Lua scripts.  The    *)
(* remaining TTL is not represented: a module says when a key may expire.  *)
(***************************************************************************)
LockIgnored(lock, j) == TRUE                                       \* mutant: result not checked
LockFree(lock, j) == lock[j] = NoWorker
Acquired(lock, j, w) == IF lock[j] = NoWorker THEN [lock EXCEPT ![j] = w] ELSE lock
Renewable(lock, j, w) == lock[j] = w
Released(lock, j, w) == IF lock[j] = w THEN [lock EXCEPT ![j] = NoWorker] ELSE lock
=============================================================================
