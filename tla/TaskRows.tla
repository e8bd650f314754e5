------------------------------ MODULE TaskRows ------------------------------
(***************************************************************************)
(* The row of a background task (database/models/tasks.py) and what each   *)
(* method of BackgroundTaskRepository (database/repositories/tasks.py)     *)
(* does to it.  Every method locks the row with FOR UPDATE and commits it  *)
(* in one transaction, heartbeat excepted, so a method is an operator from *)
(* the row it read to the row it wrote; the module that uses the operator  *)
(* decides when the transaction runs and what it does with a refusal.      *)
(*                                                                         *)
(* Timestamps are kept as what the code later asks of them:                *)
(*   heartbeat  "none" (NULL), "fresh", or "stale" (before running_before) *)
(*   quiet      updated_at is before delivery_before                       *)
(*   overdue    created_at is before queued_before                         *)
(*   finished   finished_at is set                                         *)
(*   cancel     cancel_requested_at is set                                 *)
(* A row that does not exist has status "absent" (its id is not issued     *)
(* yet) or "purged" (retention deleted it).                                *)
(***************************************************************************)
EXTENDS Naturals

CONSTANT MaxAttempts      \* BackgroundTaskRecord.max_attempts, worker_max_retries + 1

ASSUME MaxAttemptsAssumption == MaxAttempts \in Nat \ {0}

Terminal == {"succeeded", "failed", "cancelled"}

Live == {"queued", "running"} \cup Terminal

Status == Live \cup {"absent", "purged"}

ErrorCode == {"none", "cancelled_by_user", "stale_worker_recovered",
              "stale_worker_timeout", "queue_expired", "delivery_recovered",
              "operation_error"}

Row == [status    : Status,
        attempts  : 0..MaxAttempts,
        cancel    : BOOLEAN,
        error     : ErrorCode,
        heartbeat : {"none", "fresh", "stale"},
        quiet     : BOOLEAN,
        overdue   : BOOLEAN,
        finished  : BOOLEAN]

NewRow == [status |-> "queued", attempts |-> 0, cancel |-> FALSE, error |-> "none",
           heartbeat |-> "none", quiet |-> FALSE, overdue |-> FALSE, finished |-> FALSE]

AbsentRow == [NewRow EXCEPT !.status = "absent"]

PurgedRow == [NewRow EXCEPT !.status = "purged"]

(***************************************************************************)
(* Faulty variants of the operators below.  Nothing uses them: they are    *)
(* the plausible mistakes that the properties are tested against.          *)
(***************************************************************************)
\* finishes the work without looking at cancel_requested_at
CompleteRowIgnoringCancel(r) ==
  [r EXCEPT !.status = "succeeded", !.error = "none", !.heartbeat = "fresh",
            !.quiet = FALSE, !.finished = TRUE]

\* compares attempt_count with max_attempts by <= instead of <
HasAttemptsLeftOffByOne(r) == r.attempts <= MaxAttempts

\* requeues a stale row although its user asked for cancellation
RecoverRowIgnoringCancel(r) ==
  IF r.attempts < MaxAttempts
    THEN [r EXCEPT !.status = "queued", !.error = "stale_worker_recovered",
                   !.heartbeat = "none", !.quiet = FALSE, !.finished = FALSE]
    ELSE [r EXCEPT !.status = "failed", !.error = "stale_worker_timeout",
                   !.quiet = FALSE, !.finished = TRUE]

\* leaves finished_at unset, so that retention never selects the row
ExpireRowUnfinished(r) ==
  [r EXCEPT !.status = "failed", !.error = "queue_expired", !.quiet = FALSE]

\* lets a task expire only before its first attempt
IsExpiredUntried(r) == r.status = "queued" /\ r.overdue /\ r.attempts = 0

\* cancels whatever state the row is in
CancellableWheneverLive(r) == r.status \in Live \ {"cancelled"}

(***************************************************************************)
(* The operators.                                                          *)
(***************************************************************************)
HasAttemptsLeft(r) == r.attempts < MaxAttempts

\* start: only from "queued"
StartRow(r) ==
  [r EXCEPT !.status = "running", !.attempts = @ + 1, !.error = "none",
            !.heartbeat = "fresh", !.quiet = FALSE, !.finished = FALSE]

\* complete: only from "running"; a cancellation asked for meanwhile wins
CompleteRow(r) ==
  [r EXCEPT !.status = IF r.cancel THEN "cancelled" ELSE "succeeded",
            !.error = IF r.cancel THEN "cancelled_by_user" ELSE "none",
            !.heartbeat = "fresh", !.quiet = FALSE, !.finished = TRUE]

\* record_failure: only from "running"
CanRetry(r, retryable) == retryable /\ ~r.cancel /\ HasAttemptsLeft(r)

FailRow(r, retryable) ==
  LET retry == CanRetry(r, retryable) IN
  [r EXCEPT !.status = IF r.cancel THEN "cancelled" ELSE IF retry THEN "queued" ELSE "failed",
            !.error = IF r.cancel THEN "cancelled_by_user" ELSE "operation_error",
            !.heartbeat = IF retry THEN "none" ELSE "fresh",
            !.quiet = FALSE,
            !.finished = ~retry]

\* request_cancel: the states that accept it, and what it writes
Cancellable(r) == r.status \in {"queued", "running"}

CancelRow(r) ==
  IF r.status = "running"
    THEN [r EXCEPT !.cancel = TRUE, !.quiet = FALSE]
    ELSE [r EXCEPT !.cancel = TRUE, !.quiet = FALSE, !.status = "cancelled",
                   !.error = "cancelled_by_user", !.finished = TRUE]

\* heartbeat: the UPDATE it sends, whose WHERE names the id only
BeatRow(r) == [r EXCEPT !.heartbeat = "fresh", !.quiet = FALSE]

\* reconcile_stale: which rows its three queries select, and what each loop writes.
\* start always sets heartbeat_at, so coalesce(heartbeat, started, updated) is heartbeat_at.
IsStale(r) == r.status = "running" /\ r.heartbeat = "stale"

IsExpired(r) == r.status = "queued" /\ r.overdue

IsUndelivered(r) == r.status = "queued" /\ ~r.overdue /\ r.quiet

RecoverRow(r) ==
  CASE r.cancel ->
         [r EXCEPT !.status = "cancelled", !.error = "cancelled_by_user",
                   !.quiet = FALSE, !.finished = TRUE]
    [] ~r.cancel /\ HasAttemptsLeft(r) ->
         [r EXCEPT !.status = "queued", !.error = "stale_worker_recovered",
                   !.heartbeat = "none", !.quiet = FALSE, !.finished = FALSE]
    [] ~r.cancel /\ ~HasAttemptsLeft(r) ->
         [r EXCEPT !.status = "failed", !.error = "stale_worker_timeout",
                   !.quiet = FALSE, !.finished = TRUE]

ExpireRow(r) ==
  [r EXCEPT !.status = "failed", !.error = "queue_expired", !.quiet = FALSE,
            !.finished = TRUE]

RedeliverRow(r) == [r EXCEPT !.error = "delivery_recovered", !.quiet = FALSE]

\* purge_terminal_before: a terminal row with finished_at, old enough
IsPurgeable(r) == r.status \in Terminal /\ r.finished
=============================================================================
