----------------------- MODULE DiscoveryTasks_proofs -----------------------
(***************************************************************************)
(* Proofs about DiscoveryTasks, for every set of tasks, workers and        *)
(* dispatchers and every value of the limits.                              *)
(*                                                                         *)
(* The argument has two layers.  RowStep lists what a transaction may do   *)
(* to one row; RowInv, a property of one row, is kept by every row step;   *)
(* and every action of the system is a row step for every task.  What is   *)
(* left is the part of the invariant that relates a row to a worker or to  *)
(* a dispatcher (WorkerInv, DispatcherInv).                                *)
(***************************************************************************)
EXTENDS DiscoveryTasks, TLAPS

(***************************************************************************)
(* The inductive invariant.                                                *)
(***************************************************************************)
RowInv(r) ==
  /\ r.status = "queued" => r.attempts < MaxAttempts
  /\ r.status = "running" => r.attempts \in 1..MaxAttempts
  /\ r.status \in Live =>
       /\ r.cancel => r.status \in {"running", "cancelled"}
       /\ r.finished <=> r.status \in Terminal
       /\ r.status = "succeeded" => r.error = "none"
       /\ r.status = "cancelled" <=> r.error = "cancelled_by_user"
       /\ r.status = "failed" =>
            r.error \in {"operation_error", "queue_expired", "stale_worker_timeout"}
  /\ r.status = "absent" => r = AbsentRow

RowsInv == \A t \in Task : RowInv(rows[t])

\* A worker that is not idle holds a message of a task that was created, a
\* heartbeat loop runs for such a message, and past save_result there is a result.
WorkerInv ==
  \A w \in Worker :
    /\ wpc[w] # "idle" \/ beating[w] => wmsg[w] \in Message
    /\ wpc[w] # "idle" => rows[wmsg[w].task].status # "absent"
    /\ wpc[w] = "saved" /\ Exists(wmsg[w].task) => result[wmsg[w].task] # NoResult

\* Is a result stored for the task?
HasResult(t) == result[t] # NoResult

\* What a dispatcher is about to record was accepted by the broker.
DispatcherInv == \A d \in Dispatcher : dpc[d] = "recording" => inhand[d] \in accepted

IInv ==
  /\ TypeOK
  /\ RowsInv
  /\ WorkerInv
  /\ DispatcherInv
  /\ SucceededHasResult
  /\ PublishedWasAccepted

-----------------------------------------------------------------------------
(***************************************************************************)
(* One row.                                                                *)
(***************************************************************************)
\* answered: is a result stored for the row's task?
RowStep(r, s, answered) ==
  \/ s = r
  \/ r.status = "absent" /\ s = NewRow
  \/ r.status = "queued" /\ s = StartRow(r)
  \/ r.status = "running" /\ answered /\ s = CompleteRow(r)
  \/ r.status = "running" /\ \E retryable \in BOOLEAN : s = FailRow(r, retryable)
  \/ Cancellable(r) /\ s = CancelRow(r)
  \/ r.status \in Live /\ s = BeatRow(r)
  \/ IsStale(r) /\ s = RecoverRow(r)
  \/ IsExpired(r) /\ s = ExpireRow(r)
  \/ IsUndelivered(r) /\ s = RedeliverRow(r)
  \/ IsPurgeable(r) /\ s = PurgedRow
  \/ r.status = "running" /\ s = [r EXCEPT !.heartbeat = "stale"]
  \/ r.status = "queued" /\ s = [r EXCEPT !.overdue = TRUE]
  \/ r.status = "queued" /\ s = [r EXCEPT !.quiet = TRUE]

LEMMA NewRowType == NewRow \in Row
  BY MaxAttemptsAssumption DEF NewRow, Row, Status, Live, Terminal, ErrorCode

LEMMA MissingRowType == AbsentRow \in Row /\ PurgedRow \in Row
<1>1. AbsentRow \in Row
  BY NewRowType DEF AbsentRow, Row, Status
<1>2. PurgedRow \in Row
  BY NewRowType DEF PurgedRow, Row, Status
<1> QED
  BY <1>1, <1>2

\* Every row step keeps the row's type.
LEMMA RowStepKeepsType ==
  ASSUME NEW r \in Row, NEW s, NEW answered, RowInv(r), RowStep(r, s, answered)
  PROVE  s \in Row
<1> USE MaxAttemptsAssumption DEF Row, Status, Live, Terminal, ErrorCode
<1>1. CASE s = r
  BY <1>1
<1>2. CASE r.status = "absent" /\ s = NewRow
  BY <1>2, NewRowType
<1>3. CASE r.status = "queued" /\ s = StartRow(r)
  <2>1. r.attempts + 1 \in 0..MaxAttempts
    BY <1>3 DEF RowInv
  <2> QED
    BY <1>3, <2>1 DEF StartRow
<1>4. CASE r.status = "running" /\ answered /\ s = CompleteRow(r)
  BY <1>4 DEF CompleteRow
<1>5. ASSUME NEW retryable \in BOOLEAN, r.status = "running", s = FailRow(r, retryable)
      PROVE  s \in Row
  <2>1. CanRetry(r, retryable) \in BOOLEAN
    BY DEF CanRetry, HasAttemptsLeft
  <2> QED
    BY <1>5, <2>1 DEF FailRow
<1>6. CASE Cancellable(r) /\ s = CancelRow(r)
  BY <1>6 DEF Cancellable, CancelRow
<1>7. CASE r.status \in Live /\ s = BeatRow(r)
  BY <1>7 DEF BeatRow
<1>8. CASE IsStale(r) /\ s = RecoverRow(r)
  <2>1. CASE r.cancel
    BY <1>8, <2>1 DEF RecoverRow
  <2>2. CASE ~r.cancel /\ HasAttemptsLeft(r)
    BY <1>8, <2>2 DEF RecoverRow
  <2>3. CASE ~r.cancel /\ ~HasAttemptsLeft(r)
    BY <1>8, <2>3 DEF RecoverRow
  <2> QED
    BY <2>1, <2>2, <2>3
<1>9. CASE IsExpired(r) /\ s = ExpireRow(r)
  BY <1>9 DEF ExpireRow
<1>10. CASE IsUndelivered(r) /\ s = RedeliverRow(r)
  BY <1>10 DEF RedeliverRow
<1>11. CASE IsPurgeable(r) /\ s = PurgedRow
  BY <1>11, MissingRowType
<1>12. CASE r.status = "running" /\ s = [r EXCEPT !.heartbeat = "stale"]
  BY <1>12
<1>13. CASE r.status = "queued" /\ s = [r EXCEPT !.overdue = TRUE]
  BY <1>13
<1>14. CASE r.status = "queued" /\ s = [r EXCEPT !.quiet = TRUE]
  BY <1>14
<1> QED
  BY <1>1, <1>2, <1>3, <1>4, <1>5, <1>6, <1>7, <1>8, <1>9, <1>10, <1>11, <1>12, <1>13,
     <1>14 DEF RowStep

\* Every row step keeps RowInv.
LEMMA RowStepKeepsRowInv ==
  ASSUME NEW r \in Row, NEW s, NEW answered, RowInv(r), RowStep(r, s, answered)
  PROVE  RowInv(s)
<1> USE MaxAttemptsAssumption DEF Row, RowInv, Live, Terminal
<1>1. CASE s = r
  BY <1>1
<1>2. CASE r.status = "absent" /\ s = NewRow
  BY <1>2 DEF NewRow
<1>3. CASE r.status = "queued" /\ s = StartRow(r)
  <2>1. s = [r EXCEPT !.status = "running", !.attempts = @ + 1, !.error = "none",
                      !.heartbeat = "fresh", !.quiet = FALSE, !.finished = FALSE]
    BY <1>3 DEF StartRow
  <2>2. s.status = "running" /\ s.attempts = r.attempts + 1 /\ s.error = "none"
          /\ ~s.finished /\ s.cancel = r.cancel
    BY <2>1
  <2>3. r.attempts + 1 \in 1..MaxAttempts
    BY <1>3
  <2> QED
    BY <1>3, <2>2, <2>3
<1>4. CASE r.status = "running" /\ answered /\ s = CompleteRow(r)
  BY <1>4 DEF CompleteRow
<1>5. ASSUME NEW retryable \in BOOLEAN, r.status = "running", s = FailRow(r, retryable)
      PROVE  RowInv(s)
  <2>1. CASE CanRetry(r, retryable)
    <3>1. ~r.cancel /\ r.attempts < MaxAttempts
      BY <2>1 DEF CanRetry, HasAttemptsLeft
    <3>2. s.status = "queued" /\ s.attempts = r.attempts /\ s.error = "operation_error"
            /\ s.finished = FALSE /\ s.cancel = r.cancel
      BY <1>5, <2>1, <3>1 DEF FailRow
    <3> QED
      BY <3>1, <3>2
  <2>2. CASE ~CanRetry(r, retryable) /\ r.cancel
    <3>1. s.status = "cancelled" /\ s.error = "cancelled_by_user" /\ s.finished = TRUE
      BY <1>5, <2>2 DEF FailRow
    <3> QED
      BY <3>1
  <2>3. CASE ~CanRetry(r, retryable) /\ ~r.cancel
    <3>1. s.status = "failed" /\ s.error = "operation_error" /\ s.finished = TRUE
            /\ s.cancel = r.cancel
      BY <1>5, <2>3 DEF FailRow
    <3> QED
      BY <2>3, <3>1
  <2> QED
    BY <2>1, <2>2, <2>3
<1>6. CASE Cancellable(r) /\ s = CancelRow(r)
  BY <1>6 DEF Cancellable, CancelRow
<1>7. CASE r.status \in Live /\ s = BeatRow(r)
  BY <1>7 DEF BeatRow
<1>8. CASE IsStale(r) /\ s = RecoverRow(r)
  <2>1. CASE r.cancel
    BY <1>8, <2>1 DEF RecoverRow
  <2>2. CASE ~r.cancel /\ HasAttemptsLeft(r)
    BY <1>8, <2>2 DEF RecoverRow, HasAttemptsLeft
  <2>3. CASE ~r.cancel /\ ~HasAttemptsLeft(r)
    BY <1>8, <2>3 DEF RecoverRow
  <2> QED
    BY <2>1, <2>2, <2>3
<1>9. CASE IsExpired(r) /\ s = ExpireRow(r)
  BY <1>9 DEF IsExpired, ExpireRow
<1>10. CASE IsUndelivered(r) /\ s = RedeliverRow(r)
  BY <1>10 DEF IsUndelivered, RedeliverRow
<1>11. CASE IsPurgeable(r) /\ s = PurgedRow
  BY <1>11 DEF PurgedRow, NewRow
<1>12. CASE r.status = "running" /\ s = [r EXCEPT !.heartbeat = "stale"]
  BY <1>12
<1>13. CASE r.status = "queued" /\ s = [r EXCEPT !.overdue = TRUE]
  BY <1>13
<1>14. CASE r.status = "queued" /\ s = [r EXCEPT !.quiet = TRUE]
  BY <1>14
<1> QED
  BY <1>1, <1>2, <1>3, <1>4, <1>5, <1>6, <1>7, <1>8, <1>9, <1>10, <1>11, <1>12, <1>13,
     <1>14 DEF RowStep

\* A row that exists is never again absent, a missing one never comes back, an
\* ended one only goes away, and only a running task succeeds.
LEMMA RowStepOrder ==
  ASSUME NEW r \in Row, NEW s, NEW answered, RowStep(r, s, answered)
  PROVE  /\ r.status # "absent" => s.status # "absent"
         /\ r.status = "purged" => s.status = "purged"
         /\ r.status \in Terminal => s.status \in {r.status, "purged"}
         /\ r.status \in Live /\ s.status \notin Live => s = PurgedRow
         /\ s.status = "succeeded" => r.status = "succeeded" \/ answered
<1> USE DEF Row, Live, Terminal, Status
<1>1. CASE s = r
  BY <1>1
<1>2. CASE r.status = "absent" /\ s = NewRow
  BY <1>2 DEF NewRow
<1>3. CASE r.status = "queued" /\ s = StartRow(r)
  BY <1>3 DEF StartRow
<1>4. CASE r.status = "running" /\ answered /\ s = CompleteRow(r)
  BY <1>4 DEF CompleteRow
<1>5. ASSUME NEW retryable \in BOOLEAN, r.status = "running", s = FailRow(r, retryable)
      PROVE  s.status \in Live \ {"succeeded"}
  BY <1>5 DEF FailRow
<1>6. CASE Cancellable(r) /\ s = CancelRow(r)
  BY <1>6 DEF Cancellable, CancelRow
<1>7. CASE r.status \in Live /\ s = BeatRow(r)
  BY <1>7 DEF BeatRow
<1>8. CASE IsStale(r) /\ s = RecoverRow(r)
  BY <1>8 DEF IsStale, RecoverRow
<1>9. CASE IsExpired(r) /\ s = ExpireRow(r)
  BY <1>9 DEF IsExpired, ExpireRow
<1>10. CASE IsUndelivered(r) /\ s = RedeliverRow(r)
  BY <1>10 DEF IsUndelivered, RedeliverRow
<1>11. CASE IsPurgeable(r) /\ s = PurgedRow
  BY <1>11 DEF IsPurgeable, PurgedRow, NewRow
<1>12. CASE r.status = "running" /\ s = [r EXCEPT !.heartbeat = "stale"]
  BY <1>12
<1>13. CASE r.status = "queued" /\ s = [r EXCEPT !.overdue = TRUE]
  BY <1>13
<1>14. CASE r.status = "queued" /\ s = [r EXCEPT !.quiet = TRUE]
  BY <1>14
<1> QED
  BY <1>1, <1>2, <1>3, <1>4, <1>5, <1>6, <1>7, <1>8, <1>9, <1>10, <1>11, <1>12, <1>13,
     <1>14 DEF RowStep

-----------------------------------------------------------------------------
(***************************************************************************)
(* One step of the system.                                                 *)
(***************************************************************************)
\* Every step is, for every task, a row step; this is where each action of the
\* system is matched with the repository method it calls.
LEMMA NextIsRowStep ==
  ASSUME TypeOK, WorkerInv, Next, NEW t \in Task
  PROVE  RowStep(rows[t], rows'[t], HasResult(t))
<1> USE DEF TypeOK
<1>1. ASSUME UNCHANGED rows
      PROVE  RowStep(rows[t], rows'[t], HasResult(t))
  BY <1>1 DEF RowStep
<1>2. ASSUME NEW u \in Task, NEW s, SetRow(u, s), RowStep(rows[u], s, HasResult(u))
      PROVE  RowStep(rows[t], rows'[t], HasResult(t))
  <2>1. CASE t = u
    BY <1>2, <2>1 DEF SetRow
  <2>2. CASE t # u
    BY <1>2, <2>2 DEF SetRow, RowStep
  <2> QED
    BY <2>1, <2>2
<1>3. CASE ClientNext
  <2>1. ASSUME NEW u \in Task, Cancel(u)
        PROVE  RowStep(rows[t], rows'[t], HasResult(t))
    BY <1>2, <2>1 DEF Cancel, RowStep
  <2>2. ASSUME NEW u \in Task, NEW d \in Caller, Submit(d, u)
        PROVE  RowStep(rows[t], rows'[t], HasResult(t))
    BY <1>2, <2>2 DEF Submit, RowStep
  <2>3. ASSUME NEW u \in Task, NEW d \in Caller, Resubmit(d, u)
        PROVE  RowStep(rows[t], rows'[t], HasResult(t))
    BY <1>1, <2>3 DEF Resubmit, taskVars
  <2> QED
    BY <1>3, <2>1, <2>2, <2>3 DEF ClientNext
<1>4. CASE DispatchNext
  BY <1>1, <1>4 DEF DispatchNext, ReadPending, Enqueue, EnqueueFails, RecordPublished,
     RecordFails, DispatcherDies, taskVars
<1>5. CASE MaintenanceNext
  <2>1. ASSUME NEW c \in Cycle, NEW stale \in SUBSET Task, NEW expired \in SUBSET Task,
               NEW undelivered \in SUBSET Task, Reconcile(c, stale, expired, undelivered)
        PROVE  RowStep(rows[t], rows'[t], HasResult(t))
    <3>1. \A u \in Task : /\ u \in stale => IsStale(rows[u])
                          /\ u \in expired => IsExpired(rows[u])
                          /\ u \in undelivered => IsUndelivered(rows[u])
      BY <2>1 DEF Reconcile, Batch
    <3>2. rows'[t] = IF t \in stale \cup expired \cup undelivered
                       THEN ReconciledRow(rows[t]) ELSE rows[t]
      BY <2>1 DEF Reconcile
    <3>3. CASE t \in stale
      BY <3>1, <3>2, <3>3 DEF ReconciledRow, RowStep, IsStale, IsExpired, IsUndelivered
    <3>4. CASE t \in expired
      BY <3>1, <3>2, <3>4 DEF ReconciledRow, RowStep, IsStale, IsExpired, IsUndelivered
    <3>5. CASE t \in undelivered
      BY <3>1, <3>2, <3>5 DEF ReconciledRow, RowStep, IsStale, IsExpired, IsUndelivered
    <3>6. CASE t \notin stale \cup expired \cup undelivered
      BY <3>2, <3>6 DEF RowStep
    <3> QED
      BY <3>3, <3>4, <3>5, <3>6
  <2>2. ASSUME NEW c \in Cycle, Purge(c)
        PROVE  RowStep(rows[t], rows'[t], HasResult(t))
    BY <2>2 DEF Purge, RowStep
  <2> QED
    BY <1>5, <2>1, <2>2 DEF MaintenanceNext
<1>6. CASE WorkerNext
  <2>1. ASSUME NEW w \in Worker, NEW m \in Message, Start(w, m)
        PROVE  RowStep(rows[t], rows'[t], HasResult(t))
    <3>1. m.task \in Task
      BY DEF Message
    <3> QED
      BY <1>2, <2>1, <3>1 DEF Start, RowStep
  <2>2. ASSUME NEW w \in Worker, Complete(w)
        PROVE  RowStep(rows[t], rows'[t], HasResult(t))
    <3>1. SetRow(wmsg[w].task, CompleteRow(rows[wmsg[w].task]))
      BY <2>2 DEF Complete
    <3>2. CASE wmsg[w].task = t
      <4>1. rows[t].status = "running" /\ wpc[w] = "saved"
        BY <2>2, <3>2 DEF Complete
      <4>2. HasResult(t)
        BY <3>2, <4>1 DEF WorkerInv, HasResult, Exists, Live
      <4> QED
        BY <3>1, <3>2, <4>1, <4>2 DEF SetRow, RowStep
    <3>3. CASE wmsg[w].task # t
      BY <3>1, <3>3 DEF SetRow, RowStep
    <3> QED
      BY <3>2, <3>3
  <2>3. ASSUME NEW w \in Worker, NEW retryable \in BOOLEAN, Fail(w, retryable)
        PROVE  RowStep(rows[t], rows'[t], HasResult(t))
    <3>1. SetRow(wmsg[w].task, FailRow(rows[wmsg[w].task], retryable))
      BY <2>3 DEF Fail
    <3>2. CASE wmsg[w].task = t
      BY <2>3, <3>1, <3>2 DEF Fail, SetRow, RowStep
    <3>3. CASE wmsg[w].task # t
      BY <3>1, <3>3 DEF SetRow, RowStep
    <3> QED
      BY <3>2, <3>3
  <2>4. ASSUME NEW w \in Worker, NEW m \in Message,
               JoinRunning(w, m) \/ Suppress(w, m) \/ StartFails(w, m)
        PROVE  RowStep(rows[t], rows'[t], HasResult(t))
    BY <1>1, <2>4 DEF JoinRunning, Suppress, StartFails, taskVars
  <2>5. ASSUME NEW w \in Worker,
               \/ SaveResult(w) \/ Superseded(w) \/ TaskGone(w) \/ Interrupted(w)
               \/ Crash(w) \/ BeatReads(w) \/ HeartStops(w)
        PROVE  RowStep(rows[t], rows'[t], HasResult(t))
    BY <1>1, <2>5 DEF SaveResult, Superseded, TaskGone, Interrupted, Crash, BeatReads,
       HeartStops, taskVars
  <2> QED
    BY <1>6, <2>1, <2>2, <2>3, <2>4, <2>5 DEF WorkerNext
<1>7. CASE EnvironmentNext
  <2>1. ASSUME NEW u \in Task, BeatWrites(u)
        PROVE  RowStep(rows[t], rows'[t], HasResult(t))
    BY <2>1 DEF BeatWrites, Exists, RowStep
  <2>2. ASSUME NEW u \in Task, HeartbeatAges(u) \/ QueueAges(u) \/ DeliveryAges(u)
        PROVE  RowStep(rows[t], rows'[t], HasResult(t))
    BY <1>2, <2>2 DEF HeartbeatAges, QueueAges, DeliveryAges, RowStep
  <2>3. ASSUME NEW m \in Message, Lose(m)
        PROVE  RowStep(rows[t], rows'[t], HasResult(t))
    BY <1>1, <2>3 DEF Lose, taskVars
  <2> QED
    BY <1>7, <2>1, <2>2, <2>3 DEF EnvironmentNext
<1> QED
  BY <1>3, <1>4, <1>5, <1>6, <1>7 DEF Next

LEMMA RowsKeepType ==
  ASSUME TypeOK, RowsInv, WorkerInv, Next
  PROVE  rows' \in [Task -> Row] /\ RowsInv'
<1>1. \A t \in Task : rows'[t] \in Row /\ RowInv(rows'[t])
  BY NextIsRowStep, RowStepKeepsType, RowStepKeepsRowInv DEF TypeOK, RowsInv
<1>2. rows' = [t \in Task |-> rows'[t]]
  <2> USE DEF TypeOK, SetRow, taskVars
  <2>1. CASE ClientNext
    BY <2>1 DEF ClientNext, Cancel, Submit, Resubmit
  <2>2. CASE DispatchNext
    BY <2>2 DEF DispatchNext, ReadPending, Enqueue, EnqueueFails, RecordPublished,
       RecordFails, DispatcherDies
  <2>3. CASE MaintenanceNext
    BY <2>3 DEF MaintenanceNext, Reconcile, Purge
  <2>4. CASE WorkerNext
    BY <2>4 DEF WorkerNext, Start, JoinRunning, Suppress, StartFails, SaveResult, Complete,
       Fail, Superseded, TaskGone, Interrupted, Crash, BeatReads, HeartStops
  <2>5. CASE EnvironmentNext
    BY <2>5 DEF EnvironmentNext, BeatWrites, HeartbeatAges, QueueAges, DeliveryAges, Lose
  <2> QED
    BY <2>1, <2>2, <2>3, <2>4, <2>5 DEF Next
<1> QED
  BY <1>1, <1>2 DEF RowsInv

LEMMA BagType ==
  ASSUME NEW bag \in [Message -> Nat], NEW m \in Message
  PROVE  /\ Put(bag, m) \in [Message -> Nat]
         /\ bag[m] > 0 => Take(bag, m) \in [Message -> Nat]
         /\ Redeliver(bag, m) \in [Message -> Nat]
         /\ bag[m] > 0 => Redeliver(Take(bag, m), m) \in [Message -> Nat]
<1>1. \A b \in [Message -> Nat] : Put(b, m) \in [Message -> Nat]
  BY DEF Put
<1>2. bag[m] > 0 => Take(bag, m) \in [Message -> Nat]
  BY DEF Take
<1>3. \A b \in [Message -> Nat] : Redeliver(b, m) \in [Message -> Nat]
  <2>1. m.retries < MaxRetries => [m EXCEPT !.retries = @ + 1] \in Message
    BY SystemAssumption DEF Message
  <2> QED
    BY <2>1 DEF Redeliver, Put
<1> QED
  BY <1>1, <1>2, <1>3

LEMMA FirstDeliveryType == \A t \in Task : FirstDelivery(t) \in Message
  BY SystemAssumption DEF FirstDelivery, Message

LEMMA ReleaseType ==
  ASSUME TypeOK, NEW w \in Worker, Release(w)
  PROVE  /\ wpc' \in [Worker -> {"idle", "operating", "saved"}]
         /\ wmsg' \in [Worker -> Message \cup {NoTask}]
         /\ beating' \in [Worker -> BOOLEAN]
  BY DEF TypeOK, Release

LEMMA AfterPublishingType ==
  \A d, S : AfterPublishing(d, S) \in {"idle", "publishing", "purging"}
  BY DEF AfterPublishing

\* Types, one step per action.
LEMMA NextKeepsTypeOK ==
  ASSUME TypeOK, RowsInv, WorkerInv, Next
  PROVE  TypeOK'
<1>0. rows' \in [Task -> Row]
  BY RowsKeepType
<1> USE <1>0 DEF TypeOK, taskVars, workerVars, dispatchVars, Dispatcher
<1>1. CASE ClientNext
  <2>1. ASSUME NEW t \in Task, Cancel(t)
        PROVE  TypeOK'
    BY <2>1 DEF Cancel
  <2>2. ASSUME NEW t \in Task, NEW d \in Caller, Submit(d, t)
        PROVE  TypeOK'
    BY <2>2 DEF Submit
  <2>3. ASSUME NEW t \in Task, NEW d \in Caller, Resubmit(d, t)
        PROVE  TypeOK'
    BY <2>3 DEF Resubmit
  <2> QED
    BY <1>1, <2>1, <2>2, <2>3 DEF ClientNext
<1>2. CASE DispatchNext
  <2>1. ASSUME NEW d \in Dispatcher, ReadPending(d)
        PROVE  TypeOK'
    <3>1. PICK batch \in SUBSET Task :
            /\ todo' = [todo EXCEPT ![d] = batch]
            /\ dpc' = [dpc EXCEPT ![d] = AfterPublishing(d, batch)]
      BY <2>1 DEF ReadPending, Batch, PendingTasks
    <3> QED
      BY <2>1, <3>1, AfterPublishingType DEF ReadPending
  <2>2. ASSUME NEW d \in Dispatcher, NEW t \in Task, Enqueue(d, t)
        PROVE  TypeOK'
    <3>1. broker' \in [Message -> Nat]
      BY <2>2, BagType, FirstDeliveryType DEF Enqueue
    <3> QED
      BY <2>2, <3>1 DEF Enqueue
  <2>3. ASSUME NEW d \in Dispatcher, NEW t \in Task, EnqueueFails(d, t)
        PROVE  TypeOK'
    BY <2>3, AfterPublishingType DEF EnqueueFails
  <2>4. ASSUME NEW d \in Dispatcher, RecordPublished(d)
        PROVE  TypeOK'
    BY <2>4, AfterPublishingType DEF RecordPublished
  <2>5. ASSUME NEW d \in Dispatcher, RecordFails(d)
        PROVE  TypeOK'
    BY <2>5, AfterPublishingType DEF RecordFails
  <2>6. ASSUME NEW d \in Dispatcher, DispatcherDies(d)
        PROVE  TypeOK'
    BY <2>6 DEF DispatcherDies
  <2> QED
    BY <1>2, <2>1, <2>2, <2>3, <2>4, <2>5, <2>6 DEF DispatchNext
<1>3. CASE MaintenanceNext
  <2>1. ASSUME NEW c \in Cycle, NEW stale \in SUBSET Task, NEW expired \in SUBSET Task,
               NEW undelivered \in SUBSET Task, Reconcile(c, stale, expired, undelivered)
        PROVE  TypeOK'
    BY <2>1 DEF Reconcile
  <2>2. ASSUME NEW c \in Cycle, Purge(c)
        PROVE  TypeOK'
    <3>1. PICK old \in SUBSET Task :
            /\ outbox' = [t \in Task |-> IF t \in old THEN "none" ELSE outbox[t]]
            /\ result' = [t \in Task |-> IF t \in old THEN NoResult ELSE result[t]]
      BY <2>2 DEF Purge
    <3> QED
      BY <2>2, <3>1 DEF Purge
  <2> QED
    BY <1>3, <2>1, <2>2 DEF MaintenanceNext
<1>4. CASE WorkerNext
  <2>1. ASSUME NEW w \in Worker, NEW m \in Message,
               Start(w, m) \/ JoinRunning(w, m)
        PROVE  TypeOK'
    <3>1. broker[m] > 0 /\ broker' = Take(broker, m)
      BY <2>1 DEF Start, JoinRunning, Delivered
    <3>2. broker' \in [Message -> Nat]
      BY <3>1, BagType
    <3> QED
      BY <2>1, <3>2 DEF Start, JoinRunning, Execute
  <2>2. ASSUME NEW w \in Worker, NEW m \in Message,
               Suppress(w, m) \/ StartFails(w, m)
        PROVE  TypeOK'
    <3>1. broker' \in [Message -> Nat]
      BY <2>2, BagType DEF Suppress, StartFails, Delivered
    <3> QED
      BY <2>2, <3>1 DEF Suppress, StartFails
  <2>3. ASSUME NEW w \in Worker, SaveResult(w)
        PROVE  TypeOK'
    BY <2>3 DEF SaveResult
  <2>4. ASSUME NEW w \in Worker, Complete(w)
        PROVE  TypeOK'
    BY <2>4, ReleaseType DEF Complete
  <2>5. ASSUME NEW w \in Worker, NEW retryable \in BOOLEAN, Fail(w, retryable)
        PROVE  TypeOK'
    <3>1. broker' \in [Message -> Nat]
      BY <2>5, BagType DEF Fail, WorkerInv
    <3> QED
      BY <2>5, <3>1, ReleaseType DEF Fail
  <2>6. ASSUME NEW w \in Worker, Superseded(w) \/ Interrupted(w)
        PROVE  TypeOK'
    <3>1. broker' \in [Message -> Nat]
      BY <2>6, BagType DEF Superseded, Interrupted, WorkerInv
    <3> QED
      BY <2>6, <3>1, ReleaseType DEF Superseded, Interrupted
  <2>7. ASSUME NEW w \in Worker, TaskGone(w)
        PROVE  TypeOK'
    BY <2>7, ReleaseType DEF TaskGone
  <2>8. ASSUME NEW w \in Worker, Crash(w)
        PROVE  TypeOK'
    <3>1. broker' \in [Message -> Nat]
      BY <2>8, BagType DEF Crash, WorkerInv
    <3> QED
      BY <2>8, <3>1, ReleaseType DEF Crash
  <2>9. ASSUME NEW w \in Worker, BeatReads(w)
        PROVE  TypeOK'
    <3>1. wmsg[w].task \in Task
      BY <2>9 DEF BeatReads, WorkerInv, Message
    <3> QED
      BY ZenonT(60), <2>9, <3>1 DEF BeatReads
  <2>10. ASSUME NEW w \in Worker, HeartStops(w)
         PROVE  TypeOK'
    BY <2>10 DEF HeartStops
  <2> QED
    BY <1>4, <2>1, <2>2, <2>3, <2>4, <2>5, <2>6, <2>7, <2>8, <2>9, <2>10 DEF WorkerNext
<1>5. CASE EnvironmentNext
  <2>1. ASSUME NEW t \in Task,
               BeatWrites(t) \/ HeartbeatAges(t) \/ QueueAges(t) \/ DeliveryAges(t)
        PROVE  TypeOK'
    BY <2>1 DEF BeatWrites, HeartbeatAges, QueueAges, DeliveryAges
  <2>2. ASSUME NEW m \in Message, Lose(m)
        PROVE  TypeOK'
    BY <2>2, BagType DEF Lose
  <2> QED
    BY <1>5, <2>1, <2>2 DEF EnvironmentNext
<1> QED
  BY <1>1, <1>2, <1>3, <1>4, <1>5 DEF Next

LEMMA ReconciledStatus ==
  ASSUME NEW r \in Row
  PROVE  /\ RecoverRow(r).status \in Live
         /\ ExpireRow(r).status \in Live
         /\ RedeliverRow(r).status = r.status
<1>1. RecoverRow(r).status \in Live
  <2>1. CASE r.cancel
    BY <2>1 DEF RecoverRow, Row, Live, Terminal
  <2>2. CASE ~r.cancel /\ HasAttemptsLeft(r)
    BY <2>2 DEF RecoverRow, Row, Live, Terminal
  <2>3. CASE ~r.cancel /\ ~HasAttemptsLeft(r)
    BY <2>3 DEF RecoverRow, Row, Live, Terminal
  <2> QED
    BY <2>1, <2>2, <2>3
<1>2. ExpireRow(r).status \in Live
  BY DEF ExpireRow, Row, Live, Terminal
<1>3. RedeliverRow(r).status = r.status
  BY DEF RedeliverRow, Row
<1> QED
  BY <1>1, <1>2, <1>3

\* What a step does to the stored result of a task.
ResultStep(t) ==
  \/ result'[t] = result[t] /\ (Exists(t) => Exists(t)')
  \/ Exists(t) /\ rows' = rows /\ result'[t] \in Worker
  \/ IsPurgeable(rows[t]) /\ rows'[t] = PurgedRow /\ result'[t] = NoResult

LEMMA NextIsResultStep ==
  ASSUME TypeOK, Next, NEW t \in Task
  PROVE  ResultStep(t)
<1> USE DEF TypeOK
<1>1. ASSUME UNCHANGED result, NEW u, NEW s, SetRow(u, s), s.status \in Live
      PROVE  ResultStep(t)
  BY <1>1 DEF ResultStep, SetRow, Exists
<1>2. ASSUME UNCHANGED <<rows, result>>
      PROVE  ResultStep(t)
  BY <1>2 DEF ResultStep, Exists
<1>3. CASE ClientNext
  <2>1. ASSUME NEW u \in Task, Cancel(u)
        PROVE  ResultStep(t)
    <3>1. CancelRow(rows[u]).status \in Live
      BY <2>1 DEF Cancel, Cancellable, CancelRow, Row, Live, Terminal
    <3> QED
      BY <1>1, <2>1, <3>1 DEF Cancel
  <2>2. ASSUME NEW u \in Task, NEW d \in Caller, Submit(d, u)
        PROVE  ResultStep(t)
    BY <1>1, <2>2 DEF Submit, NewRow, Live
  <2>3. ASSUME NEW u \in Task, NEW d \in Caller, Resubmit(d, u)
        PROVE  ResultStep(t)
    BY <1>2, <2>3 DEF Resubmit, taskVars
  <2> QED
    BY <1>3, <2>1, <2>2, <2>3 DEF ClientNext
<1>4. CASE DispatchNext
  BY <1>2, <1>4 DEF DispatchNext, ReadPending, Enqueue, EnqueueFails, RecordPublished,
     RecordFails, DispatcherDies, taskVars
<1>5. CASE MaintenanceNext
  <2>1. ASSUME NEW c \in Cycle, NEW stale \in SUBSET Task, NEW expired \in SUBSET Task,
               NEW undelivered \in SUBSET Task, Reconcile(c, stale, expired, undelivered)
        PROVE  ResultStep(t)
    <3>1. \A u \in Task : /\ u \in stale => IsStale(rows[u])
                          /\ u \in expired => IsExpired(rows[u])
                          /\ u \in undelivered => IsUndelivered(rows[u])
      BY <2>1 DEF Reconcile, Batch
    <3>2. /\ result' = result
          /\ rows'[t] = IF t \in stale \cup expired \cup undelivered
                          THEN ReconciledRow(rows[t]) ELSE rows[t]
      BY <2>1 DEF Reconcile
    <3>3. CASE t \in stale
      <4>1. rows'[t] = RecoverRow(rows[t])
        <5>1. IsStale(rows[t])
          BY <3>1, <3>3
        <5>2. ~IsExpired(rows[t]) /\ ~IsUndelivered(rows[t])
          BY <5>1 DEF IsStale, IsExpired, IsUndelivered
        <5> QED
          BY <3>2, <3>3, <5>1, <5>2 DEF ReconciledRow
      <4>2. rows'[t].status \in Live
        BY <4>1, ReconciledStatus
      <4> QED
        BY <3>2, <4>2 DEF ResultStep, Exists
    <3>4. CASE t \in expired
      <4>1. rows'[t] = ExpireRow(rows[t])
        <5>1. ~IsStale(rows[t]) /\ IsExpired(rows[t])
          BY <3>1, <3>4 DEF IsStale, IsExpired
        <5>2. ~IsUndelivered(rows[t])
          BY <5>1 DEF IsExpired, IsUndelivered
        <5> QED
          BY <3>2, <3>4, <5>1, <5>2 DEF ReconciledRow
      <4>2. rows'[t].status \in Live
        BY <4>1, ReconciledStatus
      <4> QED
        BY <3>2, <4>2 DEF ResultStep, Exists
    <3>5. CASE t \in undelivered
      <4>1. rows'[t] = RedeliverRow(rows[t]) /\ rows[t].status = "queued"
        <5>1. ~IsStale(rows[t]) /\ ~IsExpired(rows[t]) /\ IsUndelivered(rows[t])
          BY <3>1, <3>5 DEF IsStale, IsExpired, IsUndelivered
        <5> QED
          BY <3>2, <3>5, <5>1 DEF ReconciledRow, IsUndelivered
      <4>2. rows'[t].status = "queued"
        BY <4>1, ReconciledStatus
      <4> QED
        BY <3>2, <4>2 DEF ResultStep, Exists, Live
    <3>6. CASE t \notin stale \cup expired \cup undelivered
      BY <3>2, <3>6 DEF ResultStep, Exists
    <3> QED
      BY <3>3, <3>4, <3>5, <3>6
  <2>2. ASSUME NEW c \in Cycle, Purge(c)
        PROVE  ResultStep(t)
    BY <2>2 DEF Purge, ResultStep, Exists
  <2> QED
    BY <1>5, <2>1, <2>2 DEF MaintenanceNext
<1>6. CASE WorkerNext
  <2>1. ASSUME NEW w \in Worker, NEW m \in Message, Start(w, m)
        PROVE  ResultStep(t)
    <3>1. StartRow(rows[m.task]).status \in Live
      BY DEF StartRow, Row, Live, Message
    <3> QED
      BY <1>1, <2>1, <3>1 DEF Start
  <2>2. ASSUME NEW w \in Worker, Complete(w)
        PROVE  ResultStep(t)
    BY <2>2 DEF Complete, SetRow, CompleteRow, Row, Live, Terminal, ResultStep, Exists
  <2>3. ASSUME NEW w \in Worker, NEW retryable \in BOOLEAN, Fail(w, retryable)
        PROVE  ResultStep(t)
    BY <2>3 DEF Fail, SetRow, FailRow, Row, Live, Terminal, ResultStep, Exists
  <2>4. ASSUME NEW w \in Worker, NEW m \in Message,
               JoinRunning(w, m) \/ Suppress(w, m) \/ StartFails(w, m)
        PROVE  ResultStep(t)
    BY <1>2, <2>4 DEF JoinRunning, Suppress, StartFails, taskVars
  <2>5. ASSUME NEW w \in Worker, SaveResult(w)
        PROVE  ResultStep(t)
    BY <2>5 DEF SaveResult, ResultStep, Exists
  <2>6. ASSUME NEW w \in Worker,
               \/ Superseded(w) \/ TaskGone(w) \/ Interrupted(w)
               \/ Crash(w) \/ BeatReads(w) \/ HeartStops(w)
        PROVE  ResultStep(t)
    BY <1>2, <2>6 DEF Superseded, TaskGone, Interrupted, Crash, BeatReads, HeartStops,
       taskVars
  <2> QED
    BY <1>6, <2>1, <2>2, <2>3, <2>4, <2>5, <2>6 DEF WorkerNext
<1>7. CASE EnvironmentNext
  <2>1. ASSUME NEW u \in Task, BeatWrites(u)
        PROVE  ResultStep(t)
    BY <2>1 DEF BeatWrites, BeatRow, Exists, ResultStep, Row
  <2>2. ASSUME NEW u \in Task, HeartbeatAges(u) \/ QueueAges(u) \/ DeliveryAges(u)
        PROVE  ResultStep(t)
    BY <2>2 DEF HeartbeatAges, QueueAges, DeliveryAges, SetRow, Exists, ResultStep, Row,
       Live
  <2>3. ASSUME NEW m \in Message, Lose(m)
        PROVE  ResultStep(t)
    BY <1>2, <2>3 DEF Lose, taskVars
  <2> QED
    BY <1>7, <2>1, <2>2, <2>3 DEF EnvironmentNext
<1> QED
  BY <1>3, <1>4, <1>5, <1>6, <1>7 DEF Next

-----------------------------------------------------------------------------
(***************************************************************************)
(* The workers, the dispatchers and the stored results.                    *)
(***************************************************************************)
WorkerOK(w) ==
  /\ wpc[w] # "idle" \/ beating[w] => wmsg[w] \in Message
  /\ wpc[w] # "idle" => rows[wmsg[w].task].status # "absent"
  /\ wpc[w] = "saved" /\ Exists(wmsg[w].task) => result[wmsg[w].task] # NoResult

\* Rows do not turn absent and results do not vanish under a worker, whatever
\* the other actors do.
LEMMA UndisturbedWorker ==
  ASSUME TypeOK, RowsInv, WorkerInv, Next, NEW w \in Worker,
         wpc'[w] = wpc[w], wmsg'[w] = wmsg[w], beating'[w] => beating[w]
  PROVE  WorkerOK(w)'
<1>1. CASE wpc[w] = "idle"
  BY <1>1 DEF WorkerInv, WorkerOK
<1>2. CASE wpc[w] # "idle"
  <2> DEFINE t == wmsg[w].task
  <2>1. wmsg[w] \in Message /\ t \in Task /\ rows[t].status # "absent"
    BY <1>2 DEF WorkerInv, Message
  <2>2. rows[t] \in Row
    BY <2>1 DEF TypeOK
  <2>3. RowStep(rows[t], rows'[t], HasResult(t)) /\ ResultStep(t)
    BY <2>1, NextIsRowStep, NextIsResultStep
  <2>4. rows'[t].status # "absent"
    BY <2>1, <2>2, <2>3, RowStepOrder
  <2>5. Exists(t)' => Exists(t)
    BY <2>1, <2>2, <2>3, RowStepOrder DEF Exists, Row, Status, Live, Terminal
  <2>6. ASSUME wpc[w] = "saved", Exists(t)'
        PROVE  result'[t] # NoResult
    <3>1. result[t] # NoResult
      BY <2>5, <2>6 DEF WorkerInv
    <3>2. rows'[t] # PurgedRow
      BY <2>6 DEF Exists, PurgedRow, NewRow, Live, Terminal
    <3> QED
      BY <2>3, <3>1, <3>2, SystemAssumption DEF ResultStep
  <2> QED
    BY <1>2, <2>1, <2>4, <2>6 DEF WorkerOK, Exists
<1> QED
  BY <1>1, <1>2

LEMMA NextKeepsWorkerInv ==
  ASSUME TypeOK, RowsInv, WorkerInv, Next
  PROVE  WorkerInv'
<1> SUFFICES ASSUME NEW w \in Worker
             PROVE  WorkerOK(w)'
  BY DEF WorkerInv, WorkerOK, Exists
<1>1. CASE wpc'[w] = wpc[w] /\ wmsg'[w] = wmsg[w] /\ (beating'[w] => beating[w])
  BY <1>1, UndisturbedWorker
<1>2. CASE wpc'[w] = "idle" /\ ~beating'[w]
  BY <1>2 DEF WorkerOK
<1>3. ASSUME NEW v \in Worker, Release(v)
      PROVE  WorkerOK(w)'
  BY <1>1, <1>2, <1>3 DEF Release, TypeOK
<1>4. ASSUME UNCHANGED <<wpc, wmsg, beating>>
      PROVE  WorkerOK(w)'
  BY <1>1, <1>4
<1>5. CASE ClientNext \/ DispatchNext \/ MaintenanceNext \/ EnvironmentNext
  BY ZenonT(60), <1>4, <1>5 DEF ClientNext, Cancel, Submit, Resubmit, DispatchNext, ReadPending,
     Enqueue, EnqueueFails, RecordPublished, RecordFails, DispatcherDies,
     MaintenanceNext, Reconcile, Purge, EnvironmentNext, BeatWrites, HeartbeatAges,
     QueueAges, DeliveryAges, Lose, workerVars
<1>6. CASE WorkerNext
  <2>1. ASSUME NEW v \in Worker, NEW m \in Message, Start(v, m) \/ JoinRunning(v, m)
        PROVE  WorkerOK(w)'
    <3>1. CASE v = w
      <4>1. /\ m.task \in Task /\ rows[m.task] \in Row
            /\ rows[m.task].status \in {"queued", "running"}
        BY <2>1 DEF TypeOK, Message, Start, JoinRunning
      <4>2. rows'[m.task].status # "absent"
        BY <4>1, NextIsRowStep, RowStepOrder
      <4>3. wpc'[w] = "operating" /\ wmsg'[w] = m
        BY <2>1, <3>1 DEF Start, JoinRunning, Execute, TypeOK
      <4> QED
        BY <4>2, <4>3 DEF WorkerOK
    <3>2. CASE v # w
      BY <1>1, <2>1, <3>2 DEF Start, JoinRunning, Execute, TypeOK
    <3> QED
      BY <3>1, <3>2
  <2>2. ASSUME NEW v \in Worker, NEW m \in Message, Suppress(v, m) \/ StartFails(v, m)
        PROVE  WorkerOK(w)'
    BY <1>4, <2>2 DEF Suppress, StartFails, workerVars
  <2>3. ASSUME NEW v \in Worker, SaveResult(v)
        PROVE  WorkerOK(w)'
    <3>1. CASE v = w
      <4>1. wpc[w] = "operating" /\ wmsg[w] \in Message /\ wmsg[w].task \in Task
              /\ rows[wmsg[w].task].status # "absent"
        BY <2>3, <3>1 DEF SaveResult, WorkerInv, Message
      <4>2. rows' = rows /\ wmsg' = wmsg /\ result'[wmsg[w].task] = w
        BY <2>3, <3>1, <4>1 DEF SaveResult, TypeOK
      <4> QED
        BY <4>1, <4>2, SystemAssumption DEF WorkerOK
    <3>2. CASE v # w
      BY <1>1, <2>3, <3>2 DEF SaveResult, TypeOK
    <3> QED
      BY <3>1, <3>2
  <2>4. ASSUME NEW v \in Worker, NEW retryable \in BOOLEAN,
               \/ Complete(v) \/ Fail(v, retryable) \/ Superseded(v) \/ TaskGone(v)
               \/ Interrupted(v) \/ Crash(v)
        PROVE  WorkerOK(w)'
    BY <1>3, <2>4 DEF Complete, Fail, Superseded, TaskGone, Interrupted, Crash
  <2>5. ASSUME NEW v \in Worker, BeatReads(v) \/ HeartStops(v)
        PROVE  WorkerOK(w)'
    BY <1>1, <2>5 DEF BeatReads, HeartStops, TypeOK
  <2> QED
    BY <1>6, <2>1, <2>2, <2>3, <2>4, <2>5 DEF WorkerNext
<1> QED
  BY <1>5, <1>6 DEF Next

LEMMA NextKeepsSucceededHasResult ==
  ASSUME TypeOK, RowsInv, WorkerInv, SucceededHasResult, Next
  PROVE  SucceededHasResult'
<1> SUFFICES ASSUME NEW t \in Task, rows'[t].status = "succeeded"
             PROVE  result'[t] # NoResult
  BY DEF SucceededHasResult, Poll
<1>1. rows[t] \in Row /\ RowStep(rows[t], rows'[t], HasResult(t)) /\ ResultStep(t)
  BY NextIsRowStep, NextIsResultStep DEF TypeOK
<1>2. result[t] # NoResult
  BY <1>1, RowStepOrder DEF HasResult, SucceededHasResult, Poll
<1>3. rows'[t] # PurgedRow
  BY DEF PurgedRow, NewRow
<1> QED
  BY <1>1, <1>2, <1>3, SystemAssumption DEF ResultStep

\* An outbox record turns "published" only in RecordPublished, for the task whose
\* message that dispatcher has just enqueued.
LEMMA NextKeepsPublished ==
  ASSUME TypeOK, DispatcherInv, PublishedWasAccepted, Next
  PROVE  DispatcherInv' /\ PublishedWasAccepted'
<1> USE DEF TypeOK, Dispatcher, DispatcherInv, PublishedWasAccepted
<1> DEFINE Goal == DispatcherInv' /\ PublishedWasAccepted'
<1>1. ASSUME UNCHANGED dispatchVars,
             \A t \in Task : outbox'[t] = "published" => outbox[t] = "published"
      PROVE  Goal
  BY <1>1 DEF dispatchVars
<1>2. CASE ClientNext
  <2>1. ASSUME NEW t \in Task, Cancel(t)
        PROVE  Goal
    BY <1>1, <2>1 DEF Cancel
  <2>2. ASSUME NEW t \in Task, NEW d \in Caller, Submit(d, t) \/ Resubmit(d, t)
        PROVE  Goal
    BY <2>2 DEF Submit, Resubmit, taskVars
  <2> QED
    BY <1>2, <2>1, <2>2 DEF ClientNext
<1>3. CASE DispatchNext
  <2>1. ASSUME NEW d \in Dispatcher, ReadPending(d)
        PROVE  Goal
    <3>1. PICK batch \in SUBSET Task : dpc' = [dpc EXCEPT ![d] = AfterPublishing(d, batch)]
      BY <2>1 DEF ReadPending, Batch, PendingTasks
    <3> QED
      BY <2>1, <3>1, AfterPublishingType DEF ReadPending, taskVars
  <2>2. ASSUME NEW d \in Dispatcher, NEW t \in Task, Enqueue(d, t)
        PROVE  Goal
    BY <2>2 DEF Enqueue, taskVars
  <2>3. ASSUME NEW d \in Dispatcher, NEW t \in Task, EnqueueFails(d, t)
        PROVE  Goal
    BY <2>3, AfterPublishingType DEF EnqueueFails, taskVars
  <2>4. ASSUME NEW d \in Dispatcher, RecordPublished(d)
        PROVE  Goal
    <3>1. inhand[d] \in accepted
      BY <2>4 DEF RecordPublished
    <3>2. PublishedWasAccepted'
      BY <2>4, <3>1 DEF RecordPublished
    <3>3. DispatcherInv'
      BY <2>4, AfterPublishingType DEF RecordPublished
    <3> QED
      BY <3>2, <3>3
  <2>5. ASSUME NEW d \in Dispatcher, RecordFails(d) \/ DispatcherDies(d)
        PROVE  Goal
    BY <2>5, AfterPublishingType DEF RecordFails, DispatcherDies, taskVars
  <2> QED
    BY <1>3, <2>1, <2>2, <2>3, <2>4, <2>5 DEF DispatchNext
<1>4. CASE MaintenanceNext
  <2>1. ASSUME NEW c \in Cycle, NEW stale \in SUBSET Task, NEW expired \in SUBSET Task,
               NEW undelivered \in SUBSET Task, Reconcile(c, stale, expired, undelivered)
        PROVE  Goal
    BY <2>1 DEF Reconcile
  <2>2. ASSUME NEW c \in Cycle, Purge(c)
        PROVE  Goal
    <3>1. PICK old \in SUBSET Task :
            outbox' = [t \in Task |-> IF t \in old THEN "none" ELSE outbox[t]]
      BY <2>2 DEF Purge
    <3> QED
      BY <2>2, <3>1 DEF Purge
  <2> QED
    BY <1>4, <2>1, <2>2 DEF MaintenanceNext
<1>5. CASE WorkerNext
  <2>1. UNCHANGED <<outbox, dispatchVars>>
    BY <1>5 DEF WorkerNext, Start, JoinRunning, Suppress, StartFails, SaveResult,
       Complete, Fail, Superseded, TaskGone, Interrupted, Crash, BeatReads, HeartStops,
       taskVars
  <2> QED
    BY <1>1, <2>1
<1>6. CASE EnvironmentNext
  <2>1. UNCHANGED <<outbox, dispatchVars>>
    BY <1>6 DEF EnvironmentNext, BeatWrites, HeartbeatAges, QueueAges, DeliveryAges, Lose,
       taskVars
  <2> QED
    BY <1>1, <2>1
<1> QED
  BY <1>2, <1>3, <1>4, <1>5, <1>6 DEF Next

-----------------------------------------------------------------------------
(***************************************************************************)
(* The invariant and what follows from it.                                 *)
(***************************************************************************)
LEMMA InitIsIInv ==
  ASSUME Init
  PROVE  IInv
<1> USE DEF Init
<1>1. TypeOK
  BY MissingRowType, SystemAssumption DEF TypeOK
<1>2. RowsInv
  BY DEF RowsInv, RowInv, AbsentRow, NewRow, Live, Terminal
<1>3. WorkerInv
  BY DEF WorkerInv
<1>4. DispatcherInv
  BY DEF DispatcherInv
<1>5. SucceededHasResult
  BY DEF SucceededHasResult, AbsentRow, NewRow
<1>6. PublishedWasAccepted
  BY DEF PublishedWasAccepted
<1> QED
  BY <1>1, <1>2, <1>3, <1>4, <1>5, <1>6 DEF IInv

LEMMA NextKeepsIInv ==
  ASSUME IInv, [Next]_vars
  PROVE  IInv'
<1>1. CASE Next
  BY <1>1, NextKeepsTypeOK, RowsKeepType, NextKeepsWorkerInv, NextKeepsPublished,
     NextKeepsSucceededHasResult DEF IInv
<1>2. CASE UNCHANGED vars
  BY <1>2 DEF IInv, TypeOK, RowsInv, WorkerInv, DispatcherInv, SucceededHasResult, Poll,
     PublishedWasAccepted, Exists, vars, taskVars, workerVars, dispatchVars
<1> QED
  BY <1>1, <1>2

\* IInv holds in every reachable state, for every value of the constants.
THEOREM Invariance == Spec => []IInv
  BY InitIsIInv, NextKeepsIInv, PTL DEF Spec

\* Every variable keeps its type (TypeOK); among them no attempt counter passes
\* MaxAttempts and no broker count goes below zero.
THEOREM TypeCorrect == Spec => []TypeOK
<1>1. IInv => TypeOK
  BY DEF IInv
<1> QED
  BY <1>1, Invariance, PTL

\* Queued and running tasks stay within their attempts (AttemptBudget).
THEOREM AttemptsAreBounded == Spec => []AttemptBudget
<1>1. IInv => AttemptBudget
  BY DEF IInv, RowsInv, RowInv, AttemptBudget
<1> QED
  BY <1>1, Invariance, PTL

\* A task whose cancellation was asked for is running or cancelled (CancellationWins).
THEOREM CancellationIsNotOverruled == Spec => []CancellationWins
<1>1. IInv => CancellationWins
  BY DEF IInv, RowsInv, RowInv, CancellationWins, Exists
<1> QED
  BY <1>1, Invariance, PTL

\* Outcome, error code and finished_at agree in every row (OutcomeIsRecorded).
THEOREM OutcomesAreRecorded == Spec => []OutcomeIsRecorded
<1>1. IInv => OutcomeIsRecorded
  BY DEF IInv, RowsInv, RowInv, OutcomeIsRecorded, Exists
<1> QED
  BY <1>1, Invariance, PTL

\* Attempts, cancellation and outcome of every row agree (RowsAreConsistent).
THEOREM RowsStayConsistent == Spec => []RowsAreConsistent
<1>1. AttemptBudget /\ CancellationWins /\ OutcomeIsRecorded => RowsAreConsistent
  BY DEF RowsAreConsistent
<1> QED
  BY <1>1, AttemptsAreBounded, CancellationIsNotOverruled, OutcomesAreRecorded, PTL

\* A poller of a succeeded task is given a result (SucceededHasResult).
THEOREM ResultsAreThere == Spec => []SucceededHasResult
<1>1. IInv => SucceededHasResult
  BY DEF IInv
<1> QED
  BY <1>1, Invariance, PTL

\* A published outbox record stands for an accepted message (PublishedWasAccepted).
THEOREM PublicationsAreReal == Spec => []PublishedWasAccepted
<1>1. IInv => PublishedWasAccepted
  BY DEF IInv
<1> QED
  BY <1>1, Invariance, PTL

\* No step changes the status of an ended task but its deletion (EndedIsFinal).
THEOREM EndedTasksStayEnded == Spec => EndedIsFinal
<1> DEFINE Kept == \A t \in Task : rows[t].status \in Terminal =>
                                     rows'[t].status \in {rows[t].status, "purged"}
<1>1. ASSUME IInv, [Next]_vars
      PROVE  [Kept]_vars
  <2>1. CASE Next
    <3>1. ASSUME NEW t \in Task, rows[t].status \in Terminal
          PROVE  rows'[t].status \in {rows[t].status, "purged"}
      <4>1. rows[t] \in Row /\ RowStep(rows[t], rows'[t], HasResult(t))
        BY <1>1, <2>1, NextIsRowStep DEF IInv, TypeOK
      <4> QED
        BY <3>1, <4>1, RowStepOrder
    <3> QED
      BY <3>1
  <2> QED
    BY <1>1, <2>1
<1> QED
  BY <1>1, Invariance, PTL DEF Spec, EndedIsFinal

-----------------------------------------------------------------------------
(***************************************************************************)
(* The system implements the contract.                                     *)
(***************************************************************************)
LifeAs(r, answered) ==
  [status |-> r.status, attempts |-> r.attempts, cancel |-> r.cancel,
   answered |-> answered]

\* A row step that leaves the stored result alone is a move of the contract, or
\* one that a client cannot see.
LEMMA RowStepIsMove ==
  ASSUME NEW r \in Row, NEW s, NEW answered \in BOOLEAN,
         RowInv(r), RowStep(r, s, answered),
         r.status \in Live => s.status \in Live
  PROVE  \/ Contract!Move(LifeAs(r, answered), LifeAs(s, answered))
         \/ LifeAs(s, answered) = LifeAs(r, answered)
<1> DEFINE a == LifeAs(r, answered)
           b == LifeAs(s, answered)
           Goal == Contract!Move(a, b) \/ b = a
<1> USE DEF LifeAs, Row, Live, Terminal
<1>1. CASE s = r
  BY <1>1
<1>2. CASE r.status = "absent" /\ s = NewRow
  <2>1. r = AbsentRow
    BY <1>2 DEF RowInv
  <2>2. r.attempts = 0 /\ r.cancel = FALSE
    BY <2>1 DEF AbsentRow, NewRow
  <2>3. s.status = "queued" /\ s.attempts = r.attempts /\ s.cancel = r.cancel
    BY <1>2, <2>2 DEF NewRow
  <2>4. Contract!Submitted(a, b)
    BY <1>2, <2>3 DEF Contract!Submitted, Contract!Keeps
  <2> QED
    BY <2>4 DEF Contract!Move
<1>3. CASE r.status = "queued" /\ s = StartRow(r)
  <2>0. s.status = "running" /\ s.attempts = r.attempts + 1 /\ s.cancel = r.cancel
    BY <1>3 DEF StartRow
  <2>1. Contract!Begun(a, b)
    BY <1>3, <2>0 DEF Contract!Begun, Contract!Keeps, RowInv
  <2> QED
    BY <2>1 DEF Contract!Move
<1>4. CASE r.status = "running" /\ answered /\ s = CompleteRow(r)
  <2>1. CASE r.cancel
    <3>0. s.status = "cancelled" /\ s.attempts = r.attempts /\ s.cancel = r.cancel
      BY <1>4, <2>1 DEF CompleteRow
    <3>1. Contract!Cancelled(a, b)
      BY <1>4, <2>1, <3>0 DEF Contract!Cancelled, Contract!Keeps
    <3> QED
      BY <3>1 DEF Contract!Move
  <2>2. CASE ~r.cancel
    <3>0. s.status = "succeeded" /\ s.attempts = r.attempts /\ s.cancel = r.cancel
      BY <1>4, <2>2 DEF CompleteRow
    <3>1. Contract!Succeeded(a, b)
      BY <1>4, <2>2, <3>0 DEF Contract!Succeeded, Contract!Keeps
    <3> QED
      BY <3>1 DEF Contract!Move
  <2> QED
    BY <2>1, <2>2
<1>5. ASSUME NEW retryable \in BOOLEAN, r.status = "running", s = FailRow(r, retryable)
      PROVE  Goal
  <2>1. CASE r.cancel
    <3>0. s.status = "cancelled" /\ s.attempts = r.attempts /\ s.cancel = r.cancel
      BY <1>5, <2>1 DEF FailRow
    <3>1. Contract!Cancelled(a, b)
      BY <1>5, <2>1, <3>0 DEF Contract!Cancelled, Contract!Keeps
    <3> QED
      BY <3>1 DEF Contract!Move
  <2>2. CASE ~r.cancel /\ CanRetry(r, retryable)
    <3>0. s.status = "queued" /\ s.attempts = r.attempts /\ s.cancel = r.cancel
      BY <1>5, <2>2 DEF FailRow, CanRetry, HasAttemptsLeft
    <3>1. r.attempts < MaxAttempts
      BY <2>2 DEF CanRetry, HasAttemptsLeft
    <3>2. Contract!Retried(a, b)
      BY <1>5, <2>2, <3>0, <3>1 DEF Contract!Retried, Contract!Keeps
    <3> QED
      BY <3>2 DEF Contract!Move
  <2>3. CASE ~r.cancel /\ ~CanRetry(r, retryable)
    <3>0. s.status = "failed" /\ s.attempts = r.attempts /\ s.cancel = r.cancel
      BY <1>5, <2>3 DEF FailRow
    <3>1. Contract!Failed(a, b)
      BY <1>5, <2>3, <3>0 DEF Contract!Failed, Contract!Keeps, Contract!Open
    <3> QED
      BY <3>1 DEF Contract!Move
  <2> QED
    BY <2>1, <2>2, <2>3
<1>6. CASE Cancellable(r) /\ s = CancelRow(r)
  <2>1. CASE r.status = "running"
    <3>0. s.status = "running" /\ s.attempts = r.attempts /\ s.cancel = TRUE
      BY <1>6, <2>1 DEF CancelRow
    <3>1. Contract!CancelAsked(a, b)
      BY <1>6, <2>1, <3>0 DEF Contract!CancelAsked, Contract!Keeps
    <3> QED
      BY <3>1 DEF Contract!Move
  <2>2. CASE r.status = "queued"
    <3>0. s.status = "cancelled" /\ s.attempts = r.attempts /\ s.cancel = TRUE
      BY <1>6, <2>2 DEF CancelRow
    <3>1. Contract!Cancelled(a, b)
      BY <1>6, <2>2, <3>0 DEF Contract!Cancelled, Contract!Keeps
    <3> QED
      BY <3>1 DEF Contract!Move
  <2> QED
    BY <1>6, <2>1, <2>2 DEF Cancellable
<1>7. CASE r.status \in Live /\ s = BeatRow(r)
  BY <1>7 DEF BeatRow
<1>8. CASE IsStale(r) /\ s = RecoverRow(r)
  <2>1. CASE r.cancel
    <3>0. s.status = "cancelled" /\ s.attempts = r.attempts /\ s.cancel = r.cancel
      BY <1>8, <2>1 DEF IsStale, RecoverRow
    <3>1. Contract!Cancelled(a, b)
      BY <1>8, <2>1, <3>0 DEF Contract!Cancelled, Contract!Keeps, IsStale
    <3> QED
      BY <3>1 DEF Contract!Move
  <2>2. CASE ~r.cancel /\ HasAttemptsLeft(r)
    <3>0. s.status = "queued" /\ s.attempts = r.attempts /\ s.cancel = r.cancel
      BY <1>8, <2>2 DEF IsStale, RecoverRow, HasAttemptsLeft
    <3>1. Contract!Retried(a, b)
      BY <1>8, <2>2, <3>0 DEF Contract!Retried, Contract!Keeps, IsStale, HasAttemptsLeft
    <3> QED
      BY <3>1 DEF Contract!Move
  <2>3. CASE ~r.cancel /\ ~HasAttemptsLeft(r)
    <3>0. s.status = "failed" /\ s.attempts = r.attempts /\ s.cancel = r.cancel
      BY <1>8, <2>3 DEF IsStale, RecoverRow
    <3>1. Contract!Failed(a, b)
      BY <1>8, <2>3, <3>0 DEF Contract!Failed, Contract!Keeps, Contract!Open, IsStale
    <3> QED
      BY <3>1 DEF Contract!Move
  <2> QED
    BY <2>1, <2>2, <2>3
<1>9. CASE IsExpired(r) /\ s = ExpireRow(r)
  <2>0. s.status = "failed" /\ s.attempts = r.attempts /\ s.cancel = r.cancel
    BY <1>9 DEF ExpireRow
  <2>1. Contract!Failed(a, b)
    BY <1>9, <2>0 DEF Contract!Failed, Contract!Keeps, Contract!Open, IsExpired, RowInv
  <2> QED
    BY <2>1 DEF Contract!Move
<1>10. CASE IsUndelivered(r) /\ s = RedeliverRow(r)
  BY <1>10 DEF RedeliverRow
<1>11. CASE IsPurgeable(r) /\ s = PurgedRow
  BY <1>11 DEF IsPurgeable, PurgedRow, NewRow
<1>12. CASE r.status = "running" /\ s = [r EXCEPT !.heartbeat = "stale"]
  BY <1>12
<1>13. CASE r.status = "queued" /\ s = [r EXCEPT !.overdue = TRUE]
  BY <1>13
<1>14. CASE r.status = "queued" /\ s = [r EXCEPT !.quiet = TRUE]
  BY <1>14
<1> QED
  BY <1>1, <1>2, <1>3, <1>4, <1>5, <1>6, <1>7, <1>8, <1>9, <1>10, <1>11, <1>12, <1>13,
     <1>14 DEF RowStep

\* Every step of the system moves the life of every task as the contract says.
LEMMA NextIsMove ==
  ASSUME IInv, Next, NEW t \in Task
  PROVE  Contract!Move(LifeOf(t), LifeOf(t)') \/ LifeOf(t)' = LifeOf(t)
<1>1. /\ rows[t] \in Row
      /\ RowInv(rows[t])
      /\ RowStep(rows[t], rows'[t], HasResult(t))
      /\ ResultStep(t)
  BY NextIsRowStep, NextIsResultStep DEF IInv, TypeOK, RowsInv
<1>2. CASE result'[t] = result[t] /\ (Exists(t) => Exists(t)')
  <2>1. HasResult(t) \in BOOLEAN
    BY DEF HasResult
  <2>2. rows[t].status \in Live => rows'[t].status \in Live
    BY <1>2 DEF Exists
  <2>3. LifeOf(t) = LifeAs(rows[t], HasResult(t))
    BY DEF LifeOf, LifeAs, HasResult
  <2>4. LifeOf(t)' = LifeAs(rows'[t], HasResult(t))
    BY <1>2 DEF LifeOf, LifeAs, HasResult
  <2> QED
    BY <1>1, <2>1, <2>2, <2>3, <2>4, RowStepIsMove
<1>3. CASE Exists(t) /\ rows' = rows /\ result'[t] \in Worker
  <2>1. result'[t] # NoResult
    BY <1>3, SystemAssumption
  <2>2. LifeOf(t)'.answered
    BY <2>1 DEF LifeOf
  <2>3. LifeOf(t).status \in Contract!Open \cup Contract!Ended
    BY <1>3 DEF LifeOf, Contract!Open, Contract!Ended, Exists, Live, Terminal
  <2>4. Contract!Keeps(LifeOf(t), LifeOf(t)', {"status", "attempts", "cancel"})
    BY <1>3 DEF Contract!Keeps, LifeOf
  <2>5. Contract!Answered(LifeOf(t), LifeOf(t)')
    BY <2>2, <2>3, <2>4 DEF Contract!Answered
  <2> QED
    BY <2>5 DEF Contract!Move
<1>4. CASE IsPurgeable(rows[t]) /\ rows'[t] = PurgedRow /\ result'[t] = NoResult
  <2>0. rows'[t].status = "purged" /\ rows'[t].attempts = 0 /\ rows'[t].cancel = FALSE
    BY <1>4 DEF PurgedRow, NewRow
  <2>1. LifeOf(t)' = Contract!Forgotten
    BY <1>4, <2>0 DEF LifeOf, Contract!Forgotten
  <2>2. Contract!Purged(LifeOf(t), LifeOf(t)')
    BY <1>4, <2>1 DEF Contract!Purged, Contract!Ended, IsPurgeable, Terminal, LifeOf
  <2> QED
    BY <2>2 DEF Contract!Move
<1> QED
  BY <1>1, <1>2, <1>3, <1>4 DEF ResultStep

\* Whatever the broker, the outbox, the workers and the clocks do, a client sees
\* TaskContract (ImplementsContract).
THEOREM SystemImplementsContract == Spec => ImplementsContract
<1> DEFINE life == [t \in Task |-> LifeOf(t)]
<1>1. ASSUME Init
      PROVE  Contract!Init
  <2>1. /\ AbsentRow.status = "absent"
        /\ AbsentRow.attempts = 0
        /\ AbsentRow.cancel = FALSE
    BY DEF AbsentRow, NewRow
  <2>2. \A t \in Task : LifeOf(t) = Contract!Unborn
    BY <1>1, <2>1 DEF Init, LifeOf, Contract!Unborn
  <2> QED
    BY <2>2 DEF Contract!Init
<1>2. ASSUME IInv, IInv', [Next]_vars
      PROVE  [Contract!Next]_life
  <2>1. CASE Next
    <3>1. \A t \in Task : Contract!Move(life[t], life'[t]) \/ life'[t] = life[t]
      BY <1>2, <2>1, NextIsMove
    <3>2. life' \in [Task -> Contract!Life]
      <4>1. \A t \in Task : rows'[t] \in Row
        BY <1>2 DEF IInv, TypeOK
      <4> QED
        BY <4>1 DEF LifeOf, Contract!Life, Contract!Open, Contract!Ended, Row, Status, Live,
           Terminal
    <3> QED
      BY <3>1, <3>2 DEF Contract!Next
  <2>2. CASE UNCHANGED vars
    BY <2>2 DEF vars, taskVars, LifeOf
  <2> QED
    BY <1>2, <2>1, <2>2
<1> QED
  BY <1>1, <1>2, Invariance, PTL DEF Spec, ImplementsContract, Contract!Spec
=============================================================================
