--------------------------- MODULE DiscoveryTasks ---------------------------
(***************************************************************************)
(* Durable job-discovery tasks, end to end: the API that creates, cancels  *)
(* and polls them, the transactional outbox, the Redis/Dramatiq broker,    *)
(* the workers that run the search, their heartbeat threads, and the       *)
(* scheduled maintenance cycle.                                            *)
(*                                                                         *)
(* One action is one database transaction, one call of the broker, or one  *)
(* failure between two of them.  PostgreSQL runs these transactions at     *)
(* READ COMMITTED and each locks the task row it decides on, so a          *)
(* transaction is atomic; heartbeat, which does not lock, is two actions.  *)
(***************************************************************************)
EXTENDS TaskRows, FiniteSets, FiniteSetsExt

CONSTANTS
  Task,         \* the ids of tasks; an id is issued once
  Worker,       \* the worker threads of all Dramatiq processes
  Caller,       \* the API request threads that create tasks
  Cycle,        \* the maintenance actors that may run at the same time
  MaxRetries,   \* worker_max_retries: Dramatiq's redeliveries of one message
  BatchLimit,   \* task_maintenance_batch_size
  MaxCopies,    \* bound: copies of a task's message that exist at one time
  MaxCrashes,   \* bound: worker processes killed in one behaviour
  NoTask,       \* a dispatcher is not publishing anything
  NoResult      \* no discovery result is stored

ASSUME SystemAssumption ==
  /\ MaxRetries \in Nat
  /\ BatchLimit \in Nat \ {0}
  /\ MaxCopies \in Nat
  /\ MaxCrashes \in Nat
  /\ NoTask \notin Task
  /\ NoResult \notin Worker
  /\ Caller \cap Cycle = {}

Dispatcher == Caller \cup Cycle

\* A Dramatiq message carries the task id; Dramatiq counts its redeliveries.
Message == [task : Task, retries : 0..MaxRetries]

VARIABLES
  rows,      \* background_tasks
  outbox,    \* task_outbox, one record per task row: pending or published
  result,    \* job_discovery_tasks.result_*: the worker whose search is stored
  broker,    \* the bag of messages waiting in Redis
  wpc,       \* where each worker is in BackgroundTaskRunner.run
  wmsg,      \* the message each worker took last
  beating,   \* is the worker's heartbeat loop alive?
  beats,     \* tasks whose heartbeat has been decided and not yet written
  dpc,       \* where each dispatcher is
  todo,      \* the pending messages a dispatcher read and has not published yet
  inhand,    \* the task whose message a dispatcher has just enqueued
  accepted,  \* history: the tasks of which the broker ever accepted a message
  crashes    \* worker processes killed so far

taskVars == <<rows, outbox, result>>
workerVars == <<wpc, wmsg, beating, beats, crashes>>
dispatchVars == <<dpc, todo, inhand, accepted>>
vars == <<taskVars, broker, workerVars, dispatchVars>>

-----------------------------------------------------------------------------
TypeOK ==
  /\ rows \in [Task -> Row]
  /\ outbox \in [Task -> {"none", "pending", "published"}]
  /\ result \in [Task -> Worker \cup {NoResult}]
  /\ broker \in [Message -> Nat]
  /\ wpc \in [Worker -> {"idle", "operating", "saved"}]
  /\ wmsg \in [Worker -> Message \cup {NoTask}]
  /\ beating \in [Worker -> BOOLEAN]
  /\ beats \in SUBSET Task
  /\ dpc \in [Dispatcher -> {"idle", "reading", "publishing", "recording", "purging"}]
  /\ todo \in [Dispatcher -> SUBSET Task]
  /\ inhand \in [Dispatcher -> Task \cup {NoTask}]
  /\ accepted \in SUBSET Task
  /\ crashes \in Nat

Init ==
  /\ rows = [t \in Task |-> AbsentRow]
  /\ outbox = [t \in Task |-> "none"]
  /\ result = [t \in Task |-> NoResult]
  /\ broker = [m \in Message |-> 0]
  /\ wpc = [w \in Worker |-> "idle"]
  /\ wmsg = [w \in Worker |-> NoTask]
  /\ beating = [w \in Worker |-> FALSE]
  /\ beats = {}
  /\ dpc = [d \in Dispatcher |-> "idle"]
  /\ todo = [d \in Dispatcher |-> {}]
  /\ inhand = [d \in Dispatcher |-> NoTask]
  /\ accepted = {}
  /\ crashes = 0

-----------------------------------------------------------------------------
(***************************************************************************)
(* Rows and messages.                                                      *)
(***************************************************************************)
Exists(t) == rows[t].status \in Live

SetRow(t, r) == rows' = [rows EXCEPT ![t] = r]

\* get_pending_for_task and list_pending: unpublished and still queued
PendingTasks == {t \in Task : outbox[t] = "pending" /\ rows[t].status = "queued"}

Put(bag, m) == [bag EXCEPT ![m] = @ + 1]

Take(bag, m) == [bag EXCEPT ![m] = @ - 1]

FirstDelivery(t) == [task |-> t, retries |-> 0]

\* The next redelivery of a message whose actor raised, while Dramatiq's
\* Retries middleware allows one; the message is discarded otherwise.
Redeliver(bag, m) ==
  IF m.retries < MaxRetries THEN Put(bag, [m EXCEPT !.retries = @ + 1]) ELSE bag

HeldBy(t) == {w \in Worker : wpc[w] # "idle" /\ wmsg[w].task = t}

Copies(t) ==
  MapThenSumSet(LAMBDA k : broker[[task |-> t, retries |-> k]], 0..MaxRetries)
    + Cardinality(HeldBy(t))

\* The subsets that one LIMIT n query can return from the rows S; the order
\* it sorts them by is abstracted to any choice.
Batch(S, n) ==
  {B \in SUBSET S : IF Cardinality(S) <= n THEN B = S ELSE Cardinality(B) = n}

-----------------------------------------------------------------------------
(***************************************************************************)
(* The API (api/services/job_discovery_tasks.py).                          *)
(***************************************************************************)
\* create's transaction: the task, its discovery request and its outbox record
Submit(d, t) ==
  /\ dpc[d] = "idle"
  /\ rows[t].status = "absent"
  /\ SetRow(t, NewRow)
  /\ outbox' = [outbox EXCEPT ![t] = "pending"]
  /\ dpc' = [dpc EXCEPT ![d] = "reading"]
  /\ todo' = [todo EXCEPT ![d] = {t}]
  /\ UNCHANGED <<result, broker, workerVars, inhand, accepted>>

\* create with a key already used: the existing task is returned, and
\* dispatched again when it is still queued
Resubmit(d, t) ==
  /\ dpc[d] = "idle"
  /\ rows[t].status = "queued"
  /\ dpc' = [dpc EXCEPT ![d] = "reading"]
  /\ todo' = [todo EXCEPT ![d] = {t}]
  /\ UNCHANGED <<taskVars, broker, workerVars, inhand, accepted>>

Cancel(t) ==
  /\ Cancellable(rows[t])
  /\ SetRow(t, CancelRow(rows[t]))
  /\ UNCHANGED <<outbox, result, broker, workerVars, dispatchVars>>

\* get: what a poller is shown, the result only once the task succeeded
Poll(t) == IF rows[t].status = "succeeded" THEN result[t] ELSE NoResult

-----------------------------------------------------------------------------
(***************************************************************************)
(* The outbox dispatcher (workers/outbox.py), run by an API request for    *)
(* its own task and by the maintenance cycle for a batch.                  *)
(***************************************************************************)
AfterPublishing(d, rest) ==
  IF rest # {} THEN "publishing" ELSE IF d \in Cycle THEN "purging" ELSE "idle"

ReadPending(d) ==
  /\ dpc[d] = "reading"
  /\ \E batch \in IF d \in Caller THEN {todo[d] \cap PendingTasks}
                                  ELSE Batch(PendingTasks, BatchLimit) :
       /\ todo' = [todo EXCEPT ![d] = batch]
       /\ dpc' = [dpc EXCEPT ![d] = AfterPublishing(d, batch)]
  /\ UNCHANGED <<taskVars, broker, workerVars, inhand, accepted>>

\* publisher.enqueue: Redis accepts the message
Enqueue(d, t) ==
  /\ dpc[d] = "publishing"
  /\ t \in todo[d]
  /\ Copies(t) < MaxCopies
  /\ broker' = Put(broker, FirstDelivery(t))
  /\ accepted' = accepted \cup {t}
  /\ inhand' = [inhand EXCEPT ![d] = t]
  /\ todo' = [todo EXCEPT ![d] = @ \ {t}]
  /\ dpc' = [dpc EXCEPT ![d] = "recording"]
  /\ UNCHANGED <<taskVars, workerVars>>

\* Faulty: the record is marked published whether or not Redis took the message.
EnqueueFailsUnnoticed(d, t) ==
  /\ dpc[d] = "publishing"
  /\ t \in todo[d]
  /\ inhand' = [inhand EXCEPT ![d] = t]
  /\ todo' = [todo EXCEPT ![d] = @ \ {t}]
  /\ dpc' = [dpc EXCEPT ![d] = "recording"]
  /\ UNCHANGED <<taskVars, broker, workerVars, accepted>>

\* publisher.enqueue raises: record_attempt(published=False) counts the attempt
\* and leaves the record pending
EnqueueFails(d, t) ==
  /\ dpc[d] = "publishing"
  /\ t \in todo[d]
  /\ todo' = [todo EXCEPT ![d] = @ \ {t}]
  /\ dpc' = [dpc EXCEPT ![d] = AfterPublishing(d, todo[d] \ {t})]
  /\ UNCHANGED <<taskVars, broker, workerVars, inhand, accepted>>

\* record_attempt(published=True); a record that retention deleted is skipped
RecordPublished(d) ==
  /\ dpc[d] = "recording"
  /\ outbox' = [outbox EXCEPT ![inhand[d]] = IF @ = "none" THEN "none" ELSE "published"]
  /\ inhand' = [inhand EXCEPT ![d] = NoTask]
  /\ dpc' = [dpc EXCEPT ![d] = AfterPublishing(d, todo[d])]
  /\ UNCHANGED <<rows, result, broker, workerVars, todo, accepted>>

\* the message is in Redis and the database refuses the update
RecordFails(d) ==
  /\ dpc[d] = "recording"
  /\ inhand' = [inhand EXCEPT ![d] = NoTask]
  /\ dpc' = [dpc EXCEPT ![d] = AfterPublishing(d, todo[d])]
  /\ UNCHANGED <<taskVars, broker, workerVars, todo, accepted>>

\* the process dies, or its request is abandoned, between two of its steps
DispatcherDies(d) ==
  /\ dpc[d] # "idle"
  /\ dpc' = [dpc EXCEPT ![d] = "idle"]
  /\ todo' = [todo EXCEPT ![d] = {}]
  /\ inhand' = [inhand EXCEPT ![d] = NoTask]
  /\ UNCHANGED <<taskVars, broker, workerVars, accepted>>

-----------------------------------------------------------------------------
(***************************************************************************)
(* The maintenance cycle (workers/maintenance.py): reconcile, publish the  *)
(* outbox, purge.  Its queries skip the rows that another transaction      *)
(* holds locked, which may be any of them.                                 *)
(***************************************************************************)
\* Faulty: only the recovered tasks are delivered again, not the undelivered ones.
NeedsDeliveryOnceRecovered(r) ==
  r.status = "queued" /\ r.error = "stale_worker_recovered"

\* the reconciled rows whose outbox record is reset
NeedsDelivery(r) == r.status = "queued"

ReconciledRow(r) ==
  CASE IsStale(r) -> RecoverRow(r)
    [] IsExpired(r) -> ExpireRow(r)
    [] IsUndelivered(r) -> RedeliverRow(r)

\* reconcile_stale and the outbox resets, in one transaction: stale rows first,
\* then expired ones, then undelivered ones, up to the limit in all
Reconcile(c, stale, expired, undelivered) ==
  LET picked == stale \cup expired \cup undelivered
      after  == [t \in Task |-> IF t \in picked THEN ReconciledRow(rows[t]) ELSE rows[t]]
  IN
  /\ dpc[c] = "idle"
  /\ \E free \in SUBSET Task :       \* the rows no other transaction locks
       /\ stale \in Batch({t \in free : IsStale(rows[t])}, BatchLimit)
       /\ expired \in Batch({t \in free : IsExpired(rows[t])},
                            BatchLimit - Cardinality(stale))
       /\ undelivered \in Batch({t \in free : IsUndelivered(rows[t])},
                                BatchLimit - Cardinality(stale \cup expired))
  /\ rows' = after
  /\ outbox' = [t \in Task |-> IF t \in picked /\ NeedsDelivery(after[t])
                                 THEN "pending" ELSE outbox[t]]
  /\ dpc' = [dpc EXCEPT ![c] = "reading"]
  /\ UNCHANGED <<result, broker, workerVars, todo, inhand, accepted>>

\* purge_terminal_before: whether retention has elapsed is left open; the
\* deletion cascades to the outbox record and to the result
Purge(c) ==
  /\ dpc[c] = "purging"
  /\ \E old \in SUBSET {t \in Task : IsPurgeable(rows[t])} :
       /\ Cardinality(old) <= BatchLimit
       /\ rows' = [t \in Task |-> IF t \in old THEN PurgedRow ELSE rows[t]]
       /\ outbox' = [t \in Task |-> IF t \in old THEN "none" ELSE outbox[t]]
       /\ result' = [t \in Task |-> IF t \in old THEN NoResult ELSE result[t]]
  /\ dpc' = [dpc EXCEPT ![c] = "idle"]
  /\ UNCHANGED <<broker, workerVars, todo, inhand, accepted>>

-----------------------------------------------------------------------------
(***************************************************************************)
(* The workers (workers/actors.py, execution.py, job_discovery.py).        *)
(***************************************************************************)
Execute(w, m) ==
  /\ wpc' = [wpc EXCEPT ![w] = "operating"]
  /\ wmsg' = [wmsg EXCEPT ![w] = m]
  /\ beating' = [beating EXCEPT ![w] = TRUE]

\* the runner is done with its message, whatever became of it
Release(w) ==
  /\ wpc' = [wpc EXCEPT ![w] = "idle"]
  /\ wmsg' = [wmsg EXCEPT ![w] = NoTask]
  /\ beating' = [beating EXCEPT ![w] = FALSE]

Delivered(w, m) == wpc[w] = "idle" /\ broker[m] > 0

\* _start: the row is queued
Start(w, m) ==
  /\ Delivered(w, m)
  /\ rows[m.task].status = "queued"
  /\ SetRow(m.task, StartRow(rows[m.task]))
  /\ broker' = Take(broker, m)
  /\ Execute(w, m)
  /\ UNCHANGED <<outbox, result, beats, crashes, dispatchVars>>

\* _start finds the row running: it returns that row, and run executes the
\* operation, since it only looks whether the status it got is "running"
JoinRunning(w, m) ==
  /\ Delivered(w, m)
  /\ rows[m.task].status = "running"
  /\ broker' = Take(broker, m)
  /\ Execute(w, m)
  /\ UNCHANGED <<taskVars, beats, crashes, dispatchVars>>

\* a terminal row is a duplicate delivery, a missing one an unavailable task
Suppress(w, m) ==
  /\ Delivered(w, m)
  /\ rows[m.task].status \notin {"queued", "running"}
  /\ broker' = Take(broker, m)
  /\ UNCHANGED <<taskVars, workerVars, dispatchVars>>

\* the database is unavailable to _start, and the actor asks for a retry
StartFails(w, m) ==
  /\ Delivered(w, m)
  /\ broker' = Redeliver(Take(broker, m), m)
  /\ UNCHANGED <<taskVars, workerVars, dispatchVars>>

\* Faulty: a search without jobs stores no result.
SaveResultUnlessEmpty(w) ==
  /\ wpc[w] = "operating"
  /\ Exists(wmsg[w].task)
  /\ result' \in {result, [result EXCEPT ![wmsg[w].task] = w]}
  /\ wpc' = [wpc EXCEPT ![w] = "saved"]
  /\ beating' = [beating EXCEPT ![w] = FALSE]
  /\ UNCHANGED <<rows, outbox, broker, wmsg, beats, crashes, dispatchVars>>

\* the providers answered and save_result's transaction commits; it replaces
\* the stored result whatever the status of the task.  The runner then stops
\* the heartbeat loop.
SaveResult(w) ==
  /\ wpc[w] = "operating"
  /\ Exists(wmsg[w].task)
  /\ result' = [result EXCEPT ![wmsg[w].task] = w]
  /\ wpc' = [wpc EXCEPT ![w] = "saved"]
  /\ beating' = [beating EXCEPT ![w] = FALSE]
  /\ UNCHANGED <<rows, outbox, broker, wmsg, beats, crashes, dispatchVars>>

\* complete: the row is running
Complete(w) ==
  LET t == wmsg[w].task IN
  /\ wpc[w] = "saved"
  /\ rows[t].status = "running"
  /\ SetRow(t, CompleteRow(rows[t]))
  /\ Release(w)
  /\ UNCHANGED <<outbox, result, broker, beats, crashes, dispatchVars>>

\* the operation raised and record_failure found the row running; the actor
\* asks Dramatiq for a retry when the row is queued again
Fail(w, retryable) ==
  LET t == wmsg[w].task IN
  /\ wpc[w] = "operating"
  /\ rows[t].status = "running"
  /\ SetRow(t, FailRow(rows[t], retryable))
  /\ broker' = IF CanRetry(rows[t], retryable) THEN Redeliver(broker, wmsg[w]) ELSE broker
  /\ Release(w)
  /\ UNCHANGED <<outbox, result, beats, crashes, dispatchVars>>

\* complete or record_failure finds the row in another state: it raises
\* InvalidTaskTransition and the actor asks for a retry
Superseded(w) ==
  /\ wpc[w] # "idle"
  /\ Exists(wmsg[w].task)
  /\ rows[wmsg[w].task].status # "running"
  /\ broker' = Redeliver(broker, wmsg[w])
  /\ Release(w)
  /\ UNCHANGED <<taskVars, beats, crashes, dispatchVars>>

\* any of the worker's transactions finds the row deleted: TaskNotFoundError,
\* and the message is acknowledged
TaskGone(w) ==
  /\ wpc[w] # "idle"
  /\ ~Exists(wmsg[w].task)
  /\ Release(w)
  /\ UNCHANGED <<taskVars, broker, beats, crashes, dispatchVars>>

\* the time limit fires, or the database refuses the final transaction: the
\* row is left as it is and the message is retried
Interrupted(w) ==
  /\ wpc[w] # "idle"
  /\ broker' = Redeliver(broker, wmsg[w])
  /\ Release(w)
  /\ UNCHANGED <<taskVars, beats, crashes, dispatchVars>>

\* the worker process is killed: Dramatiq returns its unacknowledged message
Crash(w) ==
  /\ wpc[w] # "idle"
  /\ crashes < MaxCrashes
  /\ crashes' = crashes + 1
  /\ broker' = Put(broker, wmsg[w])
  /\ Release(w)
  /\ UNCHANGED <<taskVars, beats, dispatchVars>>

-----------------------------------------------------------------------------
(***************************************************************************)
(* The heartbeat thread: heartbeat reads the row without locking it, and   *)
(* writes it in a later statement.                                         *)
(***************************************************************************)
BeatReads(w) ==
  /\ beating[w]
  /\ IF rows[wmsg[w].task].status = "running"
       THEN beats' = beats \cup {wmsg[w].task} /\ UNCHANGED beating
       ELSE beating' = [beating EXCEPT ![w] = FALSE] /\ UNCHANGED beats
  /\ UNCHANGED <<taskVars, broker, wpc, wmsg, crashes, dispatchVars>>

BeatWrites(t) ==
  /\ t \in beats
  /\ beats' = beats \ {t}
  /\ rows' = IF Exists(t) THEN [rows EXCEPT ![t] = BeatRow(@)] ELSE rows
  /\ UNCHANGED <<outbox, result, broker, wpc, wmsg, beating, crashes, dispatchVars>>

\* the loop ends for good at the first exception
HeartStops(w) ==
  /\ beating[w]
  /\ beating' = [beating EXCEPT ![w] = FALSE]
  /\ UNCHANGED <<taskVars, broker, wpc, wmsg, beats, crashes, dispatchVars>>

-----------------------------------------------------------------------------
(***************************************************************************)
(* Time and the broker.                                                    *)
(***************************************************************************)
HeartbeatAges(t) ==
  /\ rows[t].status = "running"
  /\ rows[t].heartbeat = "fresh"
  /\ SetRow(t, [rows[t] EXCEPT !.heartbeat = "stale"])
  /\ UNCHANGED <<outbox, result, broker, workerVars, dispatchVars>>

QueueAges(t) ==
  /\ rows[t].status = "queued"
  /\ ~rows[t].overdue
  /\ SetRow(t, [rows[t] EXCEPT !.overdue = TRUE])
  /\ UNCHANGED <<outbox, result, broker, workerVars, dispatchVars>>

DeliveryAges(t) ==
  /\ rows[t].status = "queued"
  /\ ~rows[t].quiet
  /\ SetRow(t, [rows[t] EXCEPT !.quiet = TRUE])
  /\ UNCHANGED <<outbox, result, broker, workerVars, dispatchVars>>

\* Redis loses a message, or Dramatiq drops it past its max_age
Lose(m) ==
  /\ broker[m] > 0
  /\ broker' = Take(broker, m)
  /\ UNCHANGED <<taskVars, workerVars, dispatchVars>>

-----------------------------------------------------------------------------
ClientNext == \E t \in Task : Cancel(t) \/ \E d \in Caller : Submit(d, t) \/ Resubmit(d, t)

DispatchNext ==
  \E d \in Dispatcher :
    \/ ReadPending(d)
    \/ \E t \in Task : Enqueue(d, t) \/ EnqueueFails(d, t)
    \/ RecordPublished(d)
    \/ RecordFails(d)
    \/ DispatcherDies(d)

MaintenanceNext ==
  \E c \in Cycle :
    \/ \E stale, expired, undelivered \in SUBSET Task :
         Reconcile(c, stale, expired, undelivered)
    \/ Purge(c)

WorkerNext ==
  \E w \in Worker :
    \/ \E m \in Message :
         Start(w, m) \/ JoinRunning(w, m) \/ Suppress(w, m) \/ StartFails(w, m)
    \/ SaveResult(w)
    \/ Complete(w)
    \/ \E retryable \in BOOLEAN : Fail(w, retryable)
    \/ Superseded(w)
    \/ TaskGone(w)
    \/ Interrupted(w)
    \/ Crash(w)
    \/ BeatReads(w)
    \/ HeartStops(w)

EnvironmentNext ==
  \/ \E t \in Task :
       BeatWrites(t) \/ HeartbeatAges(t) \/ QueueAges(t) \/ DeliveryAges(t)
  \/ \E m \in Message : Lose(m)

Next == ClientNext \/ DispatchNext \/ MaintenanceNext \/ WorkerNext \/ EnvironmentNext

Spec == Init /\ [][Next]_vars

-----------------------------------------------------------------------------
(***************************************************************************)
(* Safety.                                                                 *)
(***************************************************************************)
\* A queued task always has an attempt left to spend and a running one has
\* spent between one and all of them: the four ways back to the queue (failure,
\* stale recovery, redelivery, creation) never hand out an attempt too many.
AttemptBudget ==
  \A t \in Task :
    /\ rows[t].status = "queued" => rows[t].attempts < MaxAttempts
    /\ rows[t].status = "running" => rows[t].attempts \in 1..MaxAttempts

\* Once its user has asked for cancellation a task is running or cancelled: no
\* completion, failure, retry or recovery that was already under way reports
\* anything else (docs/architecture/0022, "cancellation wins").
CancellationWins ==
  \A t \in Task :
    Exists(t) /\ rows[t].cancel => rows[t].status \in {"running", "cancelled"}

\* A poller that is told "succeeded" is given a result, whichever of several
\* workers stored it and whichever one completed the task.
SucceededHasResult == \A t \in Task : rows[t].status = "succeeded" => Poll(t) # NoResult

\* The error code tells how a task ended, and retention can find every ended
\* task: the code that a recovery left on a row never survives as its outcome.
OutcomeIsRecorded ==
  \A t \in Task : Exists(t) =>
    LET r == rows[t] IN
    /\ r.finished <=> r.status \in Terminal
    /\ r.status = "succeeded" => r.error = "none"
    /\ r.status = "cancelled" <=> r.error = "cancelled_by_user"
    /\ r.status = "failed" =>
         r.error \in {"operation_error", "queue_expired", "stale_worker_timeout"}

\* Attempts, cancellation and outcome of a row agree, whichever of a worker, a
\* late heartbeat, a canceller and maintenance wrote it last.
RowsAreConsistent == AttemptBudget /\ CancellationWins /\ OutcomeIsRecorded

\* An outbox record is marked published only for a task whose message Redis has
\* accepted (docs/architecture/0022, decision 2).
PublishedWasAccepted == \A t \in Task : outbox[t] = "published" => t \in accepted

\* An ended task never changes its status again, until retention deletes it: a
\* worker, a canceller or a maintenance cycle that read it earlier writes nothing.
EndedIsFinal ==
  [][\A t \in Task : rows[t].status \in Terminal =>
       rows'[t].status \in {rows[t].status, "purged"}]_vars

-----------------------------------------------------------------------------
(***************************************************************************)
(* What a client sees of the system is TaskContract.                       *)
(***************************************************************************)
LifeOf(t) ==
  [status   |-> rows[t].status,
   attempts |-> rows[t].attempts,
   cancel   |-> rows[t].cancel,
   answered |-> result[t] # NoResult]

Contract == INSTANCE TaskContract WITH life <- [t \in Task |-> LifeOf(t)]

\* Every step of the system is, for every task, one move of the contract or none.
ImplementsContract == Contract!Spec

-----------------------------------------------------------------------------
(***************************************************************************)
(* Documented behaviour that the code does not have.                       *)
(***************************************************************************)
\* "Duplicate delivery is harmless because the lifecycle row is locked before
\* execution" (docs/architecture/0022, decision 3): the jobs shown for a task
\* that succeeded stay the same jobs.
DuplicateDeliveryIsHarmless ==
  [][\A t \in Task :
       rows[t].status = "succeeded" /\ rows'[t].status = "succeeded" =>
         Poll(t)' = Poll(t)]_vars

-----------------------------------------------------------------------------
(***************************************************************************)
(* Liveness.                                                               *)
(***************************************************************************)
Reconciles(t) ==
  \E c \in Cycle : \E stale, expired, undelivered \in SUBSET Task :
    /\ t \in stale \cup expired \cup undelivered
    /\ Reconcile(c, stale, expired, undelivered)

CycleGoesOn(c) ==
  \/ ReadPending(c)
  \/ \E t \in Task : Enqueue(c, t) \/ EnqueueFails(c, t)
  \/ RecordPublished(c)
  \/ RecordFails(c)
  \/ Purge(c)

ExecutionGoesOn(w) ==
  \/ SaveResult(w)
  \/ Complete(w)
  \/ \E retryable \in BOOLEAN : Fail(w, retryable)
  \/ Superseded(w)
  \/ TaskGone(w)
  \/ Interrupted(w)

\* Maintenance is scheduled for ever (docs/operations/background-tasks.md) and
\* its queries take the oldest rows first, so that a row which stays due is
\* eventually taken; the time limit ends every execution.
MaintenanceIsScheduled ==
  /\ \A t \in Task : SF_vars(Reconciles(t))
  /\ \A c \in Cycle : WF_vars(CycleGoesOn(c))
  /\ \A w \in Worker : WF_vars(ExecutionGoesOn(w))
  /\ \A t \in Task : WF_vars(HeartbeatAges(t))

\* No message needs to arrive and no worker needs to run.
FairSpec ==
  /\ Spec
  /\ MaintenanceIsScheduled
  /\ \A t \in Task : WF_vars(QueueAges(t))

\* Every submitted task ends, by expiry if nothing else: no combination of lost
\* messages, dead workers and half-done publications leaves a user waiting.
EveryTaskEnds ==
  \A t \in Task : rows[t].status \in {"queued", "running"}
                     ~> rows[t].status \in Terminal \cup {"purged"}

\* A cancellation that was accepted ends in "cancelled", also when the worker
\* that should have honoured it is gone.
CancellationTakesEffect ==
  \A t \in Task : Exists(t) /\ rows[t].cancel
                     ~> rows[t].status \in {"cancelled", "purged"}

\* The queue may never expire; the maintenance process, the broker and the workers
\* fail and die as they like, and get through each of their steps from time to time.
RecoverySpec ==
  /\ Spec
  /\ MaintenanceIsScheduled
  /\ \A t \in Task :
       /\ WF_vars(DeliveryAges(t))
       /\ SF_vars(\E c \in Cycle : ReadPending(c) /\ t \in todo'[c])
       /\ SF_vars(\E c \in Cycle : Enqueue(c, t))
       /\ SF_vars(\E w \in Worker, m \in Message : m.task = t /\ Start(w, m))

\* A queued task is picked up (or cancelled or expired) without its client's
\* help, even if its first message was never sent, or was lost, or was consumed
\* by a failed start: maintenance delivers it again.
QueuedIsPickedUp ==
  \A t \in Task : rows[t].status = "queued" ~> rows[t].status # "queued"
=============================================================================
