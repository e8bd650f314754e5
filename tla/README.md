# Solara Hire: specification and proofs

TLA+ modules about the system in this repository (a FastAPI service over
PostgreSQL, Dramatiq workers over Redis, and a Next.js front end that help a
person find jobs and apply for them), the TLC configurations that check them,
and TLAPS proofs. Paths below are relative to the repository's root.

## 1. The system and its parts

| Part | State it keeps | Operations | Talks to |
|---|---|---|---|
| Background task lifecycle (`database/repositories/tasks.py`) | `background_tasks`: status, attempts, error code, cancellation, heartbeat and finish times | create, start, complete, record_failure, request_cancel, heartbeat, reconcile_stale, purge_terminal_before | every caller below |
| Transactional outbox (`database/repositories/task_outbox.py`, `workers/outbox.py`, `workers/publisher.py`) | `task_outbox`: one record per task, pending or published | ensure, reset, list, publish, record_attempt | PostgreSQL, Redis |
| Worker execution (`workers/execution.py`, `workers/actors.py`, `workers/job_discovery.py`) | a thread per message, a heartbeat thread per execution | start, run the search, save_result, complete or fail, ask for a redelivery | PostgreSQL, Dramatiq |
| Maintenance (`workers/maintenance.py`) | none | reconcile, publish, purge, reconcile reminders, in three transactions | all of the above |
| Discovery task API (`api/services/job_discovery_tasks.py`) | `job_discovery_tasks`: the request and the stored result | create (idempotent), get, cancel | task rows, outbox |
| Application tracking (`database/repositories/applications.py`, `api/services/applications.py`) | `applications`, `application_events`, `saved_jobs` | create, transition, plan, save and remove a job | catalog, packets, reminders |
| Application packets (`database/repositories/application_packets.py`, `api/services/application_packets.py`) | `application_packets` | select documents, mark ready, confirm submission | applications, documents |
| Reminders (`database/repositories/application_reminders.py`) | `application_reminders` | reconcile, set_status | applications, maintenance |
| Tailored documents (`database/repositories/tailored_resumes.py`, `cover_letters.py`, `tailoring.py`, their services and routes) | the plan; numbered versions, approvals | create, revise, approve, export | packets, front end |
| Interview kits (`database/repositories/interview_kits.py`, its service and routes) | one row per application: questions, notes, review mark | create, get, update | applications, front end |
| Resumes (`database/repositories/resumes.py`) | versions of one user, one active | save_version | parser, sign-in |
| Identities (`database/repositories/identities.py`, `api/dependencies.py`) | `users`, `user_identities` | provision, refresh | every request with a token |
| Job catalog (`database/repositories/jobs.py`, `services/job_discovery/pipeline`) | `jobs`, `job_sources` | upsert by source or fingerprint | save_result |
| Discovery service (`services/job_discovery/discovery_service.py`) | a thread pool shared by the searches of a process | search providers in parallel, retry, stop waiting, report | provider adapters |
| API process (`api/application.py`, `api/dependencies.py`) | the resources built by the first request that needs them | build, share, release | all services |
| Recommendation, skill intelligence, tailoring, resume text | none: functions of their input | score, rank, classify, count, reorder, quote, read lines | catalog, resumes |
| Web front end (`frontend/src/components`, `frontend/src/app/api`, `frontend/src/lib`) | the state of one page over several requests; a request with its session | review documents, prepare, search and cancel, track applications; forward with a token | API |
| Recommendation history, subscriptions, billing | rows written in one transaction | append, get or create | sign-in, routes |

A session commits when its `with` block ends and rolls back on an exception
(`database/session.py`); PostgreSQL runs at READ COMMITTED. So what is atomic is
a transaction in which every decision is taken on a row locked with FOR UPDATE,
and what is not is everything else: two transactions of one handler, a read
without a lock and the write that follows it, the database and Redis.

### What is hard here, and what makes each part correct

* **Tasks, outbox, workers, maintenance.** A task crosses two stores and at
  least three processes. Messages are lost, delivered twice, delivered late, and
  delivered to a worker while another one still runs the same task; a worker
  dies, or is interrupted past every handler, with the row still running; the
  user cancels at any moment; maintenance recovers, expires, redelivers and
  deletes what the others are using. Correct means: attempts stay within
  their budget, an accepted cancellation is never overruled and always takes
  effect, an ended task stays as it ended, a succeeded one has a result, what
  the outbox calls published was accepted by the broker, and every task ends.
* **Applications, packets, reminders.** Status changes read the row without a
  lock, and a packet is validated against documents that other requests change.
  Correct means: the event log is a path of the status graph, a terminal status
  stays, a submitted packet names approved documents, a reminder matches its plan.
* **Documents and kits.** Version numbers are computed from a maximum read
  without a lock, and what is approved, revised or marked as reviewed was read
  before. The page that sends these requests keeps a copy of the state, closes
  over it at each `await`, and gets its answers late or not at all. Correct
  means: versions are numbered one to n, an approval stands and was ticked, a
  letter keeps its verified facts, a kit keeps its questions and notes, and what
  a page offers is granted.
* **Search page and tracker.** A poll, a ranking, a cancellation and a second
  search overlap on shared references; a status change repeats a plan from one
  of two cached copies, while the packet workspace, which changes that plan too, can
  be closed at any moment. Correct means: the page is busy exactly while a search
  runs, a cancellation reaches its own search, nothing is shown of a stopped one,
  the copies agree with the database, and what is locked is what was on display.
* **Identities, tasks by key, resumes, catalog.** Each creates a row under a
  uniqueness constraint from a value read earlier. Correct means: the loser of a
  race ends with the winner's row or fails whole, no account is unreachable, no
  task lacks its inputs, one resume is active, no saved listing is lost.
* **Discovery service, API process.** Provider threads, retries and a time
  budget; resources built under a lock by whoever comes first. Correct means: the
  report says of each provider what its thread did, and the process has one
  engine, one broker and one verifier.
* **Functions.** Correct means: a resume that is better on both signals never scores
  lower, aliases cover alike, counts are of distinct things, a plan and a letter quote
  the resume, and the reader of resumes loses no line under a heading it knows.

`PROJECT.json` lists each of these hazards at the line where it bites.

## 2. Plan

| Order | Modules | About | State |
|---|---|---|---|
| 1 | `TaskRows`, `TaskContract`, `DiscoveryTasks`, `MCDiscoveryTasks`, `DiscoveryTasks_proofs` | the task system end to end, its contract, the proofs | done |
| 2 | `ApplicationRows`, `ApplicationWorkflow`, `Applications`, `MCApplications`, `Applications_proofs` | status graph with unlocked transitions, packet readiness and submission, the workflow the design documents promise, the proofs | done |
| 3 | `ReminderRows`, `ReminderPolicy`, `Reminders`, `MCReminders`, `Reminders_proofs` | reconciliation against users' actions and changing plans, the reminder policy, the proofs | done |
| 4 | `DocumentHistory`, `DocumentReview`, `CoverLetters`, `InterviewKits`, `SearchWorkspace`, `ApplicationDesk`, `WebProxy`, `MCWorkspaces`, `DocumentReview_proofs`, `Workspaces_proofs` | the workspaces of the web front end with the services behind them, the proofs | done |
| 5 | `ProviderSearch`, `ApiResources`, `SignIn`, `TaskSubmission`, `ResumeLibrary`, `JobCatalog`, `MCServices`, `Services_proofs` | the components of the service with interleavings of their own, the proofs | done |
| 6 | `Arrangements`, `Matching`, `SkillPicture`, `Tailoring`, `ResumeText`, `Arrangements_proofs`, `Advice_proofs` | what is computed from a resume, a job and a history, the proofs | done |

What is left: the skills that `save_version` shares between the resumes of all users; saved
jobs and the reminder bell of the front end. Every invariant and action property that a run
checks is a theorem.

## 3. The modules

**`TaskRows`** is the row of a task and what each repository method does to it:
an operator from the row that was read to the row that is written
(`StartRow`, `CompleteRow`, `FailRow`, `CancelRow`, `BeatRow`, `RecoverRow`,
`ExpireRow`, `RedeliverRow`) and the conditions of the queries (`IsStale`,
`IsExpired`, `IsUndelivered`, `IsPurgeable`). Timestamps are reduced to the
comparisons that the code makes with them; the comment at the head of the module
says which field stands for which column.

**`DiscoveryTasks`** is the system. Its variables are the three tables (`rows`,
`outbox`, `result`), the broker as a bag of messages with their redelivery
counts, each worker's place in `BackgroundTaskRunner.run` (`wpc`, `wmsg`), its
heartbeat loop (`beating`) with the heartbeats that were decided and not yet
written (`beats`), and each dispatcher's place (`dpc`, `todo`, `inhand`). A
dispatcher is an API request or a maintenance cycle. `accepted` is a history
variable and `crashes` counts against a bound.

| Code | Actions |
|---|---|
| `JobDiscoveryTaskService.create` | `Submit` or `Resubmit`, then the dispatcher's actions for one task |
| `JobDiscoveryTaskService.cancel`, `get` | `Cancel`; the operator `Poll` |
| `TaskOutboxDispatcher` | `ReadPending`, `Enqueue`, `EnqueueFails`, `RecordPublished`, `RecordFails`, `DispatcherDies` |
| `TaskMaintenance.run` | `Reconcile` (with the outbox resets of the same transaction), the dispatcher's actions, `Purge` |
| `BackgroundTaskRunner.run` and its actor | `Start`, `JoinRunning`, `Suppress`, `StartFails`, `SaveResult`, `Complete`, `Fail`, `Superseded`, `TaskGone`, `Interrupted`, `Crash` |
| `_heartbeat_loop` | `BeatReads`, `BeatWrites`, `HeartStops` |
| time, Redis, Dramatiq | `HeartbeatAges`, `QueueAges`, `DeliveryAges`, `Lose`, redelivery in `Redeliver` |

`JoinRunning` deserves a word: `_start` returns the row it could not start, and
`run` suppresses the message only when that row is *not* running. A duplicate
message of a running task therefore executes the search a second time.

Left out on purpose: two requests that create the same key at the same moment
(the subject of `TaskSubmission`), tasks of other types (their
rows are never selected by maintenance), the ownership check (every actor here
uses the owner's id), provider results (a worker's id stands for the jobs it
found), and the attempt counter of the outbox, which nothing reads.

**`TaskContract`** is what a client is promised: a task's life as a relation of
moves between what can be polled. There is no broker, worker or clock in it.
`DiscoveryTasks!ImplementsContract` instantiates it under the mapping `LifeOf`.

**`MCDiscoveryTasks`** adds the symmetry of workers for TLC.

**`DiscoveryTasks_proofs`** holds the theorems.

**`ApplicationRows`** is the data of one tracked application: the status graph
(`Successors`), the tracker's and the packet's row, what makes a packet
`Complete` (no blockers) and a document `Selectable`, and what an UPDATE does to
a row that has changed since it was loaded. The last point carries much of the
model: the mapper sends the columns whose value differs from the loaded one, so
two overlapping updates are merged column by column (`WrittenPacket`,
`MovedTracker`) rather than the second replacing the first.

**`Applications`** is the system: the rows `tracker` and `packet`, the event
`log` in commit order, the user's `active` resume, the `verified` documents, and
for each request `txn`, its place in its handler with what it has read.

| Code | Actions |
|---|---|
| `ApplicationTrackingService.create` | `Create` |
| `ApplicationTrackingService.transition` | `TransitionReads`, `TransitionWrites` |
| `ApplicationTrackingService.update_plan` | `PlanReads`, `PlanWrites` |
| `ApplicationPacketService.create` | `OpenReads`, `OpenWrites` |
| `ApplicationPacketService.update` | `UpdateValidates`, `UpdateReads`, `UpdateWrites` |
| `ApplicationPacketService.mark_ready` | `ReadyChecks`, `ReadyMarks`, `ReadyCommits` |
| `ApplicationPacketService.confirm_submitted` | `ConfirmReads`, `ConfirmWrites` |
| `Database.session` when a handler raises or is cut off | `RollsBack` |
| `ResumeRepository.save_version`; `approve` of a document | `SaveResume`; `Approve` |

No handler here locks what it reads, so each is split between its last reading
and its write, and `update` and `mark_ready` once more where they read a row a
second time: the domain object returned by the first reading keeps no mapped row
alive, so the second one sees what has been committed since. A handler's last
write and its commit are one action, as the row is locked between them.
`mark_ready` alone writes two rows; `PacketLocked` is the lock it holds on the
first. A refusal that has written nothing is a disabled action, one that comes
later is `RollsBack`. `Create` needs no split: it decides only on there being no
tracker, and the unique constraint decides again when it inserts.

`Overlapping = FALSE` lets a request begin only when no other one is under
way. It is the setting in which the handlers keep everything the design documents
say; with `TRUE` they keep the first group of properties and break the others.

Left out: notes and the wording of next actions, the tracker's job (one application
is one job), ownership, two documents of one kind made for other users, and the
deletion of a resume or a document, which no endpoint offers.

**`ApplicationWorkflow`** is what `docs/architecture/0012` and `0038` promise, each
request one step. `Applications!ImplementsWorkflow` instantiates it with the rows as
they are.

**`MCApplications`** gives TLC the documents and their source resumes.

**`Applications_proofs`** holds the theorems.

**`ReminderRows`** is the data of reminders: a plan (what reminders depend on in an
application), a reminder, and the conditions and writes of
`ApplicationReminderRepository`. The unique constraint makes an application and a
deadline the key of a reminder. Of read_at and dismissed_at only presence is kept, of
a next action only which one it is; an empty one is none (both queries treat them
alike).

**`Reminders`** is the system: the `plans` and the horizon up to which deadlines are
due soon (`upcoming`: the present plus the lead time), the table `reminders`, each
maintenance cycle with what it has read (`cycle`) and each user's request (`txn`).
`spared` is a history variable: what is dismissed because its user said so.

| Code | Actions |
|---|---|
| `ApplicationReminderRepository.reconcile`, called by `TaskMaintenance.run` | `Begins` (first query), `Judges` (a turn of the first loop), `Selects` (second query), `Looks` (second loop), `Commits`, `CutOff` |
| `ApplicationReminderRepository.set_status` | `SetReads`, `SetWrites` |
| any commit of application tracking | `PlanChanges` |
| the clock | `TimePasses` |

The session does not flush by itself (`autoflush=False`), so a cycle writes when it inserts
and at its end. What it writes is invisible until it commits and locked from the moment it
is sent: its writes are one action. They are columns, not rows: `Reconciled` applies them to
the row as it is at that time, and an insert that meets a row leaves it (the IntegrityError
that `reconcile` catches). `SeenPlan` and `SeenReminder` are SQLAlchemy's identity map: an
object that is still referenced keeps its attributes when a later query returns its row
again. The reminders of the first query are referenced to the end; of the applications only
the one judged last is, by the loop's variable. So the second loop may act on a plan that is
no longer what the database holds, even one without a next action, and a rename to NULL
fails the transaction (`Acceptable`).

Left out: ownership, the snapshot that is returned to the user, and the deletion of
applications, which no endpoint offers. `PlanChanges` allows any plan to follow any other,
as `Applications` shows that overlapping requests may even leave a terminal status.

**`ReminderPolicy`** is what `docs/architecture/0029` decides, with the reconciliation of
all reminders as one step; `Reminders!ImplementsPolicy` instantiates it with the tables as
they are. **`MCReminders`** adds the symmetry, **`Reminders_proofs`** the theorems.

### The workspaces and what is behind them

The modules of this group model a page of the web front end together with the
handlers of the service it calls, because their hazards are in the combination: a
page's handler runs to its first `await` without a break, then its answer comes
late, in another order or never (a request that failed for the page may still be
served), while the service runs each request in a transaction of its own that
locks nothing.

**`DocumentReview`**: the rows of one document (`versions`), the tailoring `plan`,
the requests under way (`call`) and the workspaces (`tab`).

| Code | Actions |
|---|---|
| `TailoredResumeService.create`, `revise`, `approve`, `export` | `CreateReads`, `ReviseReads`, `ApproveReads`; `NumbersVersion`, `InsertsVersion`, `ApproveWrites`; the operator `Export` |
| `TailoredResumeWorkspace` | `OpensWorkspace`, `Chooses`, `SavesRevision`, `TicksConfirmation`, `ApprovesVersion`, `ReceivesVersion` |
| failed requests, clients without the page, a plan made anew | `RequestFails` with `FallsBack`, `ForeignRevises`, `SavesPlan` |

`NumbersVersion` reads the maximum and `InsertsVersion` meets the unique constraint.
`FallsBack` restores the state that the failed handler closed over, which is how
the page is written. **`DocumentHistory`** is what a reader of the document is
promised: versions are appended, never change, and an approval stays;
`ImplementsHistory` is the refinement, with overlapping requests and without.
**`CoverLetters`** instantiates `DocumentReview`, as its code repeats that of
tailored resumes, with contents of locked facts and editable sentences.

**`InterviewKits`**: the row `kit`, the application's status and resume, the
requests and the page, and the content type the web proxy insists on.
`last` is a history variable: the update committed last.

**`SearchWorkspace`**: what the page shows, the search handler that runs and was not
aborted (`search`), the reference a cancellation uses (`activeTask`), cancellations
under way and the tasks of the server, seen as `DiscoveryTasks` shows them to a
poller. The order in which `handleMatch` and `handleCancelSearch` clear the
reference and abort the controller is that of the code.

**`ApplicationDesk`**: the tracker page and the packet workspace on it, for one
application. The service answers each request in one step here (`ServiceAnswers`,
with one outcome set per endpoint: `Transitions`, `Plans`, `UpdatesPacket`,
`MarksReady`, `ConfirmsSubmitted`); how its transactions interleave is the subject of
`Applications`. A plan is a next action and a deadline. Marking ready puts an action of its
own in the place of the owner's and keeps the deadline; confirming the submission replaces
both. The page keeps three copies of the row: the item of the list, the cached detail and the
packet. The packet workspace belongs to an expanded card: closing the card, expanding another
(`ClosesCard`), or a status that moves the card to another column (`Redrawn`) unmounts it, with its
draft and whatever it was busy with. Its requests are served all the same, and the handlers
that were waiting go on without a page of their own (`shown`), which is why the application is
refreshed even then (`ReceivesPacket`).

**`WebProxy`**: one request through the route handlers that every page uses: five
orders of checking the request and the session, refreshing the session, forwarding,
and every way of answering.

**`MCWorkspaces`** runs one workspace per behaviour. They share no state, so the
product of their states would show nothing more. **`DocumentReview_proofs`**
and **`Workspaces_proofs`** hold the theorems.

### The components of the service

**`ProviderSearch`**: the executor with its threads, which take calls in the order of their
submission (`IsBefore`), the future of each provider of each search with its attempts, the
moment a search stops waiting (`StopsWaiting`), and the collection that cancels what has not
begun (`Collects`). A thread goes on after its search has given up; the next search finds it
busy.

**`ApiResources`**: who builds, holds, is given and releases each resource, for those
behind a lock and those that are not.

**`SignIn`**: `provision` in the steps of its statements, with the savepoint, the waits
on unique keys and rows, the recovery from a conflict, and `_refresh`, which writes an address
only when the account was read with another one. `_resolve_principal` also refuses an inactive
account; no code makes one, so the model has none.

**`TaskSubmission`**: requests with one idempotency key: lookup, insertion,
the rows of the same transaction, its commit or rollback, and the replay or conflict.

**`ResumeLibrary`**: `save_version` in its three statements. The UPDATE sees what was
committed when it began and waits for the rows it changes.

**`JobCatalog`**: the save of a search's results, listing by listing: the pipeline's
order, the lookups without locks, the flushes that lock rows and keys, and the end of
a transaction that waits in a circle (`IsDeadlockVictim`). `Flushed` writes the columns
that differ from the row as it was loaded, so a listing that another save has changed since
(`overtaken`) ends up with the columns of both.

**`Matching`**, **`SkillPicture`** and **`Tailoring`** are pure functions: the scoring and
ranking of jobs, the skill snapshot, the tailoring plan with the letter composed from it and
the questions of an interview kit (`Questions`). Each has one variable, its input, and no
steps: TLC takes every input of a bounded set as an initial state. Names and items are
model values; what tells them apart in the code (a pattern, a token set) is an
input. **`Arrangements`** has the operators they sort and filter with: `Arranged` puts a
finite set in a strict order, each member at the place that the number of those before it
says, and `Picked` is what a sequence holds at some of its indices, in its own order. Where the
code sorts by a key or keeps what meets a condition, the model names the order or the
indices. In `Matching` the similarity of a resume and a job is a constant: an embedding
compares two texts, and each of them contains the skills (`resume_formatter.py:21-22`,
`job_formatter.py:31-41`), so it depends on all of both, and nothing is assumed of it but the range it
is cut to.

**`ResumeText`** is the reading of a resume's text: the loop that looks for skills
(`DeclareLine`), then the one that looks for sections (`KeepLine`), a line a step. The two have
different patterns, so a line (`Line`) is a record of what each sees in it: "Key skills" is a
heading to the first and text to the second, "Skills: Python" is a heading with skills behind
it and text, an achievement that begins with a dash is a bullet and text. A section's lines are
kept when another heading, or the end of the text (`ContentIsRead`), closes it; an entry and
a declaration are the numbers of the lines they are joined from. Of the extraction of skills the
scan for common ones, the part of a line before a colon and the limit of eight words on a name
are left out.

**`MCServices`** runs one component per behaviour, for the same reason.
**`Services_proofs`**, **`Arrangements_proofs`** and **`Advice_proofs`** hold the theorems.

Operators whose comment begins with "Faulty", or stand under the heading
"Faulty variants", are plausible mistakes. No specification uses them; each
property was seen to fail when the operator it names in `PROJECT.json` is
replaced by such a variant.

## 4. What is checked

| Run | Specification | Shows |
|---|---|---|
| `tasks_safety` | `Spec` | `TypeOK`, `RowsAreConsistent`, `SucceededHasResult`, `PublishedWasAccepted`, `EndedIsFinal`, `ImplementsContract` |
| `tasks_liveness` | `FairSpec` | `EveryTaskEnds`, `CancellationTakesEffect` |
| `tasks_recovery` | `RecoverySpec` | `QueuedIsPickedUp` |
| `tasks_result_overwritten` | `Spec` | a behaviour in which `DuplicateDeliveryIsHarmless` is false |
| `applications_overlap` | `Spec`, overlapping | `TypeOK`, `HistoryExplainsStatus`, `BoundariesAreKept`, `DocumentsAreApproved` |
| `applications_serial` | `Spec`, not overlapping | `HistoryIsAPath`, `PacketIsSound`, `SettledIsFinal`, `ImplementsWorkflow` |
| `applications_ready_incomplete` | `Spec`, overlapping | a behaviour in which `ReadyIsComplete` is false |
| `reminders_cycles` | `Spec`, overlapping | `TypeOK`, `CyclesOnlyDismiss` |
| `reminders_serial` | `Spec`, not overlapping | `DatesMatchStatus`, `ImplementsPolicy` |
| `reminders_liveness` | `FairSpec` | `EveryDeadlineIsSurfaced`, `SupersededIsDismissed` |
| `workspaces` | one workspace per behaviour | `DocumentsAreReviewed`, `ImplementsHistory`, `LetterFactsAreKept`, `NotesAreKept`, `SearchIsAsShown`, `DeskIsTrue`, `SessionIsKept` |
| `services` | one component per behaviour | `ReportIsTrue`, `GuardedResourcesAreShared`, `OneAccountEach`, `OneSearchPerKey`, `OneActiveResume`, `CatalogIsSound`, `MatchingIsFair`, `PictureIsTrue`, `DocumentsAreFactual`, `ResumeIsReadWhole` |

Several of these are conjunctions of named properties, stated one by one in the
modules: `RowsAreConsistent`, `PacketIsSound`, `SettledIsFinal` and most of the
properties of the last two runs. Every part has a mutant of its own in
`PROJECT.json`.

The counterexample about tasks is to what `docs/architecture/0022` (decision 3) says of duplicate
deliveries. A message reaches a running task when the API's publication is
recorded late, or when maintenance redelivers a message that was only slow; the
second worker then searches as well, and can replace the jobs of a task
that a client has already been shown as succeeded.

The one about applications states a sentence of `0038` which the same handlers
keep when requests do not overlap: a request decides on a row it has not locked and
another commits before it writes, so a confirmation is withdrawn under `mark_ready`.
For the same reason the other properties of
`applications_serial` are about requests that do not overlap: with `Overlapping = TRUE`
an update can land on a packet that became ready (`ReadyPacketIsLocked`), and a
transition can take a withdrawn tracker back to another status (`TerminalIsFinal`). What
holds even then is that the log accounts for every status and that nobody gets past
readiness or submission without the packet.

**Divergences that no run lists.** These were met while modelling; each is a
behaviour of the model that TLC finds in a moment when the named formula is added
to the run's configuration, or a consequence of definitions as they stand.

* `DocumentsShareResume` with `Overlapping = TRUE` (`applications_overlap`): two
  updates that are valid alone are merged into a packet with documents of two
  resumes, which `0038` (19-20) excludes.
* `EveryDeadlineIsSurfaced` with `Limit = 1` and two applications
  (`reminders_liveness`): both queries of `reconcile` are limited, and neither leaves
  out what needs nothing. Overdue plans that have their reminders fill the second,
  and any open reminders the first, so another plan is never reminded of, or another
  reminder never dismissed; `0029` (7-8) needs deadlines to surface reliably.
  `ReminderPolicy` also shows what `0029` leaves open: a reminder dismissed because the
  plan was changed for a while stays dismissed when the plan is restored.
* `ApprovedWasReviewed` (`DocumentReview`, in `workspaces`): a confirmation ticked while
  a save is under way is not reset when its answer puts the new version on display
  (`tailored-resume-workspace.tsx:201`), so a version can be approved that nobody
  confirmed. `0036` (13-15) wants each exact version reviewed. What holds is
  `ApprovalWasTicked`.
* `OneExecutor` (`ApiResources`, in `services`): `get_job_discovery_service` takes no lock
  (`dependencies.py:170`), so two first requests build two executors and one is never
  shut down. `0050` (14) speaks of one shared executor.
* `PreparationIsAvailable` (`InterviewKits`, in `workspaces`): the page creates a kit with a
  POST that names no content type (`interview-kit-workspace.tsx:51`), and the proxy answers
  415 to any POST that is not JSON (`authenticated-proxy.ts:61`).
* `DownloadBreaksOff` (`WebProxy`): the body of a download is read outside of any handler
  (`authenticated-proxy.ts:135`). When the connection breaks the refreshed session is lost,
  where `0024` has refreshed cookies copied onto the response.
* `Deduplicated` (`JobCatalog`): the pipeline keeps the first listing of a fingerprint and
  drops those of other providers, of which `0009` (15) wants every source kept.
* Two listings that the catalog merges into one job make `save_result` insert one
  (task, job) pair twice and the whole save fails (`Commits` in `JobCatalog`).
* The title order of `SortStage` does not exclude deadlocks between saves: jobs met under
  an old title break the lock order, and so does a URL that two searches found under two
  titles. `TitleOrderPreventsDeadlock` excepts these, and only these.
* A listing row that another save changes between the read and the flush is merged column
  by column (`jobs.py:144-147`): it may end with the URL of one and the external id of the
  other, and the next search does not find it as either. `SavedListingsAreFiled` asks of
  such a listing only that it is filed under its job.
* `ApplicationDesk`: a packet workspace that is closed while it saves, and opened again, shows
  the packet as it was and is not busy; marked ready then, and served after the save, it locks
  what the save wrote and not what was on display. `0038` (16-17) speaks of explicit review
  confirmations, and they are those of the other packet. Besides lost answers and other
  pages, `LockedAsShown` excepts only requests that overlap after such a closing.
* `ApplicationDesk`: after an answer that never came, or a change made on another page, a status
  change repeats the plan of a stale copy and undoes the stored one, the step of the packet
  included. `PlanSurvivesMove` excepts both.
* `SkillPicture`: `0042` (15-16) counts the creation of a saved job or an application "when they add
  roles that are not already represented by search history". The code takes the latest time of
  all three lists (`skill_intelligence.py:57-65`), so saving a role found long ago moves it to the most
  recent bucket. `LastSeen` is the code's rule, and no property speaks of it.
* `Matching`: naming one more skill of a job can lower the score, as it changes the text that
  is embedded and the similarity has six tenths of the weight. `BetterOnBothScoresNoLower`
  therefore asks for a similarity that is no lower. A skill that no structured list has still
  counts, through the similarity.
* `ResumeText`, headings: "Key skills" and other headings that only the skills loop knows
  (`extractor.py:15-20`), and "Skills: Python", do not end a section for the content loop, which keeps them
  and what follows as lines of the section that is open (213-229).
* `ResumeText`, bullets: an en or em dash is a bullet to the skills loop (181-183) and not to
  the other (42, 243), so achievements that dashes begin are read as one.
* `ResumeText`, wrapping: a second skills heading does not end a bullet that the line before it
  left open (169), and skills behind such a heading are joined to it.
* `ResumeText`, education: a line of marks alone leaves an empty entry (235).

**Bounds.** One task, one API thread, one maintenance cycle, two workers in the
safety runs and one in the liveness runs; two attempts (`MaxAttempts`), one
redelivery (`MaxRetries`), at most two copies of a message at a time
(`MaxCopies`), one killed worker process (`MaxCrashes`). Tasks share no state
but the batch limit, so one task shows every interleaving of actors around
a row; two attempts have a first and a last one; two copies and two workers are
what a duplicate execution takes, and with a crash and a recovery the stale
worker, the new attempt and a further message coexist. `MaxCopies` and
`MaxCrashes` are bounds of the model, the other constants are settings of the code.

For applications: two requests, as every race here is between one request that has read
and one that commits meanwhile. `applications_overlap` has two resumes, a tailored
resume of one and a letter of the other, one confirmation and three events
(`MaxEvents`), enough for a packet to be ready and submitted and for the log to branch
before that; longer histories are left to `applications_serial` and to the theorems.
`applications_serial` has a letter that goes with the tailored resume, one that does not
and one for another job, two confirmations and a deadline. The symmetry is that of the
requests. `MaxEvents` is the only bound of the model. The properties checked with
symmetry are invariants and action properties.

For reminders: `reminders_cycles` has two deadlines of one application and two cycles
without requests, as an incomplete reminder takes a cycle that holds a plan while
another one commits, and both may create the same reminder; requests would only add
steps of the kind that `CyclesOnlyDismiss` exempts, and the theorem has them.
`reminders_serial` has a request, two deadlines and two next actions, so that a plan may
be moved, restored and renamed. In these and in `reminders_liveness` the limit is the
number of reminders there can be (2): nothing is left out. The reminder model has no
bound of its own.

For `workspaces`: one page and two requests for documents and for the tracker, so that
an answer can be late for what came after it; for letters one request, as their code is
that of documents and the question is their content; two versions (`MaxVersion`) and two
plans (`MaxPlan`), for a first and a later one; two tasks and two cancellations for a
search that is cancelled and begun again; for the tracker one action of the owner's besides
the two of the service, with a deadline and without, and two resumes.
`MaxVersion`, `MaxPlan` and their letter counterparts are bounds of the model. Two flags
per part (`overlapping` and its like) choose at the start whether transactions may
overlap. The tracker's behaviours end where an answer was lost to it, another page wrote, or
requests overlapped after a workspace was closed while it saved, as nothing is asserted of it
afterwards.

For `services`: two searches of two providers on one thread, so that one waits behind what the
other abandoned; two requests and all five resources; two sign-ins with two subjects and two
addresses, and four accounts (`MaxAccount`) for each sign-in to be repeated; three submissions
of one key and two inputs; three uploads, four versions (`MaxResume`); two saves of results
chosen so that listings share a URL, an external id or a fingerprint in every combination that
the upsert tells apart, three titles for an order to be broken, three listing rows
(`MaxListing`), which is one more than a save adds. The functions take all inputs of their
sets: two jobs with any of four requirements, every resume of four names with an alias; resumes
of up to three items with and without achievements, and jobs that list a requirement twice; all
texts of up to three lines of twelve kinds (`Lines`), which a heading, a bullet and the line that
completes it need, and those of four (`MaxLine`) that one of two headings begins. The similarities of the run go up and down
with the skills of a resume.

`workspaces` and `services` set `CHECK_DEADLOCK FALSE`: a person, or a client, may stop, and
a function has no steps. The other passing runs check for deadlock. The symmetry of these
runs exchanges slots of requests; their properties are invariants and action properties.

**Fairness.** `MaintenanceIsScheduled` says that maintenance runs for ever and
gets to each due row in the end (its queries order by `updated_at`, and
`docs/operations/background-tasks.md` has it scheduled), that a dispatcher and an
execution go on once begun (Dramatiq's time limit ends an execution that does
not), and that an unrenewed heartbeat grows old. The strong fairness of
`Reconciles(t)` covers SKIP LOCKED: a row may be locked in one cycle and not in
another. `FairSpec` adds only that queues age; no message need ever arrive and no
worker need ever run. `RecoverySpec` instead lets the queue never expire and adds
that a cycle gets through its read, its publication, and a worker through
a start, from time to time. Nothing is assumed about clients, about the broker keeping messages
or about workers staying alive. A message that kills its worker for ever, each
time after a heartbeat, is excluded by `MaxCrashes`.

In `Reminders`, `MaintenanceIsScheduled` says that cycles begin for ever and go on, and
(strong fairness of `Commits`) that not each of them is cut off or refused. Nothing is
assumed of the clock, of users, or of which open reminders the unordered query returns.
The liveness properties are about plans that stay as they are, because a plan may change
before every cycle.

## 5. What is proved

`DiscoveryTasks_proofs` proves for any sets of tasks, workers and dispatchers and
any limits (from `MaxAttemptsAssumption` and `SystemAssumption` only):

* `Invariance`: `Spec => []IInv`;
* `TypeCorrect`, `AttemptsAreBounded`, `CancellationIsNotOverruled`,
  `OutcomesAreRecorded`, `ResultsAreThere`, `PublicationsAreReal` and `RowsStayConsistent`
  (the three about a row as one property): the invariants of `tasks_safety`;
* `EndedTasksStayEnded`: the action property `EndedIsFinal`;
* `SystemImplementsContract`: the refinement of `TaskContract`.

The argument has two layers. `RowStep` lists what one transaction may do to one
row. `RowInv` is the invariant of a row; it joins the invariants above and
adds that a row that was never created is `AbsentRow`, which makes it inductive:
`RowStepKeepsType` and `RowStepKeepsRowInv` are about one row and no system.
`NextIsRowStep` then matches every action with the repository method it calls.
What cannot be said of one row is `WorkerInv` (a worker past `save_result` has a
result to point at, unless retention removed the task: this is what makes
`SucceededHasResult` inductive, because `Complete` may be run by another worker
than the one whose result is stored) and `DispatcherInv` (what is about to be
recorded was accepted). `NextIsResultStep` says what a step does to a stored
result; with `RowStepIsMove` it gives the refinement.

`Applications_proofs` proves for any requests, resumes, documents, confirmations and
deadlines (from `DocumentAssumption` and `RequestAssumption` only):

* `Invariance`, and from it `TypeCorrect`, `HistoryExplains`, `BoundariesHold`,
  `OnlyApprovedDocuments`: what holds however requests overlap;
* under `Overlapping = FALSE`: `SerialInvariance`, and from it
  `RequestsImplementWorkflow` (the refinement), `HistoriesArePaths`,
  `ReadyPacketsAreComplete`, `DocumentsAreOfOneResume`, `ReadyPacketsAreLocked`,
  `TerminalTrackersAreFinal`, and with them the properties of `applications_serial`,
  `PacketsAreSound` and `SettledStaysFinal`.

The first part rests on facts that only grow. A request may hold a stale reading,
but that a status was reached, that the packet became ready, that a document was
approved stays true (`Monotone`), so what a request knew when it read
(`TxnOK`) it still knows when it writes; `TxnInvIsKept` says this once for all
steps. The second part adds what cannot be stale when a request is alone:
`Current` says that the reading of the request under way still is the row,
`Alone` that there is one such request. With it each writing step is one step
of `ApplicationWorkflow` and each reading step stutters (`StepIsSerial`), and the
four properties that overlap breaks follow from the workflow.

`Reminders_proofs` proves for any applications, deadlines, runners and requests and any limit
(from `OrderAssumption` and `CycleAssumption` only) `TypeCorrect`, `StatusIsTheUsers` (that is
`CyclesOnlyDismiss`) and, under `Overlapping = FALSE`, `DatesTellStatus` and
`CyclesImplementPolicy`. `TypeOK` is not
inductive: a cycle's dismissal of an absent reminder would leave half a row. `IInv` adds that what a
cycle or a request has loaded exists (`CycleKnows`), which lasts because nothing deletes a reminder
(`KnowledgeIsKept`), and that what a cycle is about to insert has a next action, which is what
catching the IntegrityError of a NULL provides. For the dates, `LoadedIsCurrent` says that a
request that is alone writes to the row it loaded. The refinement of `ReminderPolicy`
(`CyclesImplementPolicy`) also assumes `NothingExceedsLimit`, that reminders and applications
are no more than the batch, without which the policy does not hold (see the divergences).
`OnCourse` says how far a cycle has come on its way to what the policy calls for: which
reminders its first loop has found superseded, that what it holds is still so, and, before it
writes, that its writes applied to each row give the row of the policy (`Follows`). Every step
but the commit stutters.

`DocumentReview_proofs` proves for any tabs, requests, contents and any relation `Locked`
(from `DocumentBounds` only) `DocumentsStayReviewed` (that is `DocumentsAreReviewed`) and
`ReviewImplementsHistory` (the refinement, with overlapping requests and without). Rows are only
appended and only gain marks (`RowsGrow`), so what a request or a tab has read of them stays
true (`SoundStays`, `ShownStays`); what may be stale is that a version is the latest, and
`CallKnows` says it only of requests that are alone (`OneTransaction`). The number a request
has taken is at most one past the last, so one that is still free is the next one
(`NumbersFollow`). That an approved document was ticked takes the part of the invariant about
tabs: until the first tick a tab waits for one request at a time, a save of the
version on display (`NotYetTicked`), so the tick marks that version and whatever the answer
brings; from then on all that the tab shows, or falls back to, is of a ticked document
(`TickedForGood`). `ServiceKeepsInv` and `PageKeepsInv` say once for all actions of
the service, and of a page, what is left to show of a step.

`Workspaces_proofs` proves, for letters, from `LetterBounds`, `LettersKeepTheirFacts`
(`LetterFactsAreKept`), `LettersStayReviewed` and `LettersImplementHistory`. It instantiates
`DocumentReview_proofs` under the mapping of `CoverLetters`, so the last two are the theorems
about documents, said of letters: what is left to show is that each action of the one is an
action of the other. The facts are proved anew: a revision that has
passed the comparison carries what the sources state, and goes on carrying it until it is
inserted, whatever the other requests do meanwhile (`Compared`); a created letter is composed from
them; and a mark leaves the content of its row alone.

It also proves four results about pages and the proxy, each with an inductive invariant of its own:

* `PageTellsTheTruth` (`SearchIsAsShown`) for any tasks and cancellations, from
  `SearchAssumption`: a running search has a task that was created for it and that no page
  was told is stopped (`HandlerIsSound`), and whatever ends a search leaves nothing of it;
* `SessionsSurvive` (`SessionIsKept`): the record of an exchange says how far it got;
  nothing is refreshed before the session was looked at, and from then on the handler
  remembers a refresh until it answers (`IsSound`);
* `NotesOfAKitAreKept` (`NotesAreKept`) for any requests, notes and resumes, from `KitTexts`:
  a kit is made once, and what an update has read is what is stored as long as updates do not
  overlap (`ReadIsCurrent`), as nothing else writes a kit;
* `DeskShowsTheTruth` (`DeskIsTrue`) for any slots, plans and resumes, from
  `DeskCopies`. Two arguments go together. While nothing has raced or
  been lost, there is one request at a time, and each copy that its answer, and the refresh
  that follows it, do not replace is what the database holds (`CopiesInv`). While nothing was
  lost, whatever races, and until a request overlaps one that a closed workspace left behind,
  the packet has one request at a time, so what it shows without edits is the packet as stored,
  and what was on display when it was marked ready is what is locked (`PacketInv`).

`Services_proofs` proves six results, one for each component of the service:

* `EveryoneHasOneAccount` (`OneAccountEach`) for any requests, subjects and addresses, from
  `SignInBounds`: a key is given out once, an account that is not yet committed is known to
  one request, and a committed link is for good;
* `SearchesAreShared` (`OneSearchPerKey`) for any requests and inputs, from
  `SubmissionAssumption`: at most one request has inserted and not committed
  (`OneInserts`), and a found task is there (`RequestKnows`);
* `OneResumeIsActive` (`OneActiveResume`) for any uploads, from `ResumeBound`: as long as the
  number that an upload has read is free, nobody has saved a version since, so what its UPDATE
  saw is what is active;
* `ResourcesAreShared` (`GuardedResourcesAreShared`) for any requests and settings, from
  `ResourceAssumption`: who builds or stores a guarded resource holds its lock
  (`LockIsHeld`), so whoever takes the lock and finds no instance knows that none is under way,
  and whoever is served has the one that is stored (`InstanceIsKnown`);
* `CatalogStaysSound` (`CatalogIsSound`) for any saves, results and title ranks, from
  `CatalogBound` and `ResultsAreRanked`. First the pipeline, a fact about `Arranged` that rests
  on counting what precedes an index: `Processed` sorts strictly by title
  (`ProcessedIsSorted`). Then the invariant of a save (`SaveIsSound`): it holds the jobs it
  has saved and no later ones, its new rows are its own, and each listing it saved is filed
  where it will be found, or was overtaken, or shares its job with another one of the save, in
  which case `Commits` fails (`Filed`). `RowsAgree` says that nobody changes the job of a row.
  Two saves that wait for each other over jobs would each need a job that comes after one it
  holds (`WaitsFollowTitles`, `TitlesPreventDeadlock`).
* `ReportsAreTrue` (`ReportIsTrue`) for any searches, registry and
  number of threads, from `ProviderSearchBounds`. The invariant is about one call (`CallIsTrue`):
  what had ended when its search stopped waiting stays as it was; what had not is
  cancelled before a thread takes it or reported as started, whatever becomes of it later; and
  what is reported agrees with the future as it is from then on (`ReportAgrees`).

`Arrangements_proofs` has the lemmas about sorting and filtering that the others cite. All of
them count: the members of a finite set that precede one of them in a strict order are fewer
than those that precede a later one, and as there are as many places as members each
place is taken (`PlacesAreTaken`, by the pigeonhole theorem of the library). So an arranged
set is sorted and has each member once (`ArrangedIsSorted`), and a picked sequence is as long
as the set of its indices and holds what they hold (`PickedIsSequence`, `PickedIsInOrder`).

`Advice_proofs` proves four results:

* `JobsAreMatchedFairly` (`MatchingIsFair`) for any names, aliases, resumes and jobs, from
  `MatchInputs`, which assumes of the similarity only its range. Matched and missing skills are picked
  at complementary indices, so their lengths add up; a resume that covers as much matches as
  many, and the rounding of the score, to even at a tie, is monotonic (`RoundedIsMonotonic`) and
  keeps a mean between the two signals. Names with one key cover the same indices.
* `PicturesAreTrue` (`PictureIsTrue`) for any history, names and limits, from
  `PictureInputs` and `PictureBounds`. The roles are the first places at which each is met
  (`RolesAreFirstMet`), so counts over roles are cardinalities, and each has one last day and is in
  one bucket (`RecencyIsShared`); `PictureInputs` assumes of the two normalisations only that
  names that are written alike have one key.
* `DocumentsSayWhatResumesSay` (`DocumentsAreFactual`) for any resume and job, from
  `TailoringInputs`. Reordering picks each index once; every piece of evidence carries the index of
  the item it quotes (`Quotes`), and that is kept when lists are joined, cut and filtered. The
  index of a quoted skill is its place among the matched skills, which is what the letter
  stores, and not its place in the resume; the matched skills are skills of the resume. An
  interview kit asks about a skill once, because the skills it asks about come from disjoint
  picks of a list in which each is held once.
* `ResumesAreReadWhole` (`TextSpec => []ResumeIsReadWhole`) for texts of any length and any
  kinds of lines, from `ResumeTextBound`. It says of each loop what that loop does with the lines
  under the headings it knows itself. The property speaks of the end; the inductive invariant `TextInv`
  says the same of each line the loops have reached (`SkillsAt`, `ContentAt`). For the skills
  it adds that a bullet just read is the end of the last declaration and is still wrapped, which is
  what the next line needs in order to join it. For the sections it adds the lines that were
  read and not kept yet (`Pending`): they come after all that was kept of their section, so
  that appending their groups keeps the order (`EntriesAreJoined`), and grouping
  them loses none and puts a bullet nowhere but first (`LinesAreGrouped`).

The inputs of the first three are the conditions under which the code runs at all: sequences
of names, finite sets of terms.

Only model-checked: the liveness properties (`EveryTaskEnds`, `CancellationTakesEffect`,
`QueuedIsPickedUp`, `EveryDeadlineIsSurfaced`, `SupersededIsDismissed`), as their proof needs
ENABLED. The counterexamples are behaviours that TLC finds. Bounds of
the models (`MaxVersion`, `MaxListing` and their like) are parameters of the theorems, which
hold for each of their values.

## 6. Not modelled

What `PROJECT.json` lists as `not_modelled`, and what the note of each `partly` component
leaves out:

* recommendation history and subscriptions: rows written once, in one transaction, that
  nothing decides on;
* provider adapters, language-model clients, file loaders, regular expressions, document
  layout, HTTP schemas: formatting and parsing without state;
* the verification of tokens and capabilities: cryptography, whose outcome the models begin
  with;
* the rolling of session cookies by the authentication library's middleware, which is not in
  this repository;
* configuration, metrics, worker wiring, migrations and deployment files: no behaviour over
  time; the settings that matter are constants of the models;
* saved jobs, the reminder bell, onboarding and the profile editor of the front end: one
  request at a time on one row;
* the LangGraph pipeline and the Streamlit prototype: a linear program that the web front end
  has replaced.
