---------------------------- MODULE SearchWorkspace ----------------------------
(* The search page of the web front end: it creates a search task, polls it,   *)
(* ranks what it found and shows the result, while the person may cancel and   *)
(* start again. Handlers run without a break up to an await; the page's state, *)
(* the reference to the active task and the controller that aborts the running *)
(* search are shared by every handler. The task itself is the background task  *)
(* of DiscoveryTasks, seen through its HTTP interface.                         *)
EXTENDS Naturals

CONSTANTS
  SearchTask,  \* the tasks the server may create
  Cancel,      \* slots for cancellations under way
  NoTask

ASSUME SearchAssumption == NoTask \notin SearchTask

VARIABLES
  searchView,    \* what the page shows
  searchShown,   \* the task whose result it shows, or NoTask
  search,        \* the handler that runs and was not aborted
  activeTask,    \* the reference a cancellation uses
  cancelling,    \* cancelling[d]: the task whose cancellation is under way
  serverTask,    \* the tasks on the server
  toldStopped    \* history: the tasks the person was told have been stopped

searchVars == <<searchView, searchShown, search, activeTask, cancelling,
                serverTask, toldStopped>>

NoSearch == [step |-> "none", task |-> NoTask]

Busy == searchView \in {"queued", "running", "ranking"}

-------------------------------------------------------------------------------
(* The search handler.                                                         *)

\* Whatever still runs is aborted; a new search starts.
StartsSearch ==
  /\ searchView \in {"idle", "error", "success"}
  /\ search' = [step |-> "posting", task |-> NoTask]
  /\ searchView' = "queued" /\ searchShown' = NoTask
  /\ UNCHANGED <<activeTask, cancelling, serverTask, toldStopped>>

\* The server creates the task; the page does not know it before the answer.
TaskIsCreated(task) ==
  /\ search.step = "posting" /\ serverTask[task].status = "none"
  /\ search' = [step |-> "created", task |-> task]
  /\ serverTask' = [serverTask EXCEPT ![task].status = "queued"]
  /\ UNCHANGED <<searchView, searchShown, activeTask, cancelling, toldStopped>>

CreationIsAnswered ==
  /\ search.step = "created"
  /\ search' = [search EXCEPT !.step = "polling"]
  /\ activeTask' = search.task
  /\ UNCHANGED <<searchView, searchShown, cancelling, serverTask, toldStopped>>

\* Where no worker is configured the page searches in the request itself.
FallsBackToRequest ==
  /\ search.step = "posting"
  /\ search' = [search EXCEPT !.step = "falling"]
  /\ UNCHANGED <<searchView, searchShown, activeTask, cancelling, serverTask, toldStopped>>

\* The search found jobs, which are now ranked, or found none.
Found(jobs) ==
  /\ search' = IF jobs THEN [search EXCEPT !.step = "ranking"] ELSE NoSearch
  /\ searchView' = IF jobs THEN "ranking" ELSE "error"

FallbackIsAnswered(jobs) ==
  /\ search.step = "falling" /\ Found(jobs)
  /\ UNCHANGED <<searchShown, activeTask, cancelling, serverTask, toldStopped>>

\* One round of polling: the page follows a task that runs, and takes the
\* result of one that succeeded. What else the answer may be is a failure.
Polls(jobs) ==
  /\ search.step = "polling"
  /\ \/ /\ serverTask[search.task].status = "running"
        /\ searchView' = "running"
        /\ UNCHANGED <<search, activeTask>>
     \/ /\ serverTask[search.task].status = "succeeded"
        /\ Found(jobs)
        /\ activeTask' = NoTask
  /\ UNCHANGED <<searchShown, cancelling, serverTask, toldStopped>>

IsRanked ==
  /\ search.step = "ranking"
  /\ searchView' = "success" /\ searchShown' = search.task
  /\ search' = NoSearch /\ activeTask' = NoTask
  /\ UNCHANGED <<cancelling, serverTask, toldStopped>>

\* Faulty: the page stops without saying so.
FailsSilently ==
  /\ search.step \notin {"none"}
  /\ search' = NoSearch /\ activeTask' = NoTask
  /\ UNCHANGED <<searchView, searchShown, cancelling, serverTask, toldStopped>>

\* Faulty: the reference to the task is not dropped.
FailsKeepingTask ==
  /\ search.step \notin {"none"}
  /\ searchView' = "error" /\ searchShown' = NoTask
  /\ search' = NoSearch
  /\ UNCHANGED <<activeTask, cancelling, serverTask, toldStopped>>

\* A request is refused or lost, the task failed or was cancelled, or two
\* minutes of polling are over: the page waits no longer. The task may run on.
SearchFails ==
  /\ search.step \notin {"none"}
  /\ searchView' = "error" /\ searchShown' = NoTask
  /\ search' = NoSearch /\ activeTask' = NoTask
  /\ UNCHANGED <<cancelling, serverTask, toldStopped>>

-------------------------------------------------------------------------------
(* The cancellation handler. The button is never disabled.                     *)

\* Whatever search runs by then is aborted.
StopsWaiting ==
  /\ search' = NoSearch
  /\ searchView' = "error" /\ searchShown' = NoTask

CancelsLocally ==
  /\ Busy /\ activeTask = NoTask
  /\ StopsWaiting
  /\ UNCHANGED <<activeTask, cancelling, serverTask, toldStopped>>

SendsCancellation(d) ==
  /\ Busy /\ activeTask # NoTask
  /\ cancelling[d] = [task |-> NoTask, served |-> FALSE]
  /\ cancelling' = [cancelling EXCEPT ![d].task = activeTask]
  /\ UNCHANGED <<searchView, searchShown, search, activeTask, serverTask, toldStopped>>

\* The server cancels a queued task at once and marks a running one.
CancellationIsServed(d) ==
  LET task == cancelling[d].task IN
  /\ task # NoTask /\ ~cancelling[d].served
  /\ cancelling' = [cancelling EXCEPT ![d].served = TRUE]
  /\ serverTask' = [serverTask EXCEPT ![task] =
       IF @.status = "queued" THEN [@ EXCEPT !.status = "cancelled"]
       ELSE IF @.status = "running" THEN [@ EXCEPT !.stop = TRUE] ELSE @]
  /\ UNCHANGED <<searchView, searchShown, search, activeTask, toldStopped>>

\* Faulty: the running search is not aborted.
ReturnsWithoutAbort(d) ==
  /\ cancelling[d].task # NoTask
  /\ activeTask' = NoTask /\ searchView' = "error"
  /\ toldStopped' = IF cancelling[d].served
                    THEN toldStopped \union {cancelling[d].task} ELSE toldStopped
  /\ cancelling' = [cancelling EXCEPT ![d] = [task |-> NoTask, served |-> FALSE]]
  /\ UNCHANGED <<searchShown, search, serverTask>>

\* The answer, or its absence: either way the page stops waiting.
CancellationReturns(d) ==
  /\ cancelling[d].task # NoTask
  /\ activeTask' = NoTask
  /\ StopsWaiting
  /\ toldStopped' = IF cancelling[d].served
                    THEN toldStopped \union {cancelling[d].task} ELSE toldStopped
  /\ cancelling' = [cancelling EXCEPT ![d] = [task |-> NoTask, served |-> FALSE]]
  /\ UNCHANGED serverTask

-------------------------------------------------------------------------------
\* The worker starts the task and ends it; a mark to stop is honoured at the
\* next safe boundary, unless the work was done by then.
ServerAdvances(task) ==
  /\ \E next \in CASE serverTask[task].status = "queued" -> {"running"}
                   [] serverTask[task].status = "running" ->
                        {"succeeded", "failed"} \union
                        (IF serverTask[task].stop THEN {"cancelled"} ELSE {})
                   [] OTHER -> {} :
       serverTask' = [serverTask EXCEPT ![task].status = next]
  /\ UNCHANGED <<searchView, searchShown, search, activeTask, cancelling, toldStopped>>

SearchInit ==
  /\ searchView = "idle" /\ searchShown = NoTask
  /\ search = NoSearch
  /\ activeTask = NoTask
  /\ cancelling = [d \in Cancel |-> [task |-> NoTask, served |-> FALSE]]
  /\ serverTask = [task \in SearchTask |-> [status |-> "none", stop |-> FALSE]]
  /\ toldStopped = {}

SearchNext ==
  \/ StartsSearch
  \/ \E task \in SearchTask : TaskIsCreated(task) \/ ServerAdvances(task)
  \/ CreationIsAnswered
  \/ FallsBackToRequest
  \/ \E jobs \in BOOLEAN : FallbackIsAnswered(jobs) \/ Polls(jobs)
  \/ IsRanked
  \/ SearchFails
  \/ CancelsLocally
  \/ \E d \in Cancel :
       SendsCancellation(d) \/ CancellationIsServed(d) \/ CancellationReturns(d)

SearchSpec == SearchInit /\ [][SearchNext]_searchVars

-------------------------------------------------------------------------------
\* The page says that a search is under way exactly while one is: no handler
\* that ends, fails or is cancelled leaves it waiting for nothing, and none
\* goes on behind a page that says it ended.
BusyMeansSearching == Busy <=> search # NoSearch

\* The reference a cancellation uses names the task of the search under way,
\* and no other: the button never cancels an earlier search.
CancelsItsOwnSearch == activeTask # NoTask => activeTask = search.task /\ search # NoSearch

\* A result is never shown of a task the person was told has been stopped,
\* whatever the order in which the poll and the cancellation are answered.
NoResultOfStoppedTask == searchShown \notin toldStopped

\* What the page says of a search is so, and its button acts on that search,
\* in whatever order creations, polls, rankings and cancellations are answered.
SearchIsAsShown ==
  /\ BusyMeansSearching
  /\ CancelsItsOwnSearch
  /\ NoResultOfStoppedTask
===============================================================================
