--------------------------- MODULE Workspaces_proofs ---------------------------
(* What the workspaces promise the person in front of them: a search is shown  *)
(* as it is, a session survives the proxy, the notes of an interview kit are   *)
(* kept, the application tracker shows and sends what is so, and a letter      *)
(* states what its sources do. Each part has its own inductive invariant, and  *)
(* none refers to another.                                                     *)
EXTENDS SearchWorkspace, WebProxy, InterviewKits, ApplicationDesk, CoverLetters, TLAPS

-------------------------------------------------------------------------------
(* Whatever the order in which the requests of the search page are answered,   *)
(* the page is busy exactly while a search runs, cancels that search, and      *)
(* shows nothing of one that it said was stopped. A search that runs has a     *)
(* task of its own, new when the search began: so it was never stopped, and a  *)
(* cancellation that stops it ends the search as well.                         *)

TaskOrNone == SearchTask \union {NoTask}

TaskStatus == {"none", "queued", "running", "succeeded", "failed", "cancelled"}

HandlerType ==
  [step : {"none", "posting", "created", "polling", "falling", "ranking"}, task : TaskOrNone]

SearchTypeOK ==
  /\ searchView \in {"idle", "queued", "running", "ranking", "error", "success"}
  /\ searchShown \in TaskOrNone
  /\ search \in HandlerType
  /\ activeTask \in TaskOrNone
  /\ cancelling \in [Cancel -> [task : TaskOrNone, served : BOOLEAN]]
  /\ serverTask \in [SearchTask -> [status : TaskStatus, stop : BOOLEAN]]
  /\ toldStopped \in SUBSET SearchTask

Created(task) == serverTask[task].status # "none"

\* A handler that has no task yet, and one that has.
HandlerIsSound ==
  /\ search.step \in {"none", "posting", "falling"} => search.task = NoTask
  /\ search.step \in {"created", "polling"} => search.task # NoTask
  /\ search.task # NoTask => Created(search.task) /\ search.task \notin toldStopped

\* The page knows no task that the server has not created.
OnlyCreatedTasks ==
  /\ \A d \in Cancel : cancelling[d].task # NoTask => Created(cancelling[d].task)
  /\ \A task \in toldStopped : Created(task)

\* The inductive invariant.
SearchIInv ==
  /\ SearchTypeOK
  /\ HandlerIsSound
  /\ OnlyCreatedTasks
  /\ SearchIsAsShown

-------------------------------------------------------------------------------
LEMMA SearchInitHolds == SearchInit => SearchIInv
<1> SUFFICES ASSUME SearchInit PROVE SearchIInv  OBVIOUS
<1>1. SearchTypeOK
  BY DEF SearchInit, SearchTypeOK, HandlerType, TaskOrNone, TaskStatus, NoSearch
<1>2. HandlerIsSound /\ OnlyCreatedTasks
  BY DEF SearchInit, HandlerIsSound, OnlyCreatedTasks, NoSearch
<1>3. SearchIsAsShown
  BY DEF SearchInit, SearchIsAsShown, BusyMeansSearching, CancelsItsOwnSearch,
         NoResultOfStoppedTask, Busy, NoSearch
<1> QED  BY <1>1, <1>2, <1>3 DEF SearchIInv

\* Whatever ends the search of the page leaves nothing of it.
LEMMA StoppingKeepsInv ==
  ASSUME SearchIInv, search' = NoSearch, searchView' = "error", searchShown' = NoTask,
         activeTask' = NoTask, serverTask' = serverTask,
         cancelling' \in [Cancel -> [task : TaskOrNone, served : BOOLEAN]],
         \A d \in Cancel : cancelling'[d].task # NoTask => Created(cancelling'[d].task),
         toldStopped' \in SUBSET SearchTask, \A task \in toldStopped' : Created(task)
  PROVE  SearchIInv'
<1>1. SearchTypeOK'
  BY DEF SearchIInv, SearchTypeOK, HandlerType, TaskOrNone, NoSearch
<1>2. HandlerIsSound' /\ OnlyCreatedTasks'
  BY DEF HandlerIsSound, OnlyCreatedTasks, NoSearch, Created
<1>3. SearchIsAsShown'
  BY SearchAssumption
     DEF SearchIsAsShown, BusyMeansSearching, CancelsItsOwnSearch, NoResultOfStoppedTask, Busy
<1> QED  BY <1>1, <1>2, <1>3 DEF SearchIInv

\* A step of the server leaves the page as it is and creates tasks for good.
LEMMA ServerKeepsInv ==
  ASSUME SearchIInv, UNCHANGED <<searchView, searchShown, search, activeTask, toldStopped>>,
         serverTask' \in [SearchTask -> [status : TaskStatus, stop : BOOLEAN]],
         \A task \in SearchTask : Created(task) => Created(task)',
         cancelling' \in [Cancel -> [task : TaskOrNone, served : BOOLEAN]],
         \A d \in Cancel : cancelling'[d].task = cancelling[d].task
  PROVE  SearchIInv'
<1>1. SearchTypeOK'
  BY DEF SearchIInv, SearchTypeOK
<1>2. HandlerIsSound'
  BY DEF SearchIInv, SearchTypeOK, HandlerType, TaskOrNone, HandlerIsSound
<1>3. OnlyCreatedTasks'
  BY DEF SearchIInv, SearchTypeOK, TaskOrNone, OnlyCreatedTasks
<1>4. SearchIsAsShown'
  BY DEF SearchIInv, SearchIsAsShown, BusyMeansSearching, CancelsItsOwnSearch, NoResultOfStoppedTask, Busy
<1> QED  BY <1>1, <1>2, <1>3, <1>4 DEF SearchIInv

\* A step of the search handler, which keeps its task or gets a new one.
LEMMA HandlerKeepsInv ==
  ASSUME SearchIInv, UNCHANGED <<cancelling, toldStopped, serverTask>>,
         NEW step \in {"posting", "polling", "falling", "ranking"},
         search' = [step |-> step, task |-> search.task],
         step \in {"posting", "falling"} => search.task = NoTask,
         step = "polling" => search.task # NoTask,
         searchView' \in {"queued", "running", "ranking"},
         searchShown' \in {NoTask, searchShown},
         activeTask' \in {NoTask, search.task}
  PROVE  SearchIInv'
<1>1. SearchTypeOK'
  BY DEF SearchIInv, SearchTypeOK, HandlerType, TaskOrNone
<1>2. HandlerIsSound' /\ OnlyCreatedTasks'
  BY DEF SearchIInv, HandlerIsSound, OnlyCreatedTasks, Created
<1>3. BusyMeansSearching'
  BY DEF BusyMeansSearching, Busy, NoSearch
<1>4. CancelsItsOwnSearch'
  BY DEF CancelsItsOwnSearch, NoSearch
<1>5. NoResultOfStoppedTask'
  BY SearchAssumption
     DEF SearchIInv, SearchTypeOK, SearchIsAsShown, NoResultOfStoppedTask
<1> QED  BY <1>1, <1>2, <1>3, <1>4, <1>5 DEF SearchIInv, SearchIsAsShown

-------------------------------------------------------------------------------
LEMMA SearchStepKeepsInv ==
  ASSUME SearchIInv,
         \/ StartsSearch \/ CreationIsAnswered \/ FallsBackToRequest \/ IsRanked \/ SearchFails
         \/ \E jobs \in BOOLEAN : FallbackIsAnswered(jobs) \/ Polls(jobs)
         \/ \E task \in SearchTask : TaskIsCreated(task)
  PROVE  SearchIInv'
<1>a. search \in HandlerType /\ activeTask \in TaskOrNone
  BY DEF SearchIInv, SearchTypeOK
<1>b. activeTask \in {NoTask, search.task} /\ (Busy <=> search # NoSearch)
  BY DEF SearchIInv, SearchIsAsShown, BusyMeansSearching, CancelsItsOwnSearch
<1>c. /\ cancelling \in [Cancel -> [task : TaskOrNone, served : BOOLEAN]]
      /\ \A d \in Cancel : cancelling[d].task # NoTask => Created(cancelling[d].task)
      /\ toldStopped \in SUBSET SearchTask /\ \A task \in toldStopped : Created(task)
  BY DEF SearchIInv, SearchTypeOK, OnlyCreatedTasks
<1>1. CASE StartsSearch
  <2>1. search = NoSearch /\ activeTask = NoTask
    BY <1>1, <1>b DEF StartsSearch, Busy, NoSearch
  <2> QED  BY <1>1, <2>1, HandlerKeepsInv DEF StartsSearch, NoSearch
<1>2. CASE CreationIsAnswered
  <2>1. search.task # NoTask /\ searchView \in {"queued", "running", "ranking"}
    BY <1>2, <1>b DEF CreationIsAnswered, NoSearch, Busy, SearchIInv, HandlerIsSound
  <2>2. search' = [step |-> "polling", task |-> search.task]
    BY <1>2, <1>a DEF CreationIsAnswered, HandlerType
  <2> QED  BY <1>2, <2>1, <2>2, HandlerKeepsInv DEF CreationIsAnswered
<1>3. CASE FallsBackToRequest
  <2>1. search.task = NoTask /\ searchView \in {"queued", "running", "ranking"}
    BY <1>3, <1>b DEF FallsBackToRequest, NoSearch, Busy, SearchIInv, HandlerIsSound
  <2>2. search' = [step |-> "falling", task |-> search.task]
    BY <1>3, <1>a DEF FallsBackToRequest, HandlerType
  <2> QED  BY <1>3, <1>b, <2>1, <2>2, HandlerKeepsInv DEF FallsBackToRequest
<1>4. CASE IsRanked
  <2>1. search' = NoSearch /\ searchView' = "success" /\ searchShown' = search.task
        /\ activeTask' = NoTask /\ UNCHANGED <<cancelling, serverTask, toldStopped>>
    BY <1>4 DEF IsRanked
  <2>2. SearchTypeOK'
    BY <1>a, <2>1 DEF SearchIInv, SearchTypeOK, HandlerType, TaskOrNone, NoSearch
  <2>3. HandlerIsSound' /\ OnlyCreatedTasks'
    BY <1>c, <2>1 DEF HandlerIsSound, OnlyCreatedTasks, NoSearch, Created
  <2>4. SearchIsAsShown'
    BY <1>c, <2>1, SearchAssumption
       DEF SearchIInv, HandlerIsSound, SearchIsAsShown, BusyMeansSearching, CancelsItsOwnSearch,
           NoResultOfStoppedTask, Busy
  <2> QED  BY <2>2, <2>3, <2>4 DEF SearchIInv
<1>5. CASE SearchFails
  BY <1>5, <1>c, StoppingKeepsInv DEF SearchFails
<1>6. ASSUME NEW jobs \in BOOLEAN, search.step \in {"falling", "polling"}, Found(jobs),
             searchShown' = searchShown, activeTask' \in {NoTask, search.task},
             ~jobs => activeTask' = NoTask,
             UNCHANGED <<cancelling, serverTask, toldStopped>>
      PROVE  SearchIInv'
  <2>1. CASE jobs
    <3>1. search' = [step |-> "ranking", task |-> search.task] /\ searchView' = "ranking"
      BY <1>6, <1>a, <2>1 DEF Found, HandlerType
    <3> QED  BY <1>6, <3>1, HandlerKeepsInv
  <2>2. CASE ~jobs
    <3>1. search' = NoSearch /\ searchView' = "error" /\ activeTask' = NoTask
      BY <1>6, <2>2 DEF Found
    <3>2. SearchTypeOK'
      BY <1>6, <3>1 DEF SearchIInv, SearchTypeOK, HandlerType, TaskOrNone, NoSearch
    <3>3. HandlerIsSound' /\ OnlyCreatedTasks'
      BY <1>c, <1>6, <3>1 DEF HandlerIsSound, OnlyCreatedTasks, NoSearch, Created
    <3>4. SearchIsAsShown'
      BY <1>6, <3>1 DEF SearchIInv, SearchIsAsShown, BusyMeansSearching, CancelsItsOwnSearch,
                        NoResultOfStoppedTask, Busy
    <3> QED  BY <3>2, <3>3, <3>4 DEF SearchIInv
  <2> QED  BY <2>1, <2>2
<1>7. ASSUME NEW jobs \in BOOLEAN, FallbackIsAnswered(jobs) PROVE SearchIInv'
  <2>1. activeTask = NoTask
    BY <1>7, <1>b DEF FallbackIsAnswered, SearchIInv, HandlerIsSound
  <2> QED  BY <1>6, <1>7, <2>1 DEF FallbackIsAnswered
<1>8. ASSUME NEW jobs \in BOOLEAN, Polls(jobs) PROVE SearchIInv'
  <2>1. CASE searchView' = "running" /\ UNCHANGED <<search, activeTask>>
    <3>1. search = [step |-> "polling", task |-> search.task] /\ search.task # NoTask
      BY <1>8, <1>a DEF Polls, HandlerType, SearchIInv, HandlerIsSound
    <3> QED  BY <1>8, <1>b, <2>1, <3>1, HandlerKeepsInv DEF Polls
  <2>2. CASE Found(jobs) /\ activeTask' = NoTask
    BY <1>6, <1>8, <2>2 DEF Polls
  <2> QED  BY <1>8, <2>1, <2>2 DEF Polls
<1>9. ASSUME NEW task \in SearchTask, TaskIsCreated(task) PROVE SearchIInv'
  <2>1. /\ search' = [step |-> "created", task |-> task]
        /\ serverTask' = [serverTask EXCEPT ![task].status = "queued"]
        /\ ~Created(task) /\ search.step = "posting"
        /\ UNCHANGED <<searchView, searchShown, activeTask, cancelling, toldStopped>>
    BY <1>9 DEF TaskIsCreated, Created
  <2>2. activeTask = NoTask /\ Busy
    BY <1>b, <2>1 DEF SearchIInv, HandlerIsSound, NoSearch
  <2>3. /\ serverTask' \in [SearchTask -> [status : TaskStatus, stop : BOOLEAN]]
        /\ \A other \in SearchTask : Created(other) => Created(other)'
        /\ Created(task)'
    BY <2>1 DEF SearchIInv, SearchTypeOK, TaskStatus, Created
  <2>4. SearchTypeOK'
    BY <2>1, <2>3 DEF SearchIInv, SearchTypeOK, HandlerType, TaskOrNone
  <2>5. task \notin toldStopped
    BY <1>c, <2>1
  <2>6. HandlerIsSound'
    BY <2>1, <2>3, <2>5, SearchAssumption DEF HandlerIsSound
  <2>7. OnlyCreatedTasks'
    BY <1>c, <2>1, <2>3 DEF OnlyCreatedTasks, TaskOrNone
  <2>8. SearchIsAsShown'
    BY <2>1, <2>2 DEF SearchIInv, SearchIsAsShown, BusyMeansSearching, CancelsItsOwnSearch,
                      NoResultOfStoppedTask, Busy, NoSearch
  <2> QED  BY <2>4, <2>6, <2>7, <2>8 DEF SearchIInv
<1> QED  BY <1>1, <1>2, <1>3, <1>4, <1>5, <1>7, <1>8, <1>9

LEMMA CancellationKeepsInv ==
  ASSUME SearchIInv,
         \/ CancelsLocally
         \/ \E d \in Cancel :
              SendsCancellation(d) \/ CancellationIsServed(d) \/ CancellationReturns(d)
  PROVE  SearchIInv'
<1>c. /\ cancelling \in [Cancel -> [task : TaskOrNone, served : BOOLEAN]]
      /\ \A d \in Cancel : cancelling[d].task # NoTask => Created(cancelling[d].task)
      /\ toldStopped \in SUBSET SearchTask /\ \A task \in toldStopped : Created(task)
  BY DEF SearchIInv, SearchTypeOK, OnlyCreatedTasks
<1>1. CASE CancelsLocally
  BY <1>1, <1>c, StoppingKeepsInv DEF CancelsLocally, StopsWaiting
<1>2. ASSUME NEW d \in Cancel, SendsCancellation(d) PROVE SearchIInv'
  <2>1. /\ activeTask # NoTask /\ cancelling' = [cancelling EXCEPT ![d].task = activeTask]
        /\ UNCHANGED <<searchView, searchShown, search, activeTask, serverTask, toldStopped>>
    BY <1>2 DEF SendsCancellation
  <2>2. Created(activeTask) /\ activeTask \in TaskOrNone
    BY <2>1 DEF SearchIInv, SearchTypeOK, HandlerIsSound, SearchIsAsShown, CancelsItsOwnSearch
  <2>3. cancelling' \in [Cancel -> [task : TaskOrNone, served : BOOLEAN]]
    BY <1>c, <2>1, <2>2
  <2>4. SearchTypeOK'
    BY <2>1, <2>3 DEF SearchIInv, SearchTypeOK
  <2>5. HandlerIsSound' /\ OnlyCreatedTasks'
    BY <1>c, <2>1, <2>2 DEF SearchIInv, HandlerIsSound, OnlyCreatedTasks, Created
  <2>6. SearchIsAsShown'
    BY <2>1 DEF SearchIInv, SearchIsAsShown, BusyMeansSearching, CancelsItsOwnSearch,
                NoResultOfStoppedTask, Busy
  <2> QED  BY <2>4, <2>5, <2>6 DEF SearchIInv
<1>3. ASSUME NEW d \in Cancel, CancellationIsServed(d) PROVE SearchIInv'
  <2> DEFINE task == cancelling[d].task
  <2>1. /\ task \in SearchTask
        /\ cancelling' = [cancelling EXCEPT ![d].served = TRUE]
        /\ serverTask' = [serverTask EXCEPT ![task] =
             IF @.status = "queued" THEN [@ EXCEPT !.status = "cancelled"]
             ELSE IF @.status = "running" THEN [@ EXCEPT !.stop = TRUE] ELSE @]
        /\ UNCHANGED <<searchView, searchShown, search, activeTask, toldStopped>>
    BY <1>3, <1>c DEF CancellationIsServed, TaskOrNone
  <2>2. serverTask[task] \in [status : TaskStatus, stop : BOOLEAN]
    BY <2>1 DEF SearchIInv, SearchTypeOK
  <2>3. PICK row \in [status : TaskStatus, stop : BOOLEAN] :
          /\ serverTask' = [serverTask EXCEPT ![task] = row]
          /\ serverTask[task].status # "none" => row.status # "none"
    <3>1. CASE serverTask[task].status = "queued"
      <4>1. [serverTask[task] EXCEPT !.status = "cancelled"] \in [status : TaskStatus, stop : BOOLEAN]
            /\ [serverTask[task] EXCEPT !.status = "cancelled"].status = "cancelled"
        BY <2>2 DEF TaskStatus
      <4> QED  BY <2>1, <3>1, <4>1
    <3>2. CASE serverTask[task].status = "running"
      <4>1. [serverTask[task] EXCEPT !.stop = TRUE] \in [status : TaskStatus, stop : BOOLEAN]
            /\ [serverTask[task] EXCEPT !.stop = TRUE].status = "running"
        BY <2>2, <3>2
      <4> QED  BY <2>1, <3>2, <4>1
    <3>3. CASE serverTask[task].status \notin {"queued", "running"}
      BY <2>1, <2>2, <3>3
    <3> QED  BY <3>1, <3>2, <3>3
  <2>4. /\ serverTask' \in [SearchTask -> [status : TaskStatus, stop : BOOLEAN]]
        /\ \A other \in SearchTask : Created(other) => Created(other)'
    BY <2>1, <2>3 DEF SearchIInv, SearchTypeOK, Created
  <2>5. /\ cancelling' \in [Cancel -> [task : TaskOrNone, served : BOOLEAN]]
        /\ \A e \in Cancel : cancelling'[e].task = cancelling[e].task
    BY <1>c, <2>1
  <2> QED  BY <2>1, <2>4, <2>5, ServerKeepsInv
<1>4. ASSUME NEW d \in Cancel, CancellationReturns(d) PROVE SearchIInv'
  <2>1. cancelling' \in [Cancel -> [task : TaskOrNone, served : BOOLEAN]]
        /\ \A e \in Cancel : cancelling'[e].task \in {NoTask, cancelling[e].task}
    BY <1>4, <1>c DEF CancellationReturns, TaskOrNone
  <2>2. cancelling[d].task \in SearchTask /\ Created(cancelling[d].task)
        /\ toldStopped' \subseteq toldStopped \union {cancelling[d].task}
    BY <1>4, <1>c DEF CancellationReturns, TaskOrNone
  <2>3. /\ search' = NoSearch /\ searchView' = "error" /\ searchShown' = NoTask
        /\ activeTask' = NoTask /\ serverTask' = serverTask
    BY <1>4 DEF CancellationReturns, StopsWaiting
  <2> QED  BY <1>c, <2>1, <2>2, <2>3, StoppingKeepsInv
<1> QED  BY <1>1, <1>2, <1>3, <1>4

LEMMA ServerStepKeepsInv ==
  ASSUME SearchIInv, NEW task \in SearchTask, ServerAdvances(task)
  PROVE  SearchIInv'
<1>1. PICK next \in {"running", "succeeded", "failed", "cancelled"} :
        serverTask' = [serverTask EXCEPT ![task].status = next]
  BY DEF ServerAdvances
<1>2. /\ serverTask' \in [SearchTask -> [status : TaskStatus, stop : BOOLEAN]]
      /\ \A other \in SearchTask : Created(other) => Created(other)'
  BY <1>1 DEF SearchIInv, SearchTypeOK, TaskStatus, Created
<1> QED  BY <1>2, ServerKeepsInv DEF ServerAdvances, SearchIInv, SearchTypeOK

LEMMA SearchNextKeepsInv == SearchIInv /\ [SearchNext]_searchVars => SearchIInv'
<1> SUFFICES ASSUME SearchIInv, [SearchNext]_searchVars PROVE SearchIInv'
  OBVIOUS
<1>1. CASE UNCHANGED searchVars
  BY <1>1, ServerKeepsInv DEF searchVars, SearchIInv, SearchTypeOK, Created
<1> QED
  BY <1>1, SearchStepKeepsInv, CancellationKeepsInv, ServerStepKeepsInv DEF SearchNext

\* For any number of tasks and cancellations: the page says that it searches
\* exactly while it does, cancels the search under way, and shows nothing of a
\* stopped one (handleMatch and handleCancelSearch in career-workspace.tsx).
THEOREM PageTellsTheTruth == SearchSpec => []SearchIsAsShown
<1>1. SearchSpec => []SearchIInv
  BY SearchInitHolds, SearchNextKeepsInv, PTL DEF SearchSpec
<1>2. SearchIInv => SearchIsAsShown
  BY DEF SearchIInv
<1> QED  BY <1>1, <1>2, PTL

-------------------------------------------------------------------------------
(* The record of an exchange says how far it got, and what the handler knows   *)
(* of the session then. Nothing is refreshed before the session was looked at, *)
(* and from then on a refresh is remembered until the answer.                  *)

ExchangeType ==
  [handler : Handler, session : Session,
   step : {"idle", "arrived", "checked", "identified", "ready", "forwarded", "answered"},
   bearer : BOOLEAN, refreshed : BOOLEAN, cookies : BOOLEAN, reached : BOOLEAN,
   status : {"none", "400", "401", "404", "413", "415", "500", "502", "503", "upstream"}]

\* Before the session was looked at nothing was refreshed or forwarded.
SessionIsUntouched(x) ==
  x.step \in {"idle", "arrived", "checked"} => ~x.refreshed /\ ~x.reached

\* A request of someone with a session is under way with a token, nothing
\* reaches the service before it is forwarded, and the cookies come last.
TokenIsHeld(x) ==
  /\ (/\ x.step \in {"identified", "ready", "forwarded"}
      /\ x.handler # "open" /\ x.session # "none") => x.bearer
  /\ x.step \in {"identified", "ready"} => ~x.reached
  /\ x.step # "answered" => ~x.cookies

\* What is asked of an exchange, of any.
SessionSurvives(x) ==
  /\ x.step = "answered" /\ x.status # "500" => x.cookies = x.refreshed
  /\ x.reached /\ x.handler # "open" /\ x.session # "none" => x.bearer

IsSound(x) ==
  x \in ExchangeType /\ SessionIsUntouched(x) /\ TokenIsHeld(x) /\ SessionSurvives(x)

ProxyIInv == IsSound(exchange)

-------------------------------------------------------------------------------
LEMMA ProxyInitHolds == ProxyInit => ProxyIInv
BY DEF ProxyInit, ProxyIInv, NoExchange, ExchangeType, Handler, Session, IsSound,
       SessionIsUntouched, TokenIsHeld, SessionSurvives

LEMMA ProxyInvariantImplies == ProxyIInv => SessionIsKept
BY DEF ProxyIInv, IsSound, SessionSurvives, SessionIsKept, RefreshIsPassedOn,
       SignedInIsNotAnonymous

\* What an answer without cookies may be given to: an exchange that refreshed
\* nothing, or a download that breaks off.
LEMMA BareKeepsInv ==
  ASSUME ProxyIInv, NEW status \in {"400", "401", "404", "413", "415", "500"}, Bare(status),
         exchange.step # "answered",
         (~exchange.refreshed /\ ~exchange.reached) \/ status = "500"
  PROVE  ProxyIInv'
<1>1. PICK x : x = [exchange EXCEPT !.step = "answered", !.status = status]
  OBVIOUS
<1>2. exchange' = x /\ exchange \in ExchangeType
  BY <1>1 DEF Bare, ProxyIInv, IsSound
<1>3. x \in ExchangeType
  BY <1>1, <1>2 DEF ExchangeType
<1>4. /\ x.step = "answered" /\ x.status = status /\ x.refreshed = exchange.refreshed
      /\ x.cookies = exchange.cookies /\ x.reached = exchange.reached
      /\ x.handler = exchange.handler /\ x.session = exchange.session /\ x.bearer = exchange.bearer
  BY <1>1, <1>2 DEF ExchangeType
<1>5. /\ x.refreshed \in BOOLEAN /\ x.cookies \in BOOLEAN
      /\ ~x.cookies /\ (x.reached /\ x.handler # "open" /\ x.session # "none" => x.bearer)
  BY <1>3, <1>4 DEF ExchangeType, ProxyIInv, IsSound, TokenIsHeld, SessionSurvives
<1>6. x.status # "500" => x.cookies = x.refreshed
  BY <1>4, <1>5
<1>7. IsSound(x)
  BY <1>3, <1>4, <1>5, <1>6 DEF IsSound, SessionIsUntouched, TokenIsHeld, SessionSurvives
<1> QED  BY <1>2, <1>7 DEF ProxyIInv

LEMMA AttachedKeepsInv ==
  ASSUME ProxyIInv, NEW status \in {"400", "413", "415", "502", "503", "upstream"},
         Attached(status), exchange.step # "answered"
  PROVE  ProxyIInv'
<1>1. PICK x : x = [exchange EXCEPT !.step = "answered", !.status = status,
                                    !.cookies = exchange.refreshed]
  OBVIOUS
<1>2. exchange' = x /\ exchange \in ExchangeType
  BY <1>1 DEF Attached, ProxyIInv, IsSound
<1>3. x \in ExchangeType
  BY <1>1, <1>2 DEF ExchangeType
<1>4. /\ x.step = "answered" /\ x.status = status /\ x.refreshed = exchange.refreshed
      /\ x.cookies = exchange.refreshed /\ x.reached = exchange.reached
      /\ x.handler = exchange.handler /\ x.session = exchange.session /\ x.bearer = exchange.bearer
  BY <1>1, <1>2 DEF ExchangeType
<1>5. IsSound(x)
  BY <1>3, <1>4 DEF ProxyIInv, IsSound, SessionIsUntouched, TokenIsHeld, SessionSurvives
<1> QED  BY <1>2, <1>5 DEF ProxyIInv

\* An exchange that goes on, to a place where it knows what it is to know.
LEMMA GoingOnKeepsInv ==
  ASSUME ProxyIInv, NEW step \in {"checked", "ready", "forwarded"},
         exchange' = [exchange EXCEPT !.step = step],
         \/ step = "checked" /\ exchange.step = "arrived"
         \/ step \in {"ready", "forwarded"} /\ exchange.step \in {"identified", "ready"}
  PROVE  ProxyIInv'
<1>1. PICK x : x = [exchange EXCEPT !.step = step]
  OBVIOUS
<1>2. exchange' = x /\ exchange \in ExchangeType
  BY <1>1 DEF ProxyIInv, IsSound
<1>3. x \in ExchangeType
  BY <1>1, <1>2 DEF ExchangeType
<1>4. /\ x.step = step /\ x.status = exchange.status /\ x.refreshed = exchange.refreshed
      /\ x.cookies = exchange.cookies /\ x.reached = exchange.reached
      /\ x.handler = exchange.handler /\ x.session = exchange.session /\ x.bearer = exchange.bearer
  BY <1>1, <1>2 DEF ExchangeType
<1>5. IsSound(x)
  BY <1>3, <1>4 DEF ProxyIInv, IsSound, SessionIsUntouched, TokenIsHeld, SessionSurvives
<1> QED  BY <1>2, <1>5 DEF ProxyIInv

\* Who has a session and is not refused goes on with its token.
LEMMA IdentityKeepsInv ==
  ASSUME ProxyIInv, Identifies, NEW session \in Session, IsIdentified(session),
         exchange.handler = "open" \/ session = exchange.session
  PROVE  ProxyIInv'
<1>1. /\ exchange \in ExchangeType /\ exchange.step \in {"arrived", "checked"}
      /\ ~exchange.refreshed /\ ~exchange.reached
  BY DEF ProxyIInv, IsSound, SessionIsUntouched, Identifies
<1>2. CASE session = "none" /\ exchange.handler = "account"
  BY <1>1, <1>2, BareKeepsInv DEF IsIdentified
<1>3. CASE ~(session = "none" /\ exchange.handler = "account")
  <2>1. PICK bearer \in BOOLEAN, refreshed \in BOOLEAN :
          bearer = (session # "none") /\ refreshed = (session = "due")
    OBVIOUS
  <2>2. PICK x : x = [exchange EXCEPT !.step = "identified", !.bearer = bearer,
                                      !.refreshed = refreshed]
    OBVIOUS
  <2>3. exchange' = x
    BY <1>3, <2>1, <2>2 DEF IsIdentified
  <2>4. x \in ExchangeType
    BY <1>1, <2>1, <2>2 DEF ExchangeType
  <2>5. /\ x.step = "identified" /\ x.bearer = bearer /\ x.refreshed = refreshed
        /\ x.status = exchange.status /\ x.cookies = exchange.cookies
        /\ x.reached = exchange.reached
        /\ x.handler = exchange.handler /\ x.session = exchange.session
    BY <1>1, <2>2 DEF ExchangeType
  <2>6. IsSound(x)
    BY <1>1, <2>1, <2>4, <2>5 DEF ProxyIInv, IsSound, SessionIsUntouched, TokenIsHeld,
       SessionSurvives
  <2> QED  BY <2>3, <2>6 DEF ProxyIInv
<1> QED  BY <1>2, <1>3

LEMMA ProxyNextKeepsInv == ProxyIInv /\ [ProxyNext]_exchange => ProxyIInv'
<1> SUFFICES ASSUME ProxyIInv, [ProxyNext]_exchange PROVE ProxyIInv'
  OBVIOUS
<1>1. exchange \in ExchangeType
  BY DEF ProxyIInv, IsSound
<1>2. CASE UNCHANGED exchange
  BY <1>2 DEF ProxyIInv
<1>3. ASSUME NEW handler \in Handler, NEW session \in Session, Asks(handler, session)
      PROVE  ProxyIInv'
  <2>1. IsSound(Arrival(handler, session))
    BY DEF Arrival, NoExchange, IsSound, ExchangeType, SessionIsUntouched, TokenIsHeld,
           SessionSurvives, Handler, Session
  <2> QED  BY <1>3, <2>1 DEF Asks, ProxyIInv
<1>4. CASE ResolvesIdentity
  <2>1. CASE Identifies /\ exchange.handler = "open" /\ IsIdentified("none")
    BY <2>1, IdentityKeepsInv DEF Session
  <2>2. CASE Identifies /\ exchange.handler # "open" /\ exchange.session # "ended"
                        /\ IsIdentified(exchange.session)
    <3>1. exchange.session \in Session  BY <1>1 DEF ExchangeType
    <3> QED  BY <2>2, <3>1, IdentityKeepsInv
  <2>3. CASE CannotRefresh
    <3>1. ~exchange.refreshed /\ ~exchange.reached /\ exchange.step # "answered"
      BY <2>3 DEF CannotRefresh, Identifies, ProxyIInv, IsSound, SessionIsUntouched
    <3> QED  BY <2>3, <3>1, BareKeepsInv DEF CannotRefresh
  <2> QED  BY <1>4, <2>1, <2>2, <2>3 DEF ResolvesIdentity
<1>5. CASE ChecksAccountRequest
  BY <1>5, GoingOnKeepsInv, AttachedKeepsInv DEF ChecksAccountRequest
<1>6. ASSUME NEW handlers, NEW refusals \in SUBSET {"400", "404", "413", "415"},
             ChecksFirst(handlers, refusals)
      PROVE  ProxyIInv'
  <2>1. ~exchange.refreshed /\ ~exchange.reached /\ exchange.step = "arrived"
    BY <1>6 DEF ChecksFirst, ProxyIInv, IsSound, SessionIsUntouched
  <2>2. CASE exchange' = [exchange EXCEPT !.step = "checked"]
    BY <2>1, <2>2, GoingOnKeepsInv
  <2>3. CASE \E status \in refusals : Bare(status)
    BY <2>1, <2>3, BareKeepsInv
  <2> QED  BY <1>6, <2>2, <2>3 DEF ChecksFirst
<1>7. CASE ChecksJson \/ ChecksUpload \/ ChecksTask
  BY <1>6, <1>7 DEF ChecksJson, ChecksUpload, ChecksTask
<1>8. CASE Forwards
  BY <1>8, GoingOnKeepsInv DEF Forwards
<1>9. CASE ServiceReceives
  <2>1. PICK x : x = [exchange EXCEPT !.reached = TRUE]
    OBVIOUS
  <2>2. exchange' = x /\ exchange.step = "forwarded"
    BY <1>9, <2>1 DEF ServiceReceives
  <2>3. x \in ExchangeType
    BY <1>1, <2>1 DEF ExchangeType
  <2>4. /\ x.step = exchange.step /\ x.status = exchange.status
        /\ x.refreshed = exchange.refreshed /\ x.cookies = exchange.cookies
        /\ x.handler = exchange.handler /\ x.session = exchange.session
        /\ x.bearer = exchange.bearer
    BY <1>1, <2>1 DEF ExchangeType
  <2>5. IsSound(x)
    BY <2>2, <2>3, <2>4 DEF ProxyIInv, IsSound, SessionIsUntouched, TokenIsHeld,
       SessionSurvives
  <2> QED  BY <2>2, <2>5 DEF ProxyIInv
<1>10. CASE FetchFails
  BY <1>10, AttachedKeepsInv DEF FetchFails
<1>11. CASE ServiceReplies
  BY <1>11, AttachedKeepsInv DEF ServiceReplies
<1>12. CASE DownloadBreaksOff
  BY <1>12, BareKeepsInv DEF DownloadBreaksOff
<1> QED
  BY <1>2, <1>3, <1>4, <1>5, <1>7, <1>8, <1>9, <1>10, <1>11, <1>12 DEF ProxyNext

\* Whatever is asked, refused, lost or broken off: the cookies of a session that
\* was refreshed reach the browser in every answer but a download's that breaks
\* off, and nobody with a session is served as an anonymous visitor (the route
\* handlers under src/frontend/src/app/api).
THEOREM SessionsSurvive == ProxySpec => []SessionIsKept
<1>1. ProxySpec => []ProxyIInv
  BY ProxyInitHolds, ProxyNextKeepsInv, PTL DEF ProxySpec
<1> QED  BY <1>1, ProxyInvariantImplies, PTL

-------------------------------------------------------------------------------
(* A kit that was made is never made again, and what an update has read is     *)
(* what is stored as long as updates are served one after another: nothing     *)
(* else writes a kit.                                                          *)

KitRowType ==
  [resume : KitResume, notes : KitText, reviewed : BOOLEAN,
   last : [notes : KitText, confirm : BOOLEAN]]

KitErrors ==
  {"", "interview_kit_unavailable", "interview_resume_required", "interview_kit_not_found",
   "json_required", "interview_preparation_unavailable"}

SeenType == [notes : KitText, reviewed : BOOLEAN]

KitCallType ==
  [kind : {"none", "create", "get", "update"},
   step : {"free", "sent", "read", "answered", "refused"},
   tab : BOOLEAN, notes : KitText, confirm : BOOLEAN, resume : KitResume \union {NoKit},
   seen : SeenType \union {NoKit}, error : KitErrors]

KitTypeOK ==
  /\ kitStatus \in DOMAIN StatusAfter
  /\ kitResume \in KitResume \union {NoKit}
  /\ kit \in KitRowType \union {NoKit}
  /\ kitCall \in [KitCall -> KitCallType]
  /\ kitTab \in [status : {"idle", "loading", "ready", "error"}, typed : KitText,
                 saving : BOOLEAN, error : KitErrors]
  /\ kitOverlapping \in BOOLEAN

\* A request that is about to write has a resume, or a kit that it has seen.
HasRead(c) ==
  kitCall[c].step = "read" =>
    /\ kitCall[c].kind = "create" => kitCall[c].resume \in KitResume
    /\ kitCall[c].kind = "update" => kit # NoKit /\ kitCall[c].seen \in SeenType

\* One after another: at most one is about to write, and nobody wrote since.
ReadIsCurrent(c) ==
  ~kitOverlapping /\ kitCall[c].step = "read" =>
    /\ \A d \in KitCall \ {c} : kitCall[d].step # "read"
    /\ kitCall[c].kind = "update" =>
         kitCall[c].seen = [notes |-> kit.notes, reviewed |-> kit.reviewed]

KitIInv ==
  /\ KitTypeOK
  /\ \A c \in KitCall : HasRead(c) /\ ReadIsCurrent(c)
  /\ ReviewCoversNotes
  /\ SavingEnds

-------------------------------------------------------------------------------
LEMMA NoKitIsNoRow == NoKit \notin KitRowType /\ "" \in KitText
BY KitTexts DEF KitRowType

LEMMA FreshCall ==
  NoKitCall \in KitCallType /\ NoKitCall.step = "free" /\ ~NoKitCall.tab /\ NoKitCall.kind = "none"
BY NoKitIsNoRow DEF NoKitCall, KitCallType, KitErrors

LEMMA KitInitHolds == KitInit => KitIInv
<1> SUFFICES ASSUME KitInit PROVE KitIInv  OBVIOUS
<1>1. KitTypeOK
  BY FreshCall, NoKitIsNoRow DEF KitInit, KitTypeOK, KitTabClosed, StatusAfter, KitErrors
<1>2. ReviewCoversNotes /\ SavingEnds
  BY DEF KitInit, ReviewCoversNotes, SavingEnds, KitTabClosed
<1>3. \A c \in KitCall : HasRead(c) /\ ReadIsCurrent(c)
  BY FreshCall DEF KitInit, HasRead, ReadIsCurrent
<1> QED  BY <1>1, <1>2, <1>3 DEF KitIInv

\* A step in which one request moves on, to a place where it is not about to
\* write, and the kit stays.
LEMMA CallGoesOn ==
  ASSUME KitIInv, NEW c \in KitCall, NEW new \in KitCallType,
         kitCall' = [kitCall EXCEPT ![c] = new], new.step # "read",
         UNCHANGED <<kit, kitOverlapping>>, KitTypeOK', SavingEnds'
  PROVE  KitIInv'
<1>1. kitCall'[c] = new /\ \A d \in KitCall \ {c} : kitCall'[d] = kitCall[d]
  BY DEF KitIInv, KitTypeOK
<1>2. ASSUME NEW d \in KitCall PROVE HasRead(d)' /\ ReadIsCurrent(d)'
  <2>1. HasRead(d) /\ ReadIsCurrent(d)  BY DEF KitIInv
  <2>2. CASE d = c
    BY <1>1, <2>2 DEF HasRead, ReadIsCurrent
  <2>3. CASE d # c
    <3>1. HasRead(d)'  BY <1>1, <2>1, <2>3 DEF HasRead
    <3>2. ReadIsCurrent(d)'  BY <1>1, <2>1, <2>3 DEF ReadIsCurrent
    <3> QED  BY <3>1, <3>2
  <2> QED  BY <2>2, <2>3
<1>3. ReviewCoversNotes'
  BY DEF KitIInv, ReviewCoversNotes
<1> QED  BY <1>2, <1>3 DEF KitIInv

\* A step that changes no request and not the kit.
LEMMA OthersKeepInv ==
  ASSUME KitIInv, UNCHANGED <<kit, kitCall, kitOverlapping>>, KitTypeOK', SavingEnds'
  PROVE  KitIInv'
BY DEF KitIInv, HasRead, ReadIsCurrent, ReviewCoversNotes

\* What a request becomes when it ends, with an answer or with a refusal, keeps
\* the workspace's save.
LEMMA EndedCall ==
  ASSUME KitIInv, NEW c \in KitCall, NEW step \in {"answered", "refused"}, NEW error \in KitErrors,
         KitEnds(c, step, error), kit' \in KitRowType \union {NoKit}
  PROVE  \E new \in KitCallType :
           /\ kitCall' = [kitCall EXCEPT ![c] = new] /\ new.step # "read"
           /\ kitCall[c].tab => new.tab /\ new.kind = kitCall[c].kind
<1>1. kitCall[c] \in KitCallType
  BY DEF KitIInv, KitTypeOK
<1>2. PICK notes : notes = IF kit' = NoKit THEN "" ELSE kit'.notes
  OBVIOUS
<1>3. notes \in KitText
  BY <1>2, NoKitIsNoRow DEF KitRowType
<1>4. CASE kitCall[c].tab
  <2>1. PICK new : new = [kitCall[c] EXCEPT !.step = step, !.error = error, !.notes = notes]
    OBVIOUS
  <2>2. kitCall' = [kitCall EXCEPT ![c] = new]
    BY <1>2, <1>4, <2>1 DEF KitEnds
  <2>3. /\ new \in KitCallType /\ new.step = step
        /\ new.tab = kitCall[c].tab /\ new.kind = kitCall[c].kind
    BY <1>1, <1>3, <2>1 DEF KitCallType
  <2> QED  BY <1>4, <2>2, <2>3
<1>5. CASE ~kitCall[c].tab
  <2>1. kitCall' = [kitCall EXCEPT ![c] = NoKitCall]
    BY <1>5 DEF KitEnds
  <2> QED  BY <1>5, <2>1, FreshCall
<1> QED  BY <1>4, <1>5

\* The save of the workspace stays under way while its request is the same.
LEMMA SaveGoesOn ==
  ASSUME KitIInv, NEW c \in KitCall, NEW new, kitCall' = [kitCall EXCEPT ![c] = new],
         kitCall[c].tab /\ kitCall[c].kind = "update" => new.tab /\ new.kind = "update",
         kitTab'.saving => kitTab.saving
  PROVE  SavingEnds'
<1>1. kitCall'[c] = new /\ \A d \in KitCall \ {c} : kitCall'[d] = kitCall[d]
  BY DEF KitIInv, KitTypeOK
<1> QED  BY <1>1 DEF KitIInv, SavingEnds

\* A request that ends leaves the rest as it is.
LEMMA EndKeepsInv ==
  ASSUME KitIInv, NEW c \in KitCall, kitCall[c].step # "read",
         NEW step \in {"answered", "refused"}, NEW error \in KitErrors,
         KitEnds(c, step, error), UNCHANGED <<kitStatus, kitResume, kit, kitTab, kitOverlapping>>
  PROVE  KitIInv'
<1>1. kit' \in KitRowType \union {NoKit}
  BY DEF KitIInv, KitTypeOK
<1>2. PICK new \in KitCallType :
        /\ kitCall' = [kitCall EXCEPT ![c] = new] /\ new.step # "read"
        /\ kitCall[c].tab => new.tab /\ new.kind = kitCall[c].kind
  BY <1>1, EndedCall
<1>3. KitTypeOK'
  BY <1>2 DEF KitIInv, KitTypeOK
<1>4. SavingEnds'
  BY <1>2, SaveGoesOn
<1> QED  BY <1>2, <1>3, <1>4, CallGoesOn
-------------------------------------------------------------------------------
\* A request that is about to write knows what it has just read.
LEMMA ReadingKeepsInv ==
  ASSUME KitIInv, NEW c \in KitCall, KitMayBegin(c), NEW new \in KitCallType,
         kitCall' = [kitCall EXCEPT ![c] = new], new.step = "read",
         new.kind = kitCall[c].kind, new.tab = kitCall[c].tab,
         new.kind = "create" => new.resume \in KitResume,
         new.kind = "update" =>
           kit # NoKit /\ new.seen = [notes |-> kit.notes, reviewed |-> kit.reviewed],
         UNCHANGED <<kitStatus, kitResume, kit, kitTab, kitOverlapping>>
  PROVE  KitIInv'
<1>1. kitCall'[c] = new /\ \A d \in KitCall \ {c} : kitCall'[d] = kitCall[d]
  BY DEF KitIInv, KitTypeOK
<1>2. KitTypeOK'
  BY DEF KitIInv, KitTypeOK
<1>3. SavingEnds'
  BY SaveGoesOn
<1>4. kit # NoKit => [notes |-> kit.notes, reviewed |-> kit.reviewed] \in SeenType
  BY DEF KitIInv, KitTypeOK, KitRowType, SeenType
<1>5. ~kitOverlapping => \A d \in KitCall : kitCall[d].step # "read"
  BY DEF KitMayBegin
<1>6. HasRead(c)' /\ ReadIsCurrent(c)'
  BY <1>1, <1>4, <1>5 DEF HasRead, ReadIsCurrent
<1>7. ASSUME NEW d \in KitCall \ {c} PROVE HasRead(d)' /\ ReadIsCurrent(d)'
  BY <1>1, <1>5 DEF KitIInv, HasRead, ReadIsCurrent
<1>8. ReviewCoversNotes'
  BY DEF KitIInv, ReviewCoversNotes
<1> QED  BY <1>2, <1>3, <1>6, <1>7, <1>8 DEF KitIInv

\* A request that writes ends; if it is not alone, updates overlap.
LEMMA WritingKeepsInv ==
  ASSUME KitIInv, NEW c \in KitCall, kitCall[c].step = "read", kit' \in KitRowType,
         KitAnswers(c), ReviewCoversNotes', UNCHANGED <<kitStatus, kitResume, kitTab, kitOverlapping>>
  PROVE  KitIInv'
<1>1. PICK new \in KitCallType :
        /\ kitCall' = [kitCall EXCEPT ![c] = new] /\ new.step # "read"
        /\ kitCall[c].tab => new.tab /\ new.kind = kitCall[c].kind
  <2>1. "" \in KitErrors  BY DEF KitErrors
  <2> QED  BY <2>1, EndedCall DEF KitAnswers
<1>2. kitCall'[c] = new /\ \A d \in KitCall \ {c} : kitCall'[d] = kitCall[d]
  BY <1>1 DEF KitIInv, KitTypeOK
<1>3. KitTypeOK'
  BY <1>1 DEF KitIInv, KitTypeOK
<1>4. SavingEnds'
  BY <1>1, SaveGoesOn
<1>5. HasRead(c)' /\ ReadIsCurrent(c)'
  BY <1>1, <1>2 DEF HasRead, ReadIsCurrent
<1>6. ASSUME NEW d \in KitCall \ {c} PROVE HasRead(d)' /\ ReadIsCurrent(d)'
  <2>1. HasRead(d) /\ ReadIsCurrent(c)  BY DEF KitIInv
  <2>2. HasRead(d)'  BY <1>2, <2>1, NoKitIsNoRow DEF HasRead
  <2>3. ~kitOverlapping => kitCall[d].step # "read"  BY <2>1 DEF ReadIsCurrent
  <2> QED  BY <1>2, <2>2, <2>3 DEF ReadIsCurrent
<1> QED  BY <1>3, <1>4, <1>5, <1>6 DEF KitIInv

LEMMA NewKit ==
  ASSUME NEW resume \in KitResume
  PROVE  KitRow(resume) \in KitRowType /\ ~KitRow(resume).reviewed
BY NoKitIsNoRow DEF KitRow, KitRowType

\* What an update makes of a kit: its resume stays, and notes that change are
\* those of the update. Without an overlap its mark is about its notes.
LEMMA UpdatedKit ==
  ASSUME KitIInv, NEW c \in KitCall, kitCall[c].step = "read", kitCall[c].kind = "update"
  PROVE  /\ kit # NoKit /\ KitUpdated(kitCall[c]) \in KitRowType
         /\ KitUpdated(kitCall[c]).resume = kit.resume
         /\ KitUpdated(kitCall[c]).notes # kit.notes =>
              KitUpdated(kitCall[c]).notes = KitUpdated(kitCall[c]).last.notes
         /\ ~kitOverlapping /\ KitUpdated(kitCall[c]).reviewed =>
              /\ KitUpdated(kitCall[c]).last.confirm
              /\ KitUpdated(kitCall[c]).notes = KitUpdated(kitCall[c]).last.notes
<1>1. /\ kitCall[c] \in KitCallType /\ kit \in KitRowType /\ kit # NoKit
      /\ kitCall[c].seen \in SeenType /\ ReadIsCurrent(c)
  BY NoKitIsNoRow DEF KitIInv, KitTypeOK, HasRead
<1>2. PICK notes : notes = IF kitCall[c].notes = kitCall[c].seen.notes
                             THEN kit.notes ELSE kitCall[c].notes
  OBVIOUS
<1>3. PICK reviewed \in BOOLEAN :
        reviewed = (kitCall[c].confirm \/ (kit.reviewed /\ ~kitCall[c].seen.reviewed))
  BY <1>1 DEF KitCallType, KitRowType, SeenType
<1>4. PICK last : last = [notes |-> kitCall[c].notes, confirm |-> kitCall[c].confirm]
  OBVIOUS
<1>5. PICK row : row = [kit EXCEPT !.notes = notes, !.reviewed = reviewed, !.last = last]
  OBVIOUS
<1>6. KitUpdated(kitCall[c]) = row
  BY <1>2, <1>3, <1>4, <1>5 DEF KitUpdated
<1>7. notes \in KitText /\ last \in [notes : KitText, confirm : BOOLEAN]
      /\ last.notes = kitCall[c].notes /\ last.confirm = kitCall[c].confirm
  BY <1>1, <1>2, <1>4 DEF KitCallType, KitRowType
<1>8. /\ row \in KitRowType /\ row.resume = kit.resume /\ row.notes = notes
      /\ row.reviewed = reviewed /\ row.last = last
  BY <1>1, <1>5, <1>7 DEF KitRowType
<1>9. row.notes # kit.notes => row.notes = row.last.notes
  BY <1>2, <1>7, <1>8
<1>10. ASSUME ~kitOverlapping, row.reviewed PROVE row.last.confirm /\ row.notes = row.last.notes
  <2>1. kitCall[c].seen = [notes |-> kit.notes, reviewed |-> kit.reviewed]
    BY <1>1, <1>10 DEF ReadIsCurrent
  <2>2. kitCall[c].seen.notes = kit.notes /\ kitCall[c].seen.reviewed = kit.reviewed
    BY <2>1
  <2>3. row.notes = row.last.notes
    BY <1>2, <1>7, <1>8, <2>2
  <2>4. row.last.confirm
    BY <1>3, <1>7, <1>8, <1>10, <2>2
  <2> QED  BY <2>3, <2>4
<1> QED  BY <1>1, <1>6, <1>8, <1>9, <1>10

-------------------------------------------------------------------------------
LEMMA CreatingKeepsInv ==
  ASSUME KitIInv, NEW c \in KitCall, KitCreateReads(c) \/ KitCreateWrites(c)
  PROVE  KitIInv'
<1>1. CASE KitCreateReads(c)
  <2> USE <1>1
  <2>1. UNCHANGED <<kitStatus, kitResume, kit, kitTab, kitOverlapping>> /\ KitMayBegin(c)
        /\ kitCall[c].step # "read" /\ kitCall[c] \in KitCallType
    BY DEF KitCreateReads, KitMayBegin, KitIInv, KitTypeOK
  <2>2. ASSUME NEW error \in KitErrors, KitRefuses(c, error) PROVE KitIInv'
    BY <2>1, <2>2, EndKeepsInv DEF KitRefuses
  <2>3. CASE KitAnswers(c)
    <3>1. "" \in KitErrors  BY DEF KitErrors
    <3> QED  BY <2>1, <2>3, <3>1, EndKeepsInv DEF KitAnswers
  <2>4. CASE /\ kitResume # NoKit /\ kit = NoKit
             /\ kitCall' = [kitCall EXCEPT ![c].step = "read", ![c].resume = kitResume]
    <3>1. PICK new : new = [kitCall[c] EXCEPT !.step = "read", !.resume = kitResume]
      OBVIOUS
    <3>2. kitCall' = [kitCall EXCEPT ![c] = new]
      BY <2>4, <3>1 DEF KitIInv, KitTypeOK
    <3>3. kitResume \in KitResume
      BY <2>4 DEF KitIInv, KitTypeOK
    <3>4. /\ new \in KitCallType /\ new.step = "read" /\ new.kind = kitCall[c].kind
          /\ new.tab = kitCall[c].tab /\ new.resume = kitResume
      BY <2>1, <3>1, <3>3 DEF KitCallType
    <3>5. new.kind = "create"
      BY <3>4 DEF KitCreateReads
    <3> QED  BY <2>1, <3>2, <3>3, <3>4, <3>5, ReadingKeepsInv
  <2>5. "interview_kit_unavailable" \in KitErrors /\ "interview_resume_required" \in KitErrors
    BY DEF KitErrors
  <2> QED  BY <2>2, <2>3, <2>4, <2>5 DEF KitCreateReads
<1>2. CASE KitCreateWrites(c)
  <2>1. kitCall[c].resume \in KitResume /\ kitCall[c].step = "read"
    BY <1>2 DEF KitCreateWrites, KitIInv, HasRead
  <2>2. kit' \in KitRowType
    BY <1>2, <2>1, NewKit DEF KitCreateWrites, KitIInv, KitTypeOK
  <2>3. ReviewCoversNotes'
    BY <1>2, <2>1, NewKit DEF KitCreateWrites, KitIInv, ReviewCoversNotes
  <2> QED  BY <1>2, <2>1, <2>2, <2>3, WritingKeepsInv DEF KitCreateWrites
<1> QED  BY <1>1, <1>2

LEMMA UpdatingKeepsInv ==
  ASSUME KitIInv, NEW c \in KitCall, KitGet(c) \/ KitUpdateReads(c) \/ KitUpdateWrites(c)
  PROVE  KitIInv'
<1>1. "" \in KitErrors /\ "interview_kit_not_found" \in KitErrors
  BY DEF KitErrors
<1>2. CASE KitGet(c)
  <2>1. kitCall[c].step # "read"
    BY <1>2 DEF KitGet, KitMayBegin
  <2>2. CASE KitRefuses(c, "interview_kit_not_found")
    BY <1>1, <1>2, <2>1, <2>2, EndKeepsInv DEF KitGet, KitRefuses
  <2>3. CASE KitAnswers(c)
    BY <1>1, <1>2, <2>1, <2>3, EndKeepsInv DEF KitGet, KitAnswers
  <2> QED  BY <1>2, <2>2, <2>3 DEF KitGet
<1>3. CASE KitUpdateReads(c)
  <2> USE <1>3
  <2>1. UNCHANGED <<kitStatus, kitResume, kit, kitTab, kitOverlapping>> /\ KitMayBegin(c)
        /\ kitCall[c].step # "read" /\ kitCall[c] \in KitCallType /\ kitCall[c].kind = "update"
    BY DEF KitUpdateReads, KitMayBegin, KitIInv, KitTypeOK
  <2>2. CASE KitRefuses(c, "interview_kit_not_found")
    BY <1>1, <2>1, <2>2, EndKeepsInv DEF KitRefuses
  <2>3. CASE /\ kit # NoKit
             /\ kitCall' = [kitCall EXCEPT ![c].step = "read",
                              ![c].seen = [notes |-> kit.notes, reviewed |-> kit.reviewed]]
    <3>1. PICK seen : seen = [notes |-> kit.notes, reviewed |-> kit.reviewed]
      OBVIOUS
    <3>2. PICK new : new = [kitCall[c] EXCEPT !.step = "read", !.seen = seen]
      OBVIOUS
    <3>3. kitCall' = [kitCall EXCEPT ![c] = new]
      BY <2>3, <3>1, <3>2 DEF KitIInv, KitTypeOK
    <3>4. seen \in SeenType
      BY <2>3, <3>1 DEF KitIInv, KitTypeOK, KitRowType, SeenType
    <3>5. /\ new \in KitCallType /\ new.step = "read" /\ new.kind = kitCall[c].kind
          /\ new.tab = kitCall[c].tab /\ new.seen = seen
      BY <2>1, <3>2, <3>4 DEF KitCallType
    <3> QED  BY ZenonT(60), <2>1, <2>3, <3>1, <3>3, <3>5, ReadingKeepsInv
  <2> QED  BY <2>2, <2>3 DEF KitUpdateReads
<1>4. CASE KitUpdateWrites(c)
  <2>1. kitCall[c].step = "read" /\ kit' = KitUpdated(kitCall[c])
    BY <1>4 DEF KitUpdateWrites
  <2>2. kit' \in KitRowType /\ ReviewCoversNotes'
    BY <1>4, <2>1, UpdatedKit DEF KitUpdateWrites, ReviewCoversNotes
  <2> QED  BY <1>4, <2>1, <2>2, WritingKeepsInv DEF KitUpdateWrites
<1> QED  BY <1>2, <1>3, <1>4

\* A request the workspace sends takes a free slot and is not yet about to write.
LEMMA SendingKeepsInv ==
  ASSUME KitIInv, NEW kind \in {"create", "get", "update"}, NEW notes \in KitText,
         NEW confirm \in BOOLEAN, KitSends(kind, notes, confirm),
         UNCHANGED <<kitStatus, kitResume, kit, kitOverlapping>>,
         kitTab' \in [status : {"idle", "loading", "ready", "error"}, typed : KitText,
                      saving : BOOLEAN, error : KitErrors],
         kitTab'.saving => kind = "update"
  PROVE  KitIInv'
<1>1. PICK step \in {"sent", "refused"}, error \in {"", "json_required"} :
        /\ step = IF ProxyRefuses(kind) THEN "refused" ELSE "sent"
        /\ error = IF ProxyRefuses(kind) THEN "json_required" ELSE ""
  OBVIOUS
<1>2. PICK new : new = [NoKitCall EXCEPT !.kind = kind, !.tab = TRUE, !.notes = notes,
                          !.confirm = confirm, !.step = step, !.error = error]
  OBVIOUS
<1>3. PICK c \in KitCall : kitCall[c] = NoKitCall /\ kitCall' = [kitCall EXCEPT ![c] = new]
  BY <1>1, <1>2 DEF KitSends
<1>4. new \in KitCallType /\ new.step # "read" /\ new.tab /\ new.kind = kind
  BY <1>2, NoKitIsNoRow DEF NoKitCall, KitCallType, KitErrors
<1>5. KitTypeOK'
  BY <1>3, <1>4 DEF KitIInv, KitTypeOK
<1>6. SavingEnds'
  BY <1>3, <1>4 DEF SavingEnds, KitIInv, KitTypeOK
<1> QED  BY <1>3, <1>4, <1>5, <1>6, CallGoesOn

\* The workspace takes an answer or a failure, or asks for the kit it was told
\* does not exist.
LEMMA TakingKeepsInv ==
  ASSUME KitIInv, NEW c \in KitCall, AsksForKit(c) \/ ReceivesKit(c) \/ KitFails(c)
  PROVE  KitIInv'
<1>1. kitCall[c] \in KitCallType /\ KitTypeOK
  BY DEF KitIInv, KitTypeOK
<1>2. CASE AsksForKit(c)
  <2>1. PICK step \in {"sent", "refused"}, error \in {"", "json_required"} :
          /\ step = IF ProxyRefuses("create") THEN "refused" ELSE "sent"
          /\ error = IF ProxyRefuses("create") THEN "json_required" ELSE ""
    OBVIOUS
  <2>2. PICK new : new = [NoKitCall EXCEPT !.kind = "create", !.tab = TRUE,
                            !.step = step, !.error = error]
    OBVIOUS
  <2>3. new \in KitCallType /\ new.step # "read"
    BY <2>2, NoKitIsNoRow DEF NoKitCall, KitCallType, KitErrors
  <2>4. kitCall' = [kitCall EXCEPT ![c] = new]
    BY <1>2, <2>1, <2>2 DEF AsksForKit
  <2>5. KitTypeOK'
    BY ZenonT(60), <1>1, <1>2, <2>3, <2>4 DEF AsksForKit, KitTypeOK
  <2>6. SavingEnds'
    BY <1>2, <2>4, SaveGoesOn DEF AsksForKit
  <2> QED  BY <1>2, <2>3, <2>4, <2>5, <2>6, CallGoesOn DEF AsksForKit
<1>3. CASE ReceivesKit(c)
  <2>1. kitCall[c].notes \in KitText
    BY <1>1 DEF KitCallType
  <2>2. /\ kitTab' \in [status : {"idle", "loading", "ready", "error"}, typed : KitText,
                        saving : BOOLEAN, error : KitErrors]
        /\ ~kitTab'.saving
    BY <1>3, <2>1 DEF ReceivesKit, KitTabClosed, KitErrors
  <2>3. KitTypeOK' /\ SavingEnds'
    BY <1>1, <1>3, <2>2, FreshCall DEF ReceivesKit, KitTypeOK, SavingEnds
  <2> QED  BY <1>3, <2>3, FreshCall, CallGoesOn DEF ReceivesKit
<1>4. CASE KitFails(c)
  <2>1. /\ kitTab' \in [status : {"idle", "loading", "ready", "error"}, typed : KitText,
                        saving : BOOLEAN, error : KitErrors]
        /\ ~kitTab'.saving
    <3>1. CASE kitCall[c].kind = "update"
      BY <1>1, <1>4, <3>1 DEF KitFails, KitTypeOK
    <3>2. CASE kitCall[c].kind # "update"
      <4>1. PICK error \in KitErrors :
              error = IF kitCall[c].step = "refused" THEN kitCall[c].error
                      ELSE "interview_preparation_unavailable"
        BY <1>1 DEF KitCallType, KitErrors
      <4>2. kitTab' = [KitTabClosed EXCEPT !.status = "error", !.error = error]
        BY <1>4, <3>2, <4>1 DEF KitFails
      <4> QED  BY <4>2, NoKitIsNoRow DEF KitTabClosed
    <3> QED  BY <3>1, <3>2
  <2>2. SavingEnds'
    BY <2>1 DEF SavingEnds
  <2>3. CASE kitCall[c].step \in {"answered", "refused"}
    <3>1. kitCall' = [kitCall EXCEPT ![c] = NoKitCall]
      BY <1>4, <2>3 DEF KitFails
    <3>2. KitTypeOK'
      BY <1>1, <1>4, <2>1, <3>1, FreshCall DEF KitFails, KitTypeOK
    <3> QED  BY <1>4, <2>2, <3>1, <3>2, FreshCall, CallGoesOn DEF KitFails
  <2>4. CASE kitCall[c].step \notin {"answered", "refused"}
    <3>1. PICK new : new = [kitCall[c] EXCEPT !.tab = FALSE]
      OBVIOUS
    <3>2. kitCall' = [kitCall EXCEPT ![c] = new]
      BY <1>4, <2>4, <3>1 DEF KitFails
    <3>3. /\ new \in KitCallType /\ new.step = kitCall[c].step /\ new.kind = kitCall[c].kind
          /\ new.resume = kitCall[c].resume /\ new.seen = kitCall[c].seen
      BY <1>1, <3>1 DEF KitCallType
    <3>4. KitTypeOK'
      BY <1>1, <1>4, <2>1, <3>2, <3>3 DEF KitFails, KitTypeOK
    <3>5. UNCHANGED <<kit, kitOverlapping>>
      BY <1>4 DEF KitFails
    <3>6. /\ kitCall'[c] = new
          /\ \A d \in KitCall \ {c} : kitCall'[d] = kitCall[d]
      BY <1>1, <3>2 DEF KitTypeOK
    <3>7. ASSUME NEW d \in KitCall PROVE HasRead(d)' /\ ReadIsCurrent(d)'
      <4>1. HasRead(d) /\ ReadIsCurrent(d)  BY DEF KitIInv
      <4>2. \A e \in KitCall : /\ kitCall'[e].step = kitCall[e].step
                               /\ kitCall'[e].kind = kitCall[e].kind
                               /\ kitCall'[e].resume = kitCall[e].resume
                               /\ kitCall'[e].seen = kitCall[e].seen
        BY <3>3, <3>6
      <4>3. HasRead(d)'  BY <3>5, <4>1, <4>2 DEF HasRead
      <4>4. ReadIsCurrent(d)'  BY <3>5, <4>1, <4>2 DEF ReadIsCurrent
      <4> QED  BY <4>3, <4>4
    <3>8. ReviewCoversNotes'
      BY <3>5 DEF KitIInv, ReviewCoversNotes
    <3> QED  BY <2>2, <3>4, <3>7, <3>8 DEF KitIInv
  <2> QED  BY <2>3, <2>4
<1> QED  BY <1>2, <1>3, <1>4

LEMMA KitNextKeepsInv == KitIInv /\ [KitNext]_kitVars => KitIInv'
<1> SUFFICES ASSUME KitIInv, [KitNext]_kitVars PROVE KitIInv'
  OBVIOUS
<1>1. KitTypeOK /\ SavingEnds
  BY DEF KitIInv
<1>2. CASE UNCHANGED kitVars
  BY <1>1, <1>2, OthersKeepInv DEF kitVars, KitTypeOK, SavingEnds
<1>3. ASSUME NEW status \in DOMAIN StatusAfter, MovesApplication(status) PROVE KitIInv'
  BY <1>1, <1>3, OthersKeepInv DEF MovesApplication, KitTypeOK, SavingEnds
<1>4. ASSUME NEW resume \in KitResume, ReplacesResume(resume) PROVE KitIInv'
  BY <1>1, <1>4, OthersKeepInv DEF ReplacesResume, KitTypeOK, SavingEnds
<1>5. CASE ForeignCreatesKit
  <2>1. PICK new : new = [NoKitCall EXCEPT !.kind = "create", !.step = "sent"]
    OBVIOUS
  <2>2. PICK c \in KitCall : kitCall[c] = NoKitCall /\ kitCall' = [kitCall EXCEPT ![c] = new]
    BY <1>5, <2>1 DEF ForeignCreatesKit
  <2>3. new \in KitCallType /\ new.step = "sent"
    BY <2>1, NoKitIsNoRow DEF NoKitCall, KitCallType, KitErrors
  <2>4. UNCHANGED <<kitStatus, kitResume, kit, kitTab, kitOverlapping>>
    BY <1>5 DEF ForeignCreatesKit
  <2>5. KitTypeOK'
    BY <1>1, <2>2, <2>3, <2>4 DEF KitTypeOK
  <2>6. SavingEnds'
    BY <2>2, <2>4, FreshCall, SaveGoesOn
  <2> QED  BY <2>2, <2>3, <2>4, <2>5, <2>6, CallGoesOn
<1>6. CASE OpensKit
  <2>1. kitTab' \in [status : {"idle", "loading", "ready", "error"}, typed : KitText,
                     saving : BOOLEAN, error : KitErrors] /\ ~kitTab'.saving
    BY <1>6, NoKitIsNoRow DEF OpensKit, KitTabClosed, KitErrors
  <2> QED  BY <1>6, <2>1, NoKitIsNoRow, SendingKeepsInv DEF OpensKit
<1>7. ASSUME NEW text \in KitText, WritesNotes(text) PROVE KitIInv'
  <2>1. KitTypeOK' /\ kitTab'.saving = kitTab.saving
    BY <1>1, <1>7 DEF WritesNotes, KitTypeOK
  <2>2. SavingEnds'
    BY <1>1, <1>7, <2>1 DEF WritesNotes, SavingEnds
  <2> QED  BY <1>7, <2>1, <2>2, OthersKeepInv DEF WritesNotes
<1>8. ASSUME NEW confirm \in BOOLEAN, SavesNotes(confirm) PROVE KitIInv'
  <2>1. kitTab' \in [status : {"idle", "loading", "ready", "error"}, typed : KitText,
                     saving : BOOLEAN, error : KitErrors] /\ kitTab.typed \in KitText
    BY <1>1, <1>8 DEF SavesNotes, KitTypeOK
  <2> QED  BY <1>8, <2>1, SendingKeepsInv DEF SavesNotes
<1>9. ASSUME NEW c \in KitCall, KitCreateReads(c) \/ KitCreateWrites(c) PROVE KitIInv'
  BY <1>9, CreatingKeepsInv
<1>10. ASSUME NEW c \in KitCall, KitGet(c) \/ KitUpdateReads(c) \/ KitUpdateWrites(c)
      PROVE  KitIInv'
  BY <1>10, UpdatingKeepsInv
<1>11. ASSUME NEW c \in KitCall, AsksForKit(c) \/ ReceivesKit(c) \/ KitFails(c) PROVE KitIInv'
  BY <1>11, TakingKeepsInv
<1> QED
  BY <1>2, <1>3, <1>4, <1>5, <1>6, <1>7, <1>8, <1>9, <1>10, <1>11 DEF KitNext

\* A step writes a kit only by making it, when there was none, or by updating it.
LEMMA StepKeepsKit ==
  ASSUME KitIInv, [KitNext]_kitVars, kit # NoKit
  PROVE  /\ kit' # NoKit /\ kit'.resume = kit.resume
         /\ kit'.notes # kit.notes => kit'.notes = kit'.last.notes
<1>1. CASE kit' = kit
  BY <1>1
<1>2. ASSUME NEW c \in KitCall, KitCreateWrites(c) PROVE kit' = kit
  BY <1>2 DEF KitCreateWrites
<1>3. ASSUME NEW c \in KitCall, KitUpdateWrites(c)
      PROVE  /\ kit' # NoKit /\ kit'.resume = kit.resume
             /\ kit'.notes # kit.notes => kit'.notes = kit'.last.notes
  <2>1. kit' = KitUpdated(kitCall[c]) /\ kitCall[c].step = "read" /\ kitCall[c].kind = "update"
    BY <1>3 DEF KitUpdateWrites
  <2> QED  BY <2>1, UpdatedKit, NoKitIsNoRow
<1>4. \/ kit' = kit
      \/ \E c \in KitCall : KitCreateWrites(c) \/ KitUpdateWrites(c)
  BY DEF KitNext, kitVars, MovesApplication, ReplacesResume, ForeignCreatesKit, OpensKit,
         WritesNotes, SavesNotes, KitCreateReads, KitGet, KitUpdateReads, AsksForKit,
         ReceivesKit, KitFails
<1> QED  BY <1>1, <1>2, <1>3, <1>4

\* For any number of requests, any notes and any resumes: questions and notes
\* of a kit stay however its requests overlap; the mark is about the notes as
\* long as updates do not; and no workspace saves for ever (interview_kits.py
\* and the interview workspace).
THEOREM NotesOfAKitAreKept == KitSpec => NotesAreKept
<1>1. KitSpec => []KitIInv
  BY KitInitHolds, KitNextKeepsInv, PTL DEF KitSpec
<1>2. KitIInv /\ [KitNext]_kitVars =>
        [kit # NoKit => /\ kit' # NoKit /\ kit'.resume = kit.resume
                        /\ kit'.notes # kit.notes => kit'.notes = kit'.last.notes]_kitVars
  BY StepKeepsKit
<1>3. KitSpec => KitIsKept
  BY <1>1, <1>2, PTL DEF KitSpec, KitIsKept
<1>4. KitIInv => ReviewCoversNotes /\ SavingEnds
  BY DEF KitIInv
<1> QED  BY <1>1, <1>3, <1>4, PTL DEF NotesAreKept

-------------------------------------------------------------------------------
(* The tracker and the packet workspace (ApplicationDesk).                     *)
(*                                                                             *)
(* Two arguments that go together. While nothing has raced or been lost there  *)
(* is one request at a time, and the copies it does not replace are those of   *)
(* the database. While nothing was lost, whatever races, the instance of the   *)
(* packet workspace on display has one request at a time, so what it shows     *)
(* without edits is the packet as it is. A save or a lock that an instance     *)
(* left behind is alone until it ends, unless the page goes on meanwhile.      *)

DeskRows == [status : DeskStatus, plan : DeskPlan, resume : DeskResume,
             reviewed : BOOLEAN, ready : BOOLEAN]

DeskCopy == {NoCopy} \union [status : DeskStatus, plan : DeskPlan]

DeskPages == [status : {"idle", "loading", "ready", "error"}, resume : DeskResume,
              reviewed : BOOLEAN, ready : BOOLEAN, canReady : BOOLEAN, canSubmit : BOOLEAN,
              dirty : BOOLEAN, busy : BOOLEAN]

DeskSteps == {"free", "sent", "answered", "refused"}

PacketKinds == {"open", "review", "ready", "submit", "refresh"}

DeskKinds == {"none", "list", "detail", "move", "plan"} \union PacketKinds

\* What a request of each kind carries.
CarriesForm(call) ==
  /\ call.kind = "move" => call.form \in [to : DeskStatus, plan : DeskPlan]
  /\ call.kind = "plan" => call.form \in [plan : DeskPlan]
  /\ call.kind = "review" => call.form \in [resume : DeskResume, reviewed : BOOLEAN]

DeskForms ==
  {NoCopy} \union [to : DeskStatus, plan : DeskPlan] \union [plan : DeskPlan]
    \union [resume : DeskResume, reviewed : BOOLEAN]

DeskCalls ==
  [kind : DeskKinds, step : DeskSteps, page : BOOLEAN, shown : BOOLEAN, form : DeskForms,
   answer : {NoCopy} \union DeskRows]

IsDeskCall(call) ==
  /\ call \in DeskCalls
  /\ call.kind = "none" => call = NoDeskCall
  /\ call.shown => call.kind \in PacketKinds
  /\ CarriesForm(call)
  /\ call.step = "answered" => call.answer \in DeskRows

DeskTypeOK ==
  /\ deskRow \in DeskRows
  /\ deskItem \in DeskCopy /\ deskDetail \in DeskCopy
  /\ deskPacket \in DeskPages
  /\ deskCall = [c \in DeskCall |-> deskCall[c]]
  /\ \A c \in DeskCall : IsDeskCall(deskCall[c])
  /\ deskRaced \in BOOLEAN /\ deskLost \in BOOLEAN /\ deskLetGo \in BOOLEAN

Stored(copy) == copy \in {NoCopy, ApplicationOf(deskRow)}

\* What a lone request leaves of the copies until its answer is in.
CallKeepsCopies(call) ==
  /\ call.kind # "none" => call.page
  /\ call.step = "refused" => call.kind # "refresh"
  /\ call.step \in {"sent", "refused"} /\ call.kind \notin {"none", "refresh"}
       => Stored(deskItem) /\ Stored(deskDetail)
  /\ call.step = "sent" /\ call.kind = "move" => call.form.plan = deskRow.plan
  /\ call.step = "answered" =>
       /\ ApplicationOf(call.answer) = ApplicationOf(deskRow)
       /\ call.kind \in {"list", "open", "review"} => Stored(deskDetail)
       /\ call.kind \in {"detail", "open", "review"} => Stored(deskItem)

CopiesInv ==
  ~deskRaced /\ ~deskLost =>
    /\ \A c, d \in DeskCall :
         deskCall[c].kind # "none" /\ deskCall[d].kind # "none" => c = d
    /\ \A c \in DeskCall : CallKeepsCopies(deskCall[c])
    /\ (\A c \in DeskCall : deskCall[c].kind = "none") => Stored(deskItem) /\ Stored(deskDetail)

SamePacket(p, q) == p.resume = q.resume /\ p.reviewed = q.reviewed /\ p.ready = q.ready

IsShown(call) == call.kind \in PacketKinds /\ call.shown

WritesPacket(call) == call.kind \in {"review", "ready"}

\* What a request about the packet leaves of it until its answer is in.
CallKeepsPacket(call) ==
  /\ call.kind # "none" => call.page
  /\ call.kind = "ready" /\ call.step = "sent" =>
       deskSigned = [resume |-> deskRow.resume, reviewed |-> deskRow.reviewed]
  /\ WritesPacket(call) /\ ~call.shown => deskLetGo /\ deskPacket.status = "idle"
  /\ IsShown(call) =>
       /\ call.kind = "review" => deskPacket.dirty
       /\ call.kind \in OfPacket /\ call.step = "answered" => SamePacket(call.answer, deskRow)
       /\ IF call.kind = "open" THEN deskPacket.status = "loading"
          ELSE deskPacket.status = "ready" /\ deskPacket.busy

Careful == ~deskLost /\ ~(deskRaced /\ deskLetGo)

PacketInv ==
  Careful =>
    /\ \A c, d \in DeskCall : IsShown(deskCall[c]) /\ IsShown(deskCall[d]) => c = d
    /\ \A c, d \in DeskCall : WritesPacket(deskCall[c]) /\ WritesPacket(deskCall[d]) => c = d
    /\ \A c \in DeskCall : CallKeepsPacket(deskCall[c])
    /\ (/\ deskPacket.status = "ready" /\ ~deskPacket.dirty
        /\ \A c \in DeskCall : ~(deskCall[c].kind = "ready" /\ deskCall[c].step = "answered"))
          => SamePacket(deskPacket, deskRow)
    /\ deskRow.ready =>
         deskSigned = [resume |-> deskRow.resume, reviewed |-> TRUE] /\ deskRow.reviewed

DeskIInv == DeskTypeOK /\ CopiesInv /\ PacketInv

\* A request as it is sent.
IsSent(call, kind, form) ==
  /\ call.kind = kind /\ call.step = "sent" /\ call.page = TRUE /\ call.form = form
  /\ call.shown = (kind \in OfPacket)

LEMMA FreeSlot ==
  /\ NoDeskCall.kind = "none" /\ NoDeskCall.step = "free"
  /\ IsDeskCall(NoDeskCall)
BY DEF NoDeskCall, IsDeskCall, DeskCalls, CarriesForm, DeskKinds, DeskSteps, DeskForms, PacketKinds

LEMMA SlotTaken ==
  ASSUME DeskTypeOK, NEW kind \in DeskKinds, NEW form \in DeskForms, DeskSends(kind, form)
  PROVE  \E c \in DeskCall :
           /\ deskCall[c].kind = "none"
           /\ deskCall' = [deskCall EXCEPT ![c] = deskCall'[c]]
           /\ IsSent(deskCall'[c], kind, form) /\ deskCall'[c] \in DeskCalls
           /\ \A d \in DeskCall \ {c} : deskCall'[d] = deskCall[d]
           /\ deskRaced' = (deskRaced \/ \E d \in DeskCall : deskCall[d].kind # "none")
           /\ deskLost' = deskLost /\ deskLetGo' = deskLetGo
<1>1. PICK c \in DeskCall :
        /\ deskCall[c] = NoDeskCall
        /\ deskCall' = [deskCall EXCEPT ![c] =
             [NoDeskCall EXCEPT !.kind = kind, !.step = "sent", !.page = TRUE,
                                !.shown = kind \in OfPacket, !.form = form]]
        /\ deskRaced' = (deskRaced \/ \E d \in DeskCall : deskCall[d] # NoDeskCall)
        /\ deskLost' = deskLost /\ deskLetGo' = deskLetGo
  BY DEF DeskSends
<1>2. \A d \in DeskCall : deskCall[d] # NoDeskCall <=> deskCall[d].kind # "none"
  BY FreeSlot DEF DeskTypeOK, IsDeskCall
<1>3. PICK call : call = [NoDeskCall EXCEPT !.kind = kind, !.step = "sent", !.page = TRUE,
                                            !.shown = kind \in OfPacket, !.form = form]
  OBVIOUS
<1>4. IsSent(call, kind, form)  BY <1>3 DEF IsSent, NoDeskCall
<1>5. call \in DeskCalls
  <2>1. PICK shown \in BOOLEAN : shown = (kind \in OfPacket)
    <3>1. CASE kind \in OfPacket
      <4>1. TRUE = (kind \in OfPacket)  BY <3>1
      <4> QED  BY <4>1
    <3>2. CASE kind \notin OfPacket
      <4>1. FALSE = (kind \in OfPacket)  BY <3>2
      <4> QED  BY <4>1
    <3> QED  BY <3>1, <3>2
  <2>2. call = [NoDeskCall EXCEPT !.kind = kind, !.step = "sent", !.page = TRUE,
                                  !.shown = shown, !.form = form]
    BY <1>3, <2>1
  <2> QED  BY <2>2 DEF NoDeskCall, DeskCalls, DeskSteps
<1>6. /\ deskCall' = [deskCall EXCEPT ![c] = call] /\ deskCall'[c] = call
      /\ \A d \in DeskCall \ {c} : deskCall'[d] = deskCall[d]
  BY <1>1, <1>3 DEF DeskTypeOK
<1>7. deskRaced' = (deskRaced \/ \E d \in DeskCall : deskCall[d].kind # "none")
  BY <1>1, <1>2
<1> QED  BY <1>1, <1>2, <1>4, <1>5, <1>6, <1>7, FreeSlot

\* One slot changes, to a request of the page or to none.
LEMMA SlotKeepsTypes ==
  ASSUME DeskTypeOK, NEW c \in DeskCall, NEW call, IsDeskCall(call),
         deskCall' = [deskCall EXCEPT ![c] = call],
         deskRow' \in DeskRows, deskItem' \in DeskCopy, deskDetail' \in DeskCopy,
         deskPacket' \in DeskPages, deskRaced' \in BOOLEAN, deskLost' \in BOOLEAN,
         deskLetGo' \in BOOLEAN
  PROVE  /\ DeskTypeOK'
         /\ deskCall'[c] = call
         /\ \A d \in DeskCall \ {c} : deskCall'[d] = deskCall[d]
<1>1. /\ deskCall'[c] = call
      /\ \A d \in DeskCall \ {c} : deskCall'[d] = deskCall[d]
  BY DEF DeskTypeOK
<1>2. deskCall' = [d \in DeskCall |-> deskCall'[d]]  BY DEF DeskTypeOK
<1>3. \A d \in DeskCall : IsDeskCall(deskCall'[d])  BY <1>1 DEF DeskTypeOK
<1>4. \A d \in DeskCall : IsDeskCall(deskCall[d])'
  BY <1>3 DEF IsDeskCall, DeskCalls, DeskForms, CarriesForm, NoDeskCall, DeskRows
<1> QED  BY <1>1, <1>2, <1>4 DEF DeskTypeOK, DeskRows, DeskCopy, DeskPages

-------------------------------------------------------------------------------
\* A request of the page that leaves the row, the copies and the packet's content
\* alone: to the tracker, or about a packet that has no other under way.
LEMMA SendKeepsInv ==
  ASSUME DeskIInv, NEW kind \in DeskKinds \ {"none", "refresh"},
         NEW form \in DeskForms, DeskSends(kind, form), \A call : IsSent(call, kind, form) => CarriesForm(call),
         kind = "move" /\ ~deskRaced /\ ~deskLost /\ (\A d \in DeskCall : deskCall[d].kind = "none")
           => form.plan = deskRow.plan,
         UNCHANGED <<deskRow, deskItem, deskDetail>>,
         deskPacket' \in DeskPages,
         deskPacket'.dirty = deskPacket.dirty \/ kind = "open",
         SamePacket(deskPacket', deskPacket) \/ kind = "open",
         kind \notin OfPacket => UNCHANGED <<deskPacket, deskSigned>>,
         kind \in OfPacket /\ Careful =>
           \A d \in DeskCall : ~IsShown(deskCall[d]),
         kind = "open" => deskPacket'.status = "loading",
         kind \in OfPacket \ {"open"} =>
           deskPacket'.status = "ready" /\ deskPacket.status = "ready" /\ deskPacket'.busy,
         kind = "review" => deskPacket.dirty,
         kind # "ready" => UNCHANGED deskSigned,
         kind = "ready" /\ Careful =>
           /\ deskSigned' = [resume |-> deskRow.resume, reviewed |-> deskRow.reviewed]
           /\ ~deskRow.ready
  PROVE  DeskIInv'
<1>1. PICK c \in DeskCall :
           /\ deskCall[c].kind = "none"
           /\ deskCall' = [deskCall EXCEPT ![c] = deskCall'[c]]
           /\ IsSent(deskCall'[c], kind, form) /\ deskCall'[c] \in DeskCalls
           /\ \A d \in DeskCall \ {c} : deskCall'[d] = deskCall[d]
           /\ deskRaced' = (deskRaced \/ \E d \in DeskCall : deskCall[d].kind # "none")
           /\ deskLost' = deskLost /\ deskLetGo' = deskLetGo
  BY SlotTaken DEF DeskIInv
<1>2. IsDeskCall(deskCall'[c])
  BY <1>1 DEF IsDeskCall, IsSent, DeskSteps, OfPacket, PacketKinds
<1>3. DeskTypeOK'
  BY <1>1, <1>2, SlotKeepsTypes DEF DeskIInv, DeskTypeOK
<1>4. /\ deskCall'[c].kind = kind /\ deskCall'[c].step = "sent"
      /\ deskCall'[c].page /\ deskCall'[c].form = form
      /\ deskCall'[c].shown = (kind \in OfPacket)
  BY <1>1 DEF IsSent
<1>5. CopiesInv'
  <2> SUFFICES ASSUME ~deskRaced', ~deskLost'
               PROVE  /\ \A d, e \in DeskCall :
                           deskCall'[d].kind # "none" /\ deskCall'[e].kind # "none" => d = e
                      /\ \A d \in DeskCall : CallKeepsCopies(deskCall[d])'
                      /\ (\A d \in DeskCall : deskCall'[d].kind = "none")
                           => Stored(deskItem)' /\ Stored(deskDetail)'
    BY DEF CopiesInv
  <2>1. ~deskRaced /\ ~deskLost /\ \A d \in DeskCall : deskCall[d].kind = "none"
    BY <1>1
  <2>2. Stored(deskItem) /\ Stored(deskDetail)  BY <2>1 DEF DeskIInv, CopiesInv
  <2>3. Stored(deskItem)' /\ Stored(deskDetail)'  BY <2>2 DEF Stored, ApplicationOf
  <2>4. \A d \in DeskCall \ {c} : deskCall'[d].kind = "none"  BY <1>1, <2>1
  <2>5. \A d \in DeskCall \ {c} : deskCall'[d].step = "free"
    BY <1>3, <2>4, FreeSlot DEF DeskTypeOK, IsDeskCall, NoDeskCall
  <2>6. ASSUME NEW d \in DeskCall PROVE CallKeepsCopies(deskCall[d])'
    <3>1. CASE d = c
      BY <1>1, <1>4, <2>1, <2>3, <3>1 DEF CallKeepsCopies
    <3>2. CASE d # c
      BY <2>4, <2>5, <3>2 DEF CallKeepsCopies
    <3> QED  BY <3>1, <3>2
  <2> QED  BY <2>3, <2>4, <2>6
<1>6. PacketInv'
  <2> SUFFICES ASSUME Careful' PROVE PacketInv'  BY DEF PacketInv
  <2>1. Careful  BY <1>1 DEF Careful
  <2>2. ASSUME NEW d \in DeskCall \ {c}
        PROVE  /\ CallKeepsPacket(deskCall[d]) /\ deskCall'[d] = deskCall[d]
               /\ WritesPacket(deskCall[d]) => deskCall[d].shown
               /\ kind \in OfPacket => ~IsShown(deskCall[d]) /\ ~WritesPacket(deskCall[d])
    <3>1. CallKeepsPacket(deskCall[d]) /\ deskCall'[d] = deskCall[d]
      BY <1>1, <2>1 DEF DeskIInv, PacketInv
    <3>2. WritesPacket(deskCall[d]) /\ ~deskCall[d].shown => deskLetGo' /\ deskRaced'
      BY <1>1, <3>1 DEF CallKeepsPacket, WritesPacket
    <3>3. WritesPacket(deskCall[d]) => deskCall[d].shown  BY <3>2 DEF Careful
    <3>4. kind \in OfPacket => ~IsShown(deskCall[d])  BY <2>1
    <3>5. WritesPacket(deskCall[d]) => deskCall[d].kind \in PacketKinds
      BY DEF WritesPacket, PacketKinds
    <3> QED  BY <3>1, <3>3, <3>4, <3>5 DEF IsShown
  <2>3. IsShown(deskCall'[c]) \/ WritesPacket(deskCall'[c]) => kind \in OfPacket
    BY <1>4 DEF IsShown, WritesPacket, OfPacket
  <2>4. \A d, e \in DeskCall : IsShown(deskCall'[d]) /\ IsShown(deskCall'[e]) => d = e
    BY <2>1, <2>2, <2>3 DEF DeskIInv, PacketInv
  <2>5. \A d, e \in DeskCall : WritesPacket(deskCall'[d]) /\ WritesPacket(deskCall'[e]) => d = e
    BY <2>1, <2>2, <2>3 DEF DeskIInv, PacketInv
  <2>6. ASSUME NEW d \in DeskCall PROVE CallKeepsPacket(deskCall[d])'
    <3>1. CASE d = c
      <4>1. CASE kind \in OfPacket
        BY <1>1, <1>4, <2>1, <3>1, <4>1
        DEF CallKeepsPacket, WritesPacket, IsShown, OfPacket
      <4>2. CASE kind \notin OfPacket
        BY <1>1, <1>4, <3>1, <4>2 DEF CallKeepsPacket, WritesPacket, IsShown, OfPacket
      <4> QED  BY <4>1, <4>2
    <3>2. CASE d # c
      <4>1. /\ CallKeepsPacket(deskCall[d]) /\ deskCall'[d] = deskCall[d]
            /\ WritesPacket(deskCall[d]) => deskCall[d].shown
            /\ kind \in OfPacket => ~IsShown(deskCall[d]) /\ ~WritesPacket(deskCall[d])
        BY <2>2, <3>2
      <4>2. CASE kind \in OfPacket
        <5>1. deskCall[d].kind # "ready"  BY <4>1, <4>2 DEF WritesPacket
        <5> QED  BY <4>1, <4>2, <5>1 DEF CallKeepsPacket, WritesPacket, IsShown
      <4>3. CASE kind \notin OfPacket
        BY <1>1, <4>1, <4>3 DEF CallKeepsPacket, SamePacket, WritesPacket, IsShown
      <4> QED  BY <4>2, <4>3
    <3> QED  BY <3>1, <3>2
  <2>7. (/\ deskPacket'.status = "ready" /\ ~deskPacket'.dirty
         /\ \A d \in DeskCall : ~(deskCall'[d].kind = "ready" /\ deskCall'[d].step = "answered"))
          => SamePacket(deskPacket', deskRow')
    <3>1. \A d \in DeskCall :
            deskCall[d].kind = "ready" /\ deskCall[d].step = "answered" => deskCall'[d] = deskCall[d]
      BY <1>1
    <3>2. SamePacket(deskPacket, deskRow) /\ SamePacket(deskPacket', deskPacket)
            => SamePacket(deskPacket', deskRow')
      BY DEF SamePacket
    <3>3. (/\ deskPacket.status = "ready" /\ ~deskPacket.dirty
           /\ \A d \in DeskCall : ~(deskCall[d].kind = "ready" /\ deskCall[d].step = "answered"))
            => SamePacket(deskPacket, deskRow)
      BY <2>1 DEF DeskIInv, PacketInv
    <3>4. CASE kind = "open"  BY <3>4
    <3>5. CASE kind \in OfPacket \ {"open"}
      BY <3>1, <3>2, <3>3, <3>5
    <3>6. CASE kind \notin OfPacket
      BY <3>1, <3>2, <3>3, <3>6 DEF OfPacket
    <3> QED  BY <3>4, <3>5, <3>6
  <2>8. deskRow'.ready =>
          deskSigned' = [resume |-> deskRow'.resume, reviewed |-> TRUE] /\ deskRow'.reviewed
    BY <2>1 DEF DeskIInv, PacketInv
  <2> QED  BY <2>4, <2>5, <2>6, <2>7, <2>8 DEF PacketInv
<1> QED  BY <1>3, <1>5, <1>6 DEF DeskIInv

LEMMA OwnPlansArePlans == OwnPlan \subseteq DeskPlan
BY DEF OwnPlan, DeskPlan, DeskAction

LEMMA PageSendsKeepInv ==
  ASSUME DeskIInv,
         \/ LoadsTracker \/ ExpandsDetail
         \/ \E to \in DeskStatus : ChangesStatus(to)
         \/ \E plan \in OwnPlan : SavesDeskPlan(plan)
  PROVE  DeskIInv'
<1>1. deskPacket \in DeskPages  BY DEF DeskIInv, DeskTypeOK
<1>2. UNCHANGED <<deskRow, deskItem, deskDetail, deskPacket, deskSigned>>
  BY DEF LoadsTracker, ExpandsDetail, ChangesStatus, SavesDeskPlan
<1>3. ASSUME NEW kind \in {"list", "detail", "plan"}, NEW form \in DeskForms,
             DeskSends(kind, form), kind = "plan" => form \in [plan : DeskPlan]
      PROVE  DeskIInv'
  <2>1. \A call : IsSent(call, kind, form) => CarriesForm(call)
    BY <1>3 DEF IsSent, CarriesForm
  <2> QED
    BY <1>1, <1>2, <1>3, <2>1, SendKeepsInv DEF DeskKinds, OfPacket, SamePacket
<1>4. NoCopy \in DeskForms /\ [plan : DeskPlan] \subseteq DeskForms  BY DEF DeskForms
<1>5. ASSUME NEW to \in DeskStatus, ChangesStatus(to) PROVE DeskIInv'
  <2> DEFINE form == [to |-> to, plan |-> deskItem.plan]
  <2>1. DeskSends("move", form) /\ deskItem # NoCopy  BY <1>5 DEF ChangesStatus, CardIsOpen
  <2>2. form \in [to : DeskStatus, plan : DeskPlan]
    BY <2>1 DEF DeskIInv, DeskTypeOK, DeskCopy
  <2>3. ~deskRaced /\ ~deskLost /\ (\A d \in DeskCall : deskCall[d].kind = "none")
          => form.plan = deskRow.plan
    BY <2>1 DEF DeskIInv, CopiesInv, Stored, ApplicationOf
  <2> HIDE DEF form
  <2>4. \A call : IsSent(call, "move", form) => CarriesForm(call)
    BY <2>2 DEF IsSent, CarriesForm
  <2>5. form \in DeskForms  BY <2>2 DEF DeskForms
  <2> QED
    BY <1>1, <1>2, <2>1, <2>3, <2>4, <2>5, SendKeepsInv DEF DeskKinds, OfPacket, SamePacket
<1>6. CASE LoadsTracker  BY <1>3, <1>4, <1>6 DEF LoadsTracker
<1>7. CASE ExpandsDetail  BY <1>3, <1>4, <1>7 DEF ExpandsDetail
<1>8. ASSUME NEW plan \in OwnPlan, SavesDeskPlan(plan) PROVE DeskIInv'
  <2>1. DeskSends("plan", [plan |-> plan]) /\ [plan |-> plan] \in [plan : DeskPlan]
    BY <1>8, OwnPlansArePlans DEF SavesDeskPlan
  <2> QED  BY <1>3, <1>4, <2>1
<1> QED  BY <1>5, <1>6, <1>7, <1>8

\* An instance that is idle or failed to open has no request under way, and
\* neither has one that is not busy.
LEMMA PacketIsFree ==
  ASSUME DeskIInv, Careful,
         \/ deskPacket.status \in {"idle", "error"}
         \/ deskPacket.status = "ready" /\ ~deskPacket.busy
  PROVE  \A d \in DeskCall : ~IsShown(deskCall[d])
BY DEF DeskIInv, PacketInv, CallKeepsPacket

LEMMA PacketSendsKeepInv ==
  ASSUME DeskIInv, OpensPacket \/ SavesReview \/ MarksPacketReady \/ RecordsSubmission
  PROVE  DeskIInv'
<1>1. deskPacket \in DeskPages  BY DEF DeskIInv, DeskTypeOK
<1>2. UNCHANGED <<deskRow, deskItem, deskDetail>>
  BY DEF OpensPacket, SavesReview, MarksPacketReady, RecordsSubmission
<1>3. NoCopy \in DeskForms  BY DEF DeskForms
<1>4. CASE OpensPacket
  <2>1. /\ deskPacket' = [PageClosed EXCEPT !.status = "loading"]
        /\ DeskSends("open", NoCopy) /\ deskPacket.status \in {"idle", "error"}
        /\ UNCHANGED deskSigned
    BY <1>4 DEF OpensPacket
  <2>2. deskPacket' \in DeskPages /\ deskPacket'.status = "loading"
    BY <2>1, DeskCopies DEF PageClosed, DeskPages
  <2>3. Careful => \A d \in DeskCall : ~IsShown(deskCall[d])
    BY <2>1, PacketIsFree
  <2>4. \A call : IsSent(call, "open", NoCopy) => CarriesForm(call)
    BY DEF IsSent, CarriesForm
  <2> QED
    BY <1>2, <1>3, <2>1, <2>2, <2>3, <2>4, SendKeepsInv DEF DeskKinds, PacketKinds, OfPacket
<1>5. ASSUME SavesReview \/ MarksPacketReady \/ RecordsSubmission
      PROVE  /\ deskPacket' \in DeskPages /\ deskPacket'.busy /\ deskPacket'.status = "ready"
             /\ deskPacket.status = "ready"
             /\ deskPacket'.dirty = deskPacket.dirty /\ SamePacket(deskPacket', deskPacket)
             /\ Careful => \A d \in DeskCall : ~IsShown(deskCall[d])
  <2>1. /\ deskPacket.status = "ready" /\ ~deskPacket.busy
        /\ deskPacket' = [deskPacket EXCEPT !.busy = TRUE]
    BY <1>5 DEF SavesReview, MarksPacketReady, RecordsSubmission
  <2>2. /\ deskPacket' \in DeskPages /\ deskPacket'.busy /\ deskPacket'.status = "ready"
        /\ deskPacket'.dirty = deskPacket.dirty /\ SamePacket(deskPacket', deskPacket)
    BY <1>1, <2>1 DEF DeskPages, SamePacket
  <2> QED  BY <2>1, <2>2, PacketIsFree
<1>6. CASE SavesReview
  <2> DEFINE form == [resume |-> deskPacket.resume, reviewed |-> deskPacket.reviewed]
  <2>1. DeskSends("review", form) /\ deskPacket.dirty /\ UNCHANGED deskSigned
    BY <1>6 DEF SavesReview
  <2>2. form \in [resume : DeskResume, reviewed : BOOLEAN]  BY <1>1 DEF DeskPages
  <2> HIDE DEF form
  <2>3. \A call : IsSent(call, "review", form) => CarriesForm(call)
    BY <2>2 DEF IsSent, CarriesForm
  <2>4. form \in DeskForms  BY <2>2 DEF DeskForms
  <2> QED
    BY <1>2, <1>5, <1>6, <2>1, <2>3, <2>4, SendKeepsInv DEF DeskKinds, PacketKinds, OfPacket
<1>7. CASE MarksPacketReady
  <2>1. /\ DeskSends("ready", NoCopy) /\ ~deskPacket.dirty /\ ~deskPacket.ready
        /\ ~deskPacket.busy /\ deskPacket.status = "ready"
        /\ deskSigned' = [resume |-> deskPacket.resume, reviewed |-> deskPacket.reviewed]
    BY <1>7 DEF MarksPacketReady
  <2>2. Careful => SamePacket(deskPacket, deskRow)
    <3> SUFFICES ASSUME Careful PROVE SamePacket(deskPacket, deskRow)  OBVIOUS
    <3>1. ASSUME NEW d \in DeskCall PROVE deskCall[d].kind # "ready"
      <4>1. ~IsShown(deskCall[d])  BY <2>1, PacketIsFree
      <4>2. CallKeepsPacket(deskCall[d])  BY DEF DeskIInv, PacketInv
      <4> QED  BY <2>1, <4>1, <4>2 DEF CallKeepsPacket, WritesPacket, IsShown, PacketKinds
    <3> QED  BY <2>1, <3>1 DEF DeskIInv, PacketInv
  <2>3. Careful =>
          /\ deskSigned' = [resume |-> deskRow.resume, reviewed |-> deskRow.reviewed]
          /\ ~deskRow.ready
    BY <2>1, <2>2 DEF SamePacket
  <2>4. \A call : IsSent(call, "ready", NoCopy) => CarriesForm(call)
    BY DEF IsSent, CarriesForm
  <2> QED
    BY <1>2, <1>3, <1>5, <1>7, <2>1, <2>3, <2>4, SendKeepsInv DEF DeskKinds, PacketKinds, OfPacket
<1>8. CASE RecordsSubmission
  <2>1. DeskSends("submit", NoCopy) /\ UNCHANGED deskSigned
    BY <1>8 DEF RecordsSubmission
  <2>2. \A call : IsSent(call, "submit", NoCopy) => CarriesForm(call)
    BY DEF IsSent, CarriesForm
  <2> QED
    BY <1>2, <1>3, <1>5, <1>8, <2>1, <2>2, SendKeepsInv DEF DeskKinds, PacketKinds, OfPacket
<1> QED  BY <1>4, <1>6, <1>7, <1>8

LEMMA EditKeepsInv ==
  ASSUME DeskIInv, NEW resume \in DeskResume, NEW reviewed \in BOOLEAN,
         EditsPacket(resume, reviewed)
  PROVE  DeskIInv'
<1>1. /\ deskPacket.status = "ready"
      /\ deskPacket' = [deskPacket EXCEPT !.resume = resume, !.reviewed = reviewed, !.dirty = TRUE]
      /\ UNCHANGED <<deskRow, deskItem, deskDetail, deskCall, deskRaced, deskLost, deskLetGo, deskSigned>>
  BY DEF EditsPacket
<1>2. /\ deskPacket' \in DeskPages /\ deskPacket'.status = "ready"
      /\ deskPacket'.dirty /\ deskPacket'.busy = deskPacket.busy
  BY <1>1 DEF DeskIInv, DeskTypeOK, DeskPages
<1>3. DeskTypeOK'
  <2>1. \A c \in DeskCall : IsDeskCall(deskCall[c])'
    BY <1>1 DEF DeskIInv, DeskTypeOK, IsDeskCall, DeskCalls, DeskForms, CarriesForm,
           NoDeskCall, DeskRows
  <2> QED  BY <1>1, <1>2, <2>1 DEF DeskIInv, DeskTypeOK, DeskRows, DeskCopy, DeskPages
<1>4. CopiesInv'
  BY <1>1 DEF DeskIInv, CopiesInv, CallKeepsCopies, Stored, ApplicationOf
<1>5. PacketInv'
  <2> SUFFICES ASSUME Careful' PROVE PacketInv'  BY DEF PacketInv
  <2>1. Careful  BY <1>1 DEF Careful
  <2>2. \A c \in DeskCall : CallKeepsPacket(deskCall[c])'
    BY <1>1, <1>2, <2>1 DEF DeskIInv, PacketInv, CallKeepsPacket, SamePacket, IsShown, WritesPacket
  <2> QED  BY <1>1, <1>2, <2>1, <2>2 DEF DeskIInv, PacketInv, IsShown, WritesPacket
<1> QED  BY <1>3, <1>4, <1>5 DEF DeskIInv

-------------------------------------------------------------------------------
\* A step of PlanSurvivesMove.
PlanKept ==
  ~deskRaced /\ ~deskLost /\ deskRow'.status # deskRow.status =>
    deskRow'.status \in {"ready_to_apply", "applied"} \/ deskRow'.plan = deskRow.plan

\* What the service does with a request of each kind.
LEMMA OutcomeOfKind ==
  ASSUME DeskTypeOK, NEW call, IsDeskCall(call), NEW row \in Outcome(call)
  PROVE  /\ row \in DeskRows
         /\ call.kind = "move" => row.plan = call.form.plan /\ SamePacket(row, deskRow)
         /\ call.kind = "plan" => row.status = deskRow.status /\ SamePacket(row, deskRow)
         /\ call.kind = "review" =>
              /\ row.status = deskRow.status /\ row.plan = deskRow.plan
              /\ ~deskRow.ready /\ ~row.ready
         /\ call.kind = "ready" =>
              /\ row.status = deskRow.status \/ row.status = "ready_to_apply"
              /\ row.resume = deskRow.resume /\ row.reviewed /\ deskRow.reviewed
         /\ call.kind = "submit" => row.status = "applied" /\ SamePacket(row, deskRow)
         /\ call.kind \in {"list", "detail", "open", "refresh"} => row = deskRow
<1>1. deskRow \in DeskRows  BY DEF DeskTypeOK
<1>2. /\ "ready_to_apply" \in DeskStatus /\ "applied" \in DeskStatus
      /\ \A s \in DeskStatus : NextStatuses[s] \subseteq DeskStatus
  BY DEF DeskStatus, NextStatuses
<1>3. CASE call.kind = "move"
  <2>1. call.form \in [to : DeskStatus, plan : DeskPlan]
    BY <1>3 DEF IsDeskCall, CarriesForm
  <2>2. row = [deskRow EXCEPT !.status = call.form.to, !.plan = call.form.plan]
    BY <1>3 DEF Outcome, Transitions
  <2> QED  BY <1>1, <1>3, <2>1, <2>2 DEF DeskRows, SamePacket
<1>4. CASE call.kind = "plan"
  <2>1. call.form \in [plan : DeskPlan]  BY <1>4 DEF IsDeskCall, CarriesForm
  <2>2. row = [deskRow EXCEPT !.plan = call.form.plan]  BY <1>4 DEF Outcome, Plans
  <2> QED  BY <1>1, <1>4, <2>1, <2>2 DEF DeskRows, SamePacket
<1>5. CASE call.kind = "review"
  <2>1. call.form \in [resume : DeskResume, reviewed : BOOLEAN]
    BY <1>5 DEF IsDeskCall, CarriesForm
  <2>2. /\ row = [deskRow EXCEPT !.resume = call.form.resume, !.reviewed = call.form.reviewed]
        /\ ~row.ready
    BY <1>5 DEF Outcome, UpdatesPacket
  <2> QED  BY <1>1, <1>5, <2>1, <2>2 DEF DeskRows
<1>6. CASE call.kind = "ready"
  <2>1. /\ row = IF deskRow.status = "preparing" THEN Readied(deskRow)
                 ELSE [deskRow EXCEPT !.ready = TRUE]
        /\ deskRow.reviewed
    BY <1>6 DEF Outcome, MarksReady
  <2>2. PICK plan : plan = [deskRow.plan EXCEPT !.action = OnEmployerSite]  OBVIOUS
  <2>3. Readied(deskRow) = [deskRow EXCEPT !.ready = TRUE, !.status = "ready_to_apply",
                                           !.plan = plan]
    BY <2>2 DEF Readied
  <2>4. plan \in DeskPlan
    BY <1>1, <2>2 DEF DeskRows, DeskPlan, DeskAction
  <2>5. CASE deskRow.status = "preparing"
    <3>1. row = [deskRow EXCEPT !.ready = TRUE, !.status = "ready_to_apply", !.plan = plan]
      BY <2>1, <2>3, <2>5
    <3> QED  BY <1>1, <1>2, <1>6, <2>1, <2>4, <3>1 DEF DeskRows
  <2>6. CASE deskRow.status # "preparing"
    <3>1. row = [deskRow EXCEPT !.ready = TRUE]  BY <2>1, <2>6
    <3> QED  BY <1>1, <1>6, <2>1, <3>1 DEF DeskRows
  <2> QED  BY <2>5, <2>6
<1>7. CASE call.kind = "submit"
  <2>1. PICK plan : plan = [action |-> EmployerResponse, due |-> NoDue]  OBVIOUS
  <2>2. row = [deskRow EXCEPT !.status = "applied", !.plan = plan]
    BY <1>7, <2>1 DEF Outcome, ConfirmsSubmitted
  <2>3. plan \in DeskPlan  BY <2>1, DeskCopies DEF DeskPlan, DeskAction
  <2> QED  BY <1>1, <1>2, <1>7, <2>2, <2>3 DEF DeskRows, SamePacket
<1>8. CASE call.kind \notin {"move", "plan", "review", "ready", "submit"}
  <2>1. row = deskRow  BY <1>8 DEF Outcome, ReadsApplications
  <2> QED  BY <1>1, <1>8, <2>1
<1> QED  BY <1>3, <1>4, <1>5, <1>6, <1>7, <1>8

LEMMA AnswerKeepsInv ==
  ASSUME DeskIInv, NEW c \in DeskCall, deskCall[c].step = "sent",
         deskRow' \in Outcome(deskCall[c]),
         deskCall' = [deskCall EXCEPT ![c] =
           IF @.page THEN [@ EXCEPT !.step = "answered", !.answer = deskRow'] ELSE NoDeskCall],
         UNCHANGED <<deskItem, deskDetail, deskPacket, deskRaced, deskLost, deskLetGo, deskSigned>>
  PROVE  /\ DeskIInv'
         /\ PlanKept
<1> DEFINE call == deskCall[c]
<1>1. IsDeskCall(call) /\ call.kind \in DeskKinds \ {"none"}
  BY FreeSlot DEF DeskIInv, DeskTypeOK, IsDeskCall, DeskCalls
<1>2. /\ deskRow' \in DeskRows
      /\ call.kind = "move" => deskRow'.plan = call.form.plan /\ SamePacket(deskRow', deskRow)
      /\ call.kind = "plan" => deskRow'.status = deskRow.status /\ SamePacket(deskRow', deskRow)
      /\ call.kind = "review" =>
           /\ deskRow'.status = deskRow.status /\ deskRow'.plan = deskRow.plan
           /\ ~deskRow.ready /\ ~deskRow'.ready
      /\ call.kind = "ready" =>
           /\ deskRow'.status = deskRow.status \/ deskRow'.status = "ready_to_apply"
           /\ deskRow'.resume = deskRow.resume /\ deskRow'.reviewed /\ deskRow.reviewed
      /\ call.kind = "submit" => deskRow'.status = "applied" /\ SamePacket(deskRow', deskRow)
      /\ call.kind \in {"list", "detail", "open", "refresh"} => deskRow' = deskRow
  <2> HIDE DEF call
  <2> QED  BY <1>1, OutcomeOfKind DEF DeskIInv, call
<1>3. PICK answered : answered = [call EXCEPT !.step = "answered", !.answer = deskRow']
  OBVIOUS
<1>4. PICK new : new = IF call.page THEN answered ELSE NoDeskCall  OBVIOUS
<1>5. deskCall' = [deskCall EXCEPT ![c] = new]  BY <1>3, <1>4
<1>6. /\ answered.kind = call.kind /\ answered.page = call.page /\ answered.shown = call.shown
      /\ answered.form = call.form /\ answered.step = "answered" /\ answered.answer = deskRow'
  BY <1>1, <1>3 DEF IsDeskCall, DeskCalls
<1>7. answered \in DeskCalls
  BY <1>1, <1>2, <1>3 DEF IsDeskCall, DeskCalls, DeskSteps
<1>8. IsDeskCall(answered)
  BY <1>1, <1>2, <1>6, <1>7 DEF IsDeskCall, CarriesForm
<1>9. DeskTypeOK' /\ deskCall'[c] = new /\ \A d \in DeskCall \ {c} : deskCall'[d] = deskCall[d]
  <2>1. IsDeskCall(new)  BY <1>4, <1>8, FreeSlot
  <2> QED  BY <1>2, <1>5, <2>1, SlotKeepsTypes DEF DeskIInv, DeskTypeOK
<1>10. ~deskRaced /\ ~deskLost => Careful  BY DEF Careful
<1>11. Careful => new = answered
  BY <1>1, <1>4 DEF DeskIInv, PacketInv, CallKeepsPacket
<1>12. PlanKept
  BY <1>1, <1>2 DEF DeskIInv, CopiesInv, CallKeepsCopies, DeskKinds, PacketKinds, PlanKept
<1>13. CopiesInv'
  <2> SUFFICES ASSUME ~deskRaced, ~deskLost PROVE CopiesInv'  BY DEF CopiesInv
  <2>1. \A d \in DeskCall \ {c} : deskCall[d].kind = "none"
    BY <1>1 DEF DeskIInv, CopiesInv
  <2>2. \A d \in DeskCall \ {c} : deskCall'[d].kind = "none" /\ deskCall'[d].step = "free"
    BY <1>9, <2>1, FreeSlot DEF DeskIInv, DeskTypeOK, IsDeskCall
  <2>3. CallKeepsCopies(call)  BY DEF DeskIInv, CopiesInv
  <2>4. call.kind \in {"list", "detail", "open", "review"} =>
          ApplicationOf(deskRow') = ApplicationOf(deskRow)
    BY <1>2 DEF ApplicationOf
  <2>5. call.kind \in {"list", "detail", "open", "review"} =>
          Stored(deskItem)' /\ Stored(deskDetail)'
    BY <1>1, <2>3, <2>4 DEF CallKeepsCopies, Stored
  <2>6. CallKeepsCopies(deskCall[c])'
    BY <1>6, <1>9, <1>10, <1>11, <2>3, <2>5 DEF CallKeepsCopies
  <2>7. \A d \in DeskCall : CallKeepsCopies(deskCall[d])'
    BY <2>2, <2>6 DEF CallKeepsCopies
  <2>8. deskCall'[c].kind # "none"  BY <1>1, <1>6, <1>9, <1>10, <1>11
  <2> QED  BY <2>2, <2>7, <2>8 DEF CopiesInv
<1>14. PacketInv'
  <2> SUFFICES ASSUME Careful' PROVE PacketInv'  BY DEF PacketInv
  <2>1. Careful  BY DEF Careful
  <2>2. deskCall'[c] = answered  BY <1>9, <1>11, <2>1
  <2>3. /\ \A d, e \in DeskCall : IsShown(deskCall'[d]) /\ IsShown(deskCall'[e]) => d = e
        /\ \A d, e \in DeskCall : WritesPacket(deskCall'[d]) /\ WritesPacket(deskCall'[e]) => d = e
    BY <1>6, <1>9, <2>1, <2>2 DEF DeskIInv, PacketInv, IsShown, WritesPacket
  <2>4. ~WritesPacket(call) => SamePacket(deskRow', deskRow)
    BY <1>1, <1>2 DEF DeskKinds, PacketKinds, SamePacket, WritesPacket
  <2>5. CallKeepsPacket(call)  BY <2>1 DEF DeskIInv, PacketInv
  <2>6. ASSUME NEW d \in DeskCall PROVE CallKeepsPacket(deskCall[d])'
    <3>1. CASE d = c
      BY <1>6, <2>2, <2>5, <3>1 DEF CallKeepsPacket, SamePacket, IsShown, WritesPacket
    <3>2. CASE d # c
      <4>1. CallKeepsPacket(deskCall[d]) /\ deskCall'[d] = deskCall[d]
        BY <1>9, <2>1, <3>2 DEF DeskIInv, PacketInv
      <4>2. CASE WritesPacket(call)
        <5>1. ~WritesPacket(deskCall[d])
          BY <2>1, <3>2, <4>2 DEF DeskIInv, PacketInv
        <5>2. ~IsShown(deskCall[d])
          <6>1. CASE call.shown
            BY <2>1, <3>2, <4>2, <6>1 DEF DeskIInv, PacketInv, IsShown, WritesPacket, PacketKinds
          <6>2. CASE ~call.shown
            BY <2>5, <4>1, <4>2, <6>2 DEF CallKeepsPacket
          <6> QED  BY <6>1, <6>2
        <5> QED  BY <4>1, <5>1, <5>2 DEF CallKeepsPacket, WritesPacket
      <4>3. CASE ~WritesPacket(call)
        <5>1. SamePacket(deskRow', deskRow)  BY <2>4, <4>3
        <5> QED  BY <4>1, <5>1 DEF CallKeepsPacket, SamePacket
      <4> QED  BY <4>2, <4>3
    <3> QED  BY <3>1, <3>2
  <2>7. (/\ deskPacket'.status = "ready" /\ ~deskPacket'.dirty
         /\ \A d \in DeskCall : ~(deskCall'[d].kind = "ready" /\ deskCall'[d].step = "answered"))
          => SamePacket(deskPacket', deskRow')
    <3> SUFFICES ASSUME deskPacket.status = "ready", ~deskPacket.dirty,
                        \A d \in DeskCall :
                          ~(deskCall'[d].kind = "ready" /\ deskCall'[d].step = "answered")
                 PROVE  SamePacket(deskPacket, deskRow')
      OBVIOUS
    <3>1. call.kind # "ready"  BY <1>6, <2>2
    <3>2. call.kind # "review"
      BY <2>5 DEF CallKeepsPacket, IsShown, WritesPacket, PacketKinds
    <3>3. \A d \in DeskCall : ~(deskCall[d].kind = "ready" /\ deskCall[d].step = "answered")
      BY <1>9
    <3>4. SamePacket(deskPacket, deskRow)  BY <2>1, <3>3 DEF DeskIInv, PacketInv
    <3>5. SamePacket(deskRow', deskRow)
      BY <2>4, <3>1, <3>2 DEF WritesPacket
    <3> QED  BY <3>4, <3>5 DEF SamePacket
  <2>8. deskRow'.ready =>
          deskSigned' = [resume |-> deskRow'.resume, reviewed |-> TRUE] /\ deskRow'.reviewed
    <3>1. CASE call.kind = "ready"
      <4>1. deskSigned = [resume |-> deskRow.resume, reviewed |-> deskRow.reviewed]
        BY <2>5, <3>1 DEF CallKeepsPacket
      <4>2. deskRow.reviewed = TRUE  BY <1>2, <3>1 DEF DeskIInv, DeskTypeOK, DeskRows
      <4> QED  BY <1>2, <3>1, <4>1, <4>2
    <3>2. CASE call.kind = "review"  BY <1>2, <3>2
    <3>3. CASE call.kind \notin {"ready", "review"}
      <4>1. SamePacket(deskRow', deskRow)  BY <2>4, <3>3 DEF WritesPacket
      <4> QED  BY <2>1, <4>1 DEF DeskIInv, PacketInv, SamePacket
    <3> QED  BY <3>1, <3>2, <3>3
  <2> QED  BY <2>3, <2>6, <2>7, <2>8 DEF PacketInv
<1> QED  BY <1>9, <1>12, <1>13, <1>14 DEF DeskIInv

\* A request that ends in slot c, or is refused there, leaves a slot that says
\* nothing more of the copies or of the packet.
LEMMA RefusalKeepsInv ==
  ASSUME DeskIInv, NEW c \in DeskCall, deskCall[c].step = "sent", Outcome(deskCall[c]) = {},
         deskCall' = [deskCall EXCEPT ![c] =
           IF @.page THEN [@ EXCEPT !.step = "refused"] ELSE NoDeskCall],
         UNCHANGED <<deskRow, deskItem, deskDetail, deskPacket, deskRaced, deskLost, deskLetGo, deskSigned>>
  PROVE  DeskIInv'
<1> DEFINE call == deskCall[c]
<1>1. IsDeskCall(call) /\ call.kind \in DeskKinds \ {"none", "refresh"}
  <2>1. IsDeskCall(call) /\ call.kind \in DeskKinds \ {"none"}
    BY FreeSlot DEF DeskIInv, DeskTypeOK, IsDeskCall, DeskCalls
  <2>2. call.kind # "refresh"  BY DEF Outcome, ReadsApplications
  <2> QED  BY <2>1, <2>2
<1>2. PICK refused : refused = [call EXCEPT !.step = "refused"]  OBVIOUS
<1>3. PICK new : new = IF call.page THEN refused ELSE NoDeskCall  OBVIOUS
<1>4. deskCall' = [deskCall EXCEPT ![c] = new]  BY <1>2, <1>3
<1>5. /\ refused.kind = call.kind /\ refused.page = call.page /\ refused.shown = call.shown
      /\ refused.form = call.form /\ refused.step = "refused"
  BY <1>1, <1>2 DEF IsDeskCall, DeskCalls
<1>6. refused \in DeskCalls  BY <1>1, <1>2 DEF IsDeskCall, DeskCalls, DeskSteps
<1>7. IsDeskCall(refused)  BY <1>1, <1>5, <1>6 DEF IsDeskCall, CarriesForm
<1>8. DeskTypeOK' /\ deskCall'[c] = new /\ \A d \in DeskCall \ {c} : deskCall'[d] = deskCall[d]
  <2>1. IsDeskCall(new)  BY <1>3, <1>7, FreeSlot
  <2> QED  BY <1>4, <2>1, SlotKeepsTypes DEF DeskIInv, DeskTypeOK
<1>9. ~deskRaced /\ ~deskLost => Careful  BY DEF Careful
<1>10. Careful => deskCall'[c] = refused
  BY <1>1, <1>3, <1>8 DEF DeskIInv, PacketInv, CallKeepsPacket
<1>11. CopiesInv'
  <2> SUFFICES ASSUME ~deskRaced, ~deskLost PROVE CopiesInv'  BY DEF CopiesInv
  <2>1. \A d \in DeskCall \ {c} : deskCall[d].kind = "none"
    BY <1>1 DEF DeskIInv, CopiesInv
  <2>2. \A d \in DeskCall \ {c} : deskCall'[d].kind = "none" /\ deskCall'[d].step = "free"
    BY <1>8, <2>1, FreeSlot DEF DeskIInv, DeskTypeOK, IsDeskCall
  <2>3. CallKeepsCopies(call)  BY DEF DeskIInv, CopiesInv
  <2>4. CallKeepsCopies(deskCall[c])'
    BY <1>1, <1>5, <1>9, <1>10, <2>3 DEF CallKeepsCopies, Stored, ApplicationOf
  <2>5. \A d \in DeskCall : CallKeepsCopies(deskCall[d])'
    BY <2>2, <2>4 DEF CallKeepsCopies
  <2>6. deskCall'[c].kind # "none"  BY <1>1, <1>5, <1>9, <1>10
  <2> QED  BY <2>2, <2>5, <2>6 DEF CopiesInv
<1>12. PacketInv'
  <2> SUFFICES ASSUME Careful' PROVE PacketInv'  BY DEF PacketInv
  <2>1. Careful  BY DEF Careful
  <2>2. /\ \A d, e \in DeskCall : IsShown(deskCall'[d]) /\ IsShown(deskCall'[e]) => d = e
        /\ \A d, e \in DeskCall : WritesPacket(deskCall'[d]) /\ WritesPacket(deskCall'[e]) => d = e
    BY <1>5, <1>8, <1>10, <2>1 DEF DeskIInv, PacketInv, IsShown, WritesPacket
  <2>3. ASSUME NEW d \in DeskCall PROVE CallKeepsPacket(deskCall[d])'
    <3>1. CallKeepsPacket(deskCall[d])  BY <2>1 DEF DeskIInv, PacketInv
    <3>2. CASE d = c
      BY <1>5, <1>10, <2>1, <3>1, <3>2 DEF CallKeepsPacket, IsShown, WritesPacket
    <3>3. CASE d # c
      BY <1>8, <3>1, <3>3 DEF CallKeepsPacket, SamePacket
    <3> QED  BY <3>2, <3>3
  <2>4. \A d \in DeskCall :
          deskCall[d].kind = "ready" /\ deskCall[d].step = "answered" => deskCall'[d] = deskCall[d]
    BY <1>8
  <2>5. (/\ deskPacket.status = "ready" /\ ~deskPacket.dirty
         /\ \A d \in DeskCall : ~(deskCall'[d].kind = "ready" /\ deskCall'[d].step = "answered"))
          => SamePacket(deskPacket, deskRow)
    BY <2>1, <2>4 DEF DeskIInv, PacketInv
  <2> QED  BY <2>1, <2>2, <2>3, <2>5 DEF DeskIInv, PacketInv, SamePacket
<1> QED  BY <1>8, <1>11, <1>12 DEF DeskIInv

LEMMA ServiceKeepsInv ==
  ASSUME DeskIInv, NEW c \in DeskCall, ServiceAnswers(c)
  PROVE  /\ DeskIInv'
         /\ PlanKept
<1>1. /\ deskCall[c].step = "sent"
      /\ UNCHANGED <<deskItem, deskDetail, deskPacket, deskRaced, deskLost, deskLetGo, deskSigned>>
  BY DEF ServiceAnswers
<1>2. CASE /\ deskRow' \in Outcome(deskCall[c])
           /\ deskCall' = [deskCall EXCEPT ![c] =
                IF @.page THEN [@ EXCEPT !.step = "answered", !.answer = deskRow'] ELSE NoDeskCall]
  BY <1>1, <1>2, AnswerKeepsInv
<1>3. CASE /\ Outcome(deskCall[c]) = {}
           /\ deskCall' = [deskCall EXCEPT ![c] =
                IF @.page THEN [@ EXCEPT !.step = "refused"] ELSE NoDeskCall]
           /\ UNCHANGED deskRow
  <2>1. DeskIInv'  BY <1>1, <1>3, RefusalKeepsInv
  <2>2. PlanKept  BY <1>3 DEF PlanKept
  <2> QED  BY <2>1, <2>2
<1> QED  BY <1>2, <1>3 DEF ServiceAnswers

-------------------------------------------------------------------------------
\* A slot is left; what is left to show of the copies and of the packet.
LEMMA SlotLeftKeepsInv ==
  ASSUME DeskIInv, NEW c \in DeskCall, deskCall[c].kind # "none",
         deskCall' = [deskCall EXCEPT ![c] = NoDeskCall],
         UNCHANGED <<deskRow, deskRaced, deskLetGo, deskSigned>>,
         deskItem' \in DeskCopy, deskDetail' \in DeskCopy, deskPacket' \in DeskPages,
         deskLost' \in BOOLEAN, deskLost => deskLost',
         ~deskRaced /\ ~deskLost' => Stored(deskItem)' /\ Stored(deskDetail)',
         ~IsShown(deskCall[c]) => UNCHANGED deskPacket,
         Careful' /\ deskPacket'.status = "ready" /\ ~deskPacket'.dirty
            /\ (\A d \in DeskCall \ {c} :
                  ~(deskCall[d].kind = "ready" /\ deskCall[d].step = "answered"))
           => SamePacket(deskPacket', deskRow)
  PROVE  DeskIInv'
<1>1. DeskTypeOK' /\ deskCall'[c] = NoDeskCall
        /\ \A d \in DeskCall \ {c} : deskCall'[d] = deskCall[d]
  BY FreeSlot, SlotKeepsTypes DEF DeskIInv, DeskTypeOK
<1>2. CopiesInv'
  <2> SUFFICES ASSUME ~deskRaced, ~deskLost' PROVE CopiesInv'  BY DEF CopiesInv
  <2>1. \A d \in DeskCall \ {c} : deskCall[d].kind = "none"
    BY DEF DeskIInv, CopiesInv
  <2>2. \A d \in DeskCall : deskCall'[d] = NoDeskCall
    BY <1>1, <2>1 DEF DeskTypeOK, IsDeskCall
  <2>3. \A d \in DeskCall : CallKeepsCopies(deskCall[d])'
    BY <2>2, FreeSlot DEF CallKeepsCopies
  <2> QED  BY <2>2, <2>3, FreeSlot DEF CopiesInv
<1>3. PacketInv'
  <2> SUFFICES ASSUME Careful' PROVE PacketInv'  BY DEF PacketInv
  <2>1. Careful  BY DEF Careful
  <2>2. /\ \A d, e \in DeskCall : IsShown(deskCall'[d]) /\ IsShown(deskCall'[e]) => d = e
        /\ \A d, e \in DeskCall : WritesPacket(deskCall'[d]) /\ WritesPacket(deskCall'[e]) => d = e
    BY <1>1, <2>1, FreeSlot DEF DeskIInv, PacketInv, IsShown, WritesPacket, PacketKinds
  <2>3. ASSUME NEW d \in DeskCall PROVE CallKeepsPacket(deskCall[d])'
    <3>1. CASE d = c
      BY <1>1, <3>1, FreeSlot DEF CallKeepsPacket, PacketKinds, IsShown, WritesPacket
    <3>2. CASE d # c
      <4>1. CallKeepsPacket(deskCall[d]) /\ deskCall'[d] = deskCall[d]
        BY <1>1, <2>1, <3>2 DEF DeskIInv, PacketInv
      <4>2. CASE IsShown(deskCall[c])
        <5>1. ~IsShown(deskCall[d])  BY <2>1, <3>2, <4>2 DEF DeskIInv, PacketInv
        <5>2. CallKeepsPacket(deskCall[c])  BY <2>1 DEF DeskIInv, PacketInv
        <5>3. WritesPacket(deskCall[d]) => deskCall[d].shown
          BY <4>1, <4>2, <5>2 DEF CallKeepsPacket
        <5>4. ~WritesPacket(deskCall[d])
          BY <5>1, <5>3 DEF WritesPacket, IsShown, PacketKinds
        <5> QED  BY <4>1, <5>1, <5>4 DEF CallKeepsPacket
      <4>3. CASE ~IsShown(deskCall[c])
        BY <4>1, <4>3 DEF CallKeepsPacket, SamePacket
      <4> QED  BY <4>2, <4>3
    <3> QED  BY <3>1, <3>2
  <2>4. (/\ deskPacket'.status = "ready" /\ ~deskPacket'.dirty
         /\ \A d \in DeskCall : ~(deskCall'[d].kind = "ready" /\ deskCall'[d].step = "answered"))
          => SamePacket(deskPacket', deskRow')
    BY <1>1
  <2>5. deskRow'.ready =>
          deskSigned' = [resume |-> deskRow'.resume, reviewed |-> TRUE] /\ deskRow'.reviewed
    BY <2>1 DEF DeskIInv, PacketInv
  <2> QED  BY <2>2, <2>3, <2>4, <2>5 DEF PacketInv
<1> QED  BY <1>1, <1>2, <1>3 DEF DeskIInv

\* The instance of the packet workspace goes, and slot c with it if it is given.
LEMMA GoingKeepsPacket ==
  ASSUME DeskIInv, NEW S \in SUBSET DeskCall,
         deskCall' = [d \in DeskCall |-> IF d \in S THEN NoDeskCall
                                         ELSE [deskCall[d] EXCEPT !.shown = FALSE]],
         deskPacket' = PageClosed, deskLetGo' = (deskLetGo \/ Abandons),
         \A d \in S : ~WritesPacket(deskCall[d]),
         deskItem' \in DeskCopy, deskDetail' \in DeskCopy,
         UNCHANGED <<deskRow, deskRaced, deskLost, deskSigned>>
  PROVE  /\ DeskTypeOK' /\ PacketInv'
         /\ \A d \in S : deskCall'[d] = NoDeskCall
         /\ \A d \in DeskCall \ S : CallKeepsCopies(deskCall[d]) /\ UNCHANGED <<deskItem, deskDetail>>
              => CallKeepsCopies(deskCall[d])'
         /\ \A d \in DeskCall \ S :
              deskCall'[d].kind = deskCall[d].kind /\ deskCall'[d].step = deskCall[d].step
<1>1. ASSUME NEW d \in DeskCall \ S
      PROVE  /\ IsDeskCall(deskCall'[d]) /\ deskCall'[d].shown = FALSE
             /\ deskCall'[d].kind = deskCall[d].kind /\ deskCall'[d].step = deskCall[d].step
             /\ deskCall'[d].page = deskCall[d].page /\ deskCall'[d].form = deskCall[d].form
             /\ deskCall'[d].answer = deskCall[d].answer
  <2>1. PICK old : old = deskCall[d]  OBVIOUS
  <2>2. IsDeskCall(old)  BY <2>1 DEF DeskIInv, DeskTypeOK
  <2>3. deskCall'[d] = [old EXCEPT !.shown = FALSE]  BY <2>1
  <2>4. PICK new : new = [old EXCEPT !.shown = FALSE]  OBVIOUS
  <2>5. /\ new \in DeskCalls /\ new.shown = FALSE /\ new.kind = old.kind /\ new.step = old.step
        /\ new.page = old.page /\ new.form = old.form /\ new.answer = old.answer
    BY <2>2, <2>4 DEF IsDeskCall, DeskCalls
  <2>6. old = NoDeskCall => new = NoDeskCall
    <3>1. /\ NoDeskCall \in DeskCalls /\ NoDeskCall.shown = FALSE
      BY FreeSlot DEF IsDeskCall, NoDeskCall
    <3> QED  BY <2>5, <3>1 DEF DeskCalls
  <2>7. IsDeskCall(new)  BY <2>2, <2>5, <2>6 DEF IsDeskCall, CarriesForm
  <2> QED  BY <2>1, <2>3, <2>4, <2>5, <2>7
<1>2. \A d \in S : deskCall'[d] = NoDeskCall  OBVIOUS
<1>3. \A d \in DeskCall : IsDeskCall(deskCall'[d])  BY <1>1, <1>2, FreeSlot
<1>4. PageClosed \in DeskPages /\ PageClosed.status = "idle"
  BY DeskCopies DEF PageClosed, DeskPages
<1>5. DeskTypeOK'
  <2>1. \A d \in DeskCall : IsDeskCall(deskCall[d])'
    BY <1>3 DEF IsDeskCall, DeskCalls, DeskForms, CarriesForm, NoDeskCall, DeskRows
  <2>2. deskCall' = [d \in DeskCall |-> deskCall'[d]]  OBVIOUS
  <2>3. deskLetGo' \in BOOLEAN  BY DEF DeskIInv, DeskTypeOK, Abandons
  <2> QED  BY <1>4, <2>1, <2>2, <2>3 DEF DeskIInv, DeskTypeOK, DeskRows, DeskCopy, DeskPages
<1>6. ASSUME NEW d \in DeskCall \ S, CallKeepsCopies(deskCall[d]), UNCHANGED <<deskItem, deskDetail>>
      PROVE  CallKeepsCopies(deskCall[d])'
  BY <1>1, <1>6 DEF CallKeepsCopies, Stored, ApplicationOf
<1>7. PacketInv'
  <2> SUFFICES ASSUME Careful' PROVE PacketInv'  BY DEF PacketInv
  <2>1. Careful  BY DEF Careful
  <2>2. \A d \in DeskCall : ~IsShown(deskCall'[d])
    BY <1>1, <1>2, FreeSlot DEF IsShown, PacketKinds
  <2>3. \A d \in DeskCall : WritesPacket(deskCall'[d]) => WritesPacket(deskCall[d]) /\ d \notin S
    BY <1>1, <1>2, FreeSlot DEF WritesPacket
  <2>4. \A d, e \in DeskCall : WritesPacket(deskCall'[d]) /\ WritesPacket(deskCall'[e]) => d = e
    BY <2>1, <2>3 DEF DeskIInv, PacketInv
  <2>5. ASSUME NEW d \in DeskCall PROVE CallKeepsPacket(deskCall[d])'
    <3>1. CASE d \in S
      BY <1>2, <3>1, FreeSlot DEF CallKeepsPacket, IsShown, WritesPacket, PacketKinds
    <3>2. CASE d \notin S
      <4>1. CallKeepsPacket(deskCall[d])  BY <2>1 DEF DeskIInv, PacketInv
      <4>2. WritesPacket(deskCall[d]) => deskLetGo'
        BY <4>1 DEF CallKeepsPacket, WritesPacket, Abandons
      <4>3. WritesPacket(deskCall'[d]) => deskLetGo'  BY <2>3, <4>2
      <4>4. ~IsShown(deskCall'[d])  BY <2>2
      <4>5. /\ deskCall'[d].kind = deskCall[d].kind /\ deskCall'[d].step = deskCall[d].step
            /\ deskCall'[d].page = deskCall[d].page
        BY <1>1, <3>2
      <4> QED  BY <1>4, <4>1, <4>3, <4>4, <4>5 DEF CallKeepsPacket
    <3> QED  BY <3>1, <3>2
  <2> QED  BY <1>4, <2>1, <2>2, <2>4, <2>5 DEF DeskIInv, PacketInv
<1> QED  BY <1>1, <1>2, <1>5, <1>6, <1>7

LEMMA ClosingKeepsInv ==
  ASSUME DeskIInv, ClosesCard
  PROVE  DeskIInv'
<1>1. /\ deskPacket' = PageClosed /\ deskLetGo' = (deskLetGo \/ Abandons)
      /\ deskCall' = LetsGo(deskCall)
      /\ UNCHANGED <<deskRow, deskItem, deskDetail, deskRaced, deskLost, deskSigned>>
  BY DEF ClosesCard
<1>2. deskCall' = [d \in DeskCall |-> IF d \in {} THEN NoDeskCall
                                      ELSE [deskCall[d] EXCEPT !.shown = FALSE]]
  BY <1>1 DEF LetsGo
<1>3. deskItem' \in DeskCopy /\ deskDetail' \in DeskCopy  BY <1>1 DEF DeskIInv, DeskTypeOK
<1>4. /\ DeskTypeOK' /\ PacketInv'
      /\ \A d \in DeskCall : CallKeepsCopies(deskCall[d]) => CallKeepsCopies(deskCall[d])'
      /\ \A d \in DeskCall : deskCall'[d].kind = deskCall[d].kind
  <2>1. PICK S \in SUBSET DeskCall : S = {}  OBVIOUS
  <2>2. deskCall' = [d \in DeskCall |-> IF d \in S THEN NoDeskCall
                                        ELSE [deskCall[d] EXCEPT !.shown = FALSE]]
    BY <1>2, <2>1
  <2>3. /\ DeskTypeOK' /\ PacketInv'
        /\ \A d \in DeskCall \ S : CallKeepsCopies(deskCall[d]) /\ UNCHANGED <<deskItem, deskDetail>>
              => CallKeepsCopies(deskCall[d])'
        /\ \A d \in DeskCall \ S : deskCall'[d].kind = deskCall[d].kind
    BY <1>1, <1>3, <2>1, <2>2, GoingKeepsPacket
  <2> QED  BY <1>1, <2>1, <2>3
<1>5. Stored(deskItem)' = Stored(deskItem) /\ Stored(deskDetail)' = Stored(deskDetail)
  BY <1>1 DEF Stored, ApplicationOf
<1>6. CopiesInv'  BY <1>1, <1>4, <1>5 DEF DeskIInv, CopiesInv
<1> QED  BY <1>4, <1>6 DEF DeskIInv

LEMMA ReceivesApplicationKeepsInv ==
  ASSUME DeskIInv, NEW c \in DeskCall, ReceivesApplication(c)
  PROVE  DeskIInv'
<1> DEFINE call == deskCall[c]
           moves == deskItem # NoCopy /\ PacketPlace[deskItem'.status] # PacketPlace[deskItem.status]
<1>1. /\ call.step = "answered" /\ call.kind \in {"list", "detail", "move", "plan", "refresh"}
      /\ UNCHANGED <<deskRow, deskRaced, deskLost, deskSigned>>
  BY DEF ReceivesApplication
<1>2. call.answer \in DeskRows  BY <1>1 DEF DeskIInv, DeskTypeOK, IsDeskCall
<1>3. ApplicationOf(call.answer) \in DeskCopy
  <2> HIDE DEF call
  <2> QED  BY <1>2 DEF ApplicationOf, DeskRows, DeskCopy
<1>4. /\ deskItem' = IF call.kind = "detail" THEN deskItem ELSE ApplicationOf(call.answer)
      /\ deskDetail' = IF call.kind = "list" THEN deskDetail ELSE ApplicationOf(call.answer)
  BY DEF ReceivesApplication
<1>5. deskItem' \in DeskCopy /\ deskDetail' \in DeskCopy
  BY <1>3, <1>4 DEF DeskIInv, DeskTypeOK
<1>6. ~deskRaced /\ ~deskLost => Stored(deskItem)' /\ Stored(deskDetail)'
  <2> SUFFICES ASSUME ~deskRaced, ~deskLost PROVE Stored(deskItem)' /\ Stored(deskDetail)'
    OBVIOUS
  <2>1. CallKeepsCopies(call)  BY DEF DeskIInv, CopiesInv
  <2>2. /\ ApplicationOf(call.answer) = ApplicationOf(deskRow)
        /\ call.kind = "list" => Stored(deskDetail)
        /\ call.kind = "detail" => Stored(deskItem)
    BY <1>1, <2>1 DEF CallKeepsCopies
  <2> HIDE DEF call
  <2> QED  BY <1>1, <1>4, <2>2 DEF Stored, ApplicationOf
<1>7. CASE ~moves
  <2>1. /\ deskPacket' = IF call.kind = "refresh" /\ call.shown
                         THEN [deskPacket EXCEPT !.busy = FALSE] ELSE deskPacket
        /\ deskCall' = [deskCall EXCEPT ![c] = NoDeskCall]
        /\ UNCHANGED deskLetGo
    BY <1>7 DEF ReceivesApplication, Redrawn
  <2>2. /\ deskPacket' \in DeskPages /\ SamePacket(deskPacket', deskPacket)
        /\ deskPacket'.status = deskPacket.status /\ deskPacket'.dirty = deskPacket.dirty
    <3>1. deskPacket \in DeskPages  BY DEF DeskIInv, DeskTypeOK
    <3> HIDE DEF call
    <3> QED  BY <2>1, <3>1 DEF DeskPages, SamePacket
  <2>3. ~IsShown(call) => UNCHANGED deskPacket
    BY <2>1 DEF PacketKinds, IsShown
  <2>4. Careful' => Careful  BY <1>1, <2>1 DEF Careful
  <2>5. Careful' /\ deskPacket'.status = "ready" /\ ~deskPacket'.dirty
          /\ (\A d \in DeskCall \ {c} :
                ~(deskCall[d].kind = "ready" /\ deskCall[d].step = "answered"))
          => SamePacket(deskPacket', deskRow)
    BY <1>1, <2>2, <2>4 DEF DeskIInv, PacketInv, SamePacket
  <2>6. deskLost' \in BOOLEAN  BY <1>1 DEF DeskIInv, DeskTypeOK
  <2>7. call.kind # "none"  BY <1>1
  <2> HIDE DEF moves
  <2> QED  BY <1>1, <1>5, <1>6, <2>1, <2>2, <2>3, <2>5, <2>6, <2>7, SlotLeftKeepsInv
<1>8. CASE moves
  <2>1. /\ deskPacket' = PageClosed /\ deskLetGo' = (deskLetGo \/ Abandons)
        /\ deskCall' = [LetsGo(deskCall) EXCEPT ![c] = NoDeskCall]
    BY <1>8 DEF ReceivesApplication, Redrawn
  <2>2. PICK S \in SUBSET DeskCall : S = {c}  OBVIOUS
  <2>3. deskCall' = [d \in DeskCall |-> IF d \in S THEN NoDeskCall
                                        ELSE [deskCall[d] EXCEPT !.shown = FALSE]]
    BY <2>1, <2>2 DEF LetsGo
  <2>4. \A d \in S : ~WritesPacket(deskCall[d])  BY <1>1, <2>2 DEF WritesPacket
  <2>5. /\ DeskTypeOK' /\ PacketInv'
        /\ \A d \in S : deskCall'[d] = NoDeskCall
        /\ \A d \in DeskCall \ S :
             deskCall'[d].kind = deskCall[d].kind /\ deskCall'[d].step = deskCall[d].step
    BY <1>1, <1>5, <2>1, <2>3, <2>4, GoingKeepsPacket
  <2>6. CopiesInv'
    <3> SUFFICES ASSUME ~deskRaced, ~deskLost PROVE CopiesInv'  BY <1>1 DEF CopiesInv
    <3>1. \A d \in DeskCall \ {c} : deskCall[d].kind = "none"
      BY <1>1 DEF DeskIInv, CopiesInv
    <3>2. \A d \in DeskCall \ {c} : deskCall[d].step = "free"
      BY <3>1, FreeSlot DEF DeskIInv, DeskTypeOK, IsDeskCall
    <3>3. \A d \in DeskCall : deskCall'[d].kind = "none" /\ deskCall'[d].step = "free"
      BY <2>2, <2>5, <3>1, <3>2, FreeSlot
    <3>4. \A d \in DeskCall : CallKeepsCopies(deskCall[d])'
      BY <3>3 DEF CallKeepsCopies
    <3> QED  BY <1>6, <3>3, <3>4 DEF CopiesInv
  <2> QED  BY <2>5, <2>6 DEF DeskIInv
<1> QED  BY <1>7, <1>8

LEMMA PacketOfRow ==
  ASSUME NEW row \in DeskRows
  PROVE  /\ PacketOf(row) \in DeskPages /\ SamePacket(PacketOf(row), row)
         /\ PacketOf(row).status = "ready" /\ PacketOf(row).dirty = FALSE
         /\ PacketOf(row).busy = FALSE
BY DeskCopies DEF DeskRows, PacketOf, PageClosed, DeskPages, SamePacket

LEMMA ReceivesPacketKeepsInv ==
  ASSUME DeskIInv, NEW c \in DeskCall, ReceivesPacket(c)
  PROVE  DeskIInv'
<1> DEFINE call == deskCall[c]
<1>1. /\ call.step = "answered" /\ call.kind \in {"open", "review", "ready", "submit"}
      /\ UNCHANGED <<deskRow, deskItem, deskDetail, deskRaced, deskLost, deskLetGo, deskSigned>>
      /\ deskPacket' = IF ~call.shown THEN deskPacket
                       ELSE IF call.kind \in {"open", "review"} THEN PacketOf(call.answer)
                       ELSE [PacketOf(call.answer) EXCEPT !.busy = TRUE]
  BY DEF ReceivesPacket, OfPacket
<1>2. call.answer \in DeskRows /\ call.shown \in BOOLEAN
  BY <1>1 DEF DeskIInv, DeskTypeOK, IsDeskCall, DeskCalls
<1>3. Careful /\ call.shown => SamePacket(call.answer, deskRow)
  BY <1>1 DEF DeskIInv, PacketInv, CallKeepsPacket, IsShown, PacketKinds, OfPacket
<1>4. PICK page : page = PacketOf(call.answer)  OBVIOUS
<1>5. /\ page \in DeskPages /\ page.status = "ready" /\ page.dirty = FALSE
      /\ SamePacket(page, call.answer)
  BY <1>2, <1>4, PacketOfRow
<1>6. deskItem \in DeskCopy /\ deskDetail \in DeskCopy /\ deskLost \in BOOLEAN
        /\ deskLetGo \in BOOLEAN /\ deskPacket \in DeskPages
  BY DEF DeskIInv, DeskTypeOK
<1>7. /\ deskPacket' \in DeskPages
      /\ call.shown =>
           /\ deskPacket'.status = "ready" /\ deskPacket'.dirty = FALSE
           /\ SamePacket(deskPacket', call.answer)
           /\ call.kind \in {"ready", "submit"} => deskPacket'.busy
  <2>1. deskPacket' = IF ~call.shown THEN deskPacket
                      ELSE IF call.kind \in {"open", "review"} THEN page
                      ELSE [page EXCEPT !.busy = TRUE]
    BY <1>1, <1>4
  <2> HIDE DEF call
  <2> QED  BY <1>1, <1>5, <1>6, <2>1 DEF DeskPages, SamePacket
<1>8. Careful' => Careful  BY <1>1 DEF Careful
<1>9. Careful /\ deskPacket'.status = "ready" /\ ~deskPacket'.dirty
         /\ (\A d \in DeskCall \ {c} :
               ~(deskCall[d].kind = "ready" /\ deskCall[d].step = "answered"))
         => SamePacket(deskPacket', deskRow)
  <2> SUFFICES ASSUME Careful, deskPacket'.status = "ready", ~deskPacket'.dirty,
                      \A d \in DeskCall \ {c} :
                        ~(deskCall[d].kind = "ready" /\ deskCall[d].step = "answered")
               PROVE  SamePacket(deskPacket', deskRow)
    OBVIOUS
  <2>1. CASE call.shown  BY <1>3, <1>7, <2>1 DEF SamePacket
  <2>2. CASE ~call.shown
    <3>1. deskPacket' = deskPacket  BY <1>1, <2>2
    <3>2. CallKeepsPacket(call)  BY DEF DeskIInv, PacketInv
    <3>3. call.kind # "ready"  BY <2>2, <3>1, <3>2 DEF CallKeepsPacket, WritesPacket
    <3>4. SamePacket(deskPacket, deskRow)  BY <3>1, <3>3 DEF DeskIInv, PacketInv
    <3> QED  BY <3>1, <3>4
  <2> QED  BY <2>1, <2>2
<1>10. CASE call.kind \in {"open", "review"}
  <2>1. ~deskRaced /\ ~deskLost => Stored(deskItem)' /\ Stored(deskDetail)'
    BY <1>1, <1>10 DEF DeskIInv, CopiesInv, CallKeepsCopies, Stored, ApplicationOf
  <2>2. deskCall' = [deskCall EXCEPT ![c] = NoDeskCall]
    BY <1>10 DEF ReceivesPacket
  <2>3. call.kind # "none"  BY <1>10
  <2>4. ~IsShown(call) => UNCHANGED deskPacket  BY <1>1 DEF IsShown, PacketKinds
  <2> QED
    BY <1>1, <1>6, <1>7, <1>8, <1>9, <2>1, <2>2, <2>3, <2>4, SlotLeftKeepsInv
<1>11. CASE call.kind \in {"ready", "submit"}
  <2>1. PICK new : new = [NoDeskCall EXCEPT !.kind = "refresh", !.step = "sent",
                                            !.page = TRUE, !.shown = call.shown]
    OBVIOUS
  <2>2. deskCall' = [deskCall EXCEPT ![c] = new]
    BY <1>11, <2>1 DEF ReceivesPacket
  <2>3. /\ new \in DeskCalls /\ new.kind = "refresh" /\ new.step = "sent" /\ new.page = TRUE
        /\ new.shown = call.shown
    <3> HIDE DEF call
    <3> QED  BY <1>2, <2>1 DEF NoDeskCall, DeskCalls, DeskKinds, PacketKinds, DeskSteps, DeskForms
  <2>4. IsDeskCall(new)  BY <2>3 DEF IsDeskCall, CarriesForm, PacketKinds
  <2>5. DeskTypeOK' /\ deskCall'[c] = new /\ \A d \in DeskCall \ {c} : deskCall'[d] = deskCall[d]
    <3>1. deskRow' \in DeskRows /\ deskRaced' \in BOOLEAN  BY <1>1 DEF DeskIInv, DeskTypeOK
    <3> QED  BY <1>1, <1>6, <1>7, <2>2, <2>4, <3>1, SlotKeepsTypes DEF DeskIInv
  <2>6. CopiesInv'
    <3> SUFFICES ASSUME ~deskRaced, ~deskLost PROVE CopiesInv'  BY <1>1 DEF CopiesInv
    <3>1. \A d \in DeskCall \ {c} : deskCall[d].kind = "none"
      BY <1>1 DEF DeskIInv, CopiesInv
    <3>2. \A d \in DeskCall \ {c} : deskCall'[d].kind = "none" /\ deskCall'[d].step = "free"
      BY <2>5, <3>1, FreeSlot DEF DeskIInv, DeskTypeOK, IsDeskCall
    <3>3. CallKeepsCopies(deskCall[c])'  BY <2>3, <2>5 DEF CallKeepsCopies
    <3>4. \A d \in DeskCall : CallKeepsCopies(deskCall[d])'
      BY <3>2, <3>3 DEF CallKeepsCopies
    <3> QED  BY <2>3, <2>5, <3>2, <3>4 DEF CopiesInv
  <2>7. PacketInv'
    <3> SUFFICES ASSUME Careful PROVE PacketInv'  BY <1>8 DEF PacketInv
    <3>1. IsShown(deskCall'[c]) => IsShown(call)
      BY <1>11, <2>3, <2>5 DEF IsShown, PacketKinds
    <3>2. ~WritesPacket(deskCall'[c])  BY <2>3, <2>5 DEF WritesPacket
    <3>3. /\ \A d, e \in DeskCall : IsShown(deskCall'[d]) /\ IsShown(deskCall'[e]) => d = e
          /\ \A d, e \in DeskCall : WritesPacket(deskCall'[d]) /\ WritesPacket(deskCall'[e]) => d = e
      BY <2>5, <3>1, <3>2 DEF DeskIInv, PacketInv
    <3>4. ASSUME NEW d \in DeskCall PROVE CallKeepsPacket(deskCall[d])'
      <4>1. CASE d = c
        BY <1>7, <1>11, <2>3, <2>5, <4>1 DEF CallKeepsPacket, IsShown, WritesPacket, OfPacket
      <4>2. CASE d # c
        <5>1. CallKeepsPacket(deskCall[d]) /\ deskCall'[d] = deskCall[d]
          BY <2>5, <4>2 DEF DeskIInv, PacketInv
        <5>2. CASE call.shown
          <6>1. IsShown(call)  BY <1>11, <5>2 DEF IsShown, PacketKinds
          <6>2. ~IsShown(deskCall[d])  BY <4>2, <6>1 DEF DeskIInv, PacketInv
          <6>3. deskPacket.status = "ready"
            <7>1. CallKeepsPacket(call)  BY DEF DeskIInv, PacketInv
            <7> QED  BY <1>11, <6>1, <7>1 DEF CallKeepsPacket
          <6>4. ~WritesPacket(deskCall[d])
            BY <5>1, <6>2, <6>3 DEF CallKeepsPacket, IsShown, WritesPacket, PacketKinds
          <6> QED  BY <5>1, <6>2, <6>4 DEF CallKeepsPacket, WritesPacket
        <5>3. CASE ~call.shown
          <6>1. deskPacket' = deskPacket  BY <1>1, <5>3
          <6> QED  BY <1>1, <5>1, <6>1 DEF CallKeepsPacket, SamePacket
        <5> QED  BY <5>2, <5>3
      <4> QED  BY <4>1, <4>2
    <3>5. (/\ deskPacket'.status = "ready" /\ ~deskPacket'.dirty
           /\ \A d \in DeskCall : ~(deskCall'[d].kind = "ready" /\ deskCall'[d].step = "answered"))
            => SamePacket(deskPacket', deskRow')
      BY <1>1, <1>9, <2>5
    <3>6. deskRow'.ready =>
            deskSigned' = [resume |-> deskRow'.resume, reviewed |-> TRUE] /\ deskRow'.reviewed
      BY <1>1 DEF DeskIInv, PacketInv
    <3> QED  BY <3>3, <3>4, <3>5, <3>6 DEF PacketInv
  <2> QED  BY <2>5, <2>6, <2>7 DEF DeskIInv
<1> QED  BY <1>1, <1>10, <1>11

LEMMA FailureKeepsInv ==
  ASSUME DeskIInv, NEW c \in DeskCall, DeskRequestFails(c)
  PROVE  DeskIInv'
<1> DEFINE call == deskCall[c]
<1>1. /\ call.page /\ deskLost' = (deskLost \/ call.step # "refused")
      /\ UNCHANGED <<deskRow, deskItem, deskDetail, deskRaced, deskLetGo, deskSigned>>
      /\ deskPacket' = IF ~call.shown THEN deskPacket
                       ELSE IF call.kind = "open" THEN [PageClosed EXCEPT !.status = "error"]
                       ELSE [deskPacket EXCEPT !.busy = FALSE]
      /\ deskCall' = [deskCall EXCEPT ![c] =
                        IF @.step = "sent" THEN [@ EXCEPT !.page = FALSE] ELSE NoDeskCall]
  BY DEF DeskRequestFails
<1>2. IsDeskCall(call)  BY DEF DeskIInv, DeskTypeOK
<1>3. call.kind # "none"  BY <1>1, <1>2 DEF IsDeskCall, NoDeskCall
<1>4. /\ deskRow' \in DeskRows /\ deskItem' \in DeskCopy /\ deskDetail' \in DeskCopy
      /\ deskRaced' \in BOOLEAN /\ deskLost' \in BOOLEAN /\ deskLetGo' \in BOOLEAN
      /\ deskPacket \in DeskPages
  BY <1>1 DEF DeskIInv, DeskTypeOK
<1>5. /\ deskPacket' \in DeskPages
      /\ ~(call.kind = "open" /\ call.shown) =>
           /\ deskPacket'.status = deskPacket.status /\ deskPacket'.dirty = deskPacket.dirty
           /\ SamePacket(deskPacket', deskPacket)
      /\ call.kind = "open" /\ call.shown => deskPacket'.status = "error"
  <2>1. CASE call.kind = "open" /\ call.shown
    BY <1>1, <2>1, DeskCopies DEF PageClosed, DeskPages
  <2>2. CASE call.kind # "open" /\ call.shown
    <3> HIDE DEF call
    <3> QED  BY ZenonT(60), <1>1, <1>4, <2>2 DEF DeskPages, SamePacket
  <2>3. CASE ~call.shown
    <3> HIDE DEF call
    <3> QED  BY <1>1, <1>4, <2>3 DEF SamePacket
  <2> QED  BY <2>1, <2>2, <2>3
<1>6. CASE call.step = "sent"
  <2>1. PICK new : new = [call EXCEPT !.page = FALSE]  OBVIOUS
  <2>2. deskCall' = [deskCall EXCEPT ![c] = new]  BY <1>1, <1>6, <2>1
  <2>3. new \in DeskCalls /\ new.kind = call.kind /\ new.step = "sent" /\ new.form = call.form
          /\ new.shown = call.shown
    <3> HIDE DEF call
    <3> QED  BY <1>2, <1>6, <2>1 DEF IsDeskCall, DeskCalls
  <2>4. IsDeskCall(new)  BY <1>2, <1>3, <2>3 DEF IsDeskCall, CarriesForm
  <2>5. DeskTypeOK'  BY <1>4, <1>5, <2>2, <2>4, SlotKeepsTypes DEF DeskIInv
  <2>6. deskLost'  BY <1>1, <1>6
  <2> QED  BY <2>5, <2>6 DEF DeskIInv, CopiesInv, PacketInv, Careful
<1>7. CASE call.step # "sent"
  <2>1. deskCall' = [deskCall EXCEPT ![c] = NoDeskCall]  BY <1>1, <1>7
  <2>2. ~deskRaced /\ ~deskLost' => Stored(deskItem)' /\ Stored(deskDetail)'
    BY <1>1, <1>3 DEF DeskIInv, CopiesInv, CallKeepsCopies, Stored, ApplicationOf
  <2>3. ~IsShown(call) => UNCHANGED deskPacket
    BY <1>1, <1>2 DEF IsDeskCall, IsShown
  <2>4. Careful' /\ deskPacket'.status = "ready" /\ ~deskPacket'.dirty
          /\ (\A d \in DeskCall \ {c} :
                ~(deskCall[d].kind = "ready" /\ deskCall[d].step = "answered"))
          => SamePacket(deskPacket', deskRow)
    <3> SUFFICES ASSUME Careful', deskPacket'.status = "ready", ~deskPacket'.dirty,
                        \A d \in DeskCall \ {c} :
                          ~(deskCall[d].kind = "ready" /\ deskCall[d].step = "answered")
                 PROVE  SamePacket(deskPacket', deskRow)
      OBVIOUS
    <3>1. Careful /\ call.step = "refused"  BY <1>1 DEF Careful
    <3>2. deskPacket.status = "ready" /\ ~deskPacket.dirty /\ SamePacket(deskPacket', deskPacket)
      BY <1>5
    <3>3. \A d \in DeskCall : ~(deskCall[d].kind = "ready" /\ deskCall[d].step = "answered")
      BY <3>1
    <3>4. SamePacket(deskPacket, deskRow)
      BY <3>1, <3>2, <3>3 DEF DeskIInv, PacketInv
    <3> QED  BY <3>2, <3>4 DEF SamePacket
  <2> QED  BY <1>1, <1>3, <1>4, <1>5, <2>1, <2>2, <2>3, <2>4, SlotLeftKeepsInv
<1> QED  BY <1>6, <1>7

LEMMA AnotherPageKeepsInv ==
  ASSUME DeskIInv, AnotherPageWrites
  PROVE  DeskIInv' /\ deskRow'.status = deskRow.status
<1>1. deskRow \in DeskRows  BY DEF DeskIInv, DeskTypeOK
<1>2. /\ deskLost' = TRUE
      /\ UNCHANGED <<deskItem, deskDetail, deskPacket, deskCall, deskRaced, deskLetGo, deskSigned>>
  BY DEF AnotherPageWrites
<1>3. deskRow' \in DeskRows /\ deskRow'.status = deskRow.status
  <2>1. CASE \E plan \in OwnPlan : deskRow' = [deskRow EXCEPT !.plan = plan]
    BY <1>1, <2>1, OwnPlansArePlans DEF DeskRows
  <2>2. CASE \E resume \in DeskResume : deskRow' = [deskRow EXCEPT !.resume = resume]
    BY <1>1, <2>2 DEF DeskRows
  <2> QED  BY <2>1, <2>2 DEF AnotherPageWrites
<1>4. DeskTypeOK'
  <2>1. \A c \in DeskCall : IsDeskCall(deskCall[c])'
    BY <1>2 DEF DeskIInv, DeskTypeOK, IsDeskCall, DeskCalls, DeskForms, CarriesForm,
           NoDeskCall, DeskRows
  <2>2. deskRow' \in DeskRows'  BY <1>3 DEF DeskRows
  <2> QED  BY <1>2, <2>1, <2>2 DEF DeskIInv, DeskTypeOK, DeskCopy, DeskPages
<1> QED  BY <1>2, <1>3, <1>4 DEF DeskIInv, CopiesInv, PacketInv, Careful

-------------------------------------------------------------------------------
LEMMA DeskInitInv == DeskInit => DeskIInv
<1> SUFFICES ASSUME DeskInit PROVE DeskIInv  OBVIOUS
<1>1. PICK plan \in OwnPlan :
        deskRow = [status |-> "preparing", plan |-> plan, resume |-> Original,
                   reviewed |-> FALSE, ready |-> FALSE]
  BY DEF DeskInit
<1>2. deskRow \in DeskRows /\ ~deskRow.ready
  <2>1. "preparing" \in DeskStatus  BY DEF DeskStatus, NextStatuses
  <2> QED  BY <1>1, <2>1, DeskCopies, OwnPlansArePlans DEF DeskRows
<1>3. /\ deskItem = NoCopy /\ deskDetail = NoCopy /\ deskPacket = PageClosed
      /\ deskCall = [c \in DeskCall |-> NoDeskCall]
      /\ deskRaced = FALSE /\ deskLost = FALSE /\ deskLetGo = FALSE
  BY DEF DeskInit
<1>4. PageClosed \in DeskPages /\ PageClosed.status = "idle"
  BY DeskCopies DEF PageClosed, DeskPages
<1>5. \A c \in DeskCall : deskCall[c] = NoDeskCall  BY <1>3
<1>6. DeskTypeOK
  BY <1>2, <1>3, <1>4, <1>5, FreeSlot DEF DeskTypeOK, DeskCopy
<1>7. CopiesInv  BY <1>3, <1>5, FreeSlot DEF CopiesInv, CallKeepsCopies, Stored
<1>8. PacketInv
  BY <1>2, <1>3, <1>4, <1>5, FreeSlot DEF PacketInv, CallKeepsPacket, IsShown, WritesPacket, PacketKinds
<1> QED  BY <1>6, <1>7, <1>8 DEF DeskIInv

\* Every step keeps the invariant, and a move keeps the plan.
LEMMA DeskStepKeepsInv ==
  ASSUME DeskIInv, [DeskNext]_deskVars
  PROVE  /\ DeskIInv'
         /\ PlanKept
<1> DEFINE Kept == /\ DeskIInv'
                   /\ PlanKept
<1>1. ASSUME \/ LoadsTracker \/ ExpandsDetail
             \/ \E to \in DeskStatus : ChangesStatus(to)
             \/ \E plan \in OwnPlan : SavesDeskPlan(plan)
      PROVE  Kept
  BY <1>1, PageSendsKeepInv DEF LoadsTracker, ExpandsDetail, ChangesStatus, SavesDeskPlan, PlanKept
<1>2. ASSUME OpensPacket \/ SavesReview \/ MarksPacketReady \/ RecordsSubmission PROVE Kept
  BY <1>2, PacketSendsKeepInv DEF OpensPacket, SavesReview, MarksPacketReady, RecordsSubmission,
                              PlanKept
<1>3. ASSUME NEW resume \in DeskResume, NEW reviewed \in BOOLEAN, EditsPacket(resume, reviewed)
      PROVE  Kept
  BY <1>3, EditKeepsInv DEF EditsPacket, PlanKept
<1>4. ASSUME NEW c \in DeskCall, ServiceAnswers(c) PROVE Kept
  BY <1>4, ServiceKeepsInv
<1>5. ASSUME NEW c \in DeskCall, ReceivesApplication(c) PROVE Kept
  BY <1>5, ReceivesApplicationKeepsInv DEF ReceivesApplication, PlanKept
<1>6. ASSUME NEW c \in DeskCall, ReceivesPacket(c) PROVE Kept
  BY <1>6, ReceivesPacketKeepsInv DEF ReceivesPacket, PlanKept
<1>7. ASSUME NEW c \in DeskCall, DeskRequestFails(c) PROVE Kept
  BY <1>7, FailureKeepsInv DEF DeskRequestFails, PlanKept
<1>8. ASSUME AnotherPageWrites PROVE Kept  BY <1>8, AnotherPageKeepsInv DEF PlanKept
<1>9. ASSUME ClosesCard PROVE Kept  BY <1>9, ClosingKeepsInv DEF ClosesCard, PlanKept
<1>10. ASSUME UNCHANGED deskVars PROVE Kept
  <2>1. /\ UNCHANGED <<deskRow, deskItem, deskDetail, deskPacket>>
        /\ UNCHANGED <<deskCall, deskRaced, deskLost, deskLetGo, deskSigned>>
    BY <1>10 DEF deskVars
  <2>2. \A c \in DeskCall : IsDeskCall(deskCall[c])'
    BY <2>1 DEF DeskIInv, DeskTypeOK, IsDeskCall, DeskCalls, DeskForms, CarriesForm,
           NoDeskCall, DeskRows
  <2>3. DeskTypeOK'
    BY <2>1, <2>2 DEF DeskIInv, DeskTypeOK, DeskCopy, DeskPages, DeskRows
  <2>4. CopiesInv'
    BY <2>1 DEF DeskIInv, CopiesInv, CallKeepsCopies, Stored, ApplicationOf
  <2>5. PacketInv'
    BY <2>1 DEF DeskIInv, PacketInv, CallKeepsPacket, SamePacket, Careful, IsShown, WritesPacket
  <2> QED  BY <2>1, <2>3, <2>4, <2>5 DEF DeskIInv, PlanKept
<1> HIDE DEF Kept
<1>11. Kept
  BY <1>1, <1>2, <1>3, <1>4, <1>5, <1>6, <1>7, <1>8, <1>9, <1>10 DEF DeskNext
<1> QED  BY <1>11 DEF Kept

\* For any plans, resumes and requests: as long as no answer is lost, no other
\* page writes and nothing races, the page shows what is stored and a move of the
\* owner's keeps the plan the application has by then; and even if requests race,
\* what is locked is what its owner saw, unless the page went on beside a save or
\* a lock that a closed packet workspace had left under way
\* (application-tracker-workspace.tsx and application-packet-workspace.tsx).
THEOREM DeskShowsTheTruth == DeskSpec => DeskIsTrue
<1>1. DeskInit => DeskIInv  BY DeskInitInv
<1>2. DeskIInv /\ [DeskNext]_deskVars => DeskIInv' /\ [PlanKept]_deskVars
  BY DeskStepKeepsInv
<1>3. DeskIInv => ShownIsStored /\ LockedAsShown
  <2> SUFFICES ASSUME DeskIInv PROVE ShownIsStored /\ LockedAsShown  OBVIOUS
  <2>1. Quiet => \A c \in DeskCall : deskCall[c].kind = "none"
    BY FreeSlot DEF Quiet
  <2>2. ShownIsStored
    BY <2>1 DEF ShownIsStored, DeskIInv, CopiesInv, Stored
  <2>3. LockedAsShown  BY DEF LockedAsShown, DeskIInv, PacketInv, Careful
  <2> QED  BY <2>2, <2>3
<1>4. [][PlanKept]_deskVars => PlanSurvivesMove  BY DEF PlanSurvivesMove, PlanKept
<1> QED  BY <1>1, <1>2, <1>3, <1>4, PTL DEF DeskSpec, DeskIsTrue
-------------------------------------------------------------------------------
(* A letter is a reviewed document, so what DocumentReview_proofs proves of    *)
(* any document is said of letters here; that nobody changes what the sources  *)
(* state is proved anew.                                                       *)

R == INSTANCE DocumentReview_proofs WITH
  Tab <- LetterTab, Call <- LetterCall, Choice <- Editable, First <- Composed,
  Foreign <- LetterContent, Locked <- SourceLocked, None <- NoLetter,
  MaxVersion <- LetterMaxVersion, MaxPlan <- LetterMaxPlan,
  plan <- letterPlan, versions <- letters, call <- letterCall,
  tab <- letterTab, overlapping <- letterOverlapping

LEMMA LettersAreBounded == R!DocumentBounds
BY LetterBounds DEF Editable, Composed

LEMMA LettersBegin == LetterInit => R!DocumentInit
BY DEF LetterInit, L!DocumentInit, R!DocumentInit, L!NoCall, R!NoCall, L!Closed, R!Closed

LEMMA WorkspaceIsReviewed ==
  ASSUME NEW t \in LetterTab,
         \/ LetterOpens(t) \/ \E content \in Editable : LetterEdits(t, content)
         \/ LetterSaves(t) \/ LetterTicks(t) \/ LetterApproves(t)
  PROVE  \/ R!OpensWorkspace(t) \/ \E content \in Editable : R!Chooses(t, content)
         \/ R!SavesRevision(t) \/ R!TicksConfirmation(t) \/ R!ApprovesVersion(t)
<1>1. ASSUME NEW content \in Editable, LetterEdits(t, content) PROVE R!Chooses(t, content)
  BY <1>1 DEF LetterEdits, L!Chooses, R!Chooses, L!Ready, R!Ready
<1>2. LetterOpens(t) => R!OpensWorkspace(t)
  BY DEF LetterOpens, L!OpensWorkspace, R!OpensWorkspace, L!Sends, R!Sends, L!NoCall, R!NoCall,
         L!Closed, R!Closed
<1>3. LetterSaves(t) => R!SavesRevision(t)
  BY DEF LetterSaves, L!SavesRevision, R!SavesRevision, L!Ready, R!Ready, L!Dirty, R!Dirty,
         L!Sends, R!Sends, L!NoCall, R!NoCall
<1>4. LetterTicks(t) => R!TicksConfirmation(t)
  BY DEF LetterTicks, L!TicksConfirmation, R!TicksConfirmation, L!Ready, R!Ready, L!Dirty,
         R!Dirty
<1>5. LetterApproves(t) => R!ApprovesVersion(t)
  BY DEF LetterApproves, L!ApprovesVersion, R!ApprovesVersion, L!Ready, R!Ready, L!Dirty,
         R!Dirty, L!Sends, R!Sends, L!NoCall, R!NoCall
<1> QED  BY <1>1, <1>2, <1>3, <1>4, <1>5

LEMMA RequestIsReviewed ==
  ASSUME NEW c \in LetterCall,
         \/ LetterCreateReads(c) \/ LetterReviseReads(c) \/ LetterApproveReads(c)
         \/ LetterNumbersVersion(c) \/ LetterInsertsVersion(c) \/ LetterApproveWrites(c)
         \/ LetterReceives(c) \/ LetterFails(c)
  PROVE  \/ R!CreateReads(c) \/ R!ReviseReads(c) \/ R!ApproveReads(c)
         \/ R!NumbersVersion(c) \/ R!InsertsVersion(c) \/ R!ApproveWrites(c)
         \/ R!ReceivesVersion(c) \/ R!RequestFails(c)
<1> USE DEF L!Answers, R!Answers, L!Refuses, R!Refuses, L!Ends, R!Ends, L!NoCall, R!NoCall,
            L!Latest, R!Latest
<1>1. LetterCreateReads(c) => R!CreateReads(c)
  BY DEF LetterCreateReads, L!CreateReads, R!CreateReads, L!MayBegin, R!MayBegin,
         L!InTransaction, R!InTransaction
<1>2. LetterReviseReads(c) => R!ReviseReads(c)
  BY DEF LetterReviseReads, L!ReviseReads, R!ReviseReads, L!MayBegin, R!MayBegin,
         L!InTransaction, R!InTransaction
<1>3. LetterApproveReads(c) => R!ApproveReads(c)
  BY DEF LetterApproveReads, L!ApproveReads, R!ApproveReads, L!MayBegin, R!MayBegin,
         L!InTransaction, R!InTransaction
<1>4. LetterNumbersVersion(c) => R!NumbersVersion(c)
  BY DEF LetterNumbersVersion, L!NumbersVersion, R!NumbersVersion, L!NextNumber, R!NextNumber
<1>5. LetterInsertsVersion(c) => R!InsertsVersion(c)
  BY DEF LetterInsertsVersion, L!InsertsVersion, R!InsertsVersion, L!NumberTaken, R!NumberTaken,
         L!Row, R!Row
<1>6. LetterApproveWrites(c) => R!ApproveWrites(c)
  BY DEF LetterApproveWrites, L!ApproveWrites, R!ApproveWrites, L!VerifyRow, R!VerifyRow
<1>7. LetterReceives(c) => R!ReceivesVersion(c)
  BY DEF LetterReceives, L!ReceivesVersion, R!ReceivesVersion, L!Closed, R!Closed
<1>8. LetterFails(c) => R!RequestFails(c)
  BY DEF LetterFails, L!RequestFails, R!RequestFails, L!FallsBack, R!FallsBack, L!Closed,
         R!Closed
<1> QED  BY <1>1, <1>2, <1>3, <1>4, <1>5, <1>6, <1>7, <1>8

\* A step of a letter is one of a reviewed document.
LEMMA LettersAreDocuments == [LetterNext]_letterVars => [R!DocumentNext]_(R!documentVars)
<1>1. L!SavesPlan => R!SavesPlan
  BY DEF L!SavesPlan, R!SavesPlan
<1>2. ASSUME NEW content \in LetterContent, LetterForeign(content)
      PROVE  R!ForeignRevises(content)
  BY <1>2 DEF LetterForeign, L!ForeignRevises, R!ForeignRevises, L!NoCall, R!NoCall
<1>3. UNCHANGED letterVars => UNCHANGED R!documentVars
  BY DEF letterVars, R!documentVars
<1> QED
  BY <1>1, <1>2, <1>3, WorkspaceIsReviewed, RequestIsReviewed DEF LetterNext, R!DocumentNext

LEMMA LettersAreReviewed == LetterSpec => R!DocumentSpec
BY LettersBegin, LettersAreDocuments, PTL DEF LetterSpec, R!DocumentSpec

-------------------------------------------------------------------------------
(* What the sources state. A revision that passed the comparison carries it.   *)

Compared(c) ==
  LET k == letterCall[c] IN
  k.kind = "revise" /\ k.step \in {"read", "numbered"} => k.choice.facts = SourceFacts

FactsInv == LetterFactsAreKept /\ \A c \in LetterCall : Compared(c)

LEMMA LettersAreTyped ==
  ASSUME R!IInv
  PROVE  /\ DOMAIN letters = 1..Len(letters) /\ Len(letters) \in Nat
         /\ \A i \in DOMAIN letters : letters[i] \in R!RowType
         /\ letterCall \in [LetterCall -> R!CallType]
         /\ letterTab \in [LetterTab -> R!TabType]
<1>1. R!StateType
  BY DEF R!IInv
<1> QED  BY <1>1, R!RowsAreTyped DEF R!StateType, R!Latest

\* What a transaction is about to insert carries what the sources state.
LEMMA InsertedFacts ==
  ASSUME R!IInv, FactsInv, NEW c \in LetterCall, letterCall[c].step = "numbered"
  PROVE  letterCall[c].choice.facts = SourceFacts
<1>1. R!CallIsSound(c) /\ Compared(c) /\ letterCall[c] \in R!CallType
  BY LettersAreTyped DEF R!IInv, FactsInv
<1>2. letterCall[c].kind \in {"create", "revise"}
  BY <1>1 DEF R!CallIsSound, R!CallType
<1>3. CASE letterCall[c].kind = "create"
  BY <1>1, <1>3 DEF R!CallIsSound, R!Unanswered, Composed
<1> QED  BY <1>1, <1>2, <1>3 DEF Compared

\* Only a request that changes hands needs a look.
LEMMA OneCallChanges ==
  ASSUME FactsInv, NEW c \in LetterCall, NEW k, DOMAIN letterCall = LetterCall,
         letterCall' = [letterCall EXCEPT ![c] = k],
         k.kind = "revise" /\ k.step \in {"read", "numbered"} => k.choice.facts = SourceFacts
  PROVE  \A d \in LetterCall : Compared(d)'
BY DEF FactsInv, Compared

\* A mark on a row leaves its content alone.
LEMMA MarkKeepsFacts ==
  ASSUME R!IInv, LetterFactsAreKept, NEW id,
         \/ letters' = [letters EXCEPT ![id].verified = TRUE]
         \/ letters' = [letters EXCEPT ![id].reviewed = TRUE]
  PROVE  LetterFactsAreKept'
<1>1. DOMAIN letters' = DOMAIN letters
  OBVIOUS
<1>2. ASSUME NEW i \in DOMAIN letters PROVE letters'[i].choice = letters[i].choice
  <2>1. PICK v, r : v = [letters[i] EXCEPT !.verified = TRUE]
                    /\ r = [letters[i] EXCEPT !.reviewed = TRUE]
    OBVIOUS
  <2>2. v.choice = letters[i].choice /\ r.choice = letters[i].choice
    BY <2>1, LettersAreTyped DEF R!RowType
  <2>3. letters'[i] \in {letters[i], v, r}
    BY <2>1
  <2> QED  BY <2>2, <2>3
<1> QED  BY <1>1, <1>2 DEF LetterFactsAreKept

LEMMA EndIsCompared ==
  ASSUME R!IInv, FactsInv, NEW c \in LetterCall, NEW step \in {"answered", "refused"},
         NEW id, NEW verified, L!Ends(c, step, id, verified)
  PROVE  \A d \in LetterCall : Compared(d)'
<1>1. PICK k : /\ letterCall' = [letterCall EXCEPT ![c] = k]
               /\ k = IF letterCall[c].tab = NoLetter THEN L!NoCall
                      ELSE [letterCall[c] EXCEPT !.step = step, !.target = id,
                              !.verified = verified, !.choice = NoLetter, !.number = 0,
                              !.from = 0]
  BY LettersAreTyped DEF L!Ends
<1>2. k.step \notin {"read", "numbered"}
  BY <1>1, LettersAreTyped DEF L!NoCall, R!CallType
<1> QED  BY <1>1, <1>2, OneCallChanges, LettersAreTyped

LEMMA SentIsCompared ==
  ASSUME R!IInv, FactsInv, NEW t, NEW kind, NEW target, NEW choice,
         L!Sends(t, kind, target, choice)
  PROVE  \A d \in LetterCall : Compared(d)'
<1> DEFINE call == [L!NoCall EXCEPT !.kind = kind, !.step = "sent", !.tab = t, !.target = target,
                               !.choice = choice,
                               !.view = IF kind = "create" THEN NoLetter
                                        ELSE [letterTab[t] EXCEPT !.ticked = 0]]
<1>1. PICK c \in LetterCall : letterCall' = [letterCall EXCEPT ![c] = call]
  BY DEF L!Sends
<1>2. call.step = "sent"
  BY DEF L!NoCall
<1> QED  BY <1>1, <1>2, OneCallChanges, LettersAreTyped

LEMMA RequestKeepsFacts ==
  ASSUME R!IInv, FactsInv, NEW c \in LetterCall,
         \/ LetterCreateReads(c) \/ LetterReviseReads(c) \/ LetterApproveReads(c)
         \/ LetterNumbersVersion(c) \/ LetterInsertsVersion(c) \/ LetterApproveWrites(c)
         \/ LetterReceives(c) \/ LetterFails(c)
  PROVE  FactsInv'
<1> DEFINE Same == UNCHANGED letters
           AllCompared == \A d \in LetterCall : Compared(d)'
<1>1. Same => LetterFactsAreKept'
  BY DEF FactsInv, LetterFactsAreKept
<1>2. letterCall \in [LetterCall -> R!CallType] /\ letterCall[c] \in R!CallType /\ Compared(c)
  BY LettersAreTyped DEF FactsInv
<1>3. ASSUME LetterCreateReads(c) PROVE Same /\ AllCompared
  <2>1. Same /\ letterCall[c].kind = "create"
    BY <1>3 DEF LetterCreateReads, L!CreateReads
  <2>2. CASE L!Answers(c, L!Latest)
    BY <2>1, <2>2, EndIsCompared DEF L!Answers
  <2>3. CASE letterCall' = [letterCall EXCEPT ![c].step = "read", ![c].from = letterPlan]
    <3>1. PICK k : k = [letterCall[c] EXCEPT !.step = "read", !.from = letterPlan]
      OBVIOUS
    <3>2. k.kind = "create"
      BY <1>2, <2>1, <3>1 DEF R!CallType
    <3>3. letterCall' = [letterCall EXCEPT ![c] = k]
      BY <1>2, <2>3, <3>1
    <3> QED  BY <1>2, <2>1, <3>2, <3>3, OneCallChanges
  <2> QED  BY <1>3, <2>2, <2>3 DEF LetterCreateReads, L!CreateReads
<1>4. ASSUME LetterReviseReads(c) PROVE Same /\ AllCompared
  <2>1. Same /\ letterCall[c].kind = "revise"
    BY <1>4 DEF LetterReviseReads, L!ReviseReads
  <2>2. CASE L!Refuses(c) \/ L!Answers(c, L!Latest)
    BY <2>1, <2>2, EndIsCompared DEF L!Answers, L!Refuses
  <2>3. CASE /\ ~SourceLocked(letterCall[c].choice, letters[letterCall[c].target].choice)
             /\ letterCall' = [letterCall EXCEPT ![c].step = "read",
                                  ![c].from = letters[letterCall[c].target].from]
    <3>1. PICK k : k = [letterCall[c] EXCEPT !.step = "read",
                          !.from = letters[letterCall[c].target].from]
      OBVIOUS
    <3>2. letterCall[c].target \in DOMAIN letters
      BY <2>1 DEF R!IInv, R!CallIsSound
    <3>3. letterCall[c].choice.facts = SourceFacts
      BY <2>3, <3>2 DEF SourceLocked, FactsInv, LetterFactsAreKept
    <3>4. k.choice.facts = SourceFacts
      BY <1>2, <3>1, <3>3 DEF R!CallType
    <3>5. letterCall' = [letterCall EXCEPT ![c] = k]
      BY <1>2, <2>3, <3>1
    <3> QED  BY <1>2, <2>1, <3>4, <3>5, OneCallChanges
  <2> QED  BY <1>4, <2>2, <2>3 DEF LetterReviseReads, L!ReviseReads
<1>5. ASSUME LetterApproveReads(c) PROVE Same /\ AllCompared
  <2>1. Same /\ letterCall[c].kind = "approve"
    BY <1>5 DEF LetterApproveReads, L!ApproveReads
  <2>2. CASE L!Refuses(c) \/ L!Answers(c, L!Latest)
    BY <2>1, <2>2, EndIsCompared DEF L!Answers, L!Refuses
  <2>3. CASE letterCall' = [letterCall EXCEPT ![c].step = "read"]
    <3>1. PICK k : k = [letterCall[c] EXCEPT !.step = "read"]
      OBVIOUS
    <3>2. k.kind = "approve"
      BY <1>2, <2>1, <3>1 DEF R!CallType
    <3>3. letterCall' = [letterCall EXCEPT ![c] = k]
      BY <1>2, <2>3, <3>1
    <3> QED  BY <1>2, <2>1, <3>2, <3>3, OneCallChanges
  <2> QED  BY <1>5, <2>2, <2>3 DEF LetterApproveReads, L!ApproveReads
<1>6. ASSUME LetterNumbersVersion(c) PROVE Same /\ AllCompared
  <2>1. /\ Same /\ letterCall[c].step = "read"
        /\ letterCall' = [letterCall EXCEPT ![c].step = "numbered", ![c].number = L!NextNumber]
    BY <1>6 DEF LetterNumbersVersion, L!NumbersVersion
  <2>2. PICK k : k = [letterCall[c] EXCEPT !.step = "numbered", !.number = L!NextNumber]
    OBVIOUS
  <2>3. k.kind = letterCall[c].kind /\ k.choice = letterCall[c].choice
    BY <1>2, <2>2 DEF R!CallType
  <2>4. letterCall' = [letterCall EXCEPT ![c] = k]
    BY <1>2, <2>1, <2>2
  <2>5. k.kind = "revise" => k.choice.facts = SourceFacts
    BY <1>2, <2>1, <2>3 DEF Compared
  <2> QED  BY <1>2, <2>1, <2>4, <2>5, OneCallChanges
<1>7. ASSUME LetterInsertsVersion(c) PROVE LetterFactsAreKept' /\ AllCompared
  <2>1. CASE Same /\ L!Refuses(c)
    BY <1>1, <2>1, EndIsCompared DEF L!Refuses
  <2>2. CASE /\ letters' = Append(letters, L!Row(letterCall[c].number, letterCall[c].from,
                                                letterCall[c].choice))
             /\ L!Answers(c, L!Latest + 1)
    <3>1. letterCall[c].choice.facts = SourceFacts
      BY <1>7, InsertedFacts DEF LetterInsertsVersion, L!InsertsVersion
    <3>2. letters \in Seq(R!RowType)
      BY DEF R!IInv, R!StateType
    <3>3. PICK row : /\ row = L!Row(letterCall[c].number, letterCall[c].from,
                                   letterCall[c].choice)
                     /\ letters' = Append(letters, row)
      BY <2>2
    <3>4. row.choice.facts = SourceFacts
      BY <3>1, <3>3 DEF L!Row
    <3>5. \A i \in DOMAIN letters' : \/ i \in DOMAIN letters /\ letters'[i] = letters[i]
                                     \/ letters'[i] = row
      BY <3>2, <3>3
    <3>6. LetterFactsAreKept'
      BY <3>4, <3>5 DEF FactsInv, LetterFactsAreKept
    <3> QED  BY <2>2, <3>6, EndIsCompared DEF L!Answers
  <2> QED  BY <1>7, <2>1, <2>2 DEF LetterInsertsVersion, L!InsertsVersion
<1>8. ASSUME LetterApproveWrites(c) PROVE LetterFactsAreKept' /\ AllCompared
  <2>1. LetterFactsAreKept'
    BY <1>8, MarkKeepsFacts DEF LetterApproveWrites, L!ApproveWrites, L!VerifyRow, FactsInv
  <2> QED  BY <1>8, <2>1, EndIsCompared DEF LetterApproveWrites, L!ApproveWrites, L!Answers
<1>9. ASSUME LetterReceives(c) PROVE Same /\ AllCompared
  <2>1. L!NoCall.kind = "none"
    BY DEF L!NoCall
  <2> QED  BY <1>2, <1>9, <2>1, OneCallChanges DEF LetterReceives, L!ReceivesVersion
<1>10. ASSUME LetterFails(c) PROVE Same /\ AllCompared
  <2>1. PICK k : /\ letterCall' = [letterCall EXCEPT ![c] = k]
                 /\ k = IF letterCall[c].step \in {"answered", "refused"} THEN L!NoCall
                        ELSE [letterCall[c] EXCEPT !.tab = NoLetter, !.view = NoLetter]
    BY <1>2, <1>10 DEF LetterFails, L!RequestFails
  <2>2. k.kind = "none" \/ /\ k.kind = letterCall[c].kind /\ k.step = letterCall[c].step
                           /\ k.choice = letterCall[c].choice
    BY <1>2, <2>1 DEF L!NoCall, R!CallType
  <2>3. k.kind = "revise" /\ k.step \in {"read", "numbered"} => k.choice.facts = SourceFacts
    BY <1>2, <2>2 DEF Compared
  <2> QED  BY <1>2, <1>10, <2>1, <2>3, OneCallChanges DEF LetterFails, L!RequestFails
<1> QED
  BY <1>1, <1>3, <1>4, <1>5, <1>6, <1>7, <1>8, <1>9, <1>10 DEF FactsInv

LEMMA WorkspaceKeepsFacts ==
  ASSUME R!IInv, FactsInv, NEW t \in LetterTab,
         \/ LetterOpens(t) \/ \E content \in Editable : LetterEdits(t, content)
         \/ LetterSaves(t) \/ LetterTicks(t) \/ LetterApproves(t)
  PROVE  FactsInv'
<1>1. UNCHANGED letters => LetterFactsAreKept'
  BY DEF FactsInv, LetterFactsAreKept
<1>2. UNCHANGED letterCall => \A d \in LetterCall : Compared(d)'
  BY DEF FactsInv, Compared
<1>3. CASE LetterOpens(t) \/ LetterSaves(t) \/ LetterApproves(t)
  <2>1. \A d \in LetterCall : Compared(d)'
    BY <1>3, SentIsCompared DEF LetterOpens, LetterSaves, LetterApproves, L!OpensWorkspace,
                                L!SavesRevision, L!ApprovesVersion
  <2>2. UNCHANGED letters
    BY <1>3 DEF LetterOpens, LetterSaves, LetterApproves, L!OpensWorkspace, L!SavesRevision,
                L!ApprovesVersion
  <2> QED  BY <1>1, <2>1, <2>2 DEF FactsInv
<1>4. CASE \E content \in Editable : LetterEdits(t, content)
  BY <1>1, <1>2, <1>4 DEF LetterEdits, L!Chooses, FactsInv
<1>5. CASE LetterTicks(t)
  BY <1>2, <1>5, MarkKeepsFacts DEF LetterTicks, L!TicksConfirmation, FactsInv
<1> QED  BY <1>3, <1>4, <1>5

LEMMA NextKeepsFacts == R!IInv /\ FactsInv /\ [LetterNext]_letterVars => FactsInv'
<1> SUFFICES ASSUME R!IInv, FactsInv, [LetterNext]_letterVars PROVE FactsInv'
  OBVIOUS
<1>1. UNCHANGED <<letters, letterCall>> => FactsInv'
  BY DEF FactsInv, LetterFactsAreKept, Compared
<1>2. CASE L!SavesPlan \/ UNCHANGED letterVars
  BY <1>1, <1>2 DEF L!SavesPlan, letterVars
<1>3. ASSUME NEW content \in LetterContent, LetterForeign(content) PROVE FactsInv'
  <2>1. PICK c \in LetterCall, id \in DOMAIN letters :
          /\ letterCall' = [letterCall EXCEPT ![c] =
                              [L!NoCall EXCEPT !.kind = "revise", !.step = "sent",
                                 !.target = id, !.choice = content]]
          /\ UNCHANGED letters
    BY <1>3 DEF LetterForeign, L!ForeignRevises
  <2>2. PICK k : k = [L!NoCall EXCEPT !.kind = "revise", !.step = "sent", !.target = id,
                        !.choice = content]
    OBVIOUS
  <2>3. k.step = "sent"
    BY <2>2 DEF L!NoCall
  <2>4. \A d \in LetterCall : Compared(d)'
    BY <2>1, <2>2, <2>3, OneCallChanges, LettersAreTyped
  <2> QED  BY <2>1, <2>4 DEF FactsInv, LetterFactsAreKept
<1> QED
  BY <1>2, <1>3, RequestKeepsFacts, WorkspaceKeepsFacts DEF LetterNext

LEMMA Invariance == LetterSpec => [](R!IInv /\ FactsInv)
<1>1. LetterInit => R!IInv
  BY LettersBegin, LettersAreBounded, R!InitHolds
<1>2. LetterInit => FactsInv
  <2>1. ASSUME LetterInit
        PROVE letters = <<>> /\ \A c \in LetterCall : letterCall[c].kind = "none"
    BY <2>1 DEF LetterInit, L!DocumentInit, L!NoCall
  <2> QED  BY <2>1 DEF FactsInv, LetterFactsAreKept, Compared
<1>3. R!IInv /\ [LetterNext]_letterVars => R!IInv'
  BY LettersAreDocuments, LettersAreBounded, R!NextKeepsInv
<1> QED  BY <1>1, <1>2, <1>3, NextKeepsFacts, PTL DEF LetterSpec

\* Whatever is submitted, by a workspace or by any other client, and however
\* requests overlap, every version of a letter carries the identity and the
\* target job that its sources state (LetterFactsAreKept).
THEOREM LettersKeepTheirFacts == LetterSpec => []LetterFactsAreKept
BY Invariance, PTL DEF FactsInv

\* What holds of the versions, approvals and downloads of a tailored resume
\* holds of those of a letter: they are numbered one to n, what is shown as
\* verified is downloaded, and nothing is approved that was never ticked.
THEOREM LettersStayReviewed == LetterSpec => []L!DocumentsAreReviewed
<1>1. LetterSpec => []R!DocumentsAreReviewed
  BY LettersAreBounded, LettersAreReviewed, R!DocumentsStayReviewed, PTL
<1>2. R!DocumentsAreReviewed => L!DocumentsAreReviewed
  <2>1. R!DocumentTypeOK => L!DocumentTypeOK
    BY DEF R!DocumentTypeOK, L!DocumentTypeOK, R!Ready, L!Ready
  <2>2. R!VersionsAreNumbered /\ R!DownloadsSucceed => L!VersionsAreNumbered /\ L!DownloadsSucceed
    BY DEF R!VersionsAreNumbered, L!VersionsAreNumbered, R!DownloadsSucceed, L!DownloadsSucceed,
           R!Ready, L!Ready, R!Export, L!Export
  <2>3. R!OneSuggestion /\ R!ApprovalWasTicked => L!OneSuggestion /\ L!ApprovalWasTicked
    BY DEF R!OneSuggestion, L!OneSuggestion, R!ApprovalWasTicked, L!ApprovalWasTicked
  <2> QED  BY <2>1, <2>2, <2>3 DEF R!DocumentsAreReviewed, L!DocumentsAreReviewed
<1> QED  BY <1>1, <1>2, PTL

\* The reader of a letter sees a DocumentHistory (L!ImplementsHistory).
THEOREM LettersImplementHistory == LetterSpec => R!ImplementsHistory
BY LettersAreBounded, LettersAreReviewed, R!ReviewImplementsHistory, PTL
===============================================================================
