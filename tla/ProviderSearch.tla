---------------------------- MODULE ProviderSearch ----------------------------
(* The bounded parallel search of the job providers: one executor of a few     *)
(* threads shared by every search of the process, a retry of transient errors, *)
(* and a time budget after which a search stops waiting. Threads are not       *)
(* stopped by that: an abandoned call keeps its thread until it returns.       *)
EXTENDS Naturals, Sequences, FiniteSets, SequencesExt

CONSTANTS
  Search,          \* the searches, each run once
  Registry,        \* the providers that could be configured, in order
  Fragile,         \* those whose construction may fail
  MaxWorkers,      \* threads of the executor
  ErrorKind        \* the exceptions a provider may raise

ASSUME ProviderSearchBounds ==
  /\ MaxWorkers \in Nat \ {0} /\ IsInjective(Registry)
  /\ Fragile \subseteq ToSet(Registry)

VARIABLES
  misconfigured, \* the providers whose construction failed
  phase,     \* phase[s]: idle, waiting, collecting or done
  future,    \* future[s][p]: the call of provider p for search s
  submitted, \* the searches in the order in which they submitted their calls
  pending,   \* pending[s]: what had not finished when s stopped waiting
  report,    \* report[s][p]: what the answer of s says of p
  timely     \* timely[s]: providers that had answered by then (history)

searchVars == <<misconfigured, phase, future, submitted, pending, report, timely>>

MaxProviderAttempts == 2
Provider == ToSet(Registry)
Configured == Provider \ misconfigured

-------------------------------------------------------------------------------
(* The exceptions. An HTTP error is named by its status.                       *)

IsRetryable(error) ==
  error \in {"timeout", "connection", "http_408", "http_429", "http_500"}

FailureCode(error) ==
  CASE error = "configuration"               -> "misconfigured"
    [] error = "payload"                     -> "invalid_response"
    [] error = "timeout"                     -> "timeout"
    [] error = "http_429"                    -> "rate_limited"
    [] error \in {"http_408", "http_500"}    -> "unavailable"
    [] error = "connection"                  -> "unavailable"
    [] OTHER                                 -> "failed"

-------------------------------------------------------------------------------
(* The executor.                                                               *)

NoFuture == [state |-> "none", attempts |-> 0, code |-> "none"]

InState(state) ==
  {sp \in Search \X Configured : future[sp[1]][sp[2]].state = state}

\* The queue of the executor: a search submits its calls in the order of the
\* registry. A future that was cancelled is passed over.
IsBefore(call, other) ==
  \E i, j \in DOMAIN submitted, k, l \in DOMAIN Registry :
    /\ <<submitted[i], Registry[k]>> = call /\ <<submitted[j], Registry[l]>> = other
    /\ i < j \/ (i = j /\ k < l)

\* A thread takes the oldest future when one is free.
ThreadTakes(s, p) ==
  /\ <<s, p>> \in InState("queued")
  /\ \A call \in InState("queued") : ~IsBefore(call, <<s, p>>)
  /\ Cardinality(InState("running")) < MaxWorkers
  /\ future' = [future EXCEPT ![s][p].state = "running", ![s][p].attempts = 1]
  /\ UNCHANGED <<misconfigured, phase, submitted, pending, report, timely>>

ProviderAnswers(s, p) ==
  /\ future[s][p].state = "running"
  /\ future' = [future EXCEPT ![s][p].state = "answered"]
  /\ UNCHANGED <<misconfigured, phase, submitted, pending, report, timely>>

\* Faulty: the second attempt is counted as a first.
ForgetsAttempt(s, p, error) ==
  /\ future[s][p].state = "running"
  /\ future' = [future EXCEPT ![s][p] =
       IF @.attempts < MaxProviderAttempts /\ IsRetryable(error)
         THEN [@ EXCEPT !.attempts = 2]
         ELSE [state |-> "failed", attempts |-> 1, code |-> FailureCode(error)]]
  /\ UNCHANGED <<misconfigured, phase, submitted, pending, report, timely>>

\* A transient error is retried once, by the thread that met it.
ProviderRaises(s, p, error) ==
  /\ future[s][p].state = "running"
  /\ future' = [future EXCEPT ![s][p] =
       IF @.attempts < MaxProviderAttempts /\ IsRetryable(error)
         THEN [@ EXCEPT !.attempts = future[s][p].attempts + 1]
         ELSE [@ EXCEPT !.state = "failed", !.code = FailureCode(error)]]
  /\ UNCHANGED <<misconfigured, phase, submitted, pending, report, timely>>

-------------------------------------------------------------------------------
(* A search: it submits every provider, waits for all or for the budget, and   *)
(* collects in the order of the registry.                                      *)

Unreported == [outcome |-> "none", code |-> "none", attempts |-> 0]

Ended(s, p) == future[s][p].state \in {"answered", "failed"}

Submits(s) ==
  /\ phase[s] = "idle"
  /\ phase' = [phase EXCEPT ![s] = "waiting"]
  /\ future' = [future EXCEPT ![s] =
       [p \in Configured |-> [NoFuture EXCEPT !.state = "queued"]]]
  /\ submitted' = Append(submitted, s)
  /\ report' = [report EXCEPT ![s] =
       [p \in Provider |-> IF p \in misconfigured
                             THEN [outcome |-> "failed", code |-> "misconfigured", attempts |-> 0]
                             ELSE Unreported]]
  /\ UNCHANGED <<misconfigured, pending, timely>>

\* Faulty: a search that ran out of its budget keeps nothing.
DropsAllAtBudget(s) ==
  /\ phase[s] = "waiting"
  /\ phase' = [phase EXCEPT ![s] = "collecting"]
  /\ pending' = [pending EXCEPT ![s] =
       IF \A p \in Configured : Ended(s, p) THEN {} ELSE Configured]
  /\ timely' = [timely EXCEPT ![s] = {p \in Configured : future[s][p].state = "answered"}]
  /\ UNCHANGED <<misconfigured, future, submitted, report>>

\* Every future has ended, or the budget has; what had not is noted.
StopsWaiting(s) ==
  /\ phase[s] = "waiting"
  /\ phase' = [phase EXCEPT ![s] = "collecting"]
  /\ pending' = [pending EXCEPT ![s] = {p \in Configured : ~Ended(s, p)}]
  /\ timely' = [timely EXCEPT ![s] = {p \in Configured : future[s][p].state = "answered"}]
  /\ UNCHANGED <<misconfigured, future, submitted, report>>

NextToCollect(s) ==
  {p \in Configured :
     /\ report[s][p] = Unreported
     /\ \A i, j \in DOMAIN Registry :
          Registry[i] = p /\ j < i => report[s][Registry[j]] # Unreported}

\* Faulty: a future no thread has taken is reported and not cancelled.
ReportsWithoutCancel(s, p) ==
  /\ phase[s] = "collecting" /\ p \in NextToCollect(s)
  /\ report' = [report EXCEPT ![s][p] =
       IF p \in pending[s]
         THEN [outcome |-> "failed", code |-> "timeout",
               attempts |-> IF future[s][p].state = "queued" THEN 0 ELSE 1]
         ELSE [outcome |-> future[s][p].state, code |-> future[s][p].code,
               attempts |-> future[s][p].attempts]]
  /\ UNCHANGED <<misconfigured, phase, future, submitted, pending, timely>>

\* A future that had not finished is cancelled, which succeeds only while no
\* thread has taken it; it may have started, or even ended, in between.
Collects(s, p) ==
  /\ phase[s] = "collecting" /\ p \in NextToCollect(s)
  /\ LET cancelled == p \in pending[s] /\ future[s][p].state = "queued" IN
     /\ report' = [report EXCEPT ![s][p] =
          IF p \in pending[s]
            THEN [outcome |-> "failed", code |-> "timeout",
                  attempts |-> IF cancelled THEN 0 ELSE 1]
            ELSE [outcome |-> future[s][p].state, code |-> future[s][p].code,
                  attempts |-> future[s][p].attempts]]
     /\ future' = IF cancelled THEN [future EXCEPT ![s][p].state = "cancelled"] ELSE future
  /\ UNCHANGED <<misconfigured, phase, submitted, pending, timely>>

Returns(s) ==
  /\ phase[s] = "collecting"
  /\ \A p \in Configured : report[s][p] # Unreported
  /\ phase' = [phase EXCEPT ![s] = "done"]
  /\ UNCHANGED <<misconfigured, future, submitted, pending, report, timely>>

-------------------------------------------------------------------------------
(* The answer.                                                                 *)

Succeeded(s) == {p \in Configured : report[s][p].outcome = "answered"}
Failed(s) == {p \in Provider : report[s][p].outcome = "failed"}

\* Faulty: any failure makes the search a failed one.
StatusByFailures(s) == IF Failed(s) # {} THEN "failed" ELSE "complete"

SearchStatus(s) ==
  IF Failed(s) # {} THEN IF Succeeded(s) # {} THEN "partial" ELSE "failed"
  ELSE "complete"

\* The health the route reports for a failure.
HealthStatus(code) ==
  IF code \in {"timeout", "rate_limited", "unavailable", "misconfigured"}
    THEN "unavailable" ELSE "degraded"

-------------------------------------------------------------------------------
SearchPoolInit ==
  /\ misconfigured \in SUBSET Fragile
  /\ phase = [s \in Search |-> "idle"]
  /\ future = [s \in Search |-> [p \in Configured |-> NoFuture]]
  /\ submitted = <<>>
  /\ pending = [s \in Search |-> {}]
  /\ report = [s \in Search |-> [p \in Provider |-> Unreported]]
  /\ timely = [s \in Search |-> {}]

SearchPoolNext ==
  \E s \in Search :
    \/ Submits(s) \/ StopsWaiting(s) \/ Returns(s)
    \/ \E p \in Configured :
         \/ ThreadTakes(s, p) \/ ProviderAnswers(s, p)
         \/ \E error \in ErrorKind : ProviderRaises(s, p, error)
         \/ Collects(s, p)

SearchPoolSpec == SearchPoolInit /\ [][SearchPoolNext]_searchVars

-------------------------------------------------------------------------------
\* A provider that the answer reports as never tried was never called for this
\* search, and never will be; one that it reports as having failed on its own
\* is reported with the calls that were made.
AttemptsAreTrue ==
  \A s \in Search, p \in Configured :
    LET r == report[s][p] IN
      r.outcome = "failed" =>
        IF p \in pending[s]
          THEN (r.attempts = 0) = (future[s][p].state = "cancelled")
          ELSE r.attempts = future[s][p].attempts

\* What a healthy provider returned in time is in the answer, however slow the
\* other providers were and whatever they raised.
TimelyResultsAreKept ==
  \A s \in Search : phase[s] = "done" => Succeeded(s) = timely[s]

\* A provider reported with a transient error of its own had its second chance.
TransientErrorsWereRetried ==
  \A s \in Search, p \in Configured :
    (/\ report[s][p].code \in {"timeout", "rate_limited", "unavailable"}
     /\ p \notin pending[s])
      => report[s][p].attempts = MaxProviderAttempts

\* Only a search that no provider answered is reported as failed, and only one
\* that every provider answered as complete.
StatusMatchesReport ==
  \A s \in Search : phase[s] = "done" =>
    /\ (SearchStatus(s) = "complete") = (timely[s] = Provider)
    /\ (SearchStatus(s) = "failed") = (timely[s] = {} /\ Provider # {})

\* What a search reports of its providers is what they did, wherever the time
\* budget cut their calls and retries.
ReportIsTrue ==
  /\ AttemptsAreTrue
  /\ TimelyResultsAreKept
  /\ TransientErrorsWereRetried
  /\ StatusMatchesReport
===============================================================================
