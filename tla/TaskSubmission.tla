---------------------------- MODULE TaskSubmission ----------------------------
(* Requests that create a discovery task with the same idempotency key, at the *)
(* same time: the task row, its inputs and its outbox record are written in    *)
(* one transaction each, at READ COMMITTED.                                    *)
EXTENDS Naturals

CONSTANTS
  Submission,   \* slots for requests that carry the key
  SearchInput,  \* the inputs they may carry
  NoSubmission

ASSUME SubmissionAssumption == NoSubmission \notin Submission \union SearchInput

VARIABLES
  keyed,      \* the committed task of the key, or NoSubmission
  inputs,     \* the committed inputs of the task, or NoSubmission
  outboxed,   \* whether its outbox record is committed
  submission, \* submission[u]: the request in slot u
  accepted    \* the inputs of every request answered with the task (history)

submissionVars == <<keyed, inputs, outboxed, submission, accepted>>

-------------------------------------------------------------------------------
NoRequest == [step |-> "idle", input |-> NoSubmission, created |-> FALSE]

Goes(u, step) == submission' = [submission EXCEPT ![u].step = step]

Submit(u, input) ==
  /\ submission[u].step \in {"idle", "done", "conflict", "error"}
  /\ submission' = [submission EXCEPT ![u] =
       [step |-> "sent", input |-> input, created |-> FALSE]]
  /\ UNCHANGED <<keyed, inputs, outboxed, accepted>>

\* The fingerprint is looked up before anything is written.
LooksUpKey(u) ==
  /\ submission[u].step = "sent"
  /\ Goes(u, IF keyed = NoSubmission THEN "absent" ELSE "existing")
  /\ UNCHANGED <<keyed, inputs, outboxed, accepted>>

\* The insert waits for one that has taken the key; when that one has committed
\* the unique constraint refuses it, and the row is read instead.
InsertsTask(u) ==
  /\ submission[u].step = "absent"
  /\ \A v \in Submission : submission[v].step # "inserted"
  /\ Goes(u, IF keyed = NoSubmission THEN "inserted" ELSE "existing")
  /\ UNCHANGED <<keyed, inputs, outboxed, accepted>>

\* Faulty: the task is committed before its inputs are.
CommitsTaskFirst(u) ==
  /\ submission[u].step = "inserted"
  /\ keyed' = u
  /\ Goes(u, "existing")
  /\ UNCHANGED <<inputs, outboxed, accepted>>

\* The task, its inputs and its outbox record become visible together.
CommitsTask(u) ==
  /\ submission[u].step = "inserted"
  /\ keyed' = u /\ inputs' = submission[u].input /\ outboxed' = TRUE
  /\ submission' = [submission EXCEPT ![u].step = "done", ![u].created = TRUE]
  /\ accepted' = accepted \union {submission[u].input}

\* The connection is lost before the commit: nothing of the task remains.
RollsBack(u) ==
  /\ submission[u].step = "inserted"
  /\ Goes(u, "error")
  /\ UNCHANGED <<keyed, inputs, outboxed, accepted>>

\* Faulty: an existing task answers whatever the request asks for.
AcceptsAnyInput(u) ==
  /\ submission[u].step = "existing"
  /\ Goes(u, "done")
  /\ inputs' = (IF inputs = NoSubmission THEN submission[u].input ELSE inputs)
  /\ outboxed' = TRUE
  /\ accepted' = accepted \union {submission[u].input}
  /\ UNCHANGED keyed

\* An existing task answers a request for the same search, and no other.
Resolves(u) ==
  /\ submission[u].step = "existing"
  /\ LET found == IF inputs = NoSubmission THEN submission[u].input ELSE inputs IN
     /\ inputs' = found
     /\ outboxed' = (outboxed \/ found = submission[u].input)
     /\ Goes(u, IF found = submission[u].input THEN "done" ELSE "conflict")
     /\ accepted' = IF found = submission[u].input THEN accepted \union {found} ELSE accepted
  /\ UNCHANGED keyed

-------------------------------------------------------------------------------
SubmissionInit ==
  /\ keyed = NoSubmission /\ inputs = NoSubmission /\ outboxed = FALSE
  /\ submission = [u \in Submission |-> NoRequest]
  /\ accepted = {}

SubmissionNext ==
  \E u \in Submission :
    \/ \E input \in SearchInput : Submit(u, input)
    \/ LooksUpKey(u) \/ InsertsTask(u) \/ CommitsTask(u) \/ RollsBack(u) \/ Resolves(u)

SubmissionSpec == SubmissionInit /\ [][SubmissionNext]_submissionVars

-------------------------------------------------------------------------------
\* Everyone answered with the task of a key asked for the search it runs, and
\* the task that was promised is in the outbox; one request created it.
RacersShareOneSearch ==
  /\ accepted \subseteq {inputs} \ {NoSubmission}
  /\ accepted # {} => keyed # NoSubmission /\ outboxed

\* The task is never seen without its inputs: the worker that picks it up and
\* the request that finds it both know what to search for.
TaskHasInputs == (keyed = NoSubmission) = (inputs = NoSubmission)

\* One search for each key, whole from the moment it can be seen.
OneSearchPerKey == RacersShareOneSearch /\ TaskHasInputs
===============================================================================
