---------------------------- MODULE TaskContract ----------------------------
(***************************************************************************)
(* What a background task promises to the code that submits, polls and     *)
(* cancels it, with no broker, outbox, worker or clock: the lifecycle      *)
(* drawn in docs/architecture/0019 with the cooperative cancellation and   *)
(* the retention of 0022.                                                  *)
(*                                                                         *)
(* A life is what a poller can be told about a task.  Next is pointwise:   *)
(* one transaction of the implementation may move several tasks, each by   *)
(* one of the moves below.                                                 *)
(***************************************************************************)
EXTENDS Naturals

CONSTANTS Task, MaxAttempts

VARIABLE life

Ended == {"succeeded", "failed", "cancelled"}

Open == {"queued", "running"}

Life == [status   : Open \cup Ended \cup {"absent", "purged"},
         attempts : 0..MaxAttempts,
         cancel   : BOOLEAN,          \* has cancellation been asked for?
         answered : BOOLEAN]          \* is a result stored?

Unborn == [status |-> "absent", attempts |-> 0, cancel |-> FALSE, answered |-> FALSE]

Forgotten == [status |-> "purged", attempts |-> 0, cancel |-> FALSE, answered |-> FALSE]

-----------------------------------------------------------------------------
(***************************************************************************)
(* The moves, as relations between a life and the next one.                *)
(***************************************************************************)
Keeps(a, b, fields) == \A f \in fields : b[f] = a[f]

Submitted(a, b) ==
  /\ a.status = "absent"
  /\ b.status = "queued"
  /\ Keeps(a, b, {"attempts", "cancel", "answered"})

Begun(a, b) ==
  /\ a.status = "queued"
  /\ ~a.cancel
  /\ b.status = "running"
  /\ b.attempts = a.attempts + 1
  /\ Keeps(a, b, {"cancel", "answered"})

\* A result may be stored in any live state: the worker's transaction does
\* not look at the status.
Answered(a, b) ==
  /\ a.status \in Open \cup Ended
  /\ b.answered
  /\ Keeps(a, b, {"status", "attempts", "cancel"})

Succeeded(a, b) ==
  /\ a.status = "running"
  /\ ~a.cancel
  /\ a.answered
  /\ b.status = "succeeded"
  /\ Keeps(a, b, {"attempts", "cancel", "answered"})

Retried(a, b) ==
  /\ a.status = "running"
  /\ ~a.cancel
  /\ a.attempts < MaxAttempts
  /\ b.status = "queued"
  /\ Keeps(a, b, {"attempts", "cancel", "answered"})

Failed(a, b) ==
  /\ a.status \in Open
  /\ ~a.cancel
  /\ b.status = "failed"
  /\ Keeps(a, b, {"attempts", "cancel", "answered"})

CancelAsked(a, b) ==
  /\ a.status = "running"
  /\ b.cancel
  /\ Keeps(a, b, {"status", "attempts", "answered"})

Cancelled(a, b) ==
  /\ \/ a.status = "queued"
     \/ a.status = "running" /\ a.cancel
  /\ b.status = "cancelled"
  /\ b.cancel
  /\ Keeps(a, b, {"attempts", "answered"})

Purged(a, b) ==
  /\ a.status \in Ended
  /\ b = Forgotten

Move(a, b) ==
  \/ Submitted(a, b)
  \/ Begun(a, b)
  \/ Answered(a, b)
  \/ Succeeded(a, b)
  \/ Retried(a, b)
  \/ Failed(a, b)
  \/ CancelAsked(a, b)
  \/ Cancelled(a, b)
  \/ Purged(a, b)

-----------------------------------------------------------------------------
Init == life = [t \in Task |-> Unborn]

Next ==
  /\ life' \in [Task -> Life]
  /\ \A t \in Task : Move(life[t], life'[t]) \/ life'[t] = life[t]

Spec == Init /\ [][Next]_life
=============================================================================
