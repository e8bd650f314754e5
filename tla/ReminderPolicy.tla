--------------------------- MODULE ReminderPolicy ---------------------------
(***************************************************************************)
(* What docs/architecture/0029 decides about reminders, with the           *)
(* reconciliation of all of them as one step.                              *)
(***************************************************************************)
EXTENDS ReminderRows

VARIABLES plans, upcoming, reminders

Init ==
  /\ plans = [a \in Application |-> NoPlan]
  /\ upcoming = 0
  /\ reminders = [k \in Key |-> Absent]

\* The reminder that a plan calls for, given the one there is.
Follows(p, k, row, horizon) ==
  IF Open(row) /\ Superseded(p, k)
    THEN [row EXCEPT !.status = "dismissed", !.dismissedAt = TRUE]
  ELSE IF p.due = k[2] /\ DueSoon(p, horizon)
    THEN IF row = Absent THEN NewRow(p.action)
         ELSE IF Open(row) THEN [row EXCEPT !.action = p.action]
         ELSE row
  ELSE row

\* The clock is read when the reconciliation begins.
Reconcile ==
  /\ \E horizon \in 0..upcoming :
       reminders' = [k \in Key |-> Follows(plans[k[1]], k, reminders[k], horizon)]
  /\ UNCHANGED <<plans, upcoming>>

PlanChanges ==
  /\ plans' \in [Application -> Plan]
  /\ UNCHANGED <<upcoming, reminders>>

TimePasses ==
  /\ upcoming' \in Due
  /\ upcoming' > upcoming
  /\ UNCHANGED <<plans, reminders>>

\* The state of a reminder is its user's, and dated.
UserSets ==
  /\ \E k \in Key :
       /\ reminders[k] # Absent
       /\ reminders'[k] \in Row
       /\ reminders'[k].action = reminders[k].action
       /\ reminders'[k].readAt <=> reminders'[k].status = "read"
       /\ reminders'[k].dismissedAt <=> reminders'[k].status = "dismissed"
       /\ reminders' = [reminders EXCEPT ![k] = reminders'[k]]
  /\ UNCHANGED <<plans, upcoming>>

Next == Reconcile \/ PlanChanges \/ TimePasses \/ UserSets

Spec == Init /\ [][Next]_<<plans, upcoming, reminders>>
=============================================================================
