---------------------------- MODULE ReminderRows ----------------------------
(***************************************************************************)
(* The rows behind in-app reminders (database/models/applications.py) and  *)
(* the conditions of database/repositories/application_reminders.py.       *)
(*                                                                         *)
(* A plan is what reminders depend on in an application: its deadline, its *)
(* next action, and whether its status is terminal.  There is at most one  *)
(* reminder for an application and a deadline, so the pair is its key.     *)
(* Of the dates of a reminder only their presence is kept; an empty next   *)
(* action is the same as none.                                             *)
(***************************************************************************)
EXTENDS Naturals, FiniteSets

CONSTANTS
  Application,  \* the ids of the applications
  Due,          \* the deadlines that plans may have
  Action,       \* what a plan may have as next action
  None          \* NULL

ASSUME OrderAssumption ==
  /\ Application \subseteq Nat
  /\ Due \subseteq Nat
  /\ None \notin Due \cup Action

Key == Application \X Due

Plan == [due : Due \cup {None}, action : Action \cup {None}, terminal : BOOLEAN]

NoPlan == [due |-> None, action |-> None, terminal |-> FALSE]

UserStatus == {"unread", "read", "dismissed"}

Absent == [status |-> "absent"]

Row == {Absent} \cup
       [status : UserStatus, action : Action, readAt : BOOLEAN, dismissedAt : BOOLEAN]

NewRow(action) ==
  [status |-> "unread", action |-> action, readAt |-> FALSE, dismissedAt |-> FALSE]

Open(row) == row.status \in {"unread", "read"}

-----------------------------------------------------------------------------
\* is_stale: a reminder for the key no longer follows from the plan.
Superseded(p, k) ==
  \/ p.terminal
  \/ p.due # k[2]
  \/ p.action = None

\* Faulty: a deadline at the horizon is left for a later cycle.
DueSoonStrictly(p, horizon) ==
  /\ p.due # None /\ p.due < horizon
  /\ p.action # None
  /\ ~p.terminal

\* The condition of the second query.
DueSoon(p, horizon) ==
  /\ p.due # None /\ p.due <= horizon
  /\ p.action # None
  /\ ~p.terminal

\* Faulty: the column accepts NULL.
FillsAnyAction(p) == p.due # None

\* due_at and next_action are NOT NULL; an insert that breaks this is caught.
FillsColumns(p) == p.due # None /\ p.action # None

-----------------------------------------------------------------------------
\* Faulty: a row that somebody else has created is replaced.
ReconciledAnew(write, row) ==
  CASE write.op = "dismiss" -> [row EXCEPT !.status = "dismissed", !.dismissedAt = TRUE]
    [] write.op = "create"  -> NewRow(write.action)
    [] write.op = "rename"  -> [row EXCEPT !.action = write.action]

\* What a cycle writes to a row as it finds it: the columns it changed, or a new
\* row if nobody else has created it.
Reconciled(write, row) ==
  CASE write.op = "dismiss" -> [row EXCEPT !.status = "dismissed", !.dismissedAt = TRUE]
    [] write.op = "create"  -> IF row = Absent THEN NewRow(write.action) ELSE row
    [] write.op = "rename"  -> [row EXCEPT !.action = write.action]

\* Faulty: the dates of an earlier status are left.
SetRowKeepingDates(loaded, row, status) ==
  [row EXCEPT !.status = IF status = loaded.status THEN @ ELSE status,
              !.readAt = @ \/ status = "read",
              !.dismissedAt = @ \/ status = "dismissed"]

\* set_status: a date is set to the present or cleared, and a column that is
\* assigned the value it was loaded with is not sent.
SetRow(loaded, row, status) ==
  [row EXCEPT !.status = IF status = loaded.status THEN @ ELSE status,
              !.readAt = status = "read" \/ (@ /\ ~loaded.readAt),
              !.dismissedAt = status = "dismissed" \/ (@ /\ ~loaded.dismissedAt)]
=============================================================================
