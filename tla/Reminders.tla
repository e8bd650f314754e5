----------------------------- MODULE Reminders ------------------------------
(***************************************************************************)
(* Reminders under maintenance cycles, their users' requests and changing  *)
(* plans (application_reminders.py, reminders.py, maintenance.py).         *)
(*                                                                         *)
(* A cycle is one transaction at READ COMMITTED without locks: it loads    *)
(* open reminders, judges each against its application, selects plans that *)
(* are due, looks for their reminders, and writes.  What it writes becomes *)
(* visible when it commits, so its writes are one action: a row it has     *)
(* sent before is locked, and whoever writes that row waits for the commit.*)
(***************************************************************************)
EXTENDS ReminderRows

CONSTANTS
  Runner,       \* maintenance cycles that may be under way at one time
  Request,      \* users' requests that may be under way at one time
  Limit,        \* TASK_MAINTENANCE_BATCH_SIZE
  Overlapping   \* may cycles, requests and changes of plans overlap?

ASSUME CycleAssumption ==
  /\ Limit \in Nat \ {0}
  /\ Overlapping \in BOOLEAN

VARIABLES
  plans,      \* the plan of each application
  upcoming,   \* deadlines up to here are due soon
  reminders,  \* application_reminders
  cycle,      \* where each maintenance cycle is, with what it has read
  txn         \* where each request is, with what it has read

vars == <<plans, upcoming, reminders, cycle, txn>>

-----------------------------------------------------------------------------
Idle == [at |-> "idle"]

Horizon == {0} \cup Due

Write == [op : {"dismiss"}] \cup [op : {"create", "rename"}, action : Action \cup {None}]

Loaded == UNION {[K -> Row] : K \in SUBSET Key}
LoadedPlans == UNION {[A -> Plan] : A \in SUBSET Application}
Writes == UNION {[K -> Write] : K \in SUBSET Key}

Judging == [at : {"judging"}, horizon : Horizon, rows : Loaded, todo : SUBSET Key,
            stale : SUBSET Key, held : LoadedPlans]
Looking == [at : {"looking"}, rows : Loaded, stale : SUBSET Key, due : LoadedPlans]
Writing == [at : {"writing"}, writes : Writes]
Setting == [at : {"setting"}, key : Key, loaded : Row, status : UserStatus]

TypeOK ==
  /\ plans \in [Application -> Plan]
  /\ upcoming \in Horizon
  /\ reminders \in [Key -> Row]
  /\ cycle \in [Runner -> {Idle} \cup Judging \cup Looking \cup Writing]
  /\ txn \in [Request -> {Idle} \cup Setting]

Init ==
  /\ plans = [a \in Application |-> NoPlan]
  /\ upcoming = 0
  /\ reminders = [k \in Key |-> Absent]
  /\ cycle = [m \in Runner |-> Idle]
  /\ txn = [q \in Request |-> Idle]

-----------------------------------------------------------------------------
MayBegin ==
  Overlapping \/ ((\A m \in Runner : cycle[m] = Idle) /\ (\A q \in Request : txn[q] = Idle))

\* Tracking commits a plan; Applications says how, and that overlapping
\* requests may even take an application out of a terminal status.
PlanChanges(a, p) ==
  /\ MayBegin
  /\ plans' = [plans EXCEPT ![a] = p]
  /\ UNCHANGED <<upcoming, reminders, cycle, txn>>

TimePasses(d) ==
  /\ d > upcoming
  /\ upcoming' = d
  /\ UNCHANGED <<plans, reminders, cycle, txn>>

-----------------------------------------------------------------------------
(***************************************************************************)
(* ApplicationReminderRepository.reconcile                                 *)
(***************************************************************************)
Goes(m, c) == cycle' = [cycle EXCEPT ![m] = c]

OpenKeys == {k \in Key : Open(reminders[k])}

\* The first query has a limit and no order: any open reminders.
Batches == {batch \in SUBSET OpenKeys :
              \/ Cardinality(batch) = Limit
              \/ batch = OpenKeys /\ Cardinality(batch) < Limit}

Begins(m, batch) ==
  /\ MayBegin
  /\ cycle[m] = Idle
  /\ Goes(m, [at |-> "judging", horizon |-> upcoming,
              rows |-> [k \in batch |-> reminders[k]],
              todo |-> batch, stale |-> {}, held |-> [a \in {} |-> NoPlan]])
  /\ UNCHANGED <<plans, upcoming, reminders, txn>>

\* An application that is still referenced from the last judgement keeps the
\* attributes it was loaded with; every other one is read now.
SeenPlan(c, a) == IF a \in DOMAIN c.held THEN c.held[a] ELSE plans[a]

\* Faulty: only a changed deadline supersedes a reminder.
JudgesByDeadline(m, k) ==
  LET c == cycle[m]
      p == SeenPlan(c, k[1])
  IN
  /\ c.at = "judging"
  /\ k \in c.todo
  /\ Goes(m, [c EXCEPT !.todo = @ \ {k},
                       !.stale = IF p.due # k[2] THEN @ \cup {k} ELSE @,
                       !.held = [a \in {k[1]} |-> p]])
  /\ UNCHANGED <<plans, upcoming, reminders, txn>>

Judges(m, k) ==
  LET c == cycle[m]
      p == SeenPlan(c, k[1])
  IN
  /\ c.at = "judging"
  /\ k \in c.todo
  /\ Goes(m, [c EXCEPT !.todo = @ \ {k},
                       !.stale = IF Superseded(p, k) THEN @ \cup {k} ELSE @,
                       !.held = [a \in {k[1]} |-> p]])
  /\ UNCHANGED <<plans, upcoming, reminders, txn>>

\* ORDER BY next_action_due_at, id
Before(a, b) ==
  \/ plans[a].due < plans[b].due
  \/ plans[a].due = plans[b].due /\ a < b

\* The second query: the first applications by deadline, among those that are
\* due soon, whether or not they have their reminder.
Selects(m) ==
  LET c == cycle[m]
      eligible == {a \in Application : DueSoon(plans[a], c.horizon)}
      first == {a \in eligible : Cardinality({b \in eligible : Before(b, a)}) < Limit}
  IN
  /\ c.at = "judging"
  /\ c.todo = {}
  /\ Goes(m, [at |-> "looking", rows |-> c.rows, stale |-> c.stale,
              due |-> [a \in first |-> SeenPlan(c, a)]])
  /\ UNCHANGED <<plans, upcoming, reminders, txn>>

\* The reminder of a plan: the loaded object if it was in the first batch.
SeenReminder(c, k) == IF k \in DOMAIN c.rows THEN c.rows[k] ELSE reminders[k]

\* Faulty: the text of a dismissed reminder is kept up to date as well.
RenamesEvenDismissed(c, k, p) ==
  /\ SeenReminder(c, k) # Absent
  /\ SeenReminder(c, k).action # p.action

Renames(c, k, p) ==
  /\ Open(SeenReminder(c, k)) /\ k \notin c.stale
  /\ SeenReminder(c, k).action # p.action

Looks(m) ==
  LET c == cycle[m]
      planOf(k) == c.due[k[1]]
      planned == {k \in Key : k[1] \in DOMAIN c.due /\ k[2] = planOf(k).due}
      created == {k \in planned : SeenReminder(c, k) = Absent /\ FillsColumns(planOf(k))}
      renamed == {k \in planned : SeenReminder(c, k) # Absent /\ Renames(c, k, planOf(k))}
  IN
  /\ c.at = "looking"
  /\ Goes(m, [at |-> "writing",
              writes |-> [k \in c.stale \cup created \cup renamed |->
                            IF k \in created THEN [op |-> "create", action |-> planOf(k).action]
                            ELSE IF k \in renamed
                              THEN [op |-> "rename", action |-> planOf(k).action]
                            ELSE [op |-> "dismiss"]]])
  /\ UNCHANGED <<plans, upcoming, reminders, txn>>

\* An UPDATE to NULL fails, and with it the transaction.
Acceptable(w) == w.op = "rename" => w.action # None

Commits(m) ==
  LET c == cycle[m] IN
  /\ c.at = "writing"
  /\ \A k \in DOMAIN c.writes : Acceptable(c.writes[k])
  /\ reminders' = [k \in Key |-> IF k \in DOMAIN c.writes
                                 THEN Reconciled(c.writes[k], reminders[k])
                                 ELSE reminders[k]]
  /\ Goes(m, Idle)
  /\ UNCHANGED <<plans, upcoming, txn>>

\* A cycle that is cut off leaves nothing behind, so that it is enough to let
\* it fail when it has read everything.
CutOff(m) ==
  /\ cycle[m].at = "writing"
  /\ Goes(m, Idle)
  /\ UNCHANGED <<plans, upcoming, reminders, txn>>

-----------------------------------------------------------------------------
(***************************************************************************)
(* ApplicationReminderRepository.set_status                                *)
(***************************************************************************)
SetReads(q, k, status) ==
  /\ MayBegin
  /\ txn[q] = Idle
  /\ reminders[k] # Absent
  /\ txn' = [txn EXCEPT ![q] = [at |-> "setting", key |-> k, loaded |-> reminders[k],
                                status |-> status]]
  /\ UNCHANGED <<plans, upcoming, reminders, cycle>>

SetWrites(q) ==
  LET t == txn[q] IN
  /\ t.at = "setting"
  /\ reminders' = [reminders EXCEPT ![t.key] = SetRow(t.loaded, @, t.status)]
  /\ txn' = [txn EXCEPT ![q] = Idle]
  /\ UNCHANGED <<plans, upcoming, cycle>>

-----------------------------------------------------------------------------
CycleReads(m) ==
  \/ \E k \in Key : Judges(m, k)
  \/ Selects(m)
  \/ Looks(m)

Next ==
  \/ \E a \in Application, p \in Plan : PlanChanges(a, p)
  \/ \E d \in Due : TimePasses(d)
  \/ \E m \in Runner :
       \/ \E batch \in Batches : Begins(m, batch)
       \/ CycleReads(m)
       \/ Commits(m)
       \/ CutOff(m)
  \/ \E q \in Request :
       \/ \E k \in Key, status \in UserStatus : SetReads(q, k, status)
       \/ SetWrites(q)

Spec == Init /\ [][Next]_vars

\* Maintenance is scheduled (docs/operations/background-tasks.md), a cycle that
\* has begun goes on, and not every cycle is cut off.  Nothing is assumed of
\* users, of the clock, or of which open reminders a limited query returns.
MaintenanceIsScheduled ==
  \A m \in Runner :
    /\ WF_vars(\E batch \in Batches : Begins(m, batch))
    /\ WF_vars(CycleReads(m))
    /\ SF_vars(Commits(m))

FairSpec == Spec /\ MaintenanceIsScheduled

-----------------------------------------------------------------------------
(***************************************************************************)
(* Properties                                                              *)
(***************************************************************************)
\* The state of a reminder is its user's (docs/architecture/0029): without a
\* request, whatever cycles overlap, a reminder keeps its status or becomes
\* dismissed, and one that is dismissed stays so.
CyclesOnlyDismiss ==
  [][txn' = txn => \A k \in Key :
       reminders[k] # Absent =>
         reminders'[k].status \in {reminders[k].status, "dismissed"}]_vars

\* Without overlap the dates tell the status: a dismissed reminder has
\* dismissed_at and no other has, and one that is unread has no read_at
\* (set_status and reconcile each maintain both).
DatesMatchStatus ==
  \A k \in Key : reminders[k] # Absent =>
    /\ reminders[k].dismissedAt <=> reminders[k].status = "dismissed"
    /\ reminders[k].status = "read" => reminders[k].readAt
    /\ reminders[k].status = "unread" => ~reminders[k].readAt

Policy == INSTANCE ReminderPolicy

\* Without overlap, and with a limit that nothing reaches, a cycle reconciles
\* every reminder with its plan as in one step.
ImplementsPolicy == Policy!Spec

\* A plan in force has the deadline k[2], and it is due soon.
Wanted(k) ==
  /\ k[2] <= upcoming
  /\ ~Superseded(plans[k[1]], k)

\* docs/architecture/0029: deadlines are surfaced reliably.  A plan that stays
\* due soon has a reminder in the end, though its user may have dismissed it.
EveryDeadlineIsSurfaced ==
  \A k \in Key : <>[]Wanted(k) => <>(reminders[k] # Absent)

\* docs/architecture/0029: a changed or cleared deadline, a removed action or a
\* terminal status dismisses the superseded reminder, each time it is open.
SupersededIsDismissed ==
  \A k \in Key : <>[]Superseded(plans[k[1]], k) => []<>~Open(reminders[k])
=============================================================================
