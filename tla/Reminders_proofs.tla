-------------------------- MODULE Reminders_proofs --------------------------
(***************************************************************************)
(* Theorems about Reminders, with their proofs.                            *)
(*                                                                         *)
(* A reminder is never deleted.  So what a cycle or a request has loaded   *)
(* is there when it writes, which is what makes TypeOK inductive.          *)
(***************************************************************************)
EXTENDS Reminders, FiniteSetTheorems, TLAPS

Full == [status : UserStatus, action : Action, readAt : BOOLEAN, dismissedAt : BOOLEAN]

\* A reminder is either absent or complete.
LEMMA RowKinds ==
  /\ \A r \in Row : r # Absent => r \in Full
  /\ Full \subseteq Row
  /\ Absent \in Row
  /\ Absent \notin Full
  /\ \A r \in Row : Open(r) => r # Absent
BY DEF Row, Full, Absent, Open, UserStatus

\* What is loaded exists.
CycleKnows(c) ==
  /\ c.at = "judging" => \A k \in DOMAIN c.rows \cup c.todo \cup c.stale : reminders[k] # Absent
  /\ c.at = "looking" => \A k \in DOMAIN c.rows \cup c.stale : reminders[k] # Absent
  /\ c.at = "writing" => \A k \in DOMAIN c.writes :
       /\ c.writes[k].op # "create" => reminders[k] # Absent
       /\ c.writes[k].op = "create" => c.writes[k].action \in Action

IInv ==
  /\ TypeOK
  /\ \A m \in Runner : CycleKnows(cycle[m])
  /\ \A q \in Request : txn[q].at = "setting" => reminders[txn[q].key] # Absent

\* A cycle that does not move still knows what it knew as long as no reminder
\* disappears.
LEMMA KnowledgeIsKept ==
  ASSUME IInv, NEW n \in Runner, cycle'[n] = cycle[n],
         \A k \in Key : reminders[k] # Absent => reminders'[k] # Absent
  PROVE  CycleKnows(cycle[n])'
<1> DEFINE c == cycle[n]
<1>1. CycleKnows(c) /\ c \in {Idle} \cup Judging \cup Looking \cup Writing
  BY DEF IInv, TypeOK
<1>2. CASE c = Idle  BY <1>2 DEF CycleKnows, Idle
<1>3. CASE c \in Judging
  <2>1. DOMAIN c.rows \cup c.todo \cup c.stale \subseteq Key
    BY <1>3 DEF Judging, Loaded
  <2> QED  BY <1>1, <1>3, <2>1 DEF CycleKnows, Judging
<1>4. CASE c \in Looking
  <2>1. DOMAIN c.rows \cup c.stale \subseteq Key  BY <1>4 DEF Looking, Loaded
  <2> QED  BY <1>1, <1>4, <2>1 DEF CycleKnows, Looking
<1>5. CASE c \in Writing
  <2>1. DOMAIN c.writes \subseteq Key  BY <1>5 DEF Writing, Writes
  <2> QED  BY <1>1, <1>5, <2>1 DEF CycleKnows, Writing
<1> QED  BY <1>1, <1>2, <1>3, <1>4, <1>5

\* What is left to show of a step in which only one cycle moves on and no table
\* changes.
LEMMA CycleMoves ==
  ASSUME IInv, NEW m \in Runner,
         NEW c \in {Idle} \cup Judging \cup Looking \cup Writing, CycleKnows(c),
         Goes(m, c), UNCHANGED <<plans, upcoming, reminders, txn>>
  PROVE  IInv'
<1>1. cycle'[m] = c /\ \A n \in Runner \ {m} : cycle'[n] = cycle[n]
  BY DEF Goes, IInv, TypeOK
<1>2. cycle' \in [Runner -> {Idle} \cup Judging \cup Looking \cup Writing]
  BY DEF Goes, IInv, TypeOK
<1>3. \A n \in Runner : CycleKnows(cycle[n])'
  BY <1>1 DEF IInv, CycleKnows
<1>4. TypeOK'  BY <1>2 DEF IInv, TypeOK
<1>5. \A q \in Request : (txn[q].at = "setting" => reminders[txn[q].key] # Absent)'
  BY DEF IInv
<1> QED  BY <1>3, <1>4, <1>5 DEF IInv

-----------------------------------------------------------------------------
LEMMA InvariantHoldsFirst == Init => IInv
<1> SUFFICES ASSUME Init PROVE IInv  OBVIOUS
<1>1. TypeOK  BY RowKinds DEF Init, TypeOK, NoPlan, Plan, Horizon
<1>2. \A m \in Runner : CycleKnows(cycle[m])  BY DEF Init, CycleKnows, Idle
<1>3. \A q \in Request : txn[q].at # "setting"  BY DEF Init, Idle
<1> QED  BY <1>1, <1>2, <1>3 DEF IInv

LEMMA BeginsKeepsInvariant ==
  ASSUME IInv, NEW m \in Runner, NEW batch \in Batches, Begins(m, batch)
  PROVE  IInv'
<1> DEFINE rows == [k \in batch |-> reminders[k]]
           c == [at |-> "judging", horizon |-> upcoming, rows |-> rows,
                 todo |-> batch, stale |-> {}, held |-> [a \in {} |-> NoPlan]]
<1>1. batch \subseteq Key /\ \A k \in batch : Open(reminders[k])  BY DEF Batches, OpenKeys
<1>2. \A k \in batch : reminders[k] \in Row /\ reminders[k] # Absent
  BY <1>1, RowKinds DEF IInv, TypeOK
<1>3. rows \in Loaded
  <2>1. rows \in [batch -> Row]  BY <1>2
  <2> QED  BY <2>1, <1>1 DEF Loaded
<1>4. [a \in {} |-> NoPlan] \in LoadedPlans
  <2>1. [a \in {} |-> NoPlan] \in [{} -> Plan]  OBVIOUS
  <2>2. {} \in SUBSET Application  OBVIOUS
  <2> QED  BY <2>1, <2>2 DEF LoadedPlans
<1>5. c \in Judging
  <2> HIDE DEF rows
  <2> QED  BY <1>1, <1>3, <1>4 DEF Judging, IInv, TypeOK
<1>6. CycleKnows(c)  BY <1>2 DEF CycleKnows
<1>7. Goes(m, c) /\ UNCHANGED <<plans, upcoming, reminders, txn>>  BY DEF Begins
<1> HIDE DEF c
<1> QED  BY <1>5, <1>6, <1>7, CycleMoves

\* A plan that a cycle sees is a plan.
LEMMA SeenPlanType ==
  ASSUME TypeOK, NEW c \in Judging, NEW a \in Application
  PROVE  SeenPlan(c, a) \in Plan
BY DEF TypeOK, SeenPlan, Judging, LoadedPlans

LEMMA JudgesKeepsInvariant ==
  ASSUME IInv, NEW m \in Runner, NEW k \in Key, Judges(m, k)
  PROVE  IInv'
<1> DEFINE c == cycle[m]
           p == SeenPlan(c, k[1])
           d == [c EXCEPT !.todo = @ \ {k},
                          !.stale = IF Superseded(p, k) THEN @ \cup {k} ELSE @,
                          !.held = [a \in {k[1]} |-> p]]
<1>1. c \in Judging
  BY DEF Judges, IInv, TypeOK, Idle, Looking, Writing
<1>2. k[1] \in Application  BY DEF Key
<1>3. p \in Plan  BY <1>1, <1>2, SeenPlanType DEF IInv
<1>4. [a \in {k[1]} |-> p] \in LoadedPlans
  <2> HIDE DEF p
  <2>1. [a \in {k[1]} |-> p] \in [{k[1]} -> Plan]  BY <1>3
  <2>2. {k[1]} \in SUBSET Application  BY <1>2
  <2> QED  BY <2>1, <2>2 DEF LoadedPlans
<1>5. d \in Judging
  <2> HIDE DEF p, c
  <2> QED  BY <1>1, <1>4 DEF Judging
<1>6. /\ d.at = "judging" /\ d.rows = c.rows
      /\ d.todo \subseteq c.todo /\ d.stale \subseteq c.stale \cup {k}
  <2> HIDE DEF p, c
  <2> QED  BY <1>1 DEF Judging
<1>7. k \in c.todo  BY DEF Judges
<1>8. CycleKnows(c)  BY DEF IInv
<1>9. CycleKnows(d)
  <2> HIDE DEF d
  <2> QED  BY <1>1, <1>6, <1>7, <1>8 DEF CycleKnows, Judging
<1>10. Goes(m, d) /\ UNCHANGED <<plans, upcoming, reminders, txn>>  BY DEF Judges
<1> HIDE DEF d
<1> QED  BY <1>5, <1>9, <1>10, CycleMoves

LEMMA SelectsKeepsInvariant ==
  ASSUME IInv, NEW m \in Runner, Selects(m)
  PROVE  IInv'
<1> DEFINE c == cycle[m]
           eligible == {a \in Application : DueSoon(plans[a], c.horizon)}
           first == {a \in eligible : Cardinality({b \in eligible : Before(b, a)}) < Limit}
           due == [a \in first |-> SeenPlan(c, a)]
           d == [at |-> "looking", rows |-> c.rows, stale |-> c.stale, due |-> due]
<1>1. c \in Judging
  BY DEF Selects, IInv, TypeOK, Idle, Looking, Writing
<1>2. due \in LoadedPlans
  <2>1. first \in SUBSET Application  OBVIOUS
  <2>2. due \in [first -> Plan]
    <3> HIDE DEF c
    <3> QED  BY <1>1, <2>1, SeenPlanType DEF IInv
  <2> HIDE DEF due, first
  <2> QED  BY <2>1, <2>2 DEF LoadedPlans
<1>3. d \in Looking
  <2> HIDE DEF due, c
  <2> QED  BY <1>1, <1>2 DEF Judging, Looking
<1>4. CycleKnows(c)  BY DEF IInv
<1>5. CycleKnows(d)
  <2> HIDE DEF due, c
  <2> QED  BY <1>1, <1>4 DEF CycleKnows, Judging
<1>6. Goes(m, d) /\ UNCHANGED <<plans, upcoming, reminders, txn>>  BY DEF Selects
<1> HIDE DEF d
<1> QED  BY <1>3, <1>5, <1>6, CycleMoves

LEMMA LooksKeepsInvariant ==
  ASSUME IInv, NEW m \in Runner, Looks(m)
  PROVE  IInv'
<1> DEFINE c == cycle[m]
           planOf(k) == c.due[k[1]]
           planned == {k \in Key : k[1] \in DOMAIN c.due /\ k[2] = planOf(k).due}
           created == {k \in planned : SeenReminder(c, k) = Absent /\ FillsColumns(planOf(k))}
           renamed == {k \in planned : SeenReminder(c, k) # Absent /\ Renames(c, k, planOf(k))}
           w(k) == IF k \in created THEN [op |-> "create", action |-> planOf(k).action]
                   ELSE IF k \in renamed THEN [op |-> "rename", action |-> planOf(k).action]
                   ELSE [op |-> "dismiss"]
           keys == c.stale \cup created \cup renamed
           writes == [k \in keys |-> w(k)]
           d == [at |-> "writing", writes |-> writes]
<1>1. c \in Looking
  BY DEF Looks, IInv, TypeOK, Idle, Judging, Writing
<1>2. c.stale \subseteq Key /\ c.due \in LoadedPlans /\ c.rows \in Loaded
  <2> HIDE DEF c
  <2> QED  BY <1>1 DEF Looking
<1>3. \A k \in planned : planOf(k) \in Plan
  <2> HIDE DEF c
  <2> QED  BY <1>2 DEF LoadedPlans
<1>4. \A k \in c.stale \cup DOMAIN c.rows : reminders[k] # Absent
  BY <1>1 DEF IInv, CycleKnows, Looking
<1>5. \A k \in renamed : reminders[k] # Absent
  BY <1>4 DEF SeenReminder
<1>6. \A k \in created : planOf(k).action \in Action
  BY <1>3 DEF FillsColumns, Plan
<1>7. keys \subseteq Key  BY <1>2
<1>8. \A k \in keys : w(k) \in Write
  <2> SUFFICES ASSUME NEW k \in keys PROVE w(k) \in Write  OBVIOUS
  <2>1. CASE k \in created  BY <2>1, <1>6 DEF Write
  <2>2. CASE k \notin created /\ k \in renamed
    <3>1. planOf(k).action \in Action \cup {None}  BY <2>2, <1>3 DEF Plan
    <3> HIDE DEF created, renamed, planOf
    <3> QED  BY <2>2, <3>1 DEF Write
  <2>3. CASE k \notin created /\ k \notin renamed
    <3> HIDE DEF created, renamed, planOf
    <3> QED  BY <2>3 DEF Write
  <2> QED  BY <2>1, <2>2, <2>3
<1>9. d \in Writing
  <2> HIDE DEF w, keys
  <2>1. writes \in [keys -> Write]  BY <1>8
  <2>2. writes \in Writes
    <3> HIDE DEF writes
    <3> QED  BY <2>1, <1>7 DEF Writes
  <2> HIDE DEF writes
  <2> QED  BY <2>2 DEF Writing
<1>10. \A k \in keys :
         /\ w(k).op # "create" => reminders[k] # Absent
         /\ w(k).op = "create" => w(k).action \in Action
  <2> SUFFICES ASSUME NEW k \in keys
               PROVE  /\ w(k).op # "create" => reminders[k] # Absent
                      /\ w(k).op = "create" => w(k).action \in Action
    OBVIOUS
  <2> HIDE DEF created, renamed, planOf, c
  <2>1. CASE k \in created  BY <2>1, <1>6
  <2>2. CASE k \notin created /\ k \in renamed  BY <2>2, <1>5
  <2>3. CASE k \notin created /\ k \notin renamed  BY <2>3, <1>4
  <2> QED  BY <2>1, <2>2, <2>3
<1>11. CycleKnows(d)
  <2> HIDE DEF w, keys
  <2> QED  BY <1>10 DEF CycleKnows
<1>12. Goes(m, d) /\ UNCHANGED <<plans, upcoming, reminders, txn>>  BY DEF Looks
<1> HIDE DEF d
<1> QED  BY <1>9, <1>11, <1>12, CycleMoves

-----------------------------------------------------------------------------
\* What a cycle writes is a complete reminder, which keeps its status or is
\* dismissed.
LEMMA ReconciledRow ==
  ASSUME NEW write \in Write, NEW row \in Row, Acceptable(write),
         write.op # "create" => row # Absent,
         write.op = "create" => write.action \in Action
  PROVE  /\ Reconciled(write, row) \in Row
         /\ Reconciled(write, row) # Absent
         /\ row # Absent => Reconciled(write, row).status \in {row.status, "dismissed"}
<1> DEFINE result == Reconciled(write, row)
<1>1. SUFFICES /\ result \in Full
               /\ row # Absent => result.status \in {row.status, "dismissed"}
  BY RowKinds
<1>2. row # Absent => row \in Full  BY RowKinds
<1>3. CASE write.op = "dismiss"
  <2>1. result = [row EXCEPT !.status = "dismissed", !.dismissedAt = TRUE]
    BY <1>3 DEF Reconciled
  <2> QED  BY <1>2, <1>3, <2>1 DEF Full, UserStatus
<1>4. CASE write.op = "create"
  <2>1. result = IF row = Absent THEN NewRow(write.action) ELSE row
    BY <1>4 DEF Reconciled
  <2> QED  BY <1>2, <1>4, <2>1 DEF Full, NewRow, UserStatus
<1>5. CASE write.op = "rename"
  <2>1. result = [row EXCEPT !.action = write.action]
    BY <1>5 DEF Reconciled
  <2>2. write.action \in Action  BY <1>5 DEF Acceptable, Write
  <2> QED  BY <1>2, <1>5, <2>1, <2>2 DEF Full
<1> QED  BY <1>3, <1>4, <1>5 DEF Write

\* What a cycle commits: complete reminders, none of which is new to its user.
LEMMA CommitsReminders ==
  ASSUME IInv, NEW m \in Runner, Commits(m)
  PROVE  /\ reminders' \in [Key -> Row]
         /\ \A k \in Key : reminders[k] # Absent =>
              /\ reminders'[k] # Absent
              /\ reminders'[k].status \in {reminders[k].status, "dismissed"}
<1> DEFINE c == cycle[m]
<1>1. c \in Writing
  BY DEF Commits, IInv, TypeOK, Idle, Judging, Looking
<1>2. c.writes \in Writes  BY <1>1 DEF Writing
<1>3. \A k \in DOMAIN c.writes : c.writes[k] \in Write
  <2> HIDE DEF c
  <2> QED  BY <1>2 DEF Writes
<1>4. c.at = "writing"  BY DEF Commits
<1>5. CycleKnows(c)  BY DEF IInv
<1>6. \A k \in DOMAIN c.writes :
        /\ c.writes[k].op # "create" => reminders[k] # Absent
        /\ c.writes[k].op = "create" => c.writes[k].action \in Action
  <2> HIDE DEF c
  <2> QED  BY <1>4, <1>5 DEF CycleKnows
<1>7. \A k \in DOMAIN c.writes : Acceptable(c.writes[k])  BY DEF Commits
<1>8. \A k \in Key : reminders[k] \in Row  BY DEF IInv, TypeOK
<1>9. \A k \in Key : k \in DOMAIN c.writes =>
        /\ Reconciled(c.writes[k], reminders[k]) \in Row
        /\ Reconciled(c.writes[k], reminders[k]) # Absent
        /\ reminders[k] # Absent =>
             Reconciled(c.writes[k], reminders[k]).status \in {reminders[k].status, "dismissed"}
  <2> SUFFICES ASSUME NEW k \in Key, k \in DOMAIN c.writes
               PROVE  /\ Reconciled(c.writes[k], reminders[k]) \in Row
                      /\ Reconciled(c.writes[k], reminders[k]) # Absent
                      /\ reminders[k] # Absent =>
                           Reconciled(c.writes[k], reminders[k]).status
                             \in {reminders[k].status, "dismissed"}
    OBVIOUS
  <2> HIDE DEF c
  <2> QED  BY <1>3, <1>6, <1>7, <1>8, ReconciledRow
<1>10. reminders' = [k \in Key |-> IF k \in DOMAIN c.writes
                                   THEN Reconciled(c.writes[k], reminders[k])
                                   ELSE reminders[k]]
  BY DEF Commits
<1> HIDE DEF c
<1>11. \A k \in Key : reminders'[k] = IF k \in DOMAIN c.writes
                                      THEN Reconciled(c.writes[k], reminders[k])
                                      ELSE reminders[k]
  BY <1>10
<1>12. reminders' \in [Key -> Row]  BY <1>8, <1>9, <1>10
<1> QED  BY <1>9, <1>11, <1>12

LEMMA CommitsKeepsInvariant ==
  ASSUME IInv, NEW m \in Runner, Commits(m)
  PROVE  IInv'
<1>1. reminders' \in [Key -> Row]  BY CommitsReminders
<1>2. \A k \in Key : reminders[k] # Absent => reminders'[k] # Absent  BY CommitsReminders
<1>3. cycle' = [cycle EXCEPT ![m] = Idle] /\ UNCHANGED <<plans, upcoming, txn>>
  BY DEF Commits, Goes
<1>5. cycle' \in [Runner -> {Idle} \cup Judging \cup Looking \cup Writing]
  BY <1>3 DEF IInv, TypeOK
<1>6. TypeOK'  BY <1>1, <1>3, <1>5 DEF IInv, TypeOK
<1>7. \A n \in Runner : CycleKnows(cycle[n])'
  <2> SUFFICES ASSUME NEW n \in Runner PROVE CycleKnows(cycle[n])'  OBVIOUS
  <2>1. CASE n = m
    <3>1. cycle'[n] = Idle  BY <2>1, <1>3 DEF IInv, TypeOK
    <3> QED  BY <3>1 DEF CycleKnows, Idle
  <2>2. CASE n # m
    <3>1. cycle'[n] = cycle[n]  BY <2>2, <1>3 DEF IInv, TypeOK
    <3> QED  BY <1>2, <3>1, KnowledgeIsKept
  <2> QED  BY <2>1, <2>2
<1>8. \A q \in Request : (txn[q].at = "setting" => reminders[txn[q].key] # Absent)'
  BY <1>2, <1>3 DEF IInv, TypeOK, Setting, Idle
<1> QED  BY <1>6, <1>7, <1>8 DEF IInv

LEMMA CutOffKeepsInvariant ==
  ASSUME IInv, NEW m \in Runner, CutOff(m)
  PROVE  IInv'
<1>1. CycleKnows(Idle)  BY DEF CycleKnows, Idle
<1>2. Goes(m, Idle) /\ UNCHANGED <<plans, upcoming, reminders, txn>>  BY DEF CutOff
<1> QED  BY <1>1, <1>2, CycleMoves

-----------------------------------------------------------------------------
\* Steps in which nothing changes but plans, the horizon and requests leave what
\* cycles know.
LEMMA OthersLeaveCycles ==
  ASSUME IInv, UNCHANGED <<cycle, reminders>>
  PROVE  \A n \in Runner : CycleKnows(cycle[n])'
<1> SUFFICES ASSUME NEW n \in Runner PROVE CycleKnows(cycle[n])'  OBVIOUS
<1> QED  BY KnowledgeIsKept

LEMMA PlanChangesKeepsInvariant ==
  ASSUME IInv, NEW a \in Application, NEW p \in Plan, PlanChanges(a, p)
  PROVE  IInv'
<1>1. TypeOK'  BY DEF IInv, TypeOK, PlanChanges
<1>2. \A n \in Runner : CycleKnows(cycle[n])'  BY OthersLeaveCycles DEF PlanChanges
<1> QED  BY <1>1, <1>2 DEF IInv, PlanChanges

LEMMA TimePassesKeepsInvariant ==
  ASSUME IInv, NEW d \in Due, TimePasses(d)
  PROVE  IInv'
<1>1. TypeOK'  BY DEF IInv, TypeOK, TimePasses, Horizon
<1>2. \A n \in Runner : CycleKnows(cycle[n])'  BY OthersLeaveCycles DEF TimePasses
<1> QED  BY <1>1, <1>2 DEF IInv, TimePasses

LEMMA SetReadsKeepsInvariant ==
  ASSUME IInv, NEW q \in Request, NEW k \in Key, NEW status \in UserStatus,
         SetReads(q, k, status)
  PROVE  IInv'
<1> DEFINE t == [at |-> "setting", key |-> k, loaded |-> reminders[k], status |-> status]
<1>1. t \in Setting  BY DEF IInv, TypeOK, Setting
<1>2. txn' = [txn EXCEPT ![q] = t] /\ UNCHANGED <<plans, upcoming, reminders, cycle>>
  BY DEF SetReads
<1>3. t.key = k /\ reminders[k] # Absent  BY DEF SetReads
<1> HIDE DEF t
<1>4. TypeOK'
  <2>1. txn' \in [Request -> {Idle} \cup Setting]  BY <1>1, <1>2 DEF IInv, TypeOK
  <2> QED  BY <1>2, <2>1 DEF IInv, TypeOK
<1>5. \A n \in Runner : CycleKnows(cycle[n])'  BY <1>2, OthersLeaveCycles
<1>6. \A r \in Request : (txn[r].at = "setting" => reminders[txn[r].key] # Absent)'
  BY <1>2, <1>3 DEF IInv, TypeOK
<1> QED  BY <1>4, <1>5, <1>6 DEF IInv

LEMMA SetWritesKeepsInvariant ==
  ASSUME IInv, NEW q \in Request, SetWrites(q)
  PROVE  /\ IInv'
         /\ txn' # txn
<1> DEFINE t == txn[q]
           new == SetRow(t.loaded, reminders[t.key], t.status)
<1>1. t \in Setting /\ t.at = "setting"  BY DEF SetWrites, IInv, TypeOK, Idle
<1>2. t.key \in Key /\ t.loaded \in Row /\ t.status \in UserStatus
  BY <1>1 DEF Setting
<1>3. reminders[t.key] \in Full  BY <1>1, <1>2, RowKinds DEF IInv, TypeOK
<1>4. new \in Full
  <2> HIDE DEF t
  <2> QED  BY <1>2, <1>3 DEF SetRow, Full
<1>5. new \in Row /\ new # Absent
  <2> HIDE DEF new
  <2> QED  BY <1>4, RowKinds
<1>6. /\ reminders' = [reminders EXCEPT ![t.key] = new]
      /\ txn' = [txn EXCEPT ![q] = Idle]
      /\ UNCHANGED <<plans, upcoming, cycle>>
  BY <1>2 DEF SetWrites, IInv, TypeOK
<1> HIDE DEF new
<1>7. txn'[q] = Idle /\ \A r \in Request \ {q} : txn'[r] = txn[r]
  BY <1>6 DEF IInv, TypeOK
<1>8. txn' # txn  BY <1>1, <1>7 DEF Idle
<1>9. \A k \in Key : reminders[k] # Absent => reminders'[k] # Absent
  BY <1>5, <1>6 DEF IInv, TypeOK
<1>10. TypeOK'
  <2>1. reminders' \in [Key -> Row]  BY <1>2, <1>5, <1>6 DEF IInv, TypeOK
  <2>2. txn' \in [Request -> {Idle} \cup Setting]  BY <1>6 DEF IInv, TypeOK
  <2> QED  BY <1>6, <2>1, <2>2 DEF IInv, TypeOK
<1>11. \A n \in Runner : CycleKnows(cycle[n])'
  <2> SUFFICES ASSUME NEW n \in Runner PROVE CycleKnows(cycle[n])'  OBVIOUS
  <2> QED  BY <1>6, <1>9, KnowledgeIsKept
<1>12. \A r \in Request : (txn[r].at = "setting" => reminders[txn[r].key] # Absent)'
  BY <1>7, <1>9 DEF IInv, TypeOK, Setting, Idle
<1> QED  BY <1>8, <1>10, <1>11, <1>12 DEF IInv

LEMMA InvariantIsInductive == IInv /\ [Next]_vars => IInv'
<1> SUFFICES ASSUME IInv, [Next]_vars PROVE IInv'  OBVIOUS
<1>1. ASSUME NEW a \in Application, NEW p \in Plan, PlanChanges(a, p) PROVE IInv'
  BY <1>1, PlanChangesKeepsInvariant
<1>2. ASSUME NEW d \in Due, TimePasses(d) PROVE IInv'
  BY <1>2, TimePassesKeepsInvariant
<1>3. ASSUME NEW m \in Runner, NEW batch \in Batches, Begins(m, batch) PROVE IInv'
  BY <1>3, BeginsKeepsInvariant
<1>4. ASSUME NEW m \in Runner, NEW k \in Key, Judges(m, k) PROVE IInv'
  BY <1>4, JudgesKeepsInvariant
<1>5. ASSUME NEW m \in Runner, Selects(m) PROVE IInv'  BY <1>5, SelectsKeepsInvariant
<1>6. ASSUME NEW m \in Runner, Looks(m) PROVE IInv'  BY <1>6, LooksKeepsInvariant
<1>7. ASSUME NEW m \in Runner, Commits(m) PROVE IInv'  BY <1>7, CommitsKeepsInvariant
<1>8. ASSUME NEW m \in Runner, CutOff(m) PROVE IInv'  BY <1>8, CutOffKeepsInvariant
<1>9. ASSUME NEW q \in Request, NEW k \in Key, NEW status \in UserStatus,
             SetReads(q, k, status)
      PROVE  IInv'
  BY <1>9, SetReadsKeepsInvariant
<1>10. ASSUME NEW q \in Request, SetWrites(q) PROVE IInv'
  BY <1>10, SetWritesKeepsInvariant
<1>11. CASE UNCHANGED vars
  <2>1. TypeOK'  BY <1>11 DEF vars, IInv, TypeOK
  <2>2. \A n \in Runner : CycleKnows(cycle[n])'  BY <1>11, OthersLeaveCycles DEF vars
  <2> QED  BY <1>11, <2>1, <2>2 DEF vars, IInv
<1> QED
  BY <1>1, <1>2, <1>3, <1>4, <1>5, <1>6, <1>7, <1>8, <1>9, <1>10, <1>11
  DEF Next, CycleReads

-----------------------------------------------------------------------------
\* What is loaded exists, in every reachable state: no reminder is ever deleted.
THEOREM Invariance == Spec => []IInv
<1>1. Init => IInv  BY InvariantHoldsFirst
<1>2. IInv /\ [Next]_vars => IInv'  BY InvariantIsInductive
<1> QED  BY <1>1, <1>2, PTL DEF Spec

\* Every reminder is complete in every reachable state, however cycles, requests
\* and changes of plans overlap, for every limit of the queries.
THEOREM TypeCorrect == Spec => []TypeOK
<1>1. IInv => TypeOK  BY DEF IInv
<1> QED  BY <1>1, Invariance, PTL

\* Without its user's request a reminder keeps its status or is dismissed,
\* however many cycles overlap (reconcile never reopens one).
THEOREM StatusIsTheUsers == Spec => CyclesOnlyDismiss
<1> DEFINE Kept == txn' = txn => \A k \in Key :
                     reminders[k] # Absent =>
                       reminders'[k].status \in {reminders[k].status, "dismissed"}
<1>1. IInv /\ [Next]_vars => [Kept]_vars
  <2> SUFFICES ASSUME IInv, [Next]_vars PROVE Kept  OBVIOUS
  <2>1. ASSUME NEW m \in Runner, Commits(m) PROVE Kept
    BY <2>1, CommitsReminders
  <2>2. ASSUME NEW q \in Request, SetWrites(q) PROVE Kept
    BY <2>2, SetWritesKeepsInvariant
  <2>3. CASE UNCHANGED reminders  BY <2>3
  <2> HIDE DEF Kept
  <2> QED
    BY <2>1, <2>2, <2>3
    DEF Next, CycleReads, PlanChanges, TimePasses, Begins, Judges, Selects, Looks, CutOff,
        SetReads, vars
<1>2. [][Kept]_vars => CyclesOnlyDismiss  BY DEF CyclesOnlyDismiss
<1> HIDE DEF Kept
<1> QED  BY <1>1, <1>2, Invariance, PTL DEF Spec

-----------------------------------------------------------------------------
(***************************************************************************)
(* Without overlap, what a request has loaded is what the row still says.  *)
(***************************************************************************)
RequestAlone ==
  \A q \in Request : txn[q] # Idle =>
    /\ \A m \in Runner : cycle[m] = Idle
    /\ \A r \in Request \ {q} : txn[r] = Idle

LoadedIsCurrent ==
  \A q \in Request : txn[q].at = "setting" => txn[q].loaded = reminders[txn[q].key]

SerialInv == RequestAlone /\ LoadedIsCurrent /\ DatesMatchStatus

\* The dates of one reminder.
Dated(row) ==
  row # Absent =>
    /\ row.dismissedAt <=> row.status = "dismissed"
    /\ row.status = "read" => row.readAt
    /\ row.status = "unread" => ~row.readAt

LEMMA DatesOfEach == DatesMatchStatus <=> \A k \in Key : Dated(reminders[k])
BY DEF DatesMatchStatus, Dated

LEMMA ReconciledIsDated ==
  ASSUME NEW write \in Write, NEW row \in Row, Dated(row),
         write.op # "create" => row # Absent
  PROVE  Dated(Reconciled(write, row))
<1>1. row # Absent => row \in Full  BY RowKinds
<1>2. CASE write.op = "dismiss"
  <2>1. Reconciled(write, row) = [row EXCEPT !.status = "dismissed", !.dismissedAt = TRUE]
    BY <1>2 DEF Reconciled
  <2> QED  BY <1>1, <1>2, <2>1 DEF Full, Dated
<1>3. CASE write.op = "create"
  <2>1. Reconciled(write, row) = IF row = Absent THEN NewRow(write.action) ELSE row
    BY <1>3 DEF Reconciled
  <2> QED  BY <2>1 DEF NewRow, Dated
<1>4. CASE write.op = "rename"
  <2>1. Reconciled(write, row) = [row EXCEPT !.action = write.action]
    BY <1>4 DEF Reconciled
  <2> QED  BY <1>1, <1>4, <2>1 DEF Full, Dated
<1> QED  BY <1>2, <1>3, <1>4 DEF Write

LEMMA SetRowIsDated ==
  ASSUME NEW row \in Full, NEW status \in UserStatus
  PROVE  Dated(SetRow(row, row, status))
BY DEF Full, SetRow, Dated, UserStatus

\* A cycle that is under way meets no request.
LEMMA CycleMeetsNoRequest ==
  ASSUME RequestAlone, NEW m \in Runner, cycle[m].at # "idle"
  PROVE  \A q \in Request : txn[q] = Idle
BY DEF RequestAlone, Idle

\* A step that touches neither reminders nor requests while none is under way.
LEMMA TablesUntouched ==
  ASSUME SerialInv, \A q \in Request : txn[q] = Idle, UNCHANGED <<reminders, txn>>
  PROVE  SerialInv'
BY DEF SerialInv, RequestAlone, LoadedIsCurrent, DatesMatchStatus, Idle

LEMMA SerialCommits ==
  ASSUME IInv, SerialInv, NEW m \in Runner, Commits(m)
  PROVE  SerialInv'
<1> DEFINE c == cycle[m]
<1>1. c \in Writing /\ c.at = "writing"
  BY DEF Commits, IInv, TypeOK, Idle, Judging, Looking
<1>2. \A q \in Request : txn[q] = Idle
  BY <1>1, CycleMeetsNoRequest DEF SerialInv
<1>3. \A k \in DOMAIN c.writes :
        /\ c.writes[k] \in Write
        /\ c.writes[k].op # "create" => reminders[k] # Absent
  <2>1. CycleKnows(c)  BY DEF IInv
  <2> HIDE DEF c
  <2> QED  BY <1>1, <2>1 DEF CycleKnows, Writing, Writes
<1>4. \A k \in Key : reminders[k] \in Row /\ Dated(reminders[k])
  BY DatesOfEach DEF IInv, TypeOK, SerialInv
<1>5. \A k \in Key : k \in DOMAIN c.writes => Dated(Reconciled(c.writes[k], reminders[k]))
  <2> HIDE DEF c
  <2> QED  BY <1>3, <1>4, ReconciledIsDated
<1>6. \A k \in Key : reminders'[k] = IF k \in DOMAIN c.writes
                                     THEN Reconciled(c.writes[k], reminders[k])
                                     ELSE reminders[k]
  BY DEF Commits
<1>7. \A k \in Key : Dated(reminders'[k])
  <2> HIDE DEF c
  <2> QED  BY <1>4, <1>5, <1>6
<1>8. DatesMatchStatus'  BY <1>7 DEF DatesMatchStatus, Dated
<1>9. txn' = txn  BY DEF Commits
<1> QED  BY <1>2, <1>8, <1>9 DEF SerialInv, RequestAlone, LoadedIsCurrent, Idle

LEMMA SerialSetReads ==
  ASSUME Overlapping = FALSE, IInv, SerialInv, NEW q \in Request, NEW k \in Key,
         NEW status \in UserStatus, SetReads(q, k, status)
  PROVE  SerialInv'
<1>1. (\A m \in Runner : cycle[m] = Idle) /\ (\A r \in Request : txn[r] = Idle)
  BY DEF SetReads, MayBegin
<1> DEFINE t == [at |-> "setting", key |-> k, loaded |-> reminders[k], status |-> status]
<1>2. txn' = [txn EXCEPT ![q] = t] /\ UNCHANGED <<cycle, reminders>>  BY DEF SetReads
<1>3. t.loaded = reminders[t.key]  OBVIOUS
<1> HIDE DEF t
<1>4. \A r \in Request : txn'[r] = IF r = q THEN t ELSE Idle
  BY <1>1, <1>2 DEF IInv, TypeOK
<1>5. RequestAlone'  BY <1>1, <1>2, <1>4 DEF RequestAlone
<1>6. LoadedIsCurrent'  BY <1>2, <1>3, <1>4 DEF LoadedIsCurrent, Idle
<1>7. DatesMatchStatus'  BY <1>2 DEF SerialInv, DatesMatchStatus
<1> QED  BY <1>5, <1>6, <1>7 DEF SerialInv

LEMMA SerialSetWrites ==
  ASSUME IInv, SerialInv, NEW q \in Request, SetWrites(q)
  PROVE  SerialInv'
<1> DEFINE t == txn[q]
<1>1. t \in Setting /\ t.at = "setting"  BY DEF SetWrites, IInv, TypeOK, Idle
<1>2. t.key \in Key /\ t.status \in UserStatus  BY <1>1 DEF Setting
<1>3. reminders[t.key] \in Full  BY <1>1, <1>2, RowKinds DEF IInv, TypeOK
<1>4. t.loaded = reminders[t.key]  BY <1>1 DEF SerialInv, LoadedIsCurrent
<1>5. (\A m \in Runner : cycle[m] = Idle) /\ (\A r \in Request \ {q} : txn[r] = Idle)
  BY <1>1 DEF SerialInv, RequestAlone, Idle
<1>6. /\ reminders' = [reminders EXCEPT
                         ![t.key] = SetRow(reminders[t.key], reminders[t.key], t.status)]
      /\ txn' = [txn EXCEPT ![q] = Idle] /\ UNCHANGED cycle
  BY <1>4 DEF SetWrites
<1>7. Dated(SetRow(reminders[t.key], reminders[t.key], t.status))
  BY <1>2, <1>3, SetRowIsDated
<1> HIDE DEF t
<1>8. \A k \in Key : Dated(reminders'[k])
  BY <1>2, <1>6, <1>7, DatesOfEach DEF SerialInv, IInv, TypeOK
<1>9. DatesMatchStatus'  BY <1>8 DEF DatesMatchStatus, Dated
<1>10. \A r \in Request : txn'[r] = Idle  BY <1>5, <1>6 DEF IInv, TypeOK
<1> QED  BY <1>9, <1>10 DEF SerialInv, RequestAlone, LoadedIsCurrent, Idle

LEMMA SerialInductive ==
  ASSUME Overlapping = FALSE, IInv, SerialInv, [Next]_vars
  PROVE  SerialInv'
<1>1. ASSUME NEW a \in Application, NEW p \in Plan, PlanChanges(a, p) PROVE SerialInv'
  BY <1>1, TablesUntouched DEF PlanChanges, MayBegin
<1>2. ASSUME NEW m \in Runner, NEW batch \in Batches, Begins(m, batch) PROVE SerialInv'
  BY <1>2, TablesUntouched DEF Begins, MayBegin
<1>3. ASSUME NEW m \in Runner, CycleReads(m) \/ CutOff(m) PROVE SerialInv'
  <2>1. cycle[m].at # "idle" /\ UNCHANGED <<reminders, txn>>
    BY <1>3 DEF CycleReads, Judges, Selects, Looks, CutOff
  <2> QED  BY <2>1, CycleMeetsNoRequest, TablesUntouched DEF SerialInv
<1>4. ASSUME NEW m \in Runner, Commits(m) PROVE SerialInv'  BY <1>4, SerialCommits
<1>5. ASSUME NEW q \in Request, NEW k \in Key, NEW status \in UserStatus,
             SetReads(q, k, status)
      PROVE  SerialInv'
  BY <1>5, SerialSetReads
<1>6. ASSUME NEW q \in Request, SetWrites(q) PROVE SerialInv'  BY <1>6, SerialSetWrites
<1>7. CASE UNCHANGED <<cycle, reminders, txn>>
  BY <1>7 DEF SerialInv, RequestAlone, LoadedIsCurrent, DatesMatchStatus
<1> QED
  BY <1>1, <1>2, <1>3, <1>4, <1>5, <1>6, <1>7 DEF Next, TimePasses, vars

\* Without overlap the dates of every reminder tell its status, for every number
\* of applications, deadlines and runners (set_status and reconcile agree).
THEOREM DatesTellStatus == ASSUME Overlapping = FALSE PROVE Spec => []DatesMatchStatus
<1>1. Init => SerialInv
  BY DEF Init, SerialInv, RequestAlone, LoadedIsCurrent, DatesMatchStatus, Idle
<1>2. IInv /\ SerialInv /\ [Next]_vars => SerialInv'  BY SerialInductive
<1>3. SerialInv => DatesMatchStatus  BY DEF SerialInv
<1> QED  BY <1>1, <1>2, <1>3, Invariance, PTL DEF Spec

-----------------------------------------------------------------------------
(***************************************************************************)
(* Without overlap, and with a limit that nothing reaches, a cycle is one  *)
(* step of ReminderPolicy: what it has read is still so when it writes.    *)
(***************************************************************************)
NothingExceedsLimit ==
  /\ IsFiniteSet(Key) /\ Cardinality(Key) <= Limit
  /\ IsFiniteSet(Application) /\ Cardinality(Application) <= Limit

OpenRows == [k \in OpenKeys |-> reminders[k]]

PlansDue(horizon) == [a \in {b \in Application : DueSoon(plans[b], horizon)} |-> plans[a]]

Written(writes, k) ==
  IF k \in DOMAIN writes THEN Reconciled(writes[k], reminders[k]) ELSE reminders[k]

\* How far a cycle has come on its way to what the policy calls for.
OnCourse(c) ==
  /\ c.at = "judging" =>
       /\ c.horizon \in 0..upcoming
       /\ c.rows = OpenRows
       /\ c.todo \subseteq OpenKeys
       /\ c.stale = {k \in OpenKeys \ c.todo : Superseded(plans[k[1]], k)}
       /\ \A a \in DOMAIN c.held : c.held[a] = plans[a]
  /\ c.at = "looking" =>
       /\ c.rows = OpenRows
       /\ c.stale = {k \in OpenKeys : Superseded(plans[k[1]], k)}
       /\ \E horizon \in 0..upcoming : c.due = PlansDue(horizon)
  /\ c.at = "writing" =>
       \E horizon \in 0..upcoming : \A k \in Key :
         Written(c.writes, k) = Policy!Follows(plans[k[1]], k, reminders[k], horizon)

CycleAlone ==
  \A m \in Runner : cycle[m] # Idle => \A n \in Runner \ {m} : cycle[n] = Idle

PolicyInv ==
  /\ IInv /\ SerialInv /\ CycleAlone
  /\ \A m \in Runner : OnCourse(cycle[m])

LEMMA IdleIsOnCourse == OnCourse(Idle)
BY DEF OnCourse, Idle

\* One cycle moves on, alone, and the tables stay.
LEMMA CycleMovesOnCourse ==
  ASSUME PolicyInv, NEW m \in Runner, NEW c, OnCourse(c), Goes(m, c),
         \A n \in Runner \ {m} : cycle[n] = Idle,
         UNCHANGED <<plans, upcoming, reminders>>
  PROVE  CycleAlone' /\ \A n \in Runner : OnCourse(cycle[n])'
<1>1. cycle'[m] = c /\ \A n \in Runner \ {m} : cycle'[n] = Idle
  BY DEF Goes, PolicyInv, IInv, TypeOK
<1>2. CycleAlone'  BY <1>1 DEF CycleAlone
<1>3. OnCourse(c)'  BY DEF OnCourse, OpenRows, OpenKeys, PlansDue, Written
<1>4. OnCourse(Idle)'  BY DEF OnCourse, Idle
<1>5. \A n \in Runner : OnCourse(cycle[n])'
  <2> SUFFICES ASSUME NEW n \in Runner PROVE OnCourse(cycle[n])'  OBVIOUS
  <2>1. CASE n = m  BY <2>1, <1>1, <1>3 DEF OnCourse
  <2>2. CASE n # m  BY <2>2, <1>1, <1>4 DEF OnCourse
  <2> QED  BY <2>1, <2>2
<1> QED  BY <1>2, <1>5

\* A step of somebody else that only lets time pass.
LEMMA CyclesStayOnCourse ==
  ASSUME PolicyInv, UNCHANGED <<plans, reminders, cycle>>,
         upcoming \in Nat, upcoming' \in Nat, upcoming <= upcoming'
  PROVE  CycleAlone' /\ \A n \in Runner : OnCourse(cycle[n])'
<1>1. 0..upcoming \subseteq 0..upcoming'  OBVIOUS
<1>2. \A n \in Runner : OnCourse(cycle[n])'
  <2> SUFFICES ASSUME NEW n \in Runner PROVE OnCourse(cycle[n])'  OBVIOUS
  <2>1. OnCourse(cycle[n])  BY DEF PolicyInv
  <2> QED  BY <1>1, <2>1 DEF OnCourse, OpenRows, OpenKeys, PlansDue, Written
<1>3. CycleAlone'  BY DEF CycleAlone, PolicyInv
<1> QED  BY <1>2, <1>3

\* A step after which every cycle is idle.
LEMMA NoCycleIsOnCourse ==
  ASSUME \A n \in Runner : cycle'[n] = Idle
  PROVE  CycleAlone' /\ \A n \in Runner : OnCourse(cycle[n])'
<1>1. CycleAlone'  BY DEF CycleAlone
<1>2. \A n \in Runner : OnCourse(cycle[n])'  BY DEF OnCourse, Idle
<1> QED  BY <1>1, <1>2

LEMMA HorizonIsNatural == ASSUME TypeOK PROVE upcoming \in Nat
BY OrderAssumption DEF TypeOK, Horizon

\* What the limited queries return when they reach no limit: everything.
LEMMA BatchIsAllOpen ==
  ASSUME NothingExceedsLimit, NEW batch \in Batches PROVE batch = OpenKeys
<1>1. OpenKeys \subseteq Key /\ batch \subseteq OpenKeys  BY DEF OpenKeys, Batches
<1>2. IsFiniteSet(OpenKeys) /\ Cardinality(OpenKeys) <= Cardinality(Key)
  BY <1>1, FS_Subset DEF NothingExceedsLimit
<1>3. /\ IsFiniteSet(batch) /\ Cardinality(batch) <= Cardinality(OpenKeys)
      /\ Cardinality(OpenKeys) = Cardinality(batch) => OpenKeys = batch
  BY <1>1, <1>2, FS_Subset
<1>4. Cardinality(batch) \in Nat /\ Cardinality(OpenKeys) \in Nat /\ Cardinality(Key) \in Nat
  BY <1>2, <1>3, FS_CardinalityType DEF NothingExceedsLimit
<1> QED
  BY <1>2, <1>3, <1>4, CycleAssumption DEF Batches, NothingExceedsLimit

LEMMA FirstAreAllDue ==
  ASSUME NothingExceedsLimit, TypeOK, NEW horizon,
         NEW eligible, eligible = {a \in Application : DueSoon(plans[a], horizon)},
         NEW a \in eligible
  PROVE  Cardinality({b \in eligible : Before(b, a)}) < Limit
<1> DEFINE earlier == {b \in eligible : Before(b, a)}
<1>1. a \in Application /\ a \in Nat  BY OrderAssumption
<1>2. plans[a].due \in Nat  BY <1>1, OrderAssumption DEF DueSoon, TypeOK, Plan
<1>3. ~Before(a, a)  BY <1>1, <1>2 DEF Before
<1>4. earlier \subseteq Application \ {a}  BY <1>3
<1>5. /\ IsFiniteSet(Application \ {a})
      /\ Cardinality(Application \ {a}) = Cardinality(Application) - 1
  BY <1>1, FS_RemoveElement DEF NothingExceedsLimit
<1>6. IsFiniteSet(earlier) /\ Cardinality(earlier) <= Cardinality(Application \ {a})
  BY <1>4, <1>5, FS_Subset
<1>7. Cardinality(earlier) \in Nat /\ Cardinality(Application) \in Nat
  BY <1>6, FS_CardinalityType DEF NothingExceedsLimit
<1> QED  BY <1>5, <1>6, <1>7, CycleAssumption DEF NothingExceedsLimit

-----------------------------------------------------------------------------
\* A cycle that has begun is the only one.
LEMMA OtherCyclesAreIdle ==
  ASSUME PolicyInv, NEW m \in Runner, cycle[m].at # "idle"
  PROVE  \A n \in Runner \ {m} : cycle[n] = Idle
BY DEF PolicyInv, CycleAlone, Idle

LEMMA BeginsOnCourse ==
  ASSUME Overlapping = FALSE, NothingExceedsLimit, PolicyInv, NEW m \in Runner,
         NEW batch \in Batches, Begins(m, batch)
  PROVE  CycleAlone' /\ \A n \in Runner : OnCourse(cycle[n])'
<1> DEFINE c == [at |-> "judging", horizon |-> upcoming,
                 rows |-> [k \in batch |-> reminders[k]],
                 todo |-> batch, stale |-> {}, held |-> [a \in {} |-> NoPlan]]
<1>1. \A n \in Runner : cycle[n] = Idle  BY DEF Begins, MayBegin
<1>2. batch = OpenKeys  BY BatchIsAllOpen
<1>3. upcoming \in 0..upcoming  BY HorizonIsNatural DEF PolicyInv, IInv
<1>4. OnCourse(c)
  <2>1. [k \in batch |-> reminders[k]] = OpenRows  BY <1>2 DEF OpenRows
  <2>2. {} = {k \in OpenKeys \ batch : Superseded(plans[k[1]], k)}  BY <1>2
  <2>3. DOMAIN [a \in {} |-> NoPlan] = {}  OBVIOUS
  <2> QED  BY <1>2, <1>3, <2>1, <2>2, <2>3 DEF OnCourse
<1>5. Goes(m, c) /\ UNCHANGED <<plans, upcoming, reminders>>  BY DEF Begins
<1> HIDE DEF c
<1> QED  BY <1>1, <1>4, <1>5, CycleMovesOnCourse

LEMMA JudgesOnCourse ==
  ASSUME PolicyInv, NEW m \in Runner, NEW k \in Key, Judges(m, k)
  PROVE  CycleAlone' /\ \A n \in Runner : OnCourse(cycle[n])'
<1> DEFINE c == cycle[m]
           p == SeenPlan(c, k[1])
           d == [c EXCEPT !.todo = @ \ {k},
                          !.stale = IF Superseded(p, k) THEN @ \cup {k} ELSE @,
                          !.held = [a \in {k[1]} |-> p]]
<1>1. c \in Judging /\ c.at = "judging"
  BY DEF Judges, PolicyInv, IInv, TypeOK, Idle, Looking, Writing
<1>2. OnCourse(c)  BY DEF PolicyInv
<1>3. p = plans[k[1]]  BY <1>1, <1>2 DEF SeenPlan, OnCourse
<1>4. k \in c.todo  BY DEF Judges
<1>5. /\ d.at = "judging" /\ d.rows = c.rows /\ d.horizon = c.horizon
      /\ d.todo = c.todo \ {k}
      /\ d.stale = IF Superseded(plans[k[1]], k) THEN c.stale \cup {k} ELSE c.stale
      /\ d.held = [a \in {k[1]} |-> plans[k[1]]]
  <2> HIDE DEF p, c
  <2> QED  BY <1>1, <1>3 DEF Judging
<1>6. Goes(m, d) /\ UNCHANGED <<plans, upcoming, reminders>>  BY DEF Judges
<1>7. \A n \in Runner \ {m} : cycle[n] = Idle  BY <1>1, OtherCyclesAreIdle
<1> HIDE DEF d
<1>8. OnCourse(d)
  <2> HIDE DEF c
  <2>1. d.stale = {l \in OpenKeys \ d.todo : Superseded(plans[l[1]], l)}
    BY <1>1, <1>2, <1>4, <1>5 DEF OnCourse
  <2>2. \A a \in DOMAIN d.held : d.held[a] = plans[a]  BY <1>5
  <2> QED  BY <1>1, <1>2, <1>5, <2>1, <2>2 DEF OnCourse
<1> QED  BY <1>6, <1>7, <1>8, CycleMovesOnCourse

LEMMA SelectsOnCourse ==
  ASSUME NothingExceedsLimit, PolicyInv, NEW m \in Runner, Selects(m)
  PROVE  CycleAlone' /\ \A n \in Runner : OnCourse(cycle[n])'
<1> DEFINE c == cycle[m]
           eligible == {a \in Application : DueSoon(plans[a], c.horizon)}
           first == {a \in eligible : Cardinality({b \in eligible : Before(b, a)}) < Limit}
           d == [at |-> "looking", rows |-> c.rows, stale |-> c.stale,
                 due |-> [a \in first |-> SeenPlan(c, a)]]
<1>1. c \in Judging /\ c.at = "judging" /\ c.todo = {}
  BY DEF Selects, PolicyInv, IInv, TypeOK, Idle, Looking, Writing
<1>2. OnCourse(c)  BY DEF PolicyInv
<1>3. first = eligible
  <2>1. \A a \in eligible : Cardinality({b \in eligible : Before(b, a)}) < Limit
    BY FirstAreAllDue DEF PolicyInv, IInv
  <2> QED  BY <2>1
<1>4. \A a \in Application : SeenPlan(c, a) = plans[a]
  BY <1>1, <1>2 DEF SeenPlan, OnCourse
<1>5. [a \in first |-> SeenPlan(c, a)] = PlansDue(c.horizon)
  BY <1>3, <1>4 DEF PlansDue
<1>6. Goes(m, d) /\ UNCHANGED <<plans, upcoming, reminders>>  BY DEF Selects
<1>7. \A n \in Runner \ {m} : cycle[n] = Idle  BY <1>1, OtherCyclesAreIdle
<1>8. d = [at |-> "looking", rows |-> c.rows, stale |-> c.stale, due |-> PlansDue(c.horizon)]
  BY <1>5
<1> HIDE DEF d
<1>9. OnCourse(d)
  <2> HIDE DEF c
  <2>1. d.at = "looking" /\ d.rows = c.rows /\ d.stale = c.stale /\ d.due = PlansDue(c.horizon)
    BY <1>8
  <2>2. OpenKeys \ c.todo = OpenKeys  BY <1>1
  <2> QED  BY <1>1, <1>2, <2>1, <2>2 DEF OnCourse
<1> QED  BY <1>6, <1>7, <1>9, CycleMovesOnCourse

\* Without overlap the reminder that a cycle looks at is the row.
LEMMA SeenReminderIsCurrent ==
  ASSUME NEW c, c.rows = OpenRows, NEW k \in Key
  PROVE  SeenReminder(c, k) = reminders[k]
BY DEF SeenReminder, OpenRows

LEMMA LooksOnCourse ==
  ASSUME PolicyInv, NEW m \in Runner, Looks(m)
  PROVE  CycleAlone' /\ \A n \in Runner : OnCourse(cycle[n])'
<1> DEFINE c == cycle[m]
           planOf(k) == c.due[k[1]]
           planned == {k \in Key : k[1] \in DOMAIN c.due /\ k[2] = planOf(k).due}
           created == {k \in planned : SeenReminder(c, k) = Absent /\ FillsColumns(planOf(k))}
           renamed == {k \in planned : SeenReminder(c, k) # Absent /\ Renames(c, k, planOf(k))}
           w(k) == IF k \in created THEN [op |-> "create", action |-> planOf(k).action]
                   ELSE IF k \in renamed THEN [op |-> "rename", action |-> planOf(k).action]
                   ELSE [op |-> "dismiss"]
           keys == c.stale \cup created \cup renamed
           writes == [k \in keys |-> w(k)]
           d == [at |-> "writing", writes |-> writes]
<1>1. c \in Looking /\ c.at = "looking"
  BY DEF Looks, PolicyInv, IInv, TypeOK, Idle, Judging, Writing
<1>2. OnCourse(c)  BY DEF PolicyInv
<1>3. /\ c.rows = OpenRows
      /\ c.stale = {k \in OpenKeys : Superseded(plans[k[1]], k)}
  BY <1>1, <1>2 DEF OnCourse
<1>4. PICK horizon \in 0..upcoming : c.due = PlansDue(horizon)
  BY <1>1, <1>2 DEF OnCourse
<1>5. Goes(m, d) /\ UNCHANGED <<plans, upcoming, reminders>>  BY DEF Looks
<1>6. \A n \in Runner \ {m} : cycle[n] = Idle  BY <1>1, OtherCyclesAreIdle
<1>7. \A k \in Key : SeenReminder(c, k) = reminders[k]
  <2> HIDE DEF c
  <2> QED  BY <1>3, SeenReminderIsCurrent
<1>8. ASSUME NEW k \in Key
      PROVE  Written(writes, k) = Policy!Follows(plans[k[1]], k, reminders[k], horizon)
  <2> DEFINE p == plans[k[1]]  row == reminders[k]
  <2>1. k[1] \in Application /\ row \in Row /\ p \in Plan
    BY DEF Key, PolicyInv, IInv, TypeOK
  <2>2. k[1] \in DOMAIN c.due <=> DueSoon(p, horizon)
    <3> HIDE DEF c
    <3> QED  BY <1>4, <2>1 DEF PlansDue
  <2>3. DueSoon(p, horizon) => planOf(k) = p
    <3> HIDE DEF c
    <3> QED  BY <1>4, <2>1 DEF PlansDue
  <2>4. k \in planned <=> (DueSoon(p, horizon) /\ p.due = k[2])
    <3> HIDE DEF c
    <3> QED  BY <2>2, <2>3
  <2>5. k \in c.stale <=> (Open(row) /\ Superseded(p, k))
    BY <1>3 DEF OpenKeys
  <2>6. k \in created <=> (DueSoon(p, horizon) /\ p.due = k[2] /\ row = Absent)
    <3>1. DueSoon(p, horizon) => FillsColumns(p)  BY DEF DueSoon, FillsColumns
    <3> HIDE DEF planned, planOf, p, row, c
    <3> QED  BY <1>7, <2>3, <2>4, <3>1 DEF row
  <2>7. k \in renamed <=> (/\ DueSoon(p, horizon) /\ p.due = k[2]
                           /\ Open(row) /\ k \notin c.stale /\ row.action # p.action)
    <3>1. Open(row) => row # Absent  BY <2>1, RowKinds
    <3> HIDE DEF planned, planOf, p, c
    <3> QED  BY <1>7, <2>3, <2>4, <3>1 DEF Renames
  <2>8. Written(writes, k) = IF k \in keys THEN Reconciled(w(k), row) ELSE row
    <3> HIDE DEF keys, w
    <3> QED  BY DEF Written
  <2>9. Policy!Follows(p, k, row, horizon) =
          IF Open(row) /\ Superseded(p, k)
            THEN [row EXCEPT !.status = "dismissed", !.dismissedAt = TRUE]
          ELSE IF p.due = k[2] /\ DueSoon(p, horizon)
            THEN IF row = Absent THEN NewRow(p.action)
                 ELSE IF Open(row) THEN [row EXCEPT !.action = p.action]
                 ELSE row
          ELSE row
    BY DEF Policy!Follows, Policy!Open, Policy!Superseded, Policy!DueSoon, Policy!NewRow,
           Policy!Absent, Open, Superseded, DueSoon, NewRow, Absent
  <2> HIDE DEF planned, created, renamed, c
  <2>10. CASE Open(row) /\ Superseded(p, k)
    <3>1. row # Absent  BY <2>1, <2>10, RowKinds
    <3>2. k \in keys /\ k \notin created /\ k \notin renamed
      BY <2>5, <2>6, <2>7, <2>10, <3>1
    <3>3. w(k) = [op |-> "dismiss"]  BY <3>2
    <3>4. Reconciled(w(k), row) = [row EXCEPT !.status = "dismissed", !.dismissedAt = TRUE]
      BY <3>3 DEF Reconciled
    <3> QED  BY <2>8, <2>9, <2>10, <3>2, <3>4
  <2>11. CASE ~(Open(row) /\ Superseded(p, k)) /\ k \in created
    <3>1. w(k) = [op |-> "create", action |-> p.action]  BY <2>3, <2>6, <2>11
    <3>2. Reconciled(w(k), row) = NewRow(p.action)
      BY <2>6, <2>11, <3>1 DEF Reconciled
    <3>3. k \in keys  BY <2>11
    <3>4. ~Open(row)  BY <2>6, <2>11 DEF Open, Absent
    <3> QED  BY <2>6, <2>8, <2>9, <2>11, <3>2, <3>3, <3>4
  <2>12. CASE ~(Open(row) /\ Superseded(p, k)) /\ k \notin created /\ k \in renamed
    <3>1. w(k) = [op |-> "rename", action |-> p.action]  BY <2>3, <2>7, <2>12
    <3>2. Reconciled(w(k), row) = [row EXCEPT !.action = p.action]
      BY <3>1 DEF Reconciled
    <3>3. k \in keys /\ row # Absent  BY <2>1, <2>7, <2>12, RowKinds
    <3> QED  BY <2>7, <2>8, <2>9, <2>12, <3>2, <3>3
  <2>13. CASE ~(Open(row) /\ Superseded(p, k)) /\ k \notin created /\ k \notin renamed
    <3>1. k \notin keys  BY <2>5, <2>13
    <3>2. Written(writes, k) = row  BY <2>8, <3>1
    <3>3. Open(row) /\ row.action = p.action => [row EXCEPT !.action = p.action] = row
      <4> SUFFICES ASSUME Open(row), row.action = p.action
                   PROVE  [row EXCEPT !.action = p.action] = row
        OBVIOUS
      <4>1. row \in Full  BY <2>1, RowKinds
      <4> HIDE DEF row, p
      <4> QED  BY <4>1 DEF Full
    <3>4. DueSoon(p, horizon) /\ p.due = k[2] /\ Open(row) => row.action = p.action
      BY <2>5, <2>7, <2>13
    <3> QED  BY <2>6, <2>9, <2>13, <3>2, <3>3, <3>4
  <2> QED  BY <2>10, <2>11, <2>12, <2>13
<1>9. OnCourse(d)
  <2> HIDE DEF writes
  <2>1. d.at = "writing" /\ d.writes = writes  OBVIOUS
  <2>2. \A k \in Key : Written(writes, k) = Policy!Follows(plans[k[1]], k, reminders[k], horizon)
    BY <1>8
  <2> HIDE DEF d
  <2> QED  BY <2>1, <2>2 DEF OnCourse
<1> HIDE DEF d
<1> QED  BY <1>5, <1>6, <1>9, CycleMovesOnCourse

\* What a cycle commits without overlap is the reconciliation of the policy.
LEMMA CommitReconciles ==
  ASSUME PolicyInv, NEW m \in Runner, Commits(m)
  PROVE  /\ Policy!Reconcile
         /\ CycleAlone' /\ \A n \in Runner : OnCourse(cycle[n])'
<1> DEFINE c == cycle[m]
<1>1. c.at = "writing"  BY DEF Commits
<1>2. PICK horizon \in 0..upcoming : \A k \in Key :
        Written(c.writes, k) = Policy!Follows(plans[k[1]], k, reminders[k], horizon)
  BY <1>1 DEF PolicyInv, OnCourse
<1>3. reminders' = [k \in Key |-> Written(c.writes, k)]  BY DEF Commits, Written
<1>4. reminders' = [k \in Key |-> Policy!Follows(plans[k[1]], k, reminders[k], horizon)]
  BY <1>2, <1>3
<1>5. UNCHANGED <<plans, upcoming>>  BY DEF Commits
<1>6. Policy!Reconcile
  <2>1. Policy!Key = Key  BY DEF Policy!Key, Key
  <2> QED  BY <1>4, <1>5, <2>1 DEF Policy!Reconcile
<1>7. \A n \in Runner : cycle'[n] = Idle
  BY <1>1, OtherCyclesAreIdle DEF Commits, Goes, PolicyInv, IInv, TypeOK
<1> QED  BY <1>6, <1>7, NoCycleIsOnCourse

\* A request that is alone gives a reminder a status and the dates of it.
LEMMA RequestSets ==
  ASSUME PolicyInv, NEW q \in Request, SetWrites(q)
  PROVE  /\ Policy!UserSets
         /\ CycleAlone' /\ \A n \in Runner : OnCourse(cycle[n])'
<1> DEFINE t == txn[q]
           row == reminders[t.key]
<1>1. t \in Setting /\ t.at = "setting"
  BY DEF SetWrites, PolicyInv, IInv, TypeOK, Idle
<1>2. t.key \in Key /\ t.status \in UserStatus  BY <1>1 DEF Setting
<1>3. row # Absent /\ row \in Full
  BY <1>1, <1>2, RowKinds DEF PolicyInv, IInv, TypeOK
<1>4. t.loaded = row  BY <1>1 DEF PolicyInv, SerialInv, LoadedIsCurrent
<1>5. reminders' = [reminders EXCEPT ![t.key] = SetRow(row, row, t.status)]
  BY <1>4 DEF SetWrites
<1>6. UNCHANGED <<plans, upcoming, cycle>>  BY DEF SetWrites
<1>7. \A n \in Runner : cycle'[n] = Idle
  BY <1>1, <1>6 DEF PolicyInv, SerialInv, RequestAlone, Idle
<1> DEFINE new == SetRow(row, row, t.status)
<1> HIDE DEF t
<1>8. /\ new \in Full /\ new.action = row.action
      /\ new.readAt <=> new.status = "read"
      /\ new.dismissedAt <=> new.status = "dismissed"
  <2> HIDE DEF row
  <2> QED  BY <1>2, <1>3 DEF SetRow, Full, UserStatus
<1> HIDE DEF new
<1>9. reminders'[t.key] = new /\ reminders' = [reminders EXCEPT ![t.key] = reminders'[t.key]]
  BY <1>2, <1>5 DEF new, PolicyInv, IInv, TypeOK
<1>10. Policy!UserSets
  <2>1. Policy!Key = Key /\ Policy!Row = Row /\ Policy!Absent = Absent
    BY DEF Policy!Key, Key, Policy!Row, Row, Policy!Absent, Absent, Policy!UserStatus, UserStatus
  <2>2. new \in Row  BY <1>8, RowKinds
  <2> QED  BY <1>2, <1>3, <1>6, <1>8, <1>9, <2>1, <2>2 DEF Policy!UserSets
<1> QED  BY <1>7, <1>10, NoCycleIsOnCourse

-----------------------------------------------------------------------------
\* Each step of the repository is one of the policy, or changes nothing there.
LEMMA StepsFollowPolicy ==
  ASSUME Overlapping = FALSE, NothingExceedsLimit, PolicyInv, [Next]_vars
  PROVE  /\ [Policy!Next]_<<plans, upcoming, reminders>>
         /\ CycleAlone' /\ \A n \in Runner : OnCourse(cycle[n])'
<1> DEFINE Goal == /\ [Policy!Next]_<<plans, upcoming, reminders>>
                   /\ CycleAlone' /\ \A n \in Runner : OnCourse(cycle[n])'
<1>0. upcoming \in Nat  BY HorizonIsNatural DEF PolicyInv, IInv
<1>1. ASSUME NEW a \in Application, NEW p \in Plan, PlanChanges(a, p) PROVE Goal
  <2>1. \A n \in Runner : cycle'[n] = Idle  BY <1>1 DEF PlanChanges, MayBegin
  <2>2. plans' \in [Application -> Plan] /\ UNCHANGED <<upcoming, reminders>>
    BY <1>1 DEF PlanChanges, PolicyInv, IInv, TypeOK
  <2>3. Policy!PlanChanges  BY <2>2 DEF Policy!PlanChanges, Policy!Plan, Plan
  <2> QED  BY <2>1, <2>3, NoCycleIsOnCourse DEF Policy!Next
<1>2. ASSUME NEW d \in Due, TimePasses(d) PROVE Goal
  <2>1. Policy!TimePasses  BY <1>2 DEF TimePasses, Policy!TimePasses
  <2>2. upcoming' \in Nat /\ upcoming <= upcoming' /\ UNCHANGED <<plans, reminders, cycle>>
    BY <1>0, <1>2, OrderAssumption DEF TimePasses
  <2> QED  BY <1>0, <2>1, <2>2, CyclesStayOnCourse DEF Policy!Next
<1>3. ASSUME NEW m \in Runner, NEW batch \in Batches, Begins(m, batch) PROVE Goal
  BY <1>3, BeginsOnCourse DEF Begins
<1>4. ASSUME NEW m \in Runner, NEW k \in Key, Judges(m, k) PROVE Goal
  BY <1>4, JudgesOnCourse DEF Judges
<1>5. ASSUME NEW m \in Runner, Selects(m) PROVE Goal
  BY <1>5, SelectsOnCourse DEF Selects
<1>6. ASSUME NEW m \in Runner, Looks(m) PROVE Goal
  BY <1>6, LooksOnCourse DEF Looks
<1>7. ASSUME NEW m \in Runner, Commits(m) PROVE Goal
  BY <1>7, CommitReconciles DEF Policy!Next
<1>8. ASSUME NEW m \in Runner, CutOff(m) PROVE Goal
  BY <1>8, OtherCyclesAreIdle, IdleIsOnCourse, CycleMovesOnCourse DEF CutOff
<1>9. ASSUME NEW q \in Request, NEW k \in Key, NEW status \in UserStatus,
             SetReads(q, k, status)
      PROVE  Goal
  BY <1>0, <1>9, CyclesStayOnCourse DEF SetReads
<1>10. ASSUME NEW q \in Request, SetWrites(q) PROVE Goal
  BY <1>10, RequestSets DEF Policy!Next
<1>11. ASSUME UNCHANGED vars PROVE Goal
  BY <1>0, <1>11, CyclesStayOnCourse DEF vars
<1> HIDE DEF Goal
<1>12. ASSUME NEW m \in Runner,
              \/ \E batch \in Batches : Begins(m, batch)
              \/ CycleReads(m) \/ Commits(m) \/ CutOff(m)
       PROVE  Goal
  BY <1>3, <1>4, <1>5, <1>6, <1>7, <1>8, <1>12 DEF CycleReads
<1>13. ASSUME NEW q \in Request,
              \/ \E k \in Key, status \in UserStatus : SetReads(q, k, status)
              \/ SetWrites(q)
       PROVE  Goal
  BY <1>9, <1>10, <1>13
<1>14. Goal
  BY <1>1, <1>2, <1>11, <1>12, <1>13 DEF Next
<1> QED  BY <1>14 DEF Goal

\* Without overlap, and with a limit that the reminders and the applications do
\* not exceed, the cycles and requests of the repository are the policy that
\* docs/architecture/0029 decides: every reconciliation is one step, for every
\* number of applications, deadlines, runners and requests (ImplementsPolicy).
THEOREM CyclesImplementPolicy ==
  ASSUME Overlapping = FALSE, NothingExceedsLimit
  PROVE  Spec => ImplementsPolicy
<1>1. Init => PolicyInv /\ Policy!Init
  <2> SUFFICES ASSUME Init PROVE PolicyInv /\ Policy!Init  OBVIOUS
  <2>1. IInv  BY InvariantHoldsFirst
  <2>2. SerialInv
    BY DEF Init, SerialInv, RequestAlone, LoadedIsCurrent, DatesMatchStatus, Idle
  <2>3. CycleAlone /\ \A m \in Runner : OnCourse(cycle[m])
    BY IdleIsOnCourse DEF Init, CycleAlone
  <2>4. Policy!Init
    BY DEF Init, Policy!Init, Policy!NoPlan, NoPlan, Policy!Key, Key, Policy!Absent, Absent
  <2> QED  BY <2>1, <2>2, <2>3, <2>4 DEF PolicyInv
<1>2. PolicyInv /\ [Next]_vars
        => PolicyInv' /\ [Policy!Next]_<<plans, upcoming, reminders>>
  <2> SUFFICES ASSUME PolicyInv, [Next]_vars
               PROVE  PolicyInv' /\ [Policy!Next]_<<plans, upcoming, reminders>>
    OBVIOUS
  <2>1. IInv' /\ SerialInv'  BY InvariantIsInductive, SerialInductive DEF PolicyInv
  <2>2. /\ [Policy!Next]_<<plans, upcoming, reminders>>
        /\ CycleAlone' /\ \A n \in Runner : OnCourse(cycle[n])'
    BY StepsFollowPolicy
  <2> QED  BY <2>1, <2>2 DEF PolicyInv
<1> QED  BY <1>1, <1>2, PTL DEF Spec, ImplementsPolicy, Policy!Spec
=============================================================================
