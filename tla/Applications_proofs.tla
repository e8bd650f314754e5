------------------------- MODULE Applications_proofs -------------------------
(***************************************************************************)
(* Proofs about Applications.  The first part holds however requests       *)
(* overlap; the second assumes that they do not, and ends in the           *)
(* refinement of ApplicationWorkflow.                                      *)
(***************************************************************************)
EXTENDS Applications, SequenceTheorems, TLAPS

-----------------------------------------------------------------------------
(***************************************************************************)
(* The status graph and the log.                                           *)
(***************************************************************************)
Behind == {"applied", "under_review", "assessment", "interview", "offer", "rejected"}

Reached(s) == \E j \in 1..Len(log) : log[j].to = s

\* What BoundariesAreKept says of one status.
MayBeIn(s) ==
  /\ s \notin {"absent", "preparing", "withdrawn"} => packet.ready
  /\ s \in Behind => tracker.applied

\* An edge of the status graph that the generic endpoint may follow leads, from
\* a status that trackers get, to withdrawn or from behind submission to behind it.
LEMMA GenericEdges ==
  ASSUME NEW s \in Status \ {"discovered", "saved"}, NEW t \in Successors[s] \ PacketDriven
  PROVE  /\ t \in Status \ {"absent", "preparing", "discovered", "saved", "applied",
                            "ready_to_apply"}
         /\ t = "withdrawn" \/ (t \in Behind /\ s \in Behind)
BY DEF Status, Successors, PacketDriven, Behind

\* The edges that the packet's endpoints follow.
LEMMA PacketEdges ==
  /\ "ready_to_apply" \in Successors["preparing"]
  /\ "applied" \in Successors["ready_to_apply"]
  /\ {"preparing", "ready_to_apply", "applied"} \subseteq Status
  /\ "absent" \notin Status
BY DEF Status, Successors

\* What appending one event does to a log.
LEMMA LogGrows ==
  ASSUME NEW l \in Seq(Event), NEW e \in Event
  PROVE  /\ Append(l, e) \in Seq(Event)
         /\ Len(l) \in Nat
         /\ Len(Append(l, e)) = Len(l) + 1
         /\ \A i \in 1..Len(l) : Append(l, e)[i] = l[i] /\ l[i] \in Event
         /\ Append(l, e)[Len(l) + 1] = e
         /\ Append(l, e) # <<>>
  BY AppendProperties

\* A history stays one when an event is appended that follows an edge out of a
\* status that has been reached, and leads to the new status.
LEMMA HistoryGrows ==
  ASSUME TypeOK, HistoryExplainsStatus, Tracked,
         NEW from \in Status, NEW to \in Successors[from] \cap Status,
         Reached(from),
         log' = Append(log, [from |-> from, to |-> to]),
         tracker'.status = to
  PROVE  /\ HistoryExplainsStatus'
         /\ \A s : Reached(s)' <=> Reached(s) \/ s = to
<1> DEFINE e == [from |-> from, to |-> to]
<1>1. e \in Event /\ e.from = from /\ e.to = to  BY DEF Event
<1>2. log \in Seq(Event)  BY DEF TypeOK
<1> HIDE DEF e
<1>3. /\ log' \in Seq(Event)
      /\ Len(log) \in Nat
      /\ Len(log') = Len(log) + 1
      /\ \A i \in 1..Len(log) : log'[i] = log[i]
      /\ log'[Len(log) + 1] = e
      /\ log' # <<>>
  BY <1>1, <1>2, LogGrows DEF e
<1>4. Tracked'  BY PacketEdges DEF Tracked
<1>5. Len(log) > 0  BY <1>2, EmptySeq DEF HistoryExplainsStatus
<1>6. \A s : Reached(s)' <=> Reached(s) \/ s = to
  <2> TAKE s
  <2>1. ASSUME Reached(s) PROVE Reached(s)'
    BY <2>1, <1>3 DEF Reached
  <2>2. ASSUME s = to PROVE Reached(s)'
    BY <2>2, <1>1, <1>3 DEF Reached
  <2>3. ASSUME Reached(s)', s # to PROVE Reached(s)
    <3>1. PICK j \in 1..Len(log') : log'[j].to = s  BY <2>3 DEF Reached
    <3>2. j # Len(log) + 1  BY <3>1, <2>3, <1>1, <1>3
    <3>3. j \in 1..Len(log)  BY <3>2, <1>3
    <3> QED  BY <3>1, <3>3, <1>3 DEF Reached
  <2> QED  BY <2>1, <2>2, <2>3
<1>7. ASSUME NEW i \in 2..Len(log')
      PROVE  /\ log'[i].to \in Successors[log'[i].from]
             /\ \E j \in 1..(i - 1) : log'[j].to = log'[i].from
  <2>1. CASE i <= Len(log)
    <3>1. i \in 2..Len(log) /\ i \in 1..Len(log) /\ log'[i] = log[i]  BY <2>1, <1>3
    <3>2. PICK j \in 1..(i - 1) : log[j].to = log[i].from
      BY <3>1 DEF HistoryExplainsStatus
    <3>3. log'[j] = log[j]  BY <3>1, <1>3
    <3> QED  BY <3>1, <3>2, <3>3 DEF HistoryExplainsStatus
  <2>2. CASE i = Len(log) + 1
    <3>1. PICK j \in 1..Len(log) : log[j].to = from  BY DEF Reached
    <3>2. log'[j].to = from /\ j \in 1..(i - 1)  BY <2>2, <3>1, <1>3
    <3> QED  BY <2>2, <3>2, <1>1, <1>3
  <2> QED  BY <2>1, <2>2, <1>3
<1>8. log'[1] = [from |-> "absent", to |-> "preparing"]
  BY <1>3, <1>5 DEF HistoryExplainsStatus
<1>9. log'[Len(log')].to = tracker'.status
  BY <1>1, <1>3
<1> QED  BY <1>3, <1>4, <1>6, <1>7, <1>8, <1>9 DEF HistoryExplainsStatus

-----------------------------------------------------------------------------
(***************************************************************************)
(* The invariant that holds however requests overlap.  A request under way *)
(* knows only facts that stay true: that a status has been reached, that   *)
(* the packet is ready, that documents are approved.                       *)
(***************************************************************************)
Approved(d) == d = None \/ d \in verified \cap ForThisJob

TxnOK(t) ==
  /\ t.op # "idle" => Tracked
  /\ t.op = "moving" =>
       /\ Reached(t.from)
       /\ t.from \notin {"discovered", "saved"}
       /\ MayBeIn(t.from)
       /\ t.to \in Successors[t.from] \ PacketDriven
  /\ t.op = "validated" => Approved(t.form.tailored) /\ Approved(t.form.letter)
  /\ t.op = "editing" => Approved(t.edited.tailored) /\ Approved(t.edited.letter)
  /\ t.op \in {"validated", "editing", "checked", "readying"} => packet.opened
  /\ t.op = "opening" => (t.fills => packet.opened)
  /\ t.op = "readying" => Reached("preparing")
  /\ t.op = "confirming" => Reached("ready_to_apply") /\ packet.ready

TxnInv == \A r \in Request : TxnOK(txn[r])

RowInv ==
  /\ tracker.status \notin {"discovered", "saved"}
  /\ packet.opened => Tracked
  /\ packet.ready => packet.opened
  /\ HistoryExplainsStatus
  /\ BoundariesAreKept
  /\ DocumentsAreApproved

IInv == TypeOK /\ RowInv /\ TxnInv

\* What no step takes back.
Monotone ==
  /\ Tracked => Tracked'
  /\ packet.opened => packet'.opened
  /\ packet.ready => packet'.ready
  /\ tracker.applied => tracker'.applied
  /\ verified \subseteq verified'
  /\ \A s : Reached(s) => Reached(s)'

\* So what a request knew it still knows.
LEMMA TxnOKIsKept ==
  ASSUME Monotone, NEW t, TxnOK(t)
  PROVE  TxnOK(t)'
BY DEF Monotone, TxnOK, Approved, MayBeIn

\* A step that ends request r, or leaves it with something it may know, keeps TxnInv.
LEMMA TxnInvIsKept ==
  ASSUME TypeOK, Monotone, TxnInv, NEW r \in Request, NEW t, TxnOK(t)',
         txn' = [txn EXCEPT ![r] = t]
  PROVE  TxnInv'
<1> SUFFICES ASSUME NEW q \in Request PROVE TxnOK(txn[q])'
  BY DEF TxnInv
<1>1. txn'[q] = IF q = r THEN t ELSE txn[q]  BY DEF TypeOK
<1>2. CASE q = r  BY <1>1, <1>2 DEF TxnOK, Reached, MayBeIn, Approved, Tracked
<1>3. CASE q # r
  <2>1. TxnOK(txn[q])  BY DEF TxnInv
  <2>2. Monotone => (TxnOK(txn[q]) => \A u : u = txn[q] => TxnOK(u)')
    BY TxnOKIsKept
  <2> QED  BY <1>1, <1>3, <2>1, <2>2 DEF TxnOK, Reached, MayBeIn, Approved, Tracked
<1> QED  BY <1>2, <1>3

\* Nothing is known to a request that is idle.
LEMMA IdleKnowsNothing == TxnOK(Idle)'
BY DEF TxnOK, Idle

LEMMA IdleIsTransaction == Idle \in Transaction
BY DEF Transaction

\* Where the rows stay, what was reached and written stays.
LEMMA RowsStay ==
  ASSUME RowInv, rowVars' = rowVars, verified \subseteq verified'
  PROVE  Monotone /\ RowInv'
BY DEF RowInv, Monotone, rowVars, Tracked, Reached, HistoryExplainsStatus,
       BoundariesAreKept, DocumentsAreApproved

\* The op of a transaction tells its type.
LEMMA TransactionTypes ==
  ASSUME NEW t \in Transaction
  PROVE  /\ t.op = "moving" => t \in Moving
         /\ t.op = "planning" => t \in Planning
         /\ t.op = "opening" => t \in Opening
         /\ t.op = "validated" => t \in Validated
         /\ t.op = "editing" => t \in Editing
         /\ t.op = "checked" => t \in Checked
         /\ t.op = "readying" => t \in Readying
         /\ t.op = "confirming" => t \in Confirming
         /\ t.op = "idle" => t = Idle
BY DEF Transaction, Moving, Planning, Opening, Validated, Editing, Checked, Readying,
       Confirming, Idle

LEMMA ColumnType ==
  ASSUME NEW S, NEW a \in S, NEW b, NEW c \in S
  PROVE  Column(b, a, c) \in S
BY DEF Column

LEMMA MovedTrackerFacts ==
  ASSUME NEW t \in Tracker, NEW to \in Status, NEW due \in Deadline, NEW newDue \in Deadline
  PROVE  /\ MovedTracker(t, to, due, newDue) \in Tracker
         /\ MovedTracker(t, to, due, newDue).status = to
         /\ MovedTracker(t, to, due, newDue).resume = t.resume
         /\ MovedTracker(t, to, due, newDue).applied <=> t.applied \/ to = "applied"
         /\ MovedTracker(t, to, due, newDue).due = Column(due, newDue, t.due)
<1>1. Column(due, newDue, t.due) \in Deadline  BY ColumnType DEF Tracker
<1>2. (t.applied \/ to = "applied") \in BOOLEAN  OBVIOUS
<1> QED  BY <1>1, <1>2 DEF MovedTracker, Tracker

\* The commit of a status change along an edge out of a reached status.
LEMMA MoveKeepsRowInv ==
  ASSUME TypeOK, RowInv, Tracked,
         NEW from \in Status, NEW to \in Successors[from] \cap Status,
         NEW due \in Deadline, NEW newDue \in Deadline,
         Moves(from, to, due, newDue), Reached(from),
         to \notin {"discovered", "saved", "absent"},
         packet.ready => packet'.ready,
         packet'.opened = packet.opened,
         packet'.ready => packet'.opened,
         packet'.tailored = packet.tailored,
         packet'.letter = packet.letter,
         verified' = verified,
         to \notin {"preparing", "withdrawn"} => packet'.ready,
         to \in Behind => tracker.applied \/ to = "applied"
  PROVE  tracker' \in Tracker /\ log' \in Seq(Event) /\ RowInv' /\ Monotone
<1>1. log' = Append(log, [from |-> from, to |-> to])  BY DEF Moves
<1>2. /\ tracker' \in Tracker
      /\ tracker'.status = to
      /\ tracker'.applied <=> tracker.applied \/ to = "applied"
  BY MovedTrackerFacts DEF Moves, TypeOK
<1>3. log' \in Seq(Event)
  <2>1. [from |-> from, to |-> to] \in Event  BY DEF Event
  <2> QED  BY <1>1, <2>1, LogGrows DEF TypeOK
<1>4. /\ HistoryExplainsStatus'
      /\ \A s : Reached(s)' <=> Reached(s) \/ s = to
  BY <1>1, <1>2, HistoryGrows DEF RowInv
<1>5. Tracked'  BY <1>2 DEF Tracked
<1>6. tracker.applied <=> Reached("applied")
  BY DEF RowInv, BoundariesAreKept, Reached
<1>7. BoundariesAreKept'
  <2>1. tracker'.applied <=> Reached("applied")'  BY <1>2, <1>4, <1>6
  <2> QED  BY <2>1, <1>2 DEF BoundariesAreKept, Reached, Behind
<1>8. DocumentsAreApproved'  BY DEF RowInv, DocumentsAreApproved
<1>9. RowInv'  BY <1>2, <1>4, <1>5, <1>7, <1>8 DEF RowInv
<1>10. Monotone  BY <1>2, <1>4, <1>5 DEF Monotone
<1> QED  BY <1>2, <1>3, <1>9, <1>10

\* A write of the packet that keeps readiness and approved documents.
LEMMA PacketWriteKeepsRowInv ==
  ASSUME RowInv, UNCHANGED <<tracker, log>>, verified' = verified, Tracked,
         packet'.opened, packet.ready <=> packet'.ready,
         Approved(packet'.tailored), Approved(packet'.letter)
  PROVE  RowInv' /\ Monotone
<1>1. HistoryExplainsStatus'  BY DEF RowInv, HistoryExplainsStatus, Tracked
<1>2. BoundariesAreKept'  BY DEF RowInv, BoundariesAreKept
<1>3. DocumentsAreApproved'  BY DEF Approved, DocumentsAreApproved
<1>4. Monotone  BY DEF Monotone, Tracked, Reached
<1> QED  BY <1>1, <1>2, <1>3, <1>4 DEF RowInv, Tracked

\* A request goes from one point to another.
LEMMA RequestGoes ==
  ASSUME IInv, NEW r \in Request, NEW t \in Transaction, Goes(r, t),
         Monotone, RowInv', TxnOK(t)',
         tracker' \in Tracker, packet' \in Packet, log' \in Seq(Event), UNCHANGED otherVars
  PROVE  IInv'
<1>1. TxnInv'  BY TxnInvIsKept DEF IInv, Goes
<1>2. TypeOK'  BY DEF IInv, TypeOK, Goes, otherVars
<1> QED  BY <1>1, <1>2 DEF IInv

\* A request reads, and the rows stay as they are.
LEMMA RequestReads ==
  ASSUME IInv, NEW r \in Request, NEW t \in Transaction, Goes(r, t),
         UNCHANGED <<rowVars, otherVars>>, TxnOK(t)
  PROVE  IInv'
<1>1. Monotone /\ RowInv'
  <2>1. verified' = verified  BY DEF otherVars
  <2> QED  BY <2>1, RowsStay DEF IInv
<1>2. TxnOK(t)'  BY <1>1, TxnOKIsKept
<1>3. tracker' \in Tracker /\ packet' \in Packet /\ log' \in Seq(Event)
  BY DEF IInv, TypeOK, rowVars
<1>4. UNCHANGED otherVars  OBVIOUS
<1> QED  BY <1>1, <1>2, <1>3, <1>4, RequestGoes

LEMMA WrittenPacketType ==
  ASSUME NEW a \in Packet, NEW b \in Packet, NEW c \in Packet
  PROVE  /\ WrittenPacket(a, b, c) \in Packet
         /\ WrittenPacket(a, b, c).ready = c.ready
         /\ WrittenPacket(a, b, c).opened = c.opened
         /\ WrittenPacket(a, b, c).tailored \in {b.tailored, c.tailored}
         /\ WrittenPacket(a, b, c).letter \in {b.letter, c.letter}
<1>1. /\ Column(a.source, b.source, c.source) \in Source
      /\ Column(a.tailored, b.tailored, c.tailored) \in Tailored \cup {None}
      /\ Column(a.letter, b.letter, c.letter) \in Letter \cup {None}
      /\ Column(a.letterReviewed, b.letterReviewed, c.letterReviewed) \in BOOLEAN
  BY DEF Packet, Column
<1>2. Confirmed(a.checked, b.checked, c.checked) \in SUBSET Check
  BY DEF Packet, Confirmed
<1>3. c.opened \in BOOLEAN /\ c.ready \in BOOLEAN  BY DEF Packet
<1>4. WrittenPacket(a, b, c) \in Packet
  BY <1>1, <1>2, <1>3 DEF WrittenPacket, Packet
<1> QED  BY <1>4 DEF WrittenPacket, Column

LEMMA SourceWithType ==
  ASSUME NEW d \in Document \cup {None}, NEW src \in Source
  PROVE  SourceWith(d, src) \in Source
BY DocumentAssumption DEF SourceWith, Source

LEMMA ChosenSourceType ==
  ASSUME NEW form \in Form, NEW src \in Source
  PROVE  ChosenSource(form, src) \in Source
BY SourceWithType DEF ChosenSource, Form, Document

LEMMA FilledType ==
  ASSUME NEW p \in Packet, NEW form \in Form, NEW src \in Source
  PROVE  /\ Filled(p, form, src) \in Packet
         /\ Filled(p, form, src).tailored = form.tailored
         /\ Filled(p, form, src).letter = form.letter
<1>1. (form.letterReviewed /\ form.letter # None) \in BOOLEAN  OBVIOUS
<1> QED  BY <1>1 DEF Filled, Packet, Form

-----------------------------------------------------------------------------
(***************************************************************************)
(* The invariant is inductive: one lemma per kind of request.              *)
(***************************************************************************)
LEMMA InvariantHoldsFirst == Init => IInv
<1> SUFFICES ASSUME Init PROVE IInv
  OBVIOUS
<1> USE DEF Init
<1>1. NoTracker \in Tracker /\ NoPacket \in Packet
  BY DEF NoTracker, Tracker, NoPacket, Packet, Source, Deadline
<1>2. TypeOK
  BY <1>1, IdleIsTransaction DEF TypeOK, Source
<1>3. Len(log) = 0  OBVIOUS
<1>4. RowInv
  BY <1>3 DEF RowInv, Tracked, HistoryExplainsStatus, BoundariesAreKept,
              DocumentsAreApproved, NoTracker, NoPacket
<1>5. TxnInv  BY DEF TxnInv, TxnOK, Idle
<1> QED  BY <1>2, <1>4, <1>5 DEF IInv

LEMMA CreateKeepsInvariant ==
  ASSUME IInv, NEW resume \in Source, NEW due \in Deadline, Create(resume, due)
  PROVE  IInv'
<1> DEFINE e == [from |-> "absent", to |-> "preparing"]
<1> USE DEF IInv
<1>1. /\ ~Tracked
      /\ log = <<>>
      /\ log' = Append(log, e)
      /\ tracker' = NewTracker(resume, due)
      /\ UNCHANGED <<packet, otherVars, txn>>
  BY DEF Create, RowInv, HistoryExplainsStatus
<1>2. e \in Event  BY PacketEdges DEF Event
<1>3. log' \in Seq(Event) /\ Len(log') = 1 /\ log'[1] = e /\ log' # <<>>
  <2>1. Len(log) = 0  BY <1>1
  <2> QED  BY <1>1, <1>2, <2>1, LogGrows DEF TypeOK
<1>4. tracker' \in Tracker /\ tracker'.status = "preparing" /\ tracker'.applied = FALSE
  BY <1>1, PacketEdges DEF NewTracker, Tracker
<1>5. TypeOK'  BY <1>1, <1>3, <1>4 DEF TypeOK, otherVars
<1>6. Monotone
  <2>1. ~tracker.applied  BY <1>1 DEF RowInv, BoundariesAreKept
  <2>2. \A s : ~Reached(s)  BY <1>1 DEF Reached
  <2> QED  BY <1>1, <2>1, <2>2 DEF Monotone, otherVars
<1>7. HistoryExplainsStatus'
  BY <1>3, <1>4 DEF HistoryExplainsStatus, Tracked
<1>8. BoundariesAreKept'
  BY <1>3, <1>4 DEF BoundariesAreKept
<1>9. DocumentsAreApproved'
  BY <1>1 DEF RowInv, DocumentsAreApproved, otherVars
<1>10. RowInv'
  BY <1>1, <1>4, <1>7, <1>8, <1>9 DEF RowInv, Tracked
<1>11. TxnInv'
  <2> SUFFICES ASSUME NEW q \in Request PROVE TxnOK(txn[q])'
    BY DEF TxnInv
  <2>1. txn[q].op = "idle"  BY <1>1, TransactionTypes DEF TxnInv, TxnOK
  <2> QED  BY <1>1, <2>1 DEF TxnOK
<1> QED  BY <1>5, <1>10, <1>11

LEMMA TransitionKeepsInvariant ==
  ASSUME IInv, NEW r \in Request
  PROVE  /\ \A to \in Status, due \in Deadline : TransitionReads(r, to, due) => IInv'
         /\ TransitionWrites(r) => IInv'
<1>1. ASSUME NEW to \in Status, NEW due \in Deadline, TransitionReads(r, to, due)
      PROVE  IInv'
  <2> DEFINE t == [op |-> "moving", from |-> tracker.status, due |-> tracker.due,
                   to |-> to, newDue |-> due]
  <2>1. tracker.status \in Status /\ tracker.due \in Deadline
    BY <1>1 DEF IInv, TypeOK, Tracker, TransitionReads, Tracked
  <2>2. t \in Transaction  BY <2>1 DEF Transaction, Moving
  <2>3. Reached(tracker.status)
    <3>1. Len(log) \in 1..Len(log)
      BY <1>1, EmptySeq DEF IInv, TypeOK, RowInv, HistoryExplainsStatus, TransitionReads
    <3> QED  BY <1>1, <3>1 DEF Reached, IInv, RowInv, HistoryExplainsStatus, TransitionReads
  <2>4. MayBeIn(tracker.status)
    BY DEF MayBeIn, IInv, RowInv, BoundariesAreKept, Behind
  <2>5. TxnOK(t)
    BY <1>1, <2>3, <2>4 DEF TxnOK, IInv, RowInv, TransitionReads
  <2>6. Goes(r, t) /\ UNCHANGED <<rowVars, otherVars>>  BY <1>1 DEF TransitionReads
  <2> QED  BY <2>2, <2>5, <2>6, RequestReads
<1>2. ASSUME TransitionWrites(r) PROVE IInv'
  <2> DEFINE t == txn[r]
  <2>1. t \in Moving /\ TxnOK(t) /\ t.op = "moving"
    BY <1>2, TransactionTypes DEF TransitionWrites, IInv, TypeOK, TxnInv
  <2>2. /\ t.from \in Status \ {"discovered", "saved"}
        /\ t.to \in Successors[t.from] \ PacketDriven
        /\ t.due \in Deadline /\ t.newDue \in Deadline
        /\ Tracked /\ Reached(t.from) /\ MayBeIn(t.from)
    BY <2>1 DEF TxnOK, Moving
  <2>3. /\ Moves(t.from, t.to, t.due, t.newDue)
        /\ UNCHANGED <<packet, otherVars>>
        /\ Goes(r, Idle)
    BY <1>2 DEF TransitionWrites, Ends
  <2> HIDE DEF t
  <2>4. /\ t.to \in Status \ {"absent", "preparing", "discovered", "saved", "applied",
                             "ready_to_apply"}
        /\ t.to = "withdrawn" \/ (t.to \in Behind /\ t.from \in Behind)
    BY <2>2, GenericEdges
  <2>5. t.to \notin {"preparing", "withdrawn"} => packet'.ready
    BY <2>2, <2>3, <2>4 DEF MayBeIn, Behind
  <2>6. t.to \in Behind => tracker.applied
    BY <2>2, <2>4 DEF MayBeIn, Behind
  <2>6a. packet' = packet /\ (packet'.ready => packet'.opened)
    BY <2>3 DEF IInv, RowInv
  <2>7. tracker' \in Tracker /\ log' \in Seq(Event) /\ RowInv' /\ Monotone
    BY <2>6a, <2>2, <2>3, <2>4, <2>5, <2>6, MoveKeepsRowInv DEF IInv, otherVars
  <2>8. packet' \in Packet /\ UNCHANGED otherVars  BY <2>3 DEF IInv, TypeOK
  <2> QED  BY <2>3, <2>7, <2>8, RequestGoes, IdleIsTransaction, IdleKnowsNothing
<1> QED  BY <1>1, <1>2

LEMMA PlanKeepsInvariant ==
  ASSUME IInv, NEW r \in Request
  PROVE  /\ \A due \in Deadline : PlanReads(r, due) => IInv'
         /\ PlanWrites(r) => IInv'
<1>1. ASSUME NEW due \in Deadline, PlanReads(r, due) PROVE IInv'
  <2> DEFINE t == [op |-> "planning", due |-> tracker.due, newDue |-> due]
  <2>1. t \in Transaction
    BY DEF Transaction, Planning, IInv, TypeOK, Tracker
  <2>2. TxnOK(t)  BY <1>1 DEF TxnOK, PlanReads
  <2> QED  BY <1>1, <2>1, <2>2, RequestReads DEF PlanReads
<1>2. ASSUME PlanWrites(r) PROVE IInv'
  <2> DEFINE due == Column(txn[r].due, txn[r].newDue, tracker.due)
  <2>1. Tracked /\ due \in Deadline
    BY <1>2, TransactionTypes, ColumnType
       DEF PlanWrites, IInv, TypeOK, TxnInv, TxnOK, Planning, Tracker
  <2>2. tracker' = [tracker EXCEPT !.due = due] /\ UNCHANGED <<packet, log, otherVars>>
    BY <1>2 DEF PlanWrites
  <2> HIDE DEF due
  <2>3. /\ tracker' \in Tracker
        /\ tracker'.status = tracker.status
        /\ tracker'.applied = tracker.applied
    BY <2>1, <2>2 DEF IInv, TypeOK, Tracker
  <2>4. Tracked' /\ verified' = verified  BY <2>1, <2>2, <2>3 DEF Tracked, otherVars
  <2>5. RowInv'
    BY <2>1, <2>2, <2>3, <2>4 DEF IInv, RowInv, HistoryExplainsStatus, BoundariesAreKept,
                                DocumentsAreApproved
  <2>6. Monotone  BY <2>2, <2>3, <2>4 DEF Monotone, Reached
  <2>7. packet' \in Packet /\ log' \in Seq(Event)  BY <2>2 DEF IInv, TypeOK
  <2> QED
    BY <1>2, <2>2, <2>3, <2>5, <2>6, <2>7, RequestGoes, IdleIsTransaction, IdleKnowsNothing
       DEF PlanWrites, Ends
<1> QED  BY <1>1, <1>2

\* A request ends with a write of the packet's row.
LEMMA PacketWritten ==
  ASSUME IInv, NEW r \in Request, Ends(r), UNCHANGED <<tracker, log, otherVars>>, Tracked,
         packet' \in Packet, packet'.opened, packet.ready <=> packet'.ready,
         Approved(packet'.tailored), Approved(packet'.letter)
  PROVE  IInv'
<1>1. RowInv' /\ Monotone  BY PacketWriteKeepsRowInv DEF IInv, otherVars
<1>2. tracker' \in Tracker /\ log' \in Seq(Event)  BY DEF IInv, TypeOK
<1> QED  BY <1>1, <1>2, RequestGoes, IdleIsTransaction, IdleKnowsNothing DEF Ends

LEMMA OpenKeepsInvariant ==
  ASSUME IInv, NEW r \in Request
  PROVE  OpenReads(r) \/ OpenWrites(r) => IInv'
<1>1. ASSUME OpenReads(r) PROVE IInv'
  <2> DEFINE source == IF tracker.resume # None THEN tracker.resume ELSE active
             t == [op |-> "opening", fills |-> packet.opened, source |-> source]
  <2>1. t \in Transaction
    BY DEF Transaction, Opening, IInv, TypeOK, Tracker, Packet
  <2>2. TxnOK(t)  BY <1>1 DEF TxnOK, OpenReads
  <2> QED  BY <1>1, <2>1, <2>2, RequestReads DEF OpenReads
<1>2. ASSUME OpenWrites(r) PROVE IInv'
  <2>1. Tracked /\ txn[r].source \in Source
    BY <1>2, TransactionTypes DEF OpenWrites, IInv, TypeOK, TxnInv, TxnOK, Opening
  <2> DEFINE src == txn[r].source
  <2>2. /\ packet.opened \in BOOLEAN
        /\ Approved(packet.tailored) /\ Approved(packet.letter) /\ Approved(None)
    BY DEF IInv, TypeOK, Packet, RowInv, DocumentsAreApproved, Approved
  <2>6. txn[r].fills => packet.opened
    BY <1>2, TransactionTypes DEF OpenWrites, IInv, TypeOK, TxnInv, TxnOK
  <2>3. CASE packet' = packet /\ packet.opened
    BY <1>2, <2>1, <2>2, <2>3, PacketWritten DEF OpenWrites, IInv, TypeOK
  <2>4. CASE packet' = [packet EXCEPT !.source = src] /\ packet.opened
    <3>1. /\ packet' \in Packet
          /\ packet'.ready <=> packet.ready
          /\ packet'.opened
          /\ packet'.tailored = packet.tailored /\ packet'.letter = packet.letter
      BY <2>1, <2>4 DEF IInv, TypeOK, Packet
    <3> QED  BY <1>2, <2>1, <2>2, <3>1, PacketWritten DEF OpenWrites
  <2>5. CASE packet' = NewPacket(src) /\ ~packet.opened
    <3>1. /\ packet' \in Packet
          /\ packet'.opened /\ ~packet'.ready
          /\ packet'.tailored = None /\ packet'.letter = None
      BY <2>1, <2>5 DEF NewPacket, NoPacket, Packet
    <3>2. packet.ready <=> packet'.ready
      BY <2>5, <3>1 DEF IInv, RowInv
    <3> QED  BY <1>2, <2>1, <2>2, <3>1, <3>2, PacketWritten DEF OpenWrites
  <2> QED  BY <1>2, <2>2, <2>3, <2>4, <2>5, <2>6 DEF OpenWrites
<1> QED  BY <1>1, <1>2

LEMMA UpdateKeepsInvariant ==
  ASSUME IInv, NEW r \in Request
  PROVE  /\ \A form \in Form : UpdateValidates(r, form) => IInv'
         /\ UpdateReads(r) => IInv'
         /\ UpdateWrites(r) => IInv'
<1>1. ASSUME NEW form \in Form, UpdateValidates(r, form) PROVE IInv'
  <2> DEFINE src == ChosenSource(form, packet.source)
             t == [op |-> "validated", source |-> src, form |-> form]
  <2>1. src \in Source
    BY ChosenSourceType DEF IInv, TypeOK, Packet
  <2> HIDE DEF src
  <2>2. t \in Transaction  BY <2>1 DEF Transaction, Validated
  <2>3. Approved(form.tailored) /\ Approved(form.letter)
    BY <1>1 DEF UpdateValidates, Valid, Selectable, Approved
  <2>4. packet.opened /\ Tracked
    BY <1>1 DEF UpdateValidates, IInv, RowInv
  <2>5. TxnOK(t)  BY <2>3, <2>4 DEF TxnOK
  <2>6. Goes(r, t) /\ UNCHANGED <<rowVars, otherVars>>
    BY <1>1 DEF UpdateValidates, src
  <2> QED  BY <2>2, <2>5, <2>6, RequestReads
<1>2. ASSUME UpdateReads(r) PROVE IInv'
  <2> DEFINE form == txn[r].form
             p == Filled(packet, form, txn[r].source)
             t == [op |-> "editing", seen |-> packet, edited |-> p]
  <2>1. /\ form \in Form /\ txn[r].source \in Source
        /\ Approved(form.tailored) /\ Approved(form.letter)
        /\ packet.opened /\ Tracked
    BY <1>2, TransactionTypes DEF UpdateReads, IInv, TypeOK, TxnInv, TxnOK, Validated
  <2>2. p \in Packet /\ p.tailored = form.tailored /\ p.letter = form.letter
    BY <2>1, FilledType DEF IInv, TypeOK
  <2>3. Goes(r, t) /\ UNCHANGED <<rowVars, otherVars>>  BY <1>2 DEF UpdateReads
  <2> HIDE DEF p, form
  <2>4. t \in Transaction  BY <2>2 DEF Transaction, Editing, IInv, TypeOK
  <2>5. TxnOK(t)  BY <2>1, <2>2 DEF TxnOK
  <2> QED  BY <2>3, <2>4, <2>5, RequestReads
<1>3. ASSUME UpdateWrites(r) PROVE IInv'
  <2> DEFINE a == txn[r].seen
             b == txn[r].edited
  <2>1. /\ a \in Packet /\ b \in Packet
        /\ Approved(b.tailored) /\ Approved(b.letter)
        /\ packet.opened /\ Tracked
    BY <1>3, TransactionTypes DEF UpdateWrites, IInv, TypeOK, TxnInv, TxnOK, Editing
  <2>2. /\ packet' = WrittenPacket(a, b, packet)
        /\ Ends(r)
        /\ UNCHANGED <<tracker, log, otherVars>>
    BY <1>3 DEF UpdateWrites
  <2> HIDE DEF a, b
  <2>3. packet \in Packet /\ Approved(packet.tailored) /\ Approved(packet.letter)
    BY DEF IInv, TypeOK, RowInv, DocumentsAreApproved, Approved
  <2>4. /\ packet' \in Packet
        /\ packet'.ready = packet.ready
        /\ packet'.opened = packet.opened
        /\ packet'.tailored \in {b.tailored, packet.tailored}
        /\ packet'.letter \in {b.letter, packet.letter}
    BY <2>1, <2>2, <2>3, WrittenPacketType
  <2>5. Approved(packet'.tailored) /\ Approved(packet'.letter)
    BY <2>1, <2>3, <2>4
  <2>6. packet'.opened /\ (packet.ready <=> packet'.ready)  BY <2>1, <2>4
  <2> QED  BY <2>1, <2>2, <2>4, <2>5, <2>6, PacketWritten
<1> QED  BY <1>1, <1>2, <1>3

LEMMA ReadyKeepsInvariant ==
  ASSUME IInv, NEW r \in Request
  PROVE  ReadyChecks(r) \/ ReadyMarks(r) \/ ReadyCommits(r) => IInv'
<1>1. ASSUME ReadyChecks(r) PROVE IInv'
  <2> DEFINE t == [op |-> "checked", due |-> tracker.due]
  <2>1. t \in Transaction  BY DEF Transaction, Checked, IInv, TypeOK, Tracker
  <2>2. TxnOK(t)  BY <1>1 DEF TxnOK, ReadyChecks, Tracked
  <2> QED  BY <1>1, <2>1, <2>2, RequestReads DEF ReadyChecks
<1>2. ASSUME ReadyMarks(r) PROVE IInv'
  <2> DEFINE t == [op |-> "readying", due |-> tracker.due, newDue |-> txn[r].due]
  <2>1. txn[r].due \in Deadline /\ packet.opened /\ Tracked
    BY <1>2, TransactionTypes DEF ReadyMarks, IInv, TypeOK, TxnInv, TxnOK, Checked
  <2>2. t \in Transaction  BY <2>1 DEF Transaction, Readying, IInv, TypeOK, Tracker
  <2>3. Reached("preparing")
    <3>1. Len(log) \in 1..Len(log)
      BY <2>1, EmptySeq DEF IInv, TypeOK, RowInv, HistoryExplainsStatus
    <3> QED  BY <1>2, <2>1, <3>1 DEF Reached, IInv, RowInv, HistoryExplainsStatus, ReadyMarks
  <2>4. TxnOK(t)  BY <2>1, <2>3 DEF TxnOK
  <2> QED  BY <1>2, <2>2, <2>4, RequestReads DEF ReadyMarks
<1>3. ASSUME ReadyCommits(r) PROVE IInv'
  <2>1. /\ txn[r].due \in Deadline /\ txn[r].newDue \in Deadline
        /\ packet.opened /\ Tracked /\ Reached("preparing")
    BY <1>3, TransactionTypes DEF ReadyCommits, IInv, TypeOK, TxnInv, TxnOK, Readying
  <2>2. /\ packet' = [packet EXCEPT !.ready = TRUE]
        /\ Moves("preparing", "ready_to_apply", txn[r].due, txn[r].newDue)
        /\ Goes(r, Idle)
        /\ UNCHANGED otherVars
    BY <1>3 DEF ReadyCommits, Ends
  <2>3. /\ packet' \in Packet
        /\ packet'.ready
        /\ packet'.opened = packet.opened
        /\ packet'.tailored = packet.tailored
        /\ packet'.letter = packet.letter
    BY <2>2 DEF IInv, TypeOK, Packet
  <2>4. "preparing" \in Status /\ "ready_to_apply" \in Successors["preparing"] \cap Status
    BY PacketEdges
  <2>5. "ready_to_apply" \notin Behind  BY DEF Behind
  <2>6. packet'.ready => packet'.opened  BY <2>1, <2>3
  <2>7. verified' = verified  BY <2>2 DEF otherVars
  <2>8. tracker' \in Tracker /\ log' \in Seq(Event) /\ RowInv' /\ Monotone
    BY <2>1, <2>2, <2>3, <2>4, <2>5, <2>6, <2>7, MoveKeepsRowInv DEF IInv
  <2> QED  BY <2>2, <2>3, <2>8, RequestGoes, IdleIsTransaction, IdleKnowsNothing
<1> QED  BY <1>1, <1>2, <1>3

LEMMA ConfirmKeepsInvariant ==
  ASSUME IInv, NEW r \in Request
  PROVE  ConfirmReads(r) \/ ConfirmWrites(r) => IInv'
<1>1. ASSUME ConfirmReads(r) PROVE IInv'
  <2> DEFINE t == [op |-> "confirming", due |-> tracker.due]
  <2>1. t \in Transaction  BY DEF Transaction, Confirming, IInv, TypeOK, Tracker
  <2>2. Tracked /\ packet.ready  BY <1>1 DEF ConfirmReads, Tracked
  <2>3. Reached("ready_to_apply")
    <3>1. Len(log) \in 1..Len(log)
      BY <2>2, EmptySeq DEF IInv, TypeOK, RowInv, HistoryExplainsStatus
    <3> QED  BY <1>1, <2>2, <3>1 DEF Reached, IInv, RowInv, HistoryExplainsStatus, ConfirmReads
  <2>4. TxnOK(t)  BY <2>2, <2>3 DEF TxnOK
  <2> QED  BY <1>1, <2>1, <2>4, RequestReads DEF ConfirmReads
<1>2. ASSUME ConfirmWrites(r) PROVE IInv'
  <2>1. /\ txn[r].due \in Deadline
        /\ packet.ready /\ Tracked /\ Reached("ready_to_apply")
    BY <1>2, TransactionTypes DEF ConfirmWrites, IInv, TypeOK, TxnInv, TxnOK, Confirming
  <2>2. /\ Moves("ready_to_apply", "applied", txn[r].due, None)
        /\ Goes(r, Idle)
        /\ packet' = packet
        /\ UNCHANGED otherVars
    BY <1>2 DEF ConfirmWrites, Ends
  <2>3. /\ None \in Deadline
        /\ "ready_to_apply" \in Status
        /\ "applied" \in Successors["ready_to_apply"] \cap Status
    BY PacketEdges DEF Deadline
  <2>4. packet'.ready => packet'.opened  BY <2>2 DEF IInv, RowInv
  <2>5. verified' = verified  BY <2>2 DEF otherVars
  <2>6. tracker' \in Tracker /\ log' \in Seq(Event) /\ RowInv' /\ Monotone
    BY <2>1, <2>2, <2>3, <2>4, <2>5, MoveKeepsRowInv DEF IInv
  <2>7. packet' \in Packet  BY <2>2 DEF IInv, TypeOK
  <2> QED  BY <2>2, <2>6, <2>7, RequestGoes, IdleIsTransaction, IdleKnowsNothing
<1> QED  BY <1>1, <1>2

\* A rollback, a new resume, an approval.
LEMMA OtherStepsKeepInvariant ==
  ASSUME IInv
  PROVE  /\ \A r \in Request : RollsBack(r) => IInv'
         /\ \A s \in Resume : SaveResume(s) => IInv'
         /\ \A d \in Document : Approve(d) => IInv'
<1>1. ASSUME NEW r \in Request, RollsBack(r) PROVE IInv'
  <2>1. TxnOK(Idle)  BY DEF TxnOK, Idle
  <2> QED  BY <1>1, <2>1, RequestReads, IdleIsTransaction DEF RollsBack, Ends
<1>2. ASSUME rowVars' = rowVars, verified \subseteq verified', verified' \subseteq Document,
             txn' = txn, active' \in Source
      PROVE  IInv'
  <2>1. RowInv' /\ Monotone  BY <1>2, RowsStay DEF IInv
  <2>2. TypeOK'  BY <1>2 DEF IInv, TypeOK, rowVars
  <2>3. TxnInv'
    <3> SUFFICES ASSUME NEW q \in Request PROVE TxnOK(txn[q])'
      BY DEF TxnInv
    <3>1. TxnOK(txn[q])  BY DEF IInv, TxnInv
    <3> QED  BY <1>2, <2>1, <3>1 DEF TxnOK, Monotone, Reached, MayBeIn, Approved, Tracked, rowVars
  <2> QED  BY <2>1, <2>2, <2>3 DEF IInv
<1>3. ASSUME NEW s \in Resume, SaveResume(s) PROVE IInv'
  BY <1>2, <1>3 DEF SaveResume, IInv, TypeOK, Source
<1>4. ASSUME NEW d \in Document, Approve(d) PROVE IInv'
  BY <1>2, <1>4 DEF Approve, IInv, TypeOK
<1> QED  BY <1>1, <1>3, <1>4

LEMMA InvariantIsInductive == IInv /\ [Next]_vars => IInv'
<1> SUFFICES ASSUME IInv, [Next]_vars PROVE IInv'
  OBVIOUS
<1>1. CASE \E resume \in Source, due \in Deadline : Create(resume, due)
  BY <1>1, CreateKeepsInvariant
<1>2. CASE (\E s \in Resume : SaveResume(s)) \/ (\E d \in Document : Approve(d))
  BY <1>2, OtherStepsKeepInvariant
<1>3. ASSUME NEW r \in Request, TrackerNext(r) \/ PacketNext(r) \/ RollsBack(r)
      PROVE  IInv'
  <2>1. CASE TrackerNext(r)
    BY <2>1, TransitionKeepsInvariant, PlanKeepsInvariant DEF TrackerNext
  <2>2. CASE PacketNext(r)
    BY <2>2, OpenKeepsInvariant, UpdateKeepsInvariant, ReadyKeepsInvariant,
       ConfirmKeepsInvariant DEF PacketNext
  <2>3. CASE RollsBack(r)
    BY <2>3, OtherStepsKeepInvariant
  <2> QED  BY <1>3, <2>1, <2>2, <2>3
<1>4. CASE UNCHANGED vars
  BY <1>4, OtherStepsKeepInvariant
     DEF vars, rowVars, otherVars, IInv, TypeOK, RowInv, TxnInv, TxnOK, Reached, MayBeIn,
         Approved, Tracked, HistoryExplainsStatus, BoundariesAreKept, DocumentsAreApproved
<1> QED  BY <1>1, <1>2, <1>3, <1>4 DEF Next

\* However requests overlap, the invariant holds in every reachable state.
THEOREM Invariance == Spec => []IInv
<1>1. Init => IInv  BY InvariantHoldsFirst
<1>2. IInv /\ [Next]_vars => IInv'  BY InvariantIsInductive
<1> QED  BY <1>1, <1>2, PTL DEF Spec

\* Every variable keeps its type, whatever updates are merged into the rows.
THEOREM TypeCorrect == Spec => []TypeOK
<1>1. IInv => TypeOK  BY DEF IInv
<1> QED  BY <1>1, Invariance, PTL

\* The log explains the status: it begins with the creation, ends with the
\* present status, and follows the graph out of statuses that were reached.
THEOREM HistoryExplains == Spec => []HistoryExplainsStatus
<1>1. IInv => HistoryExplainsStatus  BY DEF IInv, RowInv
<1> QED  BY <1>1, Invariance, PTL

\* No overlap of requests takes a tracker past readiness without a ready packet,
\* or past submission without a date and an event of it.
THEOREM BoundariesHold == Spec => []BoundariesAreKept
<1>1. IInv => BoundariesAreKept  BY DEF IInv, RowInv
<1> QED  BY <1>1, Invariance, PTL

\* A packet names only documents that are approved and made for its job.
THEOREM OnlyApprovedDocuments == Spec => []DocumentsAreApproved
<1>1. IInv => DocumentsAreApproved  BY DEF IInv, RowInv
<1> QED  BY <1>1, Invariance, PTL

-----------------------------------------------------------------------------
(***************************************************************************)
(* Requests that do not overlap.  At most one is under way, and what it    *)
(* has read is what the rows still say.                                    *)
(***************************************************************************)
Alone == \A r, q \in Request : txn[r] # Idle /\ txn[q] # Idle => r = q

\* ApplicationWorkflow is about the same rows.
LEMMA SameRows ==
  /\ Workflow!Source = Source
  /\ Workflow!Deadline = Deadline
  /\ Workflow!Successors = Successors
  /\ Workflow!PacketDriven = PacketDriven
  /\ Workflow!Tracker = Tracker
  /\ Workflow!Packet = Packet
  /\ Workflow!NoTracker = NoTracker
  /\ Workflow!NoPacket = NoPacket
  /\ \A r, due : Workflow!NewTracker(r, due) = NewTracker(r, due)
  /\ \A p : Workflow!Complete(p) <=> Complete(p)
<1>1. Workflow!Source = Source  BY DEF Workflow!Source, Source
<1>2. Workflow!Deadline = Deadline  BY DEF Workflow!Deadline, Deadline
<1>3. Workflow!Successors = Successors  BY DEF Workflow!Successors, Successors
<1>4. Workflow!Status = Status  BY <1>3 DEF Workflow!Status, Status
<1>5. Workflow!Tracker = Tracker  BY <1>1, <1>2, <1>4 DEF Workflow!Tracker, Tracker
<1>6. Workflow!Packet = Packet  BY <1>1 DEF Workflow!Packet, Packet
<1> QED
  BY <1>1, <1>2, <1>3, <1>5, <1>6
     DEF Workflow!PacketDriven, PacketDriven, Workflow!NoTracker, NoTracker,
         Workflow!NoPacket, NoPacket, Workflow!NewTracker, NewTracker,
         Workflow!Complete, Complete

\* The documents of a form, and the resume they are all made from.
FormIsSound(form, src) ==
  \A d \in {form.tailored, form.letter} \ {None} : d \in ForThisJob /\ SourceOf[d] = src

Current(t) ==
  /\ t.op \in {"moving", "planning", "checked", "readying", "confirming"} => t.due = tracker.due
  /\ t.op = "moving" => t.from = tracker.status
  /\ t.op = "opening" => /\ t.fills <=> packet.opened
                         /\ ~packet.ready
                         /\ t.fills => packet.source = None
  /\ t.op = "validated" => FormIsSound(t.form, t.source)
  /\ t.op = "editing" => /\ t.seen = packet
                         /\ ~packet.ready
                         /\ t.edited.opened /\ ~t.edited.ready
                         /\ Workflow!Sound(t.edited)
  /\ t.op \in {"checked", "readying"} => tracker.status = "preparing" /\ Complete(packet)
  /\ t.op = "readying" => t.newDue = t.due
  /\ t.op = "confirming" => tracker.status = "ready_to_apply"

PacketInv ==
  /\ Workflow!Sound(packet)
  /\ packet.ready => Complete(packet) /\ tracker.status # "preparing"

SerialInv == Alone /\ (\A r \in Request : Current(txn[r])) /\ PacketInv

\* What is to be shown of a step: it keeps SerialInv, and is a step of the
\* workflow or changes no row.
StepIsSerial == SerialInv' /\ (Workflow!Next \/ UNCHANGED rowVars)

OthersAreIdle(r) == \A q \in Request \ {r} : txn[q] = Idle

\* When r begins or goes on, no other request is under way.
LEMMA BeginsAlone ==
  ASSUME Overlapping = FALSE, NEW r \in Request, MayBegin(r)
  PROVE  OthersAreIdle(r)
BY DEF MayBegin, OthersAreIdle

LEMMA GoesOnAlone ==
  ASSUME SerialInv, NEW r \in Request, txn[r].op # "idle"
  PROVE  OthersAreIdle(r)
BY DEF SerialInv, Alone, OthersAreIdle, Idle

\* After a step of r it is enough to look at what r has read and at the packet.
LEMMA SerialStep ==
  ASSUME TypeOK, NEW r \in Request, OthersAreIdle(r), NEW t, Goes(r, t), Current(t)',
         PacketInv'
  PROVE  SerialInv'
<1>1. \A q \in Request : txn'[q] = IF q = r THEN t ELSE Idle
  BY DEF TypeOK, Goes, OthersAreIdle
<1>2. Alone'  BY <1>1 DEF Alone
<1>3. ASSUME NEW q \in Request PROVE Current(txn[q])'
  <2>1. CASE q = r  BY <1>1, <2>1 DEF Current
  <2>2. CASE q # r  BY <1>1, <2>2 DEF Current, Idle
  <2> QED  BY <2>1, <2>2
<1> QED  BY <1>2, <1>3 DEF SerialInv

LEMMA IdleIsCurrent == Current(Idle)'
BY DEF Current, Idle

\* A reading keeps the rows, and what is read is current.
LEMMA SerialReading ==
  ASSUME TypeOK, SerialInv, NEW r \in Request, OthersAreIdle(r), NEW t, Goes(r, t), Current(t),
         UNCHANGED <<rowVars, otherVars>>
  PROVE  StepIsSerial
<1>1. tracker' = tracker /\ packet' = packet /\ UNCHANGED rowVars  BY DEF rowVars
<1>2. Current(t)'  BY <1>1 DEF Current
<1>3. PacketInv'  BY <1>1 DEF SerialInv, PacketInv
<1> QED  BY <1>1, <1>2, <1>3, SerialStep DEF StepIsSerial

LEMMA NewPacketType ==
  ASSUME NEW src \in Source
  PROVE  /\ NewPacket(src) \in Packet
         /\ NewPacket(src).opened
         /\ ~NewPacket(src).ready
         /\ NewPacket(src).tailored = None
         /\ NewPacket(src).letter = None
         /\ ~NewPacket(src).letterReviewed
BY DEF NewPacket, NoPacket, Packet

\* The commit of a status change of the one request under way, which has read
\* the present status and deadline.
LEMMA MoveIsExact ==
  ASSUME TypeOK, NEW to \in Status, NEW newDue \in Deadline, tracker.status # "absent",
         Moves(tracker.status, to, tracker.due, newDue)
  PROVE  /\ tracker' \in Tracker
         /\ tracker'.status = to
         /\ tracker'.resume = tracker.resume
         /\ tracker'.due = newDue
         /\ tracker'.applied <=> tracker.applied \/ to = "applied"
         /\ tracker'.applied \in BOOLEAN /\ tracker.applied \in BOOLEAN
         /\ log' = Append(log, [from |-> tracker.status, to |-> tracker'.status])
<1>1. tracker \in Tracker /\ tracker.due \in Deadline  BY DEF TypeOK, Tracker
<1>2. tracker' = MovedTracker(tracker, to, tracker.due, newDue)  BY DEF Moves
<1>3. Column(tracker.due, newDue, tracker.due) = newDue  BY DEF Column
<1>4. /\ tracker' \in Tracker
      /\ tracker'.status = to
      /\ tracker'.resume = tracker.resume
      /\ tracker'.due = newDue
      /\ tracker'.applied <=> tracker.applied \/ to = "applied"
  BY <1>1, <1>2, <1>3, MovedTrackerFacts
<1>5. tracker'.applied \in BOOLEAN /\ tracker.applied \in BOOLEAN
  BY <1>1, <1>4 DEF Tracker
<1> QED  BY <1>4, <1>5 DEF Moves

LEMMA CreateIsSerial ==
  ASSUME IInv, SerialInv, NEW resume \in Source, NEW due \in Deadline, Create(resume, due)
  PROVE  StepIsSerial
<1>1. /\ tracker' = NewTracker(resume, due)
      /\ log' = Append(log, [from |-> tracker.status, to |-> tracker'.status])
      /\ packet' = packet /\ txn' = txn
      /\ ~Tracked
  BY DEF Create, Tracked, NewTracker
<1>2. Workflow!Tracked
  BY <1>1, SameRows DEF Workflow!Tracked, Workflow!Recorded, Tracked
<1>3. \A r \in Request : txn[r] = Idle
  BY <1>1, TransactionTypes DEF IInv, TypeOK, TxnInv, TxnOK
<1>4. SerialInv'
  <2>1. Alone' /\ \A r \in Request : Current(txn[r])'
    BY <1>1, <1>3 DEF Alone, Current, Idle
  <2>2. ~packet.ready  BY <1>1 DEF IInv, RowInv
  <2> QED  BY <1>1, <2>1, <2>2 DEF SerialInv, PacketInv
<1> QED  BY <1>2, <1>4 DEF StepIsSerial, Workflow!Next

LEMMA TransitionIsSerial ==
  ASSUME Overlapping = FALSE, IInv, SerialInv, NEW r \in Request
  PROVE  /\ \A to \in Status, due \in Deadline : TransitionReads(r, to, due) => StepIsSerial
         /\ TransitionWrites(r) => StepIsSerial
<1>1. ASSUME NEW to \in Status, NEW due \in Deadline, TransitionReads(r, to, due)
      PROVE  StepIsSerial
  <2> DEFINE t == [op |-> "moving", from |-> tracker.status, due |-> tracker.due,
                   to |-> to, newDue |-> due]
  <2>1. OthersAreIdle(r)  BY <1>1, BeginsAlone DEF TransitionReads
  <2>2. Current(t)  BY DEF Current
  <2> QED  BY <1>1, <2>1, <2>2, SerialReading DEF TransitionReads, IInv
<1>2. ASSUME TransitionWrites(r) PROVE StepIsSerial
  <2> DEFINE t == txn[r]
  <2>1. t \in Moving /\ TxnOK(t) /\ Current(t) /\ t.op = "moving"
    BY <1>2, TransactionTypes DEF TransitionWrites, IInv, TypeOK, TxnInv, SerialInv
  <2>2. /\ t.from = tracker.status /\ t.due = tracker.due
        /\ t.from \in Status \ {"discovered", "saved"}
        /\ t.to \in Successors[t.from] \ PacketDriven
        /\ t.newDue \in Deadline /\ tracker.status # "absent"
    BY <2>1, PacketEdges DEF TxnOK, Moving, Current, Tracked
  <2>3. Moves(t.from, t.to, t.due, t.newDue) /\ packet' = packet /\ Goes(r, Idle)
    BY <1>2 DEF TransitionWrites, Ends
  <2>4. OthersAreIdle(r)  BY <2>1, GoesOnAlone
  <2> HIDE DEF t
  <2>5. t.to \in Status /\ t.to # "preparing"  BY <2>2, GenericEdges
  <2>6. /\ tracker' \in Tracker
        /\ tracker'.status = t.to
        /\ tracker'.resume = tracker.resume
        /\ tracker'.applied <=> tracker.applied \/ t.to = "applied"
        /\ tracker'.applied \in BOOLEAN /\ tracker.applied \in BOOLEAN
        /\ log' = Append(log, [from |-> tracker.status, to |-> tracker'.status])
    BY <2>2, <2>3, <2>5, MoveIsExact DEF IInv
  <2>7. t.to # "applied"  BY <2>2 DEF PacketDriven
  <2>8. Workflow!Moved
    BY <2>2, <2>3, <2>6, <2>7, SameRows DEF Workflow!Moved, Workflow!Recorded
  <2>9. PacketInv'  BY <2>3, <2>5, <2>6 DEF SerialInv, PacketInv
  <2>10. SerialInv'  BY <2>3, <2>4, <2>9, SerialStep, IdleIsCurrent DEF IInv
  <2> QED  BY <2>8, <2>10 DEF StepIsSerial, Workflow!Next
<1> QED  BY <1>1, <1>2

LEMMA PlanIsSerial ==
  ASSUME Overlapping = FALSE, IInv, SerialInv, NEW r \in Request
  PROVE  /\ \A due \in Deadline : PlanReads(r, due) => StepIsSerial
         /\ PlanWrites(r) => StepIsSerial
<1>1. ASSUME NEW due \in Deadline, PlanReads(r, due) PROVE StepIsSerial
  <2> DEFINE t == [op |-> "planning", due |-> tracker.due, newDue |-> due]
  <2>1. OthersAreIdle(r)  BY <1>1, BeginsAlone DEF PlanReads
  <2>2. Current(t)  BY DEF Current
  <2> QED  BY <1>1, <2>1, <2>2, SerialReading DEF PlanReads, IInv
<1>2. ASSUME PlanWrites(r) PROVE StepIsSerial
  <2> DEFINE due == Column(txn[r].due, txn[r].newDue, tracker.due)
  <2>1. due \in Deadline /\ Tracked
    BY <1>2, TransactionTypes, ColumnType
       DEF PlanWrites, IInv, TypeOK, TxnInv, TxnOK, Planning, Tracker
  <2>2. /\ tracker' = [tracker EXCEPT !.due = due]
        /\ packet' = packet /\ log' = log /\ Goes(r, Idle)
    BY <1>2 DEF PlanWrites, Ends
  <2> HIDE DEF due
  <2>3. /\ tracker' \in Tracker
        /\ tracker'.status = tracker.status
        /\ tracker'.resume = tracker.resume
        /\ tracker'.applied = tracker.applied
    BY <2>1, <2>2 DEF IInv, TypeOK, Tracker
  <2>4. Workflow!Planned  BY <2>1, <2>2, <2>3, SameRows DEF Workflow!Planned, Tracked
  <2>5. PacketInv'  BY <2>2, <2>3 DEF SerialInv, PacketInv
  <2>6. OthersAreIdle(r)  BY <1>2, GoesOnAlone DEF PlanWrites
  <2>7. SerialInv'  BY <2>2, <2>5, <2>6, SerialStep, IdleIsCurrent DEF IInv
  <2> QED  BY <2>4, <2>7 DEF StepIsSerial, Workflow!Next
<1> QED  BY <1>1, <1>2

\* A write of the packet by the one request under way.
LEMMA EditIsSerial ==
  ASSUME IInv, SerialInv, NEW r \in Request, txn[r].op # "idle", Ends(r),
         UNCHANGED <<tracker, log>>,
         packet' = packet \/ (/\ ~packet.ready
                             /\ packet' \in Packet /\ packet'.opened /\ ~packet'.ready
                             /\ Workflow!Sound(packet'))
  PROVE  StepIsSerial
<1>1. Tracked  BY DEF IInv, TxnInv, TxnOK
<1>2. Workflow!Edited \/ packet' = packet
  BY <1>1, SameRows DEF Workflow!Edited, Tracked
<1>3. PacketInv'
  <2>1. CASE packet' = packet  BY <2>1 DEF SerialInv, PacketInv
  <2>2. CASE packet' # packet  BY <2>2 DEF PacketInv, Workflow!Sound
  <2> QED  BY <2>1, <2>2
<1>4. SerialInv'
  BY <1>3, GoesOnAlone, SerialStep, IdleIsCurrent DEF Ends, IInv
<1> QED  BY <1>2, <1>4 DEF StepIsSerial, Workflow!Next, rowVars

LEMMA OpenIsSerial ==
  ASSUME Overlapping = FALSE, IInv, SerialInv, NEW r \in Request
  PROVE  OpenReads(r) \/ OpenWrites(r) => StepIsSerial
<1>1. ASSUME OpenReads(r) PROVE StepIsSerial
  <2> DEFINE source == IF tracker.resume # None THEN tracker.resume ELSE active
             t == [op |-> "opening", fills |-> packet.opened, source |-> source]
  <2>1. OthersAreIdle(r)  BY <1>1, BeginsAlone DEF OpenReads
  <2>2. ~packet.ready  BY <1>1 DEF OpenReads, IInv, RowInv
  <2>3. Current(t)  BY <1>1, <2>2 DEF Current, OpenReads
  <2> QED  BY <1>1, <2>1, <2>3, SerialReading DEF OpenReads, IInv
<1>2. ASSUME OpenWrites(r) PROVE StepIsSerial
  <2> DEFINE src == txn[r].source
  <2>1. /\ src \in Source /\ packet \in Packet
        /\ txn[r].fills <=> packet.opened
        /\ ~packet.ready
        /\ txn[r].fills => packet.source = None
        /\ Workflow!Sound(packet)
    BY <1>2, TransactionTypes
       DEF OpenWrites, IInv, TypeOK, Opening, SerialInv, Current, PacketInv
  <2>2. Ends(r) /\ UNCHANGED <<tracker, log>> /\ txn[r].op # "idle"
    BY <1>2 DEF OpenWrites
  <2>3. CASE packet.opened
    <3>1. packet' = [packet EXCEPT !.source = src]
      BY <1>2, <2>1, <2>3 DEF OpenWrites
    <3>2. packet.tailored = None /\ packet.letter = None
      BY <2>1, <2>3, DocumentAssumption DEF Workflow!Sound, Packet, Document
    <3>3. /\ packet' \in Packet
          /\ packet'.opened /\ ~packet'.ready
          /\ packet'.tailored = None /\ packet'.letter = None
          /\ packet'.letterReviewed = packet.letterReviewed
      BY <2>1, <2>3, <3>1, <3>2 DEF Packet
    <3>4. Workflow!Sound(packet')
      BY <2>1, <3>2, <3>3 DEF Workflow!Sound
    <3> QED  BY <2>1, <2>2, <3>3, <3>4, EditIsSerial
  <2>4. CASE ~packet.opened
    <3>1. packet' = NewPacket(src)  BY <1>2, <2>1, <2>4 DEF OpenWrites
    <3>2. /\ packet' \in Packet
          /\ packet'.opened /\ ~packet'.ready
          /\ packet'.tailored = None /\ packet'.letter = None
          /\ ~packet'.letterReviewed
      BY <2>1, <3>1, NewPacketType
    <3>3. Workflow!Sound(packet')  BY <3>2 DEF Workflow!Sound
    <3> QED  BY <2>1, <2>2, <3>2, <3>3, EditIsSerial
  <2> QED  BY <2>3, <2>4
<1> QED  BY <1>1, <1>2

\* _validate_documents leaves one resume behind all documents of a form.
LEMMA ValidFormsAreSound ==
  ASSUME NEW form \in Form, NEW src \in Source, NEW ok, Valid(form, src, ok)
  PROVE  FormIsSound(form, ChosenSource(form, src))
<1>1. /\ form.tailored # None => form.tailored \in Document
      /\ form.letter # None => form.letter \in Document
  BY DEF Form, Document
<1> DEFINE src1 == SourceWith(form.tailored, src)
<1>2. form.tailored # None =>
        /\ form.tailored \in ForThisJob
        /\ src1 = SourceOf[form.tailored]
        /\ src1 # None
  BY <1>1, DocumentAssumption DEF Valid, Selectable, SourceWith
<1>3. form.letter # None =>
        /\ form.letter \in ForThisJob
        /\ src1 # None => SourceOf[form.letter] = src1
        /\ ChosenSource(form, src) = SourceOf[form.letter]
  BY DEF Valid, Selectable, SourceWith, ChosenSource
<1>4. form.letter = None => ChosenSource(form, src) = src1
  BY DEF SourceWith, ChosenSource
<1> QED  BY <1>2, <1>3, <1>4 DEF FormIsSound

\* With nothing written since it was read, a packet becomes what was assigned.
LEMMA WrittenPacketIsExact ==
  ASSUME NEW a \in Packet, NEW b \in Packet, b.opened, a.opened, ~b.ready, ~a.ready
  PROVE  WrittenPacket(a, b, a) = b
<1>1. /\ Column(a.source, b.source, a.source) = b.source
      /\ Column(a.tailored, b.tailored, a.tailored) = b.tailored
      /\ Column(a.letter, b.letter, a.letter) = b.letter
      /\ Column(a.letterReviewed, b.letterReviewed, a.letterReviewed) = b.letterReviewed
  BY DEF Column
<1>2. Confirmed(a.checked, b.checked, a.checked) = b.checked  BY DEF Confirmed
<1>3. a.opened = b.opened /\ a.ready = b.ready  BY DEF Packet
<1> QED  BY <1>1, <1>2, <1>3 DEF WrittenPacket, Packet

LEMMA UpdateIsSerial ==
  ASSUME Overlapping = FALSE, IInv, SerialInv, NEW r \in Request
  PROVE  /\ \A form \in Form : UpdateValidates(r, form) => StepIsSerial
         /\ UpdateReads(r) => StepIsSerial
         /\ UpdateWrites(r) => StepIsSerial
<1>1. ASSUME NEW form \in Form, UpdateValidates(r, form) PROVE StepIsSerial
  <2> DEFINE src == ChosenSource(form, packet.source)
             t == [op |-> "validated", source |-> src, form |-> form]
  <2>1. OthersAreIdle(r)  BY <1>1, BeginsAlone DEF UpdateValidates
  <2>2. FormIsSound(form, src)
    BY <1>1, ValidFormsAreSound DEF UpdateValidates, IInv, TypeOK, Packet
  <2>3. Goes(r, t) /\ UNCHANGED <<rowVars, otherVars>>  BY <1>1 DEF UpdateValidates
  <2> HIDE DEF src
  <2>4. Current(t)  BY <2>2 DEF Current
  <2> QED  BY <2>1, <2>3, <2>4, SerialReading DEF IInv
<1>2. ASSUME UpdateReads(r) PROVE StepIsSerial
  <2> DEFINE form == txn[r].form
             src == txn[r].source
             p == Filled(packet, form, src)
             t == [op |-> "editing", seen |-> packet, edited |-> p]
  <2>1. OthersAreIdle(r)  BY <1>2, GoesOnAlone DEF UpdateReads
  <2>2. /\ form \in Form /\ src \in Source /\ FormIsSound(form, src)
        /\ packet \in Packet /\ packet.opened /\ ~packet.ready
    BY <1>2, TransactionTypes
       DEF UpdateReads, IInv, TypeOK, TxnInv, TxnOK, Validated, SerialInv, Current
  <2>3. Goes(r, t) /\ UNCHANGED <<rowVars, otherVars>>  BY <1>2 DEF UpdateReads
  <2> HIDE DEF form, src
  <2>4. /\ p.source = src /\ p.tailored = form.tailored /\ p.letter = form.letter
        /\ p.letterReviewed => form.letter # None
        /\ p.opened /\ ~p.ready
    BY <2>2 DEF Filled
  <2>5. Workflow!Sound(p)  BY <2>2, <2>4 DEF Workflow!Sound, FormIsSound
  <2> HIDE DEF p
  <2>6. Current(t)  BY <2>2, <2>4, <2>5 DEF Current
  <2> QED  BY <2>1, <2>3, <2>6, SerialReading DEF IInv
<1>3. ASSUME UpdateWrites(r) PROVE StepIsSerial
  <2> DEFINE b == txn[r].edited
  <2>1. /\ txn[r].seen = packet
        /\ packet \in Packet /\ packet.opened /\ ~packet.ready
        /\ b \in Packet /\ b.opened /\ ~b.ready /\ Workflow!Sound(b)
    BY <1>3, TransactionTypes
       DEF UpdateWrites, IInv, TypeOK, TxnInv, TxnOK, Editing, SerialInv, Current
  <2>2. /\ packet' = WrittenPacket(packet, b, packet)
        /\ Ends(r) /\ UNCHANGED <<tracker, log>> /\ txn[r].op # "idle"
    BY <1>3, <2>1 DEF UpdateWrites
  <2> HIDE DEF b
  <2>3. packet' = b  BY <2>1, <2>2, WrittenPacketIsExact
  <2> QED  BY <2>1, <2>2, <2>3, EditIsSerial
<1> QED  BY <1>1, <1>2, <1>3

LEMMA ReadyIsSerial ==
  ASSUME Overlapping = FALSE, IInv, SerialInv, NEW r \in Request
  PROVE  ReadyChecks(r) \/ ReadyMarks(r) \/ ReadyCommits(r) => StepIsSerial
<1>1. ASSUME ReadyChecks(r) PROVE StepIsSerial
  <2> DEFINE t == [op |-> "checked", due |-> tracker.due]
  <2>1. OthersAreIdle(r)  BY <1>1, BeginsAlone DEF ReadyChecks
  <2>2. Current(t)  BY <1>1 DEF Current, ReadyChecks
  <2> QED  BY <1>1, <2>1, <2>2, SerialReading DEF ReadyChecks, IInv
<1>2. ASSUME ReadyMarks(r) PROVE StepIsSerial
  <2> DEFINE t == [op |-> "readying", due |-> tracker.due, newDue |-> txn[r].due]
  <2>1. OthersAreIdle(r)  BY <1>2, GoesOnAlone DEF ReadyMarks
  <2>2. Current(t)
    BY <1>2 DEF Current, ReadyMarks, SerialInv
  <2> QED  BY <1>2, <2>1, <2>2, SerialReading DEF ReadyMarks, IInv
<1>3. ASSUME ReadyCommits(r) PROVE StepIsSerial
  <2>1. /\ txn[r].due = tracker.due /\ txn[r].newDue = tracker.due
        /\ tracker.status = "preparing" /\ Complete(packet)
        /\ tracker.due \in Deadline /\ packet.opened
    BY <1>3, TransactionTypes
       DEF ReadyCommits, IInv, TypeOK, TxnInv, TxnOK, Readying, SerialInv, Current
  <2>2. /\ packet' = [packet EXCEPT !.ready = TRUE]
        /\ Moves(tracker.status, "ready_to_apply", tracker.due, tracker.due)
        /\ Goes(r, Idle)
    BY <1>3, <2>1 DEF ReadyCommits, Ends
  <2>3. /\ tracker' \in Tracker
        /\ tracker'.status = "ready_to_apply"
        /\ tracker'.resume = tracker.resume
        /\ tracker'.due = tracker.due
        /\ tracker'.applied = tracker.applied
        /\ log' = Append(log, [from |-> tracker.status, to |-> tracker'.status])
    BY <2>1, <2>2, MoveIsExact, PacketEdges DEF IInv
  <2>4. ~packet.ready  BY <2>1 DEF SerialInv, PacketInv
  <2>5. Workflow!MadeReady
    BY <2>1, <2>2, <2>3, <2>4, SameRows DEF Workflow!MadeReady, Workflow!Recorded
  <2>6. /\ packet'.source = packet.source
        /\ packet'.tailored = packet.tailored
        /\ packet'.letter = packet.letter
        /\ packet'.checked = packet.checked
        /\ packet'.letterReviewed = packet.letterReviewed
    BY <2>2 DEF IInv, TypeOK, Packet
  <2>7. PacketInv'
    BY <2>1, <2>3, <2>6 DEF SerialInv, PacketInv, Complete, Workflow!Sound
  <2>8. OthersAreIdle(r)  BY <1>3, GoesOnAlone DEF ReadyCommits
  <2>9. SerialInv'  BY <2>2, <2>7, <2>8, SerialStep, IdleIsCurrent DEF IInv
  <2> QED  BY <2>5, <2>9 DEF StepIsSerial, Workflow!Next
<1> QED  BY <1>1, <1>2, <1>3

LEMMA ConfirmIsSerial ==
  ASSUME Overlapping = FALSE, IInv, SerialInv, NEW r \in Request
  PROVE  ConfirmReads(r) \/ ConfirmWrites(r) => StepIsSerial
<1>1. ASSUME ConfirmReads(r) PROVE StepIsSerial
  <2> DEFINE t == [op |-> "confirming", due |-> tracker.due]
  <2>1. OthersAreIdle(r)  BY <1>1, BeginsAlone DEF ConfirmReads
  <2>2. Current(t)  BY <1>1 DEF Current, ConfirmReads
  <2> QED  BY <1>1, <2>1, <2>2, SerialReading DEF ConfirmReads, IInv
<1>2. ASSUME ConfirmWrites(r) PROVE StepIsSerial
  <2>1. /\ txn[r].due = tracker.due
        /\ tracker.status = "ready_to_apply"
        /\ packet.ready
    BY <1>2 DEF ConfirmWrites, IInv, TxnInv, TxnOK, SerialInv, Current
  <2>2. /\ Moves(tracker.status, "applied", tracker.due, None)
        /\ packet' = packet
        /\ Goes(r, Idle)
    BY <1>2, <2>1 DEF ConfirmWrites, Ends
  <2>3. /\ tracker' \in Tracker
        /\ tracker'.status = "applied"
        /\ tracker'.resume = tracker.resume
        /\ tracker'.applied
        /\ log' = Append(log, [from |-> tracker.status, to |-> tracker'.status])
    BY <2>1, <2>2, MoveIsExact, PacketEdges DEF IInv, Deadline
  <2>4. Workflow!Submitted
    BY <2>1, <2>2, <2>3, SameRows DEF Workflow!Submitted, Workflow!Recorded
  <2>5. PacketInv'  BY <2>2, <2>3 DEF SerialInv, PacketInv
  <2>6. OthersAreIdle(r)  BY <1>2, GoesOnAlone DEF ConfirmWrites
  <2>7. SerialInv'  BY <2>2, <2>5, <2>6, SerialStep, IdleIsCurrent DEF IInv
  <2> QED  BY <2>4, <2>7 DEF StepIsSerial, Workflow!Next
<1> QED  BY <1>1, <1>2

\* Every step of requests that do not overlap is one of the workflow.
LEMMA StepsAreSerial ==
  ASSUME Overlapping = FALSE, IInv, SerialInv, [Next]_vars
  PROVE  StepIsSerial
<1>1. ASSUME UNCHANGED <<tracker, packet, log, txn>> PROVE StepIsSerial
  BY <1>1 DEF StepIsSerial, SerialInv, Alone, Current, PacketInv, rowVars
<1>2. CASE \E resume \in Source, due \in Deadline : Create(resume, due)
  BY <1>2, CreateIsSerial
<1>3. CASE (\E s \in Resume : SaveResume(s)) \/ (\E d \in Document : Approve(d))
  BY <1>1, <1>3 DEF SaveResume, Approve, rowVars
<1>4. ASSUME NEW r \in Request, TrackerNext(r) \/ PacketNext(r) \/ RollsBack(r)
      PROVE  StepIsSerial
  <2>1. CASE TrackerNext(r)
    BY <2>1, TransitionIsSerial, PlanIsSerial DEF TrackerNext
  <2>2. CASE PacketNext(r)
    BY <2>2, OpenIsSerial, UpdateIsSerial, ReadyIsSerial, ConfirmIsSerial DEF PacketNext
  <2>3. CASE RollsBack(r)
    <3>1. txn[r].op # "idle"
      BY <2>3, TransactionTypes DEF RollsBack, IInv, TypeOK
    <3>2. OthersAreIdle(r)  BY <3>1, GoesOnAlone
    <3>3. Current(Idle)  BY DEF Current, Idle
    <3> QED  BY <2>3, <3>2, <3>3, SerialReading DEF RollsBack, Ends, IInv
  <2> QED  BY <1>4, <2>1, <2>2, <2>3
<1>5. CASE UNCHANGED vars
  BY <1>1, <1>5 DEF vars, rowVars
<1> QED  BY <1>2, <1>3, <1>4, <1>5 DEF Next

LEMMA SerialInvHoldsFirst == Init => SerialInv
<1> SUFFICES ASSUME Init PROVE SerialInv
  OBVIOUS
<1>1. Alone /\ \A r \in Request : Current(txn[r])
  BY DEF Init, Alone, Current, Idle
<1>2. PacketInv  BY DEF Init, PacketInv, NoPacket, Workflow!Sound
<1> QED  BY <1>1, <1>2 DEF SerialInv

\* Requests that do not overlap never act on anything stale.
THEOREM SerialInvariance == ASSUME Overlapping = FALSE PROVE Spec => [](IInv /\ SerialInv)
<1>1. Init => IInv /\ SerialInv  BY InvariantHoldsFirst, SerialInvHoldsFirst
<1>2. IInv /\ SerialInv /\ [Next]_vars => (IInv /\ SerialInv)'
  BY InvariantIsInductive, StepsAreSerial DEF StepIsSerial
<1> QED  BY <1>1, <1>2, PTL DEF Spec

\* One request at a time, the handlers implement the workflow of
\* docs/architecture/0012 and 0038.
THEOREM RequestsImplementWorkflow == ASSUME Overlapping = FALSE PROVE Spec => ImplementsWorkflow
<1>1. Init => Workflow!Init
  BY SameRows DEF Init, Workflow!Init
<1>2. IInv /\ SerialInv /\ [Next]_vars => [Workflow!Next]_<<tracker, packet, log>>
  BY StepsAreSerial DEF StepIsSerial, rowVars
<1> QED  BY <1>1, <1>2, SerialInvariance, PTL DEF Spec, ImplementsWorkflow, Workflow!Spec

\* One request at a time, a ready packet is complete.
THEOREM ReadyPacketsAreComplete == ASSUME Overlapping = FALSE PROVE Spec => []ReadyIsComplete
<1>1. SerialInv => ReadyIsComplete  BY DEF SerialInv, PacketInv, ReadyIsComplete
<1> QED  BY <1>1, SerialInvariance, PTL

\* One request at a time, the selected documents come from the packet's own
\* resume.
THEOREM DocumentsAreOfOneResume ==
  ASSUME Overlapping = FALSE PROVE Spec => []DocumentsShareResume
<1>1. SerialInv => DocumentsShareResume
  BY DEF SerialInv, PacketInv, Workflow!Sound, DocumentsShareResume
<1> QED  BY <1>1, SerialInvariance, PTL

\* One request at a time, each event of the log begins where the one before it
\* ended: the log is a path of the status graph.
THEOREM HistoriesArePaths == ASSUME Overlapping = FALSE PROVE Spec => []HistoryIsAPath
<1>1. Init => HistoryIsAPath  BY DEF Init, HistoryIsAPath
<1>2. IInv /\ SerialInv /\ HistoryIsAPath /\ [Next]_vars => HistoryIsAPath'
  <2> SUFFICES ASSUME IInv, SerialInv, HistoryIsAPath, [Next]_vars
               PROVE  HistoryIsAPath'
    OBVIOUS
  <2>1. Workflow!Next \/ UNCHANGED rowVars  BY StepsAreSerial DEF StepIsSerial
  <2>2. log' = log \/ Workflow!Recorded
    BY <2>1 DEF rowVars, Workflow!Next, Workflow!Tracked, Workflow!Planned, Workflow!Moved,
                Workflow!Edited, Workflow!MadeReady, Workflow!Submitted
  <2>3. CASE log' = log  BY <2>3 DEF HistoryIsAPath
  <2>4. CASE Workflow!Recorded
    <3>1. log \in Seq(Event)  BY DEF IInv, TypeOK
    <3>2. log' = Append(log, [from |-> tracker.status, to |-> tracker'.status])
      BY <2>4 DEF Workflow!Recorded
    <3>3. log # <<>> => log[Len(log)].to = tracker.status
      BY DEF IInv, RowInv, HistoryExplainsStatus
    <3> SUFFICES ASSUME NEW i \in 2..Len(log')
                 PROVE  log'[i].from = log'[i - 1].to
      BY DEF HistoryIsAPath
    <3>4. Len(log') = Len(log) + 1 /\ Len(log) \in Nat  BY <3>1, <3>2
    <3>5. log'[i - 1] = log[i - 1]  BY <3>1, <3>2, <3>4
    <3>6. CASE i \in 2..Len(log)
      <4>1. log'[i] = log[i]  BY <3>1, <3>2, <3>6
      <4> QED  BY <3>5, <3>6, <4>1 DEF HistoryIsAPath
    <3>7. CASE i = Len(log) + 1
      <4>1. log # <<>>  BY <3>1, <3>7
      <4>2. log'[i].from = tracker.status  BY <3>1, <3>2, <3>7
      <4> QED  BY <3>3, <3>5, <3>7, <3>4, <4>1, <4>2
    <3> QED  BY <3>4, <3>6, <3>7
  <2> QED  BY <2>2, <2>3, <2>4
<1> QED  BY <1>1, <1>2, SerialInvariance, PTL DEF Spec

\* One request at a time, a ready packet does not change.
THEOREM ReadyPacketsAreLocked == ASSUME Overlapping = FALSE PROVE Spec => ReadyPacketIsLocked
<1>1. IInv /\ SerialInv /\ [Next]_vars => [packet.ready => packet' = packet]_vars
  <2> SUFFICES ASSUME IInv, SerialInv, [Next]_vars, packet.ready PROVE packet' = packet
    OBVIOUS
  <2>1. Workflow!Next \/ UNCHANGED rowVars  BY StepsAreSerial DEF StepIsSerial
  <2>2. ~(tracker.status = "absent")
    BY DEF IInv, RowInv, Tracked
  <2> QED
    BY <2>1 DEF rowVars, Workflow!Next, Workflow!Tracked, Workflow!Planned, Workflow!Moved,
                Workflow!Edited, Workflow!MadeReady, Workflow!Submitted
<1> QED  BY <1>1, SerialInvariance, PTL DEF Spec, ReadyPacketIsLocked

\* One request at a time, rejected and withdrawn trackers stay as they are.
THEOREM TerminalTrackersAreFinal == ASSUME Overlapping = FALSE PROVE Spec => TerminalIsFinal
<1>1. IInv /\ SerialInv /\ [Next]_vars =>
        [tracker.status \in Terminal => tracker'.status = tracker.status]_vars
  <2> SUFFICES ASSUME IInv, SerialInv, [Next]_vars, tracker.status \in Terminal
               PROVE  tracker'.status = tracker.status
    OBVIOUS
  <2>1. Workflow!Next \/ UNCHANGED rowVars  BY StepsAreSerial DEF StepIsSerial
  <2>2. Successors[tracker.status] = {} /\ tracker.status \in {"rejected", "withdrawn"}
    BY DEF Terminal, Successors
  <2>3. ~Workflow!Moved  BY <2>2, SameRows DEF Workflow!Moved
  <2>4. Workflow!Planned => tracker'.status = tracker.status
    BY DEF Workflow!Planned
  <2> QED
    BY <2>1, <2>2, <2>3, <2>4 DEF rowVars, Workflow!Next, Workflow!Tracked,
                            Workflow!Edited, Workflow!MadeReady, Workflow!Submitted
<1> QED  BY <1>1, SerialInvariance, PTL DEF Spec, TerminalIsFinal

\* One request at a time, a packet keeps what its review established, and a
\* ready one is complete.
THEOREM PacketsAreSound == ASSUME Overlapping = FALSE PROVE Spec => []PacketIsSound
<1>1. ReadyIsComplete /\ DocumentsShareResume => PacketIsSound  BY DEF PacketIsSound
<1> QED  BY <1>1, ReadyPacketsAreComplete, DocumentsAreOfOneResume, PTL

\* One request at a time, what is settled stays settled.
THEOREM SettledStaysFinal == ASSUME Overlapping = FALSE PROVE Spec => SettledIsFinal
BY TerminalTrackersAreFinal, ReadyPacketsAreLocked DEF SettledIsFinal
=============================================================================
