---------------------------- MODULE Applications ----------------------------
(***************************************************************************)
(* One tracked application, its packet and its event log, under requests   *)
(* of its owner that may overlap (two tabs, a double click, a retry).      *)
(*                                                                         *)
(* A request is one database transaction at READ COMMITTED.  No handler    *)
(* locks what it reads, so each is split where it has read and not written *)
(* yet; a request that is refused reads and changes nothing, and has no    *)
(* action of its own.  A handler's last write and its commit are one       *)
(* action, as the row stays locked between them.  Only mark_ready writes   *)
(* two rows: it holds the packet's row locked until it commits.            *)
(***************************************************************************)
EXTENDS ApplicationRows

CONSTANTS
  Request,      \* the requests that may be under way at one time
  Overlapping,  \* may they overlap?
  MaxEvents     \* bound: status events of the application

ASSUME RequestAssumption ==
  /\ Overlapping \in BOOLEAN
  /\ MaxEvents \in Nat

VARIABLES
  tracker,   \* the applications row
  packet,    \* the application_packets row
  log,       \* application_events, in the order they are committed
  active,    \* the user's active resume
  verified,  \* the documents the user has approved
  txn        \* where each request is, with what it has read

rowVars == <<tracker, packet, log>>
otherVars == <<active, verified>>
vars == <<rowVars, otherVars, txn>>

-----------------------------------------------------------------------------
Idle == [op |-> "idle"]

Moving == [op : {"moving"}, from : Status, due : Deadline, to : Status, newDue : Deadline]
Planning == [op : {"planning"}, due : Deadline, newDue : Deadline]
Opening == [op : {"opening"}, fills : BOOLEAN, source : Source]
Validated == [op : {"validated"}, source : Source, form : Form]
Editing == [op : {"editing"}, seen : Packet, edited : Packet]
Checked == [op : {"checked"}, due : Deadline]
Readying == [op : {"readying"}, due : Deadline, newDue : Deadline]
Confirming == [op : {"confirming"}, due : Deadline]

Transaction ==
  {Idle} \cup Moving \cup Planning \cup Opening \cup Validated \cup Editing
    \cup Checked \cup Readying \cup Confirming

TypeOK ==
  /\ tracker \in Tracker
  /\ packet \in Packet
  /\ log \in Seq(Event)
  /\ active \in Source
  /\ verified \in SUBSET Document
  /\ txn \in [Request -> Transaction]

Init ==
  /\ tracker = NoTracker
  /\ packet = NoPacket
  /\ log = <<>>
  /\ active = None
  /\ verified = {}
  /\ txn = [r \in Request |-> Idle]

-----------------------------------------------------------------------------
Tracked == tracker.status # "absent"

MayBegin(r) ==
  /\ txn[r] = Idle
  /\ Overlapping \/ \A q \in Request : txn[q] = Idle

Goes(r, t) == txn' = [txn EXCEPT ![r] = t]

Ends(r) == Goes(r, Idle)

\* Another request has written the packet's row and not committed yet.
PacketLocked == \E q \in Request : txn[q].op = "readying"

\* Faulty: the event takes its previous status from the changed row.
MovesLoggedLate(from, to, due, newDue) ==
  /\ Len(log) < MaxEvents
  /\ tracker' = MovedTracker(tracker, to, due, newDue)
  /\ log' = Append(log, [from |-> to, to |-> to])

\* The commit of a status change: the row and its event.
Moves(from, to, due, newDue) ==
  /\ Len(log) < MaxEvents
  /\ tracker' = MovedTracker(tracker, to, due, newDue)
  /\ log' = Append(log, [from |-> from, to |-> to])

-----------------------------------------------------------------------------
(***************************************************************************)
(* Tracking (api/services/applications.py).                                *)
(***************************************************************************)
\* create: of two requests that find no tracker, the unique constraint on user
\* and job lets one insert it, and the other fails
Create(resume, due) ==
  /\ ~Tracked
  /\ Len(log) < MaxEvents
  /\ tracker' = NewTracker(resume, due)
  /\ log' = Append(log, [from |-> "absent", to |-> "preparing"])
  /\ UNCHANGED <<packet, otherVars, txn>>

\* Faulty: the status graph is not consulted.
TransitionReadsUnchecked(r, to, due) ==
  /\ MayBegin(r)
  /\ Tracked
  /\ to \notin PacketDriven
  /\ Goes(r, [op |-> "moving", from |-> tracker.status, due |-> tracker.due,
              to |-> to, newDue |-> due])
  /\ UNCHANGED <<rowVars, otherVars>>

TransitionReads(r, to, due) ==
  /\ MayBegin(r)
  /\ Tracked
  /\ to \notin PacketDriven
  /\ to \in Successors[tracker.status]
  /\ Goes(r, [op |-> "moving", from |-> tracker.status, due |-> tracker.due,
              to |-> to, newDue |-> due])
  /\ UNCHANGED <<rowVars, otherVars>>

TransitionWrites(r) ==
  /\ txn[r].op = "moving"
  /\ Moves(txn[r].from, txn[r].to, txn[r].due, txn[r].newDue)
  /\ Ends(r)
  /\ UNCHANGED <<packet, otherVars>>

\* update_plan accepts every status.
PlanReads(r, due) ==
  /\ MayBegin(r)
  /\ Tracked
  /\ Goes(r, [op |-> "planning", due |-> tracker.due, newDue |-> due])
  /\ UNCHANGED <<rowVars, otherVars>>

PlanWrites(r) ==
  /\ txn[r].op = "planning"
  /\ tracker' = [tracker EXCEPT !.due = Column(txn[r].due, txn[r].newDue, @)]
  /\ Ends(r)
  /\ UNCHANGED <<packet, log, otherVars>>

-----------------------------------------------------------------------------
(***************************************************************************)
(* Packets (api/services/application_packets.py).                          *)
(***************************************************************************)
\* create gives a new packet the tracker's resume, or else the active one, and
\* gives it to an open packet that has none and is not ready.
OpenReads(r) ==
  LET source == IF tracker.resume # None THEN tracker.resume ELSE active IN
  /\ MayBegin(r)
  /\ Tracked
  /\ \/ ~packet.opened
     \/ packet.source = None /\ ~packet.ready /\ source # None
  /\ Goes(r, [op |-> "opening", fills |-> packet.opened, source |-> source])
  /\ UNCHANGED <<rowVars, otherVars>>

\* The insert of a second packet breaks a unique constraint, and create then
\* answers with the packet that is there.
OpenWrites(r) ==
  /\ txn[r].op = "opening"
  /\ ~PacketLocked
  /\ packet' = IF txn[r].fills THEN [packet EXCEPT !.source = txn[r].source]
               ELSE IF packet.opened THEN packet
               ELSE NewPacket(txn[r].source)
  /\ Ends(r)
  /\ UNCHANGED <<tracker, log, otherVars>>

\* update checks the documents against the packet it reads first ...
UpdateValidates(r, form) ==
  /\ MayBegin(r)
  /\ packet.opened
  /\ Valid(form, packet.source, verified)
  /\ Goes(r, [op |-> "validated", source |-> ChosenSource(form, packet.source),
              form |-> form])
  /\ UNCHANGED <<rowVars, otherVars>>

\* Faulty: a ready packet is updated like any other.
UpdateReadsUnlocked(r) ==
  /\ txn[r].op = "validated"
  /\ Goes(r, [op |-> "editing", seen |-> packet,
              edited |-> Filled(packet, txn[r].form, txn[r].source)])
  /\ UNCHANGED <<rowVars, otherVars>>

\* ... then reads it again, and refuses one that is ready ...
UpdateReads(r) ==
  /\ txn[r].op = "validated"
  /\ ~packet.ready
  /\ Goes(r, [op |-> "editing", seen |-> packet,
              edited |-> Filled(packet, txn[r].form, txn[r].source)])
  /\ UNCHANGED <<rowVars, otherVars>>

\* ... and writes what differs from that.
UpdateWrites(r) ==
  /\ txn[r].op = "editing"
  /\ ~PacketLocked
  /\ packet' = WrittenPacket(txn[r].seen, txn[r].edited, packet)
  /\ Ends(r)
  /\ UNCHANGED <<tracker, log, otherVars>>

\* Faulty: the blockers are shown and not enforced.
ReadyChecksUnenforced(r) ==
  /\ MayBegin(r)
  /\ tracker.status = "preparing"
  /\ packet.opened
  /\ Goes(r, [op |-> "checked", due |-> tracker.due])
  /\ UNCHANGED <<rowVars, otherVars>>

\* mark_ready looks at the status and at the blockers (a tracker that is ready
\* already has a ready packet, and nothing is written) ...
ReadyChecks(r) ==
  /\ MayBegin(r)
  /\ tracker.status = "preparing"
  /\ packet.opened
  /\ Complete(packet)
  /\ Goes(r, [op |-> "checked", due |-> tracker.due])
  /\ UNCHANGED <<rowVars, otherVars>>

\* Faulty: the deadline of the plan is not passed on.
ReadyMarksForgetting(r) ==
  /\ txn[r].op = "checked"
  /\ ~PacketLocked
  /\ tracker.status = "preparing"
  /\ Goes(r, [op |-> "readying", due |-> tracker.due, newDue |-> None])
  /\ UNCHANGED <<rowVars, otherVars>>

\* ... writes ready_at, which locks the row of the packet, and reads the tracker
\* again, which must still be preparing ...
ReadyMarks(r) ==
  /\ txn[r].op = "checked"
  /\ ~PacketLocked
  /\ tracker.status = "preparing"
  /\ Goes(r, [op |-> "readying", due |-> tracker.due, newDue |-> txn[r].due])
  /\ UNCHANGED <<rowVars, otherVars>>

\* Faulty: ready_at is lost.
ReadyCommitsUnmarked(r) ==
  /\ txn[r].op = "readying"
  /\ Moves("preparing", "ready_to_apply", txn[r].due, txn[r].newDue)
  /\ Ends(r)
  /\ UNCHANGED <<packet, otherVars>>

\* ... then moves it, with the deadline it read first.
ReadyCommits(r) ==
  /\ txn[r].op = "readying"
  /\ packet' = [packet EXCEPT !.ready = TRUE]
  /\ Moves("preparing", "ready_to_apply", txn[r].due, txn[r].newDue)
  /\ Ends(r)
  /\ UNCHANGED otherVars

\* confirm_submitted; it reads the tracker twice, but only the second reading
\* matters, as a packet that is ready stays so
ConfirmReads(r) ==
  /\ MayBegin(r)
  /\ packet.ready
  /\ tracker.status = "ready_to_apply"
  /\ Goes(r, [op |-> "confirming", due |-> tracker.due])
  /\ UNCHANGED <<rowVars, otherVars>>

ConfirmWrites(r) ==
  /\ txn[r].op = "confirming"
  /\ Moves("ready_to_apply", "applied", txn[r].due, None)
  /\ Ends(r)
  /\ UNCHANGED <<packet, otherVars>>

-----------------------------------------------------------------------------
\* A request is refused or cut off after it has read something: the session
\* rolls back.
RollsBack(r) ==
  /\ txn[r] # Idle
  /\ Ends(r)
  /\ UNCHANGED <<rowVars, otherVars>>

\* A new resume becomes the active one; approve verifies a document.
SaveResume(s) ==
  /\ active' = s
  /\ UNCHANGED <<rowVars, verified, txn>>

Approve(d) ==
  /\ verified' = verified \cup {d}
  /\ UNCHANGED <<rowVars, active, txn>>

TrackerNext(r) ==
  \/ \E to \in Status, due \in Deadline : TransitionReads(r, to, due)
  \/ \E due \in Deadline : PlanReads(r, due)
  \/ TransitionWrites(r)
  \/ PlanWrites(r)

PacketNext(r) ==
  \/ OpenReads(r)
  \/ OpenWrites(r)
  \/ \E form \in Form : UpdateValidates(r, form)
  \/ UpdateReads(r)
  \/ UpdateWrites(r)
  \/ ReadyChecks(r)
  \/ ReadyMarks(r)
  \/ ReadyCommits(r)
  \/ ConfirmReads(r)
  \/ ConfirmWrites(r)

Next ==
  \/ \E resume \in Source, due \in Deadline : Create(resume, due)
  \/ \E s \in Resume : SaveResume(s)
  \/ \E d \in Document : Approve(d)
  \/ \E r \in Request : TrackerNext(r) \/ PacketNext(r) \/ RollsBack(r)

Spec == Init /\ [][Next]_vars

-----------------------------------------------------------------------------
(***************************************************************************)
(* Properties that hold however requests overlap.                          *)
(***************************************************************************)
\* The log explains the status (docs/architecture/0012: every creation and valid
\* status change appends an event): it begins with the creation, its last event
\* led to the present status, and every other event follows an edge of the
\* status graph out of a status that an earlier event had led to.
HistoryExplainsStatus ==
  /\ Tracked <=> log # <<>>
  /\ Tracked => log[1] = [from |-> "absent", to |-> "preparing"]
  /\ Tracked => log[Len(log)].to = tracker.status
  /\ \A i \in 2..Len(log) :
       /\ log[i].to \in Successors[log[i].from]
       /\ \E j \in 1..(i - 1) : log[j].to = log[i].from

\* The packet's boundary cannot be passed (docs/architecture/0038: generic status
\* endpoints cannot bypass it): a tracker in any status that lies behind
\* readiness has a ready packet, one that lies behind submission is dated as
\* applied, and one is so dated exactly when its history has the submission.
BoundariesAreKept ==
  /\ tracker.status \notin {"absent", "preparing", "withdrawn"} => packet.ready
  /\ tracker.status \in {"applied", "under_review", "assessment", "interview",
                        "offer", "rejected"} => tracker.applied
  /\ tracker.applied <=> \E i \in 1..Len(log) : log[i].to = "applied"

\* Whatever updates are merged into a packet, its documents are ones the user
\* approved and made for this job (_validate_documents).
DocumentsAreApproved ==
  {packet.tailored, packet.letter} \ {None} \subseteq verified \cap ForThisJob

(***************************************************************************)
(* Properties that need requests not to overlap.                           *)
(***************************************************************************)
Workflow == INSTANCE ApplicationWorkflow

\* One request at a time, the handlers implement the workflow of
\* docs/architecture/0012 and 0038, each as one step.
ImplementsWorkflow == Workflow!Spec

\* The log is a path of the status graph, without branches: each event begins
\* where the one before it ended.
HistoryIsAPath == \A i \in 2..Len(log) : log[i].from = log[i - 1].to

\* A ready packet has every confirmation that applies to it
\* (docs/architecture/0038: a packet becomes ready only after every applicable
\* check is complete).
ReadyIsComplete == packet.ready => Complete(packet)

\* The selected documents come from one resume, the packet's own
\* (docs/architecture/0038: grounded in the same source resume).
DocumentsShareResume ==
  \A d \in {packet.tailored, packet.letter} \ {None} : SourceOf[d] = packet.source

\* docs/architecture/0012: rejected and withdrawn trackers are terminal.
TerminalIsFinal ==
  [][tracker.status \in Terminal => tracker'.status = tracker.status]_vars

\* docs/architecture/0038: readiness locks the packet.
ReadyPacketIsLocked == [][packet.ready => packet' = packet]_vars

\* What a review of a packet established is true of the packet that is ready.
PacketIsSound == ReadyIsComplete /\ DocumentsShareResume

\* What is settled, a tracker's end or a packet's readiness, stays settled.
SettledIsFinal == TerminalIsFinal /\ ReadyPacketIsLocked
=============================================================================
