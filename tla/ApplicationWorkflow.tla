------------------------ MODULE ApplicationWorkflow ------------------------
(***************************************************************************)
(* What docs/architecture/0012 and 0038 promise of one tracked             *)
(* application, its packet and its history, with every request taking      *)
(* effect at once: no session, no stale read, no pending write.            *)
(***************************************************************************)
EXTENDS ApplicationRows

VARIABLES tracker, packet, log

\* Documents of this job, made from the packet's own resume, and no
\* confirmation of a letter that is not there.
Sound(p) ==
  /\ \A d \in {p.tailored, p.letter} \ {None} :
       d \in ForThisJob /\ SourceOf[d] = p.source
  /\ p.letterReviewed => p.letter # None

Init ==
  /\ tracker = NoTracker
  /\ packet = NoPacket
  /\ log = <<>>

Recorded == log' = Append(log, [from |-> tracker.status, to |-> tracker'.status])

Tracked ==
  /\ tracker.status = "absent"
  /\ \E r \in Source, due \in Deadline : tracker' = NewTracker(r, due)
  /\ Recorded
  /\ UNCHANGED packet

Planned ==
  /\ tracker.status # "absent"
  /\ tracker' \in Tracker
  /\ \A f \in {"status", "resume", "applied"} : tracker'[f] = tracker[f]
  /\ UNCHANGED <<packet, log>>

\* A generic status change never enters a status that the packet drives.
Moved ==
  /\ tracker' \in Tracker
  /\ tracker.status # "absent"
  /\ tracker'.status \in Successors[tracker.status] \ PacketDriven
  /\ \A f \in {"resume", "applied"} : tracker'[f] = tracker[f]
  /\ Recorded
  /\ UNCHANGED packet

\* A packet that is not ready may become any sound packet that is not ready.
Edited ==
  /\ tracker.status # "absent"
  /\ ~packet.ready
  /\ packet' \in Packet
  /\ packet'.opened
  /\ ~packet'.ready
  /\ Sound(packet')
  /\ UNCHANGED <<tracker, log>>

\* Readiness locks a complete packet, and moves the tracker, whose plan keeps
\* its deadline.
MadeReady ==
  /\ packet.opened
  /\ Complete(packet)
  /\ ~packet.ready
  /\ packet' = [packet EXCEPT !.ready = TRUE]
  /\ tracker' \in Tracker
  /\ tracker.status = "preparing"
  /\ tracker'.status = "ready_to_apply"
  /\ \A f \in {"resume", "due", "applied"} : tracker'[f] = tracker[f]
  /\ Recorded

Submitted ==
  /\ packet.ready
  /\ tracker' \in Tracker
  /\ tracker.status = "ready_to_apply"
  /\ tracker'.status = "applied"
  /\ tracker'.resume = tracker.resume
  /\ tracker'.applied
  /\ Recorded
  /\ UNCHANGED packet

Next == Tracked \/ Planned \/ Moved \/ Edited \/ MadeReady \/ Submitted

Spec == Init /\ [][Next]_<<tracker, packet, log>>
=============================================================================
