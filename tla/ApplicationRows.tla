-------------------------- MODULE ApplicationRows --------------------------
(***************************************************************************)
(* The rows behind one tracked application and what the repositories do    *)
(* to them (database/repositories/applications.py, application_packets.py, *)
(* api/services/application_packets.py).                                   *)
(*                                                                         *)
(* A tracker keeps its status, its resume, the deadline of its plan and    *)
(* whether applied_at is set; notes and the wording of the next action are *)
(* left out.  A packet keeps its documents, its confirmations and whether  *)
(* ready_at is set.  The confirmations that every packet needs (job        *)
(* details, resume, employer questions) are the members of Check; that of  *)
(* the cover letter is apart, as it is needed only with a letter.          *)
(***************************************************************************)
EXTENDS Sequences, Naturals

CONSTANTS
  Resume,       \* the user's resumes
  Tailored,     \* the tailored resumes that exist
  Letter,       \* the cover letters that exist
  SourceOf,     \* the resume each document was made from
  ForThisJob,   \* the documents made for the job of this application
  Check,        \* the confirmations required of every packet
  Due,          \* the deadlines a plan may have
  None          \* NULL

Document == Tailored \cup Letter

ASSUME DocumentAssumption ==
  /\ SourceOf \in [Document -> Resume]
  /\ ForThisJob \subseteq Document
  /\ None \notin Resume \cup Document \cup Due

-----------------------------------------------------------------------------
\* ALLOWED_TRANSITIONS
Successors ==
  [discovered     |-> {"saved", "preparing", "withdrawn"},
   saved          |-> {"preparing", "withdrawn"},
   preparing      |-> {"ready_to_apply", "withdrawn"},
   ready_to_apply |-> {"applied", "withdrawn"},
   applied        |-> {"under_review", "assessment", "interview", "rejected", "withdrawn"},
   under_review   |-> {"assessment", "interview", "rejected", "withdrawn"},
   assessment     |-> {"interview", "rejected", "withdrawn"},
   interview      |-> {"offer", "rejected", "withdrawn"},
   offer          |-> {"withdrawn"},
   rejected       |-> {},
   withdrawn      |-> {}]

Status == DOMAIN Successors

\* TERMINAL_APPLICATION_STATUSES
Terminal == {"rejected", "withdrawn"}

\* The statuses that only the packet's own endpoints may set.
PacketDriven == {"ready_to_apply", "applied"}

Deadline == Due \cup {None}

Source == Resume \cup {None}

Tracker == [status  : Status \cup {"absent"},
            resume  : Source,
            due     : Deadline,
            applied : BOOLEAN]

NoTracker == [status |-> "absent", resume |-> None, due |-> None, applied |-> FALSE]

\* The tracking service creates every tracker as preparing.
NewTracker(r, due) ==
  [status |-> "preparing", resume |-> r, due |-> due, applied |-> FALSE]

\* A row of application_events.
Event == [from : Status \cup {"absent"}, to : Status]

-----------------------------------------------------------------------------
Packet == [opened         : BOOLEAN,
           source         : Source,
           tailored       : Tailored \cup {None},
           letter         : Letter \cup {None},
           checked        : SUBSET Check,
           letterReviewed : BOOLEAN,
           ready          : BOOLEAN]

NoPacket == [opened |-> FALSE, source |-> None, tailored |-> None, letter |-> None,
             checked |-> {}, letterReviewed |-> FALSE, ready |-> FALSE]

NewPacket(src) == [NoPacket EXCEPT !.opened = TRUE, !.source = src]

\* _blockers is empty.
Complete(p) ==
  /\ p.source # None
  /\ p.checked = Check
  /\ p.letter # None => p.letterReviewed

\* What the user sends to update a packet.
Form == [tailored       : Tailored \cup {None},
         letter         : Letter \cup {None},
         checked        : SUBSET Check,
         letterReviewed : BOOLEAN]

\* Faulty: a draft may be selected.
SelectableDraft(d, src, verified) ==
  /\ d \in ForThisJob
  /\ src # None => SourceOf[d] = src

\* Faulty: a document made from another resume may be selected.
SelectableFromAnywhere(d, src, verified) ==
  /\ d \in verified
  /\ d \in ForThisJob

\* A document may be selected when it is verified, made for this job, and made
\* from the resume the packet already stands on, if there is one.
Selectable(d, src, verified) ==
  /\ d \in verified
  /\ d \in ForThisJob
  /\ src # None => SourceOf[d] = src

\* Faulty: the document's own id takes the place of its source.
SourceWithDocument(d, src) == IF d = None THEN src ELSE d

SourceWith(d, src) == IF d = None THEN src ELSE SourceOf[d]

\* _validate_documents, with what it raises on as its negation
Valid(form, src, verified) ==
  /\ form.tailored # None => Selectable(form.tailored, src, verified)
  /\ form.letter # None =>
       Selectable(form.letter, SourceWith(form.tailored, src), verified)

\* and the resume it returns
ChosenSource(form, src) == SourceWith(form.letter, SourceWith(form.tailored, src))

\* The values that update assigns to the packet it read.
Filled(p, form, src) ==
  [opened         |-> p.opened,
   source         |-> src,
   tailored       |-> form.tailored,
   letter         |-> form.letter,
   checked        |-> form.checked,
   letterReviewed |-> form.letterReviewed /\ form.letter # None,
   ready          |-> p.ready]

-----------------------------------------------------------------------------
(***************************************************************************)
(* An UPDATE of the object-relational mapper sends the columns whose value *)
(* differs from the one it loaded, and leaves the other columns as the row *)
(* has them by then.                                                       *)
(***************************************************************************)
Column(loaded, assigned, stored) == IF assigned = loaded THEN stored ELSE assigned

\* Each confirmation is a column of its own.
Confirmed(loaded, assigned, stored) ==
  (stored \ (loaded \ assigned)) \cup (assigned \ loaded)

WrittenPacket(loaded, assigned, stored) ==
  [opened         |-> stored.opened,
   source         |-> Column(loaded.source, assigned.source, stored.source),
   tailored       |-> Column(loaded.tailored, assigned.tailored, stored.tailored),
   letter         |-> Column(loaded.letter, assigned.letter, stored.letter),
   checked        |-> Confirmed(loaded.checked, assigned.checked, stored.checked),
   letterReviewed |-> Column(loaded.letterReviewed, assigned.letterReviewed,
                             stored.letterReviewed),
   ready          |-> stored.ready]

\* transition: the new status is always sent, the deadline when it changes,
\* applied_at when the row read had none
MovedTracker(stored, to, loadedDue, due) ==
  [status  |-> to,
   resume  |-> stored.resume,
   due     |-> Column(loadedDue, due, stored.due),
   applied |-> stored.applied \/ to = "applied"]
=============================================================================
