----------------------------- MODULE CoverLetters -----------------------------
(* Cover letters: the second kind of reviewed document of a tailoring plan.    *)
(* Their service, repository, routes and workspace are those of a tailored     *)
(* resume line for line, except that a reviewer edits sentences instead of     *)
(* choosing an order, and that the name, the e-mail address, the company and   *)
(* the job title of a letter come from verified sources and are locked.        *)
EXTENDS Naturals, Sequences

CONSTANTS
  LetterTab, LetterCall, NoLetter,
  LetterFacts,        \* the values of the locked fields a request may carry
  LetterText,         \* the values of the editable ones
  LetterMaxVersion, LetterMaxPlan

VARIABLES letterPlan, letters, letterCall, letterTab, letterOverlapping

letterVars == <<letterPlan, letters, letterCall, letterTab, letterOverlapping>>

\* What the composer writes from the sources.
SourceFacts == "source"
Composed == [facts |-> SourceFacts, text |-> "composed"]

LetterContent == [facts : LetterFacts, text : LetterText]

\* Faulty: only the workspace keeps the fields.
NothingLocked(content, accepted) == FALSE

\* The four fields are compared with those of the version under revision.
SourceLocked(content, accepted) == content.facts # accepted.facts

\* The editor of the workspace offers the sentences and no locked field.
Editable == {content \in LetterContent : content.facts = SourceFacts}

ASSUME LetterBounds ==
  /\ LetterMaxVersion \in Nat \ {0} /\ LetterMaxPlan \in Nat \ {0}
  /\ Composed \in LetterContent /\ NoLetter \notin LetterContent \union LetterTab

L == INSTANCE DocumentReview WITH
  Tab <- LetterTab, Call <- LetterCall, Choice <- Editable, First <- Composed,
  Foreign <- LetterContent, Locked <- SourceLocked, None <- NoLetter,
  MaxVersion <- LetterMaxVersion, MaxPlan <- LetterMaxPlan,
  plan <- letterPlan, versions <- letters, call <- letterCall,
  tab <- letterTab, overlapping <- letterOverlapping

LetterCreateReads(c) == L!CreateReads(c)
LetterReviseReads(c) == L!ReviseReads(c)
LetterApproveReads(c) == L!ApproveReads(c)
LetterNumbersVersion(c) == L!NumbersVersion(c)
LetterInsertsVersion(c) == L!InsertsVersion(c)
LetterApproveWrites(c) == L!ApproveWrites(c)
LetterOpens(t) == L!OpensWorkspace(t)
LetterEdits(t, content) == L!Chooses(t, content)
LetterSaves(t) == L!SavesRevision(t)
LetterTicks(t) == L!TicksConfirmation(t)
LetterApproves(t) == L!ApprovesVersion(t)
LetterReceives(c) == L!ReceivesVersion(c)
LetterFails(c) == L!RequestFails(c)
LetterForeign(content) == L!ForeignRevises(content)

LetterInit == L!DocumentInit

LetterNext ==
  \/ L!SavesPlan
  \/ \E content \in LetterContent : LetterForeign(content)
  \/ \E t \in LetterTab :
       \/ LetterOpens(t)
       \/ \E content \in Editable : LetterEdits(t, content)
       \/ LetterSaves(t) \/ LetterTicks(t) \/ LetterApproves(t)
  \/ \E c \in LetterCall :
       \/ LetterCreateReads(c) \/ LetterReviseReads(c) \/ LetterApproveReads(c)
       \/ LetterNumbersVersion(c) \/ LetterApproveWrites(c)
       \/ LetterInsertsVersion(c)
       \/ LetterReceives(c) \/ LetterFails(c)

LetterSpec == LetterInit /\ [][LetterNext]_letterVars

-------------------------------------------------------------------------------
\* Whatever is submitted, and whoever submits it, every version of a letter
\* carries the identity and the target job that its sources state.
LetterFactsAreKept == \A i \in DOMAIN letters : letters[i].choice.facts = SourceFacts
===============================================================================
