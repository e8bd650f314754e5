---------------------------- MODULE DocumentReview ----------------------------
(* The reviewed versions of one document of one tailoring plan: the rows of    *)
(* the version table, the requests on them as the service runs each in a       *)
(* transaction of its own, and the workspaces (browser tabs) that send them.   *)
(*                                                                             *)
(* A transaction runs at READ COMMITTED and takes no lock: what it read first  *)
(* may be stale when it writes. It is split where it has read and has not yet  *)
(* acted on it. A tab's handlers run to their first await without a break; the *)
(* state a failed request restores is the one its handler closed over.         *)
EXTENDS Naturals, Sequences

CONSTANTS
  Tab,          \* the workspaces that show the document
  Call,         \* slots for requests under way
  Choice,       \* what a tab can ask the document to be
  First,        \* what a new document is, before any review
  Foreign,      \* what a client other than the workspace may submit
  Locked(_, _), \* whether two contents differ where the source is authoritative
  None,
  MaxVersion,   \* bound on the versions of the document
  MaxPlan       \* bound on the contents the plan takes

ASSUME DocumentBounds ==
  /\ MaxVersion \in Nat \ {0} /\ MaxPlan \in Nat \ {0}
  /\ First \in Choice /\ None \notin Choice \union Tab

VARIABLES
  plan,        \* the content of the tailoring plan, by its number
  versions,    \* the rows, in the order of their insertion
  call,        \* call[c]: the request in slot c
  tab,         \* tab[t]: what workspace t shows
  overlapping  \* whether transactions on the plan may overlap

documentVars == <<plan, versions, call, tab, overlapping>>

-------------------------------------------------------------------------------
(* The rows. "reviewed" is a history variable: a person ticked the box that    *)
(* confirms the version while a workspace showed it.                           *)

Row(number, from, choice) ==
  [number |-> number, from |-> from, choice |-> choice,
   verified |-> FALSE, reviewed |-> FALSE]

Latest == Len(versions)

\* The maximum of the numbers, plus one; the maximum of none is zero.
NextNumber ==
  1 + (IF versions = <<>> THEN 0
       ELSE CHOOSE n \in {versions[i].number : i \in DOMAIN versions} :
              \A i \in DOMAIN versions : versions[i].number <= n)

\* The unique constraint on the plan and the number.
NumberTaken(n) == \E i \in DOMAIN versions : versions[i].number = n

VerifyRow(id) == versions' = [versions EXCEPT ![id].verified = TRUE]

-------------------------------------------------------------------------------
(* The requests.                                                               *)

NoCall == [kind |-> "none", step |-> "free", tab |-> None, target |-> 0,
           choice |-> None, number |-> 0, from |-> 0, verified |-> FALSE, view |-> None]

InTransaction(c) == call[c].step \in {"read", "numbered"}

MayBegin(c) ==
  /\ call[c].step = "sent"
  /\ overlapping \/ \A d \in Call : ~InTransaction(d)

\* The request ends, with the row as it is now in its answer; nobody waits for
\* the answer of one whose tab gave up.
Ends(c, step, id, verified) ==
  call' = [call EXCEPT ![c] =
             IF @.tab = None THEN NoCall
             ELSE [@ EXCEPT !.step = step, !.target = id, !.verified = verified,
                            !.choice = None, !.number = 0, !.from = 0]]

Answers(c, id) == Ends(c, "answered", id, versions'[id].verified)
Refuses(c) == Ends(c, "refused", call[c].target, FALSE)

\* The document of the plan: its latest version, or a first one to be written
\* from the plan's content as it is read here.
CreateReads(c) ==
  /\ MayBegin(c) /\ call[c].kind = "create"
  /\ UNCHANGED <<plan, versions, tab, overlapping>>
  /\ \/ Latest > 0 /\ Answers(c, Latest)
     \/ /\ Latest = 0
        /\ call' = [call EXCEPT ![c].step = "read", ![c].from = plan]

\* Faulty: the suggestion is composed anew from the plan.
RevisesFromPlan(c) ==
  LET current == versions[call[c].target] IN
  /\ MayBegin(c) /\ call[c].kind = "revise"
  /\ UNCHANGED <<plan, versions, tab, overlapping>>
  /\ call[c].target = Latest
  /\ current.choice # call[c].choice
  /\ call' = [call EXCEPT ![c].step = "read", ![c].from = plan]

\* Only the latest version is revised; the same content is no revision; what
\* the sources say is not for the reviewer to change. The suggestion of the
\* revised version is carried over.
ReviseReads(c) ==
  LET current == versions[call[c].target] IN
  /\ MayBegin(c) /\ call[c].kind = "revise"
  /\ UNCHANGED <<plan, versions, tab, overlapping>>
  /\ \/ call[c].target # Latest /\ Refuses(c)
     \/ /\ call[c].target = Latest
        /\ \/ current.choice = call[c].choice /\ Answers(c, Latest)
           \/ Locked(call[c].choice, current.choice) /\ Refuses(c)
           \/ /\ current.choice # call[c].choice
              /\ ~Locked(call[c].choice, current.choice)
              /\ call' = [call EXCEPT ![c].step = "read", ![c].from = current.from]

NumbersVersion(c) ==
  /\ call[c].step = "read" /\ call[c].kind \in {"create", "revise"}
  /\ call' = [call EXCEPT ![c].step = "numbered", ![c].number = NextNumber]
  /\ UNCHANGED <<plan, versions, tab, overlapping>>

\* Faulty: the number of a plan's version is not unique.
InsertsUnchecked(c) ==
  /\ call[c].step = "numbered" /\ Latest < MaxVersion
  /\ versions' = Append(versions, Row(call[c].number, call[c].from, call[c].choice))
  /\ Answers(c, Latest + 1)
  /\ UNCHANGED <<plan, tab, overlapping>>

\* The insert is flushed and committed; it fails on a number that was taken
\* since, and nothing of the transaction remains.
InsertsVersion(c) ==
  /\ call[c].step = "numbered"
  /\ \/ NumberTaken(call[c].number) /\ Refuses(c) /\ UNCHANGED versions
     \/ /\ ~NumberTaken(call[c].number) /\ Latest < MaxVersion
        /\ versions' = Append(versions, Row(call[c].number, call[c].from, call[c].choice))
        /\ Answers(c, Latest + 1)
  /\ UNCHANGED <<plan, tab, overlapping>>

\* Faulty: any version may be approved.
ApprovesAnyVersion(c) ==
  /\ MayBegin(c) /\ call[c].kind = "approve"
  /\ UNCHANGED <<plan, versions, tab, overlapping>>
  /\ \/ versions[call[c].target].verified /\ Answers(c, call[c].target)
     \/ /\ ~versions[call[c].target].verified
        /\ call' = [call EXCEPT ![c].step = "read"]

ApproveReads(c) ==
  /\ MayBegin(c) /\ call[c].kind = "approve"
  /\ UNCHANGED <<plan, versions, tab, overlapping>>
  /\ \/ call[c].target # Latest /\ Refuses(c)
     \/ /\ call[c].target = Latest
        /\ \/ versions[Latest].verified /\ Answers(c, Latest)
           \/ /\ ~versions[Latest].verified
              /\ call' = [call EXCEPT ![c].step = "read"]

ApproveWrites(c) ==
  /\ call[c].step = "read" /\ call[c].kind = "approve"
  /\ VerifyRow(call[c].target)
  /\ Answers(c, call[c].target)
  /\ UNCHANGED <<plan, tab, overlapping>>

\* The download of a version: its document, or a refusal to export it.
Export(id) == IF versions[id].verified THEN "document" ELSE "review_required"

-------------------------------------------------------------------------------
(* The workspaces.                                                             *)

Closed == [status |-> "idle", draft |-> 0, verified |-> FALSE, choice |-> None,
           ticked |-> 0, saving |-> FALSE, approving |-> FALSE]

Ready(t) == tab[t].status = "ready"
Dirty(t) == tab[t].choice # versions[tab[t].draft].choice

\* A tab sends a request from the state "view" its handler closed over.
Sends(t, kind, target, choice) ==
  \E c \in Call :
    /\ call[c] = NoCall
    /\ call' = [call EXCEPT ![c] = [NoCall EXCEPT !.kind = kind, !.step = "sent",
                  !.tab = t, !.target = target, !.choice = choice,
                  !.view = IF kind = "create" THEN None ELSE [tab[t] EXCEPT !.ticked = 0]]]

OpensWorkspace(t) ==
  /\ tab[t].status \in {"idle", "error"}
  /\ Sends(t, "create", 0, First)
  /\ tab' = [tab EXCEPT ![t] = [Closed EXCEPT !.status = "loading"]]
  /\ UNCHANGED <<plan, versions, overlapping>>

\* A choice or an edit takes the tick away.
Chooses(t, choice) ==
  /\ Ready(t)
  /\ tab' = [tab EXCEPT ![t].choice = choice, ![t].ticked = 0]
  /\ UNCHANGED <<plan, versions, call, overlapping>>

SavesRevision(t) ==
  /\ Ready(t) /\ Dirty(t) /\ ~tab[t].saving
  /\ Sends(t, "revise", tab[t].draft, tab[t].choice)
  /\ tab' = [tab EXCEPT ![t].saving = TRUE]
  /\ UNCHANGED <<plan, versions, overlapping>>

\* The box is offered for a version that is neither verified nor edited.
TicksConfirmation(t) ==
  /\ Ready(t) /\ ~tab[t].verified /\ ~Dirty(t) /\ tab[t].ticked = 0
  /\ tab' = [tab EXCEPT ![t].ticked = tab[t].draft]
  /\ versions' = [versions EXCEPT ![tab[t].draft].reviewed = TRUE]
  /\ UNCHANGED <<plan, call, overlapping>>

\* Faulty: the button does not ask for the tick.
ApprovesUnticked(t) ==
  /\ Ready(t) /\ ~tab[t].verified
  /\ ~Dirty(t) /\ ~tab[t].approving
  /\ Sends(t, "approve", tab[t].draft, None)
  /\ tab' = [tab EXCEPT ![t].approving = TRUE]
  /\ UNCHANGED <<plan, versions, overlapping>>

\* Faulty: the version is shown as verified before the answer.
ApprovesOptimistically(t) ==
  /\ Ready(t) /\ ~tab[t].verified
  /\ tab[t].ticked # 0 /\ ~Dirty(t) /\ ~tab[t].approving
  /\ Sends(t, "approve", tab[t].draft, None)
  /\ tab' = [tab EXCEPT ![t].approving = TRUE, ![t].verified = TRUE]
  /\ UNCHANGED <<plan, versions, overlapping>>

ApprovesVersion(t) ==
  /\ Ready(t) /\ ~tab[t].verified
  /\ tab[t].ticked # 0 /\ ~Dirty(t) /\ ~tab[t].approving
  /\ Sends(t, "approve", tab[t].draft, None)
  /\ tab' = [tab EXCEPT ![t].approving = TRUE]
  /\ UNCHANGED <<plan, versions, overlapping>>

\* The answer replaces all the tab shows but the tick, which only opening the
\* workspace or an edit takes away.
ReceivesVersion(c) ==
  LET t == call[c].tab  id == call[c].target IN
  /\ call[c].step = "answered"
  /\ tab' = [tab EXCEPT ![t] =
       [Closed EXCEPT !.status = "ready", !.draft = id,
          !.verified = call[c].verified, !.choice = versions[id].choice,
          !.ticked = IF call[c].kind = "create" THEN 0 ELSE tab[t].ticked]]
  /\ call' = [call EXCEPT ![c] = NoCall]
  /\ UNCHANGED <<plan, versions, overlapping>>

\* Faulty: the workspace opens although its document could not be loaded.
FallsBackOpen(t, c) ==
  IF call[c].kind = "create" THEN [Closed EXCEPT !.status = "ready"] ELSE tab[t]

\* What a tab falls back to when its request fails: the error page, or the
\* state its handler closed over, whatever the tab shows by now. The tick is
\* a state of its own.
FallsBack(t, c) ==
  IF call[c].kind = "create" THEN [Closed EXCEPT !.status = "error"]
  ELSE [call[c].view EXCEPT
          !.saving = IF call[c].kind = "revise" THEN FALSE ELSE @,
          !.approving = IF call[c].kind = "approve" THEN FALSE ELSE @,
          !.ticked = tab[t].ticked]

\* A refusal, an answer that never arrives, or a time limit of the proxy while
\* the server still works on the request.
RequestFails(c) ==
  LET t == call[c].tab IN
  /\ call[c].kind # "none" /\ t # None
  /\ tab' = [tab EXCEPT ![t] = FallsBack(t, c)]
  /\ call' = [call EXCEPT ![c] = IF @.step \in {"answered", "refused"} THEN NoCall
                                 ELSE [@ EXCEPT !.tab = None, !.view = None]]
  /\ UNCHANGED <<plan, versions, overlapping>>

-------------------------------------------------------------------------------
\* The plan is generated again from its resume and job.
SavesPlan ==
  /\ plan < MaxPlan /\ plan' = plan + 1
  /\ UNCHANGED <<versions, call, tab, overlapping>>

\* A client of the HTTP interface revises a version without the workspace.
ForeignRevises(choice) ==
  \E c \in Call, id \in DOMAIN versions :
    /\ call[c] = NoCall
    /\ call' = [call EXCEPT ![c] = [NoCall EXCEPT !.kind = "revise", !.step = "sent",
                                      !.target = id, !.choice = choice]]
    /\ UNCHANGED <<plan, versions, tab, overlapping>>

DocumentInit ==
  /\ plan = 1
  /\ versions = <<>>
  /\ call = [c \in Call |-> NoCall]
  /\ tab = [t \in Tab |-> Closed]
  /\ overlapping \in BOOLEAN

DocumentNext ==
  \/ SavesPlan
  \/ \E choice \in Foreign : ForeignRevises(choice)
  \/ \E t \in Tab :
       \/ OpensWorkspace(t)
       \/ \E choice \in Choice : Chooses(t, choice)
       \/ SavesRevision(t)
       \/ TicksConfirmation(t)
       \/ ApprovesVersion(t)
  \/ \E c \in Call :
       \/ CreateReads(c) \/ ReviseReads(c) \/ ApproveReads(c)
       \/ NumbersVersion(c)
       \/ InsertsVersion(c)
       \/ ApproveWrites(c)
       \/ ReceivesVersion(c)
       \/ RequestFails(c)

DocumentSpec == DocumentInit /\ [][DocumentNext]_documentVars

-------------------------------------------------------------------------------
DocumentTypeOK ==
  /\ plan \in 1..MaxPlan
  /\ Len(versions) <= MaxVersion
  /\ \A i \in DOMAIN versions :
       versions[i] \in [number : Nat, from : 1..MaxPlan, choice : Choice \union Foreign,
                       verified : BOOLEAN, reviewed : BOOLEAN]
  /\ \A c \in Call :
       /\ call[c].kind \in {"none", "create", "revise", "approve"}
       /\ call[c].step \in {"free", "sent", "read", "numbered", "answered", "refused"}
       /\ call[c].tab \in Tab \union {None}
       /\ call[c].kind \in {"revise", "approve"} => call[c].target \in DOMAIN versions
  /\ \A t \in Tab :
       /\ tab[t].status \in {"idle", "loading", "ready", "error"}
       /\ Ready(t) <=> tab[t].draft \in DOMAIN versions
  /\ overlapping \in BOOLEAN

\* However requests overlap, the versions of a plan are numbered one to n in
\* the order they were written: no two share a number, and none is skipped.
VersionsAreNumbered == \A i \in DOMAIN versions : versions[i].number = i

\* A version keeps its content and its approval for good, and while requests
\* are served one after another nothing but the latest version is revised or
\* approved and the document has one first draft.
History == INSTANCE DocumentHistory WITH
  Content <- Choice \union Foreign,
  history <- [i \in DOMAIN versions |->
                [content |-> versions[i].choice, approved |-> versions[i].verified]]

ImplementsHistory == History!HistorySpec

\* A download that a workspace offers is granted, whichever of its requests
\* failed or were answered late.
DownloadsSucceed ==
  \A t \in Tab : Ready(t) /\ tab[t].verified => Export(tab[t].draft) = "document"

\* While requests are served one after another, every version of a document
\* carries the suggestion of its first: a plan generated anew does not get
\* mixed into a document under review.
OneSuggestion ==
  overlapping \/ \A i \in DOMAIN versions : versions[i].from = versions[1].from

\* No version is approved of a document whose confirmation was never ticked,
\* at that version or an earlier one.
ApprovalWasTicked ==
  \A i \in DOMAIN versions : versions[i].verified => \E j \in 1..i : versions[j].reviewed

\* A version the reader asked to approve was confirmed by the reader while it
\* was on display.
ApprovedWasReviewed ==
  \A i \in DOMAIN versions : versions[i].verified => versions[i].reviewed

\* What a reader of a document may rely on, however requests on it overlap,
\* fail or are answered late (and the type of its state).
DocumentsAreReviewed ==
  /\ DocumentTypeOK
  /\ VersionsAreNumbered
  /\ DownloadsSucceed
  /\ OneSuggestion
  /\ ApprovalWasTicked
===============================================================================
