----------------------------- MODULE InterviewKits -----------------------------
(* The interview kit of one application: at most one row per application, with *)
(* questions made once from the job and a resume, and the notes its owner      *)
(* writes and may mark as fact-checked; the requests on it, each a transaction *)
(* of its own at READ COMMITTED; and the workspace that sends them through the *)
(* web proxy.                                                                  *)
EXTENDS Naturals

CONSTANTS
  KitCall,     \* slots for requests under way
  KitText,     \* the notes a person may write, the empty ones among them
  KitResume,   \* the resumes an application may have been made with
  NoKit        \* stands for a missing row, resume or request

ASSUME KitTexts ==
  /\ "" \in KitText /\ NoKit \notin KitResume
  /\ NoKit \notin [resume : KitResume, notes : KitText, reviewed : BOOLEAN,
                  last : [notes : KitText, confirm : BOOLEAN]]

VARIABLES
  kitStatus,      \* the status of the application
  kitResume,      \* the resume the questions would be made from
  kit,            \* the row, or NoKit
  kitCall,        \* kitCall[c]: the request in slot c
  kitTab,         \* the workspace
  kitOverlapping  \* whether transactions on the application may overlap

kitVars == <<kitStatus, kitResume, kit, kitCall, kitTab, kitOverlapping>>

PreparationStatuses == {"applied", "under_review", "assessment", "interview"}

\* The statuses that tell apart what is asked of an application here.
StatusAfter ==
  [ready |-> {"applied"}, applied |-> {"interview", "rejected"},
   interview |-> {"rejected"}, rejected |-> {}]

-------------------------------------------------------------------------------
(* Requests. "last" is a history variable: the update committed last.          *)

NoKitCall == [kind |-> "none", step |-> "free", tab |-> FALSE, notes |-> "",
              confirm |-> FALSE, resume |-> NoKit, seen |-> NoKit, error |-> ""]

KitRow(resume) ==
  [resume |-> resume, notes |-> "", reviewed |-> FALSE,
   last |-> [notes |-> "", confirm |-> FALSE]]

KitMayBegin(c) ==
  /\ kitCall[c].step = "sent"
  /\ kitOverlapping \/ \A d \in KitCall : kitCall[d].step # "read"

\* The answer carries the notes as they are then.
KitEnds(c, step, error) ==
  kitCall' = [kitCall EXCEPT ![c] =
                IF @.tab THEN [@ EXCEPT !.step = step, !.error = error,
                                 !.notes = IF kit' = NoKit THEN "" ELSE kit'.notes]
                ELSE NoKitCall]

KitAnswers(c) == KitEnds(c, "answered", "")
KitRefuses(c, error) == KitEnds(c, "refused", error)

\* An application that was submitted and is not closed, and a resume to ground
\* the questions in; a kit that is there already is the answer.
KitCreateReads(c) ==
  /\ KitMayBegin(c) /\ kitCall[c].kind = "create"
  /\ UNCHANGED <<kitStatus, kitResume, kit, kitTab, kitOverlapping>>
  /\ \/ kitStatus \notin PreparationStatuses /\ KitRefuses(c, "interview_kit_unavailable")
     \/ /\ kitStatus \in PreparationStatuses
        /\ \/ kitResume = NoKit /\ KitRefuses(c, "interview_resume_required")
           \/ kitResume # NoKit /\ kit # NoKit /\ KitAnswers(c)
           \/ /\ kitResume # NoKit /\ kit = NoKit
              /\ kitCall' = [kitCall EXCEPT ![c].step = "read", ![c].resume = kitResume]

\* Faulty: the later creation replaces the kit.
ReplacesKit(c) ==
  /\ kitCall[c].step = "read" /\ kitCall[c].kind = "create"
  /\ kit' = KitRow(kitCall[c].resume)
  /\ KitAnswers(c)
  /\ UNCHANGED <<kitStatus, kitResume, kitTab, kitOverlapping>>

\* The loser of two insertions rolls back and reads the winner's kit.
KitCreateWrites(c) ==
  /\ kitCall[c].step = "read" /\ kitCall[c].kind = "create"
  /\ kit' = IF kit = NoKit THEN KitRow(kitCall[c].resume) ELSE kit
  /\ KitAnswers(c)
  /\ UNCHANGED <<kitStatus, kitResume, kitTab, kitOverlapping>>

KitGet(c) ==
  /\ KitMayBegin(c) /\ kitCall[c].kind = "get"
  /\ UNCHANGED <<kitStatus, kitResume, kit, kitTab, kitOverlapping>>
  /\ IF kit = NoKit THEN KitRefuses(c, "interview_kit_not_found") ELSE KitAnswers(c)

KitUpdateReads(c) ==
  /\ KitMayBegin(c) /\ kitCall[c].kind = "update"
  /\ UNCHANGED <<kitStatus, kitResume, kit, kitTab, kitOverlapping>>
  /\ \/ kit = NoKit /\ KitRefuses(c, "interview_kit_not_found")
     \/ /\ kit # NoKit
        /\ kitCall' = [kitCall EXCEPT ![c].step = "read",
                         ![c].seen = [notes |-> kit.notes, reviewed |-> kit.reviewed]]

\* Faulty: the review mark outlives the notes it was given for.
KeepsReview(request) ==
  [kit EXCEPT !.notes = request.notes, !.reviewed = @ \/ request.confirm,
              !.last = [notes |-> request.notes, confirm |-> request.confirm]]

\* The flush writes the columns that differ from what the session read: notes
\* that are as they were read are left to whoever changed them since, and so is
\* a review mark that was not there and is not asked for. A confirmation has a
\* new time and is always written.
KitUpdated(request) ==
  [kit EXCEPT
     !.notes = IF request.notes = request.seen.notes THEN @ ELSE request.notes,
     !.reviewed = request.confirm \/ (@ /\ ~request.seen.reviewed),
     !.last = [notes |-> request.notes, confirm |-> request.confirm]]

KitUpdateWrites(c) ==
  /\ kitCall[c].step = "read" /\ kitCall[c].kind = "update"
  /\ kit' = KitUpdated(kitCall[c])
  /\ KitAnswers(c)
  /\ UNCHANGED <<kitStatus, kitResume, kitTab, kitOverlapping>>

-------------------------------------------------------------------------------
(* The workspace. Its requests pass the web proxy, which takes no write that   *)
(* is not declared as JSON.                                                    *)

KitTabClosed == [status |-> "idle", typed |-> "", saving |-> FALSE, error |-> ""]

\* What the workspace declares its request to be.
KitContentType(kind) == IF kind = "update" THEN "application/json" ELSE "none"

ProxyRefuses(kind) == kind # "get" /\ KitContentType(kind) # "application/json"

KitSends(kind, notes, confirm) ==
  \E c \in KitCall :
    /\ kitCall[c] = NoKitCall
    /\ kitCall' = [kitCall EXCEPT ![c] =
         [NoKitCall EXCEPT !.kind = kind, !.tab = TRUE, !.notes = notes, !.confirm = confirm,
            !.step = IF ProxyRefuses(kind) THEN "refused" ELSE "sent",
            !.error = IF ProxyRefuses(kind) THEN "json_required" ELSE ""]]

OpensKit ==
  /\ kitTab.status \in {"idle", "error"}
  /\ KitSends("get", "", FALSE)
  /\ kitTab' = [KitTabClosed EXCEPT !.status = "loading"]
  /\ UNCHANGED <<kitStatus, kitResume, kit, kitOverlapping>>

\* There is no kit yet: the workspace asks for one.
AsksForKit(c) ==
  /\ kitCall[c].tab /\ kitCall[c].kind = "get"
  /\ kitCall[c].step = "refused" /\ kitCall[c].error = "interview_kit_not_found"
  /\ kitCall' = [kitCall EXCEPT ![c] =
       [NoKitCall EXCEPT !.kind = "create", !.tab = TRUE,
          !.step = IF ProxyRefuses("create") THEN "refused" ELSE "sent",
          !.error = IF ProxyRefuses("create") THEN "json_required" ELSE ""]]
  /\ UNCHANGED <<kitStatus, kitResume, kit, kitTab, kitOverlapping>>

WritesNotes(text) ==
  /\ kitTab.status = "ready"
  /\ kitTab' = [kitTab EXCEPT !.typed = text]
  /\ UNCHANGED <<kitStatus, kitResume, kit, kitCall, kitOverlapping>>

SavesNotes(confirm) ==
  /\ kitTab.status = "ready" /\ ~kitTab.saving
  /\ KitSends("update", kitTab.typed, confirm)
  /\ kitTab' = [kitTab EXCEPT !.saving = TRUE]
  /\ UNCHANGED <<kitStatus, kitResume, kit, kitOverlapping>>

\* The notes of the answer replace what was typed.
ReceivesKit(c) ==
  /\ kitCall[c].tab /\ kitCall[c].step = "answered"
  /\ kitTab' = [KitTabClosed EXCEPT !.status = "ready", !.typed = kitCall[c].notes]
  /\ kitCall' = [kitCall EXCEPT ![c] = NoKitCall]
  /\ UNCHANGED <<kitStatus, kitResume, kit, kitOverlapping>>

\* Faulty: a save that fails leaves the workspace saving.
KitFailsSaving(c) ==
  /\ kitCall[c].tab
  /\ kitTab' = IF kitCall[c].kind = "update" THEN kitTab
               ELSE [KitTabClosed EXCEPT !.status = "error"]
  /\ kitCall' = [kitCall EXCEPT ![c] = NoKitCall]
  /\ UNCHANGED <<kitStatus, kitResume, kit, kitOverlapping>>

\* A refusal, or no answer within the proxy's time: a save that fails keeps
\* what is typed, anything else ends on the error page. The service may go on.
KitFails(c) ==
  /\ kitCall[c].tab
  /\ kitCall[c].step = "refused" => kitCall[c].error # "interview_kit_not_found"
                                     \/ kitCall[c].kind = "update"
  /\ kitTab' = IF kitCall[c].kind = "update" THEN [kitTab EXCEPT !.saving = FALSE]
               ELSE [KitTabClosed EXCEPT !.status = "error",
                       !.error = IF kitCall[c].step = "refused" THEN kitCall[c].error
                                 ELSE "interview_preparation_unavailable"]
  /\ kitCall' = [kitCall EXCEPT ![c] =
                   IF @.step \in {"answered", "refused"} THEN NoKitCall
                   ELSE [@ EXCEPT !.tab = FALSE]]
  /\ UNCHANGED <<kitStatus, kitResume, kit, kitOverlapping>>

-------------------------------------------------------------------------------
\* The owner records what became of the application.
MovesApplication(status) ==
  /\ status \in StatusAfter[kitStatus]
  /\ kitStatus' = status
  /\ UNCHANGED <<kitResume, kit, kitCall, kitTab, kitOverlapping>>

\* An application made without a resume is grounded in the active one, which
\* the owner may replace.
ReplacesResume(resume) ==
  /\ kitResume' = resume
  /\ UNCHANGED <<kitStatus, kit, kitCall, kitTab, kitOverlapping>>

\* A client of the HTTP interface other than the workspace asks for the kit.
ForeignCreatesKit ==
  \E c \in KitCall :
    /\ kitCall[c] = NoKitCall
    /\ kitCall' = [kitCall EXCEPT ![c] =
                     [NoKitCall EXCEPT !.kind = "create", !.step = "sent"]]
    /\ UNCHANGED <<kitStatus, kitResume, kit, kitTab, kitOverlapping>>

KitInit ==
  /\ kitStatus \in {"ready", "applied"}
  /\ kitResume \in KitResume \union {NoKit}
  /\ kit = NoKit
  /\ kitCall = [c \in KitCall |-> NoKitCall]
  /\ kitTab = KitTabClosed
  /\ kitOverlapping \in BOOLEAN

KitNext ==
  \/ \E status \in DOMAIN StatusAfter : MovesApplication(status)
  \/ \E resume \in KitResume : ReplacesResume(resume)
  \/ ForeignCreatesKit
  \/ OpensKit
  \/ \E text \in KitText : WritesNotes(text)
  \/ \E confirm \in BOOLEAN : SavesNotes(confirm)
  \/ \E c \in KitCall :
       \/ KitCreateReads(c) \/ KitCreateWrites(c) \/ KitGet(c)
       \/ KitUpdateReads(c) \/ KitUpdateWrites(c)
       \/ AsksForKit(c) \/ ReceivesKit(c) \/ KitFails(c)

KitSpec == KitInit /\ [][KitNext]_kitVars

-------------------------------------------------------------------------------
\* A kit, once made, stays as it was made: a creation that overlaps another, or
\* comes after the resume was replaced, neither replaces its questions nor
\* takes the notes away.
KitIsKept ==
  [][kit # NoKit => /\ kit' # NoKit /\ kit'.resume = kit.resume
                    /\ kit'.notes # kit.notes => kit'.notes = kit'.last.notes]_kitVars

\* While updates are served one after another, the mark "fact-checked" stands
\* for the notes that are stored: it was given with them, and none replaced
\* them since.
ReviewCoversNotes ==
  kit # NoKit /\ kit.reviewed /\ ~kitOverlapping =>
    kit.last.confirm /\ kit.notes = kit.last.notes

\* No answer is left over for a workspace that does not wait for it: the save
\* button of a workspace is blocked only while its save is under way.
SavingEnds ==
  kitTab.saving => \E c \in KitCall : kitCall[c].tab /\ kitCall[c].kind = "update"

\* The reader's workspace is refused a kit only for a reason the reader can do
\* something about: the application's status, a missing resume, or a service
\* that cannot be reached.
PreparationIsAvailable ==
  kitTab.error \in {"", "interview_kit_unavailable", "interview_resume_required",
                    "interview_preparation_unavailable"}

\* What the owner of a kit may rely on: notes and questions stay, the mark is
\* about the notes, and the workspace does not wait for ever.
NotesAreKept == KitIsKept /\ [](ReviewCoversNotes /\ SavingEnds)
===============================================================================
