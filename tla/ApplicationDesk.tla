---------------------------- MODULE ApplicationDesk ----------------------------
(* The application tracker page of the web front end and the packet workspace  *)
(* on it, for one application. The page keeps copies of what the service told  *)
(* it: the item of the list, the detail it caches, and the packet; it sends    *)
(* what a form holds together with what such a copy says. The service handles  *)
(* each request in one step here; how its transactions interleave is the       *)
(* subject of Applications.                                                    *)
EXTENDS Naturals

CONSTANTS
  DeskCall,   \* slots for requests under way
  OwnAction,  \* the next actions its owner may plan
  OnEmployerSite,   \* "Complete the application on the employer site"
  EmployerResponse, \* "Record the employer response"
  DeskDue,    \* the deadlines of a plan, none among them
  NoDue,
  DeskResume, \* the resumes a packet may hold, the original one among them
  Original,
  NoCopy      \* the page has no copy

DeskAction == OwnAction \union {OnEmployerSite, EmployerResponse}

DeskPlan == [action : DeskAction, due : DeskDue]

OwnPlan == [action : OwnAction, due : DeskDue]

ASSUME DeskCopies ==
  /\ Original \in DeskResume /\ NoDue \in DeskDue
  /\ NoCopy \notin DeskPlan \union DeskResume

VARIABLES
  deskRow,    \* the application and its packet in the database
  deskItem,   \* the item of the list
  deskDetail, \* the cached detail
  deskPacket, \* the packet workspace
  deskCall,   \* deskCall[c]: the request in slot c
  deskRaced,  \* history: two requests were under way at a time
  deskLost,   \* history: an answer was lost, or another page wrote
  deskLetGo,  \* history: the packet workspace was closed while it saved or locked
  deskSigned  \* history: the packet on display when it was marked ready

deskVars == <<deskRow, deskItem, deskDetail, deskPacket, deskCall,
              deskRaced, deskLost, deskLetGo, deskSigned>>

\* What the tracker offers next: the packet has steps of its own for the two
\* statuses it leads to.
NextStatuses ==
  [preparing |-> {"withdrawn"}, ready_to_apply |-> {"withdrawn"},
   applied |-> {"interview", "withdrawn"}, interview |-> {"withdrawn"},
   withdrawn |-> {}]

DeskStatus == DOMAIN NextStatuses

\* Where the packet workspace of an expanded card is: in the column of the
\* status, for as long as the status is one of the first three. A card that
\* changes columns is built anew.
PacketPlace ==
  [preparing |-> "first column", ready_to_apply |-> "first column",
   applied |-> "second column", interview |-> "nowhere", withdrawn |-> "nowhere"]

-------------------------------------------------------------------------------
(* The service: one answer to each request, from the row as it is then.        *)

\* Of a request about the packet, shown says that the instance of the packet
\* workspace that sent it is the one on display.
NoDeskCall ==
  [kind |-> "none", step |-> "free", page |-> FALSE, shown |-> FALSE,
   form |-> NoCopy, answer |-> NoCopy]

PageClosed ==
  [status |-> "idle", resume |-> Original, reviewed |-> FALSE, ready |-> FALSE,
   canReady |-> FALSE, canSubmit |-> FALSE, dirty |-> FALSE, busy |-> FALSE]

ApplicationOf(row) == [status |-> row.status, plan |-> row.plan]

\* The packet as the service describes it, with what may be done with it.
PacketOf(row) ==
  [PageClosed EXCEPT
     !.status = "ready", !.resume = row.resume, !.reviewed = row.reviewed, !.ready = row.ready,
     !.canReady = ~row.ready /\ row.reviewed /\ row.status = "preparing",
     !.canSubmit = row.ready /\ row.status = "ready_to_apply"]

\* Each endpoint that writes: the row it leaves, or none when it refuses.
Transitions(form) ==
  {row \in {[deskRow EXCEPT !.status = form.to, !.plan = form.plan]} :
     form.to \in NextStatuses[deskRow.status]}

Plans(form) == {[deskRow EXCEPT !.plan = form.plan]}

UpdatesPacket(form) ==
  {row \in {[deskRow EXCEPT !.resume = form.resume, !.reviewed = form.reviewed]} : ~row.ready}

\* The step that comes next takes the place of the owner's; the deadline stays.
Readied(row) ==
  [row EXCEPT !.ready = TRUE, !.status = "ready_to_apply", !.plan.action = OnEmployerSite]

\* Marking a packet ready again changes nothing.
MarksReady ==
  {IF row.status = "preparing" THEN Readied(row) ELSE [row EXCEPT !.ready = TRUE] :
     row \in {r \in {deskRow} : r.reviewed /\ r.status \in {"preparing", "ready_to_apply"}}}

\* The deadline was the application's; the new step has none.
ConfirmsSubmitted ==
  {[row EXCEPT !.status = "applied", !.plan = [action |-> EmployerResponse, due |-> NoDue]] :
     row \in {r \in {deskRow} : r.ready /\ r.status = "ready_to_apply"}}

\* The list and the details show the row as one transaction reads it.
ReadsApplications == {deskRow}

Outcome(request) ==
  CASE request.kind = "move"   -> Transitions(request.form)
    [] request.kind = "plan"   -> Plans(request.form)
    [] request.kind = "review" -> UpdatesPacket(request.form)
    [] request.kind = "ready"  -> MarksReady
    [] request.kind = "submit" -> ConfirmsSubmitted
    [] request.kind \in {"list", "detail", "refresh"} -> ReadsApplications
    [] OTHER -> {deskRow}

ServiceAnswers(c) ==
  /\ deskCall[c].step = "sent"
  /\ \/ /\ deskRow' \in Outcome(deskCall[c])
        /\ deskCall' = [deskCall EXCEPT ![c] =
             IF @.page THEN [@ EXCEPT !.step = "answered", !.answer = deskRow'] ELSE NoDeskCall]
     \/ /\ Outcome(deskCall[c]) = {}
        /\ deskCall' = [deskCall EXCEPT ![c] =
             IF @.page THEN [@ EXCEPT !.step = "refused"] ELSE NoDeskCall]
        /\ UNCHANGED deskRow
  /\ UNCHANGED <<deskItem, deskDetail, deskPacket, deskRaced, deskLost, deskLetGo, deskSigned>>

-------------------------------------------------------------------------------
(* The page sends.                                                             *)

InFlight(kinds) == \E c \in DeskCall : deskCall[c].page /\ deskCall[c].kind \in kinds

OfPacket == {"open", "review", "ready", "submit"}

DeskSends(kind, form) ==
  \E c \in DeskCall :
    /\ deskCall[c] = NoDeskCall
    /\ deskCall' = [deskCall EXCEPT ![c] =
         [NoDeskCall EXCEPT !.kind = kind, !.step = "sent", !.page = TRUE,
                            !.shown = kind \in OfPacket, !.form = form]]
    /\ deskRaced' = (deskRaced \/ \E d \in DeskCall : deskCall[d] # NoDeskCall)
    /\ UNCHANGED <<deskLost, deskLetGo>>

\* The instance of the packet workspace goes, with its draft and its marks.
\* What it sent is served all the same, and its handlers go on without it.
LetsGo(calls) == [c \in DeskCall |-> [calls[c] EXCEPT !.shown = FALSE]]

Abandons ==
  \E c \in DeskCall : deskCall[c].shown /\ deskCall[c].kind \in {"review", "ready"}

LoadsTracker ==
  /\ deskItem = NoCopy /\ ~InFlight({"list"})
  /\ DeskSends("list", NoCopy)
  /\ UNCHANGED <<deskRow, deskItem, deskDetail, deskPacket, deskSigned>>

\* The history is fetched once and kept; closing and expanding again before the
\* answer asks for it twice.
ExpandsDetail ==
  /\ deskItem # NoCopy /\ deskDetail = NoCopy
  /\ DeskSends("detail", NoCopy)
  /\ UNCHANGED <<deskRow, deskItem, deskDetail, deskPacket, deskSigned>>

\* Closing the card, or expanding another one, whatever is under way.
ClosesCard ==
  /\ deskPacket # PageClosed
  /\ deskPacket' = PageClosed
  /\ deskCall' = LetsGo(deskCall)
  /\ deskLetGo' = (deskLetGo \/ Abandons)
  /\ UNCHANGED <<deskRow, deskItem, deskDetail, deskRaced, deskLost, deskSigned>>

\* The forms are on the expanded card, once its history is there.
CardIsOpen == deskItem # NoCopy /\ deskDetail # NoCopy

\* Faulty: the plan is left out of the request.
ChangesStatusOnly(to) ==
  /\ CardIsOpen /\ to \in NextStatuses[deskItem.status]
  /\ ~InFlight({"move"})
  /\ DeskSends("move", [to |-> to, plan |-> NoCopy])
  /\ UNCHANGED <<deskRow, deskItem, deskDetail, deskPacket, deskSigned>>

\* The form names a status; the plan that goes with it is the item's.
ChangesStatus(to) ==
  /\ CardIsOpen /\ to \in NextStatuses[deskItem.status]
  /\ ~InFlight({"move"})
  /\ DeskSends("move", [to |-> to, plan |-> deskItem.plan])
  /\ UNCHANGED <<deskRow, deskItem, deskDetail, deskPacket, deskSigned>>

SavesDeskPlan(plan) ==
  /\ CardIsOpen /\ ~InFlight({"plan"})
  /\ DeskSends("plan", [plan |-> plan])
  /\ UNCHANGED <<deskRow, deskItem, deskDetail, deskPacket, deskSigned>>

OpensPacket ==
  /\ CardIsOpen /\ PacketPlace[deskItem.status] # "nowhere"
  /\ deskPacket.status \in {"idle", "error"}
  /\ DeskSends("open", NoCopy)
  /\ deskPacket' = [PageClosed EXCEPT !.status = "loading"]
  /\ UNCHANGED <<deskRow, deskItem, deskDetail, deskSigned>>

\* Another resume has to be reviewed again; the packet is to be saved.
EditsPacket(resume, reviewed) ==
  /\ deskPacket.status = "ready" /\ ~deskPacket.ready
  /\ resume # deskPacket.resume => ~reviewed
  /\ deskPacket' = [deskPacket EXCEPT !.resume = resume, !.reviewed = reviewed, !.dirty = TRUE]
  /\ UNCHANGED <<deskRow, deskItem, deskDetail, deskCall, deskRaced, deskLost, deskLetGo, deskSigned>>

SavesReview ==
  /\ deskPacket.status = "ready" /\ ~deskPacket.ready
  /\ deskPacket.dirty /\ ~deskPacket.busy
  /\ DeskSends("review", [resume |-> deskPacket.resume, reviewed |-> deskPacket.reviewed])
  /\ deskPacket' = [deskPacket EXCEPT !.busy = TRUE]
  /\ UNCHANGED <<deskRow, deskItem, deskDetail, deskSigned>>

\* Faulty: edits that are not saved do not block the button.
MarksUnsavedReady ==
  /\ deskPacket.status = "ready" /\ ~deskPacket.ready
  /\ ~deskPacket.busy /\ deskPacket.canReady
  /\ DeskSends("ready", NoCopy)
  /\ deskPacket' = [deskPacket EXCEPT !.busy = TRUE]
  /\ deskSigned' = [resume |-> deskPacket.resume, reviewed |-> deskPacket.reviewed]
  /\ UNCHANGED <<deskRow, deskItem, deskDetail>>

\* Only what is saved is marked ready.
MarksPacketReady ==
  /\ deskPacket.status = "ready" /\ ~deskPacket.ready
  /\ ~deskPacket.dirty /\ ~deskPacket.busy /\ deskPacket.canReady
  /\ DeskSends("ready", NoCopy)
  /\ deskPacket' = [deskPacket EXCEPT !.busy = TRUE]
  /\ deskSigned' = [resume |-> deskPacket.resume, reviewed |-> deskPacket.reviewed]
  /\ UNCHANGED <<deskRow, deskItem, deskDetail>>

RecordsSubmission ==
  /\ deskPacket.status = "ready" /\ deskPacket.ready
  /\ deskPacket.canSubmit /\ ~deskPacket.busy
  /\ DeskSends("submit", NoCopy)
  /\ deskPacket' = [deskPacket EXCEPT !.busy = TRUE]
  /\ UNCHANGED <<deskRow, deskItem, deskDetail, deskSigned>>

-------------------------------------------------------------------------------
(* The page receives.                                                          *)

\* Faulty: an update leaves the cached detail as it was.
ReceivesItemOnly(c) ==
  /\ deskCall[c].step = "answered"
  /\ deskCall[c].kind \in {"list", "detail", "move", "plan", "refresh"}
  /\ IF deskCall[c].kind = "detail"
       THEN deskDetail' = ApplicationOf(deskCall[c].answer) /\ UNCHANGED deskItem
       ELSE deskItem' = ApplicationOf(deskCall[c].answer) /\ UNCHANGED deskDetail
  /\ deskCall' = [deskCall EXCEPT ![c] = NoDeskCall]
  /\ UNCHANGED <<deskRow, deskPacket, deskRaced, deskLost, deskLetGo, deskSigned>>

\* An instance whose card moves goes; one that refreshed the application is no
\* longer busy.
Redrawn(c) ==
  IF deskItem # NoCopy /\ PacketPlace[deskItem'.status] # PacketPlace[deskItem.status]
    THEN /\ deskPacket' = PageClosed
         /\ deskCall' = [LetsGo(deskCall) EXCEPT ![c] = NoDeskCall]
         /\ deskLetGo' = (deskLetGo \/ Abandons)
    ELSE /\ deskPacket' = IF deskCall[c].kind = "refresh" /\ deskCall[c].shown
                          THEN [deskPacket EXCEPT !.busy = FALSE] ELSE deskPacket
         /\ deskCall' = [deskCall EXCEPT ![c] = NoDeskCall]
         /\ UNCHANGED deskLetGo

\* The list fills the item alone, a detail fills the cache alone; an update of
\* the application and a refresh replace both copies.
ReceivesApplication(c) ==
  /\ deskCall[c].step = "answered"
  /\ deskCall[c].kind \in {"list", "detail", "move", "plan", "refresh"}
  /\ deskItem' = IF deskCall[c].kind = "detail" THEN deskItem
                 ELSE ApplicationOf(deskCall[c].answer)
  /\ deskDetail' = IF deskCall[c].kind = "list" THEN deskDetail
                   ELSE ApplicationOf(deskCall[c].answer)
  /\ Redrawn(c)
  /\ UNCHANGED <<deskRow, deskRaced, deskLost, deskSigned>>

\* Faulty: the handler of an instance that is gone stops there.
RefreshesIfShown(c) ==
  /\ deskCall[c].step = "answered" /\ deskCall[c].kind \in OfPacket
  /\ deskPacket' = IF ~deskCall[c].shown THEN deskPacket
                   ELSE IF deskCall[c].kind \in {"open", "review"} THEN PacketOf(deskCall[c].answer)
                   ELSE [PacketOf(deskCall[c].answer) EXCEPT !.busy = TRUE]
  /\ deskCall' = [deskCall EXCEPT ![c] =
                    IF @.shown /\ @.kind \in {"ready", "submit"}
                    THEN [NoDeskCall EXCEPT !.kind = "refresh", !.step = "sent",
                                            !.page = TRUE, !.shown = TRUE]
                    ELSE NoDeskCall]
  /\ UNCHANGED <<deskRow, deskItem, deskDetail, deskRaced, deskLost, deskLetGo, deskSigned>>

\* The packet replaces the draft, edits made meanwhile included, if the instance
\* is still there. A packet that was marked ready or submitted has the
\* application refreshed in any case, and stays busy until then.
ReceivesPacket(c) ==
  /\ deskCall[c].step = "answered" /\ deskCall[c].kind \in OfPacket
  /\ deskPacket' = IF ~deskCall[c].shown THEN deskPacket
                   ELSE IF deskCall[c].kind \in {"open", "review"} THEN PacketOf(deskCall[c].answer)
                   ELSE [PacketOf(deskCall[c].answer) EXCEPT !.busy = TRUE]
  /\ deskCall' = [deskCall EXCEPT ![c] =
                    IF @.kind \in {"ready", "submit"}
                    THEN [NoDeskCall EXCEPT !.kind = "refresh", !.step = "sent",
                                            !.page = TRUE, !.shown = deskCall[c].shown]
                    ELSE NoDeskCall]
  /\ UNCHANGED <<deskRow, deskItem, deskDetail, deskRaced, deskLost, deskLetGo, deskSigned>>

\* A refusal, or no answer in time, when the request may be served later still.
DeskRequestFails(c) ==
  /\ deskCall[c].page
  /\ deskPacket' = IF ~deskCall[c].shown THEN deskPacket
                   ELSE IF deskCall[c].kind = "open" THEN [PageClosed EXCEPT !.status = "error"]
                   ELSE [deskPacket EXCEPT !.busy = FALSE]
  /\ deskLost' = (deskLost \/ deskCall[c].step # "refused")
  /\ deskCall' = [deskCall EXCEPT ![c] =
                    IF @.step = "sent" THEN [@ EXCEPT !.page = FALSE] ELSE NoDeskCall]
  /\ UNCHANGED <<deskRow, deskItem, deskDetail, deskRaced, deskLetGo, deskSigned>>

\* The owner has the tracker open elsewhere.
AnotherPageWrites ==
  /\ ~deskLost
  /\ \/ \E plan \in OwnPlan : deskRow' = [deskRow EXCEPT !.plan = plan]
     \/ /\ ~deskRow.ready
        /\ \E resume \in DeskResume : deskRow' = [deskRow EXCEPT !.resume = resume]
  /\ deskLost' = TRUE
  /\ UNCHANGED <<deskItem, deskDetail, deskPacket, deskCall, deskRaced, deskLetGo, deskSigned>>

DeskInit ==
  /\ \E plan \in OwnPlan :
       deskRow = [status |-> "preparing", plan |-> plan, resume |-> Original,
                  reviewed |-> FALSE, ready |-> FALSE]
  /\ deskItem = NoCopy /\ deskDetail = NoCopy
  /\ deskPacket = PageClosed
  /\ deskCall = [c \in DeskCall |-> NoDeskCall]
  /\ deskRaced = FALSE /\ deskLost = FALSE /\ deskLetGo = FALSE
  /\ deskSigned = NoCopy

DeskNext ==
  \/ LoadsTracker \/ ExpandsDetail
  \/ \E to \in DeskStatus : ChangesStatus(to)
  \/ \E plan \in OwnPlan : SavesDeskPlan(plan)
  \/ ClosesCard
  \/ OpensPacket
  \/ \E resume \in DeskResume, reviewed \in BOOLEAN : EditsPacket(resume, reviewed)
  \/ SavesReview \/ MarksPacketReady \/ RecordsSubmission
  \/ \E c \in DeskCall :
       \/ ServiceAnswers(c)
       \/ ReceivesApplication(c) \/ ReceivesPacket(c)
       \/ DeskRequestFails(c)
  \/ AnotherPageWrites

DeskSpec == DeskInit /\ [][DeskNext]_deskVars

-------------------------------------------------------------------------------
Quiet == \A c \in DeskCall : deskCall[c] = NoDeskCall

\* When nothing is under way, and nothing ever raced, was lost or came from
\* another page, the item and the cached detail agree with the database: no
\* handler forgets one of the copies it should replace.
ShownIsStored ==
  Quiet /\ ~deskRaced /\ ~deskLost =>
    /\ deskItem \in {NoCopy, ApplicationOf(deskRow)}
    /\ deskDetail \in {NoCopy, ApplicationOf(deskRow)}

\* A move of the owner's repeats the plan as it is stored, be it the one they
\* saved last or the step the packet put in its place: no answer leaves the page
\* with a plan that was replaced, even if its packet workspace is gone.
PlanSurvivesMove ==
  [][~deskRaced /\ ~deskLost /\ deskRow'.status # deskRow.status =>
       deskRow'.status \in {"ready_to_apply", "applied"} \/ deskRow'.plan = deskRow.plan]_deskVars

\* Unless a save that the page gave up on was served later, or another page
\* wrote, what is locked is what the person saw when marking it ready, whatever
\* else the page had under way. A workspace that was closed while it saved or
\* locked makes no difference either, as long as the page does nothing more
\* until that request is answered.
LockedAsShown ==
  deskRow.ready /\ ~deskLost /\ ~(deskRaced /\ deskLetGo) =>
    deskSigned = [resume |-> deskRow.resume, reviewed |-> TRUE] /\ deskRow.reviewed

\* What the tracker and the packet workspace show is what is stored, and what
\* they send on the person's behalf is what the person saw.
DeskIsTrue == PlanSurvivesMove /\ [](ShownIsStored /\ LockedAsShown)
===============================================================================
