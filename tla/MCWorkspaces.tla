----------------------------- MODULE MCWorkspaces -----------------------------
(* Instances for TLC of the workspaces of the web front end with the services  *)
(* behind them. They share no state: a behaviour is one of a single workspace, *)
(* chosen in its initial state, and the others stay as they begin.             *)
EXTENDS DocumentReview, CoverLetters, InterviewKits, SearchWorkspace, ApplicationDesk,
        WebProxy, TLC

CONSTANTS c1, c2

VARIABLE part

Interchangeable == Permutations({c1, c2})

\* A tailored resume is a choice of the reviewer's; the service checks no more
\* of it than that each part is the source's or the suggestion's.
NothingIsLocked(content, accepted) == FALSE

workspacesVars == <<part, documentVars, letterVars, kitVars, searchVars, deskVars, exchange>>

Init ==
  /\ part \in {"document", "letter", "kit", "search", "desk", "proxy"}
  /\ DocumentInit /\ LetterInit /\ KitInit /\ SearchInit /\ DeskInit /\ ProxyInit
  /\ part # "document" => overlapping
  /\ part # "letter" => letterOverlapping
  /\ part # "kit" => kitOverlapping /\ kitStatus = "ready" /\ kitResume = NoKit
  /\ part # "desk" => deskRow.plan = [action |-> "own", due |-> "soon"]

\* Nothing is asserted of the tracker once an answer was lost to it, or once a
\* request has overlapped another after its packet workspace was closed while it
\* saved, so its behaviours end there.
Next ==
  /\ UNCHANGED part
  /\ \/ /\ part = "document" /\ DocumentNext
        /\ UNCHANGED <<letterVars, kitVars, searchVars, deskVars, exchange>>
     \/ /\ part = "letter" /\ LetterNext
        /\ UNCHANGED <<documentVars, kitVars, searchVars, deskVars, exchange>>
     \/ /\ part = "kit" /\ KitNext
        /\ UNCHANGED <<documentVars, letterVars, searchVars, deskVars, exchange>>
     \/ /\ part = "search" /\ SearchNext
        /\ UNCHANGED <<documentVars, letterVars, kitVars, deskVars, exchange>>
     \/ /\ part = "desk" /\ ~deskLost /\ ~(deskRaced /\ deskLetGo) /\ DeskNext
        /\ UNCHANGED <<documentVars, letterVars, kitVars, searchVars, exchange>>
     \/ /\ part = "proxy" /\ ProxyNext
        /\ UNCHANGED <<documentVars, letterVars, kitVars, searchVars, deskVars>>

Spec == Init /\ [][Next]_workspacesVars
===============================================================================
