--------------------------- MODULE DocumentHistory ---------------------------
(* What the reviewed documents of one tailoring plan promise their reader: a   *)
(* history that only grows, of which a version once written never changes and  *)
(* once approved stays approved. When the requests on a plan are served one    *)
(* after another the history has one first draft, and only its latest version  *)
(* is revised or approved; requests that overlap may act on an older one.      *)
EXTENDS Naturals, Sequences

CONSTANT Content

VARIABLES history,     \* the versions, the oldest first
          overlapping  \* whether requests on the plan may overlap

historyVars == <<history, overlapping>>

Written(content) == [content |-> content, approved |-> FALSE]

HistoryInit == history = <<>> /\ overlapping \in BOOLEAN

Open(content) ==
  /\ history = <<>> \/ overlapping
  /\ history' = Append(history, Written(content))

Revise(base, content) ==
  /\ base = Len(history) \/ overlapping
  /\ history[base].content # content
  /\ history' = Append(history, Written(content))

Approve(version) ==
  /\ version = Len(history) \/ overlapping
  /\ history' = [history EXCEPT ![version].approved = TRUE]

HistoryNext ==
  /\ \/ \E content \in Content : Open(content)
     \/ \E base \in DOMAIN history, content \in Content : Revise(base, content)
     \/ \E version \in DOMAIN history : Approve(version)
  /\ UNCHANGED overlapping

HistorySpec == HistoryInit /\ [][HistoryNext]_historyVars
=============================================================================
