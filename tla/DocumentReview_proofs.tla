------------------------- MODULE DocumentReview_proofs ------------------------
(* Theorems about DocumentReview, with their proofs. Rows are only appended    *)
(* and only gain marks, so what a request or a workspace has read of them      *)
(* stays true; what could be stale is that a version is the latest, and that   *)
(* is so only while requests overlap.                                          *)
EXTENDS DocumentReview, SequenceTheorems, TLAPS

Content == Choice \union Foreign

RowType ==
  [number : Nat, from : 1..MaxPlan, choice : Content, verified : BOOLEAN, reviewed : BOOLEAN]

TabType ==
  [status : {"idle", "loading", "ready", "error"}, draft : Nat, verified : BOOLEAN,
   choice : Content \union {None}, ticked : Nat, saving : BOOLEAN, approving : BOOLEAN]

CallType ==
  [kind : {"none", "create", "revise", "approve"},
   step : {"free", "sent", "read", "numbered", "answered", "refused"},
   tab : Tab \union {None}, target : Nat, choice : Content \union {None}, number : Nat,
   from : Nat, verified : BOOLEAN, view : TabType \union {None}]

StateType ==
  /\ plan \in 1..MaxPlan
  /\ versions \in Seq(RowType) /\ Len(versions) <= MaxVersion
  /\ call \in [Call -> CallType]
  /\ tab \in [Tab -> TabType]
  /\ overlapping \in BOOLEAN

\* The confirmation was ticked at version n or before it.
Ticked(n) == \E j \in 1..n : j \in DOMAIN versions /\ versions[j].reviewed

\* What a workspace shows of a version is so; also what one may fall back to.
ShowsVersion(w) ==
  /\ w.draft \in DOMAIN versions /\ w.choice \in Content
  /\ w.verified => versions[w.draft].verified

Unanswered(k) == k.step \in {"sent", "read", "numbered"}

\* What a request is about.
CallIsSound(c) ==
  LET k == call[c] IN
  /\ k.kind = "none" => k.tab = None /\ k.step = "free"
  /\ k.step = "free" => k.kind = "none"
  /\ k.kind = "create" /\ Unanswered(k) => k.choice = First
  /\ k.kind \in {"revise", "approve"} => k.target \in DOMAIN versions
  /\ k.kind = "revise" /\ Unanswered(k) => k.choice \in Content
  /\ k.kind = "approve" => Ticked(k.target) /\ k.step # "numbered"
  /\ k.step \in {"answered", "refused"} => k.tab # None
  /\ k.step = "answered" =>
       k.target \in DOMAIN versions /\ (k.verified => versions[k.target].verified)
  /\ k.kind \in {"revise", "approve"} /\ k.tab # None =>
       k.view \in TabType /\ k.view.status = "ready" /\ ShowsVersion(k.view)

\* What a request in its transaction has read.
CallKnows(c) ==
  LET k == call[c] IN
  InTransaction(c) =>
    /\ k.kind \in {"create", "revise"} => k.from \in 1..MaxPlan
    /\ k.step = "numbered" => k.number \in 1..(Latest + 1)
    /\ k.kind = "revise" => k.choice # versions[k.target].choice
    /\ ~overlapping =>
         /\ k.kind = "create" => Latest = 0
         /\ k.kind \in {"revise", "approve"} => k.target = Latest
         /\ k.kind = "revise" => k.from = versions[k.target].from

OneTransaction ==
  ~overlapping => \A c, d \in Call : InTransaction(c) /\ InTransaction(d) => c = d

\* The requests that a workspace waits for.
Pending(t) == {c \in Call : call[c].tab = t}

TabIsSound(t) ==
  /\ Ready(t) => ShowsVersion(tab[t]) /\ \A c \in Pending(t) : call[c].kind # "create"
  /\ ~Ready(t) => tab[t].draft = 0 /\ tab[t].ticked = 0
  /\ tab[t].status \in {"idle", "error"} => Pending(t) = {}
  /\ tab[t].status = "loading" =>
       \A c, d \in Pending(t) : c = d /\ call[c].kind = "create"

\* Before the first tick a workspace waits for one request at a time ...
NotYetTicked(t) ==
  /\ tab[t].ticked = 0
  /\ \A c, d \in Pending(t) : c = d
  /\ \A c \in Pending(t) :
       /\ call[c].kind \in {"create", "revise"}
       /\ call[c].kind = "revise" =>
            tab[t].saving /\ call[c].view.draft = tab[t].draft /\ call[c].target >= tab[t].draft

\* ... and then all it shows, or may come to show, is of a ticked document.
TickedForGood(t) ==
  /\ Ready(t) /\ Ticked(tab[t].draft)
  /\ \A c \in Pending(t) : Ticked(call[c].target) /\ Ticked(call[c].view.draft)

\* The inductive invariant.
IInv ==
  /\ StateType
  /\ VersionsAreNumbered /\ OneSuggestion /\ ApprovalWasTicked
  /\ \A c \in Call : CallIsSound(c) /\ CallKnows(c)
  /\ OneTransaction
  /\ \A t \in Tab : TabIsSound(t) /\ (NotYetTicked(t) \/ TickedForGood(t))

-------------------------------------------------------------------------------
(* The rows.                                                                   *)

LEMMA RowsAreTyped ==
  ASSUME StateType
  PROVE  /\ Latest \in Nat /\ DOMAIN versions = 1..Latest
         /\ \A i \in 1..Latest : versions[i] \in RowType
BY LenProperties, ElementOfSeq DEF StateType, Latest

\* The next number is the next one.
LEMMA NumbersFollow ==
  ASSUME StateType, VersionsAreNumbered
  PROVE  /\ NextNumber = Latest + 1
         /\ \A n \in 1..(Latest + 1) : ~NumberTaken(n) => n = Latest + 1
<1>1. /\ Latest \in Nat /\ DOMAIN versions = 1..Latest
      /\ \A i \in 1..Latest : versions[i].number = i
  BY RowsAreTyped DEF VersionsAreNumbered
<1>2. \A n \in 1..(Latest + 1) : ~NumberTaken(n) => n = Latest + 1
  BY <1>1 DEF NumberTaken
<1>3. CASE versions = <<>>
  BY <1>3 DEF NextNumber, Latest
<1>4. CASE versions # <<>>
  <2>1. Latest # 0
    BY <1>4, EmptySeq DEF StateType, Latest
  <2> DEFINE IsMax(n) == /\ n \in {versions[i].number : i \in DOMAIN versions}
                         /\ \A i \in DOMAIN versions : versions[i].number <= n
  <2>2. IsMax(Latest)
    <3>1. Latest \in DOMAIN versions /\ versions[Latest].number = Latest
      BY <1>1, <2>1
    <3>2. \A i \in DOMAIN versions : versions[i].number <= Latest
      BY <1>1
    <3> QED  BY <3>1, <3>2
  <2>3. PICK m : m = CHOOSE n : IsMax(n)
    OBVIOUS
  <2>4. IsMax(m)
    BY <2>2, <2>3
  <2>5. m = Latest
    <3>1. PICK i \in 1..Latest : m = versions[i].number
      BY <1>1, <2>4
    <3>2. Latest <= m
      BY <1>1, <2>1, <2>4
    <3> QED  BY <1>1, <3>1, <3>2
  <2>6. NextNumber = 1 + m
    BY <1>4, <2>3 DEF NextNumber
  <2> QED  BY <1>1, <1>2, <2>5, <2>6
<1> QED  BY <1>2, <1>3, <1>4

\* What may happen to the rows: one is appended, or one gains a mark.
RowsGrow ==
  /\ Latest <= Latest' /\ DOMAIN versions' = 1..Latest' /\ Latest' \in Nat
  /\ \A i \in 1..Latest :
       /\ versions'[i].number = versions[i].number /\ versions'[i].from = versions[i].from
       /\ versions'[i].choice = versions[i].choice
       /\ versions[i].verified => versions'[i].verified
       /\ versions[i].reviewed => versions'[i].reviewed

LEMMA RowsStay == ASSUME StateType, UNCHANGED versions PROVE RowsGrow /\ Latest' = Latest
BY RowsAreTyped DEF RowsGrow, Latest

LEMMA RowIsMarked ==
  ASSUME StateType, NEW id \in DOMAIN versions, NEW row \in RowType,
         versions' = [versions EXCEPT ![id] = row],
         row.number = versions[id].number, row.from = versions[id].from,
         row.choice = versions[id].choice,
         versions[id].verified => row.verified, versions[id].reviewed => row.reviewed
  PROVE  /\ RowsGrow /\ Latest' = Latest
         /\ versions' \in Seq(RowType)
         /\ versions'[id] = row /\ \A i \in 1..Latest : i # id => versions'[i] = versions[i]
<1>1. /\ Latest \in Nat /\ DOMAIN versions = 1..Latest /\ id \in 1..Len(versions)
      /\ versions \in Seq(RowType)
  BY RowsAreTyped DEF StateType, Latest
<1>2. /\ versions' \in Seq(RowType) /\ Len(versions') = Len(versions)
      /\ \A i \in 1..Len(versions) : versions'[i] = IF i = id THEN row ELSE versions[i]
  BY <1>1, ExceptSeq
<1>3. DOMAIN versions' = 1..Len(versions')
  BY <1>2, LenProperties
<1> QED  BY <1>1, <1>2, <1>3 DEF RowsGrow, Latest

LEMMA RowIsAppended ==
  ASSUME StateType, NEW row \in RowType, versions' = Append(versions, row)
  PROVE  /\ RowsGrow /\ Latest' = Latest + 1
         /\ versions' \in Seq(RowType)
         /\ versions'[Latest + 1] = row /\ \A i \in 1..Latest : versions'[i] = versions[i]
<1>1. Latest \in Nat /\ DOMAIN versions = 1..Latest /\ versions \in Seq(RowType)
  BY RowsAreTyped DEF StateType
<1>2. /\ versions' \in Seq(RowType) /\ Len(versions') = Len(versions) + 1
      /\ \A i \in 1..Len(versions) : versions'[i] = versions[i]
      /\ versions'[Len(versions) + 1] = row
  BY <1>1, AppendProperties
<1>3. DOMAIN versions' = 1..Len(versions')
  BY <1>2, LenProperties
<1> QED  BY <1>1, <1>2, <1>3 DEF RowsGrow, Latest

-------------------------------------------------------------------------------
(* What was read stays true.                                                   *)

LEMMA TickedStays ==
  ASSUME StateType, RowsGrow, NEW n \in Nat, Ticked(n) PROVE Ticked(n)'
BY RowsAreTyped DEF Ticked, RowsGrow

LEMMA TickedAfter ==
  ASSUME NEW n \in Nat, NEW m \in Nat, n <= m, Ticked(n) PROVE Ticked(m)
BY DEF Ticked

LEMMA ShownStays ==
  ASSUME StateType, RowsGrow, NEW w \in TabType, ShowsVersion(w) PROVE ShowsVersion(w)'
BY RowsAreTyped DEF ShowsVersion, RowsGrow

LEMMA SoundStays ==
  ASSUME StateType, RowsGrow, NEW c \in Call, call'[c] = call[c], CallIsSound(c)
  PROVE  CallIsSound(c)'
<1> PICK k \in CallType : k = call[c]
  BY DEF StateType
<1>1. k.target \in Nat  BY DEF CallType
<1>2. k.kind \in {"revise", "approve"} /\ k.tab # None => ShowsVersion(k.view)'
  BY ShownStays DEF CallIsSound
<1>3. k.target \in DOMAIN versions => k.target \in DOMAIN versions'
  BY RowsAreTyped DEF RowsGrow
<1>4. k.step = "answered" => (k.verified => versions'[k.target].verified)
  BY RowsAreTyped DEF RowsGrow, CallIsSound
<1>5. k.kind = "approve" => Ticked(k.target)'
  BY <1>1, TickedStays DEF CallIsSound
<1> QED
  BY <1>2, <1>3, <1>4, <1>5 DEF CallIsSound, Unanswered, Ticked, ShowsVersion

LEMMA KnownStays ==
  ASSUME StateType, RowsGrow, NEW c \in Call, call'[c] = call[c], CallIsSound(c), CallKnows(c),
         UNCHANGED overlapping, Latest' = Latest \/ overlapping \/ ~InTransaction(c)
  PROVE  CallKnows(c)'
<1> PICK k \in CallType : k = call[c]
  BY DEF StateType
<1>1. Latest \in Nat /\ DOMAIN versions = 1..Latest /\ k.number \in Nat /\ k.target \in Nat
  BY RowsAreTyped DEF CallType
<1>2. k.kind = "revise" => versions'[k.target].choice = versions[k.target].choice
                           /\ versions'[k.target].from = versions[k.target].from
  BY <1>1 DEF RowsGrow, CallIsSound
<1>3. Latest <= Latest' /\ Latest' \in Nat  BY DEF RowsGrow
<1>4. k.number \in 1..(Latest + 1) => k.number \in 1..(Latest' + 1)
  BY <1>1, <1>3
<1> QED  BY <1>2, <1>4 DEF CallKnows, InTransaction

-------------------------------------------------------------------------------
(* What is left to show of a step.                                             *)

RowsAreSound ==
  /\ versions \in Seq(RowType) /\ Latest <= MaxVersion
  /\ VersionsAreNumbered /\ OneSuggestion /\ ApprovalWasTicked

TabIsTicked(t) == NotYetTicked(t) \/ TickedForGood(t)

\* A workspace that does not change, and whose requests only come to name later
\* versions, is as sound as it was.
LEMMA TabStays ==
  ASSUME IInv, RowsGrow, NEW t \in Tab, tab'[t] = tab[t], call' \in [Call -> CallType],
         \A c \in Call :
           \/ call'[c] = call[c]
           \/ call[c].tab # t /\ call'[c].tab # t
           \/ /\ call'[c].tab = call[c].tab /\ call'[c].kind = call[c].kind
              /\ call'[c].view = call[c].view
              /\ call[c].kind # "create" => call'[c].target >= call[c].target
  PROVE  TabIsSound(t)' /\ TabIsTicked(t)'
<1> PICK w \in TabType : w = tab[t]
  BY DEF IInv, StateType
<1>1. Pending(t)' = Pending(t)
  BY DEF Pending
<1>2. ASSUME NEW c \in Pending(t)
      PROVE  /\ call'[c].kind = call[c].kind
             /\ call'[c].view = call[c].view
             /\ call[c].kind # "create" => call'[c].target >= call[c].target
             /\ call'[c].target \in Nat /\ call[c].target \in Nat /\ c \in Call
  <2>1. c \in Call /\ call[c].tab = t /\ call'[c] \in CallType /\ call[c] \in CallType
    BY DEF Pending, IInv, StateType
  <2>2. call'[c].target \in Nat /\ call[c].target \in Nat
    BY <2>1 DEF CallType
  <2> QED  BY <2>1, <2>2
<1>3. TabIsSound(t)'
  <2>1. w.status = "ready" => ShowsVersion(w) /\ \A c \in Pending(t) : call[c].kind # "create"
    BY DEF IInv, TabIsSound, Ready
  <2>2. w.status = "ready" => ShowsVersion(w)'
    BY <2>1, ShownStays DEF IInv
  <2>3. Ready(t)' => ShowsVersion(tab[t])' /\ \A c \in Pending(t)' : call'[c].kind # "create"
    BY <1>1, <1>2, <2>1, <2>2 DEF Ready, ShowsVersion
  <2> QED  BY <1>1, <1>2, <2>3 DEF IInv, TabIsSound, Ready
<1>4. CASE NotYetTicked(t)
  <2>1. \A c \in Pending(t) : call[c].kind = "revise" =>
          call'[c].target >= w.draft /\ call'[c].view.draft = w.draft
    BY <1>2, <1>4 DEF NotYetTicked, TabType
  <2> QED  BY <1>1, <1>2, <1>3, <1>4, <2>1 DEF NotYetTicked, TabIsTicked
<1>5. CASE TickedForGood(t)
  <2>1. w.status = "ready" /\ Ticked(w.draft)'
    BY <1>5, TickedStays DEF TickedForGood, Ready, TabType, IInv
  <2>2. ASSUME NEW c \in Pending(t)
        PROVE  Ticked(call[c].target)' /\ Ticked(call[c].view.draft)'
    <3> PICK n \in Nat, m \in Nat, v \in Nat :
          n = call[c].target /\ m = call'[c].target /\ v = call[c].view.draft
      <4>1. call[c].view \in TabType
        <5>1. c \in Call /\ call[c].tab # None /\ call[c] \in CallType
          BY DocumentBounds DEF Pending, IInv, StateType
        <5>2. call[c].kind # "create"
          BY <1>5 DEF TickedForGood, IInv, TabIsSound
        <5>3. CallIsSound(c)
          BY <5>1 DEF IInv
        <5>4. call[c].kind # "none"
          BY <5>1, <5>3 DEF CallIsSound
        <5>5. call[c].kind \in {"revise", "approve"}
          BY <5>1, <5>2, <5>4 DEF CallType
        <5> QED  BY <5>1, <5>3, <5>5 DEF CallIsSound
      <4> QED  BY <1>2, <4>1 DEF TabType
    <3>1. n <= m /\ call'[c].view.draft = v
      BY <1>2, <1>5 DEF TickedForGood, IInv, TabIsSound
    <3>2. Ticked(n) /\ Ticked(v)
      BY <1>5 DEF TickedForGood
    <3>3. Ticked(m) /\ Ticked(v)
      BY <3>1, <3>2, TickedAfter
    <3>4. Ticked(m)' /\ Ticked(v)'
      BY <3>3, TickedStays DEF IInv
    <3> QED  BY <3>1, <3>4 DEF Ticked
  <2>3. Ticked(tab[t].draft)' /\ Ready(t)'
    BY <2>1 DEF Ticked, Ready
  <2> QED  BY <1>1, <1>3, <2>2, <2>3 DEF TickedForGood, TabIsTicked
<1> QED  BY <1>3, <1>4, <1>5 DEF IInv, TabIsTicked

\* The service moves one request on. Only a request in its transaction appends
\* a row, and only one that was alone may have entered it.
LEMMA ServiceKeepsInv ==
  ASSUME IInv, NEW c \in Call, NEW k \in CallType, call' = [call EXCEPT ![c] = k],
         UNCHANGED <<plan, tab, overlapping>>, RowsGrow, RowsAreSound',
         Latest' = Latest \/ overlapping \/ InTransaction(c),
         CallIsSound(c)', CallKnows(c)',
         k.step \in {"read", "numbered"} =>
           overlapping \/ InTransaction(c) \/ \A d \in Call : ~InTransaction(d),
         k.tab = call[c].tab,
         k.tab # None =>
           /\ k.kind = call[c].kind /\ k.view = call[c].view
           /\ k.kind # "create" => k.target >= call[c].target
  PROVE  IInv'
<1>1. call' \in [Call -> CallType] /\ call'[c] = k /\ \A d \in Call \ {c} : call'[d] = call[d]
  BY DEF IInv, StateType
<1>2. StateType'
  BY <1>1 DEF IInv, StateType, RowsAreSound, Latest
<1>3. OneTransaction'
  BY <1>1 DEF IInv, OneTransaction, InTransaction
<1>4. ASSUME NEW d \in Call PROVE CallIsSound(d)' /\ CallKnows(d)'
  <2>1. CASE d = c  BY <2>1
  <2>2. CASE d # c
    <3>1. Latest' = Latest \/ overlapping \/ ~InTransaction(d)
      BY <2>2 DEF IInv, OneTransaction
    <3> QED  BY <1>1, <2>2, <3>1, SoundStays, KnownStays DEF IInv
  <2> QED  BY <2>1, <2>2
<1>5. ASSUME NEW t \in Tab PROVE TabIsSound(t)' /\ TabIsTicked(t)'
  <2>1. t # None /\ tab'[t] = tab[t]
    BY DocumentBounds
  <2>2. \A d \in Call :
           \/ call'[d] = call[d]
           \/ call[d].tab # t /\ call'[d].tab # t
           \/ /\ call'[d].tab = call[d].tab /\ call'[d].kind = call[d].kind
              /\ call'[d].view = call[d].view
              /\ call[d].kind # "create" => call'[d].target >= call[d].target
    BY <1>1, <2>1
  <2> QED  BY <1>1, <2>1, <2>2, TabStays
<1> QED
  BY <1>2, <1>3, <1>4, <1>5 DEF IInv, RowsAreSound, TabIsTicked

\* A workspace acts: it sends or receives a request of its own.
LEMMA PageKeepsInv ==
  ASSUME IInv, NEW t \in Tab, NEW w \in TabType, tab' = [tab EXCEPT ![t] = w],
         UNCHANGED <<plan, overlapping>>, RowsGrow, Latest' = Latest, RowsAreSound',
         call' \in [Call -> CallType],
         \A d \in Call :
           \/ call'[d] = call[d]
           \/ /\ call[d].tab \in {t, None} /\ call'[d].tab \in {t, None}
              /\ CallIsSound(d)'
              /\ call'[d].step \in {"read", "numbered"} =>
                   /\ InTransaction(d) /\ call'[d].kind = call[d].kind
                   /\ call'[d].step = call[d].step /\ call'[d].target = call[d].target
                   /\ call'[d].choice = call[d].choice /\ call'[d].number = call[d].number
                   /\ call'[d].from = call[d].from,
         TabIsSound(t)', TabIsTicked(t)'
  PROVE  IInv'
<1>1. tab' \in [Tab -> TabType] /\ \A u \in Tab \ {t} : tab'[u] = tab[u]
  BY DEF IInv, StateType
<1>2. StateType'
  BY <1>1 DEF IInv, StateType, RowsAreSound, Latest
<1>3. ASSUME NEW d \in Call, InTransaction(d)' PROVE InTransaction(d)
  BY <1>3 DEF InTransaction
<1>4. OneTransaction'
  BY <1>3 DEF IInv, OneTransaction
<1>5. ASSUME NEW d \in Call PROVE CallIsSound(d)' /\ CallKnows(d)'
  <2>1. CASE call'[d] = call[d]
    BY <2>1, SoundStays, KnownStays DEF IInv
  <2>2. CASE call'[d] # call[d]
    <3>1. CallIsSound(d)'  BY <2>2
    <3>2. CallKnows(d)'
      <4> SUFFICES ASSUME InTransaction(d)' PROVE CallKnows(d)'
        BY DEF CallKnows
      <4>1. /\ CallKnows(d) /\ InTransaction(d) /\ CallIsSound(d)
            /\ call'[d].kind = call[d].kind
            /\ call'[d].step = call[d].step /\ call'[d].target = call[d].target
            /\ call'[d].choice = call[d].choice /\ call'[d].number = call[d].number
            /\ call'[d].from = call[d].from
        BY <2>2 DEF IInv, InTransaction
      <4>2. call[d].kind = "revise" =>
              /\ versions'[call[d].target].choice = versions[call[d].target].choice
              /\ versions'[call[d].target].from = versions[call[d].target].from
        BY <4>1, RowsAreTyped DEF RowsGrow, CallIsSound, IInv
      <4> QED  BY <4>1, <4>2 DEF CallKnows
    <3> QED  BY <3>1, <3>2
  <2> QED  BY <2>1, <2>2
<1>6. ASSUME NEW u \in Tab PROVE TabIsSound(u)' /\ TabIsTicked(u)'
  <2>1. CASE u = t  BY <2>1
  <2>2. CASE u # t
    <3>1. \A d \in Call : call'[d] = call[d] \/ (call[d].tab # u /\ call'[d].tab # u)
      BY <2>2, DocumentBounds
    <3> QED  BY <1>1, <2>2, <3>1, TabStays
  <2> QED  BY <2>1, <2>2
<1> QED
  BY <1>2, <1>4, <1>5, <1>6 DEF IInv, RowsAreSound, TabIsTicked

LEMMA RowsAreKept ==
  ASSUME IInv, UNCHANGED <<versions, overlapping>>
  PROVE  RowsGrow /\ Latest' = Latest /\ RowsAreSound'
<1>1. RowsGrow /\ Latest' = Latest
  BY RowsStay DEF IInv
<1> QED
  BY <1>1 DEF IInv, StateType, RowsAreSound, VersionsAreNumbered, OneSuggestion, ApprovalWasTicked,
              Latest

\* A request ends: with a version at least as late as the one it named, or with
\* a refusal.
LEMMA EndKeepsInv ==
  ASSUME IInv, NEW c \in Call, NEW step \in {"answered", "refused"}, NEW id \in Nat,
         NEW verified \in BOOLEAN, Ends(c, step, id, verified), call[c].kind # "none",
         UNCHANGED <<plan, tab, overlapping>>, RowsGrow, RowsAreSound',
         Latest' = Latest \/ overlapping \/ InTransaction(c),
         step = "answered" => id \in DOMAIN versions' /\ (verified => versions'[id].verified),
         call[c].kind # "create" => id >= call[c].target /\ id \in DOMAIN versions'
  PROVE  IInv'
<1>1. call[c] \in CallType /\ CallIsSound(c) /\ call[c].target \in Nat /\ StateType
  BY DEF IInv, StateType, CallType
<1>2. CASE call[c].tab = None
  <2>1. NoCall \in CallType
    BY DEF NoCall, CallType
  <2>2. call' = [call EXCEPT ![c] = NoCall] /\ call'[c] = NoCall
    BY <1>2 DEF Ends, IInv, StateType
  <2>3. CallIsSound(c)' /\ CallKnows(c)'
    BY <2>2 DEF CallIsSound, CallKnows, NoCall, InTransaction, Unanswered
  <2> QED  BY <1>2, <2>1, <2>2, <2>3, ServiceKeepsInv DEF NoCall
<1>3. CASE call[c].tab # None
  <2>1. PICK k : k = [call[c] EXCEPT !.step = step, !.target = id, !.verified = verified,
                                     !.choice = None, !.number = 0, !.from = 0]
    OBVIOUS
  <2>2. /\ k \in CallType
        /\ k.step = step /\ k.target = id /\ k.verified = verified
        /\ k.kind = call[c].kind /\ k.tab = call[c].tab /\ k.view = call[c].view
    BY <1>1, <2>1 DEF CallType
  <2>3. call' = [call EXCEPT ![c] = k] /\ call'[c] = k
    BY <1>3, <2>1 DEF Ends, IInv, StateType
  <2>4. k.kind \in {"revise", "approve"} => ShowsVersion(k.view)' /\ k.view \in TabType
    BY <1>1, <1>3, <2>2, ShownStays DEF CallIsSound
  <2>5. k.kind = "approve" => Ticked(id)'
    BY <1>1, <2>2, TickedAfter, TickedStays DEF CallIsSound
  <2>6. CallIsSound(c)'
    BY <1>1, <1>3, <2>2, <2>3, <2>4, <2>5
       DEF CallIsSound, Unanswered, Ticked, ShowsVersion
  <2>7. CallKnows(c)'
    BY <2>2, <2>3 DEF CallKnows, InTransaction
  <2> QED  BY <2>2, <2>3, <2>6, <2>7, ServiceKeepsInv
<1> QED  BY <1>2, <1>3

\* The same when no row changes: the version named is one that is there.
LEMMA AnswerKeepsInv ==
  ASSUME IInv, NEW c \in Call, NEW id \in DOMAIN versions, Answers(c, id),
         call[c].kind # "none", call[c].kind # "create" => id >= call[c].target,
         UNCHANGED <<plan, versions, tab, overlapping>>
  PROVE  IInv'
<1>1. /\ RowsGrow /\ Latest' = Latest /\ RowsAreSound' /\ id \in Nat
      /\ id \in 1..Latest /\ versions[id] \in RowType
  BY RowsAreKept, RowsAreTyped DEF IInv
<1> PICK verified \in BOOLEAN : verified = versions[id].verified
  BY <1>1 DEF RowType
<1>2. Ends(c, "answered", id, verified)
  BY DEF Answers
<1> QED  BY <1>1, <1>2, EndKeepsInv

LEMMA RefusalKeepsInv ==
  ASSUME IInv, NEW c \in Call, Refuses(c), call[c].kind # "none",
         UNCHANGED <<plan, versions, tab, overlapping>>
  PROVE  IInv'
<1>1. RowsGrow /\ Latest' = Latest /\ RowsAreSound'
  BY RowsAreKept
<1> PICK id \in Nat : id = call[c].target
  BY DEF IInv, StateType, CallType
<1>2. Ends(c, "refused", id, FALSE)
  BY DEF Refuses
<1>3. call[c].kind # "create" => id \in DOMAIN versions'
  BY DEF IInv, CallIsSound, StateType, CallType
<1>4. id >= call[c].target
  OBVIOUS
<1> QED  BY <1>1, <1>2, <1>3, <1>4, EndKeepsInv

\* A request enters its transaction or reads on in it, and has read what is so.
LEMMA ReadingKeepsInv ==
  ASSUME IInv, NEW c \in Call, NEW k \in CallType, call' = [call EXCEPT ![c] = k],
         UNCHANGED <<plan, versions, tab, overlapping>>,
         call[c].kind # "none", call[c].step \in {"sent", "read"},
         k.step \in {"read", "numbered"}, k.step = "numbered" => k.kind # "approve",
         MayBegin(c) \/ InTransaction(c),
         k.kind = call[c].kind, k.tab = call[c].tab, k.view = call[c].view,
         k.target = call[c].target, k.choice = call[c].choice, CallKnows(c)'
  PROVE  IInv'
<1>1. RowsGrow /\ Latest' = Latest /\ RowsAreSound'
  BY RowsAreKept
<1>2. call'[c] = k /\ call[c].target \in Nat
  BY DEF IInv, StateType, CallType
<1>3. CallIsSound(c)'
  BY <1>2 DEF IInv, CallIsSound, Unanswered, Ticked, ShowsVersion
<1>4. k.target >= call[c].target
  BY <1>2
<1> QED  BY <1>1, <1>2, <1>3, <1>4, ServiceKeepsInv DEF MayBegin

-------------------------------------------------------------------------------
(* The requests.                                                               *)

LEMMA CreateKeepsInv ==
  ASSUME IInv, NEW c \in Call, CreateReads(c) PROVE IInv'
<1>1. /\ call[c] \in CallType /\ call[c].kind = "create" /\ MayBegin(c) /\ call[c].step = "sent"
      /\ UNCHANGED <<plan, versions, tab, overlapping>>
  BY DEF CreateReads, MayBegin, IInv, StateType
<1>2. Latest \in Nat /\ DOMAIN versions = 1..Latest
  BY RowsAreTyped DEF IInv
<1>3. CASE Latest > 0 /\ Answers(c, Latest)
  <2> PICK id \in DOMAIN versions : id = Latest
    BY <1>2, <1>3
  <2> QED  BY <1>1, <1>3, AnswerKeepsInv
<1>4. CASE Latest = 0 /\ call' = [call EXCEPT ![c].step = "read", ![c].from = plan]
  <2>1. PICK k : k = [call[c] EXCEPT !.step = "read", !.from = plan]
    OBVIOUS
  <2>2. plan \in Nat /\ plan \in 1..MaxPlan
    BY DocumentBounds DEF IInv, StateType
  <2>3. /\ k \in CallType /\ k.step = "read" /\ k.from = plan
        /\ k.kind = call[c].kind /\ k.tab = call[c].tab /\ k.view = call[c].view
        /\ k.target = call[c].target /\ k.choice = call[c].choice
    BY <1>1, <2>1, <2>2 DEF CallType
  <2>4. call' = [call EXCEPT ![c] = k] /\ call'[c] = k
    BY <1>4, <2>1 DEF IInv, StateType
  <2>5. CallKnows(c)'
    BY <1>1, <1>4, <2>2, <2>3, <2>4 DEF CallKnows, Latest
  <2> QED  BY <1>1, <2>3, <2>4, <2>5, ReadingKeepsInv
<1> QED  BY <1>3, <1>4 DEF CreateReads

LEMMA ReviseKeepsInv ==
  ASSUME IInv, NEW c \in Call, ReviseReads(c) PROVE IInv'
<1> DEFINE current == versions[call[c].target]
<1>1. /\ call[c] \in CallType /\ call[c].kind = "revise" /\ MayBegin(c) /\ call[c].step = "sent"
      /\ UNCHANGED <<plan, versions, tab, overlapping>>
      /\ CallIsSound(c)
  BY DEF ReviseReads, MayBegin, IInv, StateType
<1>2. Latest \in Nat /\ DOMAIN versions = 1..Latest /\ call[c].target \in 1..Latest
      /\ current \in RowType
  BY <1>1, RowsAreTyped DEF IInv, CallIsSound
<1>3. CASE Refuses(c)
  BY <1>1, <1>3, RefusalKeepsInv
<1>4. CASE call[c].target = Latest /\ Answers(c, Latest)
  <2> PICK id \in DOMAIN versions : id = Latest
    BY <1>2, <1>4
  <2> QED  BY <1>1, <1>2, <1>4, AnswerKeepsInv
<1>5. CASE /\ call[c].target = Latest /\ current.choice # call[c].choice
           /\ call' = [call EXCEPT ![c].step = "read", ![c].from = current.from]
  <2>1. PICK k : k = [call[c] EXCEPT !.step = "read", !.from = current.from]
    OBVIOUS
  <2>2. current.from \in Nat /\ current.from \in 1..MaxPlan
    BY <1>2, DocumentBounds DEF RowType
  <2>3. /\ k \in CallType /\ k.step = "read" /\ k.from = current.from
        /\ k.kind = call[c].kind /\ k.tab = call[c].tab /\ k.view = call[c].view
        /\ k.target = call[c].target /\ k.choice = call[c].choice
    BY <1>1, <2>1, <2>2 DEF CallType
  <2>4. call' = [call EXCEPT ![c] = k] /\ call'[c] = k
    BY <1>5, <2>1 DEF IInv, StateType
  <2>5. CallKnows(c)'
    BY <1>1, <1>5, <2>2, <2>3, <2>4 DEF CallKnows, Latest
  <2> QED  BY <1>1, <2>3, <2>4, <2>5, ReadingKeepsInv
<1> QED  BY <1>3, <1>4, <1>5 DEF ReviseReads

LEMMA ApproveKeepsInv ==
  ASSUME IInv, NEW c \in Call, ApproveReads(c) PROVE IInv'
<1>1. /\ call[c] \in CallType /\ call[c].kind = "approve" /\ MayBegin(c) /\ call[c].step = "sent"
      /\ UNCHANGED <<plan, versions, tab, overlapping>>
      /\ CallIsSound(c)
  BY DEF ApproveReads, MayBegin, IInv, StateType
<1>2. Latest \in Nat /\ DOMAIN versions = 1..Latest /\ call[c].target \in 1..Latest
  BY <1>1, RowsAreTyped DEF IInv, CallIsSound
<1>3. CASE Refuses(c)
  BY <1>1, <1>3, RefusalKeepsInv
<1>4. CASE call[c].target = Latest /\ Answers(c, Latest)
  <2> PICK id \in DOMAIN versions : id = Latest
    BY <1>2, <1>4
  <2> QED  BY <1>1, <1>2, <1>4, AnswerKeepsInv
<1>5. CASE call[c].target = Latest /\ call' = [call EXCEPT ![c].step = "read"]
  <2>1. PICK k : k = [call[c] EXCEPT !.step = "read"]
    OBVIOUS
  <2>3. /\ k \in CallType /\ k.step = "read"
        /\ k.kind = call[c].kind /\ k.tab = call[c].tab /\ k.view = call[c].view
        /\ k.target = call[c].target /\ k.choice = call[c].choice
    BY <1>1, <2>1 DEF CallType
  <2>4. call' = [call EXCEPT ![c] = k] /\ call'[c] = k
    BY <1>5, <2>1 DEF IInv, StateType
  <2>5. CallKnows(c)'
    BY <1>1, <1>5, <2>3, <2>4 DEF CallKnows, Latest
  <2> QED  BY <1>1, <2>3, <2>4, <2>5, ReadingKeepsInv
<1> QED  BY <1>3, <1>4, <1>5 DEF ApproveReads

LEMMA NumberingKeepsInv ==
  ASSUME IInv, NEW c \in Call, NumbersVersion(c) PROVE IInv'
<1>1. /\ call[c] \in CallType /\ call[c].kind \in {"create", "revise"} /\ call[c].step = "read"
      /\ UNCHANGED <<plan, versions, tab, overlapping>>
      /\ CallKnows(c) /\ InTransaction(c)
  BY DEF NumbersVersion, IInv, StateType, InTransaction
<1>2. NextNumber = Latest + 1 /\ Latest \in Nat
  BY NumbersFollow, RowsAreTyped DEF IInv
<1> PICK next \in Nat : next = Latest + 1
  BY <1>2
<1>3. PICK k : k = [call[c] EXCEPT !.step = "numbered", !.number = next]
  OBVIOUS
<1>4. /\ k \in CallType /\ k.step = "numbered" /\ k.number = next /\ k.from = call[c].from
      /\ k.kind = call[c].kind /\ k.tab = call[c].tab /\ k.view = call[c].view
      /\ k.target = call[c].target /\ k.choice = call[c].choice
  BY <1>1, <1>3 DEF CallType
<1>5. call' = [call EXCEPT ![c] = k] /\ call'[c] = k
  BY <1>2, <1>3 DEF IInv, StateType, NumbersVersion
<1>6. CallKnows(c)'
  BY <1>1, <1>2, <1>4, <1>5 DEF CallKnows, Latest
<1> QED  BY <1>1, <1>4, <1>5, <1>6, ReadingKeepsInv

\* The row a request inserts has the next number, and no mark.
LEMMA InsertedRow ==
  ASSUME IInv, NEW c \in Call, InsertsVersion(c), ~NumberTaken(call[c].number)
  PROVE  /\ call[c].kind \in {"create", "revise"} /\ InTransaction(c)
         /\ call[c].number = Latest + 1 /\ Latest + 1 <= MaxVersion
         /\ call[c].choice \in Content
         /\ Row(Latest + 1, call[c].from, call[c].choice) \in RowType
         /\ versions' = Append(versions, Row(Latest + 1, call[c].from, call[c].choice))
         /\ Answers(c, Latest + 1)
         /\ call[c].kind = "revise" => call[c].target \in 1..Latest
         /\ UNCHANGED <<plan, tab, overlapping>>
<1>1. /\ call[c] \in CallType /\ call[c].step = "numbered" /\ InTransaction(c)
      /\ CallIsSound(c) /\ CallKnows(c)
  BY DEF InsertsVersion, IInv, StateType, InTransaction
<1>2. call[c].kind \in {"create", "revise"}
  BY <1>1 DEF CallType, CallIsSound
<1>3. call[c].choice \in Content /\ call[c].from \in 1..MaxPlan
  BY <1>1, <1>2, DocumentBounds DEF CallIsSound, CallKnows, Unanswered, Content
<1>4. Latest \in Nat /\ DOMAIN versions = 1..Latest /\ call[c].number = Latest + 1
  BY <1>1, NumbersFollow, RowsAreTyped DEF IInv, CallKnows
<1>5. Row(Latest + 1, call[c].from, call[c].choice) \in RowType
  BY <1>3, <1>4 DEF Row, RowType
<1>6. Latest < MaxVersion /\ MaxVersion \in Nat
  BY DocumentBounds DEF InsertsVersion
<1> QED
  BY <1>1, <1>2, <1>3, <1>4, <1>5, <1>6 DEF InsertsVersion, CallIsSound

LEMMA InsertKeepsInv ==
  ASSUME IInv, NEW c \in Call, InsertsVersion(c) PROVE IInv'
<1>1. CASE NumberTaken(call[c].number)
  <2>1. call[c].kind # "none"
    BY DEF InsertsVersion, IInv, CallIsSound
  <2> QED  BY <1>1, <2>1, RefusalKeepsInv DEF InsertsVersion
<1>2. CASE ~NumberTaken(call[c].number)
  <2> DEFINE k == call[c]
  <2>1. PICK row \in RowType : row = Row(Latest + 1, k.from, k.choice)
    BY <1>2, InsertedRow
  <2>2. /\ k.kind \in {"create", "revise"} /\ InTransaction(c)
        /\ Latest + 1 <= MaxVersion /\ versions' = Append(versions, row)
        /\ Answers(c, Latest + 1) /\ UNCHANGED <<plan, tab, overlapping>>
        /\ k.kind = "revise" => k.target \in 1..Latest
    BY <1>2, <2>1, InsertedRow
  <2>3. /\ row.number = Latest + 1 /\ row.from = k.from
        /\ row.verified = FALSE
    BY <2>1 DEF Row
  <2>4. /\ RowsGrow /\ Latest' = Latest + 1 /\ versions' \in Seq(RowType)
        /\ versions'[Latest + 1] = row /\ \A i \in 1..Latest : versions'[i] = versions[i]
        /\ Latest \in Nat /\ DOMAIN versions = 1..Latest /\ DOMAIN versions' = 1..(Latest + 1)
    BY <2>2, RowIsAppended, RowsAreTyped DEF IInv, RowsGrow
  <2>5. VersionsAreNumbered'
    BY <2>3, <2>4 DEF IInv, VersionsAreNumbered
  <2>6. OneSuggestion'
    <3> SUFFICES ASSUME ~overlapping, NEW i \in 1..(Latest + 1)
                 PROVE  versions'[i].from = versions'[1].from
      BY <2>2, <2>4 DEF OneSuggestion
    <3>1. CallKnows(c)  BY DEF IInv
    <3>2. CASE k.kind = "create"
      BY <2>2, <2>4, <3>1, <3>2 DEF CallKnows
    <3>3. CASE k.kind = "revise"
      <4>1. k.target = Latest /\ k.from = versions[Latest].from /\ Latest \in 1..Latest
        BY <2>2, <2>4, <3>1, <3>3 DEF CallKnows
      <4>2. \A j \in 1..Latest : versions[j].from = versions[1].from
        BY <2>4 DEF IInv, OneSuggestion
      <4> QED  BY <2>3, <2>4, <4>1, <4>2
    <3> QED  BY <2>2, <3>2, <3>3
  <2>7. ApprovalWasTicked'
    BY <2>3, <2>4 DEF IInv, ApprovalWasTicked
  <2>8. RowsAreSound'
    BY <2>2, <2>4, <2>5, <2>6, <2>7 DEF RowsAreSound
  <2> PICK id \in Nat : id = Latest + 1
    BY <2>4
  <2>9. Ends(c, "answered", id, FALSE)
    BY <2>2, <2>3, <2>4 DEF Answers
  <2>10. id \in DOMAIN versions' /\ (k.kind # "create" => id >= k.target)
    BY <2>2, <2>4
  <2> QED  BY <2>2, <2>4, <2>8, <2>9, <2>10, EndKeepsInv
<1> QED  BY <1>1, <1>2

LEMMA ApprovalKeepsInv ==
  ASSUME IInv, NEW c \in Call, ApproveWrites(c) PROVE IInv'
<1>1. /\ call[c] \in CallType /\ call[c].kind = "approve" /\ InTransaction(c)
      /\ CallIsSound(c) /\ VerifyRow(call[c].target) /\ Answers(c, call[c].target)
      /\ UNCHANGED <<plan, tab, overlapping>>
  BY DEF ApproveWrites, IInv, StateType, InTransaction
<1>2. Latest \in Nat /\ DOMAIN versions = 1..Latest
      /\ \A i \in 1..Latest : versions[i] \in RowType
  BY RowsAreTyped DEF IInv
<1>3. PICK id \in Nat : id = call[c].target
  BY <1>1 DEF CallType
<1>4. id \in 1..Latest /\ Ticked(id)
  BY <1>1, <1>2, <1>3 DEF CallIsSound, Ticked
<1>5. PICK row : row = [versions[id] EXCEPT !.verified = TRUE]
  OBVIOUS
<1>6. /\ row \in RowType /\ row.verified = TRUE /\ row.number = versions[id].number
      /\ row.from = versions[id].from /\ row.choice = versions[id].choice
      /\ row.reviewed = versions[id].reviewed
  BY <1>2, <1>4, <1>5 DEF RowType
<1>7. versions' = [versions EXCEPT ![id] = row]
  BY <1>1, <1>3, <1>5 DEF VerifyRow
<1>8. /\ RowsGrow /\ Latest' = Latest /\ versions' \in Seq(RowType)
      /\ versions'[id] = row /\ \A i \in 1..Latest : i # id => versions'[i] = versions[i]
  BY <1>2, <1>4, <1>6, <1>7, RowIsMarked DEF IInv
<1>9. DOMAIN versions' = 1..Latest
  BY <1>8 DEF RowsGrow
<1>10. VersionsAreNumbered' /\ OneSuggestion'
  BY <1>1, <1>2, <1>4, <1>6, <1>8, <1>9 DEF IInv, VersionsAreNumbered, OneSuggestion
<1>11. ApprovalWasTicked'
  <2> SUFFICES ASSUME NEW i \in 1..Latest, versions'[i].verified
               PROVE  \E j \in 1..i : versions'[j].reviewed
    BY <1>9 DEF ApprovalWasTicked
  <2>1. \E j \in 1..i : versions[j].reviewed
    <3>1. CASE i = id  BY <1>4, <3>1 DEF Ticked
    <3>2. CASE i # id
      BY <1>2, <1>8, <3>2 DEF IInv, ApprovalWasTicked
    <3> QED  BY <3>1, <3>2
  <2> QED  BY <1>2, <1>6, <1>8, <2>1
<1>12. RowsAreSound'
  BY <1>8, <1>10, <1>11 DEF RowsAreSound, IInv, StateType, Latest
<1>13. Ends(c, "answered", id, TRUE)
  BY <1>1, <1>3, <1>6, <1>8 DEF Answers
<1>14. id \in DOMAIN versions' /\ versions'[id].verified /\ id >= call[c].target
  BY <1>3, <1>4, <1>6, <1>8, <1>9
<1> QED  BY <1>1, <1>8, <1>12, <1>13, <1>14, EndKeepsInv

-------------------------------------------------------------------------------
(* The workspaces.                                                             *)

\* A request that was sent is one more that its workspace waits for.
Sent(c, t, kind, target, choice) ==
  /\ call[c] = NoCall /\ call' \in [Call -> CallType]
  /\ \A d \in Call \ {c} : call'[d] = call[d]
  /\ call'[c].kind = kind /\ call'[c].step = "sent" /\ call'[c].tab = t
  /\ call'[c].target = target /\ call'[c].choice = choice
  /\ kind # "create" => call'[c].view = [tab[t] EXCEPT !.ticked = 0]
  /\ c \notin Pending(t) /\ Pending(t)' = Pending(t) \union {c}

LEMMA SentRequest ==
  ASSUME IInv, NEW t \in Tab, NEW kind \in {"create", "revise", "approve"},
         NEW target \in Nat, NEW choice \in Content \union {None}, Sends(t, kind, target, choice)
  PROVE  \E c \in Call : Sent(c, t, kind, target, choice)
<1>1. PICK c \in Call :
        /\ call[c] = NoCall
        /\ call' = [call EXCEPT ![c] = [NoCall EXCEPT !.kind = kind, !.step = "sent",
             !.tab = t, !.target = target, !.choice = choice,
             !.view = IF kind = "create" THEN None ELSE [tab[t] EXCEPT !.ticked = 0]]]
  BY DEF Sends
<1>2. PICK view : view = IF kind = "create" THEN None ELSE [tab[t] EXCEPT !.ticked = 0]
  OBVIOUS
<1>3. PICK k : k = [NoCall EXCEPT !.kind = kind, !.step = "sent", !.tab = t, !.target = target,
                                  !.choice = choice, !.view = view]
  OBVIOUS
<1>4. tab[t] \in TabType  BY DEF IInv, StateType
<1>5. view \in TabType \union {None}
  BY <1>2, <1>4 DEF TabType
<1>6. /\ k \in CallType /\ k.kind = kind /\ k.step = "sent" /\ k.tab = t /\ k.target = target
      /\ k.choice = choice /\ k.view = view
  BY <1>3, <1>5 DEF NoCall, CallType
<1>7. call' = [call EXCEPT ![c] = k]
  BY <1>1, <1>2, <1>3
<1>8. /\ call' \in [Call -> CallType] /\ call'[c] = k
      /\ \A d \in Call \ {c} : call'[d] = call[d]
  BY <1>6, <1>7 DEF IInv, StateType
<1>9. c \notin Pending(t) /\ Pending(t)' = Pending(t) \union {c}
  BY <1>1, <1>6, <1>8, DocumentBounds DEF Pending, NoCall
<1> QED  BY <1>1, <1>2, <1>6, <1>8, <1>9 DEF Sent

LEMMA OpeningKeepsInv ==
  ASSUME IInv, NEW t \in Tab, OpensWorkspace(t) PROVE IInv'
<1>0. First \in Content \union {None} /\ 0 \in Nat /\ Sends(t, "create", 0, First)
  BY DocumentBounds DEF Content, OpensWorkspace
<1>1. PICK c \in Call : Sent(c, t, "create", 0, First)
  BY <1>0, SentRequest
<1>2. PICK w : w = [Closed EXCEPT !.status = "loading"]
  OBVIOUS
<1>3. /\ w \in TabType /\ w.status = "loading" /\ w.draft = 0 /\ w.ticked = 0
  BY <1>2 DEF Closed, TabType
<1>4. /\ tab' = [tab EXCEPT ![t] = w] /\ tab'[t] = w
      /\ UNCHANGED <<plan, versions, overlapping>>
  BY <1>2 DEF OpensWorkspace, IInv, StateType
<1>5. Pending(t)' = {c}
  BY <1>1 DEF Sent, OpensWorkspace, IInv, TabIsSound
<1>6. TabIsSound(t)' /\ TabIsTicked(t)'
  BY <1>1, <1>3, <1>4, <1>5 DEF Sent, TabIsSound, TabIsTicked, NotYetTicked, Ready
<1>7. CallIsSound(c)'
  BY <1>1 DEF Sent, CallIsSound
<1>8. RowsGrow /\ Latest' = Latest /\ RowsAreSound'
  BY <1>4, RowsAreKept
<1>9. \A d \in Call :
           \/ call'[d] = call[d]
           \/ /\ call[d].tab \in {t, None} /\ call'[d].tab \in {t, None}
              /\ CallIsSound(d)'
              /\ call'[d].step \notin {"read", "numbered"}
  BY <1>1, <1>7 DEF Sent, NoCall
<1>10. call' \in [Call -> CallType]
  BY <1>1 DEF Sent
<1> QED  BY <1>10, <1>3, <1>4, <1>6, <1>8, <1>9, PageKeepsInv

LEMMA ChoosingKeepsInv ==
  ASSUME IInv, NEW t \in Tab, NEW choice \in Choice, Chooses(t, choice) PROVE IInv'
<1>1. tab[t] \in TabType /\ tab[t].status = "ready" /\ ShowsVersion(tab[t])
      /\ UNCHANGED <<plan, versions, call, overlapping>>
  BY DEF Chooses, Ready, IInv, StateType, TabIsSound
<1>2. PICK w : w = [tab[t] EXCEPT !.choice = choice, !.ticked = 0]
  OBVIOUS
<1>3. /\ w \in TabType /\ w.status = "ready" /\ w.draft = tab[t].draft /\ w.ticked = 0
      /\ w.choice = choice /\ w.verified = tab[t].verified /\ w.saving = tab[t].saving
  BY <1>1, <1>2 DEF TabType, Content
<1>4. tab' = [tab EXCEPT ![t] = w] /\ tab'[t] = w
  BY <1>2 DEF Chooses, IInv, StateType
<1>5. TabIsSound(t)'
  <2>1. ShowsVersion(tab[t])'
    BY <1>1, <1>3, <1>4 DEF ShowsVersion, Content
  <2> QED  BY <1>1, <1>3, <1>4, <2>1 DEF IInv, TabIsSound, Ready, Pending
<1>6. TabIsTicked(t)'
  <2>1. CASE NotYetTicked(t)
    BY <1>1, <1>3, <1>4, <2>1 DEF TabIsTicked, NotYetTicked, Pending
  <2>2. CASE TickedForGood(t)
    BY <1>1, <1>3, <1>4, <2>2 DEF TabIsTicked, TickedForGood, Pending, Ready, Ticked
  <2> QED  BY <2>1, <2>2 DEF IInv
<1>7. RowsGrow /\ Latest' = Latest /\ RowsAreSound'
  BY <1>1, RowsAreKept
<1>8. call' \in [Call -> CallType]
  BY <1>1 DEF IInv, StateType
<1> QED  BY <1>1, <1>3, <1>4, <1>5, <1>6, <1>7, <1>8, PageKeepsInv

\* What a request that was sent from a version on display carries.
LEMMA SentFromDisplay ==
  ASSUME IInv, NEW t \in Tab, Ready(t), NEW kind \in {"revise", "approve"},
         NEW c \in Call, NEW choice, Sent(c, t, kind, tab[t].draft, choice),
         kind = "revise" => choice \in Content, kind = "approve" => Ticked(tab[t].draft),
         UNCHANGED versions
  PROVE  /\ CallIsSound(c)'
         /\ call'[c].view.draft = tab[t].draft /\ call'[c].target = tab[t].draft
         /\ \A d \in Call :
              \/ call'[d] = call[d]
              \/ /\ call[d].tab \in {t, None} /\ call'[d].tab \in {t, None}
                 /\ CallIsSound(d)'
                 /\ call'[d].step \notin {"read", "numbered"}
<1>1. tab[t] \in TabType /\ tab[t].status = "ready" /\ ShowsVersion(tab[t])
  BY DEF Ready, IInv, StateType, TabIsSound
<1>2. PICK w : w = [tab[t] EXCEPT !.ticked = 0]
  OBVIOUS
<1>3. /\ w \in TabType /\ w.status = "ready" /\ w.draft = tab[t].draft
      /\ w.choice = tab[t].choice /\ w.verified = tab[t].verified
  BY <1>1, <1>2 DEF TabType
<1>4. call'[c].view = w /\ call'[c].kind = kind /\ call'[c].step = "sent"
      /\ call'[c].target = tab[t].draft /\ call'[c].choice = choice
  BY <1>2 DEF Sent
<1>5. CallIsSound(c)'
  BY <1>1, <1>3, <1>4 DEF CallIsSound, ShowsVersion, Ticked, Unanswered
<1> QED  BY <1>3, <1>4, <1>5 DEF Sent, NoCall

LEMMA SavingKeepsInv ==
  ASSUME IInv, NEW t \in Tab, SavesRevision(t) PROVE IInv'
<1>1. tab[t] \in TabType /\ tab[t].status = "ready" /\ ShowsVersion(tab[t]) /\ Ready(t)
      /\ tab[t].draft \in Nat /\ tab[t].choice \in Content /\ ~tab[t].saving
      /\ UNCHANGED <<plan, versions, overlapping>>
      /\ Sends(t, "revise", tab[t].draft, tab[t].choice)
  BY DEF SavesRevision, Ready, IInv, StateType, TabIsSound, ShowsVersion, TabType
<1>2. PICK draft \in Nat, choice \in Content \union {None} :
        draft = tab[t].draft /\ choice = tab[t].choice
  BY <1>1
<1>3. PICK c \in Call : Sent(c, t, "revise", draft, choice)
  BY <1>1, <1>2, SentRequest
<1>4. /\ CallIsSound(c)'
      /\ call'[c].view.draft = draft /\ call'[c].target = draft
      /\ \A d \in Call :
           \/ call'[d] = call[d]
           \/ /\ call[d].tab \in {t, None} /\ call'[d].tab \in {t, None}
              /\ CallIsSound(d)'
              /\ call'[d].step \notin {"read", "numbered"}
  BY <1>1, <1>2, <1>3, SentFromDisplay
<1>5. PICK w : w = [tab[t] EXCEPT !.saving = TRUE]
  OBVIOUS
<1>6. /\ w \in TabType /\ w.status = "ready" /\ w.draft = tab[t].draft
      /\ w.choice = tab[t].choice /\ w.verified = tab[t].verified
      /\ w.saving = TRUE /\ w.ticked = tab[t].ticked
  BY <1>1, <1>5 DEF TabType
<1>7. tab' = [tab EXCEPT ![t] = w] /\ tab'[t] = w
  BY <1>5 DEF SavesRevision, IInv, StateType
<1>8. /\ Pending(t)' = Pending(t) \union {c} /\ \A d \in Pending(t) : call'[d] = call[d]
      /\ call'[c].kind = "revise" /\ call' \in [Call -> CallType]
  BY <1>3 DEF Sent, Pending
<1>9. TabIsSound(t)'
  <2>1. ShowsVersion(tab[t])'
    BY <1>1, <1>6, <1>7 DEF ShowsVersion
  <2>2. \A d \in Pending(t) : call[d].kind # "create"
    BY <1>1 DEF IInv, TabIsSound
  <2> QED  BY <1>6, <1>7, <1>8, <2>1, <2>2 DEF TabIsSound, Ready
<1>10. TabIsTicked(t)'
  <2>1. CASE NotYetTicked(t)
    <3>1. Pending(t) = {}
      BY <1>1, <2>1 DEF NotYetTicked, IInv, TabIsSound
    <3>2. Pending(t)' = {c}
      BY <1>8, <3>1
    <3> QED  BY <1>2, <1>4, <1>6, <1>7, <1>8, <2>1, <3>2 DEF TabIsTicked, NotYetTicked
  <2>2. CASE TickedForGood(t)
    <3>1. Ticked(draft)
      BY <1>2, <2>2 DEF TickedForGood
    <3>2. \A d \in Pending(t) : Ticked(call[d].target) /\ Ticked(call[d].view.draft)
      BY <2>2 DEF TickedForGood
    <3>3. \A d \in Pending(t)' : Ticked(call[d].target)' /\ Ticked(call[d].view.draft)'
      BY <1>1, <1>4, <1>8, <3>1, <3>2 DEF Ticked
    <3>4. Ready(t)' /\ Ticked(tab[t].draft)'
      BY <1>1, <1>2, <1>6, <1>7, <3>1 DEF Ticked, Ready
    <3> QED  BY <3>3, <3>4 DEF TabIsTicked, TickedForGood
  <2> QED  BY <2>1, <2>2 DEF IInv
<1>11. RowsGrow /\ Latest' = Latest /\ RowsAreSound'
  BY <1>1, RowsAreKept
<1> QED  BY <1>1, <1>4, <1>6, <1>7, <1>8, <1>9, <1>10, <1>11, PageKeepsInv

LEMMA ApprovingKeepsInv ==
  ASSUME IInv, NEW t \in Tab, ApprovesVersion(t) PROVE IInv'
<1>1. tab[t] \in TabType /\ tab[t].status = "ready" /\ ShowsVersion(tab[t]) /\ Ready(t)
      /\ tab[t].draft \in Nat /\ tab[t].ticked # 0
      /\ UNCHANGED <<plan, versions, overlapping>>
      /\ Sends(t, "approve", tab[t].draft, None)
  BY DEF ApprovesVersion, Ready, IInv, StateType, TabIsSound, TabType
<1>2. PICK draft \in Nat : draft = tab[t].draft
  BY <1>1
<1>0. TickedForGood(t)
  BY <1>1 DEF IInv, NotYetTicked
<1>3. PICK c \in Call : Sent(c, t, "approve", draft, None)
  BY <1>1, <1>2, SentRequest
<1>4. /\ CallIsSound(c)'
      /\ call'[c].view.draft = draft /\ call'[c].target = draft
      /\ \A d \in Call :
           \/ call'[d] = call[d]
           \/ /\ call[d].tab \in {t, None} /\ call'[d].tab \in {t, None}
              /\ CallIsSound(d)'
              /\ call'[d].step \notin {"read", "numbered"}
  BY <1>0, <1>1, <1>2, <1>3, SentFromDisplay DEF TickedForGood
<1>5. PICK w : w = [tab[t] EXCEPT !.approving = TRUE]
  OBVIOUS
<1>6. /\ w \in TabType /\ w.status = "ready" /\ w.draft = tab[t].draft
      /\ w.choice = tab[t].choice /\ w.verified = tab[t].verified
  BY <1>1, <1>5 DEF TabType
<1>7. tab' = [tab EXCEPT ![t] = w] /\ tab'[t] = w
  BY <1>5 DEF ApprovesVersion, IInv, StateType
<1>8. /\ Pending(t)' = Pending(t) \union {c} /\ \A d \in Pending(t) : call'[d] = call[d]
      /\ call'[c].kind = "approve" /\ call' \in [Call -> CallType]
  BY <1>3 DEF Sent, Pending
<1>9. TabIsSound(t)'
  <2>1. ShowsVersion(tab[t])'
    BY <1>1, <1>6, <1>7 DEF ShowsVersion
  <2>2. \A d \in Pending(t) : call[d].kind # "create"
    BY <1>1 DEF IInv, TabIsSound
  <2> QED  BY <1>6, <1>7, <1>8, <2>1, <2>2 DEF TabIsSound, Ready
<1>10. TabIsTicked(t)'
  <2>1. Ticked(draft) /\ \A d \in Pending(t) : Ticked(call[d].target) /\ Ticked(call[d].view.draft)
    BY <1>0, <1>2 DEF TickedForGood
  <2>2. \A d \in Pending(t)' : Ticked(call[d].target)' /\ Ticked(call[d].view.draft)'
    BY <1>1, <1>4, <1>8, <2>1 DEF Ticked
  <2>3. Ready(t)' /\ Ticked(tab[t].draft)'
    BY <1>1, <1>2, <1>6, <1>7, <2>1 DEF Ticked, Ready
  <2> QED  BY <2>2, <2>3 DEF TabIsTicked, TickedForGood
<1>11. RowsGrow /\ Latest' = Latest /\ RowsAreSound'
  BY <1>1, RowsAreKept
<1> QED  BY <1>1, <1>4, <1>6, <1>7, <1>8, <1>9, <1>10, <1>11, PageKeepsInv

\* The tick marks the version on display, and so all that the workspace shows
\* or may yet come to show.
LEMMA TickingKeepsInv ==
  ASSUME IInv, NEW t \in Tab, TicksConfirmation(t) PROVE IInv'
<1>1. tab[t] \in TabType /\ tab[t].status = "ready" /\ ShowsVersion(tab[t]) /\ Ready(t)
      /\ tab[t].draft \in Nat /\ tab[t].draft \in DOMAIN versions
      /\ UNCHANGED <<plan, call, overlapping>>
      /\ StateType /\ TabIsSound(t)
  BY DEF TicksConfirmation, Ready, IInv, StateType, TabIsSound, ShowsVersion, TabType
<1>2. PICK draft \in Nat : draft = tab[t].draft
  BY <1>1
<1>3. Latest \in Nat /\ DOMAIN versions = 1..Latest /\ draft \in 1..Latest
      /\ versions[draft] \in RowType /\ \A i \in 1..Latest : versions[i] \in RowType
  BY <1>1, <1>2, RowsAreTyped
<1>4. PICK row : row = [versions[draft] EXCEPT !.reviewed = TRUE]
  OBVIOUS
<1>5. /\ row \in RowType /\ row.reviewed = TRUE /\ row.number = versions[draft].number
      /\ row.from = versions[draft].from /\ row.choice = versions[draft].choice
      /\ row.verified = versions[draft].verified
  BY <1>3, <1>4 DEF RowType
<1>6. versions' = [versions EXCEPT ![draft] = row]
  BY <1>2, <1>4 DEF TicksConfirmation
<1>7. /\ RowsGrow /\ Latest' = Latest /\ versions' \in Seq(RowType)
      /\ versions'[draft] = row /\ \A i \in 1..Latest : i # draft => versions'[i] = versions[i]
  BY <1>1, <1>3, <1>5, <1>6, RowIsMarked
<1>8. DOMAIN versions' = 1..Latest
  BY <1>7 DEF RowsGrow
<1>9. RowsAreSound'
  <2>1. VersionsAreNumbered' /\ OneSuggestion'
    BY <1>1, <1>3, <1>5, <1>7, <1>8 DEF IInv, VersionsAreNumbered, OneSuggestion
  <2>2. ApprovalWasTicked'
    <3> SUFFICES ASSUME NEW i \in 1..Latest, versions'[i].verified
                 PROVE  \E j \in 1..i : versions'[j].reviewed
      BY <1>8 DEF ApprovalWasTicked
    <3>1. versions[i].verified
      BY <1>5, <1>7
    <3>2. PICK j \in 1..i : versions[j].reviewed
      BY <1>3, <3>1 DEF IInv, ApprovalWasTicked
    <3>3. versions'[j].reviewed
      BY <1>3, <1>5, <1>7, <3>2
    <3> QED  BY <3>3
  <2> QED  BY <1>7, <2>1, <2>2 DEF RowsAreSound, IInv, StateType, Latest
<1>10. PICK w : w = [tab[t] EXCEPT !.ticked = draft]
  OBVIOUS
<1>11. /\ w \in TabType /\ w.status = "ready" /\ w.draft = draft
       /\ ShowsVersion(w)
  BY <1>1, <1>2, <1>10 DEF TabType, ShowsVersion
<1>12. tab' = [tab EXCEPT ![t] = w] /\ tab'[t] = w
  BY <1>1, <1>2, <1>10 DEF TicksConfirmation, StateType
<1>13. Pending(t)' = Pending(t)
  BY <1>1 DEF Pending
<1>14. TabIsSound(t)'
  <2>1. ShowsVersion(w)'
    BY <1>1, <1>7, <1>11, ShownStays
  <2>2. ShowsVersion(tab[t])'
    BY <1>12, <2>1 DEF ShowsVersion
  <2> QED  BY <1>1, <1>11, <1>12, <1>13, <2>2 DEF TabIsSound, Ready
<1>15. TabIsTicked(t)'
  <2>1. Ticked(draft)'
    BY <1>2, <1>3, <1>5, <1>7, <1>8 DEF Ticked
  <2>2. Ready(t)' /\ Ticked(tab[t].draft)'
    BY <1>11, <1>12, <2>1 DEF Ticked, Ready
  <2>3. ASSUME NEW c \in Pending(t), CallIsSound(c), call[c] \in CallType,
               call[c].kind \in {"revise", "approve"}
        PROVE  Ticked(call[c].target)' /\ Ticked(call[c].view.draft)'
    <3>1. PICK n \in Nat, v \in Nat : n = call[c].target /\ v = call[c].view.draft
      BY <2>3, <1>1, DocumentBounds DEF Pending, CallIsSound, CallType, TabType
    <3>2. CASE NotYetTicked(t)
      <4>1. n >= draft /\ v = draft
        BY <1>2, <2>3, <3>1, <3>2 DEF NotYetTicked
      <4>2. Ticked(n)' /\ Ticked(v)'
        BY <2>1, <4>1 DEF Ticked
      <4> QED  BY <1>1, <3>1, <4>2 DEF Ticked
    <3>3. CASE TickedForGood(t)
      <4>1. Ticked(n) /\ Ticked(v)
        BY <3>1, <3>3 DEF TickedForGood
      <4>2. Ticked(n)' /\ Ticked(v)'
        BY <1>1, <1>7, <4>1, TickedStays
      <4> QED  BY <1>1, <3>1, <4>2 DEF Ticked
    <3> QED  BY <3>2, <3>3 DEF IInv
  <2>4. ASSUME NEW c \in Pending(t)
        PROVE  CallIsSound(c) /\ call[c] \in CallType /\ call[c].kind \in {"revise", "approve"}
    <3>1. c \in Call /\ call[c].tab # None /\ call[c] \in CallType /\ CallIsSound(c)
      BY <1>1, DocumentBounds DEF Pending, StateType, IInv
    <3>2. call[c].kind # "create" /\ call[c].kind # "none"
      BY <1>1, <3>1 DEF TabIsSound, CallIsSound
    <3> QED  BY <3>1, <3>2 DEF CallType
  <2>5. \A c \in Pending(t) : Ticked(call[c].target)' /\ Ticked(call[c].view.draft)'
    BY <2>3, <2>4
  <2> QED  BY <1>13, <2>2, <2>5 DEF TabIsTicked, TickedForGood
<1>16. call' \in [Call -> CallType] /\ \A d \in Call : call'[d] = call[d]
  BY <1>1 DEF StateType
<1> QED  BY <1>1, <1>7, <1>9, <1>11, <1>12, <1>14, <1>15, <1>16, PageKeepsInv

\* A request that its workspace waits for, and what the workspace is doing then.
LEMMA AwaitedRequest ==
  ASSUME IInv, NEW c \in Call, call[c].tab # None
  PROVE  LET t == call[c].tab IN
         /\ t \in Tab /\ call[c] \in CallType /\ CallIsSound(c) /\ tab[t] \in TabType
         /\ TabIsSound(t) /\ TabIsTicked(t) /\ c \in Pending(t)
         /\ call[c].kind = "create" => Pending(t) = {c}
         /\ call[c].kind # "create" => Ready(t) /\ call[c].kind \in {"revise", "approve"}
         /\ NotYetTicked(t) => Pending(t) = {c}
<1> DEFINE t == call[c].tab
<1>1. /\ t \in Tab /\ call[c] \in CallType /\ CallIsSound(c) /\ tab[t] \in TabType
      /\ TabIsSound(t) /\ TabIsTicked(t) /\ c \in Pending(t)
  BY DEF IInv, StateType, CallType, Pending, TabIsTicked
<1>2. tab[t].status \in {"loading", "ready"}
  BY <1>1 DEF TabIsSound, TabType
<1>3. call[c].kind = "create" => Pending(t) = {c}
  BY <1>1, <1>2 DEF TabIsSound, Ready
<1>4. call[c].kind # "create" => Ready(t) /\ call[c].kind \in {"revise", "approve"}
  BY <1>1, <1>2 DEF TabIsSound, Ready, CallIsSound, CallType
<1>5. NotYetTicked(t) => Pending(t) = {c}
  BY <1>1 DEF NotYetTicked
<1> QED  BY <1>1, <1>3, <1>4, <1>5

\* A workspace no longer waits for a request, and shows what it may show.
LEMMA AnsweredKeepsInv ==
  ASSUME IInv, NEW c \in Call, NEW t \in Tab, call[c].tab = t,
         NEW k \in CallType, call' = [call EXCEPT ![c] = k], k.tab = None, CallIsSound(c)',
         k.step \in {"read", "numbered"} =>
           /\ InTransaction(c) /\ k.kind = call[c].kind
           /\ k.step = call[c].step /\ k.target = call[c].target
           /\ k.choice = call[c].choice /\ k.number = call[c].number /\ k.from = call[c].from,
         NEW w \in TabType, tab' = [tab EXCEPT ![t] = w],
         UNCHANGED <<plan, versions, overlapping>>,
         \/ call[c].kind = "create" /\ w.status = "error" /\ w.draft = 0 /\ w.ticked = 0
         \/ call[c].kind = "create" /\ w.status = "ready" /\ ShowsVersion(w) /\ w.ticked = 0
         \/ /\ call[c].kind # "create" /\ w.status = "ready" /\ ShowsVersion(w)
            /\ w.ticked = tab[t].ticked
            /\ TickedForGood(t) => Ticked(w.draft)
  PROVE  IInv'
<1>1. call[c].tab # None
  BY DocumentBounds
<1>2. /\ TabIsSound(t) /\ TabIsTicked(t) /\ c \in Pending(t)
      /\ call[c].kind = "create" => Pending(t) = {c}
      /\ call[c].kind # "create" => Ready(t) /\ call[c].kind \in {"revise", "approve"}
      /\ NotYetTicked(t) => Pending(t) = {c}
  BY <1>1, AwaitedRequest
<1>3. /\ call' \in [Call -> CallType] /\ call'[c] = k
      /\ \A d \in Call \ {c} : call'[d] = call[d]
      /\ tab'[t] = w
  BY DEF IInv, StateType
<1>4. Pending(t)' = Pending(t) \ {c} /\ \A d \in Pending(t)' : d # c /\ call'[d] = call[d]
  BY <1>1, <1>3 DEF Pending
<1>5. w.status = "ready" => ShowsVersion(tab[t])'
  BY <1>3 DEF ShowsVersion
<1>0. \A d \in Call :
           \/ call'[d] = call[d]
           \/ /\ call[d].tab \in {t, None} /\ call'[d].tab \in {t, None}
              /\ CallIsSound(d)'
              /\ call'[d].step \in {"read", "numbered"} =>
                   /\ InTransaction(d) /\ call'[d].kind = call[d].kind
                   /\ call'[d].step = call[d].step /\ call'[d].target = call[d].target
                   /\ call'[d].choice = call[d].choice /\ call'[d].number = call[d].number
                   /\ call'[d].from = call[d].from
  <2> SUFFICES ASSUME NEW d \in Call, d = c
               PROVE  /\ call[d].tab \in {t, None} /\ call'[d].tab \in {t, None}
                      /\ CallIsSound(d)'
                      /\ call'[d].step \in {"read", "numbered"} =>
                           /\ InTransaction(d) /\ call'[d].kind = call[d].kind
                           /\ call'[d].step = call[d].step /\ call'[d].target = call[d].target
                           /\ call'[d].choice = call[d].choice /\ call'[d].number = call[d].number
                           /\ call'[d].from = call[d].from
    BY <1>3
  <2>1. call'[d] = k /\ call[d].tab = t
    BY <1>3
  <2> QED  BY <2>1
<1>6. CASE call[c].kind = "create"
  <2>1. Pending(t)' = {} /\ w.ticked = 0
    BY <1>2, <1>4, <1>6
  <2>2. TabIsSound(t)' /\ TabIsTicked(t)'
    BY <1>3, <1>5, <2>1 DEF TabIsSound, TabIsTicked, NotYetTicked, Ready
  <2>3. RowsGrow /\ Latest' = Latest /\ RowsAreSound'
    BY RowsAreKept
  <2> QED  BY <1>0, <1>3, <2>2, <2>3, PageKeepsInv
<1>7. CASE call[c].kind # "create"
  <2>1. /\ w.status = "ready" /\ w.ticked = tab[t].ticked
        /\ TickedForGood(t) => Ticked(w.draft)
        /\ \A d \in Pending(t) : call[d].kind # "create"
    BY <1>2, <1>7 DEF TabIsSound
  <2>2. TabIsSound(t)'
    BY <1>3, <1>4, <1>5, <2>1 DEF TabIsSound, Ready
  <2>3. TabIsTicked(t)'
    <3>1. CASE NotYetTicked(t)
      <4>1. Pending(t)' = {} /\ w.ticked = 0
        BY <1>2, <1>4, <2>1, <3>1 DEF NotYetTicked
      <4> QED  BY <1>3, <4>1 DEF TabIsTicked, NotYetTicked
    <3>2. CASE TickedForGood(t)
      <4>1. Ready(t)' /\ Ticked(tab[t].draft)'
        BY <1>3, <2>1, <3>2 DEF Ready, Ticked
      <4>2. \A d \in Pending(t)' : Ticked(call[d].target)' /\ Ticked(call[d].view.draft)'
        BY <1>4, <3>2 DEF TickedForGood, Ticked
      <4> QED  BY <4>1, <4>2 DEF TabIsTicked, TickedForGood
    <3> QED  BY <1>2, <3>1, <3>2 DEF TabIsTicked
  <2>4. RowsGrow /\ Latest' = Latest /\ RowsAreSound'
    BY RowsAreKept
  <2> QED  BY <1>0, <1>3, <2>2, <2>3, <2>4, PageKeepsInv
<1> QED  BY <1>6, <1>7

LEMMA ReceivingKeepsInv ==
  ASSUME IInv, NEW c \in Call, ReceivesVersion(c) PROVE IInv'
<1>1. call[c].step = "answered" /\ call[c].tab # None
      /\ UNCHANGED <<plan, versions, overlapping>>
  BY DEF ReceivesVersion, IInv, CallIsSound
<1>2. PICK t \in Tab : t = call[c].tab
  BY <1>1, AwaitedRequest
<1>3. /\ call[c] \in CallType /\ CallIsSound(c) /\ tab[t] \in TabType
      /\ call[c].kind # "create" => Ready(t)
      /\ c \in Pending(t)
  BY <1>1, <1>2, AwaitedRequest
<1>4. PICK id \in Nat : id = call[c].target
  BY <1>3 DEF CallType
<1>5. /\ id \in DOMAIN versions /\ (call[c].verified => versions[id].verified)
      /\ versions[id].choice \in Content
  BY <1>1, <1>3, <1>4, RowsAreTyped DEF CallIsSound, IInv, RowType
<1>6. PICK w : w = [Closed EXCEPT !.status = "ready", !.draft = id,
          !.verified = call[c].verified, !.choice = versions[id].choice,
          !.ticked = IF call[c].kind = "create" THEN 0 ELSE tab[t].ticked]
  OBVIOUS
<1>7. /\ w \in TabType /\ w.status = "ready" /\ w.draft = id /\ w.choice = versions[id].choice
      /\ w.verified = call[c].verified
      /\ w.ticked = IF call[c].kind = "create" THEN 0 ELSE tab[t].ticked
  BY ZenonT(60), <1>3, <1>5, <1>6 DEF TabType, Closed, CallType
<1>8. tab' = [tab EXCEPT ![t] = w]
  BY <1>2, <1>4, <1>6 DEF ReceivesVersion
<1>9. ShowsVersion(w)
  BY <1>5, <1>7 DEF ShowsVersion
<1>10. TickedForGood(t) => Ticked(w.draft)
  BY <1>3, <1>4, <1>7 DEF TickedForGood
<1>11. PICK k : k = NoCall
  OBVIOUS
<1>12. k \in CallType /\ k.tab = None /\ k.step = "free" /\ k.kind = "none"
  BY <1>11 DEF NoCall, CallType
<1>13. call' = [call EXCEPT ![c] = k] /\ call'[c] = k
  BY <1>11 DEF ReceivesVersion, IInv, StateType
<1>14. CallIsSound(c)'
  BY <1>12, <1>13 DEF CallIsSound, Unanswered
<1> QED
  BY <1>1, <1>2, <1>7, <1>8, <1>9, <1>10, <1>12, <1>13, <1>14, AnsweredKeepsInv

LEMMA FailingKeepsInv ==
  ASSUME IInv, NEW c \in Call, RequestFails(c) PROVE IInv'
<1>1. call[c].kind # "none" /\ call[c].tab # None
      /\ UNCHANGED <<plan, versions, overlapping>>
  BY DEF RequestFails
<1>2. PICK t \in Tab : t = call[c].tab
  BY <1>1, AwaitedRequest
<1>3. /\ call[c] \in CallType /\ CallIsSound(c) /\ tab[t] \in TabType
      /\ call[c].kind # "create" => Ready(t) /\ call[c].kind \in {"revise", "approve"}
      /\ c \in Pending(t)
  BY <1>1, <1>2, AwaitedRequest
<1>4. PICK w : w = FallsBack(t, c)
  OBVIOUS
<1>5. tab' = [tab EXCEPT ![t] = w]
  BY <1>2, <1>4 DEF RequestFails
<1>6. /\ w \in TabType
      /\ call[c].kind = "create" => w.status = "error" /\ w.draft = 0 /\ w.ticked = 0
      /\ call[c].kind # "create" =>
           /\ w.status = "ready" /\ ShowsVersion(w) /\ w.ticked = tab[t].ticked
           /\ w.draft = call[c].view.draft
  <2>1. CASE call[c].kind = "create"
    BY <1>4, <2>1 DEF FallsBack, Closed, TabType
  <2>2. CASE call[c].kind # "create"
    <3>1. PICK v \in TabType : v = call[c].view /\ v.status = "ready" /\ ShowsVersion(v)
      BY <1>1, <1>3, <2>2 DEF CallIsSound
    <3>2. PICK ticked \in Nat, saving \in BOOLEAN, approving \in BOOLEAN :
            w = [v EXCEPT !.saving = saving, !.approving = approving, !.ticked = ticked]
            /\ ticked = tab[t].ticked
      <4>1. PICK saving \in BOOLEAN, approving \in BOOLEAN :
              /\ saving = IF call[c].kind = "revise" THEN FALSE ELSE v.saving
              /\ approving = IF call[c].kind = "approve" THEN FALSE ELSE v.approving
        BY DEF TabType
      <4>2. tab[t].ticked \in Nat
        BY <1>3 DEF TabType
      <4>3. w = [v EXCEPT !.saving = saving, !.approving = approving, !.ticked = tab[t].ticked]
        BY <1>4, <2>2, <3>1, <4>1 DEF FallsBack
      <4> QED  BY <4>2, <4>3
    <3>3. /\ w \in TabType /\ w.status = "ready" /\ w.draft = v.draft /\ w.choice = v.choice
          /\ w.verified = v.verified /\ w.ticked = tab[t].ticked
      BY <3>1, <3>2 DEF TabType
    <3> QED  BY <2>2, <3>1, <3>3 DEF ShowsVersion
  <2> QED  BY <2>1, <2>2
<1>7. TickedForGood(t) /\ call[c].kind # "create" => Ticked(w.draft)
  BY <1>3, <1>6 DEF TickedForGood
<1>8. PICK k : k = IF call[c].step \in {"answered", "refused"} THEN NoCall
                   ELSE [call[c] EXCEPT !.tab = None, !.view = None]
  OBVIOUS
<1>9. call' = [call EXCEPT ![c] = k] /\ call'[c] = k
  BY <1>8 DEF RequestFails, IInv, StateType
<1>10. CASE call[c].step \in {"answered", "refused"}
  <2>1. k \in CallType /\ k.tab = None /\ k.step = "free" /\ k.kind = "none"
    BY <1>8, <1>10 DEF NoCall, CallType
  <2>2. CallIsSound(c)'
    BY <1>9, <2>1 DEF CallIsSound, Unanswered
  <2> QED
    BY <1>1, <1>2, <1>5, <1>6, <1>7, <1>9, <2>1, <2>2, AnsweredKeepsInv
<1>11. CASE call[c].step \notin {"answered", "refused"}
  <2>1. /\ k \in CallType /\ k.tab = None /\ k.kind = call[c].kind /\ k.step = call[c].step
        /\ k.target = call[c].target /\ k.choice = call[c].choice
        /\ k.number = call[c].number /\ k.from = call[c].from
    BY <1>3, <1>8, <1>11 DEF CallType
  <2>2. CallIsSound(c)'
    BY <1>1, <1>3, <1>9, <1>11, <2>1 DEF CallIsSound, Unanswered, Ticked
  <2>3. k.step \in {"read", "numbered"} => InTransaction(c)
    BY <2>1 DEF InTransaction
  <2> QED
    BY <1>1, <1>2, <1>5, <1>6, <1>7, <1>9, <2>1, <2>2, <2>3, AnsweredKeepsInv
<1> QED  BY <1>10, <1>11

-------------------------------------------------------------------------------
(* The rest of the system, and the theorems.                                   *)

\* A document under review does not depend on what becomes of the plan.
LEMMA PlanKeepsInv ==
  ASSUME IInv, plan' \in 1..MaxPlan, UNCHANGED <<versions, call, tab, overlapping>>
  PROVE  IInv'
<1>1. RowsGrow /\ Latest' = Latest /\ RowsAreSound'
  BY RowsAreKept
<1>2. StateType'
  BY <1>1 DEF IInv, StateType, RowsAreSound, Latest
<1>3. OneTransaction'
  BY DEF IInv, OneTransaction, InTransaction
<1>4. \A c \in Call : CallIsSound(c)' /\ CallKnows(c)'
  BY <1>1, SoundStays, KnownStays DEF IInv
<1>5. ASSUME NEW t \in Tab PROVE TabIsSound(t)' /\ TabIsTicked(t)'
  BY <1>1, <1>2, TabStays DEF StateType
<1> QED
  BY <1>1, <1>2, <1>3, <1>4, <1>5 DEF IInv, RowsAreSound, TabIsTicked

LEMMA ForeignKeepsInv ==
  ASSUME IInv, NEW choice \in Foreign, ForeignRevises(choice) PROVE IInv'
<1>1. PICK c \in Call, id \in DOMAIN versions :
        /\ call[c] = NoCall
        /\ call' = [call EXCEPT ![c] = [NoCall EXCEPT !.kind = "revise", !.step = "sent",
                                          !.target = id, !.choice = choice]]
        /\ UNCHANGED <<plan, versions, tab, overlapping>>
  BY DEF ForeignRevises
<1>2. PICK k : k = [NoCall EXCEPT !.kind = "revise", !.step = "sent", !.target = id,
                                  !.choice = choice]
  OBVIOUS
<1>3. id \in Nat
  BY RowsAreTyped DEF IInv
<1>4. /\ k \in CallType /\ k.kind = "revise" /\ k.step = "sent" /\ k.tab = None
      /\ k.target = id /\ k.choice = choice
  BY <1>2, <1>3 DEF NoCall, CallType, Content
<1>5. call' = [call EXCEPT ![c] = k] /\ call'[c] = k /\ call[c].tab = None
  BY <1>1, <1>2 DEF IInv, StateType, NoCall
<1>6. CallIsSound(c)' /\ CallKnows(c)'
  BY <1>1, <1>4, <1>5 DEF CallIsSound, CallKnows, InTransaction, Unanswered, Content
<1>7. RowsGrow /\ Latest' = Latest /\ RowsAreSound'
  BY <1>1, RowsAreKept
<1> QED  BY <1>1, <1>4, <1>5, <1>6, <1>7, ServiceKeepsInv

LEMMA InitHolds == DocumentInit => IInv
<1> SUFFICES ASSUME DocumentInit PROVE IInv
  OBVIOUS
<1>1. NoCall \in CallType /\ Closed \in TabType
  BY DEF NoCall, CallType, Closed, TabType
<1>2. /\ versions \in Seq(RowType) /\ Len(versions) = 0 /\ DOMAIN versions = {}
  BY EmptySeq, LenProperties DEF DocumentInit
<1>3. StateType
  BY <1>1, <1>2, DocumentBounds DEF DocumentInit, StateType
<1>4. VersionsAreNumbered /\ OneSuggestion /\ ApprovalWasTicked
  BY <1>2 DEF VersionsAreNumbered, OneSuggestion, ApprovalWasTicked
<1>5. \A c \in Call : CallIsSound(c) /\ CallKnows(c) /\ ~InTransaction(c)
  BY DEF DocumentInit, NoCall, CallIsSound, CallKnows, InTransaction, Unanswered
<1>6. ASSUME NEW t \in Tab PROVE TabIsSound(t) /\ NotYetTicked(t)
  <2>1. Pending(t) = {}
    BY DocumentBounds DEF DocumentInit, Pending, NoCall
  <2> QED  BY <2>1 DEF DocumentInit, Closed, TabIsSound, NotYetTicked, Ready
<1> QED  BY <1>3, <1>4, <1>5, <1>6 DEF IInv, OneTransaction

LEMMA NextKeepsInv == IInv /\ [DocumentNext]_documentVars => IInv'
<1> SUFFICES ASSUME IInv, [DocumentNext]_documentVars PROVE IInv'
  OBVIOUS
<1>1. CASE SavesPlan
  <2>1. plan' \in 1..MaxPlan /\ UNCHANGED <<versions, call, tab, overlapping>>
    BY <1>1, DocumentBounds DEF SavesPlan, IInv, StateType
  <2> QED  BY <2>1, PlanKeepsInv
<1>2. ASSUME NEW choice \in Foreign, ForeignRevises(choice) PROVE IInv'
  BY <1>2, ForeignKeepsInv
<1>3. ASSUME NEW t \in Tab,
             \/ OpensWorkspace(t) \/ \E choice \in Choice : Chooses(t, choice)
             \/ SavesRevision(t) \/ TicksConfirmation(t) \/ ApprovesVersion(t)
      PROVE  IInv'
  BY <1>3, OpeningKeepsInv, ChoosingKeepsInv, SavingKeepsInv, TickingKeepsInv, ApprovingKeepsInv
<1>4. ASSUME NEW c \in Call,
             \/ CreateReads(c) \/ ReviseReads(c) \/ ApproveReads(c) \/ NumbersVersion(c)
             \/ InsertsVersion(c) \/ ApproveWrites(c) \/ ReceivesVersion(c) \/ RequestFails(c)
      PROVE  IInv'
  BY <1>4, CreateKeepsInv, ReviseKeepsInv, ApproveKeepsInv, NumberingKeepsInv, InsertKeepsInv,
     ApprovalKeepsInv, ReceivingKeepsInv, FailingKeepsInv
<1>5. CASE UNCHANGED documentVars
  <2>1. plan' \in 1..MaxPlan /\ UNCHANGED <<versions, call, tab, overlapping>>
    BY <1>5 DEF documentVars, IInv, StateType
  <2> QED  BY <2>1, PlanKeepsInv
<1> QED  BY <1>1, <1>2, <1>3, <1>4, <1>5 DEF DocumentNext

LEMMA InvIsEnough == IInv => DocumentsAreReviewed
<1> SUFFICES ASSUME IInv PROVE DocumentsAreReviewed
  OBVIOUS
<1>1. /\ Latest \in Nat /\ DOMAIN versions = 1..Latest
      /\ \A i \in 1..Latest : versions[i] \in RowType
  BY RowsAreTyped DEF IInv
<1>2. ASSUME NEW t \in Tab
      PROVE  /\ tab[t].status \in {"idle", "loading", "ready", "error"}
             /\ Ready(t) <=> tab[t].draft \in DOMAIN versions
             /\ Ready(t) /\ tab[t].verified => Export(tab[t].draft) = "document"
  <2>1. tab[t] \in TabType /\ TabIsSound(t)
    BY DEF IInv, StateType
  <2>2. Ready(t) => tab[t].draft \in DOMAIN versions
    BY <2>1 DEF TabIsSound, ShowsVersion
  <2>3. ~Ready(t) => tab[t].draft \notin DOMAIN versions
    BY <1>1, <2>1 DEF TabIsSound
  <2>4. Ready(t) /\ tab[t].verified => Export(tab[t].draft) = "document"
    BY <2>1 DEF TabIsSound, ShowsVersion, Export
  <2> QED  BY <2>1, <2>2, <2>3, <2>4 DEF TabType
<1>3. ASSUME NEW c \in Call
      PROVE  /\ call[c].kind \in {"none", "create", "revise", "approve"}
             /\ call[c].step \in {"free", "sent", "read", "numbered", "answered", "refused"}
             /\ call[c].tab \in Tab \union {None}
             /\ call[c].kind \in {"revise", "approve"} => call[c].target \in DOMAIN versions
  <2>1. call[c] \in CallType /\ CallIsSound(c)
    BY DEF IInv, StateType
  <2> QED  BY <2>1 DEF CallType, CallIsSound
<1>4. DocumentTypeOK
  BY <1>1, <1>2, <1>3 DEF DocumentTypeOK, IInv, StateType, RowType, Content
<1> QED
  BY <1>2, <1>4 DEF DocumentsAreReviewed, DownloadsSucceed, IInv

\* However requests on a document overlap, fail or are answered late, its
\* versions are numbered one to n, what a workspace shows as verified is
\* downloaded, nothing is approved that was not ticked at that version or an
\* earlier one, and requests served one after another do not mix two plans.
THEOREM DocumentsStayReviewed == DocumentSpec => []DocumentsAreReviewed
<1>1. DocumentSpec => []IInv
  BY InitHolds, NextKeepsInv, PTL DEF DocumentSpec
<1> QED  BY <1>1, InvIsEnough, PTL

-------------------------------------------------------------------------------
(* The refinement.                                                             *)

Version == [content : Content, approved : BOOLEAN]

\* The history that a sequence of rows keeps.
HistoryOf(rows) ==
  [i \in DOMAIN rows |-> [content |-> rows[i].choice, approved |-> rows[i].verified]]

LEMMA HistoryIsSequence ==
  ASSUME NEW rows \in Seq(RowType)
  PROVE  /\ HistoryOf(rows) \in Seq(Version) /\ Len(HistoryOf(rows)) = Len(rows)
         /\ DOMAIN HistoryOf(rows) = 1..Len(rows)
         /\ \A i \in 1..Len(rows) :
              HistoryOf(rows)[i] = [content |-> rows[i].choice, approved |-> rows[i].verified]
<1> DEFINE h == HistoryOf(rows)
<1>1. /\ Len(rows) \in Nat /\ DOMAIN rows = 1..Len(rows)
      /\ \A i \in 1..Len(rows) : rows[i] \in RowType
  BY LenProperties, ElementOfSeq
<1>2. \A i \in 1..Len(rows) :
        [content |-> rows[i].choice, approved |-> rows[i].verified] \in Version
  BY <1>1 DEF RowType, Version
<1>3. h \in [1..Len(rows) -> Version]
  BY <1>1, <1>2 DEF HistoryOf
<1>4. h \in Seq(Version)
  BY <1>1, <1>3, SeqDef
<1>5. Len(h) \in Nat /\ 1..Len(h) = 1..Len(rows)
  BY <1>3, <1>4, LenProperties
<1>6. Len(h) = Len(rows)
  BY <1>1, <1>5
<1> QED  BY <1>1, <1>3, <1>4, <1>6 DEF HistoryOf

\* Any step that leaves contents and approvals alone.
LEMMA HistoryIsKept ==
  ASSUME DOMAIN versions' = DOMAIN versions,
         \A i \in DOMAIN versions : /\ versions'[i].choice = versions[i].choice
                                    /\ versions'[i].verified = versions[i].verified
  PROVE  HistoryOf(versions') = HistoryOf(versions)
BY DEF HistoryOf

LEMMA HistoryIsAppended ==
  ASSUME NEW rows \in Seq(RowType), NEW row \in RowType, row.verified = FALSE
  PROVE  HistoryOf(Append(rows, row))
           = Append(HistoryOf(rows), [content |-> row.choice, approved |-> FALSE])
<1>1. PICK more : more = Append(rows, row)
  OBVIOUS
<1>2. /\ more \in Seq(RowType) /\ Len(more) = Len(rows) + 1 /\ Len(rows) \in Nat
      /\ \A i \in 1..Len(rows) : more[i] = rows[i]
      /\ more[Len(rows) + 1] = row
  BY <1>1, AppendProperties, LenProperties
<1>3. PICK h : h = HistoryOf(rows)
  OBVIOUS
<1>4. /\ h \in Seq(Version) /\ Len(h) = Len(rows)
      /\ \A i \in 1..Len(rows) :
           h[i] = [content |-> rows[i].choice, approved |-> rows[i].verified]
  BY <1>3, HistoryIsSequence
<1>5. PICK e : e = [content |-> row.choice, approved |-> FALSE]
  OBVIOUS
<1>6. e \in Version
  BY <1>5 DEF Version, RowType
<1>7. /\ Append(h, e) \in Seq(Version) /\ Len(Append(h, e)) = Len(rows) + 1
      /\ \A i \in 1..Len(rows) : Append(h, e)[i] = h[i]
      /\ Append(h, e)[Len(rows) + 1] = e
  BY <1>4, <1>6, AppendProperties
<1>8. PICK g : g = HistoryOf(more)
  OBVIOUS
<1>9. /\ g \in Seq(Version) /\ Len(g) = Len(rows) + 1
      /\ \A i \in 1..(Len(rows) + 1) :
           g[i] = [content |-> more[i].choice, approved |-> more[i].verified]
  BY <1>2, <1>8, HistoryIsSequence
<1>10. ASSUME NEW i \in 1..(Len(rows) + 1) PROVE g[i] = Append(h, e)[i]
  <2>1. CASE i \in 1..Len(rows)
    <3>1. g[i] = [content |-> rows[i].choice, approved |-> rows[i].verified]
      BY <1>2, <1>9, <2>1
    <3>2. Append(h, e)[i] = [content |-> rows[i].choice, approved |-> rows[i].verified]
      BY <1>4, <1>7, <2>1
    <3> QED  BY <3>1, <3>2
  <2>2. CASE i = Len(rows) + 1
    <3>1. g[i] = [content |-> row.choice, approved |-> row.verified]
      BY <1>2, <1>9, <2>2
    <3> QED  BY <1>5, <1>7, <2>2, <3>1
  <2>3. i \in 1..Len(rows) \/ i = Len(rows) + 1
    <3> PICK n \in Nat : n = Len(rows)
      BY <1>2
    <3>1. i \in 1..(n + 1)
      OBVIOUS
    <3>2. i \in 1..n \/ i = n + 1
      BY <3>1
    <3> QED  BY <3>2
  <2> QED  BY <2>1, <2>2, <2>3
<1>11. g = Append(h, e)
  BY <1>7, <1>9, <1>10, SeqEqual
<1> QED  BY <1>1, <1>3, <1>5, <1>8, <1>11

\* An inserted row is a first draft or a revision of the history, ...
LEMMA InsertIsWritten ==
  ASSUME IInv, NEW c \in Call, InsertsVersion(c), ~NumberTaken(call[c].number)
  PROVE  History!HistoryNext
<1> PICK k : k = call[c]
  OBVIOUS
<1> PICK h : h = HistoryOf(versions)
  OBVIOUS
<1>1. PICK row \in RowType : row = Row(Latest + 1, k.from, k.choice)
  BY InsertedRow
<1>2. /\ k.kind \in {"create", "revise"} /\ InTransaction(c) /\ k.choice \in Content
      /\ versions' = Append(versions, row) /\ UNCHANGED overlapping
      /\ k.kind = "revise" => k.target \in 1..Latest
  BY <1>1, InsertedRow
<1>3. row.verified = FALSE /\ row.choice = k.choice
  BY <1>1 DEF Row
<1>4. /\ versions \in Seq(RowType) /\ Latest = Len(versions) /\ Latest \in Nat
      /\ DOMAIN versions = 1..Latest
  BY RowsAreTyped DEF IInv, StateType, Latest
<1>5. HistoryOf(versions') = Append(h, [content |-> k.choice, approved |-> FALSE])
  BY <1>2, <1>3, <1>4, HistoryIsAppended
<1>6. /\ h \in Seq(Version) /\ Len(h) = Latest /\ DOMAIN h = 1..Latest
      /\ \A i \in 1..Latest :
           h[i] = [content |-> versions[i].choice, approved |-> versions[i].verified]
  BY <1>4, HistoryIsSequence
<1>7. CallKnows(c)  BY DEF IInv
<1> PICK choice \in Content : choice = k.choice
  BY <1>2
<1> PICK base : base = k.target
  OBVIOUS
<1>8. CASE k.kind = "create"
  <2>1. h = <<>> \/ overlapping
    BY <1>2, <1>6, <1>7, <1>8, EmptySeq DEF CallKnows
  <2>2. History!Open(choice)
    BY <1>5, <2>1 DEF History!Open, History!Written, HistoryOf
  <2>3. \E content \in Choice \union Foreign : History!Open(content)
    BY <2>2 DEF Content
  <2> QED  BY <1>2, <2>3 DEF History!HistoryNext
<1>9. CASE k.kind = "revise"
  <2>1. /\ base \in DOMAIN h /\ (base = Len(h) \/ overlapping)
        /\ h[base].content # choice
    BY <1>2, <1>6, <1>7, <1>9 DEF CallKnows
  <2>2. History!Revise(base, choice)
    BY <1>5, <2>1 DEF History!Revise, History!Written, HistoryOf
  <2>3. \E b \in DOMAIN h, content \in Choice \union Foreign : History!Revise(b, content)
    BY <2>1, <2>2 DEF Content
  <2> QED  BY <1>2, <2>3 DEF History!HistoryNext, HistoryOf
<1> QED  BY <1>2, <1>8, <1>9

\* ... and an approval is an approval of it.
LEMMA ApprovalIsApproval ==
  ASSUME IInv, NEW c \in Call, ApproveWrites(c)
  PROVE  History!HistoryNext
<1> PICK h : h = HistoryOf(versions)
  OBVIOUS
<1>1. /\ call[c].kind = "approve" /\ InTransaction(c) /\ CallIsSound(c) /\ CallKnows(c)
      /\ VerifyRow(call[c].target) /\ UNCHANGED overlapping
  BY DEF ApproveWrites, IInv, InTransaction
<1>2. /\ Latest \in Nat /\ DOMAIN versions = 1..Latest /\ versions \in Seq(RowType)
      /\ \A i \in 1..Latest : versions[i] \in RowType
      /\ Latest = Len(versions)
  BY RowsAreTyped DEF IInv, StateType, Latest
<1>3. PICK id \in 1..Latest : id = call[c].target
  BY <1>1, <1>2 DEF CallIsSound
<1>4. /\ DOMAIN h = 1..Latest /\ Len(h) = Latest
      /\ \A i \in 1..Latest :
           h[i] = [content |-> versions[i].choice, approved |-> versions[i].verified]
  BY <1>2, HistoryIsSequence
<1>5. versions' = [versions EXCEPT ![id] = [versions[id] EXCEPT !.verified = TRUE]]
  BY <1>1, <1>3 DEF VerifyRow
<1>6. /\ DOMAIN versions' = 1..Latest
      /\ versions'[id].choice = versions[id].choice /\ versions'[id].verified = TRUE
      /\ \A i \in 1..Latest : i # id => versions'[i] = versions[i]
  BY <1>2, <1>5 DEF RowType
<1>7. HistoryOf(versions') = [h EXCEPT ![id].approved = TRUE]
  <2>1. HistoryOf(versions') =
          [i \in 1..Latest |-> [content |-> versions'[i].choice,
                                approved |-> versions'[i].verified]]
    BY <1>6 DEF HistoryOf
  <2>2. h = [i \in 1..Latest |-> [content |-> versions[i].choice,
                                  approved |-> versions[i].verified]]
    BY <1>2 DEF HistoryOf
  <2> PICK row : row = [h[id] EXCEPT !.approved = TRUE]
    OBVIOUS
  <2>3. row = [content |-> versions[id].choice, approved |-> TRUE]
    <3> PICK choice, verified : choice = versions[id].choice /\ verified = versions[id].verified
      OBVIOUS
    <3>1. h[id] = [content |-> choice, approved |-> verified]
      BY <1>4
    <3>2. row = [[content |-> choice, approved |-> verified] EXCEPT !.approved = TRUE]
      BY <3>1
    <3>3. row = [content |-> choice, approved |-> TRUE]
      BY <3>2
    <3> QED  BY <3>3
  <2> PICK g : g = HistoryOf(versions')
    OBVIOUS
  <2>4. \A i \in 1..Latest :
          g[i] = [content |-> versions'[i].choice, approved |-> versions'[i].verified]
    BY <2>1
  <2>5. g[id] = row /\ \A i \in 1..Latest : i # id => g[i] = h[i]
    <3>1. g[id] = [content |-> versions'[id].choice, approved |-> versions'[id].verified]
      BY <2>4
    <3>2. g[id] = [content |-> versions[id].choice, approved |-> TRUE]
      BY <1>6, <3>1, Zenon
    <3>3. \A i \in 1..Latest : i # id => g[i] = h[i]
      BY <1>4, <1>6, <2>4
    <3> QED  BY <2>3, <3>2, <3>3
  <2>6. g = [i \in 1..Latest |-> g[i]]
    BY <2>1, <2>4
  <2>7. [h EXCEPT ![id] = row] = [i \in 1..Latest |-> g[i]]
    BY <1>4, <2>2, <2>5
  <2>8. [h EXCEPT ![id].approved = TRUE] = [h EXCEPT ![id] = row]
    OBVIOUS
  <2> QED  BY <2>8, <2>7, <2>6
<1>8. id = Len(h) \/ overlapping
  BY <1>1, <1>3, <1>4 DEF CallKnows
<1>9. History!Approve(id)
  BY <1>7, <1>8 DEF History!Approve, HistoryOf
<1> QED  BY <1>1, <1>4, <1>9 DEF History!HistoryNext, HistoryOf

LEMMA TickIsSilent ==
  ASSUME IInv, NEW t \in Tab, TicksConfirmation(t)
  PROVE  HistoryOf(versions') = HistoryOf(versions) /\ UNCHANGED overlapping
<1>1. /\ versions' = [versions EXCEPT ![tab[t].draft].reviewed = TRUE]
      /\ UNCHANGED overlapping /\ tab[t].draft \in DOMAIN versions
  BY DEF TicksConfirmation, IInv, TabIsSound, ShowsVersion
<1>2. DOMAIN versions = 1..Latest /\ \A i \in 1..Latest : versions[i] \in RowType
  BY RowsAreTyped DEF IInv
<1>3. /\ DOMAIN versions' = DOMAIN versions
      /\ \A i \in DOMAIN versions : /\ versions'[i].choice = versions[i].choice
                                    /\ versions'[i].verified = versions[i].verified
  BY <1>1, <1>2 DEF RowType
<1> QED  BY <1>1, <1>3, HistoryIsKept

\* Whatever the requests on a document and the workspaces do, its reader sees a
\* DocumentHistory: no version is rewritten or loses its approval, and only
\* requests that overlap act on any but the latest (ImplementsHistory).
THEOREM ReviewImplementsHistory == DocumentSpec => ImplementsHistory
<1>1. ASSUME DocumentInit PROVE History!HistoryInit
  <2>1. versions = <<>> /\ versions \in Seq(RowType) /\ Len(versions) = 0
    BY <1>1, EmptySeq DEF DocumentInit
  <2>2. HistoryOf(versions) \in Seq(Version) /\ Len(HistoryOf(versions)) = 0
    BY <2>1, HistoryIsSequence
  <2>3. HistoryOf(versions) = <<>>
    BY <2>2, EmptySeq
  <2> QED  BY <1>1, <2>3 DEF History!HistoryInit, HistoryOf, DocumentInit
<1>2. ASSUME IInv, [DocumentNext]_documentVars
      PROVE  \/ History!HistoryNext
             \/ HistoryOf(versions') = HistoryOf(versions) /\ UNCHANGED overlapping
  <2>1. ASSUME UNCHANGED <<versions, overlapping>>
        PROVE  HistoryOf(versions') = HistoryOf(versions) /\ UNCHANGED overlapping
    BY <2>1
  <2>2. ASSUME NEW t \in Tab,
               \/ OpensWorkspace(t) \/ \E choice \in Choice : Chooses(t, choice)
               \/ SavesRevision(t) \/ TicksConfirmation(t) \/ ApprovesVersion(t)
        PROVE  HistoryOf(versions') = HistoryOf(versions) /\ UNCHANGED overlapping
    <3>1. CASE TicksConfirmation(t)
      BY <1>2, <3>1, TickIsSilent
    <3>2. CASE ~TicksConfirmation(t)
      BY <2>1, <2>2, <3>2 DEF OpensWorkspace, Chooses, SavesRevision, ApprovesVersion
    <3> QED  BY <3>1, <3>2
  <2>3. ASSUME NEW c \in Call,
               \/ CreateReads(c) \/ ReviseReads(c) \/ ApproveReads(c) \/ NumbersVersion(c)
               \/ InsertsVersion(c) \/ ApproveWrites(c) \/ ReceivesVersion(c) \/ RequestFails(c)
        PROVE  \/ History!HistoryNext
               \/ HistoryOf(versions') = HistoryOf(versions) /\ UNCHANGED overlapping
    <3>1. CASE InsertsVersion(c) /\ ~NumberTaken(call[c].number)
      BY <1>2, <3>1, InsertIsWritten
    <3>2. CASE InsertsVersion(c) /\ NumberTaken(call[c].number)
      BY <2>1, <3>2 DEF InsertsVersion
    <3>3. CASE ApproveWrites(c)
      BY <1>2, <3>3, ApprovalIsApproval
    <3>4. CASE ~InsertsVersion(c) /\ ~ApproveWrites(c)
      BY <2>1, <2>3, <3>4 DEF CreateReads, ReviseReads, ApproveReads, NumbersVersion,
                              ReceivesVersion, RequestFails
    <3> QED  BY <3>1, <3>2, <3>3, <3>4
  <2>4. CASE SavesPlan
    BY <2>1, <2>4 DEF SavesPlan
  <2>5. ASSUME NEW choice \in Foreign, ForeignRevises(choice)
        PROVE  HistoryOf(versions') = HistoryOf(versions) /\ UNCHANGED overlapping
    BY <2>1, <2>5 DEF ForeignRevises
  <2>6. CASE UNCHANGED documentVars
    BY <2>1, <2>6 DEF documentVars
  <2> QED  BY <1>2, <2>2, <2>3, <2>4, <2>5, <2>6 DEF DocumentNext
<1>3. ASSUME IInv, [DocumentNext]_documentVars
      PROVE  [History!HistoryNext]_<<HistoryOf(versions), overlapping>>
  BY <1>2, <1>3
<1>4. DocumentSpec => []IInv
  BY InitHolds, NextKeepsInv, PTL DEF DocumentSpec
<1>5. [History!HistoryNext]_<<HistoryOf(versions), overlapping>>
        => [History!HistoryNext]_(History!historyVars)
  BY DEF History!historyVars, HistoryOf
<1> QED
  BY <1>1, <1>3, <1>4, <1>5, PTL DEF DocumentSpec, ImplementsHistory, History!HistorySpec

===============================================================================
