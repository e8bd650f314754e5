---------------------------- MODULE Services_proofs ----------------------------
(* The parts of the service whose requests race for something there is to be   *)
(* one of: an account per subject, a search per idempotency key, an active     *)
(* resume per user, an instance of each resource per process, a listing per    *)
(* posting; and the search of several providers at once. Each part has its own *)
(* inductive invariant, and none refers to another.                            *)
EXTENDS SignIn, TaskSubmission, ResumeLibrary, ApiResources, JobCatalog, ProviderSearch,
        Arrangements_proofs, FiniteSetTheorems, SequenceTheorems, TLAPS

-------------------------------------------------------------------------------
(* However many requests of however many subjects sign in at once, no account  *)
(* is out of reach and none is shared. Keys of accounts are never used twice;  *)
(* a subject whose identity is about to be committed has none yet, and nobody  *)
(* else holds its unique key; a request that found an identity names the       *)
(* account that it still is linked with, as links are for good.                *)

NoneOr(S) == S \union {NoAccount}

CallType ==
  [step : {"idle", "verified", "refused", "unknown", "known", "user_added", "linked",
           "answered", "failed", "checked", "refreshed"},
   subject : NoneOr(Subject), email : NoneOr(Email), account : NoneOr(Account)]

SignInTypeOK ==
  /\ accounts \in [Account -> NoneOr(Email)]
  /\ linked \in [Subject -> NoneOr(Account)]
  /\ signIn \in [SignInCall -> CallType]
  /\ inserted \in 0..MaxAccount

\* Every request but an idle one has a subject and an address.
CallIsVerified(c) ==
  signIn[c].step # "idle" => signIn[c].subject \in Subject /\ signIn[c].email \in Email

\* What a request with an account knows of it.
CallKnows(c) ==
  /\ signIn[c].step \in {"known", "checked", "refreshed", "answered"} =>
       signIn[c].account # NoAccount /\ linked[signIn[c].subject] = signIn[c].account
  /\ signIn[c].step \in {"user_added", "linked"} =>
       /\ signIn[c].account \in 1..inserted
       /\ \A s \in Subject : linked[s] # signIn[c].account
       /\ \A d \in SignInCall \ {c} :
            signIn[d].step \in {"user_added", "linked"} => signIn[d].account # signIn[c].account
  /\ signIn[c].step = "linked" =>
       /\ linked[signIn[c].subject] = NoAccount
       /\ \A d \in SignInCall \ {c} :
            signIn[d].step = "linked" => signIn[d].subject # signIn[c].subject

LinksAreSound ==
  /\ \A s \in Subject : linked[s] # NoAccount => linked[s] \in 1..inserted
  /\ \A s, t \in Subject : linked[s] = linked[t] /\ linked[s] # NoAccount => s = t

\* The inductive invariant.
SignInIInv ==
  /\ SignInTypeOK
  /\ \A c \in SignInCall : CallIsVerified(c) /\ CallKnows(c)
  /\ LinksAreSound
  /\ EveryAccountIsReachable

-------------------------------------------------------------------------------
LEMMA SignInInitHolds == SignInInit => SignInIInv
<1> SUFFICES ASSUME SignInInit PROVE SignInIInv  OBVIOUS
<1>1. SignInTypeOK
  BY SignInBounds DEF SignInInit, SignInTypeOK, CallType, NoSignIn, NoneOr
<1>2. \A c \in SignInCall : CallIsVerified(c) /\ CallKnows(c)
  BY DEF SignInInit, NoSignIn, CallIsVerified, CallKnows
<1>3. LinksAreSound /\ EveryAccountIsReachable
  BY DEF SignInInit, LinksAreSound, EveryAccountIsReachable
<1> QED  BY <1>1, <1>2, <1>3 DEF SignInIInv

LEMMA SignInInvariantImplies == SignInIInv => OneAccountEach
BY DEF SignInIInv, OneAccountEach, PrincipalIsTheSubject, LinksAreSound, CallKnows

\* A step in which one request moves on and no account is inserted or written.
LEMMA CallMoves ==
  ASSUME SignInIInv, NEW c \in SignInCall, NEW step, NEW account \in NoneOr(Account),
         Moves(c, step, account), signIn[c].step # "idle",
         step \in {"refused", "unknown", "known", "failed", "checked", "refreshed", "answered"},
         step \in {"known", "checked", "refreshed", "answered"} =>
           account # NoAccount /\ linked[signIn[c].subject] = account,
         UNCHANGED <<accounts, linked, inserted>>
  PROVE  SignInIInv'
<1>1. signIn[c] \in CallType  BY DEF SignInIInv, SignInTypeOK
<1>2. /\ signIn'[c] = [signIn[c] EXCEPT !.step = step, !.account = account]
      /\ \A d \in SignInCall \ {c} : signIn'[d] = signIn[d]
      /\ signIn' \in [SignInCall -> CallType]
  BY <1>1 DEF SignInIInv, SignInTypeOK, Moves, CallType
<1>3. signIn'[c].step = step /\ signIn'[c].account = account
      /\ signIn'[c].subject = signIn[c].subject /\ signIn'[c].email = signIn[c].email
  BY <1>1, <1>2 DEF CallType
<1>4. \A d \in SignInCall : CallIsVerified(d)'
  BY <1>2, <1>3 DEF SignInIInv, CallIsVerified
<1>5. CallKnows(c)'
  BY <1>3 DEF CallKnows
<1>6. ASSUME NEW d \in SignInCall \ {c} PROVE CallKnows(d)'
  <2>1. CallKnows(d)  BY DEF SignInIInv
  <2> QED  BY ZenonT(60), <1>2, <1>3, <2>1 DEF CallKnows
<1>7. SignInTypeOK' /\ LinksAreSound' /\ EveryAccountIsReachable'
  BY <1>2 DEF SignInIInv, SignInTypeOK, LinksAreSound, EveryAccountIsReachable
<1> QED  BY <1>4, <1>5, <1>6, <1>7 DEF SignInIInv

\* A conflict gives way to the identity that is there, or to a failure.
LEMMA RecoveryKeepsInv ==
  ASSUME SignInIInv, NEW c \in SignInCall, Recovers(c), signIn[c].step \in {"unknown", "user_added"},
         UNCHANGED <<accounts, linked, inserted>>
  PROVE  SignInIInv'
<1>1. signIn[c].subject \in Subject
  BY DEF SignInIInv, CallIsVerified
<1>2. linked[signIn[c].subject] \in NoneOr(Account) /\ NoAccount \in NoneOr(Account)
  BY <1>1 DEF SignInIInv, SignInTypeOK, NoneOr
<1>3. CASE linked[signIn[c].subject] # NoAccount
  BY <1>2, <1>3, CallMoves DEF Recovers
<1>4. CASE linked[signIn[c].subject] = NoAccount
  BY <1>2, <1>4, CallMoves DEF Recovers
<1> QED  BY <1>3, <1>4

-------------------------------------------------------------------------------
LEMMA ArrivalKeepsInv ==
  ASSUME SignInIInv, NEW c \in SignInCall, NEW subject \in Subject, NEW email \in Email,
         Arrives(c, subject, email)
  PROVE  SignInIInv'
<1>1. /\ signIn'[c] = [step |-> "verified", subject |-> subject, email |-> email, account |-> NoAccount]
      /\ \A d \in SignInCall \ {c} : signIn'[d] = signIn[d]
      /\ signIn' \in [SignInCall -> CallType]
  BY DEF SignInIInv, SignInTypeOK, Arrives, CallType, NoneOr
<1>2. \A d \in SignInCall : CallIsVerified(d)'
  BY <1>1 DEF SignInIInv, CallIsVerified
<1>3. CallKnows(c)' /\ \A d \in SignInCall \ {c} : CallKnows(d)'
  BY <1>1 DEF SignInIInv, CallKnows, Arrives
<1>4. SignInTypeOK' /\ LinksAreSound' /\ EveryAccountIsReachable'
  BY <1>1 DEF SignInIInv, SignInTypeOK, LinksAreSound, EveryAccountIsReachable, Arrives
<1> QED  BY <1>2, <1>3, <1>4 DEF SignInIInv

LEMMA ProvisionKeepsInv ==
  ASSUME SignInIInv, NEW c \in SignInCall, Provisions(c)
  PROVE  SignInIInv'
<1>1. signIn[c].subject \in Subject /\ signIn[c].step # "idle"
  BY DEF SignInIInv, CallIsVerified, Provisions
<1>2. linked[signIn[c].subject] \in NoneOr(Account) /\ NoAccount \in NoneOr(Account)
  BY <1>1 DEF SignInIInv, SignInTypeOK, NoneOr
<1>3. CASE linked[signIn[c].subject] # NoAccount
  BY <1>1, <1>2, <1>3, CallMoves DEF Provisions
<1>4. CASE linked[signIn[c].subject] = NoAccount
  <2>1. Moves(c, "refused", NoAccount) \/ Moves(c, "unknown", NoAccount)
    BY <1>4 DEF Provisions
  <2>2. UNCHANGED <<accounts, linked, inserted>>  BY DEF Provisions
  <2>3. CASE Moves(c, "refused", NoAccount)  BY <1>1, <1>2, <2>2, <2>3, CallMoves
  <2>4. CASE Moves(c, "unknown", NoAccount)  BY <1>1, <1>2, <2>2, <2>4, CallMoves
  <2> QED  BY <2>1, <2>3, <2>4
<1> QED  BY <1>3, <1>4

\* The new account's key was never used.
LEMMA AddingUserKeepsInv ==
  ASSUME SignInIInv, NEW c \in SignInCall, AddsUser(c)
  PROVE  SignInIInv'
<1>1. CASE EmailOwner(signIn[c].email) # {}
  BY <1>1, RecoveryKeepsInv DEF AddsUser
<1>2. CASE EmailOwner(signIn[c].email) = {}
  <2>1. /\ Moves(c, "user_added", inserted + 1) /\ inserted' = inserted + 1
        /\ inserted < MaxAccount /\ UNCHANGED <<accounts, linked>>
        /\ signIn[c].step = "unknown"
    BY <1>2 DEF AddsUser
  <2>2. inserted \in Nat /\ MaxAccount \in Nat /\ inserted + 1 \in Account
        /\ inserted' \in 0..MaxAccount
    BY <2>1, SignInBounds DEF SignInIInv, SignInTypeOK, Account
  <2>3. signIn[c] \in CallType /\ inserted + 1 \in NoneOr(Account)
    BY <2>2 DEF SignInIInv, SignInTypeOK, NoneOr
  <2>4. /\ signIn'[c] = [signIn[c] EXCEPT !.step = "user_added", !.account = inserted + 1]
        /\ \A d \in SignInCall \ {c} : signIn'[d] = signIn[d]
        /\ signIn' \in [SignInCall -> CallType]
    BY <2>1, <2>3 DEF SignInIInv, SignInTypeOK, Moves, CallType
  <2>5. signIn'[c].step = "user_added" /\ signIn'[c].account = inserted + 1
        /\ signIn'[c].subject = signIn[c].subject /\ signIn'[c].email = signIn[c].email
    BY <2>3, <2>4 DEF CallType
  <2>6. \A d \in SignInCall : CallIsVerified(d)'
    BY <2>1, <2>4, <2>5 DEF SignInIInv, CallIsVerified
  <2>7. CallKnows(c)'
    <3>1. \A s \in Subject : linked'[s] # inserted + 1
      BY <2>1, <2>2, SignInBounds DEF SignInIInv, LinksAreSound
    <3>2. \A d \in SignInCall \ {c} :
            signIn[d].step \in {"user_added", "linked"} => signIn[d].account # inserted + 1
      BY <2>2 DEF SignInIInv, CallKnows
    <3>3. inserted + 1 \in 1..inserted'
      BY <2>1, <2>2
    <3> QED  BY <2>4, <2>5, <3>1, <3>2, <3>3 DEF CallKnows
  <2>8. ASSUME NEW d \in SignInCall \ {c} PROVE CallKnows(d)'
    <3>1. CallKnows(d)  BY DEF SignInIInv
    <3>2. signIn[d].account \in 1..inserted =>
            signIn[d].account \in 1..inserted' /\ signIn[d].account # inserted + 1
      BY <2>1, <2>2
    <3> QED  BY ZenonT(60), <2>1, <2>4, <2>5, <3>1, <3>2 DEF CallKnows
  <2>9. LinksAreSound'
    BY <2>1, <2>2 DEF SignInIInv, LinksAreSound
  <2>10. SignInTypeOK' /\ EveryAccountIsReachable'
    BY <2>1, <2>2, <2>4 DEF SignInIInv, SignInTypeOK, EveryAccountIsReachable
  <2> QED  BY <2>6, <2>7, <2>8, <2>9, <2>10 DEF SignInIInv
<1> QED  BY <1>1, <1>2

\* The account is the request's own, and so is the subject's unique key.
LEMMA AddingIdentityKeepsInv ==
  ASSUME SignInIInv, NEW c \in SignInCall, AddsIdentity(c)
  PROVE  SignInIInv'
<1>1. CASE linked[signIn[c].subject] # NoAccount
  BY <1>1, RecoveryKeepsInv DEF AddsIdentity
<1>2. CASE linked[signIn[c].subject] = NoAccount
  <2>1. /\ Moves(c, "linked", signIn[c].account)
        /\ signIn[c].step = "user_added" /\ SubjectHolders(signIn[c].subject) \subseteq {c}
        /\ UNCHANGED <<accounts, linked, inserted>>
    BY <1>2 DEF AddsIdentity
  <2>2. signIn[c] \in CallType  BY DEF SignInIInv, SignInTypeOK
  <2>3. /\ signIn'[c] = [signIn[c] EXCEPT !.step = "linked"]
        /\ \A d \in SignInCall \ {c} : signIn'[d] = signIn[d]
        /\ signIn' \in [SignInCall -> CallType]
    BY <2>1, <2>2 DEF SignInIInv, SignInTypeOK, Moves, CallType
  <2>4. signIn'[c].step = "linked" /\ signIn'[c].account = signIn[c].account
        /\ signIn'[c].subject = signIn[c].subject /\ signIn'[c].email = signIn[c].email
    BY <2>2, <2>3 DEF CallType
  <2>5. \A d \in SignInCall \ {c} :
          signIn[d].step = "linked" => signIn[d].subject # signIn[c].subject
    BY <2>1 DEF SubjectHolders
  <2>6. \A d \in SignInCall : CallIsVerified(d)'
    BY <2>1, <2>3, <2>4 DEF SignInIInv, CallIsVerified
  <2>7. CallKnows(c)'
    <3>1. CallKnows(c)  BY DEF SignInIInv
    <3> QED  BY <1>2, <2>1, <2>3, <2>4, <2>5, <3>1 DEF CallKnows
  <2>8. ASSUME NEW d \in SignInCall \ {c} PROVE CallKnows(d)'
    <3>1. CallKnows(d) /\ signIn'[d] = signIn[d]  BY <2>3 DEF SignInIInv
    <3>2. \A e \in SignInCall \ {d} :
            /\ signIn'[e].account = signIn[e].account /\ signIn'[e].subject = signIn[e].subject
            /\ signIn'[e].step \in {"user_added", "linked"} =>
                 signIn[e].step \in {"user_added", "linked"}
      BY <2>1, <2>3, <2>4
    <3>3. signIn[d].step = "linked" =>
            \A e \in SignInCall \ {d} :
              signIn'[e].step = "linked" => signIn'[e].subject # signIn[d].subject
      <4> SUFFICES ASSUME signIn[d].step = "linked", NEW e \in SignInCall \ {d},
                          signIn'[e].step = "linked"
                   PROVE  signIn'[e].subject # signIn[d].subject
        OBVIOUS
      <4>1. CASE e = c  BY <2>4, <2>5, <4>1
      <4>2. CASE e # c
        <5>1. signIn'[e] = signIn[e]  BY <2>3, <4>2
        <5> QED  BY <3>1, <5>1 DEF CallKnows
      <4> QED  BY <4>1, <4>2
    <3> QED  BY <2>1, <3>1, <3>2, <3>3 DEF CallKnows
  <2>9. SignInTypeOK' /\ LinksAreSound' /\ EveryAccountIsReachable'
    BY <2>1, <2>3 DEF SignInIInv, SignInTypeOK, LinksAreSound, EveryAccountIsReachable
  <2> QED  BY <2>6, <2>7, <2>8, <2>9 DEF SignInIInv
<1> QED  BY <1>1, <1>2

\* The subject had no account and gets one that nobody has.
LEMMA CommitKeepsInv ==
  ASSUME SignInIInv, NEW c \in SignInCall, CommitsAccount(c)
  PROVE  SignInIInv'
<1> DEFINE s == signIn[c].subject  a == signIn[c].account  e == signIn[c].email
<1>1. /\ signIn[c].step = "linked" /\ inserted' = inserted
      /\ accounts' = [accounts EXCEPT ![a] = e] /\ linked' = [linked EXCEPT ![s] = a]
      /\ Moves(c, "answered", a)
  BY DEF CommitsAccount
<1>2. CallKnows(c) /\ signIn[c] \in CallType /\ s \in Subject /\ e \in Email
  BY <1>1 DEF SignInIInv, SignInTypeOK, CallIsVerified
<1>3. /\ a \in 1..inserted /\ linked[s] = NoAccount
      /\ \A t \in Subject : linked[t] # a
      /\ \A d \in SignInCall \ {c} :
           /\ signIn[d].step \in {"user_added", "linked"} => signIn[d].account # a
           /\ signIn[d].step = "linked" => signIn[d].subject # s
  BY <1>1, <1>2 DEF CallKnows
<1>4. a \in Account /\ a # NoAccount
  BY <1>3, SignInBounds DEF SignInIInv, SignInTypeOK, Account
<1> HIDE DEF s, a, e
<1>5. /\ signIn'[c] = [signIn[c] EXCEPT !.step = "answered", !.account = a]
      /\ \A d \in SignInCall \ {c} : signIn'[d] = signIn[d]
      /\ signIn' \in [SignInCall -> CallType]
  BY <1>1, <1>2, <1>4 DEF SignInIInv, SignInTypeOK, Moves, CallType, NoneOr
<1>6. signIn'[c].step = "answered" /\ signIn'[c].account = a
      /\ signIn'[c].subject = s /\ signIn'[c].email = e
  BY <1>2, <1>5 DEF CallType, s, e
<1>7. /\ linked'[s] = a /\ \A t \in Subject \ {s} : linked'[t] = linked[t]
      /\ linked' \in [Subject -> NoneOr(Account)]
  BY <1>1, <1>2, <1>4 DEF SignInIInv, SignInTypeOK, NoneOr
<1>8. /\ accounts'[a] = e /\ \A b \in Account \ {a} : accounts'[b] = accounts[b]
      /\ accounts' \in [Account -> NoneOr(Email)]
  BY <1>1, <1>2, <1>4 DEF SignInIInv, SignInTypeOK, NoneOr
<1>9. \A d \in SignInCall : CallIsVerified(d)'
  BY <1>2, <1>5, <1>6 DEF SignInIInv, CallIsVerified
<1>10. CallKnows(c)'
  BY <1>4, <1>6, <1>7 DEF CallKnows
<1>11. ASSUME NEW d \in SignInCall \ {c} PROVE CallKnows(d)'
  <2>1. CallKnows(d) /\ CallIsVerified(d) /\ signIn'[d] = signIn[d]
    BY <1>5 DEF SignInIInv
  <2>2. signIn[d].step \in {"known", "checked", "refreshed", "answered"} =>
          signIn[d].account # NoAccount /\ linked'[signIn[d].subject] = signIn[d].account
    <3> SUFFICES ASSUME signIn[d].step \in {"known", "checked", "refreshed", "answered"}
                 PROVE  signIn[d].account # NoAccount
                        /\ linked'[signIn[d].subject] = signIn[d].account
      OBVIOUS
    <3>1. signIn[d].account # NoAccount /\ linked[signIn[d].subject] = signIn[d].account
          /\ signIn[d].subject \in Subject
      BY <2>1 DEF CallKnows, CallIsVerified
    <3>2. signIn[d].subject # s
      BY <1>3, <3>1
    <3> QED  BY <1>7, <3>1, <3>2
  <2>3. signIn[d].step \in {"user_added", "linked"} =>
          /\ signIn[d].account \in 1..inserted'
          /\ \A t \in Subject : linked'[t] # signIn[d].account
    BY <1>1, <1>3, <1>7, <2>1 DEF CallKnows
  <2>4. signIn[d].step = "linked" => linked'[signIn[d].subject] = NoAccount
    BY <1>3, <1>7, <2>1 DEF CallKnows, CallIsVerified
  <2> QED  BY <1>5, <1>6, <2>1, <2>2, <2>3, <2>4 DEF CallKnows
<1>12. LinksAreSound'
  BY <1>1, <1>3, <1>7 DEF SignInIInv, LinksAreSound
<1>13. EveryAccountIsReachable'
  <2> SUFFICES ASSUME NEW b \in Account, accounts'[b] # NoAccount
               PROVE  \E t \in Subject : linked'[t] = b
    BY DEF EveryAccountIsReachable
  <2>1. CASE b = a  BY <1>2, <1>7, <2>1
  <2>2. CASE b # a
    <3>1. accounts[b] # NoAccount  BY <1>8, <2>2
    <3>2. PICK t \in Subject : linked[t] = b
      BY <3>1 DEF SignInIInv, EveryAccountIsReachable
    <3>3. t # s  BY <1>3, <3>2, SignInBounds DEF Account
    <3> QED  BY <1>7, <3>2, <3>3
  <2> QED  BY <2>1, <2>2
<1>14. SignInTypeOK'
  BY <1>1, <1>5, <1>7, <1>8 DEF SignInIInv, SignInTypeOK
<1> QED  BY <1>9, <1>10, <1>11, <1>12, <1>13, <1>14 DEF SignInIInv

-------------------------------------------------------------------------------
LEMMA CheckKeepsInv ==
  ASSUME SignInIInv, NEW c \in SignInCall, ChecksEmail(c)
  PROVE  SignInIInv'
<1>1. /\ signIn[c].account # NoAccount /\ linked[signIn[c].subject] = signIn[c].account
      /\ signIn[c].step = "known" /\ signIn[c].account \in NoneOr(Account)
  BY DEF SignInIInv, SignInTypeOK, CallType, CallKnows, ChecksEmail
<1>2. PICK step \in {"refused", "answered", "checked"} : Moves(c, step, signIn[c].account)
  BY DEF ChecksEmail
<1> QED  BY <1>1, <1>2, CallMoves DEF ChecksEmail

LEMMA RefreshKeepsInv ==
  ASSUME SignInIInv, NEW c \in SignInCall, RefreshesUser(c)
  PROVE  SignInIInv'
<1>1. /\ signIn[c].account # NoAccount /\ linked[signIn[c].subject] = signIn[c].account
      /\ signIn[c].step = "checked" /\ signIn[c].account \in NoneOr(Account)
  BY DEF SignInIInv, SignInTypeOK, CallType, CallKnows, RefreshesUser
<1>2. PICK step \in {"failed", "refreshed"} : Moves(c, step, signIn[c].account)
  BY DEF RefreshesUser
<1> QED  BY <1>1, <1>2, CallMoves DEF RefreshesUser

\* The address is written to an account that its subject is linked with.
LEMMA RefreshCommitKeepsInv ==
  ASSUME SignInIInv, NEW c \in SignInCall, CommitsRefresh(c)
  PROVE  SignInIInv'
<1> DEFINE a == signIn[c].account  e == signIn[c].email
<1>1. /\ signIn[c].step = "refreshed" /\ UNCHANGED <<linked, inserted>>
      /\ accounts' = [accounts EXCEPT ![a] = e] /\ Moves(c, "answered", a)
  BY DEF CommitsRefresh
<1>2. /\ signIn[c] \in CallType /\ e \in Email /\ signIn[c].subject \in Subject
      /\ a # NoAccount /\ linked[signIn[c].subject] = a
  BY <1>1 DEF SignInIInv, SignInTypeOK, CallIsVerified, CallKnows
<1>3. a \in Account
  BY <1>2 DEF CallType, NoneOr
<1> HIDE DEF a, e
<1>4. /\ signIn'[c] = [signIn[c] EXCEPT !.step = "answered", !.account = a]
      /\ \A d \in SignInCall \ {c} : signIn'[d] = signIn[d]
      /\ signIn' \in [SignInCall -> CallType]
  BY <1>1, <1>2, <1>3 DEF SignInIInv, SignInTypeOK, Moves, CallType, NoneOr
<1>5. signIn'[c].step = "answered" /\ signIn'[c].account = a
      /\ signIn'[c].subject = signIn[c].subject /\ signIn'[c].email = signIn[c].email
  BY <1>2, <1>4 DEF CallType
<1>6. \A d \in SignInCall : CallIsVerified(d)'
  BY <1>1, <1>4, <1>5 DEF SignInIInv, CallIsVerified
<1>7. CallKnows(c)'
  BY <1>1, <1>2, <1>5 DEF CallKnows
<1>8. ASSUME NEW d \in SignInCall \ {c} PROVE CallKnows(d)'
  <2>1. CallKnows(d)  BY DEF SignInIInv
  <2> QED  BY ZenonT(60), <1>1, <1>4, <1>5, <2>1 DEF CallKnows
<1>9. /\ \A b \in Account \ {a} : accounts'[b] = accounts[b]
      /\ accounts' \in [Account -> NoneOr(Email)]
  BY <1>1, <1>2, <1>3 DEF SignInIInv, SignInTypeOK, NoneOr
<1>10. EveryAccountIsReachable'
  BY <1>1, <1>2, <1>9 DEF SignInIInv, EveryAccountIsReachable
<1>11. SignInTypeOK' /\ LinksAreSound'
  BY <1>1, <1>4, <1>9 DEF SignInIInv, SignInTypeOK, LinksAreSound
<1> QED  BY <1>6, <1>7, <1>8, <1>10, <1>11 DEF SignInIInv

-------------------------------------------------------------------------------
LEMMA SignInNextKeepsInv == SignInIInv /\ [SignInNext]_signInVars => SignInIInv'
<1> SUFFICES ASSUME SignInIInv, [SignInNext]_signInVars PROVE SignInIInv'
  OBVIOUS
<1>1. CASE UNCHANGED signInVars
  BY <1>1 DEF signInVars, SignInIInv, SignInTypeOK, CallIsVerified, CallKnows, LinksAreSound,
              EveryAccountIsReachable
<1> QED
  BY <1>1, ArrivalKeepsInv, ProvisionKeepsInv, AddingUserKeepsInv, AddingIdentityKeepsInv,
     CommitKeepsInv, CheckKeepsInv, RefreshKeepsInv, RefreshCommitKeepsInv
     DEF SignInNext

\* For any number of requests, subjects and addresses: every account can be
\* signed in to, by one subject, and a request is answered with its own
\* (provision and _refresh in identities.py).
THEOREM EveryoneHasOneAccount == SignInSpec => []OneAccountEach
<1>1. SignInSpec => []SignInIInv
  BY SignInInitHolds, SignInNextKeepsInv, PTL DEF SignInSpec
<1> QED  BY <1>1, SignInInvariantImplies, PTL

-------------------------------------------------------------------------------
(* However many requests carry one idempotency key, and however they           *)
(* interleave, they share one task that was whole from the start.              *)

RequestType ==
  [step : {"idle", "sent", "absent", "existing", "inserted", "done", "conflict", "error"},
   input : SearchInput \union {NoSubmission}, created : BOOLEAN]

\* A request under way has an input, and what it knows of the key is so: a task
\* that was found stays, and one that was inserted has the key for itself.
RequestKnows(u) ==
  /\ submission[u].step # "idle" => submission[u].input # NoSubmission
  /\ submission[u].step = "existing" => keyed # NoSubmission
  /\ submission[u].step = "inserted" => keyed = NoSubmission

OneInserts ==
  \A u, v \in Submission :
    submission[u].step = "inserted" /\ submission[v].step = "inserted" => u = v

\* The task, its inputs and its outbox record come together.
TaskIsWhole ==
  /\ keyed # NoSubmission => outboxed
  /\ TaskHasInputs

\* The inductive invariant. That a task was there when it was found, and none
\* when it was inserted, is what the lock of the unique key provides.
SubmissionIInv ==
  /\ submission \in [Submission -> RequestType]
  /\ \A u \in Submission : RequestKnows(u)
  /\ OneInserts
  /\ TaskIsWhole
  /\ accepted \subseteq {inputs} \ {NoSubmission}

-------------------------------------------------------------------------------
LEMMA SubmissionInitHolds == SubmissionInit => SubmissionIInv
BY DEF SubmissionInit, SubmissionIInv, RequestType, NoRequest, RequestKnows, OneInserts,
       TaskIsWhole, TaskHasInputs

LEMMA SubmissionInvariantImplies == SubmissionIInv => OneSearchPerKey
BY DEF SubmissionIInv, OneSearchPerKey, RacersShareOneSearch, TaskIsWhole, TaskHasInputs

\* A request that only moves to another place of its handler writes no row.
LEMMA RequestMoves ==
  ASSUME SubmissionIInv, NEW u \in Submission, NEW step,
         Goes(u, step), submission[u].step # "idle",
         step \in {"absent", "existing", "inserted", "done", "conflict", "error"},
         step = "existing" => keyed # NoSubmission,
         step = "inserted" =>
           keyed = NoSubmission /\ \A v \in Submission : submission[v].step # "inserted",
         UNCHANGED <<keyed, inputs, outboxed, accepted>>
  PROVE  SubmissionIInv'
<1>1. submission' \in [Submission -> RequestType]
  BY DEF SubmissionIInv, RequestType, Goes
<1>2. \A v \in Submission : RequestKnows(v)'
  BY DEF SubmissionIInv, RequestType, RequestKnows, Goes
<1>3. OneInserts'
  BY DEF SubmissionIInv, RequestType, OneInserts, Goes
<1>4. TaskIsWhole' /\ (accepted \subseteq {inputs} \ {NoSubmission})'
  BY DEF SubmissionIInv, TaskIsWhole, TaskHasInputs
<1> QED  BY <1>1, <1>2, <1>3, <1>4 DEF SubmissionIInv

LEMMA SubmissionNextKeepsInv == SubmissionIInv /\ [SubmissionNext]_submissionVars => SubmissionIInv'
<1> SUFFICES ASSUME SubmissionIInv, [SubmissionNext]_submissionVars PROVE SubmissionIInv'
  OBVIOUS
<1>1. CASE UNCHANGED submissionVars
  BY <1>1 DEF submissionVars, SubmissionIInv, RequestKnows, OneInserts, TaskIsWhole, TaskHasInputs
<1>2. ASSUME NEW u \in Submission, NEW input \in SearchInput, Submit(u, input)
      PROVE  SubmissionIInv'
  <2>1. submission' \in [Submission -> RequestType]
    BY <1>2 DEF SubmissionIInv, RequestType, Submit
  <2>2. (\A v \in Submission : RequestKnows(v)') /\ OneInserts'
    BY <1>2, SubmissionAssumption DEF SubmissionIInv, RequestType, RequestKnows, OneInserts, Submit
  <2>3. TaskIsWhole' /\ (accepted \subseteq {inputs} \ {NoSubmission})'
    BY <1>2 DEF SubmissionIInv, TaskIsWhole, TaskHasInputs, Submit
  <2> QED  BY <2>1, <2>2, <2>3 DEF SubmissionIInv
<1>3. ASSUME NEW u \in Submission, LooksUpKey(u) PROVE SubmissionIInv'
  <2>1. CASE keyed = NoSubmission
    BY <1>3, <2>1, RequestMoves DEF LooksUpKey
  <2>2. CASE keyed # NoSubmission
    BY <1>3, <2>2, RequestMoves DEF LooksUpKey
  <2> QED  BY <2>1, <2>2
<1>4. ASSUME NEW u \in Submission, InsertsTask(u) PROVE SubmissionIInv'
  <2>1. CASE keyed = NoSubmission
    BY <1>4, <2>1, RequestMoves DEF InsertsTask
  <2>2. CASE keyed # NoSubmission
    BY <1>4, <2>2, RequestMoves DEF InsertsTask
  <2> QED  BY <2>1, <2>2
<1>5. ASSUME NEW u \in Submission, CommitsTask(u) PROVE SubmissionIInv'
  <2>1. submission[u].input \in SearchInput /\ submission[u].input # NoSubmission
        /\ keyed = NoSubmission /\ inputs = NoSubmission
    BY <1>5 DEF CommitsTask, SubmissionIInv, RequestType, RequestKnows, TaskIsWhole, TaskHasInputs
  <2>2. submission' \in [Submission -> RequestType]
    BY ZenonT(60), <1>5 DEF SubmissionIInv, RequestType, CommitsTask
  <2>3. \A v \in Submission : v # u => submission[v].step # "inserted"
    BY <1>5 DEF SubmissionIInv, OneInserts, CommitsTask
  <2>4. (\A v \in Submission : RequestKnows(v)') /\ OneInserts'
    BY <1>5, <2>3, SubmissionAssumption DEF SubmissionIInv, RequestType, RequestKnows, OneInserts, CommitsTask
  <2>5. TaskIsWhole' /\ (accepted \subseteq {inputs} \ {NoSubmission})'
    BY <1>5, <2>1, SubmissionAssumption DEF SubmissionIInv, TaskIsWhole, TaskHasInputs, CommitsTask
  <2> QED  BY <2>2, <2>4, <2>5 DEF SubmissionIInv
<1>6. ASSUME NEW u \in Submission, RollsBack(u) PROVE SubmissionIInv'
  BY <1>6, RequestMoves DEF RollsBack
<1>7. ASSUME NEW u \in Submission, Resolves(u) PROVE SubmissionIInv'
  <2>1. /\ keyed # NoSubmission /\ inputs # NoSubmission /\ outboxed
        /\ submission[u].step = "existing"
    BY <1>7 DEF Resolves, SubmissionIInv, RequestKnows, TaskIsWhole, TaskHasInputs
  <2>2. inputs' = inputs /\ outboxed' = TRUE /\ keyed' = keyed
        /\ accepted' \subseteq accepted \union {inputs}
    BY <1>7, <2>1 DEF Resolves
  <2>3. Goes(u, IF inputs = submission[u].input THEN "done" ELSE "conflict")
    BY <1>7, <2>1 DEF Resolves
  <2>4. submission' \in [Submission -> RequestType]
    BY <2>3 DEF SubmissionIInv, RequestType, Goes
  <2>5. (\A v \in Submission : RequestKnows(v)') /\ OneInserts'
    BY <2>1, <2>2, <2>3 DEF SubmissionIInv, RequestType, RequestKnows, OneInserts, Goes
  <2>6. TaskIsWhole' /\ (accepted \subseteq {inputs} \ {NoSubmission})'
    BY <2>1, <2>2 DEF SubmissionIInv, TaskIsWhole, TaskHasInputs
  <2> QED  BY <2>4, <2>5, <2>6 DEF SubmissionIInv
<1> QED
  BY <1>1, <1>2, <1>3, <1>4, <1>5, <1>6, <1>7 DEF SubmissionNext

\* For any number of requests and inputs: who is answered with the task of a
\* key asked for the search it runs, and the task is never seen without its
\* inputs (create in job_discovery_tasks.py and tasks.py).
THEOREM SearchesAreShared == SubmissionSpec => []OneSearchPerKey
<1>1. SubmissionSpec => []SubmissionIInv
  BY SubmissionInitHolds, SubmissionNextKeepsInv, PTL DEF SubmissionSpec
<1> QED  BY <1>1, SubmissionInvariantImplies, PTL

-------------------------------------------------------------------------------
(* However many uploads of one user overlap, one resume is active: the latest. *)
(* The argument is about the number an upload has read. As long as it is still *)
(* free nobody has saved a version since, so what the upload deactivates is    *)
(* what is active; once it is taken the insert fails.                          *)

UploadType ==
  [step : {"idle", "parsed", "numbered", "updating", "deactivated", "saved", "failed"},
   version : Nat, sees : SUBSET Nat, off : SUBSET Nat]

\* The only version there is to deactivate, when there are n of them.
LastSaved(n) == {n} \ {0}

\* What an upload whose number is still free knows of the n versions.
UploadKnows(w, n) ==
  /\ upload[w].step \in {"numbered", "updating", "deactivated"} => upload[w].version \in 1..(n + 1)
  /\ upload[w].version = n + 1 =>
       /\ upload[w].step = "updating" => upload[w].sees = LastSaved(n)
       /\ upload[w].step = "deactivated" => upload[w].off = LastSaved(n)

LibraryHas(n) ==
  /\ Saved = 1..n
  /\ resumeActive \in [1..n -> BOOLEAN]
  /\ \A v \in 1..n : resumeActive[v] <=> v = n
  /\ upload \in [Upload -> UploadType]
  /\ \A w \in Upload : UploadKnows(w, n)

\* The inductive invariant: versions have no gaps, the last one is active, and
\* uploads know what they rely on.
ResumeIInv == \E n \in Nat : LibraryHas(n)

-------------------------------------------------------------------------------
LEMMA HighestIsLast == ASSUME NEW n \in Nat, Saved = 1..n PROVE Highest = n
<1>1. CASE n = 0  BY <1>1 DEF Highest
<1>2. CASE n # 0
  <2> DEFINE IsHighest(v) == v \in Saved /\ \A u \in Saved : u <= v
  <2>1. IsHighest(n)  BY <1>2
  <2>2. Highest = CHOOSE v : IsHighest(v)
    BY <1>2 DEF Highest
  <2>3. IsHighest(Highest)  BY <2>1, <2>2
  <2> QED  BY <1>2, <2>3
<1> QED  BY <1>1, <1>2

LEMMA ResumeInitHolds == ResumeInit => ResumeIInv
<1> SUFFICES ASSUME ResumeInit PROVE LibraryHas(0)
  BY DEF ResumeIInv
<1>1. DOMAIN resumeActive = 1..0  BY DEF ResumeInit
<1>2. resumeActive \in [1..0 -> BOOLEAN]  BY DEF ResumeInit
<1>3. upload \in [Upload -> UploadType] /\ \A w \in Upload : UploadKnows(w, 0)
  BY DEF ResumeInit, NoUpload, UploadType, UploadKnows
<1> QED  BY <1>1, <1>2, <1>3 DEF LibraryHas, Saved

LEMMA ResumeInvariantImplies == ResumeIInv => OneActiveResume
<1> SUFFICES ASSUME NEW n \in Nat, LibraryHas(n) PROVE OneActiveResume
  BY DEF ResumeIInv
<1>1. Highest = n  BY HighestIsLast DEF LibraryHas
<1>2. {v \in 1..n : resumeActive[v]} = {n} \ {0}  BY DEF LibraryHas
<1> QED  BY <1>1, <1>2 DEF OneActiveResume, LibraryHas

\* An upload that writes nothing keeps the invariant when it knows what it is
\* to know at its new place.
LEMMA UploadMoves ==
  ASSUME NEW n \in Nat, LibraryHas(n), NEW w \in Upload, NEW new \in UploadType,
         upload' = [upload EXCEPT ![w] = new], UNCHANGED resumeActive,
         new.step \in {"numbered", "updating", "deactivated"} => new.version \in 1..(n + 1),
         new.version = n + 1 =>
           /\ new.step = "updating" => new.sees = LastSaved(n)
           /\ new.step = "deactivated" => new.off = LastSaved(n)
  PROVE  ResumeIInv'
<1>1. (\A x \in Upload : UploadKnows(x, n))'
  BY DEF LibraryHas, UploadKnows
<1> QED  BY <1>1 DEF ResumeIInv, LibraryHas, Saved

LEMMA ResumeNextKeepsInv == ResumeIInv /\ [ResumeNext]_resumeVars => ResumeIInv'
<1> SUFFICES ASSUME NEW n \in Nat, LibraryHas(n), [ResumeNext]_resumeVars PROVE ResumeIInv'
  BY DEF ResumeIInv
<1>a. Highest = n /\ Saved = 1..n  BY HighestIsLast DEF LibraryHas
<1>b. \A v \in 1..n : resumeActive[v] <=> v = n  BY DEF LibraryHas
<1>c. ASSUME NEW w \in Upload PROVE upload[w] \in UploadType /\ UploadKnows(w, n)
  BY DEF LibraryHas
<1>1. CASE UNCHANGED resumeVars
  BY <1>1 DEF resumeVars, ResumeIInv, LibraryHas, Saved, UploadKnows
<1>2. ASSUME NEW w \in Upload, Uploads(w) PROVE ResumeIInv'
  <2> DEFINE new == [NoUpload EXCEPT !.step = "parsed"]
  <2>1. new \in UploadType /\ new.step = "parsed"  BY DEF UploadType, NoUpload
  <2>2. upload' = [upload EXCEPT ![w] = new] /\ UNCHANGED resumeActive
    BY <1>2 DEF Uploads
  <2> HIDE DEF new
  <2> QED  BY <2>1, <2>2, UploadMoves
<1>3. ASSUME NEW w \in Upload, ReadsHighest(w) PROVE ResumeIInv'
  <2> DEFINE new == [upload[w] EXCEPT !.step = "numbered", !.version = n + 1]
  <2>0. upload[w] \in UploadType /\ n + 1 \in Nat  BY <1>c
  <2>1. new \in UploadType /\ new.step = "numbered" /\ new.version = n + 1
    BY <2>0 DEF UploadType
  <2>2. upload' = [upload EXCEPT ![w] = new] /\ UNCHANGED resumeActive
    BY <1>a, <1>3 DEF ReadsHighest
  <2>3. new.version \in 1..(n + 1)  BY <2>1
  <2> HIDE DEF new
  <2> QED  BY <2>1, <2>2, <2>3, UploadMoves
<1>4. ASSUME NEW w \in Upload, StartsUpdate(w) PROVE ResumeIInv'
  <2> DEFINE new == [upload[w] EXCEPT !.step = "updating", !.sees = {v \in Saved : resumeActive[v]}]
  <2>1. {v \in Saved : resumeActive[v]} = LastSaved(n)  BY <1>a, <1>b DEF LastSaved
  <2>2. new \in UploadType /\ new.step = "updating" /\ new.sees = LastSaved(n)
        /\ new.version = upload[w].version
    BY <1>c, <2>1 DEF UploadType, LastSaved
  <2>3. new.version \in 1..(n + 1)  BY <1>c, <1>4, <2>2 DEF StartsUpdate, UploadKnows
  <2>4. upload' = [upload EXCEPT ![w] = new] /\ UNCHANGED resumeActive
    BY <1>4 DEF StartsUpdate
  <2> HIDE DEF new
  <2> QED  BY <2>2, <2>3, <2>4, UploadMoves
<1>5. ASSUME NEW w \in Upload, Deactivates(w) PROVE ResumeIInv'
  <2> DEFINE off == {v \in upload[w].sees : resumeActive[v]}
             new == [upload[w] EXCEPT !.step = "deactivated", !.off = off]
  <2>1. off \subseteq Nat  BY <1>c DEF UploadType
  <2>2. new \in UploadType /\ new.step = "deactivated" /\ new.off = off
        /\ new.version = upload[w].version
    BY <1>c, <2>1 DEF UploadType
  <2>3. new.version \in 1..(n + 1)  BY <1>c, <1>5, <2>2 DEF Deactivates, UploadKnows
  <2>4. new.version = n + 1 => upload[w].sees = LastSaved(n)
    BY <1>c, <1>5, <2>2 DEF Deactivates, UploadKnows
  <2>5. new.version = n + 1 => off = LastSaved(n)
    BY <1>b, <2>4 DEF LastSaved
  <2>6. upload' = [upload EXCEPT ![w] = new] /\ UNCHANGED resumeActive
    BY <1>5 DEF Deactivates
  <2> HIDE DEF new, off
  <2> QED  BY <2>2, <2>3, <2>5, <2>6, UploadMoves
<1>6. ASSUME NEW w \in Upload, Inserts(w) PROVE ResumeIInv'
  <2>1. upload[w].version \in 1..(n + 1)
    BY <1>c, <1>6 DEF Inserts, UploadKnows
  <2>2. CASE upload[w].version \in Saved
    <3> DEFINE new == [NoUpload EXCEPT !.step = "failed"]
    <3>1. new \in UploadType /\ new.step = "failed"  BY DEF UploadType, NoUpload
    <3>2. upload' = [upload EXCEPT ![w] = new] /\ UNCHANGED resumeActive
      BY <1>6, <2>2 DEF Inserts
    <3> HIDE DEF new
    <3> QED  BY <3>1, <3>2, UploadMoves
  <2>3. CASE upload[w].version \notin Saved
    <3>1. upload[w].version = n + 1 /\ upload[w].off = LastSaved(n)
      BY <1>a, <1>c, <1>6, <2>1, <2>3 DEF Inserts, UploadKnows
    <3>2. Saved \union {n + 1} = 1..(n + 1)  BY <1>a
    <3>3. resumeActive' = [v \in Saved \union {upload[w].version} |->
            IF v = upload[w].version THEN TRUE ELSE resumeActive[v] /\ v \notin upload[w].off]
      BY <1>6, <2>3 DEF Inserts
    <3>4. /\ resumeActive' \in [1..(n + 1) -> BOOLEAN]
          /\ Saved' = 1..(n + 1)
          /\ \A v \in 1..(n + 1) : (resumeActive'[v] <=> v = n + 1)
      <4>1. Saved' = 1..(n + 1)
        BY <3>1, <3>2, <3>3, Zenon DEF Saved
      <4>2. \A v \in 1..(n + 1) : resumeActive'[v] =
              (IF v = n + 1 THEN TRUE ELSE resumeActive[v] /\ v \notin LastSaved(n))
        BY <3>1, <3>2, <3>3, Zenon
      <4>3. \A v \in 1..(n + 1) : v # n + 1 => v \in 1..n
        OBVIOUS
      <4>4. \A v \in 1..(n + 1) :
              (IF v = n + 1 THEN TRUE ELSE resumeActive[v] /\ v \notin LastSaved(n)) <=> v = n + 1
        BY <1>b, <4>3 DEF LastSaved
      <4>5. \A v \in 1..(n + 1) : (resumeActive'[v] <=> v = n + 1)
        BY <4>2, <4>4, Zenon
      <4>6. resumeActive' = [v \in 1..(n + 1) |-> resumeActive'[v]]
        BY <3>1, <3>2, <3>3, Zenon
      <4>7. \A v \in 1..(n + 1) : resumeActive'[v] \in BOOLEAN
        BY <4>2, Zenon
      <4>8. resumeActive' \in [1..(n + 1) -> BOOLEAN]
        BY <4>6, <4>7, Zenon
      <4> QED  BY <4>1, <4>5, <4>8
    <3>5. upload' = [upload EXCEPT ![w] = [NoUpload EXCEPT !.step = "saved"]]
      BY <1>6, <2>3 DEF Inserts
    <3>6. upload' \in [Upload -> UploadType]
      BY <3>5 DEF LibraryHas, UploadType, NoUpload
    <3>7. \A x \in Upload : UploadKnows(x, n + 1)'
      BY <1>c, <3>5 DEF LibraryHas, UploadKnows, UploadType, NoUpload
    <3>8. LibraryHas(n + 1)'  BY <3>4, <3>6, <3>7 DEF LibraryHas
    <3> QED  BY <3>8 DEF ResumeIInv
  <2> QED  BY <2>2, <2>3
<1> QED
  BY <1>1, <1>2, <1>3, <1>4, <1>5, <1>6 DEF ResumeNext

\* For any number of uploads: exactly the latest version of a user's resumes is
\* active (save_version in resumes.py).
THEOREM OneResumeIsActive == ResumeSpec => []OneActiveResume
<1>1. ResumeSpec => []ResumeIInv
  BY ResumeInitHolds, ResumeNextKeepsInv, PTL DEF ResumeSpec
<1> QED  BY <1>1, ResumeInvariantImplies, PTL

-------------------------------------------------------------------------------
(* However many requests ask for a resource at once, one instance of it is     *)
(* built. The argument is about its lock: who builds or stores holds it, so    *)
(* whoever takes it and finds no instance knows that none is under way.        *)

ResolutionType ==
  [resource : Resource \union {"none"},
   step : {"idle", "asks", "locks", "builds", "stores", "served"}, given : Nat]

ResourceTypeOK ==
  /\ slot \in [Resource -> Nat \union {Unset}]
  /\ holder \in [Resource -> Dependent \union {Unset}]
  /\ built \in [Resource -> Nat]
  /\ resolving \in [Dependent -> ResolutionType]
  /\ stopped \in BOOLEAN

\* Who builds or stores an instance of a guarded resource has its lock.
LockIsHeld(r) ==
  \A d \in Dependent : At(d, r, "builds") \/ At(d, r, "stores") => holder[r] = d

\* One instance is built, by who found none; it is stored before the lock is
\* given back, and everyone who is served has it.
InstanceIsKnown(r) ==
  /\ built[r] \in {0, 1} /\ slot[r] \in {Unset, 1}
  /\ slot[r] = 1 => built[r] = 1
  /\ built[r] = 1 /\ slot[r] = Unset => \E d \in Dependent : At(d, r, "stores")
  /\ \A d \in Dependent :
       /\ At(d, r, "builds") => built[r] = 0
       /\ At(d, r, "stores") => built[r] = 1 /\ slot[r] = Unset /\ resolving[d].given = 1
       /\ At(d, r, "served") => slot[r] = 1 /\ resolving[d].given = 1

\* Nothing is resolved in a process that stopped, and what it built is released.
StopReleases ==
  stopped =>
    /\ \A d \in Dependent : resolving[d] = Idle
    /\ \A r \in Guarded \intersect Released : released[r] = 1..built[r]

ResourceIInv ==
  /\ ResourceTypeOK
  /\ \A r \in Guarded : LockIsHeld(r) /\ InstanceIsKnown(r)
  /\ StopReleases

-------------------------------------------------------------------------------
LEMMA ResourceInitHolds == ResourceInit => ResourceIInv
<1> SUFFICES ASSUME ResourceInit PROVE ResourceIInv  OBVIOUS
<1>1. ResourceTypeOK
  BY DEF ResourceInit, ResourceTypeOK, ResolutionType, Idle
<1>2. ASSUME NEW r \in Guarded PROVE LockIsHeld(r) /\ InstanceIsKnown(r)
  BY ResourceAssumption DEF ResourceInit, LockIsHeld, InstanceIsKnown, At, Idle, Resource
<1> QED  BY <1>1, <1>2 DEF ResourceIInv, StopReleases, ResourceInit

LEMMA ResourceInvariantImplies == ResourceIInv => GuardedResourcesAreShared
<1> SUFFICES ASSUME ResourceIInv, NEW r \in Guarded
             PROVE  /\ built[r] <= 1
                    /\ \A d \in Dependent :
                         At(d, r, "served") => resolving[d].given = slot[r]
                    /\ stopped /\ r \in Released => released[r] = 1..built[r]
  BY DEF GuardedResourcesAreShared
<1>1. InstanceIsKnown(r) /\ StopReleases
  BY DEF ResourceIInv
<1> QED  BY <1>1 DEF InstanceIsKnown, StopReleases

\* Where a request can be while the process runs on: a step of one request that
\* is under way, which touches no resource but the one it asked for.
LEMMA OneMoves ==
  ASSUME ResourceIInv, NEW d \in Dependent, NEW r \in Resource, resolving[d] # Idle,
         NEW next \in ResolutionType, resolving' = [resolving EXCEPT ![d] = next],
         next.resource \in {r, "none"}, resolving[d].resource = r,
         ResourceTypeOK', stopped' = stopped, released' = released,
         \A q \in Guarded \ {r} :
           built'[q] = built[q] /\ slot'[q] = slot[q] /\ holder'[q] = holder[q],
         r \in Guarded => LockIsHeld(r)' /\ InstanceIsKnown(r)'
  PROVE  ResourceIInv'
<1>1. /\ resolving'[d] = next
      /\ \A e \in Dependent \ {d} : resolving'[e] = resolving[e]
  BY DEF ResourceIInv, ResourceTypeOK
<1>2. ASSUME NEW q \in Guarded \ {r} PROVE LockIsHeld(q)' /\ InstanceIsKnown(q)'
  <2>1. \A e \in Dependent, step \in {"builds", "stores", "served"} :
          At(e, q, step)' <=> At(e, q, step) /\ e # d
    BY <1>1 DEF At, Guarded
  <2>2. \A step : ~At(d, q, step)
    BY DEF At
  <2>3. LockIsHeld(q) /\ InstanceIsKnown(q)
    BY DEF ResourceIInv
  <2> QED  BY <1>1, <2>1, <2>2, <2>3 DEF LockIsHeld, InstanceIsKnown
<1>3. ~stopped
  BY DEF ResourceIInv, StopReleases
<1> QED  BY <1>2, <1>3 DEF ResourceIInv, StopReleases

LEMMA RequestKeepsInv ==
  ASSUME ResourceIInv, NEW d \in Dependent, NEW r \in Resource, Requests(d, r)
  PROVE  ResourceIInv'
<1>1. /\ resolving'[d] = [resource |-> r, step |-> "asks", given |-> 0]
      /\ \A e \in Dependent \ {d} : resolving'[e] = resolving[e]
      /\ UNCHANGED <<slot, holder, built, released, stopped>> /\ ~stopped
      /\ resolving[d] = Idle
  BY DEF Requests, ResourceIInv, ResourceTypeOK
<1>2. ResourceTypeOK'
  BY DEF Requests, ResourceIInv, ResourceTypeOK, ResolutionType
<1>3. ASSUME NEW q \in Guarded PROVE LockIsHeld(q)' /\ InstanceIsKnown(q)'
  <2>1. \A e \in Dependent, step \in {"builds", "stores", "served"} :
          At(e, q, step)' <=> At(e, q, step)
    BY <1>1 DEF At, Idle
  <2>2. \A step \in {"builds", "stores", "served"} : ~At(d, q, step)
    BY <1>1 DEF At, Idle
  <2>3. LockIsHeld(q) /\ InstanceIsKnown(q)
    BY DEF ResourceIInv
  <2> QED  BY <1>1, <2>1, <2>2, <2>3 DEF LockIsHeld, InstanceIsKnown
<1> QED  BY <1>1, <1>2, <1>3 DEF ResourceIInv, StopReleases

\* A request that is given the instance the application holds.
LEMMA ServedKeepsInv ==
  ASSUME ResourceIInv, NEW d \in Dependent, NEW r \in Resource,
         At(d, r, "asks") \/ At(d, r, "locks"), slot[r] # Unset, Given(d, slot[r]),
         UNCHANGED <<slot, holder, built, released, stopped>>
  PROVE  ResourceIInv'
<1>1. resolving[d] \in ResolutionType /\ slot[r] \in Nat
  BY DEF ResourceIInv, ResourceTypeOK
<1>2. PICK next : next = [resolving[d] EXCEPT !.step = "served", !.given = slot[r]]
  OBVIOUS
<1>3. /\ next \in ResolutionType /\ next.resource = r
      /\ next.step = "served" /\ next.given = slot[r]
      /\ resolving[d] # Idle /\ resolving[d].resource = r
  <2>1. next \in ResolutionType
    BY <1>1, <1>2 DEF ResolutionType
  <2>2. next.resource = resolving[d].resource /\ next.step = "served" /\ next.given = slot[r]
    BY <1>1, <1>2 DEF ResolutionType
  <2> QED  BY <2>1, <2>2 DEF At, Idle
<1>6. resolving' = [resolving EXCEPT ![d] = next]
  BY <1>2 DEF Given
<1>4. ResourceTypeOK'
  BY <1>3, <1>6 DEF ResourceIInv, ResourceTypeOK
<1>5. ASSUME r \in Guarded PROVE LockIsHeld(r)' /\ InstanceIsKnown(r)'
  <2>1. /\ LockIsHeld(r) /\ InstanceIsKnown(r)
        /\ resolving'[d] = next
        /\ \A e \in Dependent \ {d} : resolving'[e] = resolving[e]
    BY <1>3, <1>6, <1>5 DEF ResourceIInv, ResourceTypeOK
  <2> QED  BY <1>3, <2>1 DEF LockIsHeld, InstanceIsKnown, At
<1> QED  BY <1>3, <1>4, <1>5, <1>6, OneMoves

\* A request that only goes on to another place: to the lock, or to building
\* without one.
LEMMA FindingKeepsInv ==
  ASSUME ResourceIInv, NEW d \in Dependent, NEW r \in Resource, FindsInstance(d, r)
  PROVE  ResourceIInv'
<1>1. CASE slot[r] # Unset
  BY <1>1, ServedKeepsInv DEF FindsInstance
<1>2. CASE slot[r] = Unset
  <2>1. resolving[d] \in ResolutionType
    BY DEF ResourceIInv, ResourceTypeOK
  <2>2. PICK next : next = [resolving[d] EXCEPT !.step = IF r \in Guarded THEN "locks" ELSE "builds"]
    OBVIOUS
  <2>3. /\ next \in ResolutionType /\ next.resource = r
        /\ r \in Guarded => next.step = "locks"
        /\ resolving' = [resolving EXCEPT ![d] = next]
        /\ resolving[d] # Idle /\ resolving[d].resource = r
        /\ At(d, r, "asks")
        /\ UNCHANGED <<slot, holder, built, released, stopped>>
    BY <1>2, <2>1, <2>2 DEF FindsInstance, ResolutionType, At, Idle
  <2>4. ResourceTypeOK'
    BY <2>3 DEF ResourceIInv, ResourceTypeOK
  <2>5. ASSUME r \in Guarded PROVE LockIsHeld(r)' /\ InstanceIsKnown(r)'
    <3>1. /\ LockIsHeld(r) /\ InstanceIsKnown(r)
          /\ resolving'[d] = next
          /\ \A e \in Dependent \ {d} : resolving'[e] = resolving[e]
      BY <2>3, <2>5 DEF ResourceIInv, ResourceTypeOK
    <3> QED  BY <2>3, <2>5, <3>1 DEF LockIsHeld, InstanceIsKnown, At
  <2> QED  BY <2>3, <2>4, <2>5, OneMoves
<1> QED  BY <1>1, <1>2

\* Who takes the lock and finds no instance knows that none was built: had one
\* been, whoever built it would still hold the lock to store it.
LEMMA LockingKeepsInv ==
  ASSUME ResourceIInv, NEW d \in Dependent, NEW r \in Resource, LooksAgain(d, r)
  PROVE  ResourceIInv'
<1>1. CASE slot[r] # Unset
  BY <1>1, ServedKeepsInv DEF LooksAgain
<1>2. CASE slot[r] = Unset
  <2>1. resolving[d] \in ResolutionType
    BY DEF ResourceIInv, ResourceTypeOK
  <2>2. PICK next : next = [resolving[d] EXCEPT !.step = "builds"]
    OBVIOUS
  <2>3. /\ next \in ResolutionType /\ next.resource = r /\ next.step = "builds"
        /\ resolving' = [resolving EXCEPT ![d] = next]
        /\ resolving[d] # Idle /\ resolving[d].resource = r
        /\ At(d, r, "locks") /\ holder[r] = Unset
        /\ holder' = [holder EXCEPT ![r] = d]
        /\ UNCHANGED <<slot, built, released, stopped>>
    BY <1>2, <2>1, <2>2 DEF LooksAgain, ResolutionType, At, Idle
  <2>4. ResourceTypeOK'
    BY <2>3 DEF ResourceIInv, ResourceTypeOK
  <2>5. ASSUME r \in Guarded PROVE LockIsHeld(r)' /\ InstanceIsKnown(r)'
    <3>1. /\ LockIsHeld(r) /\ InstanceIsKnown(r)
          /\ resolving'[d] = next
          /\ \A e \in Dependent \ {d} : resolving'[e] = resolving[e]
          /\ holder'[r] = d
      BY <2>3, <2>5 DEF ResourceIInv, ResourceTypeOK
    <3>2. \A e \in Dependent : ~At(e, r, "builds") /\ ~At(e, r, "stores")
      BY <2>3, <3>1, ResourceAssumption DEF LockIsHeld
    <3>3. built[r] = 0
      BY <1>2, <3>1, <3>2 DEF InstanceIsKnown
    <3>4. LockIsHeld(r)'
      BY <2>3, <3>1, <3>2 DEF LockIsHeld, At
    <3>5. InstanceIsKnown(r)'
      BY <1>2, <2>3, <3>1, <3>2, <3>3 DEF InstanceIsKnown, At
    <3> QED  BY <3>4, <3>5
  <2>6. \A q \in Guarded \ {r} : holder'[q] = holder[q]
    BY <2>3 DEF ResourceIInv, ResourceTypeOK, Resource
  <2> QED  BY <2>3, <2>4, <2>5, <2>6, OneMoves
<1> QED  BY <1>1, <1>2

LEMMA BuildingKeepsInv ==
  ASSUME ResourceIInv, NEW d \in Dependent, NEW r \in Resource, Builds(d, r)
  PROVE  ResourceIInv'
<1>1. resolving[d] \in ResolutionType /\ built[r] \in Nat /\ built[r] + 1 \in Nat
  BY DEF ResourceIInv, ResourceTypeOK
<1>2. PICK next : next = [resolving[d] EXCEPT !.step = "stores", !.given = built[r] + 1]
  OBVIOUS
<1>3. /\ next \in ResolutionType /\ next.resource = r
      /\ next.step = "stores" /\ next.given = built[r] + 1
      /\ resolving[d] # Idle /\ resolving[d].resource = r
      /\ At(d, r, "builds")
  <2>1. next \in ResolutionType
    BY <1>1, <1>2 DEF ResolutionType
  <2>2. /\ next.resource = resolving[d].resource /\ next.step = "stores"
        /\ next.given = built[r] + 1
    BY <1>1, <1>2 DEF ResolutionType
  <2> QED  BY <2>1, <2>2 DEF Builds, At, Idle
<1>6. /\ resolving' = [resolving EXCEPT ![d] = next]
      /\ built' = [built EXCEPT ![r] = @ + 1]
      /\ UNCHANGED <<slot, holder, released, stopped>>
  BY <1>2 DEF Builds
<1>4. ResourceTypeOK'
  BY <1>3, <1>6 DEF ResourceIInv, ResourceTypeOK
<1>5. ASSUME r \in Guarded PROVE LockIsHeld(r)' /\ InstanceIsKnown(r)'
  <2>1. /\ LockIsHeld(r) /\ InstanceIsKnown(r)
        /\ resolving'[d] = next
        /\ \A e \in Dependent \ {d} : resolving'[e] = resolving[e]
        /\ built'[r] = built[r] + 1
    BY <1>3, <1>5, <1>6 DEF ResourceIInv, ResourceTypeOK
  <2>2. built[r] = 0 /\ slot[r] = Unset
    BY <1>3, <2>1 DEF InstanceIsKnown
  <2>3. \A e \in Dependent \ {d} : ~At(e, r, "builds") /\ ~At(e, r, "stores")
    BY <1>3, <2>1 DEF LockIsHeld
  <2>4. LockIsHeld(r)'
    BY <1>3, <1>6, <2>1, <2>3 DEF LockIsHeld, At
  <2>5. InstanceIsKnown(r)'
    BY <1>3, <1>6, <2>1, <2>2, <2>3, ResourceAssumption DEF InstanceIsKnown, At
  <2> QED  BY <2>4, <2>5
<1>7. \A q \in Guarded \ {r} : built'[q] = built[q]
  BY <1>6 DEF ResourceIInv, ResourceTypeOK, Resource
<1> QED  BY <1>3, <1>4, <1>5, <1>6, <1>7, OneMoves

\* A request that leaves, with an answer or with a refusal.
LEMMA LeavingKeepsInv ==
  ASSUME ResourceIInv, NEW d \in Dependent, NEW r \in Resource, resolving[d].resource = r,
         \/ At(d, r, "served") /\ holder' = holder
         \/ At(d, r, "builds") /\ r \in Guarded /\ holder' = [holder EXCEPT ![r] = Unset],
         resolving' = [resolving EXCEPT ![d] = Idle],
         UNCHANGED <<slot, built, released, stopped>>
  PROVE  ResourceIInv'
<1>1. Idle \in ResolutionType /\ Idle.resource = "none" /\ Idle.step = "idle"
      /\ resolving[d] # Idle
  BY DEF Idle, ResolutionType, At
<1>2. ResourceTypeOK'
  BY <1>1 DEF ResourceIInv, ResourceTypeOK
<1>3. ASSUME r \in Guarded PROVE LockIsHeld(r)' /\ InstanceIsKnown(r)'
  <2>1. /\ LockIsHeld(r) /\ InstanceIsKnown(r)
        /\ resolving'[d] = Idle
        /\ \A e \in Dependent \ {d} : resolving'[e] = resolving[e]
    BY <1>1, <1>3 DEF ResourceIInv, ResourceTypeOK
  <2>2. CASE At(d, r, "served") /\ holder' = holder
    BY <1>1, <2>1, <2>2 DEF LockIsHeld, InstanceIsKnown, At
  <2>3. CASE At(d, r, "builds") /\ r \in Guarded /\ holder' = [holder EXCEPT ![r] = Unset]
    <3>1. \A e \in Dependent \ {d} : ~At(e, r, "builds") /\ ~At(e, r, "stores")
      BY <2>1, <2>3 DEF LockIsHeld
    <3>2. LockIsHeld(r)'
      BY <1>1, <2>1, <3>1 DEF LockIsHeld, At
    <3>3. InstanceIsKnown(r)'
      BY <1>1, <2>1, <2>3, <3>1 DEF InstanceIsKnown, At
    <3> QED  BY <3>2, <3>3
  <2> QED  BY <2>2, <2>3
<1>4. \A q \in Guarded \ {r} : holder'[q] = holder[q]
  BY DEF ResourceIInv, ResourceTypeOK, Resource
<1> QED  BY <1>1, <1>2, <1>3, <1>4, OneMoves

LEMMA StoringKeepsInv ==
  ASSUME ResourceIInv, NEW d \in Dependent, NEW r \in Resource, Stores(d, r)
  PROVE  ResourceIInv'
<1>1. resolving[d] \in ResolutionType
  BY DEF ResourceIInv, ResourceTypeOK
<1>2. PICK next : next = [resolving[d] EXCEPT !.step = "served"]
  OBVIOUS
<1>3. /\ next \in ResolutionType /\ next.resource = r
      /\ next.step = "served" /\ next.given = resolving[d].given
      /\ resolving' = [resolving EXCEPT ![d] = next]
      /\ resolving[d] # Idle /\ resolving[d].resource = r
      /\ At(d, r, "stores") /\ resolving[d].given \in Nat
      /\ slot' = [slot EXCEPT ![r] = resolving[d].given]
      /\ holder' = IF r \in Guarded THEN [holder EXCEPT ![r] = Unset] ELSE holder
      /\ UNCHANGED <<built, released, stopped>>
  BY <1>1, <1>2 DEF Stores, ResolutionType, At, Idle
<1>4. ResourceTypeOK'
  BY <1>3 DEF ResourceIInv, ResourceTypeOK
<1>5. ASSUME r \in Guarded PROVE LockIsHeld(r)' /\ InstanceIsKnown(r)'
  <2>1. /\ LockIsHeld(r) /\ InstanceIsKnown(r)
        /\ resolving'[d] = next
        /\ \A e \in Dependent \ {d} : resolving'[e] = resolving[e]
        /\ slot'[r] = resolving[d].given
    BY <1>3, <1>5 DEF ResourceIInv, ResourceTypeOK
  <2>2. built[r] = 1 /\ slot[r] = Unset /\ resolving[d].given = 1
    BY <1>3, <2>1 DEF InstanceIsKnown
  <2>3. \A e \in Dependent \ {d} : ~At(e, r, "builds") /\ ~At(e, r, "stores")
    BY <1>3, <2>1 DEF LockIsHeld
  <2>4. \A e \in Dependent : ~At(e, r, "served")
    BY <2>1, <2>2, ResourceAssumption DEF InstanceIsKnown
  <2>5. LockIsHeld(r)'
    BY <1>3, <2>1, <2>3 DEF LockIsHeld, At
  <2>6. InstanceIsKnown(r)'
    BY <1>3, <2>1, <2>2, <2>3, <2>4, ResourceAssumption DEF InstanceIsKnown, At
  <2> QED  BY <2>5, <2>6
<1>6. \A q \in Guarded \ {r} : holder'[q] = holder[q] /\ slot'[q] = slot[q]
  BY <1>3 DEF ResourceIInv, ResourceTypeOK, Resource
<1> QED  BY <1>3, <1>4, <1>5, <1>6, OneMoves

\* The process stops when nobody resolves anything, so what was built is held.
LEMMA StoppingKeepsInv ==
  ASSUME ResourceIInv, ShutsDown
  PROVE  ResourceIInv'
<1>1. \A d \in Dependent : resolving[d] = Idle
  BY DEF ShutsDown
<1>2. ASSUME NEW r \in Guarded PROVE LockIsHeld(r)' /\ InstanceIsKnown(r)'
  <2>1. LockIsHeld(r) /\ InstanceIsKnown(r)  BY DEF ResourceIInv
  <2> QED  BY <2>1 DEF ShutsDown, LockIsHeld, InstanceIsKnown, At
<1>3. ASSUME NEW r \in Guarded \intersect Released PROVE released'[r] = 1..built'[r]
  <2>1. InstanceIsKnown(r)  BY DEF ResourceIInv
  <2>3. r \in Resource  BY DEF Resource
  <2>4. CASE slot[r] = Unset
    <3>1. built[r] = 0 /\ 1..0 = {}  BY <1>1, <2>1, <2>4 DEF InstanceIsKnown, At, Idle
    <3>2. released'[r] = {}  BY <2>3, <2>4 DEF ShutsDown
    <3> QED  BY <3>1, <3>2 DEF ShutsDown
  <2>5. CASE slot[r] = 1
    <3>1. built[r] = 1 /\ 1..1 = {1}  BY <2>1, <2>5 DEF InstanceIsKnown
    <3>2. released'[r] = {1}  BY <2>3, <2>5, ResourceAssumption DEF ShutsDown
    <3> QED  BY <3>1, <3>2 DEF ShutsDown
  <2> QED  BY <2>1, <2>4, <2>5 DEF InstanceIsKnown
<1>4. StopReleases'
  BY <1>1, <1>3 DEF StopReleases, ShutsDown
<1>5. ResourceTypeOK'
  BY DEF ResourceIInv, ResourceTypeOK, ShutsDown
<1> QED  BY <1>2, <1>4, <1>5 DEF ResourceIInv

LEMMA ResourceNextKeepsInv == ResourceIInv /\ [ResourceNext]_resourceVars => ResourceIInv'
<1> SUFFICES ASSUME ResourceIInv, [ResourceNext]_resourceVars PROVE ResourceIInv'
  OBVIOUS
<1>1. CASE UNCHANGED resourceVars
  BY <1>1 DEF resourceVars, ResourceIInv, ResourceTypeOK, LockIsHeld, InstanceIsKnown,
              StopReleases, At
<1>2. CASE ShutsDown
  BY <1>2, StoppingKeepsInv
<1>3. ASSUME NEW d \in Dependent, Completes(d) PROVE ResourceIInv'
  <2>1. resolving[d] \in ResolutionType  BY DEF ResourceIInv, ResourceTypeOK
  <2>2. CASE resolving[d].resource \in Resource
    BY <1>3, <2>2, LeavingKeepsInv DEF Completes, At
  <2>3. CASE resolving[d].resource = "none"
    <3>1. /\ \A e \in Dependent, q \in Guarded, step \in {"builds", "stores", "served"} :
               At(e, q, step)' <=> At(e, q, step)
          /\ \A e \in Dependent, q \in Guarded, step \in {"builds", "stores", "served"} :
               At(e, q, step) => resolving'[e] = resolving[e]
      BY <1>3, <2>3 DEF Completes, At, ResourceIInv, ResourceTypeOK, Idle, Guarded
    <3>2. ~stopped
      BY <1>3 DEF Completes, ResourceIInv, StopReleases, Idle
    <3>3. \A q \in Guarded : LockIsHeld(q)' /\ InstanceIsKnown(q)'
      BY <1>3, <3>1 DEF Completes, ResourceIInv, LockIsHeld, InstanceIsKnown
    <3>4. ResourceTypeOK'
      BY <1>3 DEF Completes, ResourceIInv, ResourceTypeOK, ResolutionType, Idle
    <3> QED  BY <1>3, <3>2, <3>3, <3>4 DEF Completes, ResourceIInv, StopReleases
  <2> QED  BY <2>1, <2>2, <2>3 DEF ResolutionType
<1>4. ASSUME NEW d \in Dependent, NEW r \in Resource, Requests(d, r) PROVE ResourceIInv'
  BY <1>4, RequestKeepsInv
<1>5. ASSUME NEW d \in Dependent, NEW r \in Resource, FindsInstance(d, r) PROVE ResourceIInv'
  BY <1>5, FindingKeepsInv
<1>6. ASSUME NEW d \in Dependent, NEW r \in Resource, LooksAgain(d, r) PROVE ResourceIInv'
  BY <1>6, LockingKeepsInv
<1>7. ASSUME NEW d \in Dependent, NEW r \in Resource, Builds(d, r) PROVE ResourceIInv'
  BY <1>7, BuildingKeepsInv
<1>8. ASSUME NEW d \in Dependent, NEW r \in Resource, IsNotConfigured(d, r) PROVE ResourceIInv'
  BY <1>8, LeavingKeepsInv DEF IsNotConfigured, At
<1>9. ASSUME NEW d \in Dependent, NEW r \in Resource, Stores(d, r) PROVE ResourceIInv'
  BY <1>9, StoringKeepsInv
<1> QED
  BY <1>1, <1>2, <1>3, <1>4, <1>5, <1>6, <1>7, <1>8, <1>9 DEF ResourceNext

\* For any number of requests and any settings: one engine, one broker and one
\* verifier per process, whoever asks for them and when, and none that is left
\* open (the get_* dependencies of dependencies.py and the lifespan of main.py).
THEOREM ResourcesAreShared == ResourceSpec => []GuardedResourcesAreShared
<1>1. ResourceSpec => []ResourceIInv
  BY ResourceInitHolds, ResourceNextKeepsInv, PTL DEF ResourceSpec
<1> QED  BY <1>1, ResourceInvariantImplies, PTL
-------------------------------------------------------------------------------
(* However the saves of a catalog overlap, none loses a listing, and they wait *)
(* for each other in a circle only over jobs or URLs met under other titles.   *)
(* The pipeline sorts what a save is given; a save then holds the jobs it has  *)
(* saved and no later ones, and nobody changes the job of a row.               *)

\* The results of a search are sequences of its listings, and stay so.
LEMMA DeduplicatedIsSequence ==
  ASSUME NEW s, NEW n \in Nat, DOMAIN s = 1..n
  PROVE  \E m \in Nat :
           /\ DOMAIN Deduplicated(s) = 1..m
           /\ \A k \in 1..m : \E i \in 1..n : Deduplicated(s)[k] = s[i]
<1> DEFINE S == Firsts([i \in DOMAIN s |-> s[i].fingerprint])
<1>1. S \in SUBSET (1..n) /\ IsFiniteSet(1..n) /\ 1..n \in SUBSET Int
  BY FS_Interval DEF Firsts
<1>2. IsFiniteSet(S) /\ S \in SUBSET Int
  BY <1>1, FS_Subset
<1>3. Deduplicated(s) = Picked(s, S)
  BY DEF Deduplicated
<1> HIDE DEF S
<1>4. PICK m, order : Lists(order, S, m) /\ Picked(s, S) = [k \in 1..m |-> s[order[k]]]
  BY <1>2, PickedIsInOrder
<1>5. m \in Nat /\ order \in [1..m -> S] /\ \A k \in 1..m : order[k] \in 1..n
  BY <1>1, <1>4 DEF Lists
<1>6. \A k \in 1..m : Deduplicated(s)[k] = s[order[k]]
  BY <1>3, <1>4
<1>7. DOMAIN Deduplicated(s) = 1..m
  BY <1>3, <1>4
<1> QED  BY <1>5, <1>6, <1>7

\* The order in which the sort leaves the listings of a sequence.
Precedes(s, i, j) ==
  \/ TitleRank(s[i].fingerprint) < TitleRank(s[j].fingerprint)
  \/ TitleRank(s[i].fingerprint) = TitleRank(s[j].fingerprint) /\ i < j

IsRanked(s, n) == \A i \in 1..n : TitleRank(s[i].fingerprint) \in Nat

\* The sort leaves a sequence of the same listings in the order of their titles.
LEMMA ByTitleIsSorted ==
  ASSUME NEW s, NEW n \in Nat, DOMAIN s = 1..n, IsRanked(s, n)
  PROVE  /\ DOMAIN ByTitle(s) = 1..n
         /\ \A k \in 1..n : \E i \in 1..n : ByTitle(s)[k] = s[i]
         /\ \A k, l \in 1..n : k < l =>
              TitleRank(ByTitle(s)[k].fingerprint) <= TitleRank(ByTitle(s)[l].fingerprint)
<1> DEFINE S == 1..n
           R == {x \in S \X S : Precedes(s, x[1], x[2])}
           order == Arranged(S, R)
<1>1. IsFiniteSet(S) /\ Cardinality(S) = n
  BY FS_Interval
<1>2. ByTitle(s) = [k \in DOMAIN order |-> s[order[k]]]
  BY DEF ByTitle, Rearranged, Precedes
<1>3. \A i, j \in S : <<i, j>> \in R <=> Precedes(s, i, j)
  OBVIOUS
<1>4. S \subseteq Nat /\ \A i \in S : TitleRank(s[i].fingerprint) \in Nat
  BY DEF IsRanked
<1> HIDE DEF R, S
<1>5. IsStrictOrder(S, R)
  <2>1. \A i \in S : ~Precedes(s, i, i)
    BY <1>4 DEF Precedes
  <2>2. \A i, j \in S : i = j \/ Precedes(s, i, j) \/ Precedes(s, j, i)
    BY <1>4 DEF Precedes
  <2>3. \A i, j, k \in S : Precedes(s, i, j) /\ Precedes(s, j, k) => Precedes(s, i, k)
    BY <1>4 DEF Precedes
  <2> QED  BY <1>3, <2>1, <2>2, <2>3 DEF IsStrictOrder
<1>6. /\ order \in [1..n -> S]
      /\ \A k, l \in 1..n : k < l => <<order[k], order[l]>> \in R
  BY <1>1, <1>5, ArrangedIsSorted
<1> HIDE DEF order
<1>7. ASSUME NEW k \in 1..n, NEW l \in 1..n, k < l
      PROVE  TitleRank(ByTitle(s)[k].fingerprint) <= TitleRank(ByTitle(s)[l].fingerprint)
  <2>1. PICK i, j \in S : i = order[k] /\ j = order[l]
    BY <1>6
  <2>2. ByTitle(s)[k] = s[i] /\ ByTitle(s)[l] = s[j]
    BY <1>2, <1>6, <2>1
  <2>3. Precedes(s, i, j)
    BY <1>3, <1>6, <1>7, <2>1
  <2>4. TitleRank(s[i].fingerprint) <= TitleRank(s[j].fingerprint)
    BY <1>4, <2>3 DEF Precedes
  <2> QED  BY <2>2, <2>4
<1>8. \A k \in 1..n : \E i \in 1..n : ByTitle(s)[k] = s[i]
  BY <1>2, <1>6 DEF S
<1> QED  BY <1>2, <1>6, <1>7, <1>8

\* The pipeline ends with the listings in the order of their titles.
LEMMA ProcessedIsSorted ==
  ASSUME NEW result \in SearchResult
  PROVE  \E n \in Nat :
           /\ DOMAIN Processed(result) = 1..n
           /\ \A k, l \in 1..n : k < l =>
                TitleRank(Processed(result)[k].fingerprint)
                  <= TitleRank(Processed(result)[l].fingerprint)
           /\ IsRanked(Processed(result), n)
<1>1. PICK n \in Nat : DOMAIN result = 1..n /\ IsRanked(result, n)
  <2>1. DOMAIN result = 1..Len(result) /\ Len(result) \in Nat
    BY ResultsAreRanked
  <2>2. \A i \in DOMAIN result : result[i] \in Range(result)
    BY DEF Range
  <2> QED  BY <2>1, <2>2, ResultsAreRanked DEF IsRanked
<1>2. PICK m \in Nat :
        /\ DOMAIN Deduplicated(result) = 1..m
        /\ \A k \in 1..m : \E i \in 1..n : Deduplicated(result)[k] = result[i]
  BY <1>1, DeduplicatedIsSequence
<1>3. IsRanked(Deduplicated(result), m)
  BY <1>1, <1>2 DEF IsRanked
<1>4. PICK found : found = Deduplicated(result)
  OBVIOUS
<1>5. DOMAIN found = 1..m /\ IsRanked(found, m)
  BY <1>2, <1>3, <1>4
<1>6. PICK d : d = ByTitle(found)
  OBVIOUS
<1>7. /\ DOMAIN d = 1..m
      /\ \A k \in 1..m : \E i \in 1..m : d[k] = found[i]
      /\ \A k, l \in 1..m : k < l =>
           TitleRank(d[k].fingerprint) <= TitleRank(d[l].fingerprint)
  BY <1>5, <1>6, ByTitleIsSorted
<1>8. IsRanked(d, m)
  BY <1>5, <1>7 DEF IsRanked
<1> QED  BY <1>4, <1>6, <1>7, <1>8 DEF Processed

-------------------------------------------------------------------------------
Offered == UNION {Range(Processed(result)) : result \in SearchResult}
Title == {p.fingerprint : p \in Offered}
ListingRow ==
  [job : Title, external : {p.external : p \in Offered} \union {NoExternal},
   url : {p.url : p \in Offered}]
Rows == UNION {[I -> ListingRow] : I \in SUBSET (1..MaxListing)}

SaveType ==
  [step : {"idle", "reads", "writes", "saved", "failed"}, todo : Seq(Offered),
   given : Seq(Offered), saved : Seq(Title), newJobs : SUBSET Title, touched : SUBSET Title,
   rows : Rows, overtaken : SUBSET Title, record : Title \union {NoExternal},
   fresh : BOOLEAN, row : 0..MaxListing, loaded : ListingRow \union {NoExternal}]

CatalogTypeOK ==
  jobs \in SUBSET Title /\ listings \in Rows /\ saver \in [Saver -> SaveType]

\* A row tells of a listing, so that a search finds it.
Shows(row, p) == IF p.external # NoExternal THEN row.external = p.external ELSE row.url = p.url

\* What a save has done of what it was given, in the order of the titles.
KeepsOrder(t) ==
  LET s == saver[t] IN
  /\ Len(s.saved) + Len(s.todo) = Len(s.given)
  /\ \A k \in 1..Len(s.todo) : s.todo[k] = s.given[Len(s.saved) + k]
  /\ \A k \in 1..Len(s.given) : TitleRank(s.given[k].fingerprint) \in Nat
  /\ \A k, l \in 1..Len(s.given) : k < l =>
       TitleRank(s.given[k].fingerprint) <= TitleRank(s.given[l].fingerprint)

\* What it holds are the jobs it has saved, and their rows.
HoldsSaved(t) ==
  LET s == saver[t] IN
  /\ s.newJobs \subseteq s.touched /\ s.touched \subseteq Range(s.saved)
  /\ \A i \in DOMAIN s.rows : s.rows[i].job \in s.touched

\* The job it is about to save, with the listing's row if there is one.
KnowsRecord(t) ==
  LET s == saver[t] IN
  s.step = "writes" =>
    /\ s.todo # <<>> /\ s.record \in Title
    /\ s.fresh \/ s.record \in SeenJobs(t)
    /\ s.row # 0 => /\ s.row \in DOMAIN SeenRows(t) /\ s.loaded \in ListingRow
                    /\ SeenRows(t)[s.row].job = s.record

\* Each listing it has saved is in a row of its job, as itself unless its job was
\* saved twice or the row was overtaken.
Filed(t, k) ==
  LET s == saver[t] IN
  /\ s.saved[k] \in SeenJobs(t)
  /\ \E i \in DOMAIN s.rows :
       /\ s.rows[i].job = s.saved[k]
       /\ \/ s.saved[k] \in s.overtaken \/ Shows(s.rows[i], s.given[k])
          \/ \E l \in DOMAIN s.saved : l # k /\ s.saved[l] = s.saved[k]

SaveIsSound(t) ==
  /\ KeepsOrder(t) /\ HoldsSaved(t) /\ KnowsRecord(t)
  /\ \A k \in DOMAIN saver[t].saved : Filed(t, k)

\* Nobody changes the job of a row, and nobody sees another's new rows.
RowsAgree(t) ==
  /\ \A i \in DOMAIN saver[t].rows \intersect DOMAIN listings :
       listings[i].job = saver[t].rows[i].job
  /\ \A u \in Saver \ {t} : DOMAIN saver[t].rows \intersect DOMAIN saver[u].rows
                             \subseteq DOMAIN listings

CatalogInv ==
  CatalogTypeOK /\ \A t \in Saver : SaveIsSound(t) /\ RowsAgree(t)

-------------------------------------------------------------------------------
LEMMA SaveIsTyped ==
  ASSUME CatalogInv, NEW t \in Saver
  PROVE  /\ saver[t] \in SaveType /\ DOMAIN saver = Saver
         /\ SeenRows(t) \in Rows
         /\ DOMAIN SeenRows(t) = DOMAIN listings \union DOMAIN saver[t].rows
         /\ \A i \in DOMAIN saver[t].rows : SeenRows(t)[i] = saver[t].rows[i]
         /\ \A i \in DOMAIN listings \ DOMAIN saver[t].rows : SeenRows(t)[i] = listings[i]
         /\ \A i \in DOMAIN SeenRows(t) : SeenRows(t)[i] \in ListingRow /\ i \in 1..MaxListing
         /\ SeenJobs(t) \subseteq Title
<1>1. saver[t] \in SaveType /\ DOMAIN saver = Saver
  BY DEF CatalogInv, CatalogTypeOK
<1>2. listings \in Rows /\ saver[t].rows \in Rows
  BY <1>1 DEF CatalogInv, CatalogTypeOK, SaveType
<1>3. \A f \in Rows : DOMAIN f \subseteq 1..MaxListing /\ \A i \in DOMAIN f : f[i] \in ListingRow
  BY DEF Rows
<1>4. /\ DOMAIN SeenRows(t) = DOMAIN listings \union DOMAIN saver[t].rows
      /\ \A i \in DOMAIN saver[t].rows : SeenRows(t)[i] = saver[t].rows[i]
      /\ \A i \in DOMAIN listings \ DOMAIN saver[t].rows : SeenRows(t)[i] = listings[i]
  BY DEF SeenRows
<1>5. \A i \in DOMAIN SeenRows(t) : SeenRows(t)[i] \in ListingRow /\ i \in 1..MaxListing
  BY <1>2, <1>3, <1>4
<1>6. SeenRows(t) \in [DOMAIN SeenRows(t) -> ListingRow]
  BY <1>5 DEF SeenRows
<1>7. SeenRows(t) \in Rows
  BY <1>5, <1>6 DEF Rows
<1>8. SeenJobs(t) \subseteq Title
  BY <1>1 DEF CatalogInv, CatalogTypeOK, SaveType, SeenJobs
<1> QED  BY <1>1, <1>4, <1>5, <1>7, <1>8

\* A step of one save that commits nothing.
LEMMA OneSaveMoves ==
  ASSUME CatalogInv, NEW t \in Saver, NEW k \in SaveType, UNCHANGED <<jobs, listings>>,
         saver' = [saver EXCEPT ![t] = k], SaveIsSound(t)',
         \A i \in DOMAIN k.rows :
           \/ i \in DOMAIN SeenRows(t) /\ SeenRows(t)[i].job = k.rows[i].job
           \/ i \in FreeRow
  PROVE  CatalogInv'
<1>1. saver'[t] = k /\ \A u \in Saver \ {t} : saver'[u] = saver[u]
  BY SaveIsTyped
<1>2. CatalogTypeOK'
  BY SaveIsTyped DEF CatalogInv, CatalogTypeOK
<1>3. ASSUME NEW u \in Saver \ {t} PROVE SaveIsSound(u)'
  <2>1. saver'[u] = saver[u] /\ SaveIsSound(u)
    BY <1>1 DEF CatalogInv
  <2>2. SeenRows(u)' = SeenRows(u) /\ SeenJobs(u)' = SeenJobs(u)
    BY <2>1 DEF SeenRows, SeenJobs
  <2>3. KeepsOrder(u)'
    BY <2>1 DEF SaveIsSound, KeepsOrder
  <2>4. HoldsSaved(u)'
    BY <2>1 DEF SaveIsSound, HoldsSaved
  <2>5. KnowsRecord(u)'
    BY <2>1, <2>2 DEF SaveIsSound, KnowsRecord
  <2>6. \A j \in DOMAIN saver'[u].saved : Filed(u, j)'
    BY <2>1, <2>2 DEF SaveIsSound, Filed
  <2> QED  BY <2>3, <2>4, <2>5, <2>6 DEF SaveIsSound
<1>4. ASSUME NEW i \in DOMAIN k.rows
      PROVE  /\ i \in DOMAIN listings => listings[i].job = k.rows[i].job
             /\ \A u \in Saver \ {t} : i \in DOMAIN saver[u].rows => i \in DOMAIN listings
  <2>1. CASE i \in FreeRow
    BY <2>1 DEF FreeRow
  <2>2. CASE i \in DOMAIN SeenRows(t) /\ SeenRows(t)[i].job = k.rows[i].job
    <3>1. RowsAgree(t)
      BY DEF CatalogInv
    <3>2. i \in DOMAIN listings => listings[i].job = k.rows[i].job
      BY <2>2, <3>1, SaveIsTyped DEF RowsAgree
    <3>3. \A u \in Saver \ {t} : i \in DOMAIN saver[u].rows => i \in DOMAIN listings
      BY <2>2, <3>1, SaveIsTyped DEF RowsAgree
    <3> QED  BY <3>2, <3>3
  <2> QED  BY <2>1, <2>2
<1>5. ASSUME NEW u \in Saver PROVE RowsAgree(u)'
  BY <1>1, <1>4 DEF CatalogInv, RowsAgree
<1> QED  BY <1>2, <1>3, <1>5 DEF CatalogInv

\* What a search offers is in the order of the titles.
LEMMA OfferIsSorted ==
  ASSUME NEW result \in SearchResult
  PROVE  /\ Processed(result) \in Seq(Offered)
         /\ \A k \in 1..Len(Processed(result)) :
              TitleRank(Processed(result)[k].fingerprint) \in Nat
         /\ \A k, l \in 1..Len(Processed(result)) : k < l =>
              TitleRank(Processed(result)[k].fingerprint)
                <= TitleRank(Processed(result)[l].fingerprint)
<1>1. PICK f : f = Processed(result)
  OBVIOUS
<1>2. PICK n \in Nat :
        /\ DOMAIN f = 1..n
        /\ \A k, l \in 1..n : k < l =>
             TitleRank(f[k].fingerprint) <= TitleRank(f[l].fingerprint)
        /\ \A k \in 1..n : TitleRank(f[k].fingerprint) \in Nat
  BY <1>1, ProcessedIsSorted DEF IsRanked
<1>3. \A k \in 1..n : f[k] \in Offered
  BY <1>1, <1>2 DEF Offered, Range
<1>4. f = [k \in DOMAIN f |-> f[k]]
  BY <1>1 DEF Processed, ByTitle, Rearranged
<1>5. f \in [1..n -> Offered]
  BY <1>2, <1>3, <1>4
<1>6. f \in Seq(Offered) /\ Len(f) = n
  BY <1>2, <1>5, SeqDef, LenProperties
<1> QED  BY <1>1, <1>2, <1>6

LEMMA NoSaveIsTyped ==
  /\ NoSave \in SaveType /\ NoSave.rows = [i \in {} |-> 0] /\ NoSave.saved = <<>>
  /\ NoSave.newJobs = {} /\ NoSave.touched = {} /\ NoSave.todo = <<>> /\ NoSave.given = <<>>
<1>1. [i \in {} |-> 0] \in [{} -> ListingRow]
  OBVIOUS
<1>2. [i \in {} |-> 0] \in Rows
  BY <1>1 DEF Rows
<1> QED  BY <1>2, CatalogBound DEF NoSave, SaveType

\* A save that has done nothing yet, or has ended.
LEMMA RestingIsSound ==
  ASSUME NEW t \in Saver, saver'[t] \in SaveType, saver'[t].step # "writes",
         saver'[t].saved = <<>>, saver'[t].newJobs = {}, saver'[t].touched = {},
         DOMAIN saver'[t].rows = {}, saver'[t].todo = saver'[t].given,
         \A k \in 1..Len(saver'[t].given) : TitleRank(saver'[t].given[k].fingerprint) \in Nat,
         \A k, l \in 1..Len(saver'[t].given) : k < l =>
           TitleRank(saver'[t].given[k].fingerprint) <= TitleRank(saver'[t].given[l].fingerprint)
  PROVE  SaveIsSound(t)'
<1>1. Len(saver'[t].saved) = 0 /\ DOMAIN saver'[t].saved = {}
  OBVIOUS
<1>2. Len(saver'[t].given) \in Nat
  BY LenProperties DEF SaveType
<1>3. KeepsOrder(t)'
  BY <1>1, <1>2 DEF KeepsOrder
<1> QED  BY <1>1, <1>3 DEF SaveIsSound, HoldsSaved, KnowsRecord

LEMMA BeginningKeepsInv ==
  ASSUME CatalogInv, NEW t \in Saver, NEW result \in SearchResult, Saves(t, result)
  PROVE  CatalogInv'
<1>1. PICK k : k = [NoSave EXCEPT !.step = "reads", !.todo = Processed(result),
                      !.given = Processed(result)]
  OBVIOUS
<1>2. k \in SaveType /\ k.step = "reads" /\ k.todo = k.given /\ k.given = Processed(result)
  BY <1>1, OfferIsSorted, NoSaveIsTyped DEF SaveType
<1>3. k.saved = <<>> /\ k.newJobs = {} /\ k.touched = {} /\ DOMAIN k.rows = {}
  BY <1>1, NoSaveIsTyped DEF SaveType
<1>4. saver' = [saver EXCEPT ![t] = k] /\ saver'[t] = k /\ UNCHANGED <<jobs, listings>>
  BY <1>1, SaveIsTyped DEF Saves
<1>5. SaveIsSound(t)'
  BY <1>2, <1>3, <1>4, OfferIsSorted, RestingIsSound
<1> QED  BY <1>2, <1>3, <1>4, <1>5, OneSaveMoves

LEMMA FailingKeepsInv ==
  ASSUME CatalogInv, NEW t \in Saver, Fails(t), UNCHANGED <<jobs, listings>>
  PROVE  CatalogInv'
<1>1. PICK k : k = [NoSave EXCEPT !.step = "failed"]
  OBVIOUS
<1>2. k \in SaveType /\ k.step = "failed" /\ k.todo = <<>> /\ k.given = <<>>
  BY <1>1, NoSaveIsTyped DEF SaveType
<1>3. k.saved = <<>> /\ k.newJobs = {} /\ k.touched = {} /\ DOMAIN k.rows = {}
  BY <1>1, NoSaveIsTyped DEF SaveType
<1>4. saver' = [saver EXCEPT ![t] = k] /\ saver'[t] = k
  BY <1>1, SaveIsTyped DEF Fails
<1>5. Len(k.given) = 0
  BY <1>2
<1>6. SaveIsSound(t)'
  BY <1>2, <1>3, <1>4, <1>5, RestingIsSound
<1> QED  BY <1>2, <1>3, <1>4, <1>6, OneSaveMoves

LEMMA LookingKeepsInv ==
  ASSUME CatalogInv, NEW t \in Saver, Looks(t)
  PROVE  /\ CatalogInv'
         /\ \E k : saver' = [saver EXCEPT ![t] = k] /\ k.step = "writes"
<1> DEFINE s == saver[t]
           rows == SeenRows(t)
<1>1. s \in SaveType /\ SaveIsSound(t) /\ s.todo # <<>>
  BY SaveIsTyped DEF Looks, CatalogInv
<1>2. Head(s.todo) \in Offered
  BY <1>1, HeadTailProperties DEF SaveType
<1>3. PICK record \in RecordsFor(t, Head(s.todo)) :
        \E i \in IF Matches(rows, RowsOf(t, record), Head(s.todo)) = {} THEN {0}
                 ELSE Matches(rows, RowsOf(t, record), Head(s.todo)) :
          saver' = [saver EXCEPT ![t].step = "writes", ![t].record = record,
                                 ![t].fresh = record \notin SeenJobs(t), ![t].row = i,
                                 ![t].loaded = IF i = 0 THEN NoExternal ELSE rows[i]]
  BY DEF Looks
<1>4. PICK i \in IF Matches(rows, RowsOf(t, record), Head(s.todo)) = {} THEN {0}
                ELSE Matches(rows, RowsOf(t, record), Head(s.todo)) :
        saver' = [saver EXCEPT ![t].step = "writes", ![t].record = record,
                               ![t].fresh = record \notin SeenJobs(t), ![t].row = i,
                               ![t].loaded = IF i = 0 THEN NoExternal ELSE rows[i]]
  BY <1>3
<1>5. record \in Title
  <2>1. \A ids : Matches(rows, ids, Head(s.todo)) \subseteq ids
    BY DEF Matches
  <2>2. \A j \in DOMAIN rows : rows[j].job \in Title
    BY SaveIsTyped DEF ListingRow
  <2> QED  BY <1>2, <1>3, <2>1, <2>2 DEF RecordsFor, Title
<1>6. i = 0 \/ (i \in DOMAIN rows /\ rows[i].job = record)
  <2>1. \A ids : Matches(rows, ids, Head(s.todo)) \subseteq ids
    BY DEF Matches
  <2>2. i = 0 \/ i \in RowsOf(t, record)
    BY <2>1
  <2> QED  BY <2>2 DEF RowsOf
<1>7. i \in 0..MaxListing /\ (i # 0 => rows[i] \in ListingRow)
  <2>1. \A j \in DOMAIN rows : rows[j] \in ListingRow /\ j \in 1..MaxListing
    BY SaveIsTyped
  <2>2. i # 0 => rows[i] \in ListingRow /\ i \in 1..MaxListing
    BY <1>6, <2>1
  <2> QED  BY <2>2, CatalogBound
<1> DEFINE fresh == record \notin SeenJobs(t)
           loaded == IF i = 0 THEN NoExternal ELSE rows[i]
<1>8. PICK k : k = [s EXCEPT !.step = "writes", !.record = record, !.fresh = fresh, !.row = i,
                             !.loaded = loaded]
  OBVIOUS
<1>9. saver' = [saver EXCEPT ![t] = k] /\ saver'[t] = k /\ UNCHANGED <<jobs, listings>>
  BY ZenonT(60), <1>4, <1>8, SaveIsTyped DEF Looks
<1>10. fresh \in BOOLEAN /\ loaded \in ListingRow \union {NoExternal}
  BY <1>7
<1> HIDE DEF s, fresh, loaded
<1>11. k \in SaveType
  BY <1>1, <1>5, <1>7, <1>8, <1>10 DEF SaveType
<1>12. /\ k.todo = s.todo /\ k.given = s.given /\ k.saved = s.saved /\ k.rows = s.rows
       /\ k.newJobs = s.newJobs /\ k.touched = s.touched /\ k.overtaken = s.overtaken
       /\ k.record = record /\ k.fresh = fresh /\ k.row = i /\ k.loaded = loaded
       /\ k.step = "writes"
  BY <1>1, <1>8 DEF SaveType
<1>13. SeenRows(t)' = SeenRows(t) /\ SeenJobs(t)' = SeenJobs(t)
  BY <1>9, <1>12 DEF SeenRows, SeenJobs, s
<1>14. KeepsOrder(t)'
  BY ZenonT(60), <1>1, <1>9, <1>12 DEF SaveIsSound, KeepsOrder, s
<1>15. HoldsSaved(t)'
  BY <1>1, <1>9, <1>12 DEF SaveIsSound, HoldsSaved, s
<1>16. KnowsRecord(t)'
  BY <1>1, <1>5, <1>6, <1>7, <1>9, <1>12, <1>13 DEF KnowsRecord, fresh, loaded
<1>17. \A j \in DOMAIN k.saved : Filed(t, j)'
  BY <1>1, <1>9, <1>12, <1>13 DEF SaveIsSound, Filed, s
<1>18. SaveIsSound(t)'
  BY <1>9, <1>14, <1>15, <1>16, <1>17 DEF SaveIsSound
<1>19. \A j \in DOMAIN k.rows : j \in DOMAIN rows /\ rows[j].job = k.rows[j].job
  BY <1>12, SaveIsTyped DEF s
<1>20. CatalogInv'
  BY <1>9, <1>11, <1>18, <1>19, OneSaveMoves
<1> QED  BY <1>9, <1>12, <1>20

\* What is flushed tells of the listing, if the row still is what was read.
LEMMA FlushedShows ==
  ASSUME CatalogInv, NEW t \in Saver, saver[t].step = "writes"
  PROVE  /\ Flushed(t) \in ListingRow /\ Flushed(t).job = saver[t].record
         /\ IsOvertaken(t) \/ Shows(Flushed(t), Head(saver[t].todo))
<1>1. PICK s, p, old, now :
        /\ s = saver[t] /\ p = Head(s.todo) /\ old = s.loaded /\ now = SeenRows(t)[s.row]
  OBVIOUS
<1>2. s \in SaveType /\ KnowsRecord(t) /\ s.step = "writes"
  BY <1>1, SaveIsTyped DEF CatalogInv, SaveIsSound
<1>3. s.todo # <<>> /\ s.record \in Title
  BY <1>1, <1>2 DEF KnowsRecord
<1>4. p \in Offered
  BY <1>1, <1>2, <1>3, HeadTailProperties DEF SaveType
<1>5. s.row # 0 => now \in ListingRow
  BY <1>1, <1>2, SaveIsTyped DEF KnowsRecord
<1>6. PICK new : new = Flushed(t)
  OBVIOUS
<1>7. new = [job |-> s.record,
             external |-> IF s.row = 0 THEN p.external
                          ELSE IF p.external \in {NoExternal, old.external} THEN now.external
                          ELSE p.external,
             url |-> IF s.row # 0 /\ p.url = old.url THEN now.url ELSE p.url]
  BY <1>1, <1>6 DEF Flushed
<1>8. new \in ListingRow /\ new.job = s.record
  BY <1>3, <1>4, <1>5, <1>7 DEF ListingRow
<1>9. ASSUME s.row = 0 \/ now = old PROVE Shows(new, p)
  BY <1>7, <1>9 DEF Shows
<1> QED  BY <1>1, <1>6, <1>8, <1>9 DEF IsOvertaken

\* The save once the listing is flushed into row i.
Upserted(t, i) ==
  [saver[t] EXCEPT
     !.step = "reads", !.todo = Tail(@), !.saved = Append(@, saver[t].record),
     !.newJobs = IF saver[t].fresh THEN @ \union {saver[t].record} ELSE @,
     !.touched = @ \union {saver[t].record},
     !.overtaken = IF IsOvertaken(t) THEN @ \union {saver[t].record} ELSE @,
     !.rows = RowsWith(t, i)]

LEMMA UpsertIsFiled ==
  ASSUME CatalogInv, NEW t \in Saver, saver[t].step = "writes", UNCHANGED <<jobs, listings>>,
         NEW i \in IF saver[t].row # 0 THEN {saver[t].row} ELSE FreeRow,
         saver' = [saver EXCEPT ![t] = Upserted(t, i)]
  PROVE  CatalogInv'
<1>1. PICK s, p, new : s = saver[t] /\ p = Head(s.todo) /\ new = Flushed(t)
  OBVIOUS
<1>2. s \in SaveType /\ s.step = "writes"
  BY <1>1, SaveIsTyped
<1>3. KeepsOrder(t) /\ HoldsSaved(t) /\ KnowsRecord(t) /\ \A j \in DOMAIN s.saved : Filed(t, j)
  BY <1>1 DEF CatalogInv, SaveIsSound
<1>4. s.todo # <<>> /\ s.record \in Title
  BY <1>1, <1>3 DEF KnowsRecord
<1>5. PICK newJobs, touched, overtaken, rows, todo, saved :
        /\ newJobs = IF s.fresh THEN s.newJobs \union {s.record} ELSE s.newJobs
        /\ touched = s.touched \union {s.record}
        /\ overtaken = IF IsOvertaken(t) THEN s.overtaken \union {s.record} ELSE s.overtaken
        /\ rows = RowsWith(t, i) /\ todo = Tail(s.todo) /\ saved = Append(s.saved, s.record)
  OBVIOUS
<1>6. PICK k : k = Upserted(t, i)
  OBVIOUS
<1>7. saver'[t] = k
  BY <1>6, SaveIsTyped
<1> DEFINE updated == [s EXCEPT !.step = "reads", !.todo = todo, !.saved = saved,
                                !.newJobs = newJobs, !.touched = touched,
                                !.overtaken = overtaken, !.rows = rows]
<1>7a. k = updated
  BY <1>1, <1>5, <1>6 DEF Upserted
<1>8. /\ new \in ListingRow /\ new.job = s.record
      /\ IsOvertaken(t) \/ Shows(new, p)
  BY <1>1, FlushedShows
<1>9. /\ i \in 1..MaxListing
      /\ \/ i \in DOMAIN SeenRows(t) /\ SeenRows(t)[i].job = s.record
         \/ i \in FreeRow
  <2>1. CASE s.row # 0
    BY <1>1, <1>2, <1>3, <2>1, SaveIsTyped DEF KnowsRecord
  <2>2. CASE s.row = 0
    BY <1>1, <2>2 DEF FreeRow
  <2> QED  BY <2>1, <2>2
<1>10. /\ DOMAIN rows = DOMAIN s.rows \union {i} /\ rows[i] = new
       /\ \A j \in DOMAIN s.rows \ {i} : rows[j] = s.rows[j]
       /\ rows = [j \in DOMAIN rows |-> rows[j]]
  BY <1>1, <1>5 DEF RowsWith
<1>11. rows \in Rows
  <2>1. \A j \in DOMAIN s.rows : j \in 1..MaxListing /\ s.rows[j] \in ListingRow
    BY <1>2 DEF SaveType, Rows
  <2>2. DOMAIN rows \in SUBSET (1..MaxListing) /\ \A j \in DOMAIN rows : rows[j] \in ListingRow
    BY <1>8, <1>9, <1>10, <2>1
  <2>3. rows \in [DOMAIN rows -> ListingRow]
    BY <1>10, <2>2
  <2> QED  BY <2>2, <2>3 DEF Rows
<1>12. /\ Len(s.todo) \in Nat /\ Len(s.saved) \in Nat
       /\ todo \in Seq(Offered) /\ Len(todo) = Len(s.todo) - 1
       /\ \A j \in 1..Len(todo) : todo[j] = s.todo[j + 1]
       /\ p = s.todo[1]
  BY <1>1, <1>2, <1>4, <1>5, HeadTailProperties, LenProperties DEF SaveType
<1>13. /\ saved \in Seq(Title) /\ Len(saved) = Len(s.saved) + 1
       /\ \A j \in 1..Len(s.saved) : saved[j] = s.saved[j]
       /\ saved[Len(s.saved) + 1] = s.record
  BY <1>2, <1>4, <1>5, AppendProperties DEF SaveType
<1>14. k \in SaveType
  <2>1. /\ newJobs \in SUBSET Title /\ touched \in SUBSET Title
        /\ overtaken \in SUBSET Title
    BY <1>2, <1>4, <1>5 DEF SaveType
  <2> QED  BY <1>2, <1>11, <1>12, <1>13, <1>7a, <2>1 DEF SaveType
<1>15. /\ k.step = "reads" /\ k.todo = todo /\ k.given = s.given /\ k.saved = saved
       /\ k.newJobs = newJobs /\ k.touched = touched /\ k.overtaken = overtaken
       /\ k.rows = rows
  BY <1>2, <1>7a DEF SaveType
<1> HIDE DEF updated
<1>16. PICK n \in Nat : n = Len(s.saved)
  BY <1>12
<1>17. KeepsOrder(t)'
  <2>1. Len(saved) + Len(todo) = Len(s.given)
    <3>1. Len(s.saved) + Len(s.todo) = Len(s.given)
      BY <1>1, <1>3 DEF KeepsOrder
    <3>2. /\ Len(s.todo) \in Nat /\ Len(todo) = Len(s.todo) - 1
          /\ Len(saved) = Len(s.saved) + 1 /\ Len(s.saved) \in Nat
      BY <1>12, <1>13
    <3>3. \A a, b \in Nat : (a + 1) + (b - 1) = a + b
      OBVIOUS
    <3> QED  BY <3>1, <3>2, <3>3
  <2>2. \A j \in 1..Len(todo) : todo[j] = s.given[Len(saved) + j]
    <3>1. SUFFICES ASSUME NEW j \in 1..Len(todo) PROVE todo[j] = s.given[Len(saved) + j]
      OBVIOUS
    <3>2. j + 1 \in 1..Len(s.todo) /\ n + (j + 1) = (n + 1) + j
      BY <1>12
    <3>3. s.todo[j + 1] = s.given[n + (j + 1)]
      BY <1>1, <1>3, <1>16, <3>2 DEF KeepsOrder
    <3>4. todo[j] = s.todo[j + 1] /\ Len(saved) = n + 1
      BY <1>12, <1>13, <1>16
    <3> QED  BY <3>2, <3>3, <3>4
  <2> QED  BY ZenonT(60), <1>1, <1>3, <1>7, <1>15, <2>1, <2>2 DEF KeepsOrder
<1>18. DOMAIN s.saved = 1..n /\ DOMAIN saved = 1..(n + 1)
  BY <1>2, <1>13, <1>16, LenProperties DEF SaveType
<1>19. HoldsSaved(t)'
  <2>1. Range(s.saved) \union {s.record} \subseteq Range(saved)
    BY <1>13, <1>16, <1>18 DEF Range
  <2>2. newJobs \subseteq touched /\ touched \subseteq Range(saved)
    BY <1>1, <1>3, <1>5, <2>1 DEF HoldsSaved
  <2>3. \A j \in DOMAIN rows : rows[j].job \in touched
    BY <1>1, <1>3, <1>5, <1>8, <1>10 DEF HoldsSaved
  <2> QED  BY <1>7, <1>15, <2>2, <2>3 DEF HoldsSaved
<1>20. SeenJobs(t) \union {s.record} \subseteq SeenJobs(t)'
  <2>1. SeenJobs(t)' = jobs \union newJobs /\ SeenJobs(t) = jobs \union s.newJobs
    BY <1>1, <1>7, <1>15 DEF SeenJobs
  <2>2. s.fresh \/ s.record \in SeenJobs(t)
    BY <1>1, <1>2, <1>3 DEF KnowsRecord
  <2> QED  BY <1>5, <2>1, <2>2
<1>21. ASSUME NEW j \in 1..n PROVE Filed(t, j)'
  <2>1. Filed(t, j) /\ saved[j] = s.saved[j]
    BY <1>3, <1>13, <1>16, <1>18
  <2>2. PICK r \in DOMAIN s.rows :
          /\ s.rows[r].job = s.saved[j]
          /\ \/ s.saved[j] \in s.overtaken \/ Shows(s.rows[r], s.given[j])
             \/ \E l \in DOMAIN s.saved : l # j /\ s.saved[l] = s.saved[j]
    BY <1>1, <2>1 DEF Filed
  <2>3. saved[j] \in SeenJobs(t)'
    BY <1>1, <1>20, <2>1 DEF Filed
  <2>4. CASE r = i
    <3>1. i \in DOMAIN SeenRows(t) /\ SeenRows(t)[i].job = s.saved[j]
      BY <1>1, <2>2, <2>4, SaveIsTyped
    <3>2. i \notin FreeRow
      BY <1>1, <2>2, <2>4 DEF FreeRow
    <3>3. s.record = saved[j] /\ saved[n + 1] = saved[j] /\ n + 1 # j /\ n + 1 \in DOMAIN saved
      BY <1>9, <1>13, <1>16, <1>18, <2>1, <3>1, <3>2
    <3>4. i \in DOMAIN rows /\ rows[i].job = saved[j]
      BY <1>8, <1>10, <3>3
    <3> QED  BY <1>7, <1>15, <2>3, <3>3, <3>4 DEF Filed
  <2>5. CASE r # i
    <3>1. r \in DOMAIN rows /\ rows[r] = s.rows[r]
      BY <1>10, <2>2, <2>5
    <3>2. s.overtaken \subseteq overtaken
      BY <1>5
    <3>3. \A l \in DOMAIN s.saved : l \in DOMAIN saved /\ saved[l] = s.saved[l]
      BY <1>13, <1>16, <1>18
    <3>4. \/ saved[j] \in overtaken \/ Shows(rows[r], s.given[j])
          \/ \E l \in DOMAIN saved : l # j /\ saved[l] = saved[j]
      BY <2>1, <2>2, <3>1, <3>2, <3>3
    <3> QED  BY <1>7, <1>15, <2>1, <2>2, <2>3, <3>1, <3>4 DEF Filed
  <2> QED  BY <2>4, <2>5
<1>22. Filed(t, n + 1)'
  <2>1. p = s.given[n + 1]
    <3>1. 1 \in 1..Len(s.todo)
      BY <1>12
    <3> QED  BY <1>1, <1>3, <1>12, <1>16, <3>1 DEF KeepsOrder
  <2>2. saved[n + 1] = s.record /\ s.record \in SeenJobs(t)'
    BY <1>13, <1>16, <1>20
  <2>3. i \in DOMAIN rows /\ rows[i] = new /\ new.job = s.record
    BY <1>8, <1>10
  <2>4. s.record \in overtaken \/ Shows(new, p)
    BY <1>5, <1>8
  <2> QED  BY <1>7, <1>15, <2>1, <2>2, <2>3, <2>4 DEF Filed
<1>23. SaveIsSound(t)'
  <2>1. KnowsRecord(t)'
    BY <1>7, <1>15 DEF KnowsRecord
  <2>2. \A j \in 1..(n + 1) : Filed(t, j)'
    <3>1. \A j \in 1..(n + 1) : j \in 1..n \/ j = n + 1
      OBVIOUS
    <3> QED  BY <1>21, <1>22, <3>1
  <2>3. DOMAIN saver'[t].saved = 1..(n + 1)
    BY <1>7, <1>15, <1>18
  <2> QED  BY <1>17, <1>19, <2>1, <2>2, <2>3 DEF SaveIsSound
<1>24. ASSUME NEW j \in DOMAIN rows
       PROVE  \/ j \in DOMAIN SeenRows(t) /\ SeenRows(t)[j].job = rows[j].job
              \/ j \in FreeRow
  <2>1. CASE j = i
    BY <1>8, <1>9, <1>10, <2>1
  <2>2. CASE j # i
    BY <1>1, <1>10, <1>24, <2>2, SaveIsTyped
  <2> QED  BY <2>1, <2>2
<1> QED  BY <1>6, <1>14, <1>15, <1>23, <1>24, OneSaveMoves

LEMMA UpsertKeepsInv ==
  ASSUME CatalogInv, NEW t \in Saver, Upserts(t)
  PROVE  CatalogInv'
<1>1. CASE Fails(t)
  BY <1>1, FailingKeepsInv DEF Upserts
<1>2. CASE ~Fails(t)
  <2>1. PICK i \in IF saver[t].row # 0 THEN {saver[t].row} ELSE FreeRow :
          saver' = [saver EXCEPT
            ![t].step = "reads",
            ![t].todo = Tail(@),
            ![t].saved = Append(@, saver[t].record),
            ![t].newJobs = IF saver[t].fresh THEN @ \union {saver[t].record} ELSE @,
            ![t].touched = @ \union {saver[t].record},
            ![t].overtaken = IF IsOvertaken(t) THEN @ \union {saver[t].record} ELSE @,
            ![t].rows = RowsWith(t, i)]
    BY <1>2 DEF Upserts
  <2>2. saver' = [saver EXCEPT ![t] = Upserted(t, i)]
    BY ZenonT(60), <2>1, SaveIsTyped DEF Upserted
  <2> QED  BY <2>2, UpsertIsFiled DEF Upserts
<1> QED  BY <1>1, <1>2

\* A commit changes no row's job, and other saves see at least what they saw.
LEMMA CatalogCommitKeepsInv ==
  ASSUME CatalogInv, NEW t \in Saver, Commits(t)
  PROVE  CatalogInv'
<1>1. CASE ~IsInjective(saver[t].saved)
  BY <1>1, FailingKeepsInv DEF Commits
<1>2. CASE IsInjective(saver[t].saved)
  <2>1. PICK k : k = [NoSave EXCEPT !.step = "saved"]
    OBVIOUS
  <2>2. k \in SaveType /\ k.step = "saved" /\ k.todo = <<>> /\ k.given = <<>>
    BY <2>1, NoSaveIsTyped DEF SaveType
  <2>3. k.saved = <<>> /\ k.newJobs = {} /\ k.touched = {} /\ DOMAIN k.rows = {}
    BY <2>1, NoSaveIsTyped DEF SaveType
  <2>4. /\ saver' = [saver EXCEPT ![t] = k]
        /\ jobs' = SeenJobs(t) /\ listings' = SeenRows(t)
    BY <1>2, <2>1 DEF Commits
  <2>5. saver'[t] = k /\ \A u \in Saver \ {t} : saver'[u] = saver[u]
    BY <2>4, SaveIsTyped
  <2>6. CatalogTypeOK'
    BY <2>2, <2>4, SaveIsTyped DEF CatalogInv, CatalogTypeOK
  <2>7. RowsAgree(t) /\ \A u \in Saver \ {t} : RowsAgree(u)
    BY DEF CatalogInv
  <2>8. jobs \subseteq jobs' /\ DOMAIN listings \subseteq DOMAIN listings'
    BY <2>4, SaveIsTyped DEF SeenJobs
  <2>9. \A i \in DOMAIN listings : listings'[i].job = listings[i].job
    BY <2>4, <2>7, SaveIsTyped DEF RowsAgree
  <2>10. DOMAIN listings' = DOMAIN listings \union DOMAIN saver[t].rows
    BY <2>4, SaveIsTyped
  <2>11. Len(k.given) = 0
    BY <2>2
  <2>12. SaveIsSound(t)'
    BY <2>2, <2>3, <2>5, <2>11, RestingIsSound
  <2>13. ASSUME NEW u \in Saver \ {t} PROVE SaveIsSound(u)'
    <3>1. saver'[u] = saver[u] /\ SaveIsSound(u)
      BY <2>5 DEF CatalogInv
    <3>2. SeenJobs(u) \subseteq SeenJobs(u)'
      BY <2>8, <3>1 DEF SeenJobs
    <3>3. /\ DOMAIN SeenRows(u)' = DOMAIN listings' \union DOMAIN saver[u].rows
          /\ \A i \in DOMAIN saver[u].rows : SeenRows(u)'[i] = saver[u].rows[i]
          /\ \A i \in DOMAIN listings' \ DOMAIN saver[u].rows : SeenRows(u)'[i] = listings'[i]
      BY <3>1 DEF SeenRows
    <3>4. \A i \in DOMAIN SeenRows(u) :
            i \in DOMAIN SeenRows(u)' /\ SeenRows(u)'[i].job = SeenRows(u)[i].job
      BY ZenonT(60), <2>8, <2>9, <3>3, SaveIsTyped
    <3>5. KeepsOrder(u)'
      BY <3>1 DEF SaveIsSound, KeepsOrder
    <3>6. HoldsSaved(u)'
      BY <3>1 DEF SaveIsSound, HoldsSaved
    <3>7. KnowsRecord(u)'
      BY <3>1, <3>2, <3>4 DEF SaveIsSound, KnowsRecord
    <3>8. \A j \in DOMAIN saver'[u].saved : Filed(u, j)'
      BY <3>1, <3>2 DEF SaveIsSound, Filed
    <3> QED  BY <3>5, <3>6, <3>7, <3>8 DEF SaveIsSound
  <2>14. RowsAgree(t)'
    BY <2>3, <2>5 DEF RowsAgree
  <2>15. ASSUME NEW u \in Saver \ {t} PROVE RowsAgree(u)'
    <3>1. \A i \in DOMAIN saver[u].rows \intersect DOMAIN listings' :
            i \in DOMAIN listings /\ listings'[i].job = saver[u].rows[i].job
      BY <2>7, <2>9, <2>10 DEF RowsAgree
    <3>2. \A v \in Saver \ {u} : DOMAIN saver'[u].rows \intersect DOMAIN saver'[v].rows
                                  \subseteq DOMAIN listings'
      BY <2>3, <2>5, <2>7, <2>8 DEF RowsAgree
    <3> QED  BY <2>5, <3>1, <3>2 DEF RowsAgree
  <2> QED  BY <2>6, <2>12, <2>13, <2>14, <2>15 DEF CatalogInv
<1> QED  BY <1>1, <1>2

LEMMA CatalogInitInv ==
  ASSUME CatalogInit
  PROVE  CatalogInv
<1>1. ASSUME NEW t \in Saver PROVE saver[t] = NoSave
  BY DEF CatalogInit
<1>2. CatalogTypeOK
  <2>1. [i \in {} |-> 0] \in Rows
    BY NoSaveIsTyped DEF SaveType
  <2> QED  BY <2>1, NoSaveIsTyped DEF CatalogInit, CatalogTypeOK
<1>3. ASSUME NEW t \in Saver PROVE SaveIsSound(t)
  <2>1. /\ Len(saver[t].saved) = 0 /\ Len(saver[t].todo) = 0 /\ Len(saver[t].given) = 0
        /\ DOMAIN saver[t].saved = {} /\ DOMAIN saver[t].rows = {}
    BY <1>1, NoSaveIsTyped
  <2>2. KeepsOrder(t)
    BY <2>1 DEF KeepsOrder
  <2>3. HoldsSaved(t) /\ KnowsRecord(t)
    BY <1>1, <2>1, NoSaveIsTyped DEF HoldsSaved, KnowsRecord, NoSave
  <2> QED  BY <2>1, <2>2, <2>3 DEF SaveIsSound
<1>4. ASSUME NEW t \in Saver PROVE RowsAgree(t)
  BY <1>1, NoSaveIsTyped DEF RowsAgree
<1> QED  BY <1>2, <1>3, <1>4 DEF CatalogInv

LEMMA CatalogNextKeepsInv ==
  ASSUME CatalogInv, [CatalogNext]_catalogVars
  PROVE  CatalogInv'
<1>1. ASSUME NEW t \in Saver, NEW result \in SearchResult, Saves(t, result) PROVE CatalogInv'
  BY <1>1, BeginningKeepsInv
<1>2. ASSUME NEW t \in Saver, Looks(t) PROVE CatalogInv'
  BY <1>2, LookingKeepsInv
<1>3. ASSUME NEW t \in Saver, Upserts(t) PROVE CatalogInv'
  BY <1>3, UpsertKeepsInv
<1>4. ASSUME NEW t \in Saver, Commits(t) PROVE CatalogInv'
  BY <1>4, CatalogCommitKeepsInv
<1>5. ASSUME NEW t \in Saver, IsDeadlockVictim(t) PROVE CatalogInv'
  BY <1>5, FailingKeepsInv DEF IsDeadlockVictim
<1>6. CASE UNCHANGED catalogVars
  <2> USE <1>6 DEF catalogVars
  <2>1. CatalogTypeOK'
    BY DEF CatalogInv, CatalogTypeOK
  <2>2. ASSUME NEW t \in Saver PROVE SaveIsSound(t)' /\ RowsAgree(t)'
    <3>1. SaveIsSound(t) /\ RowsAgree(t)
      BY DEF CatalogInv
    <3>2. SeenRows(t)' = SeenRows(t) /\ SeenJobs(t)' = SeenJobs(t)
      BY DEF SeenRows, SeenJobs
    <3>3. KeepsOrder(t)' /\ HoldsSaved(t)' /\ RowsAgree(t)'
      BY <3>1 DEF SaveIsSound, KeepsOrder, HoldsSaved, RowsAgree
    <3>4. KnowsRecord(t)' /\ \A k \in DOMAIN saver'[t].saved : Filed(t, k)'
      BY <3>1, <3>2 DEF SaveIsSound, KnowsRecord, Filed
    <3> QED  BY <3>3, <3>4 DEF SaveIsSound
  <2> QED  BY <2>1, <2>2 DEF CatalogInv
<1> QED  BY <1>1, <1>2, <1>3, <1>4, <1>5, <1>6 DEF CatalogNext

-------------------------------------------------------------------------------
LEMMA LengthsAgree ==
  ASSUME CatalogInv, NEW t \in Saver
  PROVE  /\ Len(saver[t].saved) \in Nat /\ Len(saver[t].given) \in Nat
         /\ Len(saver[t].given) - Len(saver[t].todo) = Len(saver[t].saved)
         /\ DOMAIN saver[t].saved = 1..Len(saver[t].saved)
         /\ DOMAIN saver[t].given = 1..Len(saver[t].given)
         /\ saver[t].todo = <<>> => Len(saver[t].given) = Len(saver[t].saved)
         /\ saver[t].todo # <<>> => Len(saver[t].saved) + 1 <= Len(saver[t].given)
<1>1. /\ saver[t].todo \in Seq(Offered) /\ saver[t].given \in Seq(Offered)
      /\ saver[t].saved \in Seq(Title)
  BY SaveIsTyped DEF SaveType
<1>2. Len(saver[t].saved) + Len(saver[t].todo) = Len(saver[t].given)
  BY DEF CatalogInv, SaveIsSound, KeepsOrder
<1>3. /\ Len(saver[t].saved) \in Nat /\ Len(saver[t].given) \in Nat /\ Len(saver[t].todo) \in Nat
      /\ DOMAIN saver[t].saved = 1..Len(saver[t].saved)
      /\ DOMAIN saver[t].given = 1..Len(saver[t].given)
      /\ (Len(saver[t].todo) = 0) <=> (saver[t].todo = <<>>)
  BY <1>1, LenProperties, EmptySeq
<1>4. PICK a, b, c \in Nat :
        a = Len(saver[t].saved) /\ b = Len(saver[t].todo) /\ c = Len(saver[t].given)
  BY <1>3
<1>5. c - b = a /\ (b = 0 => c = a) /\ (b # 0 => a + 1 <= c)
  <2>1. a + b = c
    BY <1>2, <1>4
  <2> QED  BY <2>1
<1> QED  BY <1>3, <1>4, <1>5, Zenon

\* A save that waits for another is to write a job of an earlier title.
LEMMA WaitsFollowTitles ==
  ASSUME CatalogInv, NEW t \in Saver, NEW u \in Saver, FollowsTitles(t), FollowsTitles(u),
         BlockedBy(t, u), saver[u].step = "writes", ~RefilesUrl(t, u)
  PROVE  /\ TitleRank(saver[t].record) \in Nat /\ TitleRank(saver[u].record) \in Nat
         /\ TitleRank(saver[t].record) < TitleRank(saver[u].record)
<1>1. PICK given, saved, n :
        /\ given = saver[u].given /\ saved = saver[u].saved /\ n = Len(saver[u].saved)
  OBVIOUS
<1>2. /\ n \in Nat /\ DOMAIN saved = 1..n /\ DOMAIN given = 1..Len(given) /\ Len(given) \in Nat
      /\ Len(given) - Len(saver[u].todo) = n
  BY <1>1, LengthsAgree
<1>3. n + 1 <= Len(given)
  <2>1. saver[u].todo # <<>>
    BY DEF CatalogInv, SaveIsSound, KnowsRecord
  <2> QED  BY <1>1, <2>1, LengthsAgree
<1>4. HoldsSaved(u)
  BY DEF CatalogInv, SaveIsSound
<1>5. saver[t].record \in Range(saved)
  <2>1. saver[t].record \in saver[u].touched
    BY <1>4 DEF BlockedBy, RefilesUrl, HoldsSaved
  <2> QED  BY <1>1, <1>4, <2>1 DEF HoldsSaved
<1>6. PICK k \in 1..n : saved[k] = saver[t].record
  BY <1>2, <1>5 DEF Range
<1>7. /\ \A i, j \in DOMAIN given :
           TitleRank(given[i].fingerprint) = TitleRank(given[j].fingerprint) => i = j
      /\ saved[k] = given[k].fingerprint
      /\ saver[u].record = given[n + 1].fingerprint
  BY <1>1, <1>2 DEF FollowsTitles
<1>8. k \in 1..Len(given) /\ n + 1 \in 1..Len(given) /\ k < n + 1 /\ k # n + 1
  <2>1. \A a, b \in Nat : \A c \in 1..a : a + 1 <= b =>
          c \in 1..b /\ a + 1 \in 1..b /\ c < a + 1 /\ c # a + 1
    OBVIOUS
  <2> QED  BY <1>2, <1>3, <2>1
<1>9. /\ TitleRank(given[k].fingerprint) \in Nat /\ TitleRank(given[n + 1].fingerprint) \in Nat
      /\ TitleRank(given[k].fingerprint) <= TitleRank(given[n + 1].fingerprint)
  BY <1>1, <1>8 DEF CatalogInv, SaveIsSound, KeepsOrder
<1>10. TitleRank(given[k].fingerprint) # TitleRank(given[n + 1].fingerprint)
  BY <1>2, <1>7, <1>8
<1> QED  BY <1>6, <1>7, <1>9, <1>10

LEMMA TitlesPreventDeadlock ==
  ASSUME CatalogInv
  PROVE  TitleOrderPreventsDeadlock
<1>1. SUFFICES ASSUME NEW t \in Saver, NEW u \in Saver, FollowsTitles(t), FollowsTitles(u),
                      BlockedBy(t, u), BlockedBy(u, t), ~RefilesUrl(t, u), ~RefilesUrl(u, t)
               PROVE  FALSE
  BY DEF TitleOrderPreventsDeadlock
<1>2. saver[t].step = "writes" /\ saver[u].step = "writes"
  BY <1>1 DEF BlockedBy
<1>3. /\ TitleRank(saver[t].record) \in Nat /\ TitleRank(saver[u].record) \in Nat
      /\ TitleRank(saver[t].record) < TitleRank(saver[u].record)
  BY <1>1, <1>2, WaitsFollowTitles
<1>4. TitleRank(saver[u].record) < TitleRank(saver[t].record)
  BY <1>1, <1>2, WaitsFollowTitles
<1> QED  BY <1>3, <1>4

\* Only its own commit ends a save as saved.
LEMMA OnlyCommitsSave ==
  ASSUME CatalogInv, [CatalogNext]_catalogVars, NEW t \in Saver,
         saver[t].step = "reads", saver'[t].step = "saved"
  PROVE  Commits(t) /\ IsInjective(saver[t].saved)
<1>1. ASSUME NEW u \in Saver, NEW k, saver' = [saver EXCEPT ![u] = k], k.step # "saved"
      PROVE  FALSE
  BY <1>1, SaveIsTyped
<1>2. ASSUME NEW u \in Saver, Fails(u) PROVE FALSE
  <2>1. [NoSave EXCEPT !.step = "failed"].step # "saved"
    BY DEF NoSave
  <2> QED  BY <1>1, <1>2, <2>1 DEF Fails
<1>3. ASSUME NEW u \in Saver, NEW result \in SearchResult, Saves(u, result) PROVE FALSE
  <2>1. PICK k : k = [NoSave EXCEPT !.step = "reads", !.todo = Processed(result),
                        !.given = Processed(result)]
    OBVIOUS
  <2>2. k.step = "reads"
    BY <2>1 DEF NoSave
  <2> QED  BY <1>1, <1>3, <2>1, <2>2 DEF Saves
<1>4. ASSUME NEW u \in Saver, Looks(u) PROVE FALSE
  <2>1. PICK k : saver' = [saver EXCEPT ![u] = k] /\ k.step = "writes"
    BY <1>4, LookingKeepsInv
  <2> QED  BY <1>1, <2>1
<1>5. ASSUME NEW u \in Saver, Upserts(u), ~Fails(u) PROVE FALSE
  <2>1. saver'[t].step = IF u = t THEN "reads" ELSE saver[t].step
    BY ZenonT(60), <1>5, SaveIsTyped DEF Upserts, SaveType
  <2> QED  BY <2>1
<1>6. ASSUME NEW u \in Saver, Commits(u), ~Fails(u) PROVE u = t
  BY <1>6, SaveIsTyped DEF Commits
<1>7. saver' # saver
  OBVIOUS
<1>8. PICK u \in Saver : Commits(u)
  BY <1>2, <1>3, <1>4, <1>5, <1>7 DEF CatalogNext, catalogVars, IsDeadlockVictim
<1> QED  BY <1>2, <1>6, <1>8 DEF Commits

LEMMA CommitFilesListings ==
  ASSUME CatalogInv, NEW t \in Saver, Commits(t), IsInjective(saver[t].saved),
         NEW k \in DOMAIN saver[t].given
  PROVE  /\ saver[t].saved[k] \in jobs'
         /\ \E i \in IF saver[t].saved[k] \in saver[t].overtaken THEN DOMAIN listings'
                    ELSE Matches(listings', DOMAIN listings', saver[t].given[k]) :
              listings'[i].job = saver[t].saved[k]
<1>1. jobs' = SeenJobs(t) /\ listings' = SeenRows(t) /\ saver[t].todo = <<>>
  BY DEF Commits
<1>2. k \in DOMAIN saver[t].saved
  BY <1>1, LengthsAgree
<1>3. Filed(t, k)
  BY <1>2 DEF CatalogInv, SaveIsSound
<1>4. ~ \E l \in DOMAIN saver[t].saved : l # k /\ saver[t].saved[l] = saver[t].saved[k]
  BY <1>2 DEF IsInjective
<1>5. PICK i \in DOMAIN saver[t].rows :
        /\ saver[t].rows[i].job = saver[t].saved[k]
        /\ saver[t].saved[k] \in saver[t].overtaken \/ Shows(saver[t].rows[i], saver[t].given[k])
  BY <1>3, <1>4 DEF Filed
<1>6. i \in DOMAIN listings' /\ listings'[i] = saver[t].rows[i]
  BY <1>1, <1>5, SaveIsTyped
<1>7. ASSUME NEW p, Shows(listings'[i], p) PROVE i \in Matches(listings', DOMAIN listings', p)
  BY <1>6, <1>7 DEF Shows, Matches
<1> QED  BY <1>1, <1>3, <1>5, <1>6, <1>7 DEF Filed

\* Saves that overlap lose no listing, whatever they interleave: a committed save leaves
\* each of its listings filed under its job, where the next search finds it as itself
\* unless another save changed the row in between. And saves that meet jobs under the
\* titles they know never wait for each other, unless over a URL held under another job.
THEOREM CatalogStaysSound == CatalogSpec => CatalogIsSound
<1>1. CatalogInit => CatalogInv
  BY CatalogInitInv
<1>2. CatalogInv /\ [CatalogNext]_catalogVars => CatalogInv'
  BY CatalogNextKeepsInv
<1>3. CatalogInv => TitleOrderPreventsDeadlock
  BY TitlesPreventDeadlock
<1>4. CatalogInv /\ [CatalogNext]_catalogVars =>
        [\A t \in Saver : saver[t].step = "reads" /\ saver'[t].step = "saved" =>
           \A k \in DOMAIN saver[t].given :
             /\ saver[t].saved[k] \in jobs'
             /\ \E i \in IF saver[t].saved[k] \in saver[t].overtaken THEN DOMAIN listings'
                        ELSE Matches(listings', DOMAIN listings', saver[t].given[k]) :
                  listings'[i].job = saver[t].saved[k]]_catalogVars
  BY OnlyCommitsSave, CommitFilesListings
<1> QED  BY <1>1, <1>2, <1>3, <1>4, PTL DEF CatalogSpec, CatalogIsSound, SavedListingsAreFiled
-------------------------------------------------------------------------------
(* What a search says of its providers is what they did. The argument is about *)
(* one call: what had ended when its search stopped waiting stays as it was,   *)
(* and what had not is cancelled before a thread takes it or reported as       *)
(* started, whatever becomes of it afterwards.                                 *)

Transient == {"timeout", "rate_limited", "unavailable"}

Code == {"none", "misconfigured", "invalid_response", "failed"} \union Transient

FutureType ==
  [state : {"none", "queued", "running", "answered", "failed", "cancelled"},
   attempts : {0, 1, 2}, code : Code]

ReportType == [outcome : {"none", "answered", "failed"}, code : Code, attempts : {0, 1, 2}]

PoolTypeOK ==
  /\ misconfigured \in SUBSET Provider
  /\ phase \in [Search -> {"idle", "waiting", "collecting", "done"}]
  /\ future \in [Search -> [Configured -> FutureType]]
  /\ report \in [Search -> [Provider -> ReportType]]
  /\ pending \in [Search -> SUBSET Configured]
  /\ timely \in [Search -> SUBSET Configured]

\* A call is counted from when a thread takes it, and fails with a transient
\* error only after its second attempt.
FutureIsSound(f) ==
  /\ f.state = "running" => f.attempts \in {1, 2}
  /\ f.state = "failed" /\ f.code \in Transient => f.attempts = MaxProviderAttempts
  /\ f.state # "failed" => f.code = "none"

\* What is reported of a call: that its search did not wait for it, and whether
\* a thread had taken it; or what it ended with.
ReportAgrees(s, p) ==
  LET f == future[s][p]  r == report[s][p] IN
    \/ r = Unreported /\ f.state # "cancelled"
    \/ /\ p \in pending[s] /\ f.state # "queued"
       /\ r = [outcome |-> "failed", code |-> "timeout",
               attempts |-> IF f.state = "cancelled" THEN 0 ELSE 1]
    \/ /\ p \notin pending[s]
       /\ r = [outcome |-> f.state, code |-> f.code, attempts |-> f.attempts]

CallIsTrue(s, p) ==
  /\ FutureIsSound(future[s][p])
  /\ phase[s] = "idle" => future[s][p].state = "none"
  /\ phase[s] # "idle" => future[s][p].state # "none"
  /\ phase[s] \in {"idle", "waiting"} => report[s][p] = Unreported
  /\ phase[s] \in {"collecting", "done"} /\ p \notin pending[s] =>
       Ended(s, p) /\ (p \in timely[s] <=> future[s][p].state = "answered")
  /\ p \in pending[s] => p \notin timely[s]
  /\ phase[s] = "done" => report[s][p] # Unreported
  /\ ReportAgrees(s, p)

\* A provider that could not be built is reported as failed from the start.
MisconfiguredIsReported(s) ==
  phase[s] # "idle" => \A p \in misconfigured : report[s][p].outcome = "failed"

PoolIInv ==
  /\ PoolTypeOK
  /\ \A s \in Search : MisconfiguredIsReported(s) /\ \A p \in Configured : CallIsTrue(s, p)

-------------------------------------------------------------------------------
LEMMA NothingYet ==
  /\ NoFuture \in FutureType /\ NoFuture.state = "none" /\ FutureIsSound(NoFuture)
  /\ Unreported \in ReportType /\ Unreported.outcome = "none" /\ Unreported.code = "none"
BY DEF NoFuture, FutureType, Unreported, ReportType, Code, FutureIsSound

LEMMA PoolInitHolds == SearchPoolInit => PoolIInv
<1> SUFFICES ASSUME SearchPoolInit PROVE PoolIInv  OBVIOUS
<1>1. PoolTypeOK
  BY NothingYet, ProviderSearchBounds DEF SearchPoolInit, PoolTypeOK, Provider
<1>2. ASSUME NEW s \in Search, NEW p \in Configured PROVE CallIsTrue(s, p)
  BY NothingYet DEF SearchPoolInit, CallIsTrue, ReportAgrees, Configured
<1>3. \A s \in Search : MisconfiguredIsReported(s)
  BY DEF SearchPoolInit, MisconfiguredIsReported
<1> QED  BY <1>1, <1>2, <1>3 DEF PoolIInv

\* A call of which nothing changes, nor of its search.
LEMMA CallStays ==
  ASSUME NEW s \in Search, NEW p \in Configured, CallIsTrue(s, p),
         future'[s][p] = future[s][p], report'[s][p] = report[s][p], phase'[s] = phase[s],
         pending'[s] = pending[s], timely'[s] = timely[s]
  PROVE  CallIsTrue(s, p)'
BY DEF CallIsTrue, ReportAgrees, Ended

LEMMA FutureChanges ==
  ASSUME PoolTypeOK, NEW s \in Search, NEW p \in Configured, NEW f \in FutureType,
         future' = [future EXCEPT ![s][p] = f], UNCHANGED misconfigured
  PROVE  /\ future' \in [Search -> [Configured' -> FutureType]]
         /\ future'[s][p] = f
         /\ \A t \in Search, q \in Configured :
              <<t, q>> # <<s, p>> => future'[t][q] = future[t][q]
<1>1. Configured' = Configured  BY DEF Configured
<1> QED  BY <1>1 DEF PoolTypeOK

\* A call that moves on, while its search stays where it is.
LEMMA CallMovesOn ==
  ASSUME PoolIInv, NEW s \in Search, NEW p \in Configured, NEW f \in FutureType,
         future' = [future EXCEPT ![s][p] = f],
         UNCHANGED <<misconfigured, phase, pending, report, timely>>,
         FutureIsSound(f), future[s][p].state \in {"queued", "running"},
         f.state \in {"running", "answered", "failed"}
  PROVE  PoolIInv'
<1>0. PoolTypeOK  BY DEF PoolIInv
<1>1. PoolTypeOK' /\ Configured' = Configured
  BY FutureChanges DEF PoolIInv, PoolTypeOK, Configured, Provider
<1>2. /\ future'[s][p] = f
      /\ \A t \in Search, q \in Configured : <<t, q>> # <<s, p>> => future'[t][q] = future[t][q]
  BY <1>0 DEF PoolTypeOK
<1>3. CallIsTrue(s, p)'
  <2>1. CallIsTrue(s, p)  BY DEF PoolIInv
  <2>2. phase[s] \in {"idle", "waiting", "collecting", "done"}  BY DEF PoolIInv, PoolTypeOK
  <2>3. ReportAgrees(s, p)'
    BY <1>2, <2>1, <2>2 DEF CallIsTrue, ReportAgrees, Ended, Unreported
  <2> QED  BY <1>2, <2>1, <2>2, <2>3 DEF CallIsTrue, Ended
<1>4. ASSUME NEW t \in Search, NEW q \in Configured PROVE CallIsTrue(t, q)'
  BY <1>2, <1>3, CallStays DEF PoolIInv
<1>5. \A t \in Search : MisconfiguredIsReported(t)'
  BY DEF PoolIInv, MisconfiguredIsReported
<1> QED  BY <1>1, <1>4, <1>5 DEF PoolIInv
LEMMA TakingKeepsPool ==
  ASSUME PoolIInv, NEW s \in Search, NEW p \in Configured, ThreadTakes(s, p)
  PROVE  PoolIInv'
<1>1. future[s][p] \in FutureType /\ future[s][p].state = "queued" /\ CallIsTrue(s, p)
  BY DEF ThreadTakes, InState, PoolIInv, PoolTypeOK
<1>2. PICK f : f = [future[s][p] EXCEPT !.state = "running", !.attempts = 1]
  OBVIOUS
<1>3. f \in FutureType /\ f.state = "running" /\ f.attempts = 1 /\ f.code = future[s][p].code
  BY <1>1, <1>2 DEF FutureType
<1>4. FutureIsSound(f)
  BY <1>1, <1>3 DEF FutureIsSound, CallIsTrue
<1>5. future' = [future EXCEPT ![s][p] = f]
  BY <1>2 DEF ThreadTakes, PoolIInv, PoolTypeOK
<1> QED  BY <1>1, <1>3, <1>4, <1>5, CallMovesOn DEF ThreadTakes

LEMMA AnsweringKeepsPool ==
  ASSUME PoolIInv, NEW s \in Search, NEW p \in Configured, ProviderAnswers(s, p)
  PROVE  PoolIInv'
<1>1. future[s][p] \in FutureType /\ future[s][p].state = "running" /\ CallIsTrue(s, p)
  BY DEF ProviderAnswers, PoolIInv, PoolTypeOK
<1>2. PICK f : f = [future[s][p] EXCEPT !.state = "answered"]
  OBVIOUS
<1>3. f \in FutureType /\ f.state = "answered" /\ f.code = future[s][p].code
  BY <1>1, <1>2 DEF FutureType
<1>4. FutureIsSound(f)
  BY <1>1, <1>3 DEF FutureIsSound, CallIsTrue
<1>5. future' = [future EXCEPT ![s][p] = f]
  BY <1>2 DEF ProviderAnswers
<1> QED  BY <1>1, <1>3, <1>4, <1>5, CallMovesOn DEF ProviderAnswers

\* An error that is not retried at once is no transient one.
LEMMA FailuresHaveCodes ==
  ASSUME NEW error
  PROVE  /\ FailureCode(error) \in Code
         /\ FailureCode(error) \in Transient => IsRetryable(error)
<1>1. CASE error \in {"configuration", "payload", "timeout", "http_429"}
  BY <1>1 DEF FailureCode, IsRetryable, Code, Transient
<1>2. CASE error \in {"http_408", "http_500", "connection"}
  BY <1>2 DEF FailureCode, IsRetryable, Code, Transient
<1>3. CASE error \notin {"configuration", "payload", "timeout", "http_429", "http_408",
                         "http_500", "connection"}
  BY <1>3 DEF FailureCode, Code, Transient
<1> QED  BY <1>1, <1>2, <1>3

LEMMA RaisingKeepsPool ==
  ASSUME PoolIInv, NEW s \in Search, NEW p \in Configured, NEW error, ProviderRaises(s, p, error)
  PROVE  PoolIInv'
<1>1. /\ future[s][p] \in FutureType /\ future[s][p].state = "running" /\ CallIsTrue(s, p)
      /\ future[s][p].attempts \in {1, 2} /\ future[s][p].code = "none"
  BY DEF ProviderRaises, PoolIInv, PoolTypeOK, CallIsTrue, FutureIsSound
<1>2. CASE future[s][p].attempts < MaxProviderAttempts /\ IsRetryable(error)
  <2>0. future[s][p].attempts = 1
    BY <1>1, <1>2 DEF MaxProviderAttempts
  <2>1. PICK f : f = [future[s][p] EXCEPT !.attempts = future[s][p].attempts + 1]
    OBVIOUS
  <2>2. f = [future[s][p] EXCEPT !.attempts = 2]
    BY <2>0, <2>1
  <2>3. f \in FutureType /\ f.state = "running" /\ f.attempts = 2 /\ f.code = "none"
    BY <1>1, <2>2 DEF FutureType
  <2>4. FutureIsSound(f)
    BY <2>3 DEF FutureIsSound
  <2>5. future' = [future EXCEPT ![s][p] = f]
    BY <1>2, <2>1 DEF ProviderRaises
  <2> QED  BY <1>1, <2>3, <2>4, <2>5, CallMovesOn DEF ProviderRaises
<1>3. CASE ~(future[s][p].attempts < MaxProviderAttempts /\ IsRetryable(error))
  <2>1. PICK f : f = [future[s][p] EXCEPT !.state = "failed", !.code = FailureCode(error)]
    OBVIOUS
  <2>2. /\ f \in FutureType /\ f.state = "failed" /\ f.code = FailureCode(error)
        /\ f.attempts = future[s][p].attempts
    BY <1>1, <2>1, FailuresHaveCodes DEF FutureType
  <2>3. f.code \in Transient => f.attempts = 2
    BY <1>1, <1>3, <2>2, FailuresHaveCodes DEF MaxProviderAttempts
  <2>4. FutureIsSound(f)
    BY <2>2, <2>3 DEF FutureIsSound, MaxProviderAttempts
  <2>5. future' = [future EXCEPT ![s][p] = f]
    BY <1>3, <2>1 DEF ProviderRaises
  <2> QED  BY <1>1, <2>2, <2>4, <2>5, CallMovesOn DEF ProviderRaises
<1> QED  BY <1>2, <1>3

-------------------------------------------------------------------------------
LEMMA SubmittingKeepsPool ==
  ASSUME PoolIInv, NEW s \in Search, Submits(s)
  PROVE  PoolIInv'
<1>0. PoolTypeOK /\ Configured' = Configured /\ Provider' = Provider
  BY DEF PoolIInv, Submits, Configured, Provider
<1>1. PICK queued : queued = [NoFuture EXCEPT !.state = "queued"]
  OBVIOUS
<1>2. queued \in FutureType /\ queued.state = "queued" /\ FutureIsSound(queued)
  BY <1>1 DEF NoFuture, FutureType, Code, FutureIsSound
<1>3. PICK broken : broken = [outcome |-> "failed", code |-> "misconfigured", attempts |-> 0]
  OBVIOUS
<1>4. broken \in ReportType /\ broken.outcome = "failed"
  BY <1>3 DEF ReportType, Code
<1>5. /\ future' = [future EXCEPT ![s] = [p \in Configured |-> queued]]
      /\ report' = [report EXCEPT ![s] =
           [p \in Provider |-> IF p \in misconfigured THEN broken ELSE Unreported]]
      /\ phase' = [phase EXCEPT ![s] = "waiting"]
      /\ UNCHANGED <<misconfigured, pending, timely>>
  BY <1>1, <1>3 DEF Submits
<1>6. PoolTypeOK'
  BY <1>0, <1>2, <1>4, <1>5, NothingYet DEF PoolTypeOK
<1>7. ASSUME NEW p \in Configured PROVE CallIsTrue(s, p)'
  <2>1. future'[s][p] = queued /\ report'[s][p] = Unreported /\ phase'[s] = "waiting"
        /\ pending'[s] = pending[s] /\ timely'[s] = timely[s]
    BY <1>0, <1>5, <1>7 DEF PoolTypeOK, Configured
  <2>2. CallIsTrue(s, p)  BY DEF PoolIInv
  <2> QED  BY <1>2, <2>1, <2>2 DEF CallIsTrue, ReportAgrees
<1>8. ASSUME NEW t \in Search \ {s}, NEW p \in Configured PROVE CallIsTrue(t, p)'
  <2>1. /\ future'[t] = future[t] /\ report'[t] = report[t] /\ phase'[t] = phase[t]
        /\ pending'[t] = pending[t] /\ timely'[t] = timely[t]
    BY <1>0, <1>5 DEF PoolTypeOK
  <2> QED  BY <2>1, CallStays DEF PoolIInv
<1>9. ASSUME NEW t \in Search PROVE MisconfiguredIsReported(t)'
  <2>1. CASE t = s
    BY <1>0, <1>4, <1>5, <2>1 DEF MisconfiguredIsReported, PoolTypeOK
  <2>2. CASE t # s
    BY <1>0, <1>5, <2>2 DEF MisconfiguredIsReported, PoolTypeOK, PoolIInv
  <2> QED  BY <2>1, <2>2
<1> QED  BY <1>0, <1>6, <1>7, <1>8, <1>9 DEF PoolIInv

LEMMA StoppingToWaitKeepsPool ==
  ASSUME PoolIInv, NEW s \in Search, StopsWaiting(s)
  PROVE  PoolIInv'
<1>0. PoolTypeOK /\ Configured' = Configured /\ Provider' = Provider
  BY DEF PoolIInv, StopsWaiting, Configured, Provider
<1>1. PoolTypeOK'
  BY <1>0 DEF PoolTypeOK, StopsWaiting
<1>2. ASSUME NEW p \in Configured PROVE CallIsTrue(s, p)'
  <2>1. /\ future'[s][p] = future[s][p] /\ report'[s][p] = report[s][p]
        /\ phase[s] = "waiting" /\ phase'[s] = "collecting"
        /\ p \in pending'[s] <=> ~Ended(s, p)
        /\ p \in timely'[s] <=> future[s][p].state = "answered"
    BY <1>0 DEF PoolTypeOK, StopsWaiting
  <2>2. CallIsTrue(s, p)  BY DEF PoolIInv
  <2>3. report[s][p] = Unreported /\ future[s][p].state \notin {"none", "cancelled"}
    BY <2>1, <2>2, NothingYet DEF CallIsTrue, ReportAgrees, Unreported
  <2> QED  BY <2>1, <2>2, <2>3 DEF CallIsTrue, ReportAgrees, Ended
<1>3. ASSUME NEW t \in Search \ {s}, NEW p \in Configured PROVE CallIsTrue(t, p)'
  <2>1. /\ future'[t] = future[t] /\ report'[t] = report[t] /\ phase'[t] = phase[t]
        /\ pending'[t] = pending[t] /\ timely'[t] = timely[t]
    BY <1>0 DEF PoolTypeOK, StopsWaiting
  <2> QED  BY <2>1, CallStays DEF PoolIInv
<1>4. \A t \in Search : MisconfiguredIsReported(t)'
  BY <1>0 DEF MisconfiguredIsReported, PoolTypeOK, PoolIInv, StopsWaiting
<1> QED  BY <1>0, <1>1, <1>2, <1>3, <1>4 DEF PoolIInv

LEMMA CollectingKeepsPool ==
  ASSUME PoolIInv, NEW s \in Search, NEW p \in Configured, Collects(s, p)
  PROVE  PoolIInv'
<1>0. /\ PoolTypeOK /\ Configured' = Configured /\ Provider' = Provider /\ p \in Provider
      /\ UNCHANGED <<misconfigured, phase, pending, timely>>
  BY DEF PoolIInv, Collects, Configured, Provider
<1>1. /\ CallIsTrue(s, p) /\ phase[s] = "collecting" /\ report[s][p] = Unreported
      /\ future[s][p] \in FutureType /\ future[s][p].state # "cancelled"
  <2>1. CallIsTrue(s, p) /\ phase[s] = "collecting" /\ report[s][p] = Unreported
        /\ future[s][p] \in FutureType
    BY <1>0 DEF PoolIInv, PoolTypeOK, Collects, NextToCollect
  <2>2. p \notin pending[s] => future[s][p].state \in {"answered", "failed"}
    BY <2>1 DEF CallIsTrue, Ended
  <2> QED  BY <2>1, <2>2 DEF CallIsTrue, ReportAgrees, Unreported
<1>2. PICK r : r = IF p \in pending[s]
                     THEN [outcome |-> "failed", code |-> "timeout",
                           attempts |-> IF future[s][p].state = "queued" THEN 0 ELSE 1]
                     ELSE [outcome |-> future[s][p].state, code |-> future[s][p].code,
                           attempts |-> future[s][p].attempts]
  OBVIOUS
<1>3. PICK f : f = IF p \in pending[s] /\ future[s][p].state = "queued"
                     THEN [future[s][p] EXCEPT !.state = "cancelled"] ELSE future[s][p]
  OBVIOUS
<1>4. /\ report' = [report EXCEPT ![s][p] = r]
      /\ future' = [future EXCEPT ![s][p] = f]
  <2>1. CASE p \in pending[s] /\ future[s][p].state = "queued"
    BY <1>2, <1>3, <2>1 DEF Collects
  <2>2. CASE ~(p \in pending[s] /\ future[s][p].state = "queued")
    <3>1. future' = future /\ f = future[s][p]
      BY <1>3, <2>2 DEF Collects
    <3>2. report' = [report EXCEPT ![s][p] = r]
      BY <1>2, <2>2 DEF Collects
    <3> QED  BY <1>0, <3>1, <3>2 DEF PoolTypeOK
  <2> QED  BY <2>1, <2>2
<1>5. f \in FutureType /\ f.code = future[s][p].code /\ f.attempts = future[s][p].attempts
  BY <1>1, <1>3 DEF FutureType
<1>6. f.state = IF p \in pending[s] /\ future[s][p].state = "queued" THEN "cancelled"
                ELSE future[s][p].state
  BY <1>1, <1>3 DEF FutureType
<1>7. p \notin pending[s] => future[s][p].state \in {"answered", "failed"}
  BY <1>1 DEF CallIsTrue, Ended
<1>8. r \in ReportType /\ r # Unreported
  BY <1>1, <1>2, <1>7 DEF FutureType, ReportType, Code, Transient, Unreported
<1>9. PoolTypeOK'
  BY <1>0, <1>4, <1>5, <1>8, FutureChanges DEF PoolTypeOK
<1>10. /\ future'[s][p] = f /\ report'[s][p] = r
       /\ \A t \in Search, q \in Configured : <<t, q>> # <<s, p>> =>
            future'[t][q] = future[t][q] /\ report'[t][q] = report[t][q]
       /\ \A t \in Search, q \in misconfigured : report'[t][q] = report[t][q]
  <2>1. /\ report'[s][p] = r
        /\ \A t \in Search, q \in Provider : <<t, q>> # <<s, p>> => report'[t][q] = report[t][q]
    BY <1>0, <1>4 DEF PoolTypeOK
  <2> QED  BY <1>0, <1>4, <1>5, <2>1, FutureChanges DEF PoolTypeOK, Configured
<1>11. CallIsTrue(s, p)'
  <2>1. FutureIsSound(f)
    BY <1>1, <1>5, <1>6 DEF FutureIsSound, CallIsTrue
  <2>2. ReportAgrees(s, p)'
    <3>1. CASE p \in pending[s]
      <4>1. f.state # "queued" /\ (f.state = "cancelled" <=> future[s][p].state = "queued")
        BY <1>1, <1>6, <3>1
      <4>2. r = [outcome |-> "failed", code |-> "timeout",
                 attempts |-> IF f.state = "cancelled" THEN 0 ELSE 1]
        BY <1>2, <3>1, <4>1
      <4> QED  BY <1>0, <1>10, <3>1, <4>1, <4>2 DEF ReportAgrees
    <3>2. CASE p \notin pending[s]
      <4>1. f = future[s][p]  BY <1>3, <3>2
      <4>2. r = [outcome |-> f.state, code |-> f.code, attempts |-> f.attempts]
        BY <1>2, <3>2, <4>1
      <4> QED  BY <1>0, <1>10, <3>2, <4>2 DEF ReportAgrees
    <3> QED  BY <3>1, <3>2
  <2> QED  BY <1>0, <1>1, <1>6, <1>8, <1>10, <2>1, <2>2 DEF CallIsTrue, Ended
<1>12. ASSUME NEW t \in Search, NEW q \in Configured PROVE CallIsTrue(t, q)'
  BY <1>0, <1>10, <1>11, CallStays DEF PoolIInv
<1>13. \A t \in Search : MisconfiguredIsReported(t)'
  BY <1>0, <1>10 DEF PoolIInv, MisconfiguredIsReported
<1> QED  BY <1>0, <1>9, <1>12, <1>13 DEF PoolIInv

LEMMA ReturningKeepsPool ==
  ASSUME PoolIInv, NEW s \in Search, Returns(s)
  PROVE  PoolIInv'
<1>0. PoolTypeOK /\ Configured' = Configured /\ Provider' = Provider
  BY DEF PoolIInv, Returns, Configured, Provider
<1>1. PoolTypeOK'
  BY <1>0 DEF PoolTypeOK, Returns
<1>2. ASSUME NEW p \in Configured PROVE CallIsTrue(s, p)'
  <2>1. phase[s] = "collecting" /\ phase'[s] = "done" /\ report[s][p] # Unreported
        /\ UNCHANGED <<future, report, pending, timely>>
    BY <1>0 DEF PoolTypeOK, Returns
  <2>2. CallIsTrue(s, p)  BY DEF PoolIInv
  <2> QED  BY <2>1, <2>2 DEF CallIsTrue, ReportAgrees, Ended
<1>3. ASSUME NEW t \in Search \ {s}, NEW p \in Configured PROVE CallIsTrue(t, p)'
  <2>1. phase'[t] = phase[t]
    BY <1>0 DEF PoolTypeOK, Returns
  <2> QED  BY <2>1, CallStays DEF PoolIInv, Returns
<1>4. \A t \in Search : MisconfiguredIsReported(t)'
  BY <1>0 DEF MisconfiguredIsReported, PoolTypeOK, PoolIInv, Returns
<1> QED  BY <1>0, <1>1, <1>2, <1>3, <1>4 DEF PoolIInv

LEMMA PoolNextKeepsInv == PoolIInv /\ [SearchPoolNext]_searchVars => PoolIInv'
<1> SUFFICES ASSUME PoolIInv, [SearchPoolNext]_searchVars PROVE PoolIInv'
  OBVIOUS
<1>1. CASE UNCHANGED searchVars
  <2>1. Configured' = Configured /\ Provider' = Provider /\ PoolTypeOK'
        /\ UNCHANGED <<future, report, phase, pending, timely, misconfigured>>
    BY <1>1 DEF searchVars, Configured, Provider, PoolIInv, PoolTypeOK
  <2> QED  BY <2>1, CallStays DEF PoolIInv, MisconfiguredIsReported
<1>2. ASSUME NEW s \in Search, Submits(s) PROVE PoolIInv'
  BY <1>2, SubmittingKeepsPool
<1>3. ASSUME NEW s \in Search, StopsWaiting(s) PROVE PoolIInv'
  BY <1>3, StoppingToWaitKeepsPool
<1>4. ASSUME NEW s \in Search, Returns(s) PROVE PoolIInv'
  BY <1>4, ReturningKeepsPool
<1>5. ASSUME NEW s \in Search, NEW p \in Configured, ThreadTakes(s, p) PROVE PoolIInv'
  BY <1>5, TakingKeepsPool
<1>6. ASSUME NEW s \in Search, NEW p \in Configured, ProviderAnswers(s, p) PROVE PoolIInv'
  BY <1>6, AnsweringKeepsPool
<1>7. ASSUME NEW s \in Search, NEW p \in Configured, NEW error \in ErrorKind,
             ProviderRaises(s, p, error)
      PROVE  PoolIInv'
  BY <1>7, RaisingKeepsPool
<1>8. ASSUME NEW s \in Search, NEW p \in Configured, Collects(s, p) PROVE PoolIInv'
  BY <1>8, CollectingKeepsPool
<1> QED
  BY <1>1, <1>2, <1>3, <1>4, <1>5, <1>6, <1>7, <1>8 DEF SearchPoolNext

-------------------------------------------------------------------------------
LEMMA PoolInvariantImplies == PoolIInv => ReportIsTrue
<1> SUFFICES ASSUME PoolIInv PROVE ReportIsTrue
  OBVIOUS
<1>0. ASSUME NEW s \in Search, NEW p \in Configured
      PROVE  /\ CallIsTrue(s, p) /\ future[s][p] \in FutureType
             /\ phase[s] \in {"idle", "waiting", "collecting", "done"}
  BY DEF PoolIInv, PoolTypeOK
<1>1. AttemptsAreTrue
  <2> SUFFICES ASSUME NEW s \in Search, NEW p \in Configured, report[s][p].outcome = "failed"
               PROVE  IF p \in pending[s]
                        THEN (report[s][p].attempts = 0) = (future[s][p].state = "cancelled")
                        ELSE report[s][p].attempts = future[s][p].attempts
    BY DEF AttemptsAreTrue
  <2>1. report[s][p] # Unreported /\ ReportAgrees(s, p)
    BY <1>0, NothingYet DEF CallIsTrue
  <2> QED  BY <2>1 DEF ReportAgrees
<1>2. TransientErrorsWereRetried
  <2> SUFFICES ASSUME NEW s \in Search, NEW p \in Configured, report[s][p].code \in Transient,
                      p \notin pending[s]
               PROVE  report[s][p].attempts = MaxProviderAttempts
    BY DEF TransientErrorsWereRetried, Transient
  <2>1. report[s][p] # Unreported /\ ReportAgrees(s, p) /\ FutureIsSound(future[s][p])
    BY <1>0, NothingYet DEF CallIsTrue, Transient
  <2>2. /\ report[s][p].code = future[s][p].code
        /\ report[s][p].attempts = future[s][p].attempts
    BY <2>1 DEF ReportAgrees
  <2> QED  BY <2>1, <2>2 DEF FutureIsSound, Transient
<1>3. ASSUME NEW s \in Search, phase[s] = "done", NEW p \in Configured
      PROVE  /\ report[s][p].outcome \in {"answered", "failed"}
             /\ report[s][p].outcome = "answered" <=> p \in timely[s]
  <2>1. /\ report[s][p] # Unreported /\ ReportAgrees(s, p)
        /\ p \notin pending[s] => future[s][p].state \in {"answered", "failed"}
        /\ p \notin pending[s] => (p \in timely[s] <=> future[s][p].state = "answered")
        /\ p \in pending[s] => p \notin timely[s]
    BY <1>0, <1>3 DEF CallIsTrue, Ended
  <2>2. CASE p \in pending[s]
    <3>1. report[s][p].outcome = "failed"  BY <2>1, <2>2 DEF ReportAgrees
    <3> QED  BY <2>1, <2>2, <3>1
  <2>3. CASE p \notin pending[s]
    <3>1. report[s][p].outcome = future[s][p].state  BY <2>1, <2>3 DEF ReportAgrees
    <3>2. future[s][p].state \in {"answered", "failed"}  BY <2>1, <2>3
    <3>3. p \in timely[s] <=> future[s][p].state = "answered"  BY <2>1, <2>3
    <3>4. p \in timely[s] <=> report[s][p].outcome = "answered"  BY <3>1, <3>3
    <3> QED  BY <3>1, <3>2, <3>4
  <2> QED  BY <2>2, <2>3
<1>4. ASSUME NEW s \in Search, phase[s] = "done" PROVE Succeeded(s) = timely[s]
  <2>1. timely[s] \subseteq Configured  BY DEF PoolIInv, PoolTypeOK
  <2> QED  BY <1>3, <1>4, <2>1 DEF Succeeded
<1>5. TimelyResultsAreKept
  BY <1>4 DEF TimelyResultsAreKept
<1>6. ASSUME NEW s \in Search, phase[s] = "done" PROVE Failed(s) = Provider \ timely[s]
  <2>1. \A p \in misconfigured : report[s][p].outcome = "failed"
    BY <1>6 DEF PoolIInv, MisconfiguredIsReported
  <2>2. /\ timely[s] \subseteq Configured
        /\ Provider = Configured \union misconfigured /\ Configured \intersect misconfigured = {}
    BY DEF PoolIInv, PoolTypeOK, Configured
  <2> QED  BY <1>3, <1>6, <2>1, <2>2 DEF Failed
<1>7. StatusMatchesReport
  <2> SUFFICES ASSUME NEW s \in Search, phase[s] = "done"
               PROVE  /\ (SearchStatus(s) = "complete") = (timely[s] = Provider)
                      /\ (SearchStatus(s) = "failed") = (timely[s] = {} /\ Provider # {})
    BY DEF StatusMatchesReport
  <2>1. timely[s] \subseteq Provider
    BY DEF PoolIInv, PoolTypeOK, Configured
  <2>2. SearchStatus(s) = IF Provider \ timely[s] # {}
                            THEN IF timely[s] # {} THEN "partial" ELSE "failed" ELSE "complete"
    BY <1>4, <1>6 DEF SearchStatus
  <2>3. SearchStatus(s) = "complete" <=> timely[s] = Provider
    BY <2>1, <2>2
  <2>4. SearchStatus(s) = "failed" <=> timely[s] = {} /\ Provider # {}
    BY <2>1, <2>2
  <2> QED  BY <2>3, <2>4
<1> QED  BY <1>1, <1>2, <1>5, <1>7 DEF ReportIsTrue

\* For any searches, providers, errors and threads, and wherever the budget of a
\* search ends: what the answer says of each provider is what it did, and the
\* status follows (discover_jobs_with_status and _search_provider in
\* discovery_service.py, search_jobs in job_discovery_tasks.py).
THEOREM ReportsAreTrue == SearchPoolSpec => []ReportIsTrue
<1>1. SearchPoolSpec => []PoolIInv
  BY PoolInitHolds, PoolNextKeepsInv, PTL DEF SearchPoolSpec
<1> QED  BY <1>1, PoolInvariantImplies, PTL
===============================================================================
