-------------------------------- MODULE SignIn --------------------------------
(* Requests that carry a verified identity: the first one of a subject creates *)
(* its account, a later one refreshes it. Several may run at once, each in a   *)
(* transaction at READ COMMITTED: what it has written is not seen before it    *)
(* commits, but a unique key it has taken makes others wait.                   *)
EXTENDS Naturals, FiniteSets

CONSTANTS
  SignInCall,    \* slots for requests under way
  Subject,       \* the subjects of the identity provider
  Email,         \* the addresses it has verified
  NoAccount,
  MaxAccount     \* bound on the accounts ever inserted

ASSUME SignInBounds ==
  /\ MaxAccount \in Nat \ {0}
  /\ NoAccount \notin Nat \union Email

VARIABLES
  accounts,   \* accounts[a]: the address of the account, or NoAccount
  linked,     \* linked[s]: the account of the subject, or NoAccount
  signIn,     \* signIn[c]: the request in slot c
  inserted    \* how many account keys were used

signInVars == <<accounts, linked, signIn, inserted>>

Account == 1..MaxAccount

-------------------------------------------------------------------------------
NoSignIn == [step |-> "idle", subject |-> NoAccount, email |-> NoAccount, account |-> NoAccount]

Moves(c, step, account) ==
  signIn' = [signIn EXCEPT ![c].step = step, ![c].account = account]

\* What committed rows, and the rows of other transactions, hold.
EmailOwner(email) == {a \in Account : accounts[a] = email}

\* The requests whose open transaction holds a unique key or a row: another one
\* that writes it waits until they have ended.
EmailHolders(email) ==
  {d \in SignInCall :
     signIn[d].email = email /\ signIn[d].step \in {"user_added", "linked", "refreshed"}}

SubjectHolders(subject) ==
  {d \in SignInCall : signIn[d].subject = subject /\ signIn[d].step = "linked"}

RowHolders(account) ==
  {d \in SignInCall : signIn[d].account = account /\ signIn[d].step = "refreshed"}

-------------------------------------------------------------------------------
Arrives(c, subject, email) ==
  /\ signIn[c].step \in {"idle", "answered", "refused", "failed"}
  /\ signIn' = [signIn EXCEPT ![c] =
       [step |-> "verified", subject |-> subject, email |-> email, account |-> NoAccount]]
  /\ UNCHANGED <<accounts, linked, inserted>>

\* provision reads the identity and, without one, whether the address is taken.
Provisions(c) ==
  /\ signIn[c].step = "verified"
  /\ IF linked[signIn[c].subject] # NoAccount THEN Moves(c, "known", linked[signIn[c].subject])
     ELSE IF EmailOwner(signIn[c].email) # {} THEN Moves(c, "refused", NoAccount)
     ELSE Moves(c, "unknown", NoAccount)
  /\ UNCHANGED <<accounts, linked, inserted>>

\* Faulty: after a conflict the account is looked up by its address.
RecoversByEmail(c) ==
  IF EmailOwner(signIn[c].email) # {}
    THEN Moves(c, "known", CHOOSE a \in EmailOwner(signIn[c].email) : TRUE)
    ELSE Moves(c, "failed", NoAccount)

\* A conflict inside the savepoint: the identity is read again.
Recovers(c) ==
  IF linked[signIn[c].subject] # NoAccount
    THEN Moves(c, "known", linked[signIn[c].subject])
    ELSE Moves(c, "failed", NoAccount)

AddsUser(c) ==
  /\ signIn[c].step = "unknown"
  /\ EmailHolders(signIn[c].email) \subseteq {c}
  /\ inserted < MaxAccount
  /\ IF EmailOwner(signIn[c].email) # {}
       THEN Recovers(c) /\ UNCHANGED inserted
       ELSE Moves(c, "user_added", inserted + 1) /\ inserted' = inserted + 1
  /\ UNCHANGED <<accounts, linked>>

\* Faulty: the savepoint opens after the account was added.
KeepsUserOnConflict(c) ==
  /\ signIn[c].step = "user_added"
  /\ SubjectHolders(signIn[c].subject) \subseteq {c}
  /\ IF linked[signIn[c].subject] # NoAccount
       THEN /\ Recovers(c)
            /\ accounts' = [accounts EXCEPT ![signIn[c].account] = signIn[c].email]
       ELSE Moves(c, "linked", signIn[c].account) /\ UNCHANGED accounts
  /\ UNCHANGED <<linked, inserted>>

\* The savepoint takes the account back when the identity conflicts.
AddsIdentity(c) ==
  /\ signIn[c].step = "user_added"
  /\ SubjectHolders(signIn[c].subject) \subseteq {c}
  /\ IF linked[signIn[c].subject] # NoAccount
       THEN Recovers(c)
       ELSE Moves(c, "linked", signIn[c].account)
  /\ UNCHANGED <<accounts, linked, inserted>>

CommitsAccount(c) ==
  /\ signIn[c].step = "linked"
  /\ accounts' = [accounts EXCEPT ![signIn[c].account] = signIn[c].email]
  /\ linked' = [linked EXCEPT ![signIn[c].subject] = signIn[c].account]
  /\ Moves(c, "answered", signIn[c].account)
  /\ UNCHANGED inserted

\* _refresh looks for another owner of the address. An account that has it
\* already is not written ...
ChecksEmail(c) ==
  /\ signIn[c].step = "known"
  /\ \/ /\ EmailOwner(signIn[c].email) \ {signIn[c].account} # {}
        /\ Moves(c, "refused", signIn[c].account)
     \/ /\ EmailOwner(signIn[c].email) = {signIn[c].account}
        /\ Moves(c, "answered", signIn[c].account)
     \/ /\ EmailOwner(signIn[c].email) = {}
        /\ Moves(c, "checked", signIn[c].account)
  /\ UNCHANGED <<accounts, linked, inserted>>

\* ... and another one is; the unique key decides when a request came first.
RefreshesUser(c) ==
  /\ signIn[c].step = "checked"
  /\ EmailHolders(signIn[c].email) \subseteq {c}
  /\ RowHolders(signIn[c].account) \subseteq {c}
  /\ Moves(c, IF EmailOwner(signIn[c].email) \ {signIn[c].account} # {}
                THEN "failed" ELSE "refreshed", signIn[c].account)
  /\ UNCHANGED <<accounts, linked, inserted>>

CommitsRefresh(c) ==
  /\ signIn[c].step = "refreshed"
  /\ accounts' = [accounts EXCEPT ![signIn[c].account] = signIn[c].email]
  /\ Moves(c, "answered", signIn[c].account)
  /\ UNCHANGED <<linked, inserted>>

-------------------------------------------------------------------------------
SignInInit ==
  /\ accounts = [a \in Account |-> NoAccount]
  /\ linked = [s \in Subject |-> NoAccount]
  /\ signIn = [c \in SignInCall |-> NoSignIn]
  /\ inserted = 0

SignInNext ==
  \E c \in SignInCall :
    \/ \E subject \in Subject, email \in Email : Arrives(c, subject, email)
    \/ Provisions(c) \/ AddsUser(c) \/ AddsIdentity(c) \/ CommitsAccount(c)
    \/ ChecksEmail(c) \/ RefreshesUser(c) \/ CommitsRefresh(c)

SignInSpec == SignInInit /\ [][SignInNext]_signInVars

-------------------------------------------------------------------------------
\* However first sign-ins of one subject race, with one address or with two,
\* every account has the subject that can sign in to it, and no address is held
\* by an account nobody reaches.
EveryAccountIsReachable ==
  \A a \in Account : accounts[a] # NoAccount => \E s \in Subject : linked[s] = a

\* A request is answered with the account of its own subject, which no other
\* subject shares.
PrincipalIsTheSubject ==
  /\ \A c \in SignInCall :
       signIn[c].step = "answered" => signIn[c].account = linked[signIn[c].subject]
  /\ \A s, t \in Subject : linked[s] = linked[t] /\ linked[s] # NoAccount => s = t

\* One account for each subject, and one subject for each account.
OneAccountEach == EveryAccountIsReachable /\ PrincipalIsTheSubject
===============================================================================
