---------------------------- MODULE ResumeLibrary -----------------------------
(* The resume versions of one user. An upload is saved in one transaction at   *)
(* READ COMMITTED: it reads the highest version, deactivates the active one,   *)
(* and inserts the next; a browser and a second tab may upload at once.        *)
EXTENDS Naturals, FiniteSets

CONSTANTS
  Upload,      \* slots for uploads under way
  MaxResume    \* bound on the versions saved

ASSUME ResumeBound == MaxResume \in Nat \ {0}

VARIABLES
  resumeActive,  \* the committed versions, and whether each is active
  upload         \* upload[w]: the upload in slot w

resumeVars == <<resumeActive, upload>>

-------------------------------------------------------------------------------
NoUpload == [step |-> "idle", version |-> 0, sees |-> {}, off |-> {}]

Saved == DOMAIN resumeActive
Highest == IF Saved = {} THEN 0 ELSE CHOOSE v \in Saved : \A u \in Saved : u <= v

\* A transaction keeps the rows it updated until it ends.
Locks(w, v) == v \in upload[w].off

Uploads(w) ==
  /\ upload[w].step \in {"idle", "saved", "failed"}
  /\ Highest < MaxResume
  /\ upload' = [upload EXCEPT ![w] = [NoUpload EXCEPT !.step = "parsed"]]
  /\ UNCHANGED resumeActive

ReadsHighest(w) ==
  /\ upload[w].step = "parsed"
  /\ upload' = [upload EXCEPT ![w].step = "numbered", ![w].version = Highest + 1]
  /\ UNCHANGED resumeActive

\* The UPDATE sees the versions that were committed when it started ...
StartsUpdate(w) ==
  /\ upload[w].step = "numbered"
  /\ upload' = [upload EXCEPT ![w].step = "updating",
                              ![w].sees = {v \in Saved : resumeActive[v]}]
  /\ UNCHANGED resumeActive

\* Faulty: the number is read again after the wait.
DeactivatesAndNumbers(w) ==
  /\ upload[w].step = "updating"
  /\ \A x \in Upload \ {w}, v \in upload[w].sees : ~Locks(x, v)
  /\ upload' = [upload EXCEPT ![w].step = "deactivated",
                              ![w].version = Highest + 1,
                              ![w].off = {v \in upload[w].sees : resumeActive[v]}]
  /\ UNCHANGED resumeActive

\* ... waits for their locks, and changes those that are still active then.
Deactivates(w) ==
  /\ upload[w].step = "updating"
  /\ \A x \in Upload \ {w}, v \in upload[w].sees : ~Locks(x, v)
  /\ upload' = [upload EXCEPT ![w].step = "deactivated",
                              ![w].off = {v \in upload[w].sees : resumeActive[v]}]
  /\ UNCHANGED resumeActive

\* The insert commits, unless its number is taken, which undoes everything.
Inserts(w) ==
  /\ upload[w].step = "deactivated"
  /\ IF upload[w].version \in Saved
       THEN /\ upload' = [upload EXCEPT ![w] = [NoUpload EXCEPT !.step = "failed"]]
            /\ UNCHANGED resumeActive
       ELSE /\ resumeActive' = [v \in Saved \union {upload[w].version} |->
                 IF v = upload[w].version THEN TRUE ELSE resumeActive[v] /\ v \notin upload[w].off]
            /\ upload' = [upload EXCEPT ![w] = [NoUpload EXCEPT !.step = "saved"]]

-------------------------------------------------------------------------------
ResumeInit ==
  /\ resumeActive = [v \in {} |-> TRUE]
  /\ upload = [w \in Upload |-> NoUpload]

ResumeNext ==
  \E w \in Upload :
    Uploads(w) \/ ReadsHighest(w) \/ StartsUpdate(w) \/ Deactivates(w) \/ Inserts(w)

ResumeSpec == ResumeInit /\ [][ResumeNext]_resumeVars

-------------------------------------------------------------------------------
\* The current profile is one resume, the latest: however uploads overlap, the
\* unique version number makes the one that read too early fail rather than
\* leave two active versions.
OneActiveResume == {v \in Saved : resumeActive[v]} = {Highest} \ {0}
===============================================================================
