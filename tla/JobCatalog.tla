------------------------------ MODULE JobCatalog ------------------------------
(* The catalog of jobs and of the provider listings they were found under, and *)
(* the tasks that save the results of a search into it. A canonical job is     *)
(* identified by the fingerprint it was created with, which never changes; a   *)
(* listing by its URL, and by the external id of the provider when it has one. *)
(*                                                                             *)
(* A save is one transaction at READ COMMITTED that upserts the results one by *)
(* one. It reads without locks; its writes wait for those of others and fail   *)
(* on a unique key that others have committed.                                 *)
EXTENDS Naturals, Sequences, Functions, FiniteSets, Arrangements

CONSTANTS
  Saver,         \* the tasks that save results
  SearchResult,  \* what a search may return: sequences of listings
  TitleRank(_),  \* the place of a fingerprint in the order of company and title
  NoExternal,
  MaxListing     \* bound on the listing rows

ASSUME CatalogBound == MaxListing \in Nat \ {0}

ASSUME ResultsAreRanked ==
  \A result \in SearchResult :
    /\ result \in Seq(Range(result))
    /\ \A p \in Range(result) : TitleRank(p.fingerprint) \in Nat

VARIABLES
  jobs,      \* the committed jobs, by fingerprint
  listings,  \* the committed listing rows
  saver      \* saver[t]: the save of task t

catalogVars == <<jobs, listings, saver>>

-------------------------------------------------------------------------------
(* The pipeline between the providers and the catalog.                         *)

\* The first listing of a fingerprint is kept.
Deduplicated(s) ==
  Picked(s, Firsts([i \in DOMAIN s |-> s[i].fingerprint]))

\* Faulty: the listings stay in the order of their providers.
AsFound(s) == s

\* By company and title; the sort is stable.
ByTitle(s) ==
  LET Before(i, j) ==
        \/ TitleRank(s[i].fingerprint) < TitleRank(s[j].fingerprint)
        \/ (TitleRank(s[i].fingerprint) = TitleRank(s[j].fingerprint) /\ i < j)
  IN Rearranged(s, DOMAIN s, {x \in (DOMAIN s) \X (DOMAIN s) : Before(x[1], x[2])})

Processed(s) == ByTitle(Deduplicated(s))

-------------------------------------------------------------------------------
(* The rows a transaction sees: what is committed, under what it wrote.        *)

NoSave == [step |-> "idle", todo |-> <<>>, given |-> <<>>, saved |-> <<>>,
           newJobs |-> {}, touched |-> {}, rows |-> [i \in {} |-> 0], overtaken |-> {},
           record |-> NoExternal, fresh |-> FALSE, row |-> 0, loaded |-> NoExternal]

SeenRows(t) ==
  [i \in DOMAIN listings \union DOMAIN saver[t].rows |->
     IF i \in DOMAIN saver[t].rows THEN saver[t].rows[i] ELSE listings[i]]

SeenJobs(t) == jobs \union saver[t].newJobs

\* The listing of a row set that a provider's listing is: by its external id,
\* else by its URL.
Matches(rows, ids, p) ==
  LET byId == {i \in ids : p.external # NoExternal /\ rows[i].external = p.external}
  IN IF byId # {} THEN byId ELSE {i \in ids : rows[i].url = p.url}

\* The job of a listing: the one its source is filed under, else the one with
\* its fingerprint; a new one otherwise.
RecordsFor(t, p) ==
  LET rows == SeenRows(t)
      found == Matches(rows, DOMAIN rows, p)
  IN IF found # {} THEN {rows[i].job : i \in found} ELSE {p.fingerprint}

RowsOf(t, record) == {i \in DOMAIN SeenRows(t) : SeenRows(t)[i].job = record}

-------------------------------------------------------------------------------
Saves(t, result) ==
  /\ saver[t].step \in {"idle", "saved", "failed"}
  /\ saver' = [saver EXCEPT ![t] =
       [NoSave EXCEPT !.step = "reads", !.todo = Processed(result), !.given = Processed(result)]]
  /\ UNCHANGED <<jobs, listings>>

\* Looks for the job of the next listing, and for the listing among its sources.
Looks(t) ==
  /\ saver[t].step = "reads" /\ saver[t].todo # <<>>
  /\ \E record \in RecordsFor(t, Head(saver[t].todo)) :
       LET p == Head(saver[t].todo)
           rows == SeenRows(t)
           mine == Matches(rows, RowsOf(t, record), p)
       IN \E i \in IF mine = {} THEN {0} ELSE mine :
            saver' = [saver EXCEPT ![t].step = "writes", ![t].record = record,
                                   ![t].fresh = record \notin SeenJobs(t), ![t].row = i,
                                   ![t].loaded = IF i = 0 THEN NoExternal ELSE rows[i]]
  /\ UNCHANGED <<jobs, listings>>

\* The row as the flush leaves it: only the columns that changed are written.
Flushed(t) ==
  LET p == Head(saver[t].todo)
      old == saver[t].loaded
      now == SeenRows(t)[saver[t].row]
  IN [job |-> saver[t].record,
      external |-> IF saver[t].row = 0 THEN p.external
                   ELSE IF p.external \in {NoExternal, old.external} THEN now.external
                   ELSE p.external,
      url |-> IF saver[t].row # 0 /\ p.url = old.url THEN now.url ELSE p.url]

\* Another save holds the job's row, its fingerprint or the URL.
BlockedBy(t, u) ==
  /\ t # u
  /\ saver[t].step = "writes"
  /\ \/ saver[t].record \in saver[u].newJobs \union saver[u].touched
     \/ \E i \in DOMAIN saver[u].rows : saver[u].rows[i].url = Flushed(t).url

\* The row is no longer as it was loaded: another save was committed meanwhile.
IsOvertaken(t) == saver[t].row # 0 /\ SeenRows(t)[saver[t].row] # saver[t].loaded

UrlTaken(t) ==
  \E i \in DOMAIN SeenRows(t) \ {saver[t].row} : SeenRows(t)[i].url = Flushed(t).url

\* Row keys are unique among the rows of every transaction.
FreeRow == {i \in 1..MaxListing :
  i \notin DOMAIN listings /\ \A u \in Saver : i \notin DOMAIN saver[u].rows}

Fails(t) == saver' = [saver EXCEPT ![t] = [NoSave EXCEPT !.step = "failed"]]

\* Faulty: a listing is filed only with a job that is new.
FilesNewJobsOnly(t, i) ==
  IF saver[t].row = 0 /\ ~saver[t].fresh THEN saver[t].rows
  ELSE [j \in DOMAIN saver[t].rows \union {i} |->
          IF j = i THEN Flushed(t) ELSE saver[t].rows[j]]

\* The rows of the save once the listing is in row i.
RowsWith(t, i) ==
  [j \in DOMAIN saver[t].rows \union {i} |->
     IF j = i THEN Flushed(t) ELSE saver[t].rows[j]]

\* The upsert is flushed: the job is inserted or marked as seen, its listing
\* added or brought up to date. A fingerprint found absent and committed since,
\* or a URL that is another listing's, fails the whole save.
Upserts(t) ==
  /\ saver[t].step = "writes"
  /\ \A u \in Saver : ~BlockedBy(t, u)
  /\ IF UrlTaken(t) \/ (saver[t].fresh /\ saver[t].record \in jobs)
       THEN Fails(t)
       ELSE \E i \in IF saver[t].row # 0 THEN {saver[t].row} ELSE FreeRow :
              saver' = [saver EXCEPT
                ![t].step = "reads",
                ![t].todo = Tail(@),
                ![t].saved = Append(@, saver[t].record),
                ![t].newJobs = IF saver[t].fresh THEN @ \union {saver[t].record} ELSE @,
                ![t].touched = @ \union {saver[t].record},
                ![t].overtaken = IF IsOvertaken(t) THEN @ \union {saver[t].record} ELSE @,
                ![t].rows = RowsWith(t, i)]
  /\ UNCHANGED <<jobs, listings>>

\* The ordered results of the task name each job once, or nothing is saved.
Commits(t) ==
  /\ saver[t].step = "reads" /\ saver[t].todo = <<>>
  /\ IF IsInjective(saver[t].saved)
       THEN /\ jobs' = SeenJobs(t)
            /\ listings' = SeenRows(t)
            /\ saver' = [saver EXCEPT ![t] = [NoSave EXCEPT !.step = "saved"]]
       ELSE Fails(t) /\ UNCHANGED <<jobs, listings>>

\* The database ends one of two saves that wait for each other.
IsDeadlockVictim(t) ==
  /\ \E u \in Saver : BlockedBy(t, u) /\ BlockedBy(u, t)
  /\ Fails(t)
  /\ UNCHANGED <<jobs, listings>>

-------------------------------------------------------------------------------
CatalogInit ==
  /\ jobs = {} /\ listings = [i \in {} |-> 0]
  /\ saver = [t \in Saver |-> NoSave]

CatalogNext ==
  \E t \in Saver :
    \/ \E result \in SearchResult : Saves(t, result)
    \/ Looks(t) \/ Upserts(t) \/ Commits(t) \/ IsDeadlockVictim(t)

CatalogSpec == CatalogInit /\ [][CatalogNext]_catalogVars

-------------------------------------------------------------------------------
\* A save that is committed leaves every listing it was given filed under the job
\* that the results of the task name for it, where the next search finds it again
\* as the same listing, whatever was saved at the same time. (If another save has
\* changed the row between the read and the flush, the two updates are merged column
\* by column, and what the row tells may be neither's.)
SavedListingsAreFiled ==
  [][\A t \in Saver : saver[t].step = "reads" /\ saver'[t].step = "saved" =>
       \A k \in DOMAIN saver[t].given :
         /\ saver[t].saved[k] \in jobs'
         /\ \E i \in IF saver[t].saved[k] \in saver[t].overtaken THEN DOMAIN listings'
                    ELSE Matches(listings', DOMAIN listings', saver[t].given[k]) :
              listings'[i].job = saver[t].saved[k]]_catalogVars

\* Whether the save has met each of its results as the job of its own title, and
\* no two results share one.
FollowsTitles(t) ==
  LET given == saver[t].given
      done == Len(given) - Len(saver[t].todo)
  IN /\ \A i, j \in DOMAIN given :
          TitleRank(given[i].fingerprint) = TitleRank(given[j].fingerprint) => i = j
     /\ \A k \in 1..done : saver[t].saved[k] = given[k].fingerprint
     /\ saver[t].step = "writes" => saver[t].record = given[done + 1].fingerprint

\* The URL that save t is about to file is held by u under another job.
RefilesUrl(t, u) ==
  \E i \in DOMAIN saver[u].rows :
    saver[u].rows[i].url = Flushed(t).url /\ saver[u].rows[i].job # saver[t].record

\* Saves lock jobs in the order of their titles, so those that meet jobs under
\* the titles they know never wait for each other. (A job found under an old title
\* breaks the order, and so does a URL that two searches found under two titles:
\* then the database has to end one of the two.)
TitleOrderPreventsDeadlock ==
  \A t, u \in Saver :
    FollowsTitles(t) /\ FollowsTitles(u) /\ BlockedBy(t, u) /\ BlockedBy(u, t)
      => RefilesUrl(t, u) \/ RefilesUrl(u, t)

\* Saves that overlap lose no listing and do not wait for each other in a circle.
CatalogIsSound == SavedListingsAreFiled /\ []TitleOrderPreventsDeadlock
===============================================================================
