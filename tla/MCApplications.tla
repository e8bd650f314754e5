--------------------------- MODULE MCApplications ---------------------------
(* Instances of Applications for TLC. *)
EXTENDS Applications, TLC

CONSTANTS r1, r2, ta, la, lb, lx

Requests == Permutations(Request)

\* A tailored resume and a letter made from r1, a letter made from r2, and one
\* for another job.
Sources == (ta :> r1) @@ (la :> r1) @@ (lb :> r2) @@ (lx :> r1)

MadeForThisJob == {ta, la, lb}

\* Only the tailored resume and the letter that does not go with it.
SourcesAB == (ta :> r1) @@ (lb :> r2)

MadeForThisJobAB == {ta, lb}

NoSources == <<>>
=============================================================================
