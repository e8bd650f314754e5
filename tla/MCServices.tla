------------------------------ MODULE MCServices ------------------------------
(* Instances for TLC of the components of the service that share no state: a   *)
(* behaviour is one of a single component, chosen in its initial state, and    *)
(* the others stay as they begin. The pure functions take one input per        *)
(* behaviour and have no steps.                                                *)
EXTENDS ProviderSearch, ApiResources, SignIn, TaskSubmission, ResumeLibrary,
        JobCatalog, Matching, SkillPicture, Tailoring, ResumeText, TLC

CONSTANTS c1, c2, u1, u2, u3, p1, p2

VARIABLE part

Interchangeable == Permutations({c1, c2}) \union Permutations({u1, u2, u3})

ProviderOrder == <<p1, p2>>

-------------------------------------------------------------------------------
(* Listings: an external id under two titles, a URL under three, and one        *)
(* without an id whose URL may be taken from it.                               *)
Listing(external, url, fingerprint) ==
  [external |-> external, url |-> url, fingerprint |-> fingerprint]

L1 == Listing("x", "u", "A")
L2 == Listing("x", "v", "B")
L3 == Listing("y", "w", "B")
L4 == Listing("y", "w", "A")
L5 == Listing(NoExternal, "u", "A")
L6 == Listing("z", "w", "C")

Results == {<<L1, L3>>, <<L3, L1>>, <<L2, L4>>, <<L4, L2>>, <<L5>>, <<L2, L6>>}

TitlePlace(fingerprint) == CASE fingerprint = "A" -> 1 [] fingerprint = "B" -> 2 [] fingerprint = "C" -> 3

-------------------------------------------------------------------------------
(* Skills, of which one has an alias.                                          *)
SkillKey(name) == IF name \in {"JS", "js", "JavaScript"} THEN "javascript" ELSE name
Casefolded(name) == IF name = "JS" THEN "js" ELSE name

NoMatch == [resume |-> [text |-> 0, skills |-> <<>>], jobs |-> <<>>]

RankedJob == [text : MatchText, required : {<<>>, <<"SQL">>, <<"JS", "Go">>, <<"JavaScript", "Go", "JS">>}]
RankedJobs == UNION {[1..n -> RankedJob] : n \in 1..2}
Resumes ==
  [text : {0, 1}, skills : {<<>>} \union {s \in UNION {[1..n -> SkillName] : n \in 1..2} : s[1] # s[Len(s)] \/ Len(s) = 1}]

\* Neither rises nor falls with the skills; equal of many resumes.
SimilarityOf(resume, job) ==
  (job.text * (1 + resume.text + Len(resume.skills)) * (1 + Len(job.required))) % 10001

Pictures ==
  {[resume |-> resume, applied |-> applied, saved |-> saved, searched |-> searched,
    asks |-> asks,
    day |-> [applied |-> [r \in 1..3 |-> days[1]], saved |-> [r \in 1..3 |-> days[2]],
             searched |-> [r \in 1..3 |-> days[3]]],
    intent |-> <<"analyst", "analyst", "nurse">>, title |-> <<"Analyst", "Clerk", "Nurse">>] :
     resume \in {<<>>, <<"JS", "SQL">>, <<"js", "JavaScript">>},
     applied \in {<<>>, <<1>>, <<2, 1>>},
     saved \in {<<>>, <<3, 1>>},
     searched \in {<<>>, <<2, 3>>, <<3, 2, 1>>},
     asks \in {<< <<"JavaScript">>, <<"JS", "Go">>, <<"SQL", "Go", "R">> >>,
               << <<"Go">>, <<>>, <<"js", "JavaScript", "R", "Go">> >>},
     days \in {<<7, 8, 30>>, <<31, 0, 40>>, <<20, 35, 7>>}}

NoPicture ==
  [resume |-> <<>>, applied |-> <<>>, saved |-> <<>>, searched |-> <<>>,
   asks |-> <<>>, day |-> [applied |-> <<>>, saved |-> <<>>, searched |-> <<>>],
   intent |-> <<>>, title |-> <<>>]

-------------------------------------------------------------------------------
(* Resumes with items that match a job to different degrees.                   *)
Item(text, terms) == [text |-> text, terms |-> terms]

ItemLists == {<<>>,
  <<Item("till", {})>>,
  <<Item("till", {}), Item("built", {"sql"})>>,
  <<Item("led", {"analyst"}), Item("built", {"sql", "analyst"}), Item("ran", {"go"})>>}

ResumesWithJobs ==
  {[resume |-> [skills |-> skills, experience |-> experience, projects |-> projects,
                achievements |-> achievements],
    job |-> job] :
     skills \in {<<>>, <<"go", "sql">>, <<"a", "b", "c", "d", "e", "sql">>},
     experience \in ItemLists, projects \in ItemLists,
     achievements \in {<<>>, <<Item("won", {"go"})>>},
     job \in {[required |-> <<>>, mentions |-> {}, title |-> {}],
              [required |-> <<"sql">>, mentions |-> {}, title |-> {"analyst"}],
              [required |-> <<"rust", "sql", "rust", "c", "sql", "go">>,
               mentions |-> {"a", "b", "c", "d", "e"}, title |-> {"analyst"}]}}

NoTailoring ==
  [resume |-> [skills |-> <<>>, experience |-> <<>>, projects |-> <<>>, achievements |-> <<>>],
   job |-> [required |-> <<>>, mentions |-> {}, title |-> {}]]

-------------------------------------------------------------------------------
(* Lines of a resume, as both loops take them, as one of them does, or marks.  *)
AsLine(content, skills) ==
  [content |-> content, skills |-> skills, bulleted |-> FALSE, listed |-> FALSE]
AsBullet(content, skills) == [AsLine(content, skills) EXCEPT !.bulleted = TRUE]

Lines ==
  {AsLine("experience", "end"), AsLine("education", "end"), AsLine("other", "end"),
   AsLine("other", "heading"),          \* "Skills"
   AsLine("text", "heading"),           \* "Key skills"
   AsLine("text", "inline"),            \* "Skills: Python"
   AsBullet("bullet", "line"),
   AsBullet("text", "line"),            \* a line that a dash starts
   [AsLine("text", "line") EXCEPT !.listed = TRUE],
   AsLine("text", "line"),
   AsBullet("marks", "blank"), AsLine("blank", "blank")}

\* The longest texts are those that one of two headings begins: of a line above
\* the first heading nothing is read, so that a shorter text shows the same.
LongestHasHeading ==
  Len(textLines) = MaxLine =>
    textLines[1] \in {AsLine("experience", "end"), AsLine("other", "heading")}

-------------------------------------------------------------------------------
Parts == {"search", "resources", "sign_in", "submission", "resumes", "catalog",
          "matching", "picture", "tailoring", "text"}

pureVars == <<matchCase, picture, tailoring>>
servicesVars == <<part, searchVars, resourceVars, signInVars, submissionVars, resumeVars,
                  catalogVars, textVars, pureVars>>

Init ==
  /\ part \in Parts
  /\ SearchPoolInit /\ ResourceInit /\ SignInInit /\ SubmissionInit /\ ResumeInit /\ CatalogInit
  /\ part # "search" => misconfigured = {}
  /\ IF part = "matching" THEN MatchInit ELSE matchCase = NoMatch
  /\ IF part = "picture" THEN PictureInit ELSE picture = NoPicture
  /\ IF part = "tailoring" THEN TailoringInit ELSE tailoring = NoTailoring
  /\ IF part = "text" THEN TextInit /\ LongestHasHeading ELSE textLines = <<>> /\ ReaderInit

Next ==
  /\ UNCHANGED <<part, pureVars>>
  /\ \/ /\ part = "search" /\ SearchPoolNext
        /\ UNCHANGED <<resourceVars, signInVars, submissionVars, resumeVars, catalogVars, textVars>>
     \/ /\ part = "resources" /\ ResourceNext
        /\ UNCHANGED <<searchVars, signInVars, submissionVars, resumeVars, catalogVars, textVars>>
     \/ /\ part = "sign_in" /\ SignInNext
        /\ UNCHANGED <<searchVars, resourceVars, submissionVars, resumeVars, catalogVars, textVars>>
     \/ /\ part = "submission" /\ SubmissionNext
        /\ UNCHANGED <<searchVars, resourceVars, signInVars, resumeVars, catalogVars, textVars>>
     \/ /\ part = "resumes" /\ ResumeNext
        /\ UNCHANGED <<searchVars, resourceVars, signInVars, submissionVars, catalogVars, textVars>>
     \/ /\ part = "catalog" /\ CatalogNext
        /\ UNCHANGED <<searchVars, resourceVars, signInVars, submissionVars, resumeVars, textVars>>
     \/ /\ part = "text" /\ TextNext
        /\ UNCHANGED <<searchVars, resourceVars, signInVars, submissionVars, resumeVars,
                       catalogVars>>

Spec == Init /\ [][Next]_servicesVars
===============================================================================
