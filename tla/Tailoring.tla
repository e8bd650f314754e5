------------------------------- MODULE Tailoring ------------------------------
(* What the service writes about a resume and a job: the factual tailoring     *)
(* plan, the letter composed from it, and the questions of an interview kit.   *)
(* All of them only reorder and quote what the resume says. An item of the     *)
(* resume is its text, known here by the terms it contains.                    *)
EXTENDS Integers, Sequences, FiniteSets, SequencesExt, Arrangements

CONSTANT TailoringCases   \* resumes, each with a job

\* A resume and a job are lists, and a text holds finitely many terms.
ASSUME TailoringInputs ==
  \A c \in TailoringCases :
    LET sections == {c.resume.experience, c.resume.projects, c.resume.achievements}
        items == UNION {ToSet(section) : section \in sections}
    IN /\ c.resume.skills \in Seq(ToSet(c.resume.skills))
       /\ c.job.required \in Seq(ToSet(c.job.required))
       /\ sections \subseteq Seq(items) /\ \A item \in items : IsFiniteSet(item.terms)

VARIABLE tailoring

\* tailoring.resume: skills, experience, projects and achievements, each a
\* sequence; an item is a record of its text and the terms found in it.
\* tailoring.job: the skills required, the terms of the title and the skill names
\* met in its text.

Resume == tailoring.resume
Job == tailoring.job

\* The members of a list of skills that are in a set, in the order of the list.
Among(list, skills) == Picked(list, {i \in DOMAIN list : list[i] \in skills})

NotAmong(list, skills) == Picked(list, {i \in DOMAIN list : list[i] \notin skills})

MatchedSkills == Among(Resume.skills, Job.mentions \union ToSet(Job.required))

MissingSkills == NotAmong(Job.required, ToSet(Resume.skills))

\* The matched skills first, each part in the order of the resume.
OrderedSkills == MatchedSkills \o NotAmong(Resume.skills, ToSet(MatchedSkills))

TargetTerms == ToSet(Job.required) \union ToSet(MatchedSkills) \union Job.title

MatchedTerms(item) == item.terms \intersect TargetTerms

\* Faulty: of two items with as many terms, the later comes first.
PrioritizedBackwards(items) ==
  LET terms(i) == Cardinality(MatchedTerms(items[i]))
      Before(i, j) == terms(i) > terms(j) \/ (terms(i) = terms(j) /\ i > j)
  IN Arranged(DOMAIN items, {x \in (DOMAIN items) \X (DOMAIN items) : Before(x[1], x[2])})

\* Positions of the items: most terms first, then as in the resume.
Prioritized(items) ==
  LET terms(i) == Cardinality(MatchedTerms(items[i]))
      Before(i, j) == terms(i) > terms(j) \/ (terms(i) = terms(j) /\ i < j)
  IN Arranged(DOMAIN items, {x \in (DOMAIN items) \X (DOMAIN items) : Before(x[1], x[2])})

Reordered(items) == [k \in DOMAIN items |-> items[Prioritized(items)[k]]]

\* Faulty: the place of the item in the plan, not in the resume, is recorded.
EvidenceByRank(section, items) ==
  LET ranked == Reordered(items)
  IN Picked([i \in DOMAIN ranked |-> [kind |-> section, index |-> i, text |-> ranked[i].text]],
            {i \in DOMAIN ranked : MatchedTerms(ranked[i]) # {}})

\* What the plan says of the items that match, in the order of the resume.
Evidence(section, items) ==
  Picked([i \in DOMAIN items |-> [kind |-> section, index |-> i, text |-> items[i].text]],
         {i \in DOMAIN items : MatchedTerms(items[i]) # {}})

PlanEvidence ==
  Evidence("experience", Resume.experience) \o Evidence("project", Resume.projects)

-------------------------------------------------------------------------------
(* The letter.                                                                 *)

\* Faulty: only an item that matches is kept as evidence.
QuotedIfMatched(section, items) ==
  SubSeq(Evidence(section, items), 1, IF Evidence(section, items) = <<>> THEN 0 ELSE 1)

\* The first item with evidence; without any, the first of the resume, if any.
Quoted(section, items) ==
  LET found == Evidence(section, items)
  IN IF found # <<>> THEN <<Head(found)>>
     ELSE IF items # <<>> THEN <<[kind |-> section, index |-> 1, text |-> items[1].text]>>
     ELSE <<>>

\* Faulty: the matched skills in the order of the job.
SkillsAsRequired == Leading(Among(Job.required, ToSet(Resume.skills)), 5)

LetterSkills == Leading(MatchedSkills, 5)

LetterEvidence ==
  [k \in DOMAIN LetterSkills |-> [kind |-> "skill", index |-> k, text |-> LetterSkills[k]]]
    \o Quoted("experience", Resume.experience) \o Quoted("project", Resume.projects)

\* The evidence paragraph: the skills, the experience, or neither.
Paragraph ==
  LET parts == (IF LetterSkills # <<>> THEN <<"skills">> ELSE <<>>)
                 \o (IF Resume.experience # <<>> THEN <<"experience">> ELSE <<>>)
  IN IF parts = <<>> THEN <<"invitation">> ELSE parts

Motivation == IF Resume.projects # <<>> THEN "project" ELSE "interest"

-------------------------------------------------------------------------------
(* The interview kit.                                                          *)

\* Faulty: a skill that the job names twice is asked about twice.
RequiredAsListed == Job.required

\* Each skill required of the job once, where it is first named.
RequiredOnce == Picked(Job.required, Firsts(Job.required))

Experiences == Resume.experience \o Resume.projects \o Resume.achievements

\* The prompts of a question: two items of the resume. Without any, the user is
\* asked for an example.
Prompts(items) == [k \in DOMAIN Leading(items, 2) |-> items[k].text]

\* The questions, each known by its category and its number there: two at most
\* on skills of the resume, one at most on a skill it lacks.
Questions ==
  LET Asking(category, number, skills, items) ==
        [id |-> <<category, number>>, skills |-> skills, prompts |-> Prompts(items)]
      Mentioning(skill) ==
        Picked(Experiences, {i \in DOMAIN Experiences : skill \in Experiences[i].terms})
      shared == Leading(Among(RequiredOnce, ToSet(Resume.skills)), 2)
      lacked == Leading(NotAmong(RequiredOnce, ToSet(Resume.skills)), 1)
  IN <<Asking("career_story", 1, {}, Experiences)>>
       \o [k \in DOMAIN shared |->
             Asking("role_skill", k, {shared[k]}, Mentioning(shared[k]))]
       \o [k \in DOMAIN lacked |-> Asking("skill_gap", k, {lacked[k]}, <<>>)]
       \o <<Asking("motivation", 1, {}, <<>>), Asking("behavioral", 1, {}, Experiences)>>

TailoringInit == tailoring \in TailoringCases

-------------------------------------------------------------------------------
\* Nothing is added to what the resume states and nothing is dropped: the plan
\* holds each skill and item of the resume as often as it does, the relevant
\* ones first, and never calls a skill of the resume missing.
PlanIsTheResumeReordered ==
  /\ ToSet(OrderedSkills) = ToSet(Resume.skills) /\ Len(OrderedSkills) = Len(Resume.skills)
  /\ ToSet(MissingSkills) \intersect ToSet(Resume.skills) = {}
  /\ \A items \in {Resume.experience, Resume.projects} :
       /\ ToSet(Prioritized(items)) = DOMAIN items
       /\ \A i, j \in DOMAIN items :
            LET place(p) == CHOOSE k \in DOMAIN items : Prioritized(items)[k] = p
                terms(p) == Cardinality(MatchedTerms(items[p]))
            IN place(i) < place(j) => terms(i) > terms(j) \/ (terms(i) = terms(j) /\ i < j)

\* Every quotation, of the plan and of the letter, is found word for word where
\* its index points: that of an experience or a project in that list of the resume,
\* that of a skill among the skills the plan matched, all of which the resume has.
QuotationsAreInTheResume ==
  LET list(e) == CASE e.kind = "skill" -> MatchedSkills
                   [] e.kind = "experience" -> Resume.experience
                   [] e.kind = "project" -> Resume.projects
      quoted(e) == IF e.kind = "skill" THEN list(e)[e.index] ELSE list(e)[e.index].text
  IN /\ \A e \in ToSet(PlanEvidence) \union ToSet(LetterEvidence) :
          e.index \in DOMAIN list(e) /\ e.text = quoted(e)
     /\ ToSet(MatchedSkills) \subseteq ToSet(Resume.skills)

\* The letter speaks of a skill, an example or a project exactly when its
\* evidence shows one, so that a reviewer can check each claim it makes.
LetterClaimsAreEvidenced ==
  LET kinds == {e.kind : e \in ToSet(LetterEvidence)}
  IN /\ ("skill" \in kinds) = ("skills" \in ToSet(Paragraph))
     /\ ("experience" \in kinds) = ("experience" \in ToSet(Paragraph))
     /\ ("project" \in kinds) = (Motivation = "project")

\* A kit asks of what the plan of the same resume and job shows: of skills that
\* the plan matched, and of the first that it calls missing whenever it calls one
\* so. It asks of no skill twice, and quotes only items of the resume that mention
\* the skill it asks of.
InterviewFollowsThePlan ==
  LET questions == Questions
      asked == ToSet(questions)
      Of(category) == UNION {q.skills : q \in {r \in asked : r.id[1] = category}}
      AboutSkill == {i \in DOMAIN questions : questions[i].skills # {}}
  IN /\ Of("role_skill") \subseteq ToSet(MatchedSkills)
     /\ Of("skill_gap") = ToSet(Leading(MissingSkills, 1))
     /\ \A i, j \in AboutSkill : questions[i].skills = questions[j].skills => i = j
     /\ \A q \in asked : \A text \in ToSet(q.prompts) :
          \E item \in ToSet(Experiences) : item.text = text /\ q.skills \subseteq item.terms

\* A plan, a letter and an interview kit say nothing that the resume does not say.
DocumentsAreFactual ==
  /\ PlanIsTheResumeReordered
  /\ QuotationsAreInTheResume
  /\ LetterClaimsAreEvidenced
  /\ InterviewFollowsThePlan
===============================================================================
