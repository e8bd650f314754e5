------------------------------- MODULE Matching -------------------------------
(* How a reviewed resume is scored against jobs and the jobs are ranked. The   *)
(* embedding model compares two texts, each with the skills it lists; it is a  *)
(* constant here, of which nothing is assumed but its range. Scores are in     *)
(* hundredths, as the code rounds them.                                        *)
EXTENDS Integers, Sequences, FiniteSets, SequencesExt, Arrangements

CONSTANTS
  SkillName,      \* names of skills as they are written
  MatchText,      \* what else is embedded of a resume or a job
  Canonical(_),   \* the key of the curated alias group a name belongs to
  Similarity(_, _), \* of the text of a resume and a job, its skills included
  MatchJobs,      \* sequences of jobs to be ranked
  MatchResume     \* reviewed resumes

ResumeType == [text : MatchText, skills : Seq(SkillName)]
JobType == [text : MatchText, required : Seq(SkillName)]

\* The similarity is cut to the range of a percentage, and may be any number there:
\* what a skill adds to a text can bring it nearer to a job or take it away.
ASSUME MatchInputs ==
  /\ \A ranked \in MatchJobs : ranked \in Seq(JobType)
  /\ \A resume \in MatchResume : resume \in ResumeType
  /\ \A resume \in MatchResume, ranked \in MatchJobs : \A k \in DOMAIN ranked :
       Similarity(resume, ranked[k]) \in Nat /\ Similarity(resume, ranked[k]) <= 10000

VARIABLE matchCase

Keys(names) == {Canonical(n) : n \in names}

ResumeSkills(resume) == Keys(ToSet(resume.skills))

\* The first name of each key.
UniqueSkills(s) == Picked(s, Firsts([i \in DOMAIN s |-> Canonical(s[i])]))

\* Faulty: names are compared as they are written.
MatchedByName(resume, job) ==
  Picked(job.required, {i \in DOMAIN job.required : job.required[i] \in ToSet(resume.skills)})

\* The skill signal.
Covered(resume, job) ==
  {i \in DOMAIN job.required : Canonical(job.required[i]) \in ResumeSkills(resume)}

Matched(resume, job) == Picked(job.required, Covered(resume, job))

Missing(resume, job) == Picked(job.required, DOMAIN job.required \ Covered(resume, job))

HasSkillEvidence(job) == job.required # <<>>

\* The nearest integer; of two, the even one.
Rounded(n, d) ==
  LET q == n \div d
      r == n % d
  IN IF 2 * r > d \/ (2 * r = d /\ q % 2 = 1) THEN q + 1 ELSE q

SkillWeight == 4
SemanticWeight == 6

\* Faulty: a job that lists no skills has a neutral skill score.
ScoreWithNeutral(resume, job) ==
  LET n == Len(job.required)
  IN IF HasSkillEvidence(job)
       THEN Rounded(SkillWeight * 10000 * Len(Matched(resume, job))
                      + SemanticWeight * Similarity(resume, job) * n, 10 * n)
       ELSE Rounded(SkillWeight * 5000 + SemanticWeight * Similarity(resume, job), 10)

\* Faulty: the share is of the skills of the resume.
ScoreByResume(resume, job) ==
  LET n == Len(resume.skills)
  IN IF HasSkillEvidence(job) /\ n # 0
       THEN Rounded(SkillWeight * 10000 * Len(Matched(resume, job))
                      + SemanticWeight * Similarity(resume, job) * n, 10 * n)
       ELSE Similarity(resume, job)

\* The weighted average of the signals that have evidence.
Score(resume, job) ==
  LET n == Len(job.required)
  IN IF HasSkillEvidence(job)
       THEN Rounded(SkillWeight * 10000 * Len(Matched(resume, job))
                      + SemanticWeight * Similarity(resume, job) * n,
                    (SkillWeight + SemanticWeight) * n)
       ELSE Similarity(resume, job)

\* The share of the weights that evidence backs, in percent.
Confidence(job) ==
  (100 * (SemanticWeight + IF HasSkillEvidence(job) THEN SkillWeight ELSE 0))
    \div (SkillWeight + SemanticWeight)

\* What a candidate is told to do: the gaps, or to read a job that lists none.
Advice(job, missing) ==
  IF ~HasSkillEvidence(job) THEN <<"review the description">> ELSE Leading(missing, 3)

Assessment(resume, job) ==
  LET matched == UniqueSkills(Matched(resume, job))
      gaps == UniqueSkills(Missing(resume, job))
      missing == Picked(gaps, {i \in DOMAIN gaps : Canonical(gaps[i]) \notin Keys(ToSet(matched))})
  IN [score |-> Score(resume, job), confidence |-> Confidence(job),
      matched |-> matched, missing |-> missing, advice |-> Advice(job, missing)]

\* Faulty: the jobs are sorted upwards and the list is reversed.
RankedFromBelow(resume, ranked) ==
  LET Before(i, j) ==
        \/ Score(resume, ranked[i]) > Score(resume, ranked[j])
        \/ (Score(resume, ranked[i]) = Score(resume, ranked[j]) /\ i > j)
  IN Arranged(DOMAIN ranked, {x \in (DOMAIN ranked) \X (DOMAIN ranked) : Before(x[1], x[2])})

\* The positions of the jobs by rank: downwards by score, stable.
Ranked(resume, ranked) ==
  LET Before(i, j) ==
        \/ Score(resume, ranked[i]) > Score(resume, ranked[j])
        \/ (Score(resume, ranked[i]) = Score(resume, ranked[j]) /\ i < j)
  IN Arranged(DOMAIN ranked, {x \in (DOMAIN ranked) \X (DOMAIN ranked) : Before(x[1], x[2])})

MatchInit == matchCase \in [resume : MatchResume, jobs : MatchJobs]

-------------------------------------------------------------------------------
\* A resume that covers what another one covers of a job, and reads no less like
\* it, is not scored lower. Coverage alone does not promise that: another skill
\* changes the text that is compared as well.
BetterOnBothScoresNoLower ==
  \A k \in DOMAIN matchCase.jobs, better \in MatchResume :
    LET job == matchCase.jobs[k]
        resume == matchCase.resume
    IN Covered(resume, job) \subseteq Covered(better, job)
         /\ Similarity(resume, job) <= Similarity(better, job)
       => Score(resume, job) <= Score(better, job)

\* Which skills of a job a resume is said to have does not depend on the names
\* it gives them, and every skill a job lists is reported once, as matched or as
\* missing.
AliasesCountAlike ==
  \A k \in DOMAIN matchCase.jobs :
    LET job == matchCase.jobs[k]
        a == Assessment(matchCase.resume, job)
    IN /\ \A other \in MatchResume : ResumeSkills(other) = ResumeSkills(matchCase.resume) =>
            LET b == Assessment(other, job)
            IN a.matched = b.matched /\ a.missing = b.missing /\ a.advice = b.advice
       /\ Keys(ToSet(a.matched)) \union Keys(ToSet(a.missing)) = Keys(ToSet(job.required))
       /\ Len(a.matched) + Len(a.missing) = Cardinality(Keys(ToSet(job.required)))

\* The share of a job's skills that a resume covers.
Share(resume, job) == (10000 * Len(Matched(resume, job))) \div Len(job.required)

\* A score lies between the two signals; one of a job whose source lists no
\* skills is the similarity alone, and says that evidence is missing.
ScoresRestOnEvidence ==
  \A k \in DOMAIN matchCase.jobs :
    LET resume == matchCase.resume
        job == matchCase.jobs[k]
        similarity == Similarity(resume, job)
        share == Share(resume, job)
    IN IF HasSkillEvidence(job)
         THEN /\ \/ similarity <= Score(resume, job) /\ Score(resume, job) <= share + 1
                 \/ share <= Score(resume, job) /\ Score(resume, job) <= similarity
              /\ Confidence(job) = 100
         ELSE Score(resume, job) = similarity /\ Confidence(job) < 100

\* The ranking is by score, and jobs of one score keep the order of the search.
RanksFollowScores ==
  LET ranks == Ranked(matchCase.resume, matchCase.jobs)
      score(r) == Score(matchCase.resume, matchCase.jobs[ranks[r]])
  IN /\ ToSet(ranks) = DOMAIN matchCase.jobs /\ Len(ranks) = Len(matchCase.jobs)
     /\ \A r \in 1..(Len(ranks) - 1) :
          score(r) > score(r + 1) \/ (score(r) = score(r + 1) /\ ranks[r] < ranks[r + 1])

\* What a person may expect of the scores and of the order of the jobs.
MatchingIsFair ==
  /\ BetterOnBothScoresNoLower
  /\ AliasesCountAlike
  /\ ScoresRestOnEvidence
  /\ RanksFollowScores
===============================================================================
