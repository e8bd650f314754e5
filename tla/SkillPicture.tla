----------------------------- MODULE SkillPicture -----------------------------
(* The skill intelligence of one account: the skills its resume shows, those   *)
(* the roles it searched for, saved or applied to ask for, and what lies       *)
(* between. Days are counted back from now.                                    *)
EXTENDS Integers, Sequences, FiniteSets, SequencesExt, Arrangements

CONSTANTS
  Key(_),        \* the canonical key of a skill name
  LiteralKey(_), \* a name without regard to case and spaces
  MaxRoles, MaxGaps,
  PictureCases   \* the histories that are looked at

ASSUME PictureBounds == MaxRoles \in Nat /\ MaxGaps \in Nat

\* Roles are known by the names they ask for; a key is one of the literal name.
ASSUME PictureInputs ==
  \A c \in PictureCases :
    LET role == DOMAIN c.asks
        names == ToSet(c.resume) \union UNION {ToSet(c.asks[r]) : r \in role}
    IN /\ c.resume \in Seq(names) /\ \A r \in role : c.asks[r] \in Seq(names)
       /\ {c.applied, c.saved, c.searched} \subseteq Seq(role)
       /\ c.day \in [{"applied", "saved", "searched"} -> [role -> Int]]
       /\ \A n, m \in names : LiteralKey(n) = LiteralKey(m) => Key(n) = Key(m)

VARIABLE picture

\* picture.resume: the skill names of the resume; picture.applied, .saved and
\* .searched: roles, in the order of their lists; picture.asks[r]: the skills
\* role r asks for; picture.day[list][r]: the day list last met the role;
\* picture.intent[r] and picture.title[r]: what it was searched as, its title.
Met == picture.applied \o picture.saved \o picture.searched

\* Faulty: a role in two lists takes two places.
RolesWithRepeats == Leading(Met, MaxRoles)

\* Each role once, the applications first, up to the limit.
Roles == Leading(Picked(Met, Firsts(Met)), MaxRoles)

Analyzed == ToSet(Roles)

\* Faulty: aliases are kept apart.
SkillKeysByName(names) == {LiteralKey(n) : n \in names}

SkillKeys(names) == {Key(n) : n \in names}

ResumeKeys == SkillKeys(ToSet(picture.resume))
ObservedKeys == UNION {SkillKeys(ToSet(picture.asks[r])) : r \in Analyzed}

\* The roles that ask for a skill, under any of its names.
RolesFor(key) == {r \in Analyzed : key \in {Key(n) : n \in ToSet(picture.asks[r])}}
Demand(key) == Cardinality(RolesFor(key))

Supported == ObservedKeys \intersect ResumeKeys
ResumeOnly == ResumeKeys \ ObservedKeys

Terms(key) == {n \in UNION {ToSet(picture.asks[r]) : r \in Analyzed} : Key(n) = key}

\* Faulty: any name of the resume will do, not the one that is shown.
ConfidenceByAnyName(key) ==
  IF \E n \in ToSet(picture.resume) : LiteralKey(n) \in {LiteralKey(m) : m \in Terms(key)}
    THEN "exact" ELSE "curated_high"

\* The resume names a skill first in one way; that name is shown.
ShownName(key) ==
  picture.resume[CHOOSE i \in DOMAIN picture.resume :
    /\ Key(picture.resume[i]) = key
    /\ \A j \in 1..(i - 1) : Key(picture.resume[j]) # key]

\* A skill the roles name as the resume does is an exact match.
MatchConfidence(key) ==
  IF LiteralKey(ShownName(key)) \in {LiteralKey(n) : n \in Terms(key)}
    THEN "exact" ELSE "curated_high"

\* Faulty: the list is cut before it is sorted.
GapsInOrderMet == ToSet(Leading(SetToSeq(ObservedKeys \ ResumeKeys), MaxGaps))

\* The gaps that are shown: those most roles ask for, up to the limit. Which of
\* two in equal demand comes first is their names' order, left open here.
Gaps ==
  LET keys == SetToSeq(ObservedKeys \ ResumeKeys)
      Before(i, j) == \/ Demand(keys[i]) > Demand(keys[j])
                      \/ (Demand(keys[i]) = Demand(keys[j]) /\ i < j)
      sorted ==
        Rearranged(keys, DOMAIN keys, {x \in (DOMAIN keys) \X (DOMAIN keys) : Before(x[1], x[2])})
  IN ToSet(Leading(sorted, MaxGaps))

\* The day a role was last met, in whichever list.
LastSeen(r) ==
  LET days == {picture.day[l][r] : l \in {m \in DOMAIN picture.day : r \in ToSet(picture[m])}}
  IN CHOOSE d \in days : \A e \in days : d <= e

\* Up to seven days, eight to thirty, and more.
Recency ==
  LET Seen(In(_)) == Cardinality({r \in Analyzed : In(LastSeen(r))})
  IN <<Seen(LAMBDA d : d <= 7), Seen(LAMBDA d : d > 7 /\ d <= 30), Seen(LAMBDA d : d > 30)>>

\* Roles met in a search are grouped by what was searched for, the others by
\* their titles.
ClusterOf(r) ==
  IF r \in ToSet(picture.searched)
    THEN <<"search_intent", LiteralKey(picture.intent[r])>>
    ELSE <<"role_title", LiteralKey(picture.title[r])>>

Clusters == [k \in {ClusterOf(r) : r \in Analyzed} |-> {r \in Analyzed : ClusterOf(r) = k}]

PictureInit == picture \in PictureCases

-------------------------------------------------------------------------------
\* A skill is shown once, under whatever names the resume and the roles give it:
\* as supported, as a gap or as the resume's own.
SkillsAreClassifiedOnce ==
  LET gaps == ObservedKeys \ ResumeKeys
      named == {Key(n) : n \in ToSet(picture.resume)
                                \union UNION {ToSet(picture.asks[r]) : r \in Analyzed}}
  IN /\ Supported \union gaps \union ResumeOnly = named
     /\ \A key \in Supported : Demand(key) > 0 /\ Terms(key) # {}

\* An exact match is shown under a name that a role asks for; any other match is
\* said to rest on the curated aliases.
ExactMatchesAreNamedAlike ==
  \A key \in Supported :
    (MatchConfidence(key) = "exact")
      = (\E r \in RolesFor(key) :
           LiteralKey(ShownName(key)) \in {LiteralKey(n) : n \in ToSet(picture.asks[r])})

\* The gaps that the limit hides are not asked for by more roles than a gap that
\* is shown.
GapsShowDemand ==
  /\ Cardinality(Gaps) <= MaxGaps
  /\ \A shown \in Gaps, hidden \in (ObservedKeys \ ResumeKeys) \ Gaps :
       Demand(hidden) <= Demand(shown)

\* A role counts once however often it was met, in the list, in the clusters and
\* among the days, no application is left out in favour of a search, and no role
\* of a list that was not cut is missing.
RolesCountOnce ==
  /\ Cardinality(Analyzed) = Len(Roles)
  /\ \A r \in ToSet(picture.applied) : r \in Analyzed \/ Analyzed \subseteq ToSet(picture.applied)
  /\ Len(Roles) < MaxRoles => Analyzed = ToSet(Met)
  /\ Cardinality(UNION {Clusters[k] : k \in DOMAIN Clusters}) = Len(Roles)
  /\ Recency[1] + Recency[2] + Recency[3] = Len(Roles)

\* What the picture says of skills, roles and gaps is what its sources say.
PictureIsTrue ==
  /\ SkillsAreClassifiedOnce
  /\ ExactMatchesAreNamedAlike
  /\ GapsShowDemand
  /\ RolesCountOnce
===============================================================================
