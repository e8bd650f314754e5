------------------------------ MODULE ResumeText ------------------------------
(* The sections and the declared skills that are read from a resume's text.    *)
(* Two loops go over the lines, first for the skills and then for the content, *)
(* and each has its own patterns: what one takes for a heading or a bullet is  *)
(* plain text to the other. A line is known by what each recognises in it, and *)
(* what is read is told apart by the number of its line.                       *)
EXTENDS Integers, Sequences, FiniteSets, SequencesExt, Arrangements

CONSTANTS
  LineKind,       \* kinds of lines the texts are made of
  MaxLine         \* length of the texts looked at

VARIABLES
  textLines,      \* the kinds of the lines
  reader,         \* the loop that runs: "skills", "content", or "done"
  lineAt,         \* the line it reads next
  skillsRead,     \* what the first loop has found
  contentRead     \* what the second has

textVars == <<textLines, reader, lineAt, skillsRead, contentRead>>

\* Headings, by the section they open.
ContentSections ==
  [education |-> "education", experience |-> "experience", employment |-> "experience",
   work_history |-> "experience", projects |-> "projects", certification |-> "certifications",
   certifications |-> "certifications", license |-> "certifications",
   licenses |-> "certifications", licence |-> "certifications", licences |-> "certifications",
   achievement |-> "achievements", achievements |-> "achievements"]

Sections == {ContentSections[h] : h \in DOMAIN ContentSections}

\* content: what the loop over the sections sees, the heading of one, another
\* heading, a bullet, text, a line of marks that leave no text, or nothing.
\* skills: what the loop over the skills sees once the marks around the line are
\* cut: a heading of skills, one with skills behind it, another heading, which
\* ends them, a line or nothing. To this loop a dash is a bullet as well; listed
\* lines end with a separator.
Line ==
  [content : DOMAIN ContentSections \union {"other", "bullet", "text", "marks", "blank"},
   skills : {"heading", "inline", "end", "line", "blank"},
   bulleted : BOOLEAN, listed : BOOLEAN]

ASSUME ResumeTextBound == MaxLine \in Nat /\ LineKind \subseteq Line

\* Faulty: a bullet continues the entry above it.
GroupedAsOne(section, numbers) ==
  IF numbers = <<>> THEN <<>>
  ELSE IF section = "education" THEN [k \in DOMAIN numbers |-> <<numbers[k]>>] ELSE <<numbers>>

\* An education entry is a line; elsewhere a bullet opens an entry and a line
\* without one continues it. Entries are the numbers of their lines.
Grouped(section, numbers) ==
  LET opening == {k \in DOMAIN numbers :
                    k = 1 \/ section = "education" \/ textLines[numbers[k]].content = "bullet"}
      starts == Arranged(opening, Upwards(opening))
      last(e) == IF e = Len(starts) THEN Len(numbers) ELSE starts[e + 1] - 1
  IN [e \in DOMAIN starts |-> SubSeq(numbers, starts[e], last(e))]

NoSection == [section |-> "none", lines |-> <<>>, captured |-> [s \in Sections |-> <<>>]]

\* The lines of the open section are kept when it ends.
SectionEnds(state) ==
  IF state.section = "none" THEN state
  ELSE [state EXCEPT !.captured[state.section] = @ \o Grouped(state.section, state.lines),
                     !.lines = <<>>]

\* Of a line of marks alone nothing is left, and only education keeps that.
Kept(section) == {"bullet", "text"} \union (IF section = "education" THEN {"marks"} ELSE {})

\* Faulty: a section that another follows at once is not kept.
ReadsHeadingOnly(state, number) ==
  LET line == textLines[number].content IN
  IF line \in DOMAIN ContentSections
    THEN [state EXCEPT !.section = ContentSections[line], !.lines = <<>>]
  ELSE IF line = "other" THEN [SectionEnds(state) EXCEPT !.section = "none"]
  ELSE IF state.section # "none" /\ line \in Kept(state.section)
    THEN [state EXCEPT !.lines = Append(@, number)]
  ELSE state

ReadsLine(state, number) ==
  LET line == textLines[number].content IN
  IF line \in DOMAIN ContentSections
    THEN [SectionEnds(state) EXCEPT !.section = ContentSections[line]]
  ELSE IF line = "other" THEN [SectionEnds(state) EXCEPT !.section = "none"]
  ELSE IF state.section # "none" /\ line \in Kept(state.section)
    THEN [state EXCEPT !.lines = Append(@, number)]
  ELSE state

-------------------------------------------------------------------------------
(* The skills a section declares: lines that are split at their separators. A  *)
(* bullet that does not end with one goes on in the next line.                 *)

NoSkills == [open |-> FALSE, wrapped |-> FALSE, declared |-> <<>>]

\* Faulty: every line is a declaration of its own.
DeclaresEachLine(state, number) ==
  LET line == textLines[number]
      open == state.open \/ line.skills \in {"heading", "inline"}
  IN
  IF line.skills = "end" THEN [state EXCEPT !.open = FALSE]
  ELSE IF open /\ line.skills \in {"inline", "line"}
    THEN [state EXCEPT !.open = TRUE, !.declared = Append(@, <<number>>)]
  ELSE [state EXCEPT !.open = open]

\* The wrapped bullet is forgotten where another section begins; a second
\* heading of skills, or a blank line, does not end it, and skills behind such a
\* heading are joined to it.
DeclaresSkills(state, number) ==
  LET line == textLines[number]
      last == Len(state.declared)
      open == state.open \/ line.skills \in {"heading", "inline"}
  IN
  IF line.skills = "end" THEN
    IF state.open THEN [state EXCEPT !.open = FALSE, !.wrapped = FALSE] ELSE state
  ELSE IF open /\ line.skills \in {"inline", "line"} THEN
    [open |-> TRUE,
     wrapped |-> (line.bulleted \/ state.wrapped) /\ ~line.listed,
     declared |-> IF state.wrapped /\ ~line.bulleted
                    THEN [state.declared EXCEPT ![last] = Append(@, number)]
                    ELSE Append(state.declared, <<number>>)]
  ELSE [state EXCEPT !.open = open]

-------------------------------------------------------------------------------
ReaderInit ==
  /\ reader = "skills" /\ lineAt = 1
  /\ skillsRead = NoSkills /\ contentRead = NoSection

TextInit ==
  /\ textLines \in UNION {[1..n -> LineKind] : n \in 0..MaxLine}
  /\ ReaderInit

DeclareLine ==
  /\ reader = "skills" /\ lineAt <= Len(textLines)
  /\ skillsRead' = DeclaresSkills(skillsRead, lineAt)
  /\ lineAt' = lineAt + 1
  /\ UNCHANGED <<textLines, reader, contentRead>>

SkillsAreRead ==
  /\ reader = "skills" /\ lineAt > Len(textLines)
  /\ reader' = "content" /\ lineAt' = 1
  /\ UNCHANGED <<textLines, skillsRead, contentRead>>

KeepLine ==
  /\ reader = "content" /\ lineAt <= Len(textLines)
  /\ contentRead' = ReadsLine(contentRead, lineAt)
  /\ lineAt' = lineAt + 1
  /\ UNCHANGED <<textLines, reader, skillsRead>>

\* The section that is open where the text ends is kept as well.
ContentIsRead ==
  /\ reader = "content" /\ lineAt > Len(textLines)
  /\ contentRead' = SectionEnds(contentRead)
  /\ reader' = "done"
  /\ UNCHANGED <<textLines, lineAt, skillsRead>>

TextNext == DeclareLine \/ SkillsAreRead \/ KeepLine \/ ContentIsRead

TextSpec == TextInit /\ [][TextNext]_textVars

-------------------------------------------------------------------------------
\* The last of these headings at or above a line is an opening one. Headings and
\* openings are given by their lines.
Under(number, opening, headings) ==
  \E k \in opening : k <= number /\ \A j \in headings : j <= k \/ number < j

\* The lines to this one that are of the body and under an opening heading.
Placed(body, opening, headings, end) ==
  {n \in body : n <= end /\ Under(n, opening, headings)}

SkillHeadings == {n \in DOMAIN textLines : textLines[n].skills \in {"heading", "inline", "end"}}
SkillOpenings == {n \in DOMAIN textLines : textLines[n].skills \in {"heading", "inline"}}
SkillLines == {n \in DOMAIN textLines : textLines[n].skills \in {"inline", "line"}}

SkillsTo(end) == Placed(SkillLines, SkillOpenings, SkillHeadings, end)

HeadingsOf(section) == {h \in DOMAIN ContentSections : ContentSections[h] = section}

ContentHeadings ==
  {n \in DOMAIN textLines : textLines[n].content \in DOMAIN ContentSections \union {"other"}}
OpeningsOf(section) == {n \in DOMAIN textLines : textLines[n].content \in HeadingsOf(section)}
LinesFor(section) == {n \in DOMAIN textLines : textLines[n].content \in Kept(section)}

ContentTo(section, end) == Placed(LinesFor(section), OpeningsOf(section), ContentHeadings, end)

\* Entries hold these lines.
LinesOf(entries) == UNION {ToSet(entries[e]) : e \in DOMAIN entries}

\* No line is held twice, and none before one that precedes it in the text.
InTextOrder(entries) ==
  \A e, f \in DOMAIN entries : \A k \in DOMAIN entries[e], l \in DOMAIN entries[f] :
    e < f \/ (e = f /\ k < l) => entries[e][k] < entries[f][l]

\* Every line under a heading of the resume's content, as this loop knows
\* headings, is kept once, in its own section and in the order of the text,
\* whichever headings repeat, follow at once or end the text. A heading that only
\* the other loop knows is such a line.
LinesAreKeptInTheirSection ==
  \A section \in Sections :
    /\ LinesOf(contentRead.captured[section]) = ContentTo(section, Len(textLines))
    /\ InTextOrder(contentRead.captured[section])

\* What this loop takes for a bullet is the first line of its entry, so that two
\* achievements with bullets are never read as one. Dashes longer than a hyphen
\* are not among these bullets.
BulletsOpenEntries ==
  \A section \in Sections : \A e \in DOMAIN contentRead.captured[section] :
    \A k \in 2..Len(contentRead.captured[section][e]) :
      textLines[contentRead.captured[section][e][k]].content # "bullet"

\* Every line of the skills, as this loop knows headings, is read once, those
\* behind a heading included; a line that a bullet or a dash starts opens a
\* declaration, and a name it breaks off is read with the line that completes it.
WrappedSkillsAreWhole ==
  /\ LinesOf(skillsRead.declared) = SkillsTo(Len(textLines))
  /\ InTextOrder(skillsRead.declared)
  /\ \A e \in DOMAIN skillsRead.declared : \A k \in 2..Len(skillsRead.declared[e]) :
       ~textLines[skillsRead.declared[e][k]].bulleted
  /\ \A n \in SkillsTo(Len(textLines)) :
       /\ n - 1 \in SkillsTo(Len(textLines))
       /\ textLines[n - 1].bulleted /\ ~textLines[n - 1].listed /\ ~textLines[n].bulleted
       => \E e \in DOMAIN skillsRead.declared : {n - 1, n} \subseteq ToSet(skillsRead.declared[e])

\* Every line of a resume is read as far as each loop knows it: of the skills
\* when the first has ended, of the content when the second has.
ResumeIsReadWhole ==
  /\ reader # "skills" => WrappedSkillsAreWhole
  /\ reader = "done" => LinesAreKeptInTheirSection /\ BulletsOpenEntries
===============================================================================
