SPECIFICATION Spec
CONSTANTS
  r1 = r1
  r2 = r2
  ta = ta
  la = la
  lb = lb
  lx = lx
  Resume = {r1, r2}
  Tailored = {ta}
  Letter = {lb}
  SourceOf <- SourcesAB
  ForThisJob <- MadeForThisJobAB
  Check = {c1}
  Due = {}
  None = None
  Request = {q1, q2}
  Overlapping = TRUE
  MaxEvents = 3
SYMMETRY Requests
INVARIANT
  ReadyIsComplete
