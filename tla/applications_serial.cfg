SPECIFICATION Spec
CONSTANTS
  r1 = r1
  r2 = r2
  ta = ta
  la = la
  lb = lb
  lx = lx
  Resume = {r1, r2}
  Tailored = {ta}
  Letter = {la, lb, lx}
  SourceOf <- Sources
  ForThisJob <- MadeForThisJob
  Check = {c1, c2}
  Due = {d1}
  None = None
  Request = {q1, q2}
  Overlapping = FALSE
  MaxEvents = 4
SYMMETRY Requests
INVARIANTS
  PacketIsSound
  HistoryIsAPath
PROPERTIES
  SettledIsFinal
  ImplementsWorkflow
