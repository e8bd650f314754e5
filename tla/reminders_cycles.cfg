SPECIFICATION Spec
CONSTANTS
  Application = {1}
  Due = {1, 2}
  Action = {x}
  None = None
  Runner = {m1, m2}
  Request = {}
  Limit = 2
  Overlapping = TRUE
SYMMETRY Interchangeable
INVARIANT
  TypeOK
PROPERTY
  CyclesOnlyDismiss
