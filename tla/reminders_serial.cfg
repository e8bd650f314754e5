SPECIFICATION Spec
CONSTANTS
  Application = {1}
  Due = {1, 2}
  Action = {x, y}
  None = None
  Runner = {m1}
  Request = {q1}
  Limit = 2
  Overlapping = FALSE
SYMMETRY Interchangeable
INVARIANT
  DatesMatchStatus
PROPERTY
  ImplementsPolicy
