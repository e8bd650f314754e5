SPECIFICATION FairSpec
CONSTANTS
  Application = {1, 2}
  Due = {1}
  Action = {x}
  None = None
  Runner = {m1}
  Request = {}
  Limit = 2
  Overlapping = TRUE
PROPERTIES
  EveryDeadlineIsSurfaced
  SupersededIsDismissed
