SPECIFICATION Spec
CONSTANTS
  Task = {t1}
  Worker = {w1, w2}
  Caller = {api}
  Cycle = {cycle}
  MaxAttempts = 2
  MaxRetries = 1
  BatchLimit = 1
  MaxCopies = 2
  MaxCrashes = 1
  NoTask = NoTask
  NoResult = NoResult
SYMMETRY Symmetry
INVARIANTS
  RowsAreConsistent
  TypeOK
  SucceededHasResult
  PublishedWasAccepted
PROPERTIES
  EndedIsFinal
  ImplementsContract
