SPECIFICATION FairSpec
CONSTANTS
  Task = {t1}
  Worker = {w1}
  Caller = {api}
  Cycle = {cycle}
  MaxAttempts = 2
  MaxRetries = 1
  BatchLimit = 1
  MaxCopies = 2
  MaxCrashes = 1
  NoTask = NoTask
  NoResult = NoResult
PROPERTIES
  EveryTaskEnds
  CancellationTakesEffect
