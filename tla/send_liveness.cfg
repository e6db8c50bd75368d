SPECIFICATION FairSpec
CONSTANTS
  Target = {t1, t2}
  Cold = {t1}
  NoTarget = NoTarget
  NoResult = NoResult
  MaxRetryAttempts = 1
  WorkerOutcome <- MCLiveOutcome
  CallbackOutcome = {}
  RecipientStatus = {}
  BatchLimit = 1
  MaxFaults = 1
CHECK_DEADLOCK FALSE
INVARIANTS
  NoRowLost
PROPERTIES
  OutboxDrains
  InFlightResolves
