SPECIFICATION Spec
CONSTANTS
  Target = {t1}
  Cold = {t1}
  NoTarget = NoTarget
  NoResult = NoResult
  MaxRetryAttempts = 3
  WorkerOutcome <- MCLiveOutcome
  CallbackOutcome = {}
  RecipientStatus = {}
  BatchLimit = 1
  MaxFaults = 1
CHECK_DEADLOCK FALSE
INVARIANTS
  SingleFlight
