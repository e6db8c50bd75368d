SPECIFICATION Spec
CONSTANTS
  Target = {t1}
  Cold = {t1}
  NoTarget = NoTarget
  NoResult = NoResult
  MaxRetryAttempts = 2
  WorkerOutcome <- MCWorkerOutcome
  CallbackOutcome <- MCCallbackOutcome
  RecipientStatus = {"viewed", "replied"}
  BatchLimit = 1
  MaxFaults = 0
CHECK_DEADLOCK FALSE
PROPERTIES
  ViewedRepliedKept
