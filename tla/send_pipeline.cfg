SPECIFICATION Spec
CONSTANTS
  Target = {t1}
  Cold = {t1}
  NoTarget = NoTarget
  NoResult = NoResult
  MaxRetryAttempts = 2
  WorkerOutcome <- MCWorkerOutcome
  CallbackOutcome <- MCCallbackOutcome
  RecipientStatus = {"viewed", "replied"}
  BatchLimit = 2
  MaxFaults = 1
CHECK_DEADLOCK FALSE
INVARIANTS
  TypeOK
  RowPerAttempt
  CopiesBounded
  SingleFlightWithoutFaults
PROPERTIES
  ImplementsLifecycle
