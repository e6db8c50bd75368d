SPECIFICATION Spec
CONSTANTS
  Target = {t1, t2}
  Handler = {h1, h2}
  Reader = {}
  NoTarget = NoTarget
  NoRow = NoRow
  MaxRetryAttempts = 1
  WorkerOutcome <- NoOutcome
  MaxStarting = 1
  MaxCount = 0
  MaxFaults = 0
CHECK_DEADLOCK FALSE
INVARIANTS
  CompletedWhenAllReplied
