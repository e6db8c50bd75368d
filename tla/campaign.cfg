SPECIFICATION FairSpec
CONSTANTS
  Target = {t1, t2}
  Handler = {h1, h2}
  Reader = {r1}
  NoTarget = NoTarget
  NoRow = NoRow
  MaxRetryAttempts = 1
  WorkerOutcome <- MCWorkerOutcome
  MaxStarting = 1
  MaxCount = 2
  MaxFaults = 1
CHECK_DEADLOCK FALSE
INVARIANTS
  TypeOK
  LateDoses
  CompletedMeansReplied
  CompletedWithoutOverlap
  ProgressCounted
PROPERTIES
  StopSticks
  DraftStarts
  ImplementsLifecycle
