SPECIFICATION Spec
CONSTANTS
  Target = {t1, t2}
  a1 = a1
  a2 = a2
  Account = {a1, a2}
  NoAccount = NoAccount
  Idle = Idle
  DailyLimit <- MCDailyLimit
  LimitWarmDaily = 1
  LimitColdMin = 1
  LimitColdMax = 2
  ColdInterval = {1, 2}
  RetryDelay = 1
  AccountCooldown = 2
  MaxRetryAttempts = 2
  WorkerOutcome <- MCWorkerOutcome
  DayLength = 2
  UtcOffset = 1
  WorkWindowStart = 1
  WorkWindowEnd = 2
  MaxTime = 2
  MaxFaults = 1
SYMMETRY Symmetry
CHECK_DEADLOCK FALSE
INVARIANTS
  TypeOK
  DailyLimitKept
  ColdQuotaKept
  ColdPaced
  WarmQuotaKept
  CooldownRespected
  RefusedOnlyAcrossMidnight
