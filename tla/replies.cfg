SPECIFICATION Spec
CONSTANTS
  r1 = r1
  r2 = r2
  t1 = t1
  t2 = t2
  Recipient = {t1, t2}
  Reply = {r1, r2}
  TargetOf <- TwoTargets
  Unsubscribe = {r1, r2}
  AdminPhone = {a1}
  NoReply = NoReply
  Nobody = Nobody
  MaxWebhooks = 1
  MaxFaults = 2
INVARIANTS
  TypeOK
  CacheSound
  SingleResult
  AckedMeansRegistered
PROPERTIES
  SettledStays
  ImplementsDelivery
