SPECIFICATION FairSpec
CONSTANTS
  r1 = r1
  r2 = r2
  t1 = t1
  t2 = t2
  Recipient = {t1}
  Reply = {r1}
  TargetOf <- OneTarget
  Unsubscribe = {}
  AdminPhone = {a1}
  NoReply = NoReply
  Nobody = Nobody
  MaxWebhooks = 1
  MaxFaults = 1
PROPERTIES
  ReconnectReturns
