SPECIFICATION FairSpec
CONSTANTS
  w1 = w1
  w2 = w2
  w3 = w3
  t1 = t1
  t2 = t2
  Event = {1, 2}
  Tenant = {t1}
  TenantOf <- OneTenant
  Process = {w1, w2}
  WorkerID <- OwnID
  NoWorker = NoWorker
  BatchSize = 1
  Lease = 2
  RetryDelay = 3
  Reading <- AnyClock
  Margin = 1
  Poison = {1}
  MaxFaults = 2
  MaxCount = 2
INVARIANTS OutboxTypeOK LeaseExclusive OneSendPerClaim
PROPERTIES DoneIsFinal DeliverySpec EventuallyDelivered
