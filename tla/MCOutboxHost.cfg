SPECIFICATION Spec
CONSTANTS
  w1 = w1
  w2 = w2
  w3 = w3
  t1 = t1
  t2 = t2
  Event = {1}
  Tenant = {t1}
  TenantOf <- OneTenant
  Process = {w1, w2, w3}
  WorkerID <- HostID
  NoWorker = NoWorker
  BatchSize = 1
  Lease = 1
  RetryDelay = 1
  Poison = {}
  MaxFaults = 4
  MaxCount = 3
  Reading <- OneClock
  Margin = 0
INVARIANT LeaseExclusive
