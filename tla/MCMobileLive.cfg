SPECIFICATION FairSpec
CONSTANTS
  pg1 = pg1
  Sale = {1, 2}
  CreditSale = {2}
  Page = {pg1}
  Loop = Loop
  MaxListed = 2
  MaxFaults = 2
INVARIANTS MobileTypeOK SyncedIsPosted EvidenceKept
PROPERTIES NothingLost PendingIsSynced
