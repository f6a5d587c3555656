SPECIFICATION FairSpec
CONSTANTS
  pg1 = pg1
  Sale = {1}
  CreditSale = {}
  Page = {pg1}
  Loop = Loop
  MaxListed = 1
  MaxFaults = 1
PROPERTY EventuallySynced
