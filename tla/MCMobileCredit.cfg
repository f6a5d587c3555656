SPECIFICATION Spec
CONSTANTS
  pg1 = pg1
  Sale = {1}
  CreditSale = {1}
  Page = {pg1}
  Loop = Loop
  MaxListed = 1
  MaxFaults = 1
INVARIANT CreditNeverOffline
