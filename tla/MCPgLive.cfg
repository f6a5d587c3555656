SPECIFICATION FairSpec
CONSTANTS
  c1 = c1
  c2 = c2
  p1 = p1
  p2 = p2
  Product = {p1, p2}
  Customer = {c1, c2}
  Key = {k1, k2}
  SaleId = {s1, s2, s3, s4}
  Tx = {t1, t2}
  Command <- TwoProducts
  Lines <- TwoProductsLines
  Terms <- FixedTerms
  Receipt = {1}
  Payment = {}
  MaxStock = 1
  MinExposure <- MCMinExposure
  MaxRequests = 3
  PeriodTurns = FALSE
  NoSale = NoSale
INVARIANTS DeadlockAtLinesOnly WaitsForWork
PROPERTY EveryRequestEnds
CHECK_DEADLOCK FALSE
