SPECIFICATION Spec
CONSTANTS
  c1 = c1
  c2 = c2
  p1 = p1
  p2 = p2
  Product = {p1}
  Customer = {c1, c2}
  Key = {k1, k2}
  SaleId = {s1, s2, s3}
  Tx = {t1}
  Command <- OneShelf
  Lines <- OneShelfLines
  Terms <- FixedTerms
  Receipt = {2}
  Payment = {3}
  MaxStock = 2
  MinExposure = 0
  MaxRequests = 3
  PeriodTurns = FALSE
  NoSale = NoSale
INVARIANT CreditRefusedOverLimit
CHECK_DEADLOCK FALSE
