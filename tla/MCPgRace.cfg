SPECIFICATION Spec
CONSTANTS
  c1 = c1
  c2 = c2
  p1 = p1
  p2 = p2
  Product = {p1}
  Customer = {c1, c2}
  Key = {k1, k2}
  SaleId = {s1, s2, s3}
  Tx = {t1, t2}
  Command <- OneShelf
  Lines <- OneShelfLines
  Terms <- EditedTerms
  Receipt = {2}
  Payment = {1}
  MaxStock = 2
  MinExposure <- MCMinExposure
  MaxRequests = 3
  PeriodTurns = TRUE
  NoSale = NoSale
SYMMETRY Symmetry
INVARIANTS PgTypeOK StockNeverNegative OneReversalPerSale
  AnswersStand NeverDeadlocked
PROPERTIES LedgerSpec CreditWithinLimit
