SPECIFICATION Spec
CONSTANTS
  c1 = c1
  c2 = c2
  Product = {p1}
  Customer = {c1, c2}
  Key = {k1, k2}
  SaleId = {s1, s2, s3, s4}
  Command <- MCCommand
  Terms <- MCTerms
  Receipt = {1, 2}
  Payment = {2}
  MaxStock = 3
  MinExposure <- MCMinExposure
  NoSale = NoSale
SYMMETRY Symmetry
INVARIANTS
  TypeOK
  StockNeverNegative
  OneReversalPerSale
  LedgersShowStandingSales
  DebitsEqualCredits
  SubledgerEqualsControl
  OneClaimPerRecord
  OneEventPerRecord
PROPERTY PostedIsPermanent
