SPECIFICATION FairSpec
CONSTANTS
  c1 = c1
  p1 = p1
  p2 = p2
  k1 = k1
  k2 = k2
  MaxInt = 15
  Scale = 4
  Product = {p1, p2}
  Customer = {c1}
  Key = {k1, k2}
  Terms <- MCTerms
  Receipt = {4}
  Order <- MCOrder
  Catalog <- MCCatalog
  Permitted = {"complete", "reverse", "read"}
  MaxRequests = 2
  KeysOf <- MCKeysOf
  MaxStock = 4
  MaxFaults = 1
  NoSale = NoSale
INVARIANTS MemoryTypeOK AnswersTellTruth MoneyIsExact
PROPERTIES LedgerSpec EveryRequestAnswered
