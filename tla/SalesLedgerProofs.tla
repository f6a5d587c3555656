------------------------- MODULE SalesLedgerProofs -------------------------
(***************************************************************************)
(* What the serial sales service keeps true for every set of products,     *)
(* customers, keys, commands and identifiers.                              *)
(***************************************************************************)
EXTENDS SalesLedger, SumProofs, TLAPS

-----------------------------------------------------------------------------
(* The rows posting writes are rows *)

LEMMA SaleRowsType ==
  ASSUME NEW c \in Command, NEW taken \in [Product -> Nat]
  PROVE  SaleRows(c, taken) \in Rows
<1>1. c.net \in Int /\ c.tax \in Int /\ c.cost \in Int /\ c.credit \in BOOLEAN
  BY CommandAssumption
<1>2. SaleJournal(c) \in [Account -> Int]
  BY <1>1 DEF SaleJournal, Account, Total
<1>3. [p \in Product |-> -taken[p]] \in [Product -> Int]
  OBVIOUS
<1>4. Total(c) \in Int
  BY <1>1 DEF Total
<1> QED
  BY <1>1, <1>2, <1>3, <1>4 DEF SaleRows, Rows

LEMMA ReversalRowsType ==
  ASSUME NEW r \in Rows
  PROVE  ReversalRows(r) \in Rows
BY DEF ReversalRows, Rows

LEMMA AppendRowsType ==
  ASSUME TypeOK, NEW id \in SaleId, NEW c \in Customer, NEW r \in Rows,
         AppendRows(id, c, r)
  PROVE  /\ rows' \in [SaleId -> Rows]
         /\ stock' \in [Product -> Int]
         /\ exposure' \in [Customer -> Int]
         /\ gl' \in [Account -> Int]
BY DEF TypeOK, AppendRows, Rows

LEMMA NoRowsType == NoRows \in Rows
BY DEF NoRows, Rows

-----------------------------------------------------------------------------
(* Type correctness *)

LEMMA InitType == InitBooks => TypeOK
BY NoRowsType DEF InitBooks, TypeOK, Posted, Claimed

LEMMA CompleteType ==
  ASSUME TypeOK, NEW k \in Key, NEW c \in Command, NEW id \in SaleId,
         Complete(k, c, id)
  PROVE  TypeOK'
<1>1. c.customer \in Customer /\ c.demand \in [Product -> Nat]
  BY CommandAssumption
<1>2. SaleRows(c, c.demand) \in Rows
  BY <1>1, SaleRowsType
<1>3. AppendRows(id, c.customer, SaleRows(c, c.demand))
  BY DEF Complete, PostSale
<1>4. /\ rows' \in [SaleId -> Rows] /\ stock' \in [Product -> Int]
      /\ exposure' \in [Customer -> Int] /\ gl' \in [Account -> Int]
  BY <1>1, <1>2, <1>3, AppendRowsType
<1>5. sales' \in [SaleId -> Record \cup {NoSale}]
  <2>1. SaleRecord(c) \in Record
    BY DEF SaleRecord, Record
  <2> QED BY <2>1 DEF Complete, PostSale, TypeOK
<1>6. claims' \in [Slot -> Claim \cup {NoSale}]
  <2>1. [request |-> c, result |-> id] \in Claim
    BY DEF Claim
  <2> QED BY <2>1 DEF Complete, PostSale, CompleteIdempotency, TypeOK
<1>7. outbox' \subseteq Event
  BY DEF Complete, PostSale, RecordEvents, Event, TypeOK
<1>8. account' \in [Customer -> Terms]
  BY DEF Complete, TypeOK
<1> QED
  BY <1>4, <1>5, <1>6, <1>7, <1>8 DEF TypeOK

LEMMA ReverseType ==
  ASSUME TypeOK, NEW k \in Key, NEW s \in SaleId, NEW id \in SaleId,
         Reverse(k, s, id)
  PROVE  TypeOK'
<1>1. sales[s] \in Record /\ s # id
  BY DEF Reverse, Reversible, Fresh, TypeOK
<1>2. sales[s].command \in Command /\ sales[s].command.customer \in Customer
  BY <1>1, CommandAssumption DEF Record
<1>3. ReversalRows(rows[s]) \in Rows
  BY ReversalRowsType DEF TypeOK
<1>4. AppendRows(id, sales[s].command.customer, ReversalRows(rows[s]))
  BY DEF Reverse, PostReversal
<1>5. /\ rows' \in [SaleId -> Rows] /\ stock' \in [Product -> Int]
      /\ exposure' \in [Customer -> Int] /\ gl' \in [Account -> Int]
  BY <1>2, <1>3, <1>4, AppendRowsType
<1>6. sales' \in [SaleId -> Record \cup {NoSale}]
  <2>1. ReversalRecord(s) \in Record
    BY <1>2 DEF ReversalRecord, Record
  <2>2. [sales[s] EXCEPT !.status = "REVERSED"] \in Record
    BY <1>1 DEF Record
  <2> QED BY <1>1, <2>1, <2>2 DEF Reverse, PostReversal, TypeOK
<1>7. claims' \in [Slot -> Claim \cup {NoSale}]
  <2>1. [request |-> s, result |-> id] \in Claim
    BY DEF Claim
  <2> QED BY <2>1 DEF Reverse, PostReversal, CompleteIdempotency, TypeOK
<1>8. outbox' \subseteq Event
  BY DEF Reverse, PostReversal, RecordEvents, Event, TypeOK
<1>9. account' \in [Customer -> Terms]
  BY DEF Reverse, TypeOK
<1> QED
  BY <1>5, <1>6, <1>7, <1>8, <1>9 DEF TypeOK

LEMMA EnvironmentType ==
  ASSUME TypeOK, Environment
  PROVE  TypeOK'
<1>1. ASSUME NEW p \in Product, NEW n \in Receipt, Receive(p, n)
      PROVE  TypeOK'
  BY <1>1, EnvironmentAssumption DEF Receive, TypeOK
<1>2. ASSUME NEW c \in Customer, NEW a \in Payment, Settle(c, a)
      PROVE  TypeOK'
  <2>1. a \in Int
    BY EnvironmentAssumption
  <2>2. gl' \in [Account -> Int]
    BY <1>2, <2>1 DEF Settle, TypeOK, Account
  <2>3. exposure' \in [Customer -> Int]
    BY <1>2, <2>1 DEF Settle, TypeOK
  <2> QED BY <1>2, <2>2, <2>3 DEF Settle, TypeOK
<1>3. ASSUME NEW c \in Customer, NEW t \in Terms, EditAccount(c, t)
      PROVE  TypeOK'
  BY <1>3 DEF EditAccount, TypeOK
<1> QED
  BY <1>1, <1>2, <1>3 DEF Environment

LEMMA NextType == TypeOK /\ [Next]_books => TypeOK'
<1> SUFFICES ASSUME TypeOK, [Next]_books PROVE TypeOK'
  OBVIOUS
<1>1. CASE UNCHANGED books
  BY <1>1 DEF books, TypeOK
<1>2. CASE Next
  BY <1>2, CompleteType, ReverseType, EnvironmentType DEF Next
<1> QED
  BY <1>1, <1>2

\* Every table of the books keeps its type: no posting writes a row the
\* reversal that reads it back could not negate.
THEOREM TypeCorrect == Spec => []TypeOK
<1>1. TypeOK /\ [Next]_books => TypeOK'
  BY NextType
<1> QED
  BY InitType, <1>1, PTL DEF Spec
-----------------------------------------------------------------------------
(* The inductive invariant.  Stock only falls by a sale and only rises by a  *)
(* reversal because the rows a reversal negates are still those of a sale:   *)
(* RowsOfCommand is the strengthening that carries it.                       *)

RowsOfCommand ==
  \A s \in Posted :
    sales[s].type = "SALE" =>
      /\ sales[s].of = NoSale
      /\ rows[s] = SaleRows(sales[s].command, sales[s].command.demand)

IInv ==
  /\ TypeOK
  /\ RowsOfCommand
  /\ StockNeverNegative
  /\ OneReversalPerSale
  /\ DebitsEqualCredits
  /\ OneClaimPerRecord

\* A completion writes a fresh record beside the others.
LEMMA CompleteWrites ==
  ASSUME TypeOK, NEW k \in Key, NEW c \in Command, NEW id \in SaleId,
         Complete(k, c, id)
  PROVE  /\ id \notin Posted /\ Posted' = Posted \cup {id}
         /\ \A s \in Posted : sales'[s] = sales[s] /\ rows'[s] = rows[s]
         /\ sales'[id] = SaleRecord(c)
         /\ rows'[id] = SaleRows(c, c.demand)
         /\ <<"complete", k>> \notin Claimed
         /\ Claimed' = Claimed \cup {<<"complete", k>>}
         /\ \A x \in Claimed : claims'[x] = claims[x]
         /\ claims'[<<"complete", k>>] = [request |-> c, result |-> id]
<1>1. SaleRecord(c) \in Record /\ SaleRecord(c) # NoSale
  BY NoSaleAssumption DEF SaleRecord, Record
<1>2. /\ [request |-> c, result |-> id] \in Claim
      /\ [request |-> c, result |-> id] # NoSale
  BY NoSaleAssumption DEF Claim
<1>3. <<"complete", k>> \in Slot
  BY DEF Slot, Op
<1>4. /\ sales[id] = NoSale /\ sales' = [sales EXCEPT ![id] = SaleRecord(c)]
      /\ rows' = [rows EXCEPT ![id] = SaleRows(c, c.demand)]
  BY DEF Complete, Fresh, PostSale, AppendRows
<1>5. /\ claims[<<"complete", k>>] = NoSale
      /\ claims' = [claims EXCEPT ![<<"complete", k>>] =
                                     [request |-> c, result |-> id]]
  BY DEF Complete, Unclaimed, PostSale, CompleteIdempotency
<1>6. /\ id \notin Posted /\ Posted' = Posted \cup {id}
      /\ \A s \in Posted : sales'[s] = sales[s] /\ rows'[s] = rows[s]
      /\ sales'[id] = SaleRecord(c) /\ rows'[id] = SaleRows(c, c.demand)
  BY <1>1, <1>4 DEF Posted, TypeOK
<1>7. /\ <<"complete", k>> \notin Claimed
      /\ Claimed' = Claimed \cup {<<"complete", k>>}
      /\ \A x \in Claimed : claims'[x] = claims[x]
      /\ claims'[<<"complete", k>>] = [request |-> c, result |-> id]
  BY <1>2, <1>3, <1>5 DEF Claimed, TypeOK
<1> QED
  BY <1>6, <1>7

\* A reversal writes a fresh record and marks its original, nothing else.
LEMMA ReverseWrites ==
  ASSUME TypeOK, NEW k \in Key, NEW s \in SaleId, NEW id \in SaleId,
         Reverse(k, s, id)
  PROVE  /\ s \in Posted /\ sales[s].type = "SALE" /\ sales[s].status = "POSTED"
         /\ id \notin Posted /\ Posted' = Posted \cup {id}
         /\ \A r \in Posted : rows'[r] = rows[r]
         /\ \A r \in Posted \ {s} : sales'[r] = sales[r]
         /\ sales'[s] = [sales[s] EXCEPT !.status = "REVERSED"]
         /\ sales'[id] = ReversalRecord(s)
         /\ rows'[id] = ReversalRows(rows[s])
         /\ <<"reverse", k>> \notin Claimed
         /\ Claimed' = Claimed \cup {<<"reverse", k>>}
         /\ \A x \in Claimed : claims'[x] = claims[x]
         /\ claims'[<<"reverse", k>>] = [request |-> s, result |-> id]
<1>1. /\ sales[s] \in Record /\ sales[s] # NoSale /\ s # id
      /\ sales[s].type = "SALE" /\ sales[s].status = "POSTED"
  BY DEF Reverse, Reversible, Fresh, TypeOK, Record
<1>2. ReversalRecord(s) \in Record /\ ReversalRecord(s) # NoSale
  BY <1>1, NoSaleAssumption DEF ReversalRecord, Record
<1>3. /\ [sales[s] EXCEPT !.status = "REVERSED"] \in Record
      /\ [sales[s] EXCEPT !.status = "REVERSED"] # NoSale
  <2>1. [sales[s] EXCEPT !.status = "REVERSED"] \in Record
    BY <1>1 DEF Record
  <2> QED BY <2>1, NoSaleAssumption
<1>4. /\ [request |-> s, result |-> id] \in Claim
      /\ [request |-> s, result |-> id] # NoSale
  BY NoSaleAssumption DEF Claim
<1>5. <<"reverse", k>> \in Slot
  BY DEF Slot, Op
<1>6. /\ sales[id] = NoSale
      /\ sales' = [[sales EXCEPT ![id] = ReversalRecord(s)] EXCEPT
                      ![s] = [sales[s] EXCEPT !.status = "REVERSED"]]
      /\ rows' = [rows EXCEPT ![id] = ReversalRows(rows[s])]
  BY <1>1 DEF Reverse, Fresh, PostReversal, AppendRows, TypeOK
<1>7. /\ claims[<<"reverse", k>>] = NoSale
      /\ claims' = [claims EXCEPT ![<<"reverse", k>>] =
                                     [request |-> s, result |-> id]]
  BY DEF Reverse, Unclaimed, PostReversal, CompleteIdempotency
<1>8. /\ s \in Posted /\ id \notin Posted /\ Posted' = Posted \cup {id}
      /\ \A r \in Posted : rows'[r] = rows[r]
      /\ \A r \in Posted \ {s} : sales'[r] = sales[r]
      /\ sales'[s] = [sales[s] EXCEPT !.status = "REVERSED"]
      /\ sales'[id] = ReversalRecord(s) /\ rows'[id] = ReversalRows(rows[s])
  BY <1>1, <1>2, <1>3, <1>6 DEF Posted, TypeOK
<1>9. /\ <<"reverse", k>> \notin Claimed
      /\ Claimed' = Claimed \cup {<<"reverse", k>>}
      /\ \A x \in Claimed : claims'[x] = claims[x]
      /\ claims'[<<"reverse", k>>] = [request |-> s, result |-> id]
  BY <1>4, <1>5, <1>7 DEF Claimed, TypeOK
<1> QED
  BY <1>1, <1>8, <1>9

-----------------------------------------------------------------------------
(* Journals *)

Balance(j) ==
  j["cash"] + j["receivable"] + j["revenue"] + j["tax"] + j["cogs"] + j["inventory"]

\* The six accounts an accumulating write adds to are summed one by one.
LEMMA BalanceAdds ==
  ASSUME NEW g \in [Account -> Int], NEW j \in [Account -> Int],
         Balance(g) = 0, Balance(j) = 0
  PROVE  Balance([a \in Account |-> g[a] + j[a]]) = 0
<1> DEFINE h == [a \in Account |-> g[a] + j[a]]
<1>1. /\ h["cash"] = g["cash"] + j["cash"]
      /\ h["receivable"] = g["receivable"] + j["receivable"]
      /\ h["revenue"] = g["revenue"] + j["revenue"]
      /\ h["tax"] = g["tax"] + j["tax"]
      /\ h["cogs"] = g["cogs"] + j["cogs"]
      /\ h["inventory"] = g["inventory"] + j["inventory"]
  BY DEF Account
<1>2. \A a \in Account : g[a] \in Int /\ j[a] \in Int
  OBVIOUS
<1> HIDE DEF h
<1>3. Balance(h) = 0
  BY <1>1, <1>2 DEF Balance, Account
<1> QED BY <1>3 DEF h

LEMMA SaleBalances ==
  ASSUME NEW c \in Command
  PROVE  Balance(SaleJournal(c)) = 0
<1>1. c.net \in Int /\ c.tax \in Int /\ c.cost \in Int /\ c.credit \in BOOLEAN
  BY CommandAssumption
<1>2. /\ SaleJournal(c)["cash"] = IF c.credit THEN 0 ELSE Total(c)
      /\ SaleJournal(c)["receivable"] = IF c.credit THEN Total(c) ELSE 0
      /\ SaleJournal(c)["revenue"] = -c.net
      /\ SaleJournal(c)["tax"] = -c.tax
      /\ SaleJournal(c)["cogs"] = c.cost
      /\ SaleJournal(c)["inventory"] = -c.cost
  BY DEF SaleJournal, Account
<1>3. Balance(SaleJournal(c)) =
        (IF c.credit THEN 0 ELSE Total(c)) + (IF c.credit THEN Total(c) ELSE 0)
          + (-c.net) + (-c.tax) + c.cost + (-c.cost)
  BY <1>2 DEF Balance
<1> QED
  BY <1>1, <1>3 DEF Total

LEMMA ReversalBalances ==
  ASSUME NEW r \in Rows, Balance(r.journal) = 0
  PROVE  Balance(ReversalRows(r).journal) = 0
<1> DEFINE j == r.journal
           h == [a \in Account |-> -j[a]]
<1>1. j \in [Account -> Int] /\ Balance(j) = 0
  BY DEF Rows
<1>2. /\ h["cash"] = -j["cash"] /\ h["receivable"] = -j["receivable"]
      /\ h["revenue"] = -j["revenue"] /\ h["tax"] = -j["tax"]
      /\ h["cogs"] = -j["cogs"] /\ h["inventory"] = -j["inventory"]
  BY DEF Account
<1>3. \A a \in Account : j[a] \in Int
  BY <1>1
<1>4. ReversalRows(r).journal = h
  BY DEF ReversalRows
<1> HIDE DEF j, h
<1>5. Balance(h) = 0
  BY <1>1, <1>2, <1>3 DEF Balance, Account
<1> QED BY <1>4, <1>5

-----------------------------------------------------------------------------
(* The inductive step, one lemma for each action *)

LEMMA CompleteInv ==
  ASSUME IInv, NEW k \in Key, NEW c \in Command, NEW id \in SaleId,
         Complete(k, c, id)
  PROVE  IInv'
<1> DEFINE x == <<"complete", k>>
<1>1. TypeOK /\ TypeOK'
  BY CompleteType DEF IInv
<1>2. /\ id \notin Posted /\ Posted' = Posted \cup {id}
      /\ \A s \in Posted : sales'[s] = sales[s] /\ rows'[s] = rows[s]
      /\ sales'[id] = SaleRecord(c)
      /\ rows'[id] = SaleRows(c, c.demand)
      /\ x \notin Claimed /\ Claimed' = Claimed \cup {x}
      /\ \A y \in Claimed : claims'[y] = claims[y]
      /\ claims'[x] = [request |-> c, result |-> id]
  BY <1>1, CompleteWrites
<1>3. /\ x \notin Claimed /\ Claimed' = Claimed \cup {x}
      /\ \A y \in Claimed : claims'[y] = claims[y]
      /\ claims'[x] = [request |-> c, result |-> id]
  BY <1>2
<1>4. c.demand \in [Product -> Nat] /\ SaleRows(c, c.demand) \in Rows
  BY CommandAssumption, SaleRowsType
<1>5. SaleRecord(c).type = "SALE" /\ SaleRecord(c).status = "POSTED"
      /\ SaleRecord(c).of = NoSale /\ SaleRecord(c).command = c
  BY DEF SaleRecord
<1>6. RowsOfCommand'
  BY <1>2, <1>5 DEF IInv, RowsOfCommand
<1>7. StockNeverNegative'
  <2>1. stock' = [p \in Product |-> stock[p] + -c.demand[p]]
    BY DEF Complete, PostSale, AppendRows, SaleRows
  <2>2. \A p \in Product : stock[p] >= c.demand[p]
    BY DEF Complete, InStock
  <2> QED
    BY <1>1, <1>4, <2>1, <2>2 DEF StockNeverNegative, TypeOK
<1>8. OneReversalPerSale'
  <2>1. NoSale \notin Posted'
    BY NoSaleAssumption DEF Posted
  <2>2. ASSUME NEW s \in Posted', sales'[s].of # NoSale
        PROVE  /\ sales'[s].type = "REVERSAL" /\ sales'[s].status = "POSTED"
               /\ sales'[s].of \in Posted' /\ sales'[sales'[s].of].type = "SALE"
               /\ sales'[sales'[s].of].status = "REVERSED"
               /\ \A r \in Posted' : sales'[r].of = sales'[s].of => r = s
    <3>1. s \in Posted /\ sales'[s] = sales[s] /\ sales[s].of \in Posted
      BY <1>2, <1>5, <2>2 DEF IInv, OneReversalPerSale
    <3>2. sales'[sales[s].of] = sales[sales[s].of]
      BY <1>2, <3>1
    <3> QED
      BY <1>2, <1>5, <2>1, <2>2, <3>1, <3>2 DEF IInv, OneReversalPerSale
  <2>3. ASSUME NEW s \in Posted', sales'[s].status = "REVERSED"
        PROVE  \E r \in Posted' : sales'[r].of = s
    <3>1. s \in Posted /\ sales[s].status = "REVERSED"
      BY <1>2, <1>5, <2>3
    <3> QED
      BY <1>2, <3>1 DEF IInv, OneReversalPerSale
  <2> QED
    BY <2>2, <2>3 DEF OneReversalPerSale
<1>9. DebitsEqualCredits'
  <2>1. gl' = [a \in Account |-> gl[a] + SaleJournal(c)[a]]
    BY DEF Complete, PostSale, AppendRows, SaleRows
  <2>2. SaleJournal(c) \in [Account -> Int] /\ Balance(SaleJournal(c)) = 0
    BY <1>4, SaleBalances DEF SaleRows, Rows
  <2>3. gl \in [Account -> Int] /\ Balance(gl) = 0
    BY <1>1 DEF IInv, DebitsEqualCredits, Balance, TypeOK
  <2> QED
    BY <2>1, <2>2, <2>3, BalanceAdds DEF DebitsEqualCredits, Balance
<1>10. OneClaimPerRecord'
  <2>1. \A y \in Claimed : claims[y].result \in Posted
    BY DEF IInv, OneClaimPerRecord
  <2>2. \A y \in Claimed : claims'[y].result # id
    BY <1>2, <1>3, <2>1
  <2>3. claims'[x].result = id /\ claims'[x].request = c
    BY <1>3
  <2>4. x[1] = "complete"
    OBVIOUS
  <2>5. \A y \in Claimed' :
          LET i == claims'[y].result IN
            /\ i \in Posted'
            /\ y[1] = "complete" => /\ sales'[i].type = "SALE"
                                    /\ sales'[i].command = claims'[y].request
            /\ y[1] = "reverse"  => /\ sales'[i].type = "REVERSAL"
                                    /\ sales'[i].of = claims'[y].request
    <3>1. ASSUME NEW y \in Claimed PROVE
            LET i == claims'[y].result IN
            /\ i \in Posted'
            /\ y[1] = "complete" => /\ sales'[i].type = "SALE"
                                    /\ sales'[i].command = claims'[y].request
            /\ y[1] = "reverse"  => /\ sales'[i].type = "REVERSAL"
                                    /\ sales'[i].of = claims'[y].request
      BY <1>2, <1>3, <2>1 DEF IInv, OneClaimPerRecord
    <3> QED
      BY <1>2, <1>3, <1>5, <2>3, <2>4, <3>1
  <2>6. \A s \in Posted' : \E y \in Claimed' : claims'[y].result = s
    BY <1>2, <1>3, <2>3 DEF IInv, OneClaimPerRecord
  <2>7. \A y, z \in Claimed' : claims'[y].result = claims'[z].result => y = z
    BY <1>3, <2>2, <2>3 DEF IInv, OneClaimPerRecord
  <2> QED
    BY <2>5, <2>6, <2>7 DEF OneClaimPerRecord
<1> QED
  BY <1>1, <1>6, <1>7, <1>8, <1>9, <1>10 DEF IInv

LEMMA ReverseInv ==
  ASSUME IInv, NEW k \in Key, NEW s \in SaleId, NEW id \in SaleId,
         Reverse(k, s, id)
  PROVE  IInv'
<1> DEFINE x == <<"reverse", k>>
<1>1. TypeOK /\ TypeOK'
  BY ReverseType DEF IInv
<1>2. /\ s \in Posted /\ sales[s].type = "SALE" /\ sales[s].status = "POSTED"
      /\ id \notin Posted /\ Posted' = Posted \cup {id}
      /\ \A r \in Posted : rows'[r] = rows[r]
      /\ \A r \in Posted \ {s} : sales'[r] = sales[r]
      /\ sales'[s] = [sales[s] EXCEPT !.status = "REVERSED"]
      /\ sales'[id] = ReversalRecord(s)
      /\ rows'[id] = ReversalRows(rows[s])
      /\ x \notin Claimed /\ Claimed' = Claimed \cup {x}
      /\ \A y \in Claimed : claims'[y] = claims[y]
      /\ claims'[x] = [request |-> s, result |-> id]
  BY <1>1, ReverseWrites
<1>3. /\ sales'[s].type = "SALE" /\ sales'[s].status = "REVERSED"
      /\ sales'[s].of = sales[s].of /\ sales'[s].command = sales[s].command
      /\ sales[s].of = NoSale /\ sales[s].command \in Command
  <2>1. sales[s] \in Record
    BY <1>1, <1>2 DEF TypeOK, Posted
  <2>2. sales[s].of = NoSale
    BY <1>2 DEF IInv, RowsOfCommand
  <2> QED
    BY <1>2, <2>1, <2>2 DEF Record
<1>4. sales'[id].type = "REVERSAL" /\ sales'[id].status = "POSTED" /\ sales'[id].of = s
  BY <1>2 DEF ReversalRecord
<1>5. /\ rows[s] = SaleRows(sales[s].command, sales[s].command.demand)
      /\ sales[s].command.demand \in [Product -> Nat]
      /\ rows[s] \in Rows
  BY <1>1, <1>2, <1>3, CommandAssumption DEF IInv, RowsOfCommand, TypeOK
<1>6. RowsOfCommand'
  <2>1. ASSUME NEW r \in Posted', sales'[r].type = "SALE"
        PROVE  /\ sales'[r].of = NoSale
               /\ rows'[r] = SaleRows(sales'[r].command, sales'[r].command.demand)
    <3>1. r \in Posted
      BY <1>2, <1>4, <2>1
    <3>2. CASE r = s
      BY <1>2, <1>3, <1>5, <3>2
    <3>3. CASE r # s
      BY <1>2, <2>1, <3>1, <3>3 DEF IInv, RowsOfCommand
    <3> QED BY <3>2, <3>3
  <2> QED BY <2>1 DEF RowsOfCommand
<1>7. StockNeverNegative'
  <2>1. \A p \in Product : ReversalRows(rows[s]).moved[p] = -(-sales[s].command.demand[p])
    BY <1>5 DEF ReversalRows, SaleRows
  <2>2. stock' = [p \in Product |-> stock[p] + ReversalRows(rows[s]).moved[p]]
    BY DEF Reverse, PostReversal, AppendRows
  <2> QED
    BY <1>1, <1>5, <2>1, <2>2 DEF IInv, StockNeverNegative, TypeOK
<1>8. OneReversalPerSale'
  <2>1. NoSale \notin Posted'
    BY NoSaleAssumption DEF Posted
  <2>2. \A r \in Posted : sales[r].of # s
    BY <1>2, <2>1 DEF IInv, OneReversalPerSale
  <2>3. ASSUME NEW r \in Posted', sales'[r].of # NoSale
        PROVE  /\ sales'[r].type = "REVERSAL" /\ sales'[r].status = "POSTED"
               /\ sales'[r].of \in Posted' /\ sales'[sales'[r].of].type = "SALE"
               /\ sales'[sales'[r].of].status = "REVERSED"
               /\ \A q \in Posted' : sales'[q].of = sales'[r].of => q = r
    <3>0. \A q \in Posted : sales'[q].of = sales[q].of
      BY <1>2, <1>3
    <3>1. CASE r = id
      <4>1. \A q \in Posted' : sales'[q].of = s => q = id
        BY <1>2, <2>2, <3>0
      <4> QED
        BY <1>2, <1>3, <1>4, <3>1, <4>1
    <3>2. CASE r # id
      <4>1. r \in Posted \ {s} /\ sales'[r] = sales[r] /\ sales[r].of \in Posted \ {s}
        <5>1. r \in Posted
          BY <1>2, <2>3, <3>2
        <5>2. sales'[r].of = sales[r].of /\ sales[r].of # NoSale
          BY <2>3, <3>0, <5>1
        <5>3. /\ sales[r].type = "REVERSAL" /\ sales[r].of \in Posted
              /\ sales[r].of # s
          BY <2>2, <5>1, <5>2 DEF IInv, OneReversalPerSale
        <5>4. r # s
          BY <1>2, <5>3
        <5> QED BY <1>2, <1>3, <5>1, <5>3, <5>4
      <4>2. sales'[sales[r].of] = sales[sales[r].of]
        BY <1>2, <4>1
      <4>3. \A q \in Posted' : sales'[q].of = sales[r].of =>
                q \in Posted /\ sales[q].of = sales[r].of
        BY <1>2, <1>4, <3>0, <4>1
      <4> QED
        BY <1>2, <2>3, <4>1, <4>2, <4>3 DEF IInv, OneReversalPerSale
    <3> QED BY <3>1, <3>2
  <2>4. ASSUME NEW r \in Posted', sales'[r].status = "REVERSED"
        PROVE  \E q \in Posted' : sales'[q].of = r
    <3>1. CASE r = s
      BY <1>2, <1>4, <3>1
    <3>2. CASE r # s
      <4>1. r \in Posted /\ sales[r].status = "REVERSED"
        BY <1>2, <1>4, <2>4, <3>2
      <4>2. PICK q \in Posted : sales[q].of = r
        BY <4>1 DEF IInv, OneReversalPerSale
      <4>3. q # s
        BY <1>3, <2>1, <1>2, <4>1, <4>2
      <4> QED
        BY <1>2, <4>2, <4>3
    <3> QED BY <3>1, <3>2
  <2> QED
    BY <2>3, <2>4 DEF OneReversalPerSale
<1>9. DebitsEqualCredits'
  <2>1. gl' = [a \in Account |-> gl[a] + ReversalRows(rows[s]).journal[a]]
    BY DEF Reverse, PostReversal, AppendRows
  <2>2. rows[s].journal = SaleJournal(sales[s].command)
    BY <1>5 DEF SaleRows
  <2>3. /\ ReversalRows(rows[s]).journal \in [Account -> Int]
        /\ Balance(ReversalRows(rows[s]).journal) = 0
    BY <1>3, <1>5, <2>2, SaleBalances, ReversalBalances, ReversalRowsType DEF Rows
  <2>4. gl \in [Account -> Int] /\ Balance(gl) = 0
    BY <1>1 DEF IInv, DebitsEqualCredits, Balance, TypeOK
  <2> QED
    BY <2>1, <2>3, <2>4, BalanceAdds DEF DebitsEqualCredits, Balance
<1>10. OneClaimPerRecord'
  <2>1. \A y \in Claimed : claims[y].result \in Posted
    BY DEF IInv, OneClaimPerRecord
  <2>2. \A y \in Claimed : claims'[y].result # id
    BY <1>2, <2>1
  <2>3. claims'[x].result = id /\ claims'[x].request = s
    BY <1>2
  <2>4. x[1] = "reverse"
    OBVIOUS
  <2>5. \A y \in Claimed' :
          LET i == claims'[y].result IN
            /\ i \in Posted'
            /\ y[1] = "complete" => /\ sales'[i].type = "SALE"
                                    /\ sales'[i].command = claims'[y].request
            /\ y[1] = "reverse"  => /\ sales'[i].type = "REVERSAL"
                                    /\ sales'[i].of = claims'[y].request
    <3>1. \A r \in Posted : /\ sales'[r].type = sales[r].type
                            /\ sales'[r].of = sales[r].of
                            /\ sales'[r].command = sales[r].command
      BY <1>2, <1>3
    <3>2. ASSUME NEW y \in Claimed PROVE
            LET i == claims'[y].result IN
            /\ i \in Posted'
            /\ y[1] = "complete" => /\ sales'[i].type = "SALE"
                                    /\ sales'[i].command = claims'[y].request
            /\ y[1] = "reverse"  => /\ sales'[i].type = "REVERSAL"
                                    /\ sales'[i].of = claims'[y].request
      BY <1>2, <2>1, <3>1 DEF IInv, OneClaimPerRecord
    <3> QED
      BY <1>2, <1>4, <2>3, <2>4, <3>2
  <2>6. \A r \in Posted' : \E y \in Claimed' : claims'[y].result = r
    BY <1>2, <2>3 DEF IInv, OneClaimPerRecord
  <2>7. \A y, z \in Claimed' : claims'[y].result = claims'[z].result => y = z
    BY <1>2, <2>2, <2>3 DEF IInv, OneClaimPerRecord
  <2> QED
    BY <2>5, <2>6, <2>7 DEF OneClaimPerRecord
<1> QED
  BY <1>1, <1>6, <1>7, <1>8, <1>9, <1>10 DEF IInv

LEMMA EnvironmentInv ==
  ASSUME IInv, Environment
  PROVE  IInv'
<1>1. TypeOK /\ TypeOK'
  BY EnvironmentType DEF IInv
<1>2. UNCHANGED <<sales, rows, claims>>
  BY DEF Environment, Receive, Settle, EditAccount
<1>3. RowsOfCommand' /\ OneReversalPerSale' /\ OneClaimPerRecord'
  BY <1>2 DEF IInv, RowsOfCommand, OneReversalPerSale, OneClaimPerRecord,
              Posted, Claimed
<1>4. StockNeverNegative'
  <2>1. ASSUME NEW p \in Product, NEW n \in Receipt, Receive(p, n)
        PROVE  StockNeverNegative'
    BY <1>1, <2>1, EnvironmentAssumption
       DEF Receive, IInv, StockNeverNegative, TypeOK
  <2>2. CASE UNCHANGED stock
    BY <2>2 DEF IInv, StockNeverNegative
  <2> QED
    BY <2>1, <2>2 DEF Environment, Settle, EditAccount
<1>5. DebitsEqualCredits'
  <2>1. ASSUME NEW c \in Customer, NEW a \in Payment, Settle(c, a)
        PROVE  DebitsEqualCredits'
    <3>1. a \in Int
      BY EnvironmentAssumption
    <3>2. \A b \in Account : gl[b] \in Int
      BY <1>1 DEF TypeOK
    <3>3. /\ gl'["receivable"] = gl["receivable"] - a
          /\ gl'["cash"] = gl["cash"] + a
          /\ gl'["revenue"] = gl["revenue"] /\ gl'["tax"] = gl["tax"]
          /\ gl'["cogs"] = gl["cogs"] /\ gl'["inventory"] = gl["inventory"]
      BY <1>1, <2>1 DEF Settle, TypeOK, Account
    <3> QED
      BY <3>1, <3>2, <3>3 DEF IInv, DebitsEqualCredits, Account
  <2>2. CASE UNCHANGED gl
    BY <2>2 DEF IInv, DebitsEqualCredits
  <2> QED
    BY <2>1, <2>2 DEF Environment, Receive, EditAccount
<1> QED
  BY <1>1, <1>3, <1>4, <1>5 DEF IInv

LEMMA NextInv == IInv /\ [Next]_books => IInv'
<1> SUFFICES ASSUME IInv, [Next]_books PROVE IInv'
  OBVIOUS
<1>1. CASE UNCHANGED books
  <2>1. TypeOK'
    BY <1>1, NextType DEF IInv
  <2> QED
    BY <1>1, <2>1 DEF books, IInv, RowsOfCommand, StockNeverNegative,
       OneReversalPerSale, DebitsEqualCredits, OneClaimPerRecord, Posted, Claimed
<1>2. CASE Next
  BY <1>2, CompleteInv, ReverseInv, EnvironmentInv DEF Next
<1> QED
  BY <1>1, <1>2

LEMMA InitInv == InitBooks => IInv
<1> SUFFICES ASSUME InitBooks PROVE IInv
  OBVIOUS
<1>1. Posted = {} /\ Claimed = {}
  BY DEF InitBooks, Posted, Claimed
<1>2. TypeOK
  BY InitType
<1>3. StockNeverNegative /\ DebitsEqualCredits
  BY DEF InitBooks, StockNeverNegative, DebitsEqualCredits, Account
<1>4. RowsOfCommand /\ OneReversalPerSale /\ OneClaimPerRecord
  BY <1>1 DEF RowsOfCommand, OneReversalPerSale, OneClaimPerRecord
<1> QED
  BY <1>2, <1>3, <1>4 DEF IInv

\* The invariant that Complete, Reverse and the other writers of the tables
\* (receipts, payments, edits of the account) keep between them, from which the
\* properties below follow: none of its parts is inductive alone.
THEOREM Inductive == Spec => []IInv
BY InitInv, NextInv, PTL DEF Spec

-----------------------------------------------------------------------------
(* What callers of the service may count on *)

\* No sequence of sales, reversals and receipts takes more of a product than
\* the warehouse has.
THEOREM NeverOversold == Spec => []StockNeverNegative
<1>1. IInv => StockNeverNegative
  BY DEF IInv
<1> QED
  BY <1>1, Inductive, PTL

\* A sale is reversed at most once, a reversal never, and REVERSED says so.
THEOREM ReversedOnce == Spec => []OneReversalPerSale
<1>1. IInv => OneReversalPerSale
  BY DEF IInv
<1> QED
  BY <1>1, Inductive, PTL

\* The general ledger balances whatever was posted, reversed or settled.
THEOREM LedgerBalances == Spec => []DebitsEqualCredits
<1>1. IInv => DebitsEqualCredits
  BY DEF IInv
<1> QED
  BY <1>1, Inductive, PTL

\* Each record is the result of exactly one idempotency claim, of its request.
THEOREM PostedOnce == Spec => []OneClaimPerRecord
<1>1. IInv => OneClaimPerRecord
  BY DEF IInv
<1> QED
  BY <1>1, Inductive, PTL

-----------------------------------------------------------------------------
(* Events *)

\* Both operations add one event, of a record they have just written, whose
\* claim they have just completed.
LEMMA EventsFollow ==
  ASSUME IInv, OneEventPerRecord,
         NEW id \in SaleId, NEW e \in Event, NEW x,
         id \notin Posted, Posted' = Posted \cup {id},
         \A s \in Posted : /\ sales'[s].type = sales[s].type
                          /\ sales'[s].of = sales[s].of,
         Claimed \subseteq Claimed', x \in Claimed',
         \A y \in Claimed : claims'[y] = claims[y],
         claims'[x].result = id,
         outbox' = outbox \cup {e}, e.sale = id,
         \/ /\ e.type = "sale.posted" /\ sales'[id].type = "SALE"
            /\ e.cause = x[2]
         \/ /\ e.type = "sale.reversed" /\ sales'[id].type = "REVERSAL"
            /\ e.cause = sales'[id].of
  PROVE  OneEventPerRecord'
<1>1. ASSUME NEW f \in outbox'
      PROVE  /\ f.sale \in Posted'
             /\ f.type = "sale.posted" =>
                  /\ sales'[f.sale].type = "SALE"
                  /\ \E y \in Claimed' : claims'[y].result = f.sale /\ f.cause = y[2]
             /\ f.type = "sale.reversed" =>
                  /\ sales'[f.sale].type = "REVERSAL"
                  /\ f.cause = sales'[f.sale].of
  <2>1. CASE f = e
    BY <2>1
  <2>2. CASE f \in outbox
    BY <2>2 DEF OneEventPerRecord
  <2> QED BY <1>1, <2>1, <2>2
<1>2. \A s \in Posted' : \E f \in outbox' : f.sale = s
  BY DEF OneEventPerRecord
<1>3. \A f, g \in outbox' : f.sale = g.sale => f = g
  BY DEF OneEventPerRecord
<1> QED
  BY <1>1, <1>2, <1>3 DEF OneEventPerRecord

LEMMA EventsNext == IInv /\ OneEventPerRecord /\ [Next]_books => OneEventPerRecord'
<1> SUFFICES ASSUME IInv, OneEventPerRecord, [Next]_books PROVE OneEventPerRecord'
  OBVIOUS
<1>0. TypeOK
  BY DEF IInv
<1>1. ASSUME NEW k \in Key, NEW c \in Command, NEW id \in SaleId, Complete(k, c, id)
      PROVE  OneEventPerRecord'
  <2> DEFINE e == [type |-> "sale.posted", sale |-> id, cause |-> k]
             x == <<"complete", k>>
  <2>1. /\ id \notin Posted /\ Posted' = Posted \cup {id}
        /\ \A s \in Posted : sales'[s] = sales[s] /\ rows'[s] = rows[s]
        /\ sales'[id] = SaleRecord(c)
        /\ rows'[id] = SaleRows(c, c.demand)
        /\ x \notin Claimed /\ Claimed' = Claimed \cup {x}
        /\ \A y \in Claimed : claims'[y] = claims[y]
        /\ claims'[x] = [request |-> c, result |-> id]
    BY <1>0, <1>1, CompleteWrites
  <2>2. outbox' = outbox \cup {e} /\ e \in Event
    BY <1>1 DEF Complete, PostSale, RecordEvents, Event
  <2>3. sales'[id].type = "SALE" /\ claims'[x].result = id /\ x[2] = k
    BY <2>1 DEF SaleRecord
  <2>4. \A s \in Posted : sales'[s].type = sales[s].type /\ sales'[s].of = sales[s].of
    BY <2>1
  <2>5. Claimed \subseteq Claimed' /\ x \in Claimed'
    BY <2>1
  <2>6. e.sale = id /\ e.type = "sale.posted" /\ e.cause = k
    OBVIOUS
  <2> HIDE DEF e, x
  <2> QED
    BY <2>1, <2>2, <2>3, <2>4, <2>5, <2>6, EventsFollow
<1>2. ASSUME NEW k \in Key, NEW s \in SaleId, NEW id \in SaleId, Reverse(k, s, id)
      PROVE  OneEventPerRecord'
  <2> DEFINE e == [type |-> "sale.reversed", sale |-> id, cause |-> s]
             x == <<"reverse", k>>
  <2>1. /\ s \in Posted /\ sales[s].type = "SALE" /\ sales[s].status = "POSTED"
        /\ id \notin Posted /\ Posted' = Posted \cup {id}
        /\ \A r \in Posted : rows'[r] = rows[r]
        /\ \A r \in Posted \ {s} : sales'[r] = sales[r]
        /\ sales'[s] = [sales[s] EXCEPT !.status = "REVERSED"]
        /\ sales'[id] = ReversalRecord(s)
        /\ rows'[id] = ReversalRows(rows[s])
        /\ x \notin Claimed /\ Claimed' = Claimed \cup {x}
        /\ \A y \in Claimed : claims'[y] = claims[y]
        /\ claims'[x] = [request |-> s, result |-> id]
    BY <1>0, <1>2, ReverseWrites
  <2>2. outbox' = outbox \cup {e} /\ e \in Event
    BY <1>2 DEF Reverse, PostReversal, RecordEvents, Event
  <2>3. /\ sales'[id].type = "REVERSAL" /\ sales'[id].of = s
        /\ claims'[x].result = id
    BY <2>1 DEF ReversalRecord
  <2>4. \A r \in Posted : sales'[r].type = sales[r].type /\ sales'[r].of = sales[r].of
    <3>1. sales[s] \in Record
      BY <1>0, <2>1 DEF TypeOK, Posted
    <3> QED BY <2>1, <3>1 DEF Record
  <2>5. Claimed \subseteq Claimed' /\ x \in Claimed'
    BY <2>1
  <2>6. e.sale = id /\ e.type = "sale.reversed" /\ e.cause = s
    OBVIOUS
  <2> HIDE DEF e, x
  <2> QED
    BY <2>1, <2>2, <2>3, <2>4, <2>5, <2>6, EventsFollow
<1>3. CASE Environment \/ UNCHANGED books
  <2>1. UNCHANGED <<sales, claims, outbox>>
    BY <1>3 DEF Environment, Receive, Settle, EditAccount, books
  <2> QED
    BY <2>1 DEF OneEventPerRecord, Posted, Claimed
<1> QED
  BY <1>1, <1>2, <1>3 DEF Next

\* Exactly one event announces each record, whatever is posted before or after.
THEOREM AnnouncedOnce == Spec => []OneEventPerRecord
<1>1. InitBooks => OneEventPerRecord
  BY DEF InitBooks, OneEventPerRecord, Posted, Claimed
<1> QED
  BY <1>1, EventsNext, Inductive, PTL DEF Spec

-----------------------------------------------------------------------------
(* Corrections *)

LEMMA PermanentStep == IInv /\ [Next]_books => [Permanent]_books
<1> SUFFICES ASSUME IInv, Next PROVE Permanent \/ UNCHANGED books
  OBVIOUS
<1>0. TypeOK
  BY DEF IInv
<1>1. ASSUME NEW k \in Key, NEW c \in Command, NEW id \in SaleId, Complete(k, c, id)
      PROVE  Permanent
  <2>1. /\ \A s \in Posted : sales'[s] = sales[s] /\ rows'[s] = rows[s]
        /\ \A y \in Claimed : claims'[y] = claims[y]
    BY <1>0, <1>1, CompleteWrites
  <2>2. outbox \subseteq outbox'
    BY <1>1 DEF Complete, PostSale, RecordEvents
  <2> QED BY <2>1, <2>2 DEF Permanent
<1>2. ASSUME NEW k \in Key, NEW s \in SaleId, NEW id \in SaleId, Reverse(k, s, id)
      PROVE  Permanent
  <2>1. /\ s \in Posted /\ sales[s].type = "SALE" /\ sales[s].status = "POSTED"
        /\ id \notin Posted /\ Posted' = Posted \cup {id}
        /\ \A r \in Posted : rows'[r] = rows[r]
        /\ \A r \in Posted \ {s} : sales'[r] = sales[r]
        /\ sales'[s] = [sales[s] EXCEPT !.status = "REVERSED"]
        /\ sales'[id] = ReversalRecord(s)
        /\ rows'[id] = ReversalRows(rows[s])
        /\ <<"reverse", k>> \notin Claimed
        /\ Claimed' = Claimed \cup {<<"reverse", k>>}
        /\ \A x \in Claimed : claims'[x] = claims[x]
        /\ claims'[<<"reverse", k>>] = [request |-> s, result |-> id]
    BY <1>0, <1>2, ReverseWrites
  <2>2. sales'[id] # NoSale /\ sales'[id].of = s
    <3>1. sales'[id] # NoSale
      BY <2>1 DEF Posted
    <3> QED BY <2>1, <3>1 DEF ReversalRecord
  <2>3. outbox \subseteq outbox'
    BY <1>2 DEF Reverse, PostReversal, RecordEvents
  <2> QED BY <2>1, <2>2, <2>3 DEF Permanent
<1>3. CASE Environment
  BY <1>3 DEF Environment, Receive, Settle, EditAccount, Permanent
<1> QED
  BY <1>1, <1>2, <1>3 DEF Next

\* Posted records, their ledger rows, claims and events are never rewritten:
\* the one change is the mark a linked reversal leaves.
THEOREM CorrectedByReversal == Spec => PostedIsPermanent
BY Inductive, PermanentStep, PTL DEF Spec, PostedIsPermanent

-----------------------------------------------------------------------------
(* The ledgers as sums.  Records are posted one at a time, so there are      *)
(* finitely many, and a posting changes each sum by the rows it writes.      *)

SumsInv ==
  /\ IsFiniteSet(Posted)
  /\ LedgersShowStandingSales
  /\ SubledgerEqualsControl

Moved(p) == [s \in Posted |-> rows[s].moved[p]]
Demanded(p) == [s \in Standing |-> sales[s].command.demand[p]]
Booked(a) == [s \in Standing |-> SaleJournal(sales[s].command)[a]]

TermsTyped ==
  /\ Standing \subseteq Posted
  /\ \A p \in Product : Moved(p) \in [Posted -> Int]
  /\ \A p \in Product : Demanded(p) \in [Standing -> Int]
  /\ \A a \in Account : Booked(a) \in [Standing -> Int]

\* What is summed is a number for each record.
LEMMA TermTypes == TypeOK => TermsTyped
<1> SUFFICES ASSUME TypeOK PROVE TermsTyped
  OBVIOUS
<1>1. \A s \in Posted : rows[s] \in Rows /\ sales[s].command \in Command
  BY DEF TypeOK, Posted, Record
<1>2. \A c \in Command : /\ c.demand \in [Product -> Nat]
                         /\ SaleJournal(c) \in [Account -> Int]
  <2>1. ASSUME NEW c \in Command PROVE SaleJournal(c) \in [Account -> Int]
    <3>1. c.demand \in [Product -> Nat]
      BY CommandAssumption
    <3>2. SaleRows(c, c.demand) \in Rows
      BY <3>1, SaleRowsType
    <3> QED BY <3>2 DEF SaleRows, Rows
  <2> QED BY <2>1, CommandAssumption
<1>3. Standing \subseteq Posted
  BY DEF Standing
<1> QED
  BY <1>1, <1>2, <1>3 DEF TermsTyped, Moved, Demanded, Booked, Rows

\* A sale stands from its completion on: it adds what its command calls for.
LEMMA CompleteSums ==
  ASSUME IInv, SumsInv, NEW k \in Key, NEW c \in Command, NEW id \in SaleId,
         Complete(k, c, id)
  PROVE  IsFiniteSet(Posted') /\ LedgersShowStandingSales'
<1>1. TypeOK /\ TypeOK'
  BY CompleteType DEF IInv
<1>0. TermsTyped /\ TermsTyped'
  BY <1>1, TermTypes, PTL
<1>2. /\ id \notin Posted /\ Posted' = Posted \cup {id}
      /\ \A s \in Posted : sales'[s] = sales[s] /\ rows'[s] = rows[s]
      /\ sales'[id] = SaleRecord(c)
      /\ rows'[id] = SaleRows(c, c.demand)
      /\ <<"complete", k>> \notin Claimed
      /\ Claimed' = Claimed \cup {<<"complete", k>>}
      /\ \A x \in Claimed : claims'[x] = claims[x]
      /\ claims'[<<"complete", k>>] = [request |-> c, result |-> id]
  BY <1>1, CompleteWrites
<1>3. Standing' = Standing \cup {id} /\ id \notin Standing
  BY <1>2 DEF Standing, SaleRecord
<1>4. IsFiniteSet(Posted) /\ IsFiniteSet(Standing)
  BY <1>0, FS_Subset DEF SumsInv, TermsTyped
<1>5. c.demand \in [Product -> Nat]
  BY CommandAssumption
<1>6. ASSUME NEW p \in Product
      PROVE  SumFunction(Moved(p)') = -SumFunction(Demanded(p)')
  <2>1. /\ Moved(p) \in [Posted -> Int] /\ Moved(p)' \in [Posted \cup {id} -> Int]
        /\ \A s \in Posted : Moved(p)'[s] = Moved(p)[s]
        /\ Moved(p)'[id] = -c.demand[p]
    BY <1>0, <1>2 DEF TermsTyped, Moved, SaleRows
  <2>2. /\ Demanded(p) \in [Standing -> Int]
        /\ Demanded(p)' \in [Standing \cup {id} -> Int]
        /\ \A s \in Standing : Demanded(p)'[s] = Demanded(p)[s]
        /\ Demanded(p)'[id] = c.demand[p]
    BY <1>0, <1>2, <1>3 DEF TermsTyped, Demanded, SaleRecord
  <2>3. SumFunction(Moved(p)') = -c.demand[p] + SumFunction(Moved(p))
    <3>1. SumFunction(Moved(p)') = Moved(p)'[id] + SumFunction(Moved(p))
      <4>1. id \notin Posted
        BY <1>2
      <4>2. /\ Moved(p) \in [Posted -> Int]
            /\ Moved(p)' \in [Posted \cup {id} -> Int]
            /\ \A r \in Posted : Moved(p)'[r] = Moved(p)[r]
        BY <2>1
      <4> QED BY <1>4, <4>1, <4>2, SumFunctionWith
    <3> QED BY <2>1, <3>1
  <2>4. SumFunction(Demanded(p)') = c.demand[p] + SumFunction(Demanded(p))
    BY <1>3, <1>4, <2>2, SumFunctionWith
  <2>5. SumFunction(Moved(p)) = -SumFunction(Demanded(p))
    BY DEF SumsInv, LedgersShowStandingSales, Moved, Demanded
  <2>6. SumFunction(Demanded(p)) \in Int /\ c.demand[p] \in Int
    BY <1>4, <1>5, <2>2, SumFunctionType
  <2> QED BY <2>3, <2>4, <2>5, <2>6
<1>7. ASSUME NEW a \in Account \ {"cash", "receivable"}
      PROVE  gl'[a] = SumFunction(Booked(a)')
  <2>1. gl'[a] = gl[a] + SaleJournal(c)[a]
    BY DEF Complete, PostSale, AppendRows, SaleRows
  <2>2. /\ Booked(a) \in [Standing -> Int]
        /\ Booked(a)' \in [Standing \cup {id} -> Int]
        /\ \A s \in Standing : Booked(a)'[s] = Booked(a)[s]
        /\ Booked(a)'[id] = SaleJournal(c)[a]
    BY <1>0, <1>2, <1>3 DEF TermsTyped, Booked, SaleRecord, Standing
  <2>3. SumFunction(Booked(a)') = SaleJournal(c)[a] + SumFunction(Booked(a))
    BY <1>3, <1>4, <2>2, SumFunctionWith
  <2>4. gl[a] = SumFunction(Booked(a))
    BY DEF SumsInv, LedgersShowStandingSales, Booked
  <2>5. SaleJournal(c)[a] \in Int /\ SumFunction(Booked(a)) \in Int
    BY <1>4, <2>2, SumFunctionType
  <2> QED BY <2>1, <2>3, <2>4, <2>5
<1>8. IsFiniteSet(Posted')
  BY <1>2, <1>4, FS_AddElement
<1> QED
  BY <1>6, <1>7, <1>8 DEF LedgersShowStandingSales, Moved, Demanded, Booked

\* A reversal takes its original out of the standing sales, and its rows take
\* back what the original's moved and booked.
LEMMA ReverseSums ==
  ASSUME IInv, SumsInv, NEW k \in Key, NEW s \in SaleId, NEW id \in SaleId,
         Reverse(k, s, id)
  PROVE  IsFiniteSet(Posted') /\ LedgersShowStandingSales'
<1> DEFINE c == sales[s].command
<1>1. TypeOK /\ TypeOK'
  BY ReverseType DEF IInv
<1>0. TermsTyped /\ TermsTyped'
  BY <1>1, TermTypes, PTL
<1>2. /\ s \in Posted /\ sales[s].type = "SALE" /\ sales[s].status = "POSTED"
      /\ id \notin Posted /\ Posted' = Posted \cup {id}
      /\ \A r \in Posted : rows'[r] = rows[r]
      /\ \A r \in Posted \ {s} : sales'[r] = sales[r]
      /\ sales'[s] = [sales[s] EXCEPT !.status = "REVERSED"]
      /\ sales'[id] = ReversalRecord(s)
      /\ rows'[id] = ReversalRows(rows[s])
      /\ <<"reverse", k>> \notin Claimed
      /\ Claimed' = Claimed \cup {<<"reverse", k>>}
      /\ \A x \in Claimed : claims'[x] = claims[x]
      /\ claims'[<<"reverse", k>>] = [request |-> s, result |-> id]
  BY <1>1, ReverseWrites
<1>3. s \in Standing /\ Standing' = Standing \ {s}
  <2>1. sales[s] \in Record
    BY <1>1, <1>2 DEF TypeOK, Posted
  <2>2. sales'[s].status = "REVERSED" /\ sales'[id].type = "REVERSAL"
    BY <1>2, <2>1 DEF Record, ReversalRecord
  <2>3. s \in Standing
    BY <1>2 DEF Standing
  <2>4. ASSUME NEW r \in SaleId PROVE r \in Standing' <=> r \in Standing \ {s}
    <3>1. CASE r = id \/ r = s
      BY <1>2, <2>2, <3>1 DEF Standing
    <3>2. CASE r # id /\ r # s
      <4>1. r \in Posted' <=> r \in Posted
        BY <1>2, <3>2
      <4>2. r \in Posted => sales'[r] = sales[r]
        BY <1>2, <3>2
      <4> QED BY <3>2, <4>1, <4>2 DEF Standing
    <3> QED BY <3>1, <3>2
  <2> QED BY <2>3, <2>4 DEF Standing, Posted
<1>4. IsFiniteSet(Posted) /\ IsFiniteSet(Standing')
  BY <1>0, <1>3, FS_Subset DEF SumsInv, TermsTyped
<1>5. /\ rows[s] = SaleRows(c, c.demand)
      /\ c \in Command /\ c.demand \in [Product -> Nat]
  <2>1. c \in Command
    BY <1>1, <1>2 DEF TypeOK, Posted, Record
  <2> QED BY <1>2, <2>1, CommandAssumption DEF IInv, RowsOfCommand
<1>6. \A r \in Standing' : r \in Standing /\ sales'[r] = sales[r] /\ r # s
  BY <1>2, <1>3 DEF Standing
<1>7. ASSUME NEW p \in Product
      PROVE  SumFunction(Moved(p)') = -SumFunction(Demanded(p)')
  <2>1. /\ Moved(p) \in [Posted -> Int] /\ Moved(p)' \in [Posted \cup {id} -> Int]
        /\ \A r \in Posted : Moved(p)'[r] = Moved(p)[r]
        /\ Moved(p)'[id] = -(-c.demand[p])
    BY <1>0, <1>2, <1>5 DEF TermsTyped, Moved, SaleRows, ReversalRows
  <2>2. /\ Demanded(p) \in [Standing' \cup {s} -> Int]
        /\ Demanded(p)' \in [Standing' -> Int]
        /\ \A r \in Standing' : Demanded(p)[r] = Demanded(p)'[r]
        /\ Demanded(p)[s] = c.demand[p]
    <3>1. Standing' \cup {s} = Standing
      BY <1>3
    <3> QED BY <1>0, <1>3, <1>6, <3>1 DEF TermsTyped, Demanded
  <2>3. SumFunction(Moved(p)') = -(-c.demand[p]) + SumFunction(Moved(p))
    <3>1. SumFunction(Moved(p)') = Moved(p)'[id] + SumFunction(Moved(p))
      <4>1. id \notin Posted
        BY <1>2
      <4>2. /\ Moved(p) \in [Posted -> Int]
            /\ Moved(p)' \in [Posted \cup {id} -> Int]
            /\ \A r \in Posted : Moved(p)'[r] = Moved(p)[r]
        BY <2>1
      <4> QED BY <1>4, <4>1, <4>2, SumFunctionWith
    <3> QED BY <2>1, <3>1
  <2>4. SumFunction(Demanded(p)) = c.demand[p] + SumFunction(Demanded(p)')
    <3>1. SumFunction(Demanded(p)) = Demanded(p)[s] + SumFunction(Demanded(p)')
      <4>1. s \notin Standing'
        BY <1>3
      <4>2. /\ Demanded(p) \in [Standing' \cup {s} -> Int]
            /\ Demanded(p)' \in [Standing' -> Int]
            /\ \A r \in Standing' : Demanded(p)[r] = Demanded(p)'[r]
        BY <2>2
      <4>3. IsFiniteSet(Standing')
        BY <1>4
      <4> QED BY <4>1, <4>2, <4>3, SumFunctionWith
    <3> QED BY <2>2, <3>1
  <2>5. SumFunction(Moved(p)) = -SumFunction(Demanded(p))
    BY DEF SumsInv, LedgersShowStandingSales, Moved, Demanded
  <2>6. SumFunction(Demanded(p)') \in Int /\ c.demand[p] \in Int
    BY <1>4, <1>5, <2>2, SumFunctionType
  <2> QED BY <2>3, <2>4, <2>5, <2>6
<1>8. ASSUME NEW a \in Account \ {"cash", "receivable"}
      PROVE  gl'[a] = SumFunction(Booked(a)')
  <2>1. gl'[a] = gl[a] + -SaleJournal(c)[a]
    BY <1>5 DEF Reverse, PostReversal, AppendRows, ReversalRows, SaleRows
  <2>2. /\ Booked(a) \in [Standing' \cup {s} -> Int]
        /\ Booked(a)' \in [Standing' -> Int]
        /\ \A r \in Standing' : Booked(a)[r] = Booked(a)'[r]
        /\ Booked(a)[s] = SaleJournal(c)[a]
    <3>1. Standing' \cup {s} = Standing
      BY <1>3
    <3> QED BY <1>0, <1>3, <1>6, <3>1 DEF TermsTyped, Booked
  <2>3. SumFunction(Booked(a)) = SaleJournal(c)[a] + SumFunction(Booked(a)')
    <3>1. SumFunction(Booked(a)) = Booked(a)[s] + SumFunction(Booked(a)')
      BY <1>3, <1>4, <2>2, SumFunctionWith
    <3> QED BY <2>2, <3>1
  <2>4. gl[a] = SumFunction(Booked(a))
    BY DEF SumsInv, LedgersShowStandingSales, Booked
  <2>5. SaleJournal(c)[a] \in Int /\ SumFunction(Booked(a)') \in Int
    <3>1. SumFunction(Booked(a)') \in Int
      BY <1>4, <2>2, SumFunctionType
    <3> QED BY <2>2, <3>1
  <2> QED BY <2>1, <2>3, <2>4, <2>5
<1>9. IsFiniteSet(Posted')
  BY <1>2, <1>4, FS_AddElement
<1> QED
  BY <1>7, <1>8, <1>9 DEF LedgersShowStandingSales, Moved, Demanded, Booked

\* What a customer comes to owe is debited to the control account.
LEMMA SubledgerMoves ==
  ASSUME TypeOK, SubledgerEqualsControl, NEW c \in Customer, NEW d \in Int,
         exposure' \in [Customer -> Int], exposure'[c] = exposure[c] + d,
         \A x \in Customer \ {c} : exposure[x] = exposure'[x],
         gl'["receivable"] = gl["receivable"] + d
  PROVE  SubledgerEqualsControl'
<1>1. exposure \in [Customer -> Int]
  BY DEF TypeOK
<1>2. SumFunction(exposure') = SumFunction(exposure) + d
  BY <1>1, CustomerAssumption, SumFunctionMoves
<1> QED
  BY <1>2 DEF SubledgerEqualsControl

LEMMA SumsNext == IInv /\ SumsInv /\ [Next]_books => SumsInv'
<1> SUFFICES ASSUME IInv, SumsInv, [Next]_books PROVE SumsInv'
  OBVIOUS
<1>0. TypeOK /\ "receivable" \in Account
  BY DEF IInv, Account
<1>1. ASSUME NEW k \in Key, NEW c \in Command, NEW id \in SaleId, Complete(k, c, id)
      PROVE  SumsInv'
  <2> DEFINE d == IF c.credit THEN Total(c) ELSE 0
  <2>1. c.customer \in Customer /\ d \in Int
    BY CommandAssumption DEF Total
  <2>2. /\ exposure' \in [Customer -> Int] /\ exposure'[c.customer] = exposure[c.customer] + d
        /\ \A x \in Customer \ {c.customer} : exposure[x] = exposure'[x]
        /\ gl'["receivable"] = gl["receivable"] + d
    BY <1>0, <1>1, <2>1 DEF Complete, PostSale, AppendRows, SaleRows, SaleJournal, TypeOK
  <2>3. SubledgerEqualsControl'
    <3> HIDE DEF d
    <3> QED BY <1>0, <2>1, <2>2, SubledgerMoves DEF SumsInv
  <2> QED BY <1>1, <2>3, CompleteSums DEF SumsInv
<1>2. ASSUME NEW k \in Key, NEW s \in SaleId, NEW id \in SaleId, Reverse(k, s, id)
      PROVE  SumsInv'
  <2> DEFINE c == sales[s].command
             d == -(IF c.credit THEN Total(c) ELSE 0)
  <2>1. /\ s \in Posted /\ sales[s].type = "SALE" /\ sales[s] \in Record
    BY <1>0, <1>2 DEF Reverse, Reversible, Posted, TypeOK
  <2>2. rows[s] = SaleRows(c, c.demand) /\ c.customer \in Customer /\ d \in Int
    BY <2>1, CommandAssumption DEF IInv, RowsOfCommand, Record, Total
  <2>3. /\ exposure' \in [Customer -> Int] /\ exposure'[c.customer] = exposure[c.customer] + d
        /\ \A x \in Customer \ {c.customer} : exposure[x] = exposure'[x]
        /\ gl'["receivable"] = gl["receivable"] + d
    <3> DEFINE rev == ReversalRows(rows[s])
    <3>1. /\ rev.owed = d
          /\ rev.journal["receivable"] = d
      BY <2>2 DEF ReversalRows, SaleRows, SaleJournal, Account
    <3>2. /\ exposure' = [exposure EXCEPT ![c.customer] = @ + rev.owed]
          /\ gl' = [a \in Account |-> gl[a] + rev.journal[a]]
      BY <1>2 DEF Reverse, PostReversal, AppendRows
    <3> HIDE DEF rev, d, c
    <3> QED BY <1>0, <2>2, <3>1, <3>2 DEF TypeOK, Account
  <2>4. SubledgerEqualsControl'
    <3> HIDE DEF c, d
    <3> QED BY <1>0, <2>2, <2>3, SubledgerMoves DEF SumsInv
  <2> QED BY <1>2, <2>4, ReverseSums DEF SumsInv
<1>3. ASSUME NEW c \in Customer, NEW a \in Payment, Settle(c, a)
      PROVE  SumsInv'
  <2>1. UNCHANGED <<sales, rows>> /\ -a \in Int
    BY <1>3, EnvironmentAssumption DEF Settle
  <2>2. /\ exposure' \in [Customer -> Int] /\ exposure'[c] = exposure[c] + -a
        /\ \A x \in Customer \ {c} : exposure[x] = exposure'[x]
        /\ gl'["receivable"] = gl["receivable"] + -a
        /\ \A b \in Account \ {"cash", "receivable"} : gl'[b] = gl[b]
    BY <1>0, <1>3, EnvironmentAssumption DEF Settle, TypeOK
  <2>3. SubledgerEqualsControl'
    BY <1>0, <2>1, <2>2, SubledgerMoves DEF SumsInv
  <2> QED
    BY <2>1, <2>2, <2>3 DEF SumsInv, LedgersShowStandingSales, Posted, Standing
<1>4. CASE UNCHANGED <<sales, rows, exposure, gl>>
  BY <1>4 DEF SumsInv, LedgersShowStandingSales, SubledgerEqualsControl, Posted, Standing
<1> QED
  BY <1>1, <1>2, <1>3, <1>4 DEF Next, Environment, Receive, EditAccount, books

LEMMA SumsInit == InitBooks => SumsInv
<1> SUFFICES ASSUME InitBooks PROVE SumsInv
  OBVIOUS
<1>1. Posted = {} /\ Standing = {} /\ IsFiniteSet(Posted)
  BY FS_EmptySet DEF InitBooks, Posted, Standing
<1>2. LedgersShowStandingSales
  <2>1. ASSUME NEW p \in Product
        PROVE  SumFunction(Moved(p)) = -SumFunction(Demanded(p))
    <3>1. DOMAIN Moved(p) = {} /\ DOMAIN Demanded(p) = {}
      BY <1>1 DEF Moved, Demanded
    <3>2. SumFunction(Moved(p)) = 0 /\ SumFunction(Demanded(p)) = 0
      BY <3>1, SumFunctionNone
    <3> QED BY <3>2, ZeroNegated, Zenon
  <2>2. ASSUME NEW a \in Account \ {"cash", "receivable"}
        PROVE  gl[a] = SumFunction(Booked(a))
    <3>1. DOMAIN Booked(a) = {}
      BY <1>1 DEF Booked
    <3>2. SumFunction(Booked(a)) = 0 /\ gl[a] = 0
      BY <3>1, SumFunctionNone DEF InitBooks
    <3> QED BY <3>2
  <2> QED
    BY <2>1, <2>2 DEF LedgersShowStandingSales, Moved, Demanded, Booked
<1>3. SubledgerEqualsControl
  <2>1. DOMAIN exposure = Customer /\ \A x \in Customer : exposure[x] = 0
    BY DEF InitBooks
  <2>2. SumFunction(exposure) = 0
    BY <2>1, CustomerAssumption, SumZero DEF SumFunction
  <2> QED
    BY <2>2 DEF SubledgerEqualsControl, InitBooks, Account
<1> QED
  BY <1>1, <1>2, <1>3 DEF SumsInv

LEMMA SumsKept == Spec => []SumsInv
BY Inductive, SumsInit, SumsNext, PTL DEF Spec

\* The stock ledger and the revenue, tax, cost and inventory accounts add up
\* to the sales that stand, however many were posted and reversed: a reversal
\* takes back all of its original and nothing of another sale.
THEOREM LedgersShowSales == Spec => []LedgersShowStandingSales
<1>1. SumsInv => LedgersShowStandingSales
  BY DEF SumsInv
<1> QED
  BY <1>1, SumsKept, PTL

\* What the customers owe in the subledger adds up to the receivable account,
\* after any sequence of credit sales, reversals and payments.
THEOREM SubledgerReconciles == Spec => []SubledgerEqualsControl
<1>1. SumsInv => SubledgerEqualsControl
  BY DEF SumsInv
<1> QED
  BY <1>1, SumsKept, PTL

-----------------------------------------------------------------------------
(* Credit *)

RaisedWithinLimit ==
  \A c \in Customer : exposure'[c] > exposure[c] => exposure'[c] <= account[c].limit

LEMMA CreditStep == IInv /\ [Next]_books => RaisedWithinLimit
<1> SUFFICES ASSUME IInv, [Next]_books, NEW d \in Customer, exposure'[d] > exposure[d]
    PROVE  exposure'[d] <= account[d].limit
  BY DEF RaisedWithinLimit
<1>0. TypeOK /\ exposure[d] \in Int
  BY DEF IInv, TypeOK
<1>1. ASSUME NEW k \in Key, NEW c \in Command, NEW id \in SaleId, Complete(k, c, id)
      PROVE  exposure'[d] <= account[d].limit
  <2>1. exposure' = [exposure EXCEPT ![c.customer] =
                       @ + (IF c.credit THEN Total(c) ELSE 0)]
    BY <1>1 DEF Complete, PostSale, AppendRows, SaleRows
  <2>2. d = c.customer /\ c.credit
    BY <1>0, <2>1 DEF TypeOK
  <2>3. exposure'[d] = exposure[d] + Total(c)
    BY <1>0, <2>1, <2>2 DEF TypeOK
  <2> QED BY <1>1, <2>2, <2>3 DEF Complete, WithinLimit
<1>2. ASSUME NEW k \in Key, NEW s \in SaleId, NEW id \in SaleId, Reverse(k, s, id)
      PROVE  FALSE
  <2> DEFINE c == sales[s].command
             owed == IF c.credit THEN Total(c) ELSE 0
  <2>1. /\ s \in Posted /\ sales[s].type = "SALE" /\ sales[s] \in Record
    BY <1>0, <1>2 DEF Reverse, Reversible, Posted, TypeOK
  <2>2. rows[s] = SaleRows(c, c.demand) /\ owed \in Nat
    BY <2>1, CommandAssumption DEF IInv, RowsOfCommand, Record, Total
  <2>3. exposure' = [exposure EXCEPT ![c.customer] = @ + -owed]
    BY <1>2, <2>2 DEF Reverse, PostReversal, AppendRows, ReversalRows, SaleRows
  <2> HIDE DEF owed
  <2>4. exposure'[d] = exposure[d] \/ exposure'[d] = exposure[d] + -owed
    BY <1>0, <2>3 DEF TypeOK
  <2>5. exposure[d] + -owed <= exposure[d]
    BY <1>0, <2>2
  <2> QED BY <1>0, <2>2, <2>4, <2>5
<1>3. ASSUME NEW c \in Customer, NEW a \in Payment, Settle(c, a)
      PROVE  FALSE
  BY <1>0, <1>3, EnvironmentAssumption DEF Settle, TypeOK
<1>4. CASE UNCHANGED exposure
  BY <1>0, <1>4
<1> QED
  BY <1>1, <1>2, <1>3, <1>4 DEF Next, Environment, Receive, EditAccount, books

\* A customer's exposure rises only by a credit sale, and only to within the
\* limit the account then has.
THEOREM CreditInLimit == Spec => [][RaisedWithinLimit]_books
BY Inductive, CreditStep, PTL DEF Spec
=============================================================================
