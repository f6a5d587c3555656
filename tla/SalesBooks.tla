----------------------------- MODULE SalesBooks -----------------------------
(***************************************************************************)
(* The tables a sale is posted to, and what posting writes in them         *)
(* (services/core-api/internal/sales/service.go over the tables of         *)
(* migrations/000001_core.up.sql).                                         *)
(*                                                                         *)
(* One tenant, one legal company and one warehouse: a Product stands for a *)
(* (warehouse, product) pair.  The append-only ledgers are kept twice, as  *)
(* the code uses them: by source (`rows`, what a reversal reads back) and  *)
(* by their SUM (`stock`, `exposure`, what a completion reads), with `gl`  *)
(* the sums of the journal lines by account.                               *)
(***************************************************************************)
EXTENDS Integers, FiniteSets, Functions

CONSTANTS
  Product,      \* products of the warehouse
  Customer,     \* customer accounts
  Key,          \* Idempotency-Key values clients send
  SaleId,       \* identifiers the generator can give to a sale record
  Command,      \* completion commands, as hashed: everything but key and trace
  Terms,        \* settings a customer account can have
  MaxStock,     \* bound: units the environment brings into the warehouse
  MinExposure,  \* bound: how far payments bring a customer's exposure down
  NoSale        \* "no such row"

\* A command carries what the per-line loop computes from it: the quantity it
\* asks of each product, its revenue (net), output tax and cost of goods sold.
\* Validate admits no empty sale, and no line of zero quantity.
ASSUME CommandAssumption ==
  \A c \in Command :
    /\ DOMAIN c = {"customer", "credit", "demand", "net", "tax", "cost"}
    /\ c.customer \in Customer /\ c.credit \in BOOLEAN
    /\ c.demand \in [Product -> Nat]
    /\ \E p \in Product : c.demand[p] > 0
    /\ c.net \in Nat \ {0} /\ c.tax \in Nat /\ c.cost \in Nat

ASSUME TermsAssumption ==
  \A t \in Terms :
    /\ DOMAIN t = {"active", "credit", "limit"}
    /\ t.active \in BOOLEAN /\ t.credit \in BOOLEAN /\ t.limit \in Nat

ASSUME CustomerAssumption == IsFiniteSet(Customer)

ASSUME BoundsAssumption == MaxStock \in Nat /\ MinExposure \in Int

VARIABLES
  sales,     \* sales: the record of each identifier, or NoSale
  rows,      \* stock, customer-ledger, payment and journal rows by source
  stock,     \* SUM(quantity) of inventory_stock_ledger
  exposure,  \* SUM(amount_minor) of customer_ledger
  gl,        \* SUM(debit - credit) of journal_lines
  claims,    \* idempotency_keys
  outbox,    \* outbox_events (an audit event is written beside each)
  account    \* customer_accounts: active, credit allowed, credit limit

books == <<sales, rows, stock, exposure, gl, claims, outbox, account>>

-----------------------------------------------------------------------------
(* Types *)

Op == {"complete", "reverse"}
Slot == Op \X Key
Account == {"cash", "receivable", "revenue", "tax", "cogs", "inventory"}

Record == [type : {"SALE", "REVERSAL"}, status : {"POSTED", "REVERSED"},
           of : SaleId \cup {NoSale}, command : Command]
Rows == [moved : [Product -> Int], owed : Int, paid : Int,
         journal : [Account -> Int]]
Claim == [request : Command \cup SaleId, result : SaleId]
Event == [type : {"sale.posted", "sale.reversed"}, sale : SaleId,
          cause : Key \cup SaleId]

\* NoSale is the absence of a row, no identifier and no row.
ASSUME NoSaleAssumption == NoSale \notin SaleId \cup Record \cup Claim

Posted == {s \in SaleId : sales[s] # NoSale}
Claimed == {x \in Slot : claims[x] # NoSale}

-----------------------------------------------------------------------------
(* What posting writes *)

Total(c) == c.net + c.tax

NoRows == [moved |-> [p \in Product |-> 0], owed |-> 0, paid |-> 0,
           journal |-> [a \in Account |-> 0]]

\* Faulty variant: the output tax line is forgotten.
SaleJournalWithoutTax(c) ==
  [a \in Account |->
     CASE a = "cash"       -> IF c.credit THEN 0 ELSE Total(c)
       [] a = "receivable" -> IF c.credit THEN Total(c) ELSE 0
       [] a = "revenue"    -> -c.net
       [] a = "tax"        -> 0
       [] a = "cogs"       -> c.cost
       [] a = "inventory"  -> -c.cost]

\* Debits are positive.  Cost lines are left out when the cost is zero, tax
\* when the tax is: a zero entry here.
SaleJournal(c) ==
  [a \in Account |->
     CASE a = "cash"       -> IF c.credit THEN 0 ELSE Total(c)
       [] a = "receivable" -> IF c.credit THEN Total(c) ELSE 0
       [] a = "revenue"    -> -c.net
       [] a = "tax"        -> -c.tax
       [] a = "cogs"       -> c.cost
       [] a = "inventory"  -> -c.cost]

\* taken is what the lines drew from each product, one movement a line.
SaleRows(c, taken) ==
  [moved   |-> [p \in Product |-> -taken[p]],
   owed    |-> IF c.credit THEN Total(c) ELSE 0,
   paid    |-> IF c.credit THEN 0 ELSE Total(c),
   journal |-> SaleJournal(c)]

\* Faulty variants: the goods do not come back; the customer is left owing.
ReversalRowsWithoutStock(r) ==
  [moved   |-> [p \in Product |-> 0],
   owed    |-> -r.owed,
   paid    |-> -r.paid,
   journal |-> [a \in Account |-> -r.journal[a]]]
ReversalRowsWithoutLedger(r) ==
  [moved   |-> [p \in Product |-> -r.moved[p]],
   owed    |-> 0,
   paid    |-> -r.paid,
   journal |-> [a \in Account |-> -r.journal[a]]]

\* A reversal negates every stock, customer-ledger and payment row of its
\* original and swaps the sides of its journal.
ReversalRows(r) ==
  [moved   |-> [p \in Product |-> -r.moved[p]],
   owed    |-> -r.owed,
   paid    |-> -r.paid,
   journal |-> [a \in Account |-> -r.journal[a]]]

SaleRecord(c) ==
  [type |-> "SALE", status |-> "POSTED", of |-> NoSale, command |-> c]

ReversalRecord(s) ==
  [type |-> "REVERSAL", status |-> "POSTED", of |-> s,
   command |-> sales[s].command]

AppendRows(id, c, r) ==
  /\ rows' = [rows EXCEPT ![id] = r]
  /\ stock' = [p \in Product |-> stock[p] + r.moved[p]]
  /\ exposure' = [exposure EXCEPT ![c] = @ + r.owed]
  /\ gl' = [a \in Account |-> gl[a] + r.journal[a]]

\* Faulty variant: the key is marked complete and its result is not stored.
ClaimWithoutResult(x, request, id) ==
  claims' = [claims EXCEPT ![x] = [request |-> request, result |-> NoSale]]

CompleteIdempotency(x, request, id) ==
  claims' = [claims EXCEPT ![x] = [request |-> request, result |-> id]]

\* Faulty variant: reversals are not announced.
RecordSalesOnly(type, id, cause) ==
  outbox' = IF type = "sale.posted"
            THEN outbox \cup {[type |-> type, sale |-> id, cause |-> cause]}
            ELSE outbox

RecordEvents(type, id, cause) ==
  outbox' = outbox \cup {[type |-> type, sale |-> id, cause |-> cause]}

\* The writes of a completion, with no check of their own.
PostSale(k, c, taken, id) ==
  /\ sales' = [sales EXCEPT ![id] = SaleRecord(c)]
  /\ AppendRows(id, c.customer, SaleRows(c, taken))
  /\ RecordEvents("sale.posted", id, k)
  /\ CompleteIdempotency(<<"complete", k>>, c, id)

\* Faulty variant: the original is linked to its reversal as well.
PostReversalLinkedBack(k, s, id) ==
  /\ sales' = [sales EXCEPT ![id] = ReversalRecord(s),
                            ![s].status = "REVERSED", ![s].of = id]
  /\ AppendRows(id, sales[s].command.customer, ReversalRows(rows[s]))
  /\ RecordEvents("sale.reversed", id, s)
  /\ CompleteIdempotency(<<"reverse", k>>, s, id)

\* The writes of a reversal: MarkSaleReversed is the update of the original.
PostReversal(k, s, id) ==
  /\ sales' = [sales EXCEPT ![id] = ReversalRecord(s), ![s].status = "REVERSED"]
  /\ AppendRows(id, sales[s].command.customer, ReversalRows(rows[s]))
  /\ RecordEvents("sale.reversed", id, s)
  /\ CompleteIdempotency(<<"reverse", k>>, s, id)

InitBooks ==
  /\ sales = [s \in SaleId |-> NoSale]
  /\ rows = [s \in SaleId |-> NoRows]
  /\ stock = [p \in Product |-> 0]
  /\ exposure = [c \in Customer |-> 0]
  /\ gl = [a \in Account |-> 0]
  /\ claims = [x \in Slot |-> NoSale]
  /\ outbox = {}
  /\ account \in [Customer -> Terms]

-----------------------------------------------------------------------------
(* What other services write in the tables sales are checked against.  None  *)
(* of them is in the repository: goods received, a customer's payment, and   *)
(* the maintenance of a customer account.                                    *)

Receive(p, n) ==
  /\ stock[p] + n <= MaxStock
  /\ stock' = [stock EXCEPT ![p] = @ + n]
  /\ UNCHANGED <<sales, rows, exposure, gl, claims, outbox, account>>

\* "negative amounts for payments": a receivable turns into cash.
Settle(c, amount) ==
  /\ exposure[c] - amount >= MinExposure
  /\ exposure' = [exposure EXCEPT ![c] = @ - amount]
  /\ gl' = [gl EXCEPT !["receivable"] = @ - amount, !["cash"] = @ + amount]
  /\ UNCHANGED <<sales, rows, stock, claims, outbox, account>>

EditAccount(c, t) ==
  /\ account[c] # t
  /\ account' = [account EXCEPT ![c] = t]
  /\ UNCHANGED <<sales, rows, stock, exposure, gl, claims, outbox>>

-----------------------------------------------------------------------------
(* What the books promise *)

TypeOK ==
  /\ sales \in [SaleId -> Record \cup {NoSale}]
  /\ rows \in [SaleId -> Rows]
  /\ stock \in [Product -> Int]
  /\ exposure \in [Customer -> Int]
  /\ gl \in [Account -> Int]
  /\ claims \in [Slot -> Claim \cup {NoSale}]
  /\ outbox \subseteq Event
  /\ account \in [Customer -> Terms]

\* No interleaving of sales, reversals and receipts oversells a product: the
\* available quantity service.go:144 compares with is still there when the
\* movement is written.
StockNeverNegative == \A p \in Product : stock[p] >= 0

\* A sale is marked REVERSED exactly when one reversal names it, and a
\* reversal is never itself reversed: MarkSaleReversed, the status test and
\* the index one_reversal_per_sale agree.
OneReversalPerSale ==
  /\ \A s \in Posted : sales[s].of # NoSale =>
       /\ sales[s].type = "REVERSAL" /\ sales[s].status = "POSTED"
       /\ sales[s].of \in Posted /\ sales[sales[s].of].type = "SALE"
       /\ sales[sales[s].of].status = "REVERSED"
       /\ \A r \in Posted : sales[r].of = sales[s].of => r = s
  /\ \A s \in Posted : sales[s].status = "REVERSED" =>
       \E r \in Posted : sales[r].of = s

\* What the ledgers add up to is the sales that stand: every stock movement
\* and every revenue, tax, cost and inventory line of a reversed sale has been
\* taken back in full, and nothing of a standing one.
Standing == {s \in Posted : sales[s].type = "SALE" /\ sales[s].status = "POSTED"}
LedgersShowStandingSales ==
  /\ \A p \in Product :
       SumFunction([s \in Posted |-> rows[s].moved[p]])
         = -SumFunction([s \in Standing |-> sales[s].command.demand[p]])
  /\ \A a \in Account \ {"cash", "receivable"} :
       gl[a] = SumFunction([s \in Standing |-> SaleJournal(sales[s].command)[a]])

\* Debits equal credits over the whole general ledger, after any sequence of
\* cash and credit sales, reversals and settlements (Journal.Validate and the
\* trigger enforce_balanced_journal look at one journal at a time).
DebitsEqualCredits ==
  gl["cash"] + gl["receivable"] + gl["revenue"] + gl["tax"]
    + gl["cogs"] + gl["inventory"] = 0

\* The customer subledger equals its control account in the general ledger.
SubledgerEqualsControl ==
  gl["receivable"] = SumFunction(exposure)

\* A key posts once and only once: each record is the result of exactly one
\* claim, and that claim's request is the one the record carries out.
OneClaimPerRecord ==
  /\ \A x \in Claimed :
       LET id == claims[x].result IN
         /\ id \in Posted
         /\ x[1] = "complete" => /\ sales[id].type = "SALE"
                                 /\ sales[id].command = claims[x].request
         /\ x[1] = "reverse"  => /\ sales[id].type = "REVERSAL"
                                 /\ sales[id].of = claims[x].request
  /\ \A s \in Posted : \E x \in Claimed : claims[x].result = s
  /\ \A x, y \in Claimed : claims[x].result = claims[y].result => x = y

\* One event for each record, of its kind, with the key or the sale that
\* caused it: nothing is announced that was not posted, nothing posted is
\* left unannounced.
OneEventPerRecord ==
  /\ \A e \in outbox :
       /\ e.sale \in Posted
       /\ e.type = "sale.posted" =>
            /\ sales[e.sale].type = "SALE"
            /\ \E x \in Claimed : claims[x].result = e.sale /\ e.cause = x[2]
       /\ e.type = "sale.reversed" =>
            /\ sales[e.sale].type = "REVERSAL"
            /\ e.cause = sales[e.sale].of
  /\ \A s \in Posted : \E e \in outbox : e.sale = s
  /\ \A e, f \in outbox : e.sale = f.sale => e = f

\* Posted records are corrected by linked reversal only: a record's one change
\* is POSTED to REVERSED in the step that posts its reversal, and ledger
\* rows, claims and events stay as written.
Permanent ==
  /\ \A s \in Posted :
       /\ rows'[s] = rows[s]
       /\ \/ sales'[s] = sales[s]
          \/ /\ sales[s].status = "POSTED"
             /\ sales'[s] = [sales[s] EXCEPT !.status = "REVERSED"]
             /\ \E r \in SaleId \ Posted :
                  sales'[r] # NoSale /\ sales'[r].of = s
  /\ \A x \in Claimed : claims'[x] = claims[x]
  /\ outbox \subseteq outbox'
PostedIsPermanent == [][Permanent]_books
=============================================================================
