---------------------------- MODULE MemoryStore ----------------------------
(***************************************************************************)
(* The sales service over the in-memory store, from the HTTP handler to    *)
(* the tables (internal/httpapi/handler.go, internal/sales/service.go,     *)
(* internal/platform/store/memory/store.go).  A request takes the mutex,   *)
(* works statement by statement on a clone of the tables, and puts the     *)
(* clone in their place, unless a check, the identifier generator or the   *)
(* request's context stopped it.  Amounts are int64 (see Money).           *)
(*                                                                         *)
(* Requests are numbered as they arrive, and a sale posted by request n    *)
(* has the identifier n: the generator never gives one twice.              *)
(***************************************************************************)
EXTENDS Money, Sequences, FiniteSetsExt

CONSTANTS
  Product, Customer, Key, Terms, Receipt,  \* as in SalesLedger
  Order,        \* bodies of POST /v1/sales: customer, credit, lines
  Catalog,      \* Catalog[p]: active, currency, price, cost, rate
  Permitted,    \* the operations the actor has a permission for
  MaxRequests,  \* bound: requests that arrive
  KeysOf,       \* the keys the client of each request may send
  MaxStock,     \* bound: units seeded of a product
  MaxFaults,    \* bound: contexts cancelled and identifiers not generated
  NoSale        \* "no such row", "no transaction", "no result"

\* What the CHECKs of the schema ask of products and tax rates.
ASSUME CatalogAssumption ==
  /\ Catalog \in [Product -> [active : BOOLEAN, currency : STRING, price : Amount \ {0},
                              cost : Amount, rate : 0..Scale]]
  /\ Scale <= MaxInt

Request == 1..MaxRequests
SaleId == Request
Op == {"complete", "reverse", "read"}

ASSUME RequestAssumption ==
  /\ MaxRequests \in Nat /\ KeysOf \in [Request -> SUBSET Key]
  /\ Order \subseteq [customer : Customer, credit : BOOLEAN,
                      lines : Seq([product : Product, quantity : -(MaxInt + 1)..MaxInt])]
ASSUME SeedAssumption ==
  /\ Receipt \subseteq Nat /\ MaxStock \in Nat /\ MaxFaults \in Nat
  /\ IsFiniteSet(Customer)
  /\ \A t \in Terms : t \in [active : BOOLEAN, credit : BOOLEAN, limit : Nat]

-----------------------------------------------------------------------------
(* The tables *)

Accounts == {"cash", "receivable", "revenue", "tax", "cogs", "inventory"}

SaleRow == [type : {"SALE", "REVERSAL"}, status : {"POSTED", "REVERSED"},
            of : SaleId \cup {NoSale}, customer : Customer, credit : BOOLEAN,
            lines : Seq([product : Product, quantity : Amount \ {0}]),
            subtotal : Amount, tax : Amount, total : Amount, cogs : Amount]
Movement == [source : Request \cup {0}, line : Nat, product : Product, quantity : Int]
LedgerRow == [source : Request, customer : Customer, amount : Int]
PaymentRow == [sale : Request, amount : Int]
JournalEntry == [account : Accounts, debit : Amount, credit : Amount]
Journal == [source : Request, entries : Seq(JournalEntry)]
Event == [type : {"sale.posted", "sale.reversed"}, sale : Request, cause : Key \cup SaleId]
KeySlot == {"complete", "reverse"} \X Key
KeyRow == [request : Order, result : SaleId \cup {NoSale}]
            \cup [request : SaleId, result : SaleId \cup {NoSale}]

Tables ==
  [customers : [Customer -> Terms], open : BOOLEAN,
   sales : [SaleId -> SaleRow \cup {NoSale}], movements : SUBSET Movement,
   ledger : SUBSET LedgerRow, payments : SUBSET PaymentRow,
   journals : SUBSET Journal, outbox : SUBSET Event,
   idempotencies : [KeySlot -> KeyRow \cup {NoSale}]]

VARIABLES
  state,  \* Store.state: the tables
  shown,  \* the books it shows: always Books(state), summed once a step
  next,   \* the clone the transaction works on
  mu,     \* Store.mu: the request that holds it, or 0
  sale,   \* the variables of the callback: what the lines add up to
  req,    \* each request: where its handler is, and its answer
  faults

vars == <<state, shown, next, mu, sale, req, faults>>

NoSums == [lines |-> <<>>, currency |-> NoSale, subtotal |-> 0, tax |-> 0,
           total |-> 0, cogs |-> 0, entries |-> <<>>]

Unsent == [at |-> "unsent", op |-> "read", key |-> NoSale, arg |-> NoSale,
           cancelled |-> FALSE, result |-> NoSale, err |-> "none"]

newState(accounts) ==
  [customers |-> accounts, open |-> TRUE, sales |-> [s \in SaleId |-> NoSale],
   movements |-> {}, ledger |-> {}, payments |-> {}, journals |-> {},
   outbox |-> {}, idempotencies |-> [x \in KeySlot |-> NoSale]]

-----------------------------------------------------------------------------
(* What the tables amount to in the terms of SalesLedger *)

Demand(lines) ==
  [p \in Product |-> SumFunction(
     [i \in DOMAIN lines |-> IF lines[i].product = p THEN lines[i].quantity ELSE 0])]

\* What an order costs when numbers have no end.
Net(line) == Catalog[line.product].price * line.quantity
Tax(line) == ExactTax(Net(line), Catalog[line.product].rate)
Cost(line) == Catalog[line.product].cost * line.quantity

Exact(o) ==
  [customer |-> o.customer, credit |-> o.credit, demand |-> Demand(o.lines),
   net |-> SumFunction([i \in DOMAIN o.lines |-> Net(o.lines[i])]),
   tax |-> SumFunction([i \in DOMAIN o.lines |-> Tax(o.lines[i])]),
   cost |-> SumFunction([i \in DOMAIN o.lines |-> Cost(o.lines[i])])]

\* What Validate lets through.
Wanted(o) == o.lines # <<>> /\ \A i \in DOMAIN o.lines : o.lines[i].quantity > 0

Commands == {Exact(o) : o \in {o \in Order : Wanted(o)}}

Recorded(row) ==
  [customer |-> row.customer, credit |-> row.credit, demand |-> Demand(row.lines),
   net |-> row.subtotal, tax |-> row.tax, cost |-> row.cogs]

Posting(entries, account) ==
  SumFunction([i \in DOMAIN entries |-> IF entries[i].account = account
                                        THEN entries[i].debit - entries[i].credit ELSE 0])
Balance(journals, account) == SumFunction([j \in journals |-> Posting(j.entries, account)])

Moved(rows, p) ==
  SumFunction([row \in rows |-> IF row.product = p THEN row.quantity ELSE 0])
Owed(rows, c) ==
  SumFunction([row \in rows |-> IF row.customer = c THEN row.amount ELSE 0])
Amounts(rows) == SumFunction([row \in rows |-> row.amount])

Books(t) ==
  [sales |-> [s \in SaleId |->
     IF t.sales[s] = NoSale THEN NoSale
     ELSE [type |-> t.sales[s].type, status |-> t.sales[s].status,
           of |-> t.sales[s].of, command |-> Recorded(t.sales[s])]],
   rows |-> [s \in SaleId |->
     LET moved == {row \in t.movements : row.source = s}
         posted == {j \in t.journals : j.source = s} IN
     [moved |-> [p \in Product |-> Moved(moved, p)],
      owed |-> Amounts({row \in t.ledger : row.source = s}),
      paid |-> Amounts({row \in t.payments : row.sale = s}),
      journal |-> [a \in Accounts |-> Balance(posted, a)]]],
   stock |-> [p \in Product |-> Moved(t.movements, p)],
   exposure |-> [c \in Customer |-> Owed(t.ledger, c)],
   gl |-> [a \in Accounts |-> Balance(t.journals, a)],
   claims |-> [x \in DOMAIN t.idempotencies |->
     IF t.idempotencies[x] = NoSale \/ x[1] # "complete" THEN t.idempotencies[x]
     ELSE [t.idempotencies[x] EXCEPT !.request = Exact(@)]]]

Ledger == INSTANCE SalesLedger WITH
  Command <- Commands, Payment <- {}, MinExposure <- 0,
  sales <- shown.sales, rows <- shown.rows, stock <- shown.stock,
  exposure <- shown.exposure, gl <- shown.gl, claims <- shown.claims,
  outbox <- state.outbox, account <- state.customers

\* NoSale is the absence of a row, here and in the books.
ASSUME NoSaleAssumption ==
  /\ NoSale \notin Request \cup SaleRow \cup KeyRow \cup Tables
  /\ NoSale \notin Ledger!Record
  /\ NoSale \notin [type : {"SALE", "REVERSAL"}, status : {"POSTED", "REVERSED"},
                    of : SaleId \cup {NoSale},
                    command : [customer : Customer, credit : BOOLEAN, demand : [Product -> Nat],
                               net : Nat, tax : Nat, cost : Nat]]
  /\ NoSale \notin [request : Commands, result : SaleId]

Store(t) == state' = t /\ shown' = Books(t)

Init ==
  /\ \E accounts \in [Customer -> Terms] : state = newState(accounts)
  /\ shown = Books(state)
  /\ next = NoSale /\ mu = 0 /\ sale = NoSums
  /\ req = [n \in Request |-> Unsent]
  /\ faults = 0

-----------------------------------------------------------------------------
(* Requests and their answers *)

At(n, place) == req[n].at = place

Slot(n) == <<req[n].op, req[n].key>>

\* Requests are numbered in the order they arrive.
Send(n, op, key, arg) ==
  /\ At(n, "unsent") /\ \A m \in Request : m < n => ~At(m, "unsent")
  /\ req' = [req EXCEPT ![n] = [Unsent EXCEPT !.at = "arrived", !.op = op,
                                              !.key = key, !.arg = arg]]
  /\ UNCHANGED <<state, shown, next, mu, sale, faults>>

\* CompleteCommand.Validate; the other commands have nothing to get wrong here.
Valid(n) == req[n].op = "complete" => Wanted(req[n].arg)

\* The status each error is answered with.
writeError(err) ==
  CASE err = "not_found" -> 404
    [] err = "forbidden" -> 403
    [] err \in {"idempotency_conflict", "insufficient_stock", "period_closed",
                "already_reversed"} -> 409
    [] err \in {"customer_inactive", "credit_disabled", "credit_limit",
                "product_inactive"} -> 422
    [] err = "invalid_command" -> 400
    [] OTHER -> 500

Status(n) ==
  IF req[n].err # "none" THEN writeError(req[n].err)
  ELSE IF req[n].op = "read" THEN 200 ELSE 201

Refuse(n, err) ==
  req' = [req EXCEPT ![n].at = "answered", ![n].err = err, ![n].result = NoSale]

\* Before WithTransaction: the command is validated, the context looked at.
Arrive(n) ==
  /\ At(n, "arrived")
  /\ \/ ~Valid(n) /\ Refuse(n, "invalid_command")
     \/ Valid(n) /\ req[n].cancelled /\ Refuse(n, "cancelled")
     \/ Valid(n) /\ ~req[n].cancelled /\ req' = [req EXCEPT ![n].at = "locking"]
  /\ UNCHANGED <<state, shown, next, mu, sale, faults>>

\* Faulty variant: cloneState forgets to copy the map of idempotency keys.
ClonedButKeys == DOMAIN state \ {"idempotencies"}

\* The tables that cloneState copies; one it did not would be the same map,
\* and a write to the clone a write to the store.
Cloned == DOMAIN state

\* s.mu.Lock() waits for the mutex and not for the context.
Lock(n) ==
  /\ At(n, "locking") /\ mu = 0
  /\ mu' = n /\ next' = state
  /\ req' = [req EXCEPT ![n].at = IF req[n].op = "read" THEN "read" ELSE "claim"]
  /\ UNCHANGED <<state, shown, sale, faults>>

\* The callback has written its clone, now t, and goes on, or returns result.
Write(t) ==
  /\ next' = t
  /\ IF Cloned = DOMAIN state THEN UNCHANGED <<state, shown>>
     ELSE Store([table \in DOMAIN state |->
                   IF table \in Cloned THEN state[table] ELSE t[table]])
  /\ UNCHANGED <<mu, faults>>
Continue(n, place, t) == Write(t) /\ req' = [req EXCEPT ![n].at = place]
Return(n, t, result) ==
  /\ Write(t) /\ UNCHANGED sale
  /\ req' = [req EXCEPT ![n].at = "end", ![n].result = result]

\* Faulty variant: a transaction that failed is tried again.
FailRetried(n, err) ==
  /\ req' = [req EXCEPT ![n].at = "locking"]
  /\ mu' = 0 /\ next' = NoSale /\ sale' = NoSums
  /\ UNCHANGED <<state, shown, faults>>

\* The callback returns an error: the clone is dropped, the mutex released.
Fail(n, err) ==
  /\ Refuse(n, err)
  /\ mu' = 0 /\ next' = NoSale /\ sale' = NoSums
  /\ UNCHANGED <<state, shown, faults>>

\* tests is a list of <<does it fail, error>>, in the order of the code's early
\* returns; Pass when none fails.
FirstError(tests) ==
  LET failed == {i \in DOMAIN tests : tests[i][1]} IN
  IF failed = {} THEN "none" ELSE tests[Min(failed)][2]

Unless(n, tests, Pass) ==
  LET err == FirstError(tests) IN
  IF err = "none" THEN Pass ELSE Fail(n, err)

-----------------------------------------------------------------------------
(* The callback of Complete *)

\* Authorize, then ClaimIdempotency and the replay of what it finds.
Claim(n) ==
  LET found == next.idempotencies[Slot(n)]
      claimed == [next EXCEPT !.idempotencies[Slot(n)] =
                    [request |-> req[n].arg, result |-> NoSale]] IN
  /\ At(n, "claim")
  /\ Unless(n,
       << <<req[n].op \notin Permitted, "forbidden">>,
          <<found # NoSale /\ found.request # req[n].arg, "idempotency_conflict">>,
          <<found # NoSale /\ found.result = NoSale, "no committed result">>,
          <<found # NoSale /\ next.sales[found.result] = NoSale, "not_found">> >>,
       \/ found # NoSale /\ Return(n, next, found.result)
       \/ /\ found = NoSale /\ UNCHANGED sale
          /\ Continue(n, IF req[n].op = "complete" THEN "screen" ELSE "original", claimed))

\* Customer and fiscal period.  Posting accounts are all configured.
Screen(n) ==
  LET account == next.customers[req[n].arg.customer] IN
  /\ At(n, "screen")
  /\ Unless(n,
       << <<~account.active, "customer_inactive">>,
          <<req[n].arg.credit /\ ~account.credit, "credit_disabled">>,
          <<~next.open, "period_closed">> >>,
       Continue(n, "line", next) /\ UNCHANGED sale)

AvailableStock(p) == Moved(next.movements, p)

Entry(account, debit, credit) == [account |-> account, debit |-> debit, credit |-> credit]

\* The amounts of each line an order may have, as the line loop computes them.
Price ==
  [line \in UNION {{o.lines[i] : i \in DOMAIN o.lines} : o \in Order} |->
     LET product == Catalog[line.product]
         subtotal == checkedMultiply(product.price, line.quantity)
         tax == taxAmount(subtotal, product.rate) IN
     [subtotal |-> subtotal, tax |-> tax, total |-> checkedAdd(subtotal, tax),
      cogs |-> checkedMultiply(product.cost, line.quantity)]]

\* One line: its product, stock and amounts, the running totals, the movement
\* and the journal entries.
TakeLine(n) ==
  LET i == Len(sale.lines) + 1
      line == req[n].arg.lines[i]
      product == Catalog[line.product]
      price == Price[line]
      sums == [sale EXCEPT
        !.lines = Append(@, line), !.currency = product.currency,
        !.subtotal = checkedAdd(@, price.subtotal), !.tax = checkedAdd(@, price.tax),
        !.total = checkedAdd(@, price.total), !.cogs = checkedAdd(@, price.cogs),
        !.entries = @ \o << Entry("revenue", 0, price.subtotal) >> \o
          IF price.cogs > 0
          THEN << Entry("cogs", price.cogs, 0), Entry("inventory", 0, price.cogs) >>
          ELSE << >>]
      movement == [source |-> n, line |-> i, product |-> line.product,
                   quantity |-> -line.quantity] IN
  /\ At(n, "line")
  /\ Unless(n,
       << <<~product.active, "product_inactive">>,
          <<sale.currency \notin {NoSale, product.currency}, "invalid_command">>,
          <<AvailableStock(line.product) < line.quantity, "insufficient_stock">>,
          <<Overflow \in {sums.subtotal, sums.tax, sums.total, sums.cogs}, "overflow">> >>,
       /\ sale' = sums
       /\ Continue(n, IF i = Len(req[n].arg.lines) THEN "charge" ELSE "line",
                   [next EXCEPT !.movements = @ \cup {movement}]))

CreditExposure(c) == Owed(next.ledger, c)

\* A credit sale is put on the customer's ledger within the limit, a cash sale
\* is paid; the journal gets its debit first and the output tax last.
Charge(n) ==
  LET order == req[n].arg
      exposure == checkedAdd(CreditExposure(order.customer), sale.total)
      owed == [source |-> n, customer |-> order.customer, amount |-> sale.total]
      paid == [sale |-> n, amount |-> sale.total] IN
  /\ At(n, "charge")
  /\ Unless(n,
       << <<order.credit /\ exposure = Overflow, "overflow">>,
          <<order.credit /\ exposure > next.customers[order.customer].limit,
            "credit_limit">> >>,
       /\ sale' = [sale EXCEPT !.entries =
            << Entry(IF order.credit THEN "receivable" ELSE "cash", sale.total, 0) >>
            \o @ \o IF sale.tax > 0 THEN << Entry("tax", 0, sale.tax) >> ELSE << >>]
       /\ Continue(n, "post",
            IF order.credit THEN [next EXCEPT !.ledger = @ \cup {owed}]
                            ELSE [next EXCEPT !.payments = @ \cup {paid}]))

\* Journal.Validate: every entry has one positive side, and the sides balance
\* as int64 sums (each addition wraps: WrapAdd of Money).
Validate(entries) ==
  LET Side(side) == AsInt64(SumFunction([i \in DOMAIN entries |-> entries[i][side]])) IN
  /\ Len(entries) >= 2
  /\ \A i \in DOMAIN entries :
       /\ entries[i].debit >= 0 /\ entries[i].credit >= 0
       /\ (entries[i].debit = 0) # (entries[i].credit = 0)
  /\ Balances(Side("debit"), Side("credit"))

\* What may be wrong with the last writes of a request.
PostErrors(n, entries) ==
  << <<~Validate(entries), "unbalanced">>,
     <<next.sales[n] # NoSale, "duplicate sale id">>,
     <<\E j \in next.journals : j.source = n, "duplicate journal">>,
     <<next.idempotencies[Slot(n)] # [request |-> req[n].arg, result |-> NoSale],
       "invalid idempotency completion">> >>

\* Faulty variant: the key is completed without its result.
PostedWithoutResult(n, row, entries, event) ==
  [next EXCEPT
     !.sales[n] = row,
     !.journals = @ \cup {[source |-> n, entries |-> entries]},
     !.outbox = @ \cup {event}]

\* CreateSale, CreateJournal, recordEvents (the audit event stands beside the
\* outbox event) and CompleteIdempotency.
Posted(n, row, entries, event) ==
  [next EXCEPT
     !.sales[n] = row,
     !.journals = @ \cup {[source |-> n, entries |-> entries]},
     !.outbox = @ \cup {event},
     !.idempotencies[Slot(n)].result = n]

PostSale(n) ==
  LET order == req[n].arg
      row == [type |-> "SALE", status |-> "POSTED", of |-> NoSale,
              customer |-> order.customer, credit |-> order.credit,
              lines |-> sale.lines, subtotal |-> sale.subtotal, tax |-> sale.tax,
              total |-> sale.total, cogs |-> sale.cogs]
      event == [type |-> "sale.posted", sale |-> n, cause |-> req[n].key] IN
  /\ At(n, "post")
  /\ Unless(n, PostErrors(n, sale.entries),
            Return(n, Posted(n, row, sale.entries, event), n))

-----------------------------------------------------------------------------
(* The callbacks of Reverse and Get *)

Original(n) ==
  LET original == next.sales[req[n].arg] IN
  /\ At(n, "original")
  /\ Unless(n,
       << <<original = NoSale, "not_found">>,
          <<~next.open, "period_closed">>,
          <<original # NoSale /\ (original.type # "SALE" \/ original.status = "REVERSED"),
            "already_reversed">> >>,
       Continue(n, "undo", next) /\ UNCHANGED sale)

\* The stock, ledger and payment rows of the original, with the sign turned.
Undo(n) ==
  LET s == req[n].arg
      moved == {row \in next.movements : row.source = s}
      owed == {row \in next.ledger : row.source = s}
      paid == {row \in next.payments : row.sale = s} IN
  /\ At(n, "undo")
  /\ Unless(n,
       << <<moved = {}, "not_found">>,
          <<\A j \in next.journals : j.source # s, "not_found">> >>,
       /\ UNCHANGED sale
       /\ Continue(n, "unpost", [next EXCEPT
            !.movements = @ \cup {[row EXCEPT !.source = n, !.quantity = -@] : row \in moved},
            !.ledger = @ \cup {[row EXCEPT !.source = n, !.amount = -@] : row \in owed},
            !.payments = @ \cup {[row EXCEPT !.sale = n, !.amount = -@] : row \in paid}]))

\* Journal.Reversed: the sides of every entry change places.
Reversed(entries) ==
  [i \in DOMAIN entries |-> Entry(entries[i].account, entries[i].credit, entries[i].debit)]

PostReversal(n) ==
  LET s == req[n].arg
      journal == CHOOSE j \in next.journals : j.source = s
      entries == Reversed(journal.entries)
      row == [next.sales[s] EXCEPT !.type = "REVERSAL", !.status = "POSTED", !.of = s]
      event == [type |-> "sale.reversed", sale |-> n, cause |-> s] IN
  /\ At(n, "unpost")
  /\ Unless(n,
       PostErrors(n, entries) \o
         << <<next.sales[s].status = "REVERSED", "already_reversed">> >>,
       Return(n, [Posted(n, row, entries, event) EXCEPT !.sales[s].status = "REVERSED"], n))

Read(n) ==
  /\ At(n, "read")
  /\ Unless(n,
       << <<"read" \notin Permitted, "forbidden">>,
          <<next.sales[req[n].arg] = NoSale, "not_found">> >>,
       Return(n, next, req[n].arg))

-----------------------------------------------------------------------------
(* Endings, failures and seeds *)

Swap(n) ==
  /\ req' = [req EXCEPT ![n].at = "answered"]
  /\ mu' = 0 /\ next' = NoSale /\ sale' = NoSums
  /\ UNCHANGED faults

\* Faulty variant: the context is looked at once the tables are in place.
FinishSwapped(n) ==
  /\ At(n, "end") /\ Store(next)
  /\ \/ ~req[n].cancelled /\ Swap(n)
     \/ /\ req[n].cancelled /\ Refuse(n, "cancelled")
        /\ mu' = 0 /\ next' = NoSale /\ sale' = NoSums /\ UNCHANGED faults

\* The context is looked at a last time, and the clone becomes the state.
Finish(n) ==
  /\ At(n, "end")
  /\ \/ ~req[n].cancelled /\ Store(next) /\ Swap(n)
     \/ req[n].cancelled /\ Fail(n, "cancelled")

\* The client goes away, or the server shuts down.
Cancel(n) ==
  /\ ~At(n, "unsent") /\ ~At(n, "answered") /\ ~req[n].cancelled
  /\ faults < MaxFaults /\ faults' = faults + 1
  /\ req' = [req EXCEPT ![n].cancelled = TRUE]
  /\ UNCHANGED <<state, shown, next, mu, sale>>

\* ids.New fails, wherever it is called.
NoIdentifier(n) ==
  /\ req[n].at \in {"line", "charge", "post", "undo", "unpost"}
  /\ faults < MaxFaults /\ faults' = faults + 1
  /\ Refuse(n, "no identifier")
  /\ mu' = 0 /\ next' = NoSale /\ sale' = NoSums
  /\ UNCHANGED <<state, shown>>

SeedStock(p, k) ==
  LET seeds == {row \in state.movements : row.source = 0 /\ row.product = p} IN
  /\ Moved(state.movements, p) + k <= MaxStock
  /\ Store([state EXCEPT !.movements = @ \cup
       {[source |-> 0, line |-> Cardinality(seeds) + 1, product |-> p, quantity |-> k]}])

SeedCustomer(c, t) ==
  state.customers[c] # t /\ Store([state EXCEPT !.customers[c] = t])

ReplaceFiscalPeriods == Store([state EXCEPT !.open = ~@])

\* The rest of the program writes the tables in place, under the mutex.
Seed ==
  /\ mu = 0
  /\ \/ \E p \in Product, k \in Receipt : SeedStock(p, k)
     \/ \E c \in Customer, t \in Terms : SeedCustomer(c, t)
     \/ ReplaceFiscalPeriods
  /\ UNCHANGED <<next, mu, sale, req, faults>>

Callback(n) ==
  \/ Claim(n) \/ Screen(n) \/ TakeLine(n) \/ Charge(n) \/ PostSale(n)
  \/ Original(n) \/ Undo(n) \/ PostReversal(n) \/ Read(n) \/ Finish(n)

Next ==
  \/ \E n \in Request :
       \/ \E k \in KeysOf[n], o \in Order : Send(n, "complete", k, o)
       \/ \E k \in KeysOf[n], s \in SaleId : Send(n, "reverse", k, s)
       \/ \E s \in SaleId : Send(n, "read", NoSale, s)
       \/ Arrive(n) \/ Lock(n) \/ Callback(n)
       \/ Cancel(n) \/ NoIdentifier(n)
  \/ Seed

Spec == Init /\ [][Next]_vars

\* A goroutine that can run does, and one that waits for the mutex gets it: a
\* sync.Mutex in its starvation mode hands itself to the first that waits.
Fairness == \A n \in Request : WF_vars(Arrive(n) \/ Callback(n)) /\ SF_vars(Lock(n))

FairSpec == Spec /\ Fairness

-----------------------------------------------------------------------------
(* What the store promises *)

\* Only a clone holds a key without a result, and there is a clone exactly
\* while the mutex is held.
MemoryTypeOK ==
  /\ mu \in Request \cup {0} /\ (next = NoSale <=> mu = 0)
  /\ DOMAIN state = DOMAIN newState(state.customers)
  /\ \A s \in SaleId : state.sales[s] # NoSale => state.sales[s] \in SaleRow
  /\ \A x \in DOMAIN state.idempotencies :
       state.idempotencies[x] # NoSale => state.idempotencies[x].result \in SaleId
  /\ \A j \in state.journals : \A i \in DOMAIN j.entries :
       j.entries[i].debit \in Amount /\ j.entries[i].credit \in Amount
  /\ faults \in 0..MaxFaults

\* With its statements, its clone and its failures, the store does what the
\* serial service does: state changes by whole requests only, whose checks
\* hold, and whose amounts are exact.
LedgerSpec == Ledger!Spec

\* Some amount of the order does not fit an int64 on the way to its total: the
\* weighted subtotal is the largest a line goes through, and the sum with what
\* a customer owes the last.
TooLarge(o) ==
  \/ \E i \in DOMAIN o.lines :
       \/ Net(o.lines[i]) * Catalog[o.lines[i].product].rate + Scale \div 2 > MaxInt
       \/ Net(o.lines[i]) > MaxInt
  \/ Exact(o).net + Exact(o).tax > MaxInt
  \/ Exact(o).cost > MaxInt
  \/ o.credit /\ \E t \in Terms : t.limit + Exact(o).net + Exact(o).tax > MaxInt

\* What a client is told is so.  An answer 200 or 201 names a record that is
\* posted, under the client's key and for its request; after any other answer,
\* and before the answer, nothing of the request is in any table.  And the
\* errors the store guards itself with never come up: behind a 500 there is a
\* cancelled context, a generator that failed, or money that does not fit.
AnswersTellTruth ==
  \A n \in Request :
    /\ At(n, "answered") /\ Status(n) \in {200, 201} =>
         state.sales[req[n].result] # NoSale
    /\ At(n, "answered") /\ Status(n) = 201 =>
         state.idempotencies[Slot(n)] = [request |-> req[n].arg, result |-> req[n].result]
    /\ ~(At(n, "answered") /\ Status(n) = 201 /\ req[n].result = n) =>
         /\ state.sales[n] = NoSale
         /\ \A row \in state.movements \cup state.ledger \cup state.journals : row.source # n
         /\ \A row \in state.payments : row.sale # n
         /\ \A e \in state.outbox : e.sale # n
         /\ \A x \in DOMAIN state.idempotencies :
              state.idempotencies[x] # NoSale => state.idempotencies[x].result # n
    /\ At(n, "answered") /\ Status(n) = 500 =>
         \/ req[n].err = "cancelled" /\ req[n].cancelled
         \/ req[n].err = "no identifier"
         \/ req[n].err = "overflow" /\ TooLarge(req[n].arg)

\* Every posted record carries the exact amounts of its lines, and every
\* journal balances in numbers without end: no product, sum or weighted tax
\* has wrapped round on its way in, and no two wrapped sums were taken for equal.
MoneyIsExact ==
  /\ \A s \in SaleId : state.sales[s] # NoSale =>
       /\ Recorded(state.sales[s]) = Exact(state.sales[s])
       /\ state.sales[s].total = state.sales[s].subtotal + state.sales[s].tax
  /\ \A j \in state.journals :
       SumFunction([i \in DOMAIN j.entries |-> j.entries[i].debit])
         = SumFunction([i \in DOMAIN j.entries |-> j.entries[i].credit])

\* Every request that arrives is answered, however the others end.
EveryRequestAnswered ==
  \A n \in Request : At(n, "arrived") ~> At(n, "answered")
=============================================================================
