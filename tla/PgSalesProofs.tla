---------------------------- MODULE PgSalesProofs ----------------------------
(***************************************************************************)
(* That the sales service over PostgreSQL implements the serial service,   *)
(* for every set of handlers, commands, customers, products and keys, and  *)
(* what follows from it.                                                   *)
(*                                                                         *)
(* The argument is the one the code relies on.  What a transaction has     *)
(* read under a lock it still holds cannot have changed (TxInv): no other  *)
(* transaction holds a conflicting lock (LocksExclusive), and every writer *)
(* of a row holds the lock of that row when it writes (Bystander).  So the *)
(* checks made statement by statement hold together at the commit, and the *)
(* commit is a step of the serial specification.                           *)
(***************************************************************************)
EXTENDS PgSales, SumProofs, TLAPS

Serial == INSTANCE SalesLedgerProofs

-----------------------------------------------------------------------------
(* The serial specification's words for the books are these words *)

LEMMA SerialIsLedger == Serial!Spec => Ledger!Spec
BY DEF Serial!Spec, Serial!InitBooks, Serial!Next, Serial!Complete, Serial!Reverse,
  Serial!Environment, Serial!Receive, Serial!Settle, Serial!EditAccount,
  Serial!PostSale, Serial!PostReversal, Serial!AppendRows, Serial!RecordEvents,
  Serial!CompleteIdempotency, Serial!SaleRecord, Serial!ReversalRecord,
  Serial!SaleRows, Serial!ReversalRows, Serial!SaleJournal, Serial!Total,
  Serial!Account, Serial!Unclaimed, Serial!Eligible, Serial!InStock,
  Serial!WithinLimit, Serial!Fresh, Serial!Reversible, Serial!books,
  Serial!NoRows, Serial!Slot, Serial!Op,
  Ledger!Spec, Ledger!InitBooks, Ledger!Next, Ledger!Complete, Ledger!Reverse,
  Ledger!Environment, Ledger!Receive, Ledger!Settle, Ledger!EditAccount,
  Ledger!PostSale, Ledger!PostReversal, Ledger!AppendRows, Ledger!RecordEvents,
  Ledger!CompleteIdempotency, Ledger!SaleRecord, Ledger!ReversalRecord,
  Ledger!SaleRows, Ledger!ReversalRows, Ledger!SaleJournal, Ledger!Total,
  Ledger!Account, Ledger!Unclaimed, Ledger!Eligible, Ledger!InStock,
  Ledger!WithinLimit, Ledger!Fresh, Ledger!Reversible, Ledger!books,
  Ledger!NoRows, Ledger!Slot, Ledger!Op

\* The assumptions the serial theorems rest on are assumed here as well.
LEMMA SerialNext == Serial!IInv /\ [Serial!Next]_Serial!books => Serial!IInv'
BY Serial!NextInv, EnvironmentAssumption, BoundsAssumption, CommandAssumption,
   NoSaleAssumption, TermsAssumption, CustomerAssumption
   DEF Serial!Record, Serial!Claim, Serial!IsFiniteSet, Record, Claim, IsFiniteSet

LEMMA SerialInit == Serial!InitBooks => Serial!IInv
BY Serial!InitInv, EnvironmentAssumption, BoundsAssumption, CommandAssumption,
   NoSaleAssumption, TermsAssumption, CustomerAssumption
   DEF Serial!Record, Serial!Claim, Serial!IsFiniteSet, Record, Claim, IsFiniteSet

LEMMA SerialType == Serial!TypeOK <=> TypeOK
BY DEF Serial!TypeOK, Serial!Record, Serial!Rows, Serial!Account, Serial!Slot,
       Serial!Op, Serial!Claim, Serial!Event,
       TypeOK, Record, Rows, Account, Slot, Op, Claim, Event

LEMMA SerialRows ==
  ASSUME NEW c, NEW d
  PROVE  Serial!SaleRows(c, d) = SaleRows(c, d)
BY DEF Serial!SaleRows, Serial!SaleJournal, Serial!Total, Serial!Account,
       SaleRows, SaleJournal, Total, Account

\* What the books keep true between serial steps, in the words of this module.
LEMMA SerialMeans ==
  Serial!IInv =>
    /\ TypeOK
    /\ StockNeverNegative
    /\ OneReversalPerSale
    /\ \A s \in Posted : sales[s].type = "SALE" =>
         rows[s] = SaleRows(sales[s].command, sales[s].command.demand)
<1> SUFFICES ASSUME Serial!IInv
    PROVE  /\ TypeOK
           /\ StockNeverNegative
           /\ OneReversalPerSale
           /\ \A s \in Posted : sales[s].type = "SALE" =>
                rows[s] = SaleRows(sales[s].command, sales[s].command.demand)
  OBVIOUS
<1>1. TypeOK
  BY SerialType DEF Serial!IInv
<1>2. StockNeverNegative
  BY DEF Serial!IInv, Serial!StockNeverNegative, StockNeverNegative
<1>3. OneReversalPerSale
  BY DEF Serial!IInv, Serial!OneReversalPerSale, OneReversalPerSale,
         Serial!Posted, Posted
<1>4. \A s \in Posted : sales[s].type = "SALE" =>
        rows[s] = SaleRows(sales[s].command, sales[s].command.demand)
  BY SerialRows DEF Serial!IInv, Serial!RowsOfCommand, Serial!Posted, Posted
<1> QED
  BY <1>1, <1>2, <1>3, <1>4

-----------------------------------------------------------------------------
(* The invariant *)

Pc == {"idle", "claim", "replay", "customer", "original", "period", "line",
       "exposure", "undo", "post", "done"}

Locks == ({"key"} \X Slot) \cup ({"update", "share"} \X Customer)
           \cup ({"sale"} \X SaleId) \cup ({"stock"} \X Product)

Transaction ==
  [pc : Pc, slot : Slot \cup {NoSale}, request : Command \cup SaleId \cup {NoSale},
   read : Terms \cup Record \cup {NoSale}, line : Nat,
   taken : [Product -> Nat], result : SaleId \cup {NoSale}]

Typed ==
  /\ tx \in [Tx -> Transaction]
  /\ held \in [Tx -> SUBSET Locks]

\* Which of the two operations t carries out, once it has begun.
Selling(t) == ~At(t, "idle") /\ tx[t].slot[1] = "complete"
Reversing(t) == ~At(t, "idle") /\ tx[t].slot[1] = "reverse"
AtOneOf(t, pcs) == tx[t].pc \in pcs

\* What was asked can be done: by a statement of its own operation.
RequestOK(t) ==
  /\ ~At(t, "idle") =>
       /\ tx[t].slot \in Slot
       /\ Selling(t) => tx[t].request \in Command
       /\ Reversing(t) => tx[t].request \in Posted
  /\ AtOneOf(t, {"customer", "line", "exposure"}) => Selling(t)
  /\ AtOneOf(t, {"original", "undo"}) => Reversing(t)

\* From its insert to its end the transaction owns the key.
KeyHeld(t) ==
  AtOneOf(t, {"customer", "original", "period", "line", "exposure", "undo", "post"}) =>
    <<"key", tx[t].slot>> \in held[t] /\ claims[tx[t].slot] = NoSale

\* A sale's customer stays as read: FOR UPDATE keeps other writers out.
CustomerHeld(t) ==
  Selling(t) /\ AtOneOf(t, {"period", "line", "exposure", "post"}) =>
    /\ <<"update", tx[t].request.customer>> \in held[t]
    /\ tx[t].read = account[tx[t].request.customer]
    /\ tx[t].read.active
    /\ tx[t].request.credit => tx[t].read.credit

\* A reversal's original keeps its type; its customer's exposure is shared
\* with other reversals only.
OriginalRead(t) ==
  Reversing(t) =>
    /\ AtOneOf(t, {"period", "undo", "post"}) =>
         tx[t].read.type = sales[tx[t].request].type
    /\ AtOneOf(t, {"undo", "post"}) => tx[t].read.type = "SALE"
    /\ At(t, "post") =>
         <<"share", sales[tx[t].request].command.customer>> \in held[t]

\* What the first n lines of a command draw from each product.
TakenBy(c, n) ==
  [p \in Product |->
     SumFunction([i \in {j \in LinesOf(c, p) : j <= n} |-> Lines[c][i].quantity])]

\* The lines are taken in order, and by the end all of them.
LinesTaken(t) ==
  Selling(t) =>
    /\ AtOneOf(t, {"claim", "customer", "period"}) => tx[t].line = 1 /\ tx[t].taken = Nothing
    /\ At(t, "line") => /\ tx[t].line \in DOMAIN Lines[tx[t].request]
                        /\ tx[t].taken = TakenBy(tx[t].request, tx[t].line - 1)
    /\ AtOneOf(t, {"exposure", "post"}) => tx[t].taken = tx[t].request.demand

\* What was available is there still: the product is locked.
StockHeld(t) ==
  Selling(t) /\ AtOneOf(t, {"line", "exposure", "post"}) =>
    \A p \in Product : tx[t].taken[p] > 0 =>
      <<"stock", p>> \in held[t] /\ tx[t].taken[p] <= stock[p]

\* The limit check still holds when the sale is posted.
LimitChecked(t) ==
  Selling(t) /\ At(t, "post") /\ tx[t].request.credit =>
    /\ exposure[tx[t].request.customer] >= 0
    /\ exposure[tx[t].request.customer] + Total(tx[t].request)
         <= account[tx[t].request.customer].limit

\* The committed claim of x gives this answer.
Answered(x, request, result) ==
  /\ x \in Claimed
  /\ claims[x].request = request /\ claims[x].result = result

ResultKnown(t) ==
  AtOneOf(t, {"replay", "done"}) =>
    Answered(tx[t].slot, tx[t].request, tx[t].result)

\* PostgreSQL grants no two conflicting locks.
LocksExclusive ==
  \A t, u \in Tx : t # u =>
    \A l \in held[t], m \in held[u] : ~Conflicts(l, m)

\* What clients were told is what the keys still say.
AnswersKept ==
  \A a \in answers :
    /\ a = [slot |-> a.slot, request |-> a.request, result |-> a.result]
    /\ Answered(a.slot, a.request, a.result)
    /\ a.slot[1] = "reverse" => a.request \in SaleId

TxInv(t) ==
  /\ RequestOK(t) /\ KeyHeld(t) /\ CustomerHeld(t) /\ OriginalRead(t)
  /\ LinesTaken(t) /\ StockHeld(t) /\ LimitChecked(t) /\ ResultKnown(t)

PgInv == Typed /\ LocksExclusive /\ AnswersKept /\ \A t \in Tx : TxInv(t)

USE DEF At, AtOneOf, Selling, Reversing

-----------------------------------------------------------------------------
(* The lines of a command, taken one by one, are its demand *)

LEMMA LinesTyped ==
  ASSUME NEW c \in Command
  PROVE  /\ Len(Lines[c]) \in Nat /\ DOMAIN Lines[c] = 1..Len(Lines[c])
         /\ \A i \in DOMAIN Lines[c] :
              /\ Lines[c][i] \in [product : Product, quantity : Nat \ {0}]
              /\ Lines[c][i].product \in Product
              /\ Lines[c][i].quantity \in Nat \ {0}
<1> DEFINE L == [product : Product, quantity : Nat \ {0}]
<1>1. Lines[c] \in Seq(L)
  BY LinesAssumption
<1> HIDE DEF L
<1>2. /\ Len(Lines[c]) \in Nat /\ DOMAIN Lines[c] = 1..Len(Lines[c])
      /\ \A i \in DOMAIN Lines[c] : Lines[c][i] \in L
  BY <1>1
<1> QED BY <1>2 DEF L

\* The lines up to n that are about p.
LinesTo(c, p, n) == {i \in LinesOf(c, p) : i <= n}
Quantities(c, p, n) == [i \in LinesTo(c, p, n) |-> Lines[c][i].quantity]

LEMMA QuantitiesTyped ==
  ASSUME NEW c \in Command, NEW p \in Product, NEW n \in Int
  PROVE  /\ IsFiniteSet(LinesTo(c, p, n))
         /\ Quantities(c, p, n) \in [LinesTo(c, p, n) -> Int]
<1>1. LinesTo(c, p, n) \subseteq DOMAIN Lines[c]
  BY DEF LinesTo, LinesOf
<1>2. IsFiniteSet(DOMAIN Lines[c])
  BY LinesTyped, FS_Interval
<1>3. IsFiniteSet(LinesTo(c, p, n))
  BY <1>1, <1>2, FS_Subset
<1>4. Quantities(c, p, n) \in [LinesTo(c, p, n) -> Int]
  BY <1>1, LinesTyped DEF Quantities
<1> QED BY <1>3, <1>4

LEMMA TakenIsSum ==
  ASSUME NEW c, NEW n
  PROVE  TakenBy(c, n) = [p \in Product |-> SumFunction(Quantities(c, p, n))]
BY DEF TakenBy, Quantities, LinesTo

LEMMA NothingTaken ==
  ASSUME NEW c \in Command
  PROVE  TakenBy(c, 0) = Nothing
<1>1. ASSUME NEW p \in Product PROVE SumFunction(Quantities(c, p, 0)) = 0
  <2>1. LinesTo(c, p, 0) = {}
    BY LinesTyped DEF LinesTo, LinesOf
  <2> QED BY <2>1, SumFunctionNone DEF Quantities
<1> QED
  BY <1>1, TakenIsSum DEF Nothing

LEMMA LineTaken ==
  ASSUME NEW c \in Command, NEW n \in DOMAIN Lines[c]
  PROVE  TakenBy(c, n) = [TakenBy(c, n - 1) EXCEPT
                            ![Lines[c][n].product] = @ + Lines[c][n].quantity]
<1>0. n \in Int /\ n - 1 \in Int
  BY LinesTyped
<1>1. ASSUME NEW p \in Product
      PROVE  SumFunction(Quantities(c, p, n)) =
               IF p = Lines[c][n].product
               THEN SumFunction(Quantities(c, p, n - 1)) + Lines[c][n].quantity
               ELSE SumFunction(Quantities(c, p, n - 1))
  <2> DEFINE f == Quantities(c, p, n - 1)
             g == Quantities(c, p, n)
             T == LinesTo(c, p, n - 1)
  <2>1. CASE p = Lines[c][n].product
    <3>1. LinesTo(c, p, n) = T \cup {n} /\ n \notin T
      BY <1>0, <2>1, LinesTyped DEF LinesTo, LinesOf
    <3>2. IsFiniteSet(T) /\ f \in [T -> Int] /\ g \in [T \cup {n} -> Int]
      BY <1>0, <3>1, QuantitiesTyped
    <3>3. (\A i \in T : g[i] = f[i]) /\ g[n] = Lines[c][n].quantity
      BY <3>1 DEF Quantities
    <3> HIDE DEF f, g, T
    <3>4. SumFunction(g) = g[n] + SumFunction(f)
      <4>1. n \notin T
        BY <3>1
      <4>2. \A i \in T : g[i] = f[i]
        BY <3>3
      <4> QED BY <3>2, <4>1, <4>2, SumFunctionWith
    <3>5. SumFunction(f) \in Int /\ g[n] \in Int
      BY <3>2, SumFunctionType
    <3>6. SumFunction(g) = SumFunction(f) + Lines[c][n].quantity
      BY <3>3, <3>4, <3>5
    <3> QED BY <2>1, <3>6 DEF f, g
  <2>2. CASE p # Lines[c][n].product
    <3>1. LinesTo(c, p, n) = T
      BY <1>0, <2>2, LinesTyped DEF LinesTo, LinesOf
    <3>2. g = f
      BY <3>1 DEF Quantities
    <3> QED BY <2>2, <3>2
  <2> QED BY <2>1, <2>2
<1> HIDE DEF Quantities
<1> DEFINE S(m) == [p \in Product |-> SumFunction(Quantities(c, p, m))]
<1>2. S(n) = [S(n - 1) EXCEPT ![Lines[c][n].product] = @ + Lines[c][n].quantity]
  BY <1>1
<1> QED
  BY <1>2, TakenIsSum

LEMMA AllTaken ==
  ASSUME NEW c \in Command
  PROVE  TakenBy(c, Len(Lines[c])) = c.demand
<1>1. ASSUME NEW p \in Product
      PROVE  SumFunction(Quantities(c, p, Len(Lines[c]))) = c.demand[p]
  <2>1. LinesTo(c, p, Len(Lines[c])) = LinesOf(c, p)
    BY LinesTyped DEF LinesTo, LinesOf
  <2> QED BY <2>1, LinesAssumption DEF Quantities
<1>2. c.demand \in [Product -> Nat]
  BY CommandAssumption
<1> QED
  BY <1>1, <1>2, TakenIsSum

\* No command is empty.
LEMMA SomeLine ==
  ASSUME NEW c \in Command
  PROVE  1 \in DOMAIN Lines[c]
<1> SUFFICES ASSUME 1 \notin DOMAIN Lines[c] PROVE FALSE
  OBVIOUS
<1>1. Len(Lines[c]) = 0
  BY LinesTyped
<1>2. c.demand = Nothing
  BY <1>1, NothingTaken, AllTaken
<1>3. PICK p \in Product : c.demand[p] > 0
  BY CommandAssumption
<1> QED
  BY <1>2, <1>3 DEF Nothing

-----------------------------------------------------------------------------
(* Locks *)

LEMMA ConflictsSymmetric ==
  ASSUME NEW l \in Locks, NEW m \in Locks, Conflicts(l, m)
  PROVE  Conflicts(m, l)
<1>1. l = <<l[1], l[2]>> /\ m = <<m[1], m[2]>>
  BY DEF Locks
<1> QED
  BY <1>1 DEF Conflicts

\* A lock is granted only beside locks it does not conflict with.
LEMMA GrantedLocks ==
  ASSUME Typed, LocksExclusive, NEW t \in Tx, Granted(t), Wanted(t) \subseteq Locks,
         held' = [held EXCEPT ![t] = @ \cup Wanted(t)]
  PROVE  LocksExclusive' /\ held' \in [Tx -> SUBSET Locks]
<1>1. \A u \in Tx : held[u] \subseteq Locks
  BY DEF Typed
<1>2. /\ held'[t] = held[t] \cup Wanted(t)
      /\ \A u \in Tx \ {t} : held'[u] = held[u]
  BY DEF Typed
<1>3. ASSUME NEW u \in Tx \ {t}, NEW l \in held'[t], NEW m \in held'[u]
      PROVE  ~Conflicts(l, m) /\ ~Conflicts(m, l)
  <2>1. l \in Locks /\ m \in Locks
    BY <1>1, <1>2
  <2>2. ~Conflicts(l, m)
    BY <1>2 DEF Granted, Blockers, LocksExclusive
  <2> QED BY <2>1, <2>2, ConflictsSymmetric
<1>4. LocksExclusive'
  <2> SUFFICES ASSUME NEW u \in Tx, NEW v \in Tx, u # v,
                      NEW l \in held'[u], NEW m \in held'[v]
               PROVE  ~Conflicts(l, m)
    BY DEF LocksExclusive, Conflicts
  <2>1. CASE u = t
    BY <1>3, <2>1
  <2>2. CASE v = t
    BY <1>3, <2>2
  <2>3. CASE u # t /\ v # t
    BY <1>2, <2>3 DEF LocksExclusive
  <2> QED BY <2>1, <2>2, <2>3
<1> QED
  BY <1>1, <1>2, <1>4 DEF Typed

\* A transaction ends and gives all its locks back.
LEMMA ReleasedLocks ==
  ASSUME Typed, LocksExclusive, NEW t \in Tx, held' = [held EXCEPT ![t] = {}]
  PROVE  LocksExclusive' /\ held' \in [Tx -> SUBSET Locks]
<1>1. \A u \in Tx : held'[u] \subseteq held[u]
  BY DEF Typed
<1>2. LocksExclusive'
  BY <1>1 DEF LocksExclusive, Conflicts
<1> QED
  BY <1>2 DEF Typed

\* What is locked exists.
LEMMA WantedExists ==
  ASSUME TypeOK, Typed, NEW t \in Tx, TxInv(t)
  PROVE  /\ Wanted(t) \subseteq Locks
         /\ ~At(t, "idle") => CustomerOf(t) \in Customer
         /\ At(t, "line") => Line(t) \in [product : Product, quantity : Nat \ {0}]
<1>1. /\ ~At(t, "idle") =>
           /\ tx[t].slot \in Slot
           /\ Selling(t) => tx[t].request \in Command
           /\ Reversing(t) => tx[t].request \in Posted
      /\ AtOneOf(t, {"customer", "line", "exposure"}) => Selling(t)
      /\ AtOneOf(t, {"original", "undo"}) => Reversing(t)
  BY DEF TxInv, RequestOK
<1>2. ~At(t, "idle") => CustomerOf(t) \in Customer
  <2>1. \A s \in Posted : sales[s].command.customer \in Customer
    BY CommandAssumption DEF TypeOK, Posted, Record
  <2> QED
    BY <1>1, <2>1, CommandAssumption DEF CustomerOf, Slot, Op
<1>3. At(t, "line") => Line(t) \in [product : Product, quantity : Nat \ {0}]
  <2>1. At(t, "line") => /\ tx[t].request \in Command
                         /\ tx[t].line \in DOMAIN Lines[tx[t].request]
    BY <1>1 DEF TxInv, LinesTaken
  <2> QED
    BY <2>1, LinesTyped DEF Line
<1>4. At(t, "replay") => tx[t].result \in SaleId
  BY DEF TxInv, ResultKnown, Answered, Claimed, TypeOK, Claim
<1>5. At(t, "original") => tx[t].request \in SaleId
  BY <1>1 DEF Posted
<1>6. Wanted(t) \subseteq Locks
  <2>1. CASE At(t, "claim")
    BY <1>1, <2>1 DEF Wanted, Locks
  <2>2. CASE At(t, "replay")
    BY <1>4, <2>2 DEF Wanted, Locks
  <2>3. CASE AtOneOf(t, {"customer", "undo"})
    BY <1>2, <2>3 DEF Wanted, Locks
  <2>4. CASE At(t, "line")
    BY <1>3, <2>4 DEF Wanted, Locks
  <2>5. CASE At(t, "original")
    BY <1>5, <2>5 DEF Wanted, Locks
  <2>6. CASE ~AtOneOf(t, {"claim", "replay", "customer", "undo", "line", "original"})
    BY <2>6 DEF Wanted
  <2> QED
    BY <2>1, <2>2, <2>3, <2>4, <2>5, <2>6
<1> QED
  BY <1>2, <1>3, <1>6

-----------------------------------------------------------------------------
(* A transaction that does not move.  Others may post, receive, settle and   *)
(* edit beside it, but not what its locks guard.                             *)

LEMMA Bystander ==
  ASSUME TypeOK, Typed, NEW u \in Tx, TxInv(u),
         tx'[u] = tx[u], held'[u] = held[u],
         \A s \in Posted : /\ s \in Posted'
                           /\ sales'[s].type = sales[s].type
                           /\ sales'[s].command = sales[s].command,
         \A x \in Claimed : x \in Claimed' /\ claims'[x] = claims[x],
         \A x \in Slot : <<"key", x>> \in held[u] => claims'[x] = claims[x],
         \A c \in Customer : <<"update", c>> \in held[u] =>
                               account'[c] = account[c] /\ exposure'[c] = exposure[c],
         \A p \in Product : <<"stock", p>> \in held[u] =>
                               stock[p] \in Int /\ stock'[p] \in Int /\ stock'[p] >= stock[p]
  PROVE  TxInv(u)'
<1>1. RequestOK(u)'
  BY DEF TxInv, RequestOK
<1>2. KeyHeld(u)'
  BY DEF TxInv, KeyHeld, RequestOK
<1>3. Selling(u) => tx[u].request.customer \in Customer
  BY CommandAssumption DEF TxInv, RequestOK
<1>4. CustomerHeld(u)'
  BY <1>3 DEF TxInv, CustomerHeld
<1>5. OriginalRead(u)'
  BY DEF TxInv, OriginalRead, RequestOK
<1>6. LinesTaken(u)'
  BY DEF TxInv, LinesTaken
<1>7. StockHeld(u)'
  <2>1. tx[u].taken \in [Product -> Nat]
    BY DEF Typed, Transaction
  <2> QED BY <2>1 DEF TxInv, StockHeld
<1>8. LimitChecked(u)'
  BY <1>3 DEF TxInv, LimitChecked, CustomerHeld
<1>9. ResultKnown(u)'
  BY DEF TxInv, ResultKnown, Answered
<1> QED
  BY <1>1, <1>2, <1>4, <1>5, <1>6, <1>7, <1>8, <1>9 DEF TxInv

\* A statement that writes nothing others see leaves every other transaction
\* as it was.
LEMMA BooksUntouched ==
  ASSUME TypeOK, Typed, NEW u \in Tx, TxInv(u),
         tx'[u] = tx[u], held'[u] = held[u], UNCHANGED books
  PROVE  TxInv(u)'
<1>1. stock \in [Product -> Int]
  BY DEF TypeOK
<1>2. \A p \in Product : stock[p] \in Int /\ stock[p] >= stock[p]
  BY <1>1
<1>3. UNCHANGED <<sales, stock, exposure, claims, account>>
  BY DEF books
<1>4. Posted' = Posted /\ Claimed' = Claimed
  BY <1>3 DEF Posted, Claimed
<1> QED
  BY <1>2, <1>3, <1>4, Bystander

-----------------------------------------------------------------------------
(* Statements that write nothing others see *)

LEMMA StepWrites ==
  ASSUME Typed, NEW t \in Tx, NEW pc \in Pc, NEW new \in Transaction,
         Step(t, pc, new)
  PROVE  /\ tx' \in [Tx -> Transaction]
         /\ tx'[t].pc = pc /\ tx'[t].slot = new.slot
         /\ tx'[t].request = new.request /\ tx'[t].read = new.read
         /\ tx'[t].line = new.line /\ tx'[t].taken = new.taken
         /\ tx'[t].result = new.result
         /\ \A u \in Tx \ {t} : tx'[u] = tx[u] /\ held'[u] = held[u]
         /\ held'[t] = held[t] \cup Wanted(t)
         /\ UNCHANGED books /\ UNCHANGED <<open, sent, answers>>
<1>1. [new EXCEPT !.pc = pc] \in Transaction
  BY DEF Transaction
<1>2. tx' = [tx EXCEPT ![t] = [new EXCEPT !.pc = pc]]
  BY DEF Step
<1>3. tx' \in [Tx -> Transaction] /\ tx'[t] = [new EXCEPT !.pc = pc]
  BY <1>1, <1>2 DEF Typed
<1>4. /\ tx'[t].pc = pc /\ tx'[t].slot = new.slot
      /\ tx'[t].request = new.request /\ tx'[t].read = new.read
      /\ tx'[t].line = new.line /\ tx'[t].taken = new.taken
      /\ tx'[t].result = new.result
  BY <1>3 DEF Transaction
<1>5. \A u \in Tx \ {t} : tx'[u] = tx[u] /\ held'[u] = held[u]
  BY <1>2 DEF Typed, Step
<1>6. held'[t] = held[t] \cup Wanted(t)
  BY DEF Step, Typed
<1> QED
  BY <1>3, <1>4, <1>5, <1>6 DEF Step

LEMMA StepInv ==
  ASSUME TypeOK, PgInv, NEW t \in Tx, NEW pc \in Pc, NEW new \in Transaction,
         Step(t, pc, new), TxInv(t)'
  PROVE  PgInv'
<1>1. Typed /\ LocksExclusive /\ AnswersKept /\ \A u \in Tx : TxInv(u)
  BY DEF PgInv
<1>2. /\ tx' \in [Tx -> Transaction]
      /\ \A u \in Tx \ {t} : tx'[u] = tx[u] /\ held'[u] = held[u]
      /\ UNCHANGED books /\ UNCHANGED answers
  BY <1>1, StepWrites
<1>3. Wanted(t) \subseteq Locks
  BY <1>1, WantedExists
<1>4. Granted(t) /\ held' = [held EXCEPT ![t] = @ \cup Wanted(t)]
  BY DEF Step
<1>5. LocksExclusive' /\ held' \in [Tx -> SUBSET Locks]
  BY <1>1, <1>3, <1>4, GrantedLocks
<1>6. \A u \in Tx \ {t} : TxInv(u)'
  BY <1>1, <1>2, BooksUntouched
<1>7. AnswersKept'
  BY <1>1, <1>2 DEF AnswersKept, Answered, Claimed, books
<1> QED
  BY <1>2, <1>5, <1>6, <1>7 DEF PgInv, Typed

LEMMA ClaimNewInv ==
  ASSUME TypeOK, PgInv, NEW t \in Tx, ClaimNew(t)
  PROVE  PgInv'
<1> DEFINE pc == IF tx[t].slot[1] = "complete" THEN "customer" ELSE "original"
<1>1. Typed /\ TxInv(t) /\ At(t, "claim") /\ claims[tx[t].slot] = NoSale
  BY DEF PgInv, ClaimNew
<1>2. Step(t, pc, tx[t]) /\ pc \in Pc /\ tx[t] \in Transaction
  BY <1>1 DEF ClaimNew, Typed, Pc
<1> HIDE DEF pc
<1>3. /\ tx'[t].pc = pc /\ tx'[t].slot = tx[t].slot
      /\ tx'[t].request = tx[t].request
      /\ tx'[t].line = tx[t].line /\ tx'[t].taken = tx[t].taken
      /\ held'[t] = held[t] \cup Wanted(t) /\ UNCHANGED books
  BY <1>1, <1>2, StepWrites
<1>4. Wanted(t) = {<<"key", tx[t].slot>>}
  BY <1>1 DEF Wanted
<1>5. tx[t].slot \in Slot /\ (Selling(t) \/ Reversing(t))
  BY <1>1 DEF TxInv, RequestOK, Slot, Op
<1>6. Posted' = Posted
  BY <1>3 DEF books, Posted
<1>7. TxInv(t)'
  <2>1. RequestOK(t)' /\ KeyHeld(t)'
    BY <1>1, <1>3, <1>4, <1>5, <1>6 DEF pc, TxInv, RequestOK, KeyHeld, books
  <2>2. LinesTaken(t)'
    BY <1>1, <1>3 DEF pc, TxInv, LinesTaken
  <2> QED
    BY <1>3, <2>1, <2>2 DEF pc, TxInv, CustomerHeld, OriginalRead, StockHeld,
                            LimitChecked, ResultKnown
<1> QED
  BY <1>2, <1>7, StepInv

LEMMA ClaimKnownInv ==
  ASSUME TypeOK, PgInv, NEW t \in Tx, ClaimKnown(t)
  PROVE  PgInv'
<1> DEFINE new == [tx[t] EXCEPT !.result = claims[tx[t].slot].result]
<1>1. Typed /\ TxInv(t) /\ At(t, "claim")
      /\ claims[tx[t].slot] # NoSale /\ claims[tx[t].slot].request = tx[t].request
  BY DEF PgInv, ClaimKnown
<1>2. tx[t].slot \in Claimed /\ claims[tx[t].slot].result \in SaleId
  BY <1>1 DEF TxInv, RequestOK, Claimed, TypeOK, Claim
<1>3. Step(t, "replay", new) /\ "replay" \in Pc /\ new \in Transaction
  BY <1>1, <1>2 DEF ClaimKnown, Typed, Pc, Transaction
<1>4. new.slot = tx[t].slot /\ new.request = tx[t].request
      /\ new.result = claims[tx[t].slot].result
  BY <1>1 DEF Typed, Transaction
<1> HIDE DEF new
<1>5. /\ tx'[t].pc = "replay" /\ tx'[t].slot = tx[t].slot
      /\ tx'[t].request = tx[t].request
      /\ tx'[t].result = claims[tx[t].slot].result /\ UNCHANGED books
  BY <1>1, <1>3, <1>4, StepWrites
<1>6. Posted' = Posted /\ Claimed' = Claimed
  BY <1>5 DEF books, Posted, Claimed
<1>7. TxInv(t)'
  <2>1. RequestOK(t)'
    BY <1>1, <1>5, <1>6 DEF TxInv, RequestOK
  <2>2. ResultKnown(t)'
    BY <1>1, <1>2, <1>5, <1>6 DEF ResultKnown, Answered, books
  <2> QED
    BY <1>5, <2>1, <2>2 DEF TxInv, KeyHeld, CustomerHeld, OriginalRead, LinesTaken,
                            StockHeld, LimitChecked
<1> QED
  BY <1>3, <1>7, StepInv

LEMMA LockCustomerInv ==
  ASSUME TypeOK, PgInv, NEW t \in Tx, LockCustomer(t)
  PROVE  PgInv'
<1> DEFINE new == [tx[t] EXCEPT !.read = account[CustomerOf(t)]]
<1>1. Typed /\ TxInv(t) /\ At(t, "customer")
      /\ account[CustomerOf(t)].active
      /\ (tx[t].request.credit => account[CustomerOf(t)].credit)
  BY DEF PgInv, LockCustomer
<1>2. Selling(t) /\ CustomerOf(t) = tx[t].request.customer /\ CustomerOf(t) \in Customer
  BY <1>1, WantedExists DEF TxInv, RequestOK, CustomerOf
<1>3. Step(t, "period", new) /\ "period" \in Pc /\ new \in Transaction
  <2>1. tx[t] \in Transaction
    BY <1>1 DEF Typed
  <2>2. account[CustomerOf(t)] \in Terms
    BY <1>2 DEF TypeOK
  <2>3. new \in Transaction
    BY <2>1, <2>2 DEF Transaction
  <2>4. Step(t, "period", new) /\ "period" \in Pc
    BY DEF LockCustomer, Pc
  <2> QED BY <2>3, <2>4
<1>4. /\ new.slot = tx[t].slot /\ new.request = tx[t].request
      /\ new.read = account[CustomerOf(t)]
      /\ new.line = tx[t].line /\ new.taken = tx[t].taken
  BY <1>1 DEF Typed, Transaction
<1> HIDE DEF new
<1>5. /\ tx'[t].pc = "period" /\ tx'[t].slot = tx[t].slot
      /\ tx'[t].request = tx[t].request
      /\ tx'[t].read = account[CustomerOf(t)]
      /\ tx'[t].line = tx[t].line /\ tx'[t].taken = tx[t].taken
      /\ held'[t] = held[t] \cup Wanted(t) /\ UNCHANGED books
  BY <1>1, <1>3, <1>4, StepWrites
<1>6. Posted' = Posted /\ UNCHANGED <<claims, account>>
  BY <1>5 DEF books, Posted
<1>7. Wanted(t) = {<<"update", CustomerOf(t)>>}
  BY <1>1 DEF Wanted
<1>8. TxInv(t)'
  <2>1. RequestOK(t)' /\ KeyHeld(t)'
    BY <1>1, <1>5, <1>6 DEF TxInv, RequestOK, KeyHeld
  <2>2. CustomerHeld(t)' /\ LinesTaken(t)'
    BY <1>1, <1>2, <1>5, <1>6, <1>7 DEF TxInv, CustomerHeld, LinesTaken
  <2> QED
    BY <1>2, <1>5, <2>1, <2>2 DEF TxInv, OriginalRead, StockHeld, LimitChecked,
                                  ResultKnown
<1> QED
  BY <1>3, <1>8, StepInv

LEMMA LockOriginalInv ==
  ASSUME TypeOK, PgInv, NEW t \in Tx, LockOriginal(t)
  PROVE  PgInv'
<1> DEFINE new == [tx[t] EXCEPT !.read = sales[tx[t].request]]
<1>1. Typed /\ TxInv(t) /\ At(t, "original")
  BY DEF PgInv, LockOriginal
<1>2. Reversing(t) /\ sales[tx[t].request] \in Record
  BY <1>1 DEF TxInv, RequestOK, TypeOK, Posted
<1>3. Step(t, "period", new) /\ "period" \in Pc /\ new \in Transaction
  BY <1>1, <1>2 DEF LockOriginal, Typed, Pc, Transaction
<1>4. /\ new.slot = tx[t].slot /\ new.request = tx[t].request
      /\ new.read = sales[tx[t].request]
  BY <1>1 DEF Typed, Transaction
<1> HIDE DEF new
<1>5. /\ tx'[t].pc = "period" /\ tx'[t].slot = tx[t].slot
      /\ tx'[t].request = tx[t].request
      /\ tx'[t].read = sales[tx[t].request]
      /\ held'[t] = held[t] \cup Wanted(t) /\ UNCHANGED books
  BY <1>1, <1>3, <1>4, StepWrites
<1>6. Posted' = Posted /\ UNCHANGED <<claims, sales>>
  BY <1>5 DEF books, Posted
<1>7. TxInv(t)'
  <2>1. RequestOK(t)' /\ KeyHeld(t)'
    BY <1>1, <1>5, <1>6 DEF TxInv, RequestOK, KeyHeld
  <2>2. OriginalRead(t)'
    BY <1>5, <1>6 DEF OriginalRead
  <2> QED
    BY <1>2, <1>5, <2>1, <2>2 DEF TxInv, CustomerHeld, LinesTaken, StockHeld,
                                  LimitChecked, ResultKnown
<1> QED
  BY <1>3, <1>7, StepInv

LEMMA CheckPeriodInv ==
  ASSUME TypeOK, PgInv, NEW t \in Tx, CheckPeriod(t)
  PROVE  PgInv'
<1>1. Typed /\ TxInv(t) /\ At(t, "period") /\ tx[t] \in Transaction
  BY DEF PgInv, CheckPeriod, Typed
<1>3. CASE Selling(t) /\ Step(t, "line", tx[t])
  <2>1. /\ tx'[t].pc = "line" /\ tx'[t].slot = tx[t].slot
        /\ tx'[t].request = tx[t].request /\ tx'[t].read = tx[t].read
        /\ tx'[t].line = tx[t].line /\ tx'[t].taken = tx[t].taken
        /\ held'[t] = held[t] \cup Wanted(t) /\ UNCHANGED books
    <3>1. "line" \in Pc
      BY DEF Pc
    <3> QED BY <1>1, <1>3, <3>1, StepWrites
  <2>2. Posted' = Posted /\ UNCHANGED <<claims, account>>
    BY <2>1 DEF books, Posted
  <2>3. tx[t].request \in Command /\ tx[t].line = 1 /\ tx[t].taken = Nothing
    BY <1>1, <1>3 DEF TxInv, RequestOK, LinesTaken
  <2>4. RequestOK(t)' /\ KeyHeld(t)' /\ CustomerHeld(t)'
    BY <1>1, <1>3, <2>1, <2>2 DEF TxInv, RequestOK, KeyHeld, CustomerHeld
  <2>5. LinesTaken(t)'
    <3>1. /\ 1 \in DOMAIN Lines[tx[t].request]
          /\ TakenBy(tx[t].request, 1 - 1) = Nothing
      BY <2>3, SomeLine, NothingTaken
    <3> QED BY <2>1, <2>3, <3>1 DEF LinesTaken
  <2>6. StockHeld(t)'
    BY <2>1, <2>3 DEF StockHeld, Nothing
  <2>7. TxInv(t)'
    BY <1>3, <2>1, <2>4, <2>5, <2>6 DEF TxInv, OriginalRead, LimitChecked, ResultKnown
  <2> QED BY <1>1, <1>3, <2>7, StepInv DEF Pc
<1>4. CASE /\ Reversing(t) /\ Step(t, "undo", tx[t])
           /\ tx[t].read.type = "SALE"
  <2>1. /\ tx'[t].pc = "undo" /\ tx'[t].slot = tx[t].slot
        /\ tx'[t].request = tx[t].request /\ tx'[t].read = tx[t].read
        /\ held'[t] = held[t] \cup Wanted(t) /\ UNCHANGED books
    <3>1. "undo" \in Pc
      BY DEF Pc
    <3> QED BY <1>1, <1>4, <3>1, StepWrites
  <2>2. Posted' = Posted /\ UNCHANGED <<claims, sales>>
    BY <2>1 DEF books, Posted
  <2>3. RequestOK(t)' /\ KeyHeld(t)' /\ OriginalRead(t)'
    BY <1>1, <1>4, <2>1, <2>2 DEF TxInv, RequestOK, KeyHeld, OriginalRead
  <2>4. TxInv(t)'
    BY <1>4, <2>1, <2>3 DEF TxInv, CustomerHeld, LinesTaken, StockHeld, LimitChecked,
                            ResultKnown
  <2> QED BY <1>1, <1>4, <2>4, StepInv DEF Pc
<1> QED
  BY <1>1, <1>3, <1>4 DEF CheckPeriod

LEMMA TakeLineInv ==
  ASSUME TypeOK, PgInv, NEW t \in Tx, TakeLine(t)
  PROVE  PgInv'
<1> DEFINE c == tx[t].request
           n == tx[t].line
           p == Lines[c][n].product
           q == Lines[c][n].quantity
           new == [tx[t] EXCEPT !.line = n + 1, !.taken = [tx[t].taken EXCEPT ![p] = @ + q]]
<1>1. Typed /\ TxInv(t) /\ At(t, "line") /\ Selling(t) /\ c \in Command
      /\ tx[t] \in Transaction
  BY DEF PgInv, TakeLine, TxInv, RequestOK, Typed
<1>2. /\ n \in DOMAIN Lines[c] /\ tx[t].taken = TakenBy(c, n - 1)
      /\ tx[t].taken \in [Product -> Nat] /\ n \in Nat
  BY <1>1 DEF TxInv, LinesTaken, Transaction
<1>3. /\ Len(Lines[c]) \in Nat /\ DOMAIN Lines[c] = 1..Len(Lines[c])
      /\ p \in Product /\ q \in Nat
  BY <1>1, <1>2, LinesTyped
<1>4. /\ Step(t, AfterLine(t), new) /\ AfterLine(t) \in Pc /\ new \in Transaction
      /\ new.slot = tx[t].slot /\ new.request = c /\ new.read = tx[t].read
      /\ new.line = n + 1 /\ new.taken = [tx[t].taken EXCEPT ![p] = @ + q]
  <2>1. n + 1 \in Nat /\ [tx[t].taken EXCEPT ![p] = @ + q] \in [Product -> Nat]
    <3>1. tx[t].taken \in [Product -> Nat] /\ n \in Nat /\ q \in Nat /\ p \in Product
      BY <1>2, <1>3
    <3> DEFINE f == tx[t].taken
    <3> HIDE DEF n, q, p, f
    <3>2. n + 1 \in Nat /\ [f EXCEPT ![p] = @ + q] \in [Product -> Nat]
      BY <3>1 DEF f
    <3> QED BY <3>2 DEF f
  <2>2. new \in Transaction
    BY <1>1, <2>1 DEF Transaction
  <2>3. AfterLine(t) \in Pc
    BY DEF AfterLine, Pc
  <2>4. Step(t, AfterLine(t), new)
    BY <1>1 DEF TakeLine, Line, Transaction
  <2> QED BY <1>1, <2>2, <2>3, <2>4 DEF Transaction
<1> HIDE DEF new
<1>5. /\ tx'[t].pc = AfterLine(t) /\ tx'[t].slot = tx[t].slot
      /\ tx'[t].request = c /\ tx'[t].read = tx[t].read
      /\ tx'[t].line = n + 1 /\ tx'[t].taken = [tx[t].taken EXCEPT ![p] = @ + q]
      /\ held'[t] = held[t] \cup Wanted(t) /\ UNCHANGED books
  <2>1. /\ Step(t, AfterLine(t), new) /\ AfterLine(t) \in Pc /\ new \in Transaction
        /\ Typed
    BY <1>1, <1>4
  <2>2. /\ new.slot = tx[t].slot /\ new.request = c /\ new.read = tx[t].read
        /\ new.line = n + 1 /\ new.taken = [tx[t].taken EXCEPT ![p] = @ + q]
    BY <1>4
  <2> HIDE DEF c, n, p, q
  <2>3. /\ tx'[t].pc = AfterLine(t) /\ tx'[t].slot = new.slot
        /\ tx'[t].request = new.request /\ tx'[t].read = new.read
        /\ tx'[t].line = new.line /\ tx'[t].taken = new.taken
        /\ held'[t] = held[t] \cup Wanted(t) /\ UNCHANGED books
    BY <2>1, StepWrites
  <2> QED BY <2>2, <2>3
<1>6. Posted' = Posted /\ UNCHANGED <<claims, account, stock>>
  BY <1>5 DEF books, Posted
<1>7. Wanted(t) = {<<"stock", p>>}
  BY <1>1 DEF Wanted, Line
<1>8. tx'[t].taken = TakenBy(c, n)
  <2>1. c \in Command /\ n \in DOMAIN Lines[c] /\ tx[t].taken = TakenBy(c, n - 1)
    BY <1>1, <1>2
  <2>2. tx'[t].taken = [tx[t].taken EXCEPT ![Lines[c][n].product] = @ + Lines[c][n].quantity]
    BY <1>5
  <2> HIDE DEF c, n
  <2> QED BY <2>1, <2>2, LineTaken
<1>9. TxInv(t)'
  <2>1. RequestOK(t)' /\ KeyHeld(t)' /\ CustomerHeld(t)'
    BY <1>1, <1>5, <1>6 DEF TxInv, RequestOK, KeyHeld, CustomerHeld, AfterLine
  <2>2. LinesTaken(t)'
    <3>1. CASE n < Len(Lines[c])
      <4>1. tx'[t].pc = "line" /\ n + 1 \in DOMAIN Lines[c] /\ (n + 1) - 1 = n
        <5>1. tx'[t].pc = "line"
          BY <1>5, <3>1 DEF AfterLine
        <5>2. n \in Nat /\ Len(Lines[c]) \in Nat /\ DOMAIN Lines[c] = 1..Len(Lines[c])
          BY <1>2, <1>3
        <5> HIDE DEF n, c
        <5> QED BY <5>1, <5>2, <3>1
      <4>2. tx'[t].line = n + 1 /\ tx'[t].request = c
        BY <1>5
      <4> HIDE DEF n, c
      <4>3. tx'[t].line \in DOMAIN Lines[tx'[t].request]
            /\ tx'[t].taken = TakenBy(tx'[t].request, tx'[t].line - 1)
        BY <1>8, <4>1, <4>2
      <4> QED BY <4>1, <4>3 DEF LinesTaken
    <3>2. CASE ~(n < Len(Lines[c]))
      <4>1. n = Len(Lines[c])
        BY <1>2, <1>3, <3>2
      <4>2. tx'[t].pc \in {"exposure", "post"}
        BY <1>5, <3>2 DEF AfterLine
      <4>3. tx'[t].taken = c.demand
        BY <1>1, <1>8, <4>1, AllTaken
      <4> QED BY <1>5, <4>2, <4>3 DEF LinesTaken
    <3> QED BY <3>1, <3>2
  <2>3. StockHeld(t)'
    <3>1. stock[p] \in Int /\ stock[p] - tx[t].taken[p] >= q
      BY <1>1, <1>3 DEF TakeLine, Available, Line, TypeOK
    <3>2. tx'[t].taken[p] <= stock[p] /\ <<"stock", p>> \in held'[t]
      <4>1. tx'[t].taken[p] = tx[t].taken[p] + q
        <5>1. p \in Product /\ tx[t].taken \in [Product -> Nat]
              /\ tx'[t].taken = [tx[t].taken EXCEPT ![p] = @ + q]
          BY <1>2, <1>3, <1>5
        <5> HIDE DEF p, q
        <5> QED BY <5>1
      <4>2. tx[t].taken[p] \in Nat /\ q \in Nat /\ stock[p] \in Int
        BY <1>2, <1>3, <3>1
      <4>3. tx[t].taken[p] + q <= stock[p]
        <5> DEFINE a == tx[t].taken[p]
                   b == stock[p]
        <5>1. a \in Nat /\ q \in Nat /\ b \in Int /\ b - a >= q
          BY <3>1, <4>2
        <5> HIDE DEF a, b, p, q
        <5>2. a + q <= b
          BY <5>1
        <5> QED BY <5>2 DEF a, b
      <4>4. <<"stock", p>> \in held'[t]
        <5>1. held'[t] = held[t] \cup Wanted(t)
          BY <1>5
        <5> HIDE DEF p
        <5> QED BY <1>7, <5>1
      <4>5. tx'[t].taken[p] <= stock[p]
        <5> HIDE DEF p, q
        <5> QED BY <4>1, <4>3
      <4> QED BY <4>4, <4>5
    <3>3. ASSUME NEW r \in Product, r # p, tx'[t].taken[r] > 0
          PROVE  <<"stock", r>> \in held'[t] /\ tx'[t].taken[r] <= stock[r]
      BY <1>1, <1>2, <1>5, <3>3 DEF TxInv, StockHeld
    <3> QED BY <1>6, <3>2, <3>3 DEF StockHeld
  <2>4. LimitChecked(t)'
    BY <1>5 DEF LimitChecked, AfterLine
  <2> QED
    BY <1>1, <1>5, <2>1, <2>2, <2>3, <2>4 DEF TxInv, OriginalRead, ResultKnown, AfterLine
<1> QED
  BY <1>4, <1>9, StepInv

LEMMA CheckExposureInv ==
  ASSUME TypeOK, PgInv, NEW t \in Tx, CheckExposure(t)
  PROVE  PgInv'
<1>1. Typed /\ TxInv(t) /\ At(t, "exposure") /\ Selling(t) /\ tx[t] \in Transaction
      /\ Step(t, "post", tx[t])
  BY DEF PgInv, CheckExposure, TxInv, RequestOK, Typed
<1>2. "post" \in Pc
  BY DEF Pc
<1>3. /\ tx'[t].pc = "post" /\ tx'[t].slot = tx[t].slot
      /\ tx'[t].request = tx[t].request /\ tx'[t].read = tx[t].read
      /\ tx'[t].line = tx[t].line /\ tx'[t].taken = tx[t].taken
      /\ held'[t] = held[t] \cup Wanted(t) /\ UNCHANGED books
  BY <1>1, <1>2, StepWrites
<1>4. Posted' = Posted /\ UNCHANGED <<claims, account, stock, exposure>>
  BY <1>3 DEF books, Posted
<1>5. TxInv(t)'
  <2>1. RequestOK(t)' /\ KeyHeld(t)' /\ CustomerHeld(t)'
    BY <1>1, <1>3, <1>4 DEF TxInv, RequestOK, KeyHeld, CustomerHeld
  <2>2. LinesTaken(t)' /\ StockHeld(t)'
    BY <1>1, <1>3, <1>4 DEF TxInv, LinesTaken, StockHeld
  <2>3. LimitChecked(t)'
    <3>1. /\ exposure[tx[t].request.customer] >= 0
          /\ exposure[tx[t].request.customer] + Total(tx[t].request) <= tx[t].read.limit
      BY <1>1 DEF CheckExposure, FitsLimit, CustomerOf
    <3>2. tx[t].read = account[tx[t].request.customer]
      BY <1>1 DEF TxInv, CustomerHeld
    <3> QED BY <1>3, <1>4, <3>1, <3>2 DEF LimitChecked
  <2> QED
    BY <1>1, <1>3, <2>1, <2>2, <2>3 DEF TxInv, OriginalRead, ResultKnown
<1> QED
  BY <1>1, <1>2, <1>5, StepInv

LEMMA UndoInv ==
  ASSUME TypeOK, PgInv, NEW t \in Tx, Undo(t)
  PROVE  PgInv'
<1>1. Typed /\ TxInv(t) /\ At(t, "undo") /\ Reversing(t) /\ tx[t] \in Transaction
      /\ Step(t, "post", tx[t])
  BY DEF PgInv, Undo, TxInv, RequestOK, Typed
<1>2. "post" \in Pc
  BY DEF Pc
<1>3. /\ tx'[t].pc = "post" /\ tx'[t].slot = tx[t].slot
      /\ tx'[t].request = tx[t].request /\ tx'[t].read = tx[t].read
      /\ held'[t] = held[t] \cup Wanted(t) /\ UNCHANGED books
  BY <1>1, <1>2, StepWrites
<1>4. Posted' = Posted /\ UNCHANGED <<claims, sales>>
  BY <1>3 DEF books, Posted
<1>5. Wanted(t) = {<<"share", sales[tx[t].request].command.customer>>}
  BY <1>1 DEF Wanted, CustomerOf
<1>6. TxInv(t)'
  <2>1. RequestOK(t)' /\ KeyHeld(t)' /\ OriginalRead(t)'
    BY <1>1, <1>3, <1>4, <1>5 DEF TxInv, RequestOK, KeyHeld, OriginalRead
  <2> QED
    BY <1>1, <1>3, <2>1 DEF TxInv, CustomerHeld, LinesTaken, StockHeld,
                            LimitChecked, ResultKnown
<1> QED
  BY <1>1, <1>2, <1>6, StepInv

LEMMA BeginInv ==
  ASSUME TypeOK, PgInv, NEW t \in Tx, NEW x \in Slot, NEW request, Begin(t, x, request),
         x[1] = "complete" => request \in Command,
         x[1] = "reverse" => request \in Posted
  PROVE  PgInv'
<1>1. Typed /\ LocksExclusive /\ AnswersKept /\ \A u \in Tx : TxInv(u)
  BY DEF PgInv
<1> DEFINE new == [Idle EXCEPT !.pc = "claim", !.slot = x, !.request = request]
<1>2. new \in Transaction
  <2>1. request \in Command \cup SaleId
    BY DEF Slot, Op, Posted
  <2> QED BY <2>1 DEF Transaction, Idle, Nothing, Pc
<1>3. /\ new.pc = "claim" /\ new.slot = x /\ new.request = request
      /\ new.line = 1 /\ new.taken = Nothing
  BY DEF Idle
<1>4. tx' = [tx EXCEPT ![t] = new] /\ UNCHANGED <<books, held, answers>>
  BY DEF Begin
<1> HIDE DEF new
<1>5. /\ tx' \in [Tx -> Transaction] /\ tx'[t] = new
      /\ \A u \in Tx \ {t} : tx'[u] = tx[u]
  BY <1>1, <1>2, <1>4 DEF Typed
<1>6. Posted' = Posted /\ Claimed' = Claimed /\ claims' = claims
  BY <1>4 DEF books, Posted, Claimed
<1>7. TxInv(t)'
  BY <1>3, <1>5, <1>6 DEF TxInv, RequestOK, KeyHeld, CustomerHeld, OriginalRead,
                           LinesTaken, StockHeld, LimitChecked, ResultKnown
<1>8. \A u \in Tx \ {t} : TxInv(u)'
  BY <1>1, <1>4, <1>5, BooksUntouched
<1>9. Typed' /\ LocksExclusive' /\ AnswersKept'
  BY <1>1, <1>4, <1>5, <1>6 DEF Typed, LocksExclusive, Conflicts, AnswersKept, Answered
<1> QED
  BY <1>7, <1>8, <1>9 DEF PgInv

\* However a transaction ends, what it held and had read is gone with it.
LEMMA EndInv ==
  ASSUME TypeOK, PgInv, NEW t \in Tx, End(t), AnswersKept'
  PROVE  PgInv'
<1>1. Typed /\ LocksExclusive /\ \A u \in Tx : TxInv(u)
  BY DEF PgInv
<1>2. /\ tx' = [tx EXCEPT ![t] = Idle] /\ held' = [held EXCEPT ![t] = {}]
      /\ UNCHANGED books
  BY DEF End
<1>3. Idle \in Transaction /\ Idle.pc = "idle"
  BY DEF Idle, Transaction, Nothing, Pc
<1>4. /\ tx' \in [Tx -> Transaction] /\ tx'[t] = Idle
      /\ \A u \in Tx \ {t} : tx'[u] = tx[u] /\ held'[u] = held[u]
  BY <1>1, <1>2, <1>3 DEF Typed
<1>5. LocksExclusive' /\ held' \in [Tx -> SUBSET Locks]
  BY <1>1, <1>2, ReleasedLocks
<1>6. TxInv(t)'
  BY <1>3, <1>4 DEF TxInv, RequestOK, KeyHeld, CustomerHeld, OriginalRead,
                     LinesTaken, StockHeld, LimitChecked, ResultKnown
<1>7. \A u \in Tx \ {t} : TxInv(u)'
  BY <1>1, <1>2, <1>4, BooksUntouched
<1> QED
  BY <1>4, <1>5, <1>6, <1>7 DEF PgInv, Typed

LEMMA EndingsInv ==
  ASSUME TypeOK, PgInv, NEW t \in Tx,
         Respond(t) \/ LoseResponse(t) \/ Refuse(t) \/ AbortDeadlock(t) \/ Abort(t)
  PROVE  PgInv'
<1>1. AnswersKept /\ TxInv(t) /\ tx[t] \in Transaction
  BY DEF PgInv, Typed
<1>2. End(t)
  BY DEF Respond, LoseResponse, Refuse, AbortDeadlock, Abort
<1>3. UNCHANGED books
  BY <1>2 DEF End
<1>4. Claimed' = Claimed /\ claims' = claims
  BY <1>3 DEF books, Claimed
<1>5. CASE Respond(t)
  <2> DEFINE a == [slot |-> tx[t].slot, request |-> tx[t].request,
                   result |-> tx[t].result]
  <2>1. answers' = answers \cup {a}
    BY <1>5 DEF Respond
  <2>2. Answered(tx[t].slot, tx[t].request, tx[t].result)
    BY <1>1, <1>5 DEF Respond, TxInv, ResultKnown
  <2>3. tx[t].slot[1] = "reverse" => tx[t].request \in SaleId
    BY <1>1, <1>5 DEF Respond, TxInv, RequestOK, Posted
  <2>4. /\ a = [slot |-> a.slot, request |-> a.request, result |-> a.result]
        /\ a.slot \in Claimed'
        /\ claims'[a.slot].request = a.request /\ claims'[a.slot].result = a.result
        /\ a.slot[1] = "reverse" => a.request \in SaleId
    BY <1>4, <2>2, <2>3 DEF Answered
  <2>5. \A b \in answers :
          /\ b = [slot |-> b.slot, request |-> b.request, result |-> b.result]
          /\ b.slot \in Claimed'
          /\ claims'[b.slot].request = b.request /\ claims'[b.slot].result = b.result
          /\ b.slot[1] = "reverse" => b.request \in SaleId
    BY <1>1, <1>4 DEF AnswersKept, Answered
  <2> HIDE DEF a
  <2>6. AnswersKept'
    BY <2>1, <2>4, <2>5 DEF AnswersKept, Answered
  <2> QED BY <1>2, <2>6, EndInv
<1>6. CASE UNCHANGED answers
  <2>1. AnswersKept'
    BY <1>1, <1>4, <1>6 DEF AnswersKept, Answered
  <2> QED BY <1>2, <2>1, EndInv
<1> QED
  BY <1>5, <1>6 DEF LoseResponse, Refuse, AbortDeadlock, Abort

LEMMA ReplayInv ==
  ASSUME TypeOK, PgInv, NEW t \in Tx, Replay(t)
  PROVE  PgInv'
<1>1. Typed /\ LocksExclusive /\ AnswersKept /\ \A u \in Tx : TxInv(u)
  BY DEF PgInv
<1>2. /\ At(t, "replay") /\ tx' = [tx EXCEPT ![t] = [tx[t] EXCEPT !.pc = "done"]]
      /\ held' = [held EXCEPT ![t] = {}] /\ UNCHANGED <<books, answers>>
  BY DEF Replay
<1>3. [tx[t] EXCEPT !.pc = "done"] \in Transaction
  BY <1>1 DEF Typed, Transaction, Pc
<1>4. /\ tx' \in [Tx -> Transaction]
      /\ tx'[t].pc = "done" /\ tx'[t].slot = tx[t].slot
      /\ tx'[t].request = tx[t].request /\ tx'[t].result = tx[t].result
      /\ \A u \in Tx \ {t} : tx'[u] = tx[u] /\ held'[u] = held[u]
  <2>1. tx[t] \in Transaction
    BY <1>1 DEF Typed
  <2> QED BY <1>1, <1>2, <1>3, <2>1 DEF Typed, Transaction
<1>5. LocksExclusive' /\ held' \in [Tx -> SUBSET Locks]
  BY <1>1, <1>2, ReleasedLocks
<1>6. Posted' = Posted /\ Claimed' = Claimed /\ claims' = claims
  BY <1>2 DEF books, Posted, Claimed
<1>7. TxInv(t)'
  <2>1. RequestOK(t)' /\ ResultKnown(t)'
    BY <1>1, <1>2, <1>4, <1>6 DEF TxInv, RequestOK, ResultKnown, Answered
  <2> QED
    BY <1>4, <2>1 DEF TxInv, KeyHeld, CustomerHeld, OriginalRead, LinesTaken,
                      StockHeld, LimitChecked
<1>8. \A u \in Tx \ {t} : TxInv(u)'
  BY <1>1, <1>2, <1>4, BooksUntouched
<1>9. AnswersKept'
  BY <1>1, <1>2, <1>6 DEF AnswersKept, Answered
<1> QED
  BY <1>4, <1>5, <1>7, <1>8, <1>9 DEF PgInv, Typed

-----------------------------------------------------------------------------
(* Commits *)

\* No other transaction holds a lock that t holds, unless it is a share.
LEMMA OnlyHolder ==
  ASSUME LocksExclusive, NEW t \in Tx, NEW u \in Tx \ {t}, NEW x
  PROVE  /\ \A kind \in {"key", "update", "sale", "stock"} :
              <<kind, x>> \in held[t] => <<kind, x>> \notin held[u]
         /\ <<"share", x>> \in held[t] => <<"update", x>> \notin held[u]
<1>1. \A l \in held[t], m \in held[u] : ~Conflicts(l, m)
  BY DEF LocksExclusive
<1>2. \A kind \in {"key", "update", "sale", "stock"} :
        Conflicts(<<kind, x>>, <<kind, x>>)
  BY DEF Conflicts
<1>3. Conflicts(<<"share", x>>, <<"update", x>>)
  BY DEF Conflicts
<1> QED BY <1>1, <1>2, <1>3

LEMMA FreshId ==
  ASSUME Posted # SaleId
  PROVE  NewId \in SaleId /\ sales[NewId] = NoSale /\ NewId \notin Posted
<1>1. \E id \in SaleId : sales[id] = NoSale
  BY DEF Posted
<1>2. NewId \in SaleId /\ sales[NewId] = NoSale
  BY <1>1 DEF NewId
<1> QED BY <1>2 DEF Posted

\* t commits: it keeps its answer, and the others' locks saw to the rest.
LEMMA CommitInv ==
  ASSUME TypeOK, PgInv, NEW t \in Tx, NEW id \in SaleId, Commit(t, id),
         At(t, "post"),
         tx[t].slot \in Claimed', claims'[tx[t].slot].request = tx[t].request,
         claims'[tx[t].slot].result = id,
         \A s \in Posted : /\ s \in Posted'
                           /\ sales'[s].type = sales[s].type
                           /\ sales'[s].command = sales[s].command,
         \A x \in Claimed : x \in Claimed' /\ claims'[x] = claims[x],
         \A u \in Tx \ {t} :
           /\ \A x \in Slot : <<"key", x>> \in held[u] => claims'[x] = claims[x]
           /\ \A c \in Customer : <<"update", c>> \in held[u] =>
                                    exposure'[c] = exposure[c]
           /\ \A p \in Product : <<"stock", p>> \in held[u] =>
                stock[p] \in Int /\ stock'[p] \in Int /\ stock'[p] >= stock[p]
  PROVE  PgInv'
<1>1. Typed /\ LocksExclusive /\ AnswersKept /\ \A u \in Tx : TxInv(u)
  BY DEF PgInv
<1>2. /\ tx' = [tx EXCEPT ![t] = [tx[t] EXCEPT !.pc = "done", !.result = id]]
      /\ held' = [held EXCEPT ![t] = {}] /\ UNCHANGED <<account, answers>>
  BY <1>1 DEF Commit, Typed
<1>3. tx[t] \in Transaction
  BY <1>1 DEF Typed
<1> DEFINE new == [tx[t] EXCEPT !.pc = "done", !.result = id]
<1>4. /\ new \in Transaction /\ new.pc = "done" /\ new.slot = tx[t].slot
      /\ new.request = tx[t].request /\ new.result = id
  BY <1>3 DEF Transaction, Pc
<1>5. tx' = [tx EXCEPT ![t] = new]
  BY <1>2
<1> HIDE DEF new
<1>6. /\ tx' \in [Tx -> Transaction] /\ tx'[t] = new
      /\ \A u \in Tx \ {t} : tx'[u] = tx[u] /\ held'[u] = held[u]
  BY <1>1, <1>2, <1>4, <1>5 DEF Typed
<1>7. LocksExclusive' /\ held' \in [Tx -> SUBSET Locks]
  BY <1>1, <1>2, ReleasedLocks
<1>8. TxInv(t)'
  <2>1. RequestOK(t)'
    BY <1>1, <1>4, <1>6 DEF TxInv, RequestOK
  <2>2. ResultKnown(t)'
    BY <1>4, <1>6 DEF ResultKnown, Answered
  <2> QED
    BY <1>4, <1>6, <2>1, <2>2 DEF TxInv, KeyHeld, CustomerHeld, OriginalRead,
                                  LinesTaken, StockHeld, LimitChecked
<1>9. ASSUME NEW u \in Tx \ {t} PROVE TxInv(u)'
  BY <1>1, <1>2, <1>6, <1>9, Bystander
<1>10. AnswersKept'
  BY <1>1, <1>2 DEF AnswersKept, Answered
<1> QED
  BY <1>6, <1>7, <1>8, <1>9, <1>10 DEF PgInv, Typed

LEMMA SameWrites ==
  ASSUME NEW k, NEW c, NEW d, NEW s, NEW id
  PROVE  /\ Serial!PostSale(k, c, d, id) <=> PostSale(k, c, d, id)
         /\ Serial!PostReversal(k, s, id) <=> PostReversal(k, s, id)
<1>1. Serial!PostSale(k, c, d, id) <=> PostSale(k, c, d, id)
  BY DEF Serial!PostSale, Serial!AppendRows, Serial!RecordEvents,
         Serial!CompleteIdempotency, Serial!SaleRecord, Serial!SaleRows,
         Serial!SaleJournal, Serial!Total, Serial!Account,
         PostSale, AppendRows, RecordEvents, CompleteIdempotency, SaleRecord,
         SaleRows, SaleJournal, Total, Account
<1>2. Serial!PostReversal(k, s, id) <=> PostReversal(k, s, id)
  BY DEF Serial!PostReversal, Serial!AppendRows, Serial!RecordEvents,
         Serial!CompleteIdempotency, Serial!ReversalRecord, Serial!ReversalRows,
         Serial!Account, PostReversal, AppendRows, RecordEvents,
         CompleteIdempotency, ReversalRecord, ReversalRows, Account
<1> QED BY <1>1, <1>2

\* The checks a sale made one by one all hold when it commits.
LEMMA SaleCommits ==
  ASSUME TypeOK, StockNeverNegative, PgInv, NEW t \in Tx, CommitSale(t)
  PROVE  Serial!Complete(tx[t].slot[2], tx[t].request, NewId)
<1> DEFINE c == tx[t].request
           k == tx[t].slot[2]
<1>1. Typed /\ TxInv(t) /\ At(t, "post") /\ Selling(t)
  BY DEF PgInv, CommitSale
<1>2. tx[t].slot = <<"complete", k>> /\ k \in Key /\ c \in Command
  BY <1>1 DEF TxInv, RequestOK, Slot, Op
<1>3. Serial!Unclaimed(<<"complete", k>>)
  BY <1>1, <1>2 DEF TxInv, KeyHeld, Serial!Unclaimed
<1>4. Serial!Eligible(c)
  BY <1>1 DEF TxInv, CustomerHeld, Serial!Eligible
<1>5. tx[t].taken = c.demand
  BY <1>1 DEF TxInv, LinesTaken
<1>6. Serial!InStock(c)
  <2>1. c.demand \in [Product -> Nat]
    BY <1>2, CommandAssumption
  <2>2. ASSUME NEW p \in Product PROVE stock[p] >= c.demand[p]
    <3>1. c.demand[p] \in Nat /\ stock[p] \in Int /\ stock[p] >= 0
      BY <2>1 DEF StockNeverNegative, TypeOK
    <3>2. c.demand[p] > 0 => c.demand[p] <= stock[p]
      BY <1>1, <1>5 DEF TxInv, StockHeld
    <3> HIDE DEF c
    <3> QED BY <3>1, <3>2
  <2> QED BY <2>2 DEF Serial!InStock
<1>7. Serial!WithinLimit(c)
  BY <1>1 DEF TxInv, LimitChecked, Serial!WithinLimit, Serial!Total, Total
<1>8. Serial!Fresh(NewId)
  BY FreshId DEF CommitSale, Serial!Fresh
<1>9. Serial!PostSale(k, c, c.demand, NewId)
  BY <1>5, SameWrites DEF CommitSale
<1>10. UNCHANGED account
  BY DEF CommitSale, Commit
<1> QED
  BY <1>3, <1>4, <1>6, <1>7, <1>8, <1>9, <1>10 DEF Serial!Complete

LEMMA CommitSaleInv ==
  ASSUME TypeOK, PgInv, NEW t \in Tx, CommitSale(t)
  PROVE  PgInv'
<1> DEFINE c == tx[t].request
           k == tx[t].slot[2]
           x == tx[t].slot
           id == NewId
<1>1. Typed /\ LocksExclusive /\ TxInv(t) /\ At(t, "post") /\ Selling(t)
      /\ Commit(t, id)
  BY DEF PgInv, CommitSale
<1>2. x = <<"complete", k>> /\ x \in Slot /\ c \in Command
  BY <1>1 DEF TxInv, RequestOK, Slot, Op
<1>3. id \in SaleId /\ id \notin Posted /\ sales[id] = NoSale
  BY FreshId DEF CommitSale
<1>4. /\ sales' = [sales EXCEPT ![id] = SaleRecord(c)]
      /\ stock' = [p \in Product |-> stock[p] + SaleRows(c, tx[t].taken).moved[p]]
      /\ exposure' = [exposure EXCEPT ![c.customer] =
                        @ + SaleRows(c, tx[t].taken).owed]
      /\ claims' = [claims EXCEPT ![x] = [request |-> c, result |-> id]]
  BY <1>2 DEF CommitSale, PostSale, AppendRows, CompleteIdempotency
<1>5. /\ [request |-> c, result |-> id] \in Claim
      /\ [request |-> c, result |-> id] # NoSale
  BY <1>2, <1>3, NoSaleAssumption DEF Claim
<1>6. /\ x \in Claimed' /\ claims'[x].request = c /\ claims'[x].result = id
      /\ \A y \in Slot \ {x} : claims'[y] = claims[y]
  BY <1>2, <1>4, <1>5 DEF Claimed, TypeOK
<1>7. <<"key", x>> \in held[t] /\ claims[x] = NoSale
  BY <1>1 DEF TxInv, KeyHeld
<1>8. <<"update", c.customer>> \in held[t]
  BY <1>1 DEF TxInv, CustomerHeld
<1>9. \A y \in Claimed : y \in Claimed' /\ claims'[y] = claims[y]
  BY <1>6, <1>7 DEF Claimed
<1>10. \A s \in Posted : /\ s \in Posted'
                         /\ sales'[s].type = sales[s].type
                         /\ sales'[s].command = sales[s].command
  BY <1>3, <1>4 DEF Posted, TypeOK
<1>11. ASSUME NEW u \in Tx \ {t}
       PROVE  /\ \A y \in Slot : <<"key", y>> \in held[u] => claims'[y] = claims[y]
              /\ \A d \in Customer : <<"update", d>> \in held[u] =>
                                       exposure'[d] = exposure[d]
              /\ \A p \in Product : <<"stock", p>> \in held[u] =>
                   stock[p] \in Int /\ stock'[p] \in Int /\ stock'[p] >= stock[p]
  <2>1. \A y \in Slot : <<"key", y>> \in held[u] => claims'[y] = claims[y]
    BY <1>1, <1>6, <1>7, OnlyHolder
  <2>2. ASSUME NEW d \in Customer, <<"update", d>> \in held[u]
        PROVE  exposure'[d] = exposure[d]
    <3>1. d # c.customer
      BY <1>1, <1>8, <2>2, OnlyHolder
    <3> QED BY <1>4, <3>1 DEF TypeOK
  <2>3. ASSUME NEW p \in Product, <<"stock", p>> \in held[u]
        PROVE  stock[p] \in Int /\ stock'[p] \in Int /\ stock'[p] >= stock[p]
    <3>1. tx[t].taken[p] \in Nat /\ stock[p] \in Int
      BY <1>1 DEF Typed, Transaction, TypeOK
    <3>2. <<"stock", p>> \notin held[t]
      BY <1>1, <2>3, OnlyHolder
    <3>3. ~(tx[t].taken[p] > 0)
      BY <1>1, <3>2 DEF TxInv, StockHeld
    <3>4. stock'[p] = stock[p] + -tx[t].taken[p]
      BY <1>4 DEF SaleRows
    <3> QED BY <3>1, <3>3, <3>4
  <2> QED BY <2>1, <2>2, <2>3
<1> HIDE DEF c, k, x, id
<1> QED
  BY <1>1, <1>3, <1>6, <1>9, <1>10, <1>11, CommitInv DEF c, x

\* A reversal commits what the serial one would: its original is a sale still,
\* and MarkSaleReversed found it POSTED.
LEMMA ReversalCommits ==
  ASSUME TypeOK, PgInv, NEW t \in Tx, CommitReversal(t)
  PROVE  Serial!Reverse(tx[t].slot[2], tx[t].request, NewId)
<1> DEFINE s == tx[t].request
           k == tx[t].slot[2]
<1>1. Typed /\ TxInv(t) /\ At(t, "post") /\ Reversing(t)
  BY DEF PgInv, CommitReversal
<1>2. tx[t].slot = <<"reverse", k>> /\ k \in Key /\ s \in Posted
  BY <1>1 DEF TxInv, RequestOK, Slot, Op
<1>3. Serial!Unclaimed(<<"reverse", k>>)
  BY <1>1, <1>2 DEF TxInv, KeyHeld, Serial!Unclaimed
<1>4. Serial!Reversible(s)
  BY <1>1, <1>2 DEF TxInv, OriginalRead, CommitReversal, Posted, Serial!Reversible
<1>5. Serial!Fresh(NewId)
  BY FreshId DEF CommitReversal, Serial!Fresh
<1>6. Serial!PostReversal(k, s, NewId)
  BY SameWrites DEF CommitReversal
<1>7. UNCHANGED account
  BY DEF CommitReversal, Commit
<1> QED
  BY <1>3, <1>4, <1>5, <1>6, <1>7 DEF Serial!Reverse

LEMMA CommitReversalInv ==
  ASSUME Serial!IInv, PgInv, NEW t \in Tx, CommitReversal(t)
  PROVE  PgInv'
<1> DEFINE s == tx[t].request
           k == tx[t].slot[2]
           x == tx[t].slot
           id == NewId
           c == sales[s].command
<1>0. TypeOK /\ (\A r \in Posted : sales[r].type = "SALE" =>
                   rows[r] = SaleRows(sales[r].command, sales[r].command.demand))
  BY SerialMeans
<1>1. Typed /\ LocksExclusive /\ TxInv(t) /\ At(t, "post") /\ Reversing(t)
      /\ Commit(t, id)
  BY DEF PgInv, CommitReversal
<1>2. x = <<"reverse", k>> /\ x \in Slot /\ s \in Posted /\ s \in SaleId
  BY <1>1 DEF TxInv, RequestOK, Slot, Op, Posted
<1>3. id \in SaleId /\ id \notin Posted /\ sales[id] = NoSale
  BY FreshId DEF CommitReversal
<1>4. /\ sales' = [sales EXCEPT ![id] = ReversalRecord(s), ![s].status = "REVERSED"]
      /\ stock' = [p \in Product |-> stock[p] + ReversalRows(rows[s]).moved[p]]
      /\ exposure' = [exposure EXCEPT ![c.customer] = @ + ReversalRows(rows[s]).owed]
      /\ claims' = [claims EXCEPT ![x] = [request |-> s, result |-> id]]
  BY <1>2 DEF CommitReversal, PostReversal, AppendRows, CompleteIdempotency
<1>5. /\ [request |-> s, result |-> id] \in Claim
      /\ [request |-> s, result |-> id] # NoSale
  BY <1>2, <1>3, NoSaleAssumption DEF Claim
<1>6. /\ x \in Claimed' /\ claims'[x].request = s /\ claims'[x].result = id
      /\ \A y \in Slot \ {x} : claims'[y] = claims[y]
  BY <1>0, <1>2, <1>4, <1>5 DEF Claimed, TypeOK
<1>7. <<"key", x>> \in held[t] /\ claims[x] = NoSale
  BY <1>1 DEF TxInv, KeyHeld
<1>8. <<"share", c.customer>> \in held[t] /\ sales[s].type = "SALE"
  BY <1>1 DEF TxInv, OriginalRead
<1>9. \A y \in Claimed : y \in Claimed' /\ claims'[y] = claims[y]
  BY <1>6, <1>7 DEF Claimed
<1>10. \A r \in Posted : /\ r \in Posted'
                         /\ sales'[r].type = sales[r].type
                         /\ sales'[r].command = sales[r].command
  <2>1. /\ sales[s] \in Record /\ s # id
        /\ sales' = [[sales EXCEPT ![id] = ReversalRecord(s)] EXCEPT
                        ![s] = [sales[s] EXCEPT !.status = "REVERSED"]]
    BY <1>0, <1>2, <1>3, <1>4 DEF TypeOK, Posted
  <2>2. [sales[s] EXCEPT !.status = "REVERSED"] \in Record
    BY <2>1 DEF Record
  <2>3. sales'[s] = [sales[s] EXCEPT !.status = "REVERSED"] /\ s \in Posted'
    BY <1>0, <1>2, <2>1, <2>2, NoSaleAssumption DEF TypeOK, Posted
  <2>4. \A r \in Posted \ {s} : sales'[r] = sales[r] /\ r \in Posted'
    BY <1>0, <1>3, <2>1 DEF TypeOK, Posted
  <2>5. sales'[s].type = sales[s].type /\ sales'[s].command = sales[s].command
    BY <2>1, <2>3 DEF Record
  <2> QED BY <2>3, <2>4, <2>5
<1>11. ASSUME NEW u \in Tx \ {t}
       PROVE  /\ \A y \in Slot : <<"key", y>> \in held[u] => claims'[y] = claims[y]
              /\ \A d \in Customer : <<"update", d>> \in held[u] =>
                                       exposure'[d] = exposure[d]
              /\ \A p \in Product : <<"stock", p>> \in held[u] =>
                   stock[p] \in Int /\ stock'[p] \in Int /\ stock'[p] >= stock[p]
  <2>1. \A y \in Slot : <<"key", y>> \in held[u] => claims'[y] = claims[y]
    BY <1>1, <1>6, <1>7, OnlyHolder
  <2>2. ASSUME NEW d \in Customer, <<"update", d>> \in held[u]
        PROVE  exposure'[d] = exposure[d]
    <3>1. d # c.customer
      BY <1>1, <1>8, <2>2, OnlyHolder
    <3> QED BY <1>0, <1>4, <3>1 DEF TypeOK
  <2>3. ASSUME NEW p \in Product
        PROVE  stock[p] \in Int /\ stock'[p] \in Int /\ stock'[p] >= stock[p]
    <3>1. c \in Command
      BY <1>0, <1>2 DEF TypeOK, Posted, Record
    <3>2. c.demand[p] \in Nat /\ stock[p] \in Int
      BY <1>0, <3>1, CommandAssumption DEF TypeOK
    <3>3. ReversalRows(rows[s]).moved[p] = -(-c.demand[p])
      <4>1. rows[s] = SaleRows(c, c.demand)
        BY <1>0, <1>2, <1>8
      <4>2. rows[s].moved[p] = -c.demand[p]
        BY <4>1 DEF SaleRows
      <4> QED BY <4>2 DEF ReversalRows
    <3> QED BY <1>4, <3>2, <3>3
  <2> QED BY <2>1, <2>2, <2>3
<1> HIDE DEF c, k, x, id, s
<1> QED
  BY <1>0, <1>1, <1>3, <1>6, <1>9, <1>10, <1>11, CommitInv DEF s, x

-----------------------------------------------------------------------------
(* The other writers of the tables *)

\* They hold no locks between statements, and write a customer's rows only
\* where no transaction has it locked.
LEMMA OthersInv ==
  ASSUME TypeOK, PgInv, UNCHANGED <<tx, held, answers, sales, claims>>,
         \A u \in Tx :
           /\ \A c \in Customer : <<"update", c>> \in held[u] =>
                account'[c] = account[c] /\ exposure'[c] = exposure[c]
           /\ \A p \in Product : <<"stock", p>> \in held[u] =>
                stock[p] \in Int /\ stock'[p] \in Int /\ stock'[p] >= stock[p]
  PROVE  PgInv'
<1>1. Typed /\ LocksExclusive /\ AnswersKept /\ \A u \in Tx : TxInv(u)
  BY DEF PgInv
<1>2. Posted' = Posted /\ Claimed' = Claimed
  BY DEF Posted, Claimed
<1>3. ASSUME NEW u \in Tx PROVE TxInv(u)'
  <2>1. tx'[u] = tx[u] /\ held'[u] = held[u] /\ TxInv(u)
    BY <1>1
  <2> QED BY <1>1, <1>2, <2>1, Bystander
<1>4. Typed' /\ LocksExclusive' /\ AnswersKept'
  BY <1>1, <1>2 DEF Typed, LocksExclusive, Conflicts, AnswersKept, Answered
<1> QED
  BY <1>3, <1>4 DEF PgInv

LEMMA EnvironmentInv ==
  ASSUME TypeOK, PgInv, Environment
  PROVE  PgInv' /\ Serial!Environment
<1>1. UNCHANGED <<tx, held, answers>>
  BY DEF Environment
<1>2. \A p \in Product : stock[p] \in Int /\ stock[p] >= stock[p]
  BY DEF TypeOK
<1>3. ASSUME NEW p \in Product, NEW n \in Receipt, Receive(p, n)
      PROVE  PgInv' /\ Serial!Environment
  <2>1. UNCHANGED <<sales, claims, account, exposure>>
    BY <1>3 DEF Receive
  <2>2. n \in Nat /\ stock' = [stock EXCEPT ![p] = @ + n]
    BY <1>3, EnvironmentAssumption DEF Receive
  <2>3. \A q \in Product : stock[q] \in Int /\ stock'[q] \in Int /\ stock'[q] >= stock[q]
    BY <2>2 DEF TypeOK
  <2>4. Serial!Environment
    BY <1>3 DEF Serial!Environment, Serial!Receive, Receive
  <2> QED BY <1>1, <2>1, <2>3, <2>4, OthersInv
<1>4. ASSUME NEW c \in Customer, NEW a \in Payment, Unlocked(<<"share", c>>), Settle(c, a)
      PROVE  PgInv' /\ Serial!Environment
  <2>1. UNCHANGED <<sales, claims, account, stock>>
    BY <1>4 DEF Settle
  <2>2. \A u \in Tx : <<"update", c>> \notin held[u]
    BY <1>4 DEF Unlocked, Conflicts
  <2>3. \A d \in Customer \ {c} : exposure'[d] = exposure[d]
    BY <1>4 DEF Settle, TypeOK
  <2>4. Serial!Environment
    BY <1>4 DEF Serial!Environment, Serial!Settle, Settle
  <2> QED BY <1>1, <1>2, <2>1, <2>2, <2>3, <2>4, OthersInv
<1>5. ASSUME NEW c \in Customer, NEW s \in Terms,
             \A t \in Tx : <<"update", c>> \notin held[t], EditAccount(c, s)
      PROVE  PgInv' /\ Serial!Environment
  <2>1. UNCHANGED <<sales, claims, exposure, stock>>
    BY <1>5 DEF EditAccount
  <2>2. \A d \in Customer \ {c} : account'[d] = account[d]
    BY <1>5 DEF EditAccount, TypeOK
  <2>3. Serial!Environment
    BY <1>5 DEF Serial!Environment, Serial!EditAccount, EditAccount
  <2> QED BY <1>1, <1>2, <1>5, <2>1, <2>2, <2>3, OthersInv
<1> QED
  BY <1>3, <1>4, <1>5 DEF Environment

LEMMA NothingHappens ==
  ASSUME TypeOK, PgInv, UNCHANGED <<books, tx, held, answers>>
  PROVE  PgInv'
<1>1. UNCHANGED <<sales, claims, account, exposure, stock>>
  BY DEF books
<1>2. \A p \in Product : stock[p] \in Int /\ stock[p] >= stock[p]
  BY DEF TypeOK
<1> QED
  BY <1>1, <1>2, OthersInv

-----------------------------------------------------------------------------
(* Every step *)

LEMMA WorkInv ==
  ASSUME Serial!IInv, PgInv, NEW t \in Tx, Work(t) \/ Abort(t) \/ LoseResponse(t)
  PROVE  PgInv'
<1>1. TypeOK /\ StockNeverNegative
  BY SerialMeans
<1> QED
  BY <1>1, ClaimNewInv, ClaimKnownInv, ReplayInv, LockCustomerInv, LockOriginalInv,
     CheckPeriodInv, TakeLineInv, CheckExposureInv, UndoInv, CommitSaleInv,
     CommitReversalInv, EndingsInv DEF Work

LEMMA PgNextInv == Serial!IInv /\ PgInv /\ [Next]_vars => PgInv'
<1> SUFFICES ASSUME Serial!IInv, PgInv, [Next]_vars PROVE PgInv'
  OBVIOUS
<1>1. TypeOK
  BY SerialMeans
<1>2. ASSUME NEW t \in Tx, NEW k \in Key, NEW c \in Command,
             Begin(t, <<"complete", k>>, c)
      PROVE  PgInv'
  <2>1. <<"complete", k>> \in Slot
    BY DEF Slot, Op
  <2> QED BY <1>1, <1>2, <2>1, BeginInv
<1>3. ASSUME NEW t \in Tx, NEW k \in Key, NEW s \in Posted,
             Begin(t, <<"reverse", k>>, s)
      PROVE  PgInv'
  <2>1. <<"reverse", k>> \in Slot
    BY DEF Slot, Op
  <2> QED BY <1>1, <1>3, <2>1, BeginInv
<1>4. ASSUME NEW t \in Tx, Work(t) \/ Abort(t) \/ LoseResponse(t)
      PROVE  PgInv'
  BY <1>4, WorkInv
<1>5. CASE Environment
  BY <1>1, <1>5, EnvironmentInv
<1>6. CASE TurnPeriod \/ UNCHANGED vars
  BY <1>1, <1>6, NothingHappens DEF TurnPeriod, vars
<1> QED
  BY <1>2, <1>3, <1>4, <1>5, <1>6 DEF Next

\* A step that is no commit leaves the books alone, or is another writer's.
LEMMA WorkIsSerial ==
  ASSUME Serial!IInv, PgInv, NEW t \in Tx, Work(t) \/ Abort(t) \/ LoseResponse(t)
  PROVE  Serial!Next \/ UNCHANGED books
<1>1. TypeOK /\ StockNeverNegative
  BY SerialMeans
<1>2. Typed /\ TxInv(t)
  BY DEF PgInv
<1>3. CASE CommitSale(t)
  <2>1. Serial!Complete(tx[t].slot[2], tx[t].request, NewId)
    BY <1>1, <1>3, SaleCommits
  <2>2. tx[t].slot[2] \in Key /\ tx[t].request \in Command /\ NewId \in SaleId
    BY <1>2, <1>3, FreshId DEF CommitSale, TxInv, RequestOK, Slot
  <2> QED BY <2>1, <2>2 DEF Serial!Next
<1>4. CASE CommitReversal(t)
  <2>1. Serial!Reverse(tx[t].slot[2], tx[t].request, NewId)
    BY <1>1, <1>4, ReversalCommits
  <2>2. tx[t].slot[2] \in Key /\ tx[t].request \in SaleId /\ NewId \in SaleId
    BY <1>2, <1>4, FreshId DEF CommitReversal, TxInv, RequestOK, Slot, Posted
  <2> QED BY <2>1, <2>2 DEF Serial!Next
<1>5. CASE ~CommitSale(t) /\ ~CommitReversal(t)
  BY <1>5 DEF Work, ClaimNew, ClaimKnown, Replay, LockCustomer, LockOriginal,
     CheckPeriod, TakeLine, CheckExposure, Undo, Respond, Refuse, AbortDeadlock,
     Abort, LoseResponse, Step, End
<1> QED
  BY <1>3, <1>4, <1>5

LEMMA StepIsSerial ==
  Serial!IInv /\ PgInv /\ [Next]_vars => [Serial!Next]_Serial!books
<1> SUFFICES ASSUME Serial!IInv, PgInv, [Next]_vars
    PROVE Serial!Next \/ UNCHANGED books
  BY DEF books, Serial!books
<1>1. TypeOK
  BY SerialMeans
<1>2. ASSUME NEW t \in Tx, NEW x, NEW request, Begin(t, x, request)
      PROVE  UNCHANGED books
  BY <1>2 DEF Begin
<1>3. ASSUME NEW t \in Tx, Work(t) \/ Abort(t) \/ LoseResponse(t)
      PROVE  Serial!Next \/ UNCHANGED books
  BY <1>3, WorkIsSerial
<1>4. CASE Environment
  BY <1>1, <1>4, EnvironmentInv DEF Serial!Next
<1>5. CASE TurnPeriod \/ UNCHANGED vars
  BY <1>5 DEF TurnPeriod, vars
<1> QED
  BY <1>2, <1>3, <1>4, <1>5 DEF Next

LEMMA PgInit == Init => Serial!InitBooks /\ PgInv
<1> SUFFICES ASSUME Init PROVE Serial!InitBooks /\ PgInv
  OBVIOUS
<1>1. Serial!InitBooks
  BY DEF Init, InitBooks, NoRows, Account, Slot, Op,
         Serial!InitBooks, Serial!NoRows, Serial!Account, Serial!Slot, Serial!Op
<1>2. Idle \in Transaction /\ Idle.pc = "idle"
  BY DEF Idle, Transaction, Nothing, Pc
<1>3. /\ \A t \in Tx : tx[t] = Idle /\ held[t] = {}
      /\ answers = {} /\ Typed
  BY <1>2 DEF Init, Typed
<1>4. \A t \in Tx : TxInv(t)
  BY <1>2, <1>3 DEF TxInv, RequestOK, KeyHeld, CustomerHeld, OriginalRead,
                     LinesTaken, StockHeld, LimitChecked, ResultKnown
<1>5. LocksExclusive /\ AnswersKept
  BY <1>3 DEF LocksExclusive, AnswersKept
<1> QED
  BY <1>1, <1>3, <1>4, <1>5 DEF PgInv

\* The books keep the serial invariant and the transactions theirs: neither
\* holds without the other.  A commit is serial because of what its locks kept;
\* its checks survive the others' commits because those are serial.
THEOREM PgInductive == Spec => [](Serial!IInv /\ PgInv)
<1>1. Init => Serial!IInv /\ PgInv
  BY PgInit, SerialInit
<1>2. Serial!IInv /\ PgInv /\ [Next]_vars => (Serial!IInv /\ PgInv)'
  BY StepIsSerial, SerialNext, PgNextInv
<1> QED
  BY <1>1, <1>2, PTL DEF Spec

LEMMA ImplementsSerial == Spec => Serial!Spec
<1>1. Init => Serial!InitBooks
  BY PgInit
<1> QED
  BY <1>1, StepIsSerial, PgInductive, PTL DEF Spec, Serial!Spec

-----------------------------------------------------------------------------
(* What the handlers promise *)

\* Over PostgreSQL, at READ COMMITTED and with the locks the store takes, any
\* interleaving of any number of requests does to the books what the serial
\* service does, one whole request at a time.
THEOREM ImplementsLedger == Spec => LedgerSpec
BY ImplementsSerial, SerialIsLedger, PTL DEF LedgerSpec

\* What a transaction holds between statements has its type.
THEOREM PgTypeCorrect == Spec => []PgTypeOK
<1>1. Serial!IInv /\ PgInv => TypeOK /\ Typed
  BY SerialMeans DEF PgInv
<1>2. Init => open \in BOOLEAN /\ sent \in 0..MaxRequests
  BY BoundAssumption DEF Init
<1>3. open \in BOOLEAN /\ sent \in 0..MaxRequests /\ [Next]_vars =>
        (open \in BOOLEAN /\ sent \in 0..MaxRequests)'
  <2> SUFFICES ASSUME open \in BOOLEAN, sent \in 0..MaxRequests, [Next]_vars
      PROVE open' \in BOOLEAN /\ sent' \in 0..MaxRequests
    OBVIOUS
  <2>1. ASSUME NEW t \in Tx, NEW x, NEW request, Begin(t, x, request)
        PROVE  open' = open /\ sent' \in 0..MaxRequests
    BY <2>1, BoundAssumption DEF Begin
  <2>2. ASSUME NEW t \in Tx, Work(t) \/ Abort(t) \/ LoseResponse(t)
        PROVE  UNCHANGED <<open, sent>>
    BY <2>2 DEF Work, ClaimNew, ClaimKnown, Replay, LockCustomer, LockOriginal,
       CheckPeriod, TakeLine, CheckExposure, Undo, Respond, Refuse, AbortDeadlock,
       Abort, LoseResponse, Step, End, CommitSale, CommitReversal, Commit
  <2>3. CASE Environment \/ UNCHANGED vars
    BY <2>3 DEF Environment, vars
  <2>4. CASE TurnPeriod
    BY <2>4 DEF TurnPeriod
  <2> QED
    BY <2>1, <2>2, <2>3, <2>4 DEF Next
<1>4. TypeOK /\ Typed /\ open \in BOOLEAN /\ sent \in 0..MaxRequests => PgTypeOK
  BY DEF PgTypeOK, Typed, Transaction, Pc
<1> QED
  BY <1>1, <1>2, <1>3, <1>4, PgInductive, PTL DEF Spec

\* No interleaving of handlers oversells a product.
THEOREM PgNeverOversold == Spec => []StockNeverNegative
<1>1. Serial!IInv => StockNeverNegative
  BY SerialMeans
<1> QED
  BY <1>1, PgInductive, PTL

\* No interleaving of handlers reverses a sale twice, or a reversal at all.
THEOREM PgReversedOnce == Spec => []OneReversalPerSale
<1>1. Serial!IInv => OneReversalPerSale
  BY SerialMeans
<1> QED
  BY <1>1, PgInductive, PTL

\* All the answers a key was ever given are one answer, whichever handlers gave
\* them and however often the key was sent.
THEOREM AnswersAgree == Spec => []RepeatsAgree
<1>1. PgInv => RepeatsAgree
  <2> SUFFICES ASSUME PgInv, NEW a \in answers, NEW b \in answers, a.slot = b.slot
      PROVE a = b
    BY DEF RepeatsAgree
  <2>1. /\ a = [slot |-> a.slot, request |-> a.request, result |-> a.result]
        /\ b = [slot |-> b.slot, request |-> b.request, result |-> b.result]
        /\ a.request = b.request /\ a.result = b.result
    BY DEF PgInv, AnswersKept, Answered
  <2> QED BY <2>1
<1> QED
  BY <1>1, PgInductive, PTL

\* A posting raises a customer's exposure only to within the limit in force
\* when it commits, whatever was paid, reversed, sold or edited since the
\* handler read the limit and the exposure.
THEOREM PgCreditInLimit == Spec => CreditWithinLimit
<1>1. Serial!IInv /\ [Serial!Next]_Serial!books =>
        \A c \in Customer : exposure'[c] > exposure[c] => exposure'[c] <= account[c].limit
  BY Serial!CreditStep, EnvironmentAssumption, BoundsAssumption, CommandAssumption,
     NoSaleAssumption, TermsAssumption, CustomerAssumption
     DEF Serial!Record, Serial!Claim, Serial!IsFiniteSet, Record, Claim, IsFiniteSet,
         Serial!RaisedWithinLimit
<1>2. Serial!IInv /\ PgInv /\ [Next]_vars =>
        \A c \in Customer : exposure'[c] > exposure[c] => exposure'[c] <= account[c].limit
  BY <1>1, StepIsSerial
<1> QED
  BY <1>2, PgInductive, PTL DEF Spec, CreditWithinLimit

-----------------------------------------------------------------------------
(* What the serial service keeps true is true of the tables *)

LEMMA SerialSum ==
  ASSUME NEW f
  PROVE  Serial!SumFunction(f) = SumFunction(f)
BY DEF Serial!SumFunction, Serial!SumFunctionOnSet, Serial!FoldFunctionOnSet,
       Serial!MapThenFoldSet,
       SumFunction, SumFunctionOnSet, FoldFunctionOnSet, MapThenFoldSet

LEMMA SerialTables ==
  /\ Serial!LedgersShowStandingSales <=> LedgersShowStandingSales
  /\ Serial!SubledgerEqualsControl <=> SubledgerEqualsControl
  /\ Serial!DebitsEqualCredits <=> DebitsEqualCredits
  /\ Serial!OneClaimPerRecord <=> OneClaimPerRecord
  /\ Serial!OneEventPerRecord <=> OneEventPerRecord
<1>1. Serial!LedgersShowStandingSales <=> LedgersShowStandingSales
  BY SerialSum DEF Serial!LedgersShowStandingSales, Serial!Posted, Serial!Standing,
     Serial!Account, Serial!SaleJournal, Serial!Total,
     LedgersShowStandingSales, Posted, Standing, Account, SaleJournal, Total
<1>2. Serial!SubledgerEqualsControl <=> SubledgerEqualsControl
  BY SerialSum DEF Serial!SubledgerEqualsControl, SubledgerEqualsControl
<1>3. Serial!DebitsEqualCredits <=> DebitsEqualCredits
  BY DEF Serial!DebitsEqualCredits, DebitsEqualCredits
<1>4. Serial!OneClaimPerRecord <=> OneClaimPerRecord
  BY DEF Serial!OneClaimPerRecord, Serial!Claimed, Serial!Posted, Serial!Slot, Serial!Op,
         OneClaimPerRecord, Claimed, Posted, Slot, Op
<1>5. Serial!OneEventPerRecord <=> OneEventPerRecord
  BY DEF Serial!OneEventPerRecord, Serial!Claimed, Serial!Posted, Serial!Slot, Serial!Op,
         OneEventPerRecord, Claimed, Posted, Slot, Op
<1> QED BY <1>1, <1>2, <1>3, <1>4, <1>5

LEMMA SerialTheorems ==
  Serial!Spec => /\ []Serial!LedgersShowStandingSales
                 /\ []Serial!SubledgerEqualsControl
                 /\ []Serial!DebitsEqualCredits
                 /\ []Serial!OneClaimPerRecord
                 /\ []Serial!OneEventPerRecord
                 /\ Serial!PostedIsPermanent
BY Serial!LedgersShowSales, Serial!SubledgerReconciles, Serial!LedgerBalances,
   Serial!PostedOnce, Serial!AnnouncedOnce, Serial!CorrectedByReversal,
   EnvironmentAssumption, BoundsAssumption, CommandAssumption,
   NoSaleAssumption, TermsAssumption, CustomerAssumption
   DEF Serial!Record, Serial!Claim, Serial!IsFiniteSet, Record, Claim, IsFiniteSet

\* The ledgers, the subledger, the keys and the events of the shop stay in step
\* with its sales however the handlers' statements interleave, deadlock and
\* fail: at every moment, not only when the handlers are at rest.
THEOREM PgTablesAgree ==
  Spec => [](/\ LedgersShowStandingSales /\ SubledgerEqualsControl
             /\ DebitsEqualCredits /\ OneClaimPerRecord /\ OneEventPerRecord)
BY ImplementsSerial, SerialTheorems, SerialTables, PTL

\* No handler rewrites a posted record: corrections are linked reversals.
THEOREM PgCorrectedByReversal == Spec => PostedIsPermanent
<1>1. [Serial!Permanent]_Serial!books => [Permanent]_books
  BY DEF Serial!Permanent, Serial!books, Serial!Claimed, Serial!Posted, Serial!Slot,
         Serial!Op, Permanent, books, Claimed, Posted, Slot, Op
<1> QED
  BY <1>1, ImplementsSerial, SerialTheorems, PTL
     DEF Serial!PostedIsPermanent, PostedIsPermanent
-----------------------------------------------------------------------------
(* Waits.  A handler takes its locks in the order of the phases below, the   *)
(* products of its lines apart, and one whose transaction is over holds none *)

Phase(t) ==
  IF At(t, "claim") THEN 1
  ELSE IF AtOneOf(t, {"replay", "original"}) THEN 2
  ELSE IF AtOneOf(t, {"customer", "undo"}) THEN 3
  ELSE IF At(t, "line") THEN 4 ELSE 5

\* The phase that waits for a lock of this kind.
Rank(l) ==
  IF l[1] = "key" THEN 1 ELSE IF l[1] = "sale" THEN 2
  ELSE IF l[1] = "stock" THEN 4 ELSE 3

\* Between its lines a sale holds, of the products, those of earlier lines.
OfEarlierLine(t, l) ==
  \E i \in DOMAIN Lines[tx[t].request] :
    i < tx[t].line /\ l = <<"stock", Lines[tx[t].request][i].product>>

LocksInOrder(t) ==
  /\ AtOneOf(t, {"idle", "claim", "replay"}) => held[t] = {}
  /\ AtOneOf(t, {"customer", "original"}) => \A l \in held[t] : l[1] = "key"
  /\ At(t, "undo") \/ (At(t, "period") /\ Reversing(t)) =>
       \A l \in held[t] : l[1] \in {"key", "sale"}
  /\ At(t, "period") /\ Selling(t) => \A l \in held[t] : l[1] \in {"key", "update"}
  /\ At(t, "line") => \A l \in held[t] : l[1] \in {"key", "update"} \/ OfEarlierLine(t, l)

WaitInv == \A t \in Tx : LocksInOrder(t)

LEMMA LocksStay ==
  ASSUME NEW t \in Tx, LocksInOrder(t), tx'[t] = tx[t], held'[t] = held[t]
  PROVE  LocksInOrder(t)'
BY DEF LocksInOrder, OfEarlierLine

\* A statement that takes a lock and goes on.
LEMMA StepLocks ==
  ASSUME Typed, NEW t \in Tx, NEW pc \in Pc, NEW new \in Transaction, Step(t, pc, new),
         WaitInv, LocksInOrder(t)'
  PROVE  WaitInv'
<1>1. \A u \in Tx \ {t} : tx'[u] = tx[u] /\ held'[u] = held[u]
  BY StepWrites
<1>2. \A u \in Tx \ {t} : LocksInOrder(u)'
  BY <1>1, LocksStay DEF WaitInv
<1> QED BY <1>2 DEF WaitInv

LEMMA ClaimLocks ==
  ASSUME TypeOK, PgInv, WaitInv, NEW t \in Tx, ClaimNew(t) \/ ClaimKnown(t)
  PROVE  WaitInv'
<1>1. Typed /\ TxInv(t) /\ tx[t] \in Transaction /\ LocksInOrder(t) /\ At(t, "claim")
  BY DEF PgInv, Typed, WaitInv, ClaimNew, ClaimKnown
<1>2. held[t] = {}
  BY <1>1 DEF LocksInOrder
<1>3. CASE ClaimNew(t)
  <2> DEFINE pc == IF tx[t].slot[1] = "complete" THEN "customer" ELSE "original"
  <2>1. Step(t, pc, tx[t]) /\ pc \in Pc /\ Wanted(t) = {<<"key", tx[t].slot>>}
    BY <1>3 DEF ClaimNew, Pc, Wanted
  <2>2. tx'[t].pc \in {"customer", "original"} /\ held'[t] = held[t] \cup Wanted(t)
    BY <1>1, <2>1, StepWrites
  <2>3. LocksInOrder(t)'
    BY <1>2, <2>1, <2>2 DEF LocksInOrder
  <2> QED BY <1>1, <2>1, <2>3, StepLocks
<1>4. CASE ClaimKnown(t)
  <2> DEFINE new == [tx[t] EXCEPT !.result = claims[tx[t].slot].result]
  <2>1. Step(t, "replay", new) /\ "replay" \in Pc /\ Wanted(t) = {}
    BY <1>4 DEF ClaimKnown, Pc, Wanted
  <2>2. claims[tx[t].slot].result \in SaleId
    BY <1>1, <1>4 DEF ClaimKnown, TypeOK, Claim, TxInv, RequestOK
  <2>3. new \in Transaction
    BY <1>1, <2>2 DEF Transaction
  <2> HIDE DEF new
  <2>4. tx'[t].pc = "replay" /\ held'[t] = held[t] \cup Wanted(t)
    BY <1>1, <2>1, <2>3, StepWrites
  <2>5. LocksInOrder(t)'
    BY <1>2, <2>1, <2>4 DEF LocksInOrder
  <2> QED BY <1>1, <2>1, <2>3, <2>5, StepLocks
<1> QED BY <1>3, <1>4

LEMMA RowLocks ==
  ASSUME TypeOK, PgInv, WaitInv, NEW t \in Tx, LockCustomer(t) \/ LockOriginal(t)
  PROVE  WaitInv'
<1>1. Typed /\ TxInv(t) /\ tx[t] \in Transaction /\ LocksInOrder(t)
  BY DEF PgInv, Typed, WaitInv
<1>2. CASE LockCustomer(t)
  <2> DEFINE new == [tx[t] EXCEPT !.read = account[CustomerOf(t)]]
  <2>1. At(t, "customer") /\ Selling(t) /\ CustomerOf(t) \in Customer
    BY <1>1, <1>2, WantedExists DEF LockCustomer, TxInv, RequestOK
  <2>2. Step(t, "period", new) /\ "period" \in Pc
    BY <1>2 DEF LockCustomer, Pc
  <2>3. Wanted(t) = {<<"update", CustomerOf(t)>>}
    BY <2>1 DEF Wanted
  <2>4. account[CustomerOf(t)] \in Terms
    BY <2>1 DEF TypeOK
  <2>5. new \in Transaction /\ new.slot = tx[t].slot
    BY <1>1, <2>4 DEF Transaction
  <2> HIDE DEF new
  <2>6. /\ tx'[t].pc = "period" /\ tx'[t].slot = tx[t].slot
        /\ held'[t] = held[t] \cup Wanted(t)
    BY <1>1, <2>2, <2>5, StepWrites
  <2>7. \A l \in held[t] : l[1] = "key"
    BY <1>1, <2>1 DEF LocksInOrder
  <2>8. LocksInOrder(t)'
    BY <2>1, <2>3, <2>6, <2>7 DEF LocksInOrder
  <2> QED BY <1>1, <2>2, <2>5, <2>8, StepLocks
<1>3. CASE LockOriginal(t)
  <2> DEFINE new == [tx[t] EXCEPT !.read = sales[tx[t].request]]
  <2>1. At(t, "original") /\ Reversing(t) /\ tx[t].request \in Posted
    BY <1>1, <1>3 DEF LockOriginal, TxInv, RequestOK
  <2>2. Step(t, "period", new) /\ "period" \in Pc
    BY <1>3 DEF LockOriginal, Pc
  <2>3. Wanted(t) = {<<"sale", tx[t].request>>}
    BY <2>1 DEF Wanted
  <2>4. sales[tx[t].request] \in Record
    BY <2>1 DEF TypeOK, Posted
  <2>5. new \in Transaction /\ new.slot = tx[t].slot
    BY <1>1, <2>4 DEF Transaction
  <2> HIDE DEF new
  <2>6. /\ tx'[t].pc = "period" /\ tx'[t].slot = tx[t].slot
        /\ held'[t] = held[t] \cup Wanted(t)
    BY <1>1, <2>2, <2>5, StepWrites
  <2>7. \A l \in held[t] : l[1] = "key"
    BY <1>1, <2>1 DEF LocksInOrder
  <2>8. LocksInOrder(t)'
    BY <2>1, <2>3, <2>6, <2>7 DEF LocksInOrder
  <2> QED BY <1>1, <2>2, <2>5, <2>8, StepLocks
<1> QED BY <1>2, <1>3

\* No statement after the locked rows but the lines takes a lock others wait
\* for in turn.
LEMMA PlainLocks ==
  ASSUME TypeOK, PgInv, WaitInv, NEW t \in Tx, CheckPeriod(t) \/ CheckExposure(t) \/ Undo(t)
  PROVE  WaitInv'
<1>1. Typed /\ TxInv(t) /\ tx[t] \in Transaction /\ LocksInOrder(t)
  BY DEF PgInv, Typed, WaitInv
<1>2. CASE CheckPeriod(t)
  <2>1. At(t, "period") /\ Wanted(t) = {}
    BY <1>2 DEF CheckPeriod, Wanted
  <2>2. PICK pc \in {"line", "undo"} :
          /\ Step(t, pc, tx[t])
          /\ pc = "line" => Selling(t)
          /\ pc = "undo" => Reversing(t)
    BY <1>2 DEF CheckPeriod
  <2>3. pc \in Pc
    BY DEF Pc
  <2>4. Typed /\ tx[t] \in Transaction /\ Step(t, pc, tx[t])
    BY <1>1, <2>2
  <2>5. tx'[t].pc = pc
    BY <2>3, <2>4, StepWrites
  <2>6. held'[t] = held[t]
    <3>1. held'[t] = held[t] \cup Wanted(t)
      BY <2>3, <2>4, StepWrites
    <3> QED BY <2>1, <3>1
  <2>7. ASSUME pc = "line" PROVE LocksInOrder(t)'
    <3>1. \A l \in held[t] : l[1] \in {"key", "update"}
      BY <1>1, <2>1, <2>2, <2>7 DEF LocksInOrder
    <3>2. tx'[t].pc = "line"
      BY <2>5, <2>7
    <3> QED BY <2>6, <3>1, <3>2 DEF LocksInOrder
  <2>8. ASSUME pc = "undo" PROVE LocksInOrder(t)'
    <3>1. \A l \in held[t] : l[1] \in {"key", "sale"}
      BY <1>1, <2>1, <2>2, <2>8 DEF LocksInOrder
    <3>2. tx'[t].pc = "undo"
      BY <2>5, <2>8
    <3> QED BY <2>6, <3>1, <3>2 DEF LocksInOrder
  <2>9. LocksInOrder(t)'
    BY <2>2, <2>7, <2>8
  <2> QED BY <1>1, <2>2, <2>3, <2>9, StepLocks
<1>3. CASE CheckExposure(t) \/ Undo(t)
  <2>1. Step(t, "post", tx[t]) /\ "post" \in Pc
    BY <1>3 DEF CheckExposure, Undo, Pc
  <2>2. tx'[t].pc = "post"
    BY <1>1, <2>1, StepWrites
  <2>3. LocksInOrder(t)'
    BY <2>2 DEF LocksInOrder
  <2> QED BY <1>1, <2>1, <2>3, StepLocks
<1> QED BY <1>2, <1>3

LEMMA LineLocks ==
  ASSUME TypeOK, PgInv, WaitInv, NEW t \in Tx, TakeLine(t)
  PROVE  WaitInv'
<1> DEFINE c == tx[t].request
           n == tx[t].line
           p == Line(t).product
           f == [tx[t].taken EXCEPT ![p] = @ + Line(t).quantity]
           new == [tx[t] EXCEPT !.line = n + 1, !.taken = f]
<1>1. Typed /\ TxInv(t) /\ tx[t] \in Transaction /\ LocksInOrder(t) /\ At(t, "line")
  BY DEF PgInv, Typed, WaitInv, TakeLine
<1>2. c \in Command /\ n \in DOMAIN Lines[c] /\ n \in Nat /\ Line(t) = Lines[c][n]
  BY <1>1 DEF TxInv, RequestOK, LinesTaken, Transaction, Line
<1>3. p \in Product /\ Line(t).quantity \in Nat
  BY <1>2, LinesTyped
<1>4. f \in [Product -> Nat]
  <2> DEFINE g == tx[t].taken
             q == Line(t).quantity
  <2>1. g \in [Product -> Nat] /\ q \in Nat /\ p \in Product
    BY <1>1, <1>3 DEF Transaction
  <2> HIDE DEF g, p, q
  <2>2. [g EXCEPT ![p] = @ + q] \in [Product -> Nat]
    BY <2>1
  <2> QED BY <2>2 DEF g, q
<1>5. Step(t, AfterLine(t), new) /\ AfterLine(t) \in {"line", "exposure", "post"}
  BY <1>1 DEF TakeLine, AfterLine
<1>6. new \in Transaction /\ new.request = c /\ new.line = n + 1
  <2>1. n + 1 \in Nat
    BY <1>2
  <2> HIDE DEF f, p
  <2> QED BY <1>1, <1>4, <2>1 DEF Transaction
<1>7. Wanted(t) = {<<"stock", p>>}
  BY <1>1 DEF Wanted
<1>8. AfterLine(t) \in Pc
  BY <1>5 DEF Pc
<1> HIDE DEF new, f
<1>9. /\ tx'[t].pc = AfterLine(t) /\ tx'[t].request = new.request
      /\ tx'[t].line = new.line /\ held'[t] = held[t] \cup Wanted(t)
  BY <1>1, <1>5, <1>6, <1>8, StepWrites
<1>10. ASSUME NEW l \in held'[t]
       PROVE  l[1] \in {"key", "update"} \/ OfEarlierLine(t, l)'
  <2>0. tx'[t].request = c /\ tx'[t].line = n + 1
    BY <1>6, <1>9
  <2>1. CASE l = <<"stock", Lines[c][n].product>>
    <3>1. n < n + 1
      BY <1>2
    <3> HIDE DEF c, n
    <3> QED BY <1>2, <2>0, <2>1, <3>1 DEF OfEarlierLine
  <2>2. CASE l \in held[t]
    <3>1. l[1] \in {"key", "update"} \/ OfEarlierLine(t, l)
      BY <1>1, <2>2 DEF LocksInOrder
    <3>2. CASE OfEarlierLine(t, l)
      <4>1. PICK i \in DOMAIN Lines[c] : i < n /\ l = <<"stock", Lines[c][i].product>>
        BY <3>2 DEF OfEarlierLine
      <4>2. i < n + 1
        BY <1>2, <4>1, LinesTyped
      <4> HIDE DEF c, n
      <4> QED BY <2>0, <4>1, <4>2 DEF OfEarlierLine
    <3> QED BY <3>1, <3>2
  <2> QED BY <1>2, <1>7, <1>9, <2>1, <2>2
<1>11. LocksInOrder(t)'
  BY <1>5, <1>9, <1>10 DEF LocksInOrder
<1> QED BY <1>1, <1>5, <1>6, <1>8, <1>11, StepLocks

\* The ends of transactions release their locks.
LEMMA EndLocks ==
  ASSUME Typed, WaitInv, NEW t \in Tx, held' = [held EXCEPT ![t] = {}],
         \E w : tx' = [tx EXCEPT ![t] = w]
  PROVE  WaitInv'
<1>1. held'[t] = {} /\ \A u \in Tx \ {t} : tx'[u] = tx[u] /\ held'[u] = held[u]
  BY DEF Typed
<1>2. LocksInOrder(t)'
  BY <1>1 DEF LocksInOrder
<1>3. \A u \in Tx \ {t} : LocksInOrder(u)'
  BY <1>1, LocksStay DEF WaitInv
<1> QED BY <1>2, <1>3 DEF WaitInv

LEMMA WaitNext == TypeOK /\ PgInv /\ WaitInv /\ [Next]_vars => WaitInv'
<1> SUFFICES ASSUME TypeOK, PgInv, WaitInv, [Next]_vars PROVE WaitInv'
  OBVIOUS
<1>0. Typed
  BY DEF PgInv
<1>1. ASSUME NEW t \in Tx, NEW x, NEW request, Begin(t, x, request) PROVE WaitInv'
  <2> DEFINE new == [Idle EXCEPT !.pc = "claim", !.slot = x, !.request = request]
  <2>1. At(t, "idle") /\ tx' = [tx EXCEPT ![t] = new] /\ held' = held
    BY <1>1 DEF Begin
  <2>2. new.pc = "claim"
    BY DEF Idle
  <2> HIDE DEF new
  <2>3. tx'[t].pc = "claim" /\ \A u \in Tx \ {t} : tx'[u] = tx[u]
    BY <1>0, <2>1, <2>2 DEF Typed
  <2>4. held[t] = {}
    BY <2>1 DEF WaitInv, LocksInOrder
  <2>5. LocksInOrder(t)'
    BY <2>1, <2>3, <2>4 DEF LocksInOrder
  <2>6. \A u \in Tx \ {t} : LocksInOrder(u)'
    BY <2>1, <2>3, LocksStay DEF WaitInv
  <2> QED BY <2>5, <2>6 DEF WaitInv
<1>2. ASSUME NEW t \in Tx, Replay(t) \/ CommitSale(t) \/ CommitReversal(t) PROVE WaitInv'
  <2>1. /\ held' = [held EXCEPT ![t] = {}]
        /\ \E w : tx' = [tx EXCEPT ![t] = w]
    BY <1>2 DEF Replay, CommitSale, CommitReversal, Commit
  <2> QED BY <1>0, <2>1, EndLocks
<1>3. ASSUME NEW t \in Tx,
             Respond(t) \/ LoseResponse(t) \/ Refuse(t) \/ AbortDeadlock(t) \/ Abort(t)
      PROVE  WaitInv'
  <2>1. End(t)
    BY <1>3 DEF Respond, LoseResponse, Refuse, AbortDeadlock, Abort
  <2> QED BY <1>0, <2>1, EndLocks DEF End
<1>4. CASE UNCHANGED <<tx, held>>
  BY <1>4, LocksStay DEF WaitInv
<1>5. Environment \/ TurnPeriod \/ UNCHANGED vars => UNCHANGED <<tx, held>>
  BY DEF Environment, TurnPeriod, vars
<1>6. ASSUME NEW t \in Tx, Work(t) PROVE WaitInv'
  BY <1>2, <1>3, <1>6, ClaimLocks, RowLocks, PlainLocks, LineLocks DEF Work
<1> QED
  BY <1>1, <1>3, <1>4, <1>5, <1>6 DEF Next

LEMMA WaitInit == Init => WaitInv
BY DEF Init, WaitInv, LocksInOrder, Idle

\* Together with what transactions read and hold, how they wait is invariant.
THEOREM WaitInductive == Spec => [](TypeOK /\ PgInv /\ WaitInv)
<1>1. Serial!IInv /\ PgInv => TypeOK
  BY SerialMeans
<1>2. Init => WaitInv
  BY WaitInit
<1> QED
  BY <1>1, <1>2, WaitNext, PgInductive, PTL DEF Spec

\* Who is waited for is at a later phase than who waits, or both at a line.
LEMMA BlockedBy ==
  ASSUME Typed, WaitInv, NEW t \in Tx, NEW u \in Blockers(t)
  PROVE  /\ u \in Tx /\ u # t /\ ~At(u, "idle")
         /\ Phase(u) > Phase(t) \/ (At(t, "line") /\ At(u, "line"))
<1>1. PICK l \in Wanted(t), m \in held[u] : Conflicts(l, m)
  BY DEF Blockers
<1>2. u \in Tx /\ u # t /\ LocksInOrder(u) /\ m \in Locks
  BY DEF Blockers, WaitInv, Typed
<1>3. Rank(l) = Phase(t)
  BY DEF Wanted, Rank, Phase
<1>4. Rank(m) = Rank(l) /\ (m[1] = "stock" => l[1] = "stock")
  BY <1>1, <1>2 DEF Conflicts, Rank
<1>5. ~At(u, "idle")
  BY <1>2 DEF LocksInOrder
<1>6. Rank(m) < Phase(u) \/ (m[1] = "stock" /\ At(u, "line"))
  <2>1. m[1] \in {"key", "sale", "stock", "update", "share"}
    BY <1>2 DEF Locks
  <2>2. ~AtOneOf(u, {"idle", "claim", "replay"})
    BY <1>2 DEF LocksInOrder
  <2>3. CASE AtOneOf(u, {"customer", "original"})
    BY <1>2, <2>3 DEF LocksInOrder, Rank, Phase
  <2>4. CASE At(u, "undo")
    BY <1>2, <2>4 DEF LocksInOrder, Rank, Phase
  <2>5. CASE At(u, "line")
    BY <1>2, <2>5 DEF LocksInOrder, OfEarlierLine, Rank, Phase
  <2>6. CASE ~AtOneOf(u, {"idle", "claim", "replay", "customer", "original", "undo", "line"})
    <3>1. Phase(u) = 5
      BY <2>6 DEF Phase
    <3> QED BY <2>1, <3>1 DEF Rank
  <2> QED BY <2>2, <2>3, <2>4, <2>5, <2>6
<1>7. m[1] = "stock" => At(t, "line")
  BY <1>3, <1>4 DEF Rank, Phase
<1> QED
  BY <1>2, <1>3, <1>4, <1>5, <1>6, <1>7

LEMMA PhaseType == \A t \in Tx : Phase(t) \in 1..5
BY DEF Phase

LEMMA AtLines == Typed /\ WaitInv => DeadlockAtLinesOnly
<1> SUFFICES ASSUME Typed, WaitInv, NEW t \in Tx, Deadlocked(t), ~At(t, "line")
    PROVE FALSE
  BY DEF DeadlockAtLinesOnly
<1> DEFINE S == {u \in Tx : Phase(u) > Phase(t)}
<1>1. Blockers(t) \subseteq S
  BY BlockedBy
<1>2. ASSUME NEW u \in S, NEW v \in Blockers(u) PROVE v \in S
  <2>1. v \in Tx /\ (Phase(v) > Phase(u) \/ (At(u, "line") /\ At(v, "line")))
    BY <1>2, BlockedBy
  <2>2. Phase(v) >= Phase(u)
    BY <2>1, PhaseType DEF Phase
  <2> QED BY <2>1, <2>2, PhaseType
<1>3. t \notin S
  BY PhaseType
<1>4. WaitsWithin(t, S) /\ S \in SUBSET Tx
  BY <1>1, <1>2 DEF WaitsWithin
<1> HIDE DEF S
<1> QED BY <1>3, <1>4 DEF Deadlocked

\* A cycle of waits goes through the lines of sales only: it is the order in
\* which clients name products that makes deadlocks, never the order in which
\* the service takes keys, originals and customers.
THEOREM DeadlocksAtLines == Spec => []DeadlockAtLinesOnly
<1>1. PgInv /\ WaitInv => DeadlockAtLinesOnly
  BY AtLines DEF PgInv
<1> QED
  BY <1>1, WaitInductive, PTL

\* A product no other transaction can hold: who holds it waits for nobody there.
LEMMA HeldIsGranted ==
  ASSUME Typed, LocksExclusive, NEW t \in Tx, Wanted(t) \subseteq held[t]
  PROVE  Granted(t)
BY DEF Granted, Blockers, LocksExclusive

\* Where every command names its products in one order, which ranks them
\* apart, no handler is ever in a deadlock: sorting the lines is enough.
THEOREM SortedNeverDeadlocked ==
  ASSUME NEW order \in [Product -> Int],
         \A p, q \in Product : order[p] = order[q] => p = q,
         \A c \in Command : \A i, j \in DOMAIN Lines[c] :
           i < j => order[Lines[c][i].product] <= order[Lines[c][j].product]
  PROVE  Spec => []NeverDeadlocked
<1>1. TypeOK /\ PgInv /\ WaitInv => NeverDeadlocked
  <2> SUFFICES ASSUME TypeOK, PgInv, WaitInv, NEW t \in Tx, Deadlocked(t)
      PROVE FALSE
    BY DEF NeverDeadlocked
  <2>0. /\ Typed /\ LocksExclusive /\ \A u \in Tx : TxInv(u)
        /\ \A u \in Tx : LocksInOrder(u)
    BY DEF PgInv, WaitInv
  <2> DEFINE Height(u) == order[Line(u).product]
             S == {u \in Tx : Granted(u) \/ (At(u, "line") /\ Height(u) > Height(t))}
  <2>1. At(t, "line")
    <3>1. DeadlockAtLinesOnly
      BY <2>0, AtLines
    <3> QED BY <3>1 DEF DeadlockAtLinesOnly
  <2>2. ASSUME NEW u \in Tx, At(u, "line")
        PROVE  /\ tx[u].request \in Command /\ tx[u].line \in DOMAIN Lines[tx[u].request]
               /\ Line(u) = Lines[tx[u].request][tx[u].line]
               /\ Line(u).product \in Product /\ Height(u) \in Int
               /\ Wanted(u) = {<<"stock", Line(u).product>>}
    <3>1. tx[u].request \in Command /\ tx[u].line \in DOMAIN Lines[tx[u].request]
      BY <2>0, <2>2 DEF TxInv, RequestOK, LinesTaken
    <3>2. Line(u) = Lines[tx[u].request][tx[u].line]
      BY DEF Line
    <3>3. Line(u).product \in Product
      BY <3>1, <3>2, LinesTyped
    <3> QED BY <2>2, <3>1, <3>2, <3>3 DEF Wanted
  <2>3. ASSUME NEW u \in Tx, At(u, "line"), NEW v \in Blockers(u)
        PROVE  v \in Tx /\ (Granted(v) \/ (At(v, "line") /\ Height(v) > Height(u)))
    <3>1. v \in Tx /\ (Phase(v) > 4 \/ At(v, "line"))
      BY <2>0, <2>3, BlockedBy DEF Phase
    <3>2. CASE Phase(v) > 4
      <4>1. Wanted(v) = {}
        BY <3>2 DEF Phase, Wanted
      <4> QED BY <3>1, <4>1 DEF Granted, Blockers
    <3>3. CASE At(v, "line")
      <4> DEFINE p == Line(u).product
                 c == tx[v].request
                 n == tx[v].line
      <4>1. <<"stock", p>> \in held[v]
        <5>1. PICK m \in held[v] : Conflicts(<<"stock", p>>, m)
          BY <2>2, <2>3 DEF Blockers
        <5>2. m = <<"stock", p>>
          BY <5>1 DEF Conflicts
        <5> QED BY <5>1, <5>2
      <4>2. PICK i \in DOMAIN Lines[c] : i < n /\ p = Lines[c][i].product
        <5>1. OfEarlierLine(v, <<"stock", p>>)
          BY <2>0, <3>1, <3>3, <4>1 DEF LocksInOrder
        <5> QED BY <5>1 DEF OfEarlierLine
      <4>3. /\ c \in Command /\ n \in DOMAIN Lines[c] /\ Line(v) = Lines[c][n]
            /\ Line(v).product \in Product /\ Height(v) \in Int
            /\ Wanted(v) = {<<"stock", Line(v).product>>}
        BY <2>2, <3>1, <3>3
      <4>4. p \in Product /\ Height(u) \in Int
        BY <2>2, <2>3
      <4>5. order[p] <= order[Line(v).product]
        <5> HIDE DEF c, n, p
        <5> QED BY <4>2, <4>3
      <4>6. CASE order[p] = order[Line(v).product]
        <5>1. Line(v).product = p
          BY <4>3, <4>4, <4>6
        <5>2. Wanted(v) \subseteq held[v]
          BY <4>1, <4>3, <5>1
        <5> QED BY <2>0, <3>1, <5>2, HeldIsGranted
      <4>7. CASE order[p] # order[Line(v).product]
        <5> DEFINE low == order[p]
                   high == order[Line(v).product]
        <5>a. low \in Int /\ high \in Int
          BY <4>3, <4>4
        <5>b. low <= high /\ low # high
          BY <4>5, <4>7
        <5>c. Height(v) = high /\ Height(u) = low
          OBVIOUS
        <5> HIDE DEF low, high, Height
        <5>1. Height(v) > Height(u)
          BY <5>a, <5>b, <5>c
        <5> QED BY <3>1, <3>3, <5>1
      <4> QED BY <4>6, <4>7
    <3> QED BY <3>1, <3>2, <3>3
  <2>4. Blockers(t) \subseteq S
    BY <2>1, <2>3
  <2>5. ASSUME NEW u \in S, NEW v \in Blockers(u) PROVE v \in S
    <3>1. At(u, "line") /\ Height(u) > Height(t) /\ u \in Tx
      BY <2>5 DEF Granted
    <3>2. v \in Tx /\ (Granted(v) \/ (At(v, "line") /\ Height(v) > Height(u)))
      BY <2>3, <2>5, <3>1
    <3>3. Height(u) \in Int /\ Height(t) \in Int /\ (At(v, "line") => Height(v) \in Int)
      BY <2>1, <2>2, <3>1, <3>2
    <3>4. CASE Granted(v)
      BY <3>2, <3>4
    <3>5. CASE At(v, "line") /\ Height(v) > Height(u)
      <4>1. Height(v) > Height(t)
        <5> HIDE DEF Height
        <5> QED BY <3>1, <3>3, <3>5
      <4> QED BY <3>2, <3>5, <4>1
    <3> QED BY <3>2, <3>4, <3>5
  <2>6. t \notin S
    <3>1. ~Granted(t)
      BY DEF Deadlocked, Granted
    <3>2. Height(t) \in Int
      BY <2>1, <2>2
    <3> QED BY <3>1, <3>2
  <2>7. WaitsWithin(t, S) /\ S \in SUBSET Tx
    BY <2>4, <2>5 DEF WaitsWithin
  <2> HIDE DEF S
  <2> QED BY <2>6, <2>7 DEF Deadlocked
<1> QED
  BY <1>1, WaitInductive, PTL

\* However long a chain of waits is, a handler that can run stands at its end,
\* or a cycle PostgreSQL breaks, for any finite number of handlers.  What
\* EveryRequestEnds asks of fairness is no more than that this handler runs.
THEOREM WaitsEndInWork ==
  ASSUME IsFiniteSet(Tx)
  PROVE  Spec => []WaitsForWork
<1>1. TypeOK /\ PgInv /\ WaitInv => WaitsForWork
  <2> SUFFICES ASSUME Typed, WaitInv, NEW t \in Tx, ~Granted(t),
                      NEW S \in SUBSET Tx, WaitsWithin(t, S)
      PROVE  \E u \in S : ~At(u, "idle") /\ (Granted(u) \/ Deadlocked(u))
    BY DEF WaitsForWork, PgInv
  <2> DEFINE Busy == {u \in S : ~At(u, "idle")}
             Closed == {R \in SUBSET Busy : R # {} /\ \A u \in R : Blockers(u) \subseteq R}
  <2>1. \A u \in S : Blockers(u) \subseteq Busy
    BY BlockedBy DEF WaitsWithin
  <2>2. Busy # {}
    <3>1. PICK u \in Blockers(t) : TRUE
      BY DEF Granted
    <3> QED BY <3>1, BlockedBy DEF WaitsWithin
  <2>3. Busy \in Closed
    BY <2>1, <2>2
  <2>4. IsFiniteSet(Busy) /\ Closed \in SUBSET (SUBSET Busy)
    BY FS_Subset
  <2>5. PICK R \in Closed : \A U \in Closed : ~(U \subseteq R /\ U # R)
    <3> HIDE DEF Closed, Busy
    <3> QED BY <2>3, <2>4, SmallestSubset
  <2>6. PICK u \in R : TRUE
    BY <2>5
  <2>7. R \subseteq Busy /\ \A v \in R : Blockers(v) \subseteq R
    BY <2>5
  <2>8. u \in S /\ ~At(u, "idle")
    BY <2>6, <2>7
  <2>9. ASSUME ~Granted(u) PROVE Deadlocked(u)
    <3>1. Blockers(u) # {}
      BY <2>9 DEF Granted
    <3>2. ASSUME NEW T \in SUBSET Tx, WaitsWithin(u, T) PROVE u \in T
      <4>1. Blockers(u) \subseteq R \cap T
        BY <2>6, <2>7, <3>2 DEF WaitsWithin
      <4>2. \A v \in R \cap T : Blockers(v) \subseteq R \cap T
        BY <2>7, <3>2 DEF WaitsWithin
      <4>3. R \cap T \in Closed
        BY <2>7, <3>1, <4>1, <4>2
      <4>4. R \cap T = R
        <5> HIDE DEF Closed
        <5> QED BY <2>5, <4>3
      <4> QED BY <2>6, <4>4
    <3> QED BY <3>1, <3>2 DEF Deadlocked
  <2> QED BY <2>8, <2>9
<1> QED
  BY <1>1, WaitInductive, PTL

\* What a client was told stays true: its record is posted, is of its request,
\* and the key answers nothing else.
THEOREM AnswersForGood == Spec => []AnswersStand
<1>1. TypeOK /\ PgInv /\ OneClaimPerRecord /\ OneReversalPerSale => AnswersStand
  <2> SUFFICES ASSUME TypeOK, PgInv, OneClaimPerRecord, OneReversalPerSale,
                      NEW a \in answers
      PROVE  /\ a.result \in Posted
             /\ claims[a.slot] = [request |-> a.request, result |-> a.result]
             /\ a.slot[1] = "complete" => /\ sales[a.result].type = "SALE"
                                          /\ sales[a.result].command = a.request
             /\ a.slot[1] = "reverse" => /\ sales[a.result].type = "REVERSAL"
                                         /\ sales[a.result].of = a.request
                                         /\ sales[a.request].status = "REVERSED"
    BY DEF AnswersStand
  <2>1. /\ a.slot \in Claimed
        /\ claims[a.slot].request = a.request /\ claims[a.slot].result = a.result
    BY DEF PgInv, AnswersKept, Answered
  <2>2. claims[a.slot] \in Claim
    BY <2>1 DEF TypeOK, Claimed
  <2>3. claims[a.slot] = [request |-> a.request, result |-> a.result]
    BY <2>1, <2>2 DEF Claim
  <2>4. /\ a.result \in Posted
        /\ a.slot[1] = "complete" => /\ sales[a.result].type = "SALE"
                                     /\ sales[a.result].command = a.request
        /\ a.slot[1] = "reverse" => /\ sales[a.result].type = "REVERSAL"
                                    /\ sales[a.result].of = a.request
    BY <2>1 DEF OneClaimPerRecord
  <2>5. a.slot[1] = "reverse" => a.request # NoSale
    BY NoSaleAssumption DEF PgInv, AnswersKept
  <2>6. a.slot[1] = "reverse" => sales[a.request].status = "REVERSED"
    BY <2>4, <2>5 DEF OneReversalPerSale
  <2> QED BY <2>3, <2>4, <2>6
<1>2. Spec => []TypeOK /\ []PgInv
  BY WaitInductive, PTL
<1>3. Spec => []OneClaimPerRecord
  BY PgTablesAgree, PTL
<1> QED
  BY <1>1, <1>2, <1>3, PgReversedOnce, PTL
=============================================================================
