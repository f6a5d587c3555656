------------------------------ MODULE PgSales ------------------------------
(***************************************************************************)
(* The sales service over PostgreSQL: each request is a transaction of     *)
(* internal/platform/store/postgres, at READ COMMITTED, one action for     *)
(* each statement that waits for a lock or reads what others may change.   *)
(* Writes become visible when the transaction commits, so they are made in *)
(* the action that commits, from what the earlier statements read.         *)
(*                                                                         *)
(* Locks: the unique index of idempotency_keys under an uncommitted insert *)
(* ("key"), SELECT ... FOR UPDATE of a customer ("update") or a sale       *)
(* ("sale"), the key-share lock a foreign key takes on the customer        *)
(* ("share") and pg_advisory_xact_lock on a product ("stock").  All are    *)
(* held to the end of the transaction.                                     *)
(***************************************************************************)
EXTENDS SalesBooks, Sequences

CONSTANTS
  Receipt, Payment,  \* as in SalesLedger
  Tx,                \* request handlers, each with its connection
  Lines,             \* Lines[c]: the lines of command c, in order
  MaxRequests,       \* bound: requests that clients send
  PeriodTurns        \* does finance close and reopen the period meanwhile

Ledger == INSTANCE SalesLedger

LinesOf(c, p) == {i \in DOMAIN Lines[c] : Lines[c][i].product = p}

\* demand is the sum of the lines; a product may stand on several.
ASSUME LinesAssumption ==
  \A c \in Command :
    /\ Lines[c] \in Seq([product : Product, quantity : Nat \ {0}])
    /\ \A p \in Product :
         c.demand[p] = SumFunction([i \in LinesOf(c, p) |-> Lines[c][i].quantity])

ASSUME EnvironmentAssumption == Receipt \subseteq Nat /\ Payment \subseteq Nat

ASSUME BoundAssumption == MaxRequests \in Nat /\ PeriodTurns \in BOOLEAN

VARIABLES
  tx,       \* what each handler's transaction has reached and read
  held,     \* the locks each transaction holds
  open,     \* is the fiscal period of the day open
  sent,     \* how many requests clients have sent
  answers   \* the successful answers clients have received

vars == <<books, tx, held, open, sent, answers>>

Nothing == [p \in Product |-> 0]

Idle == [pc |-> "idle", slot |-> NoSale, request |-> NoSale, read |-> NoSale,
         line |-> 1, taken |-> Nothing, result |-> NoSale]

Init ==
  /\ InitBooks
  /\ tx = [t \in Tx |-> Idle]
  /\ held = [t \in Tx |-> {}]
  /\ open = TRUE
  /\ sent = 0
  /\ answers = {}

-----------------------------------------------------------------------------
(* Locks *)

Conflicts(l, m) ==
  \/ l = m /\ l[1] # "share"
  \/ l[1] = "update" /\ m = <<"share", l[2]>>
  \/ l[1] = "share" /\ m = <<"update", l[2]>>

CustomerOf(t) ==
  IF tx[t].slot[1] = "complete" THEN tx[t].request.customer
                                ELSE sales[tx[t].request].command.customer

Line(t) == Lines[tx[t].request][tx[t].line]

\* Faulty variants: no advisory lock on the stock, no FOR UPDATE on the
\* customer, no unique index under the idempotency key.
WantedWithoutStock(t) ==
  CASE tx[t].pc = "claim"    -> IF claims[tx[t].slot] = NoSale
                                THEN {<<"key", tx[t].slot>>} ELSE {}
    [] tx[t].pc = "customer" -> {<<"update", CustomerOf(t)>>}
    [] tx[t].pc = "original" -> {<<"sale", tx[t].request>>}
    [] tx[t].pc = "undo"     -> {<<"share", CustomerOf(t)>>}
    [] OTHER                 -> {}
WantedWithoutCustomer(t) ==
  CASE tx[t].pc = "claim"    -> IF claims[tx[t].slot] = NoSale
                                THEN {<<"key", tx[t].slot>>} ELSE {}
    [] tx[t].pc = "line"     -> {<<"stock", Line(t).product>>}
    [] tx[t].pc = "original" -> {<<"sale", tx[t].request>>}
    [] OTHER                 -> {}
WantedWithoutKey(t) ==
  CASE tx[t].pc = "replay"   -> {<<"sale", tx[t].result>>}
    [] tx[t].pc = "customer" -> {<<"update", CustomerOf(t)>>}
    [] tx[t].pc = "line"     -> {<<"stock", Line(t).product>>}
    [] tx[t].pc = "original" -> {<<"sale", tx[t].request>>}
    [] tx[t].pc = "undo"     -> {<<"share", CustomerOf(t)>>}
    [] OTHER                 -> {}

\* Faulty variant: the customer is read FOR SHARE, and locked FOR UPDATE only
\* when the limit is checked.
WantedUpgraded(t) ==
  CASE tx[t].pc = "claim"    -> IF claims[tx[t].slot] = NoSale
                                THEN {<<"key", tx[t].slot>>} ELSE {}
    [] tx[t].pc = "replay"   -> {<<"sale", tx[t].result>>}
    [] tx[t].pc \in {"customer", "undo"} -> {<<"share", CustomerOf(t)>>}
    [] tx[t].pc = "line"     -> {<<"stock", Line(t).product>>}
    [] tx[t].pc = "original" -> {<<"sale", tx[t].request>>}
    [] tx[t].pc = "exposure" -> {<<"update", CustomerOf(t)>>}
    [] OTHER                 -> {}

\* The lock a transaction's next statement needs: none, or a set of one.
Wanted(t) ==
  CASE tx[t].pc = "claim"    -> IF claims[tx[t].slot] = NoSale
                                THEN {<<"key", tx[t].slot>>} ELSE {}
    [] tx[t].pc = "replay"   -> {<<"sale", tx[t].result>>}
    [] tx[t].pc = "customer" -> {<<"update", CustomerOf(t)>>}
    [] tx[t].pc = "line"     -> {<<"stock", Line(t).product>>}
    [] tx[t].pc = "original" -> {<<"sale", tx[t].request>>}
    [] tx[t].pc = "undo"     -> {<<"share", CustomerOf(t)>>}
    [] OTHER                 -> {}

Blockers(t) ==
  {u \in Tx \ {t} : \E l \in Wanted(t), m \in held[u] : Conflicts(l, m)}

Granted(t) == Blockers(t) = {}

\* S has everybody t waits for, directly or through others.
WaitsWithin(t, S) ==
  Blockers(t) \subseteq S /\ \A u \in S : Blockers(u) \subseteq S

\* t waits, through others, for itself.
Deadlocked(t) ==
  Blockers(t) # {} /\ \A S \in SUBSET Tx : WaitsWithin(t, S) => t \in S

-----------------------------------------------------------------------------
(* Statements *)

At(t, pc) == tx[t].pc = pc

\* t runs its next statement under the lock it wants and goes on to pc.
Step(t, pc, new) ==
  /\ Granted(t)
  /\ held' = [held EXCEPT ![t] = @ \cup Wanted(t)]
  /\ tx' = [tx EXCEPT ![t] = [new EXCEPT !.pc = pc]]
  /\ UNCHANGED <<books, open, sent, answers>>

Begin(t, x, request) ==
  /\ At(t, "idle")
  /\ sent < MaxRequests
  /\ sent' = sent + 1
  /\ tx' = [tx EXCEPT ![t] = [Idle EXCEPT !.pc = "claim", !.slot = x,
                                          !.request = request]]
  /\ UNCHANGED <<books, held, open, answers>>

\* INSERT ... ON CONFLICT DO NOTHING: waits for a transaction that inserted
\* the key, then inserts it if that one rolled back.
ClaimNew(t) ==
  /\ At(t, "claim") /\ claims[tx[t].slot] = NoSale
  /\ Step(t, IF tx[t].slot[1] = "complete" THEN "customer" ELSE "original", tx[t])

\* The key is committed: the same request is answered with its result.
ClaimKnown(t) ==
  /\ At(t, "claim") /\ claims[tx[t].slot] # NoSale
  /\ claims[tx[t].slot].request = tx[t].request
  /\ Step(t, "replay", [tx[t] EXCEPT !.result = claims[tx[t].slot].result])

\* Sale(resultID) ... FOR UPDATE, then COMMIT.
Replay(t) ==
  /\ At(t, "replay") /\ Granted(t)
  /\ tx' = [tx EXCEPT ![t].pc = "done"]
  /\ held' = [held EXCEPT ![t] = {}]
  /\ UNCHANGED <<books, open, sent, answers>>

LockCustomer(t) ==
  /\ At(t, "customer")
  /\ account[CustomerOf(t)].active
  /\ tx[t].request.credit => account[CustomerOf(t)].credit
  /\ Step(t, "period", [tx[t] EXCEPT !.read = account[CustomerOf(t)]])

LockOriginal(t) ==
  /\ At(t, "original")
  /\ Step(t, "period", [tx[t] EXCEPT !.read = sales[tx[t].request]])

\* Faulty variant: Reverse does not test the record's type.
CheckPeriodAnyRecord(t) ==
  /\ At(t, "period") /\ open
  /\ \/ tx[t].slot[1] = "complete" /\ Step(t, "line", tx[t])
     \/ /\ tx[t].slot[1] = "reverse"
        /\ tx[t].read.status # "REVERSED"
        /\ Step(t, "undo", tx[t])

\* FiscalPeriodOpen reads without a lock.  Reverse then tests the original it
\* read under the row lock.
CheckPeriod(t) ==
  /\ At(t, "period") /\ open
  /\ \/ tx[t].slot[1] = "complete" /\ Step(t, "line", tx[t])
     \/ /\ tx[t].slot[1] = "reverse"
        /\ tx[t].read.type = "SALE" /\ tx[t].read.status # "REVERSED"
        /\ Step(t, "undo", tx[t])

\* Faulty variant: the SUM misses them.
AvailableBefore(t) == stock[Line(t).product]

\* The SUM sees the movements this transaction has already written.
Available(t) == stock[Line(t).product] - tx[t].taken[Line(t).product]

AfterLine(t) ==
  IF tx[t].line < Len(Lines[tx[t].request]) THEN "line"
  ELSE IF tx[t].request.credit THEN "exposure" ELSE "post"

TakeLine(t) ==
  /\ At(t, "line")
  /\ Available(t) >= Line(t).quantity
  /\ Step(t, AfterLine(t),
          [tx[t] EXCEPT !.line = @ + 1,
                        !.taken[Line(t).product] = @ + Line(t).quantity])

FitsLimit(t) ==
  /\ exposure[CustomerOf(t)] >= 0
  /\ exposure[CustomerOf(t)] + Total(tx[t].request) <= tx[t].read.limit

CheckExposure(t) == At(t, "exposure") /\ FitsLimit(t) /\ Step(t, "post", tx[t])

\* Rows of the original are read back and negated; inserting them takes the
\* customer's key-share lock.
Undo(t) == At(t, "undo") /\ Step(t, "post", tx[t])

\* The generator never gives an identifier twice; which one it gives does not
\* matter.
NewId == CHOOSE id \in SaleId : sales[id] = NoSale

Commit(t, id) ==
  /\ tx' = [tx EXCEPT ![t].pc = "done", ![t].result = id]
  /\ held' = [held EXCEPT ![t] = {}]
  /\ UNCHANGED <<account, open, sent, answers>>

CommitSale(t) ==
  /\ At(t, "post") /\ tx[t].slot[1] = "complete" /\ Posted # SaleId
  /\ PostSale(tx[t].slot[2], tx[t].request, tx[t].taken, NewId)
  /\ Commit(t, NewId)

\* MarkSaleReversed updates WHERE status = 'POSTED'.
CommitReversal(t) ==
  /\ At(t, "post") /\ tx[t].slot[1] = "reverse" /\ Posted # SaleId
  /\ sales[tx[t].request].status = "POSTED"
  /\ PostReversal(tx[t].slot[2], tx[t].request, NewId)
  /\ Commit(t, NewId)

-----------------------------------------------------------------------------
(* Endings *)

\* Faulty variant: a handler returns without ending its transaction.
EndHoldingLocks(t) ==
  /\ tx' = [tx EXCEPT ![t] = Idle]
  /\ UNCHANGED <<books, held, open, sent>>

\* The transaction ends: its locks are released, the handler is free.
End(t) ==
  /\ tx' = [tx EXCEPT ![t] = Idle]
  /\ held' = [held EXCEPT ![t] = {}]
  /\ UNCHANGED <<books, open, sent>>

\* The committed answer reaches the client.
Respond(t) ==
  /\ At(t, "done")
  /\ answers' = answers \cup {[slot |-> tx[t].slot, request |-> tx[t].request,
                               result |-> tx[t].result]}
  /\ End(t)

\* ... or the process dies or the connection breaks after the commit.
LoseResponse(t) == At(t, "done") /\ End(t) /\ UNCHANGED answers

\* A check fails: the handler returns an error and rolls back.
Fails(t) ==
  \/ /\ At(t, "claim") /\ claims[tx[t].slot] # NoSale
     /\ claims[tx[t].slot].request # tx[t].request
  \/ /\ At(t, "customer") /\ Granted(t)
     /\ \/ ~account[CustomerOf(t)].active
        \/ tx[t].request.credit /\ ~account[CustomerOf(t)].credit
  \/ At(t, "period") /\ ~open
  \/ /\ At(t, "period") /\ tx[t].slot[1] = "reverse"
     /\ tx[t].read.type # "SALE" \/ tx[t].read.status = "REVERSED"
  \/ At(t, "line") /\ Granted(t) /\ Available(t) < Line(t).quantity
  \/ At(t, "exposure") /\ ~FitsLimit(t)
  \/ /\ At(t, "post") /\ tx[t].slot[1] = "reverse"
     /\ sales[tx[t].request].status # "POSTED"

Refuse(t) == Fails(t) /\ End(t) /\ UNCHANGED answers

\* PostgreSQL aborts a transaction of a cycle of waits (40P01); nothing retries.
AbortDeadlock(t) == Deadlocked(t) /\ End(t) /\ UNCHANGED answers

\* Any other failure before the commit: no permission, missing configuration,
\* overflow, a lost connection, a cancelled request, the process killed.
Abort(t) == ~At(t, "idle") /\ ~At(t, "done") /\ End(t) /\ UNCHANGED answers

-----------------------------------------------------------------------------
(* The other writers of these tables *)

Unlocked(l) == \A t \in Tx : \A m \in held[t] : ~Conflicts(l, m)

Environment ==
  /\ \/ \E p \in Product, n \in Receipt : Receive(p, n)
     \/ \E c \in Customer, a \in Payment : Unlocked(<<"share", c>>) /\ Settle(c, a)
     \/ \E c \in Customer, s \in Terms :
          (\A t \in Tx : <<"update", c>> \notin held[t]) /\ EditAccount(c, s)
  /\ UNCHANGED <<tx, held, open, sent, answers>>

\* Finance closes or reopens the period: an UPDATE nothing here waits for.
TurnPeriod ==
  /\ PeriodTurns
  /\ open' = ~open
  /\ UNCHANGED <<books, tx, held, sent, answers>>

Work(t) ==
  \/ ClaimNew(t) \/ ClaimKnown(t) \/ Replay(t)
  \/ LockCustomer(t) \/ LockOriginal(t) \/ CheckPeriod(t)
  \/ TakeLine(t) \/ CheckExposure(t) \/ Undo(t)
  \/ CommitSale(t) \/ CommitReversal(t)
  \/ Respond(t) \/ Refuse(t) \/ AbortDeadlock(t)

Next ==
  \/ \E t \in Tx, k \in Key :
       \/ \E c \in Command : Begin(t, <<"complete", k>>, c)
       \/ \E s \in Posted : Begin(t, <<"reverse", k>>, s)
  \/ \E t \in Tx : Work(t) \/ Abort(t) \/ LoseResponse(t)
  \/ Environment
  \/ TurnPeriod

Spec == Init /\ [][Next]_vars

\* Handlers run, PostgreSQL grants locks that are free and breaks deadlocks;
\* clients, other services and failures owe nothing.
Fairness == \A t \in Tx : WF_vars(Work(t))

FairSpec == Spec /\ Fairness

-----------------------------------------------------------------------------
(* What the handlers promise *)

PgTypeOK ==
  /\ TypeOK
  /\ \A t \in Tx :
       /\ tx[t].pc \in {"idle", "claim", "replay", "customer", "original", "period",
                       "line", "exposure", "undo", "post", "done"}
       /\ tx[t].slot \in Slot \cup {NoSale}
       /\ tx[t].result \in SaleId \cup {NoSale}
       /\ tx[t].taken \in [Product -> Nat]
  /\ open \in BOOLEAN
  /\ sent \in 0..MaxRequests

\* Interleaved statements under READ COMMITTED and the locks above do what the
\* serial service does, one whole request at a time: every commit is a
\* Complete or a Reverse of SalesLedger whose checks hold at that moment, and
\* every other step leaves the books alone.
LedgerSpec == Ledger!Spec

\* However often a key is sent, and whichever handler takes it, all the
\* answers to it agree: one request, one record.
RepeatsAgree == \A a, b \in answers : a.slot = b.slot => a = b

\* What a client was told of its request stays true, through any later sales,
\* reversals, replays and aborts: the record it was given is posted, carries
\* out that request and is what the key answers whenever it is sent again.
AnswersStand ==
  \A a \in answers :
    LET record == sales[a.result] IN
      /\ a.result \in Posted
      /\ claims[a.slot] = [request |-> a.request, result |-> a.result]
      /\ a.slot[1] = "complete" => record.type = "SALE" /\ record.command = a.request
      /\ a.slot[1] = "reverse" => /\ record.type = "REVERSAL" /\ record.of = a.request
                                  /\ sales[a.request].status = "REVERSED"

\* Keys, originals and customers are locked in that order by every statement of
\* both operations, so a cycle of waits goes through sales at their lines only:
\* the one order of locks the client chooses is that of the products.
DeadlockAtLinesOnly == \A t \in Tx : Deadlocked(t) => At(t, "line")

\* Where all commands name products in one order, there is no deadlock, under
\* any mix of sales, reversals and replays.
NeverDeadlocked == \A t \in Tx : ~Deadlocked(t)

\* Every wait ends in a handler at work: among those t waits for, directly or
\* through others, one can run its statement or is in a cycle PostgreSQL breaks.
\* Nobody waits for a lock whose transaction is over.
WaitsForWork ==
  \A t \in Tx : ~Granted(t) => \A S \in SUBSET Tx : WaitsWithin(t, S) =>
    \E u \in S : ~At(u, "idle") /\ (Granted(u) \/ Deadlocked(u))

\* A posting raises a customer's exposure only to within the limit in force at
\* that moment, whatever sales, payments and edits of the account ran beside it.
CreditWithinLimit ==
  [][\A c \in Customer : exposure'[c] > exposure[c] =>
                             exposure'[c] <= account[c].limit]_vars

\* Nothing is posted once the period is closed.
PostedInOpenPeriod == [][Posted' # Posted => open]_vars

\* A credit sale that reaches the limit check is refused only for the limit.
CreditRefusedOverLimit ==
  \A t \in Tx : At(t, "exposure") /\ ~FitsLimit(t) =>
    exposure[CustomerOf(t)] + Total(tx[t].request) > tx[t].read.limit

\* No handler waits forever: not for a lock, and not in a cycle of them.
EveryRequestEnds == \A t \in Tx : []<>At(t, "idle")
=============================================================================
