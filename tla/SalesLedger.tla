---------------------------- MODULE SalesLedger ----------------------------
(***************************************************************************)
(* The serial specification of the sales service: Complete and Reverse of  *)
(* internal/sales/service.go, each as one atomic step.  It is what callers *)
(* are promised (sales/ports.go: a repository is "a real atomic boundary") *)
(* and what the service does over the in-memory store, whose               *)
(* WithTransaction holds one mutex and swaps the state in on success.      *)
(*                                                                         *)
(* A command that is refused changes nothing and is not a step here.  The  *)
(* fiscal period is not part of the promise: it is read without a lock     *)
(* (see PgSales).                                                          *)
(***************************************************************************)
EXTENDS SalesBooks

CONSTANTS
  Receipt,   \* quantities goods are received in
  Payment    \* amounts customers pay

ASSUME EnvironmentAssumption == Receipt \subseteq Nat /\ Payment \subseteq Nat

\* Faulty variant: the key is not looked up.
AnyClaim(x) == TRUE

\* ClaimIdempotency inserts the key: no completed request holds it.
Unclaimed(x) == claims[x] = NoSale

\* The customer may buy: active, and credit only where it is enabled (the
\* General Customer never is: customer_accounts' CHECK).
Eligible(c) ==
  /\ account[c.customer].active
  /\ c.credit => account[c.customer].credit

\* Faulty variant: a product that is there at all will do.
SomeInStock(c) == \A p \in Product : c.demand[p] > 0 => stock[p] > 0

InStock(c) == \A p \in Product : stock[p] >= c.demand[p]

\* checkedAdd refuses a negative exposure before the limit is compared.
WithinLimit(c) ==
  c.credit => /\ exposure[c.customer] >= 0
              /\ exposure[c.customer] + Total(c) <= account[c.customer].limit

Fresh(id) == sales[id] = NoSale

Complete(k, c, id) ==
  /\ Unclaimed(<<"complete", k>>)
  /\ Eligible(c) /\ InStock(c) /\ WithinLimit(c)
  /\ Fresh(id)
  /\ PostSale(k, c, c.demand, id)
  /\ UNCHANGED account

\* Faulty variant: the status of the original is not tested.
ReversibleUnmarked(s) == sales[s] # NoSale /\ sales[s].type = "SALE"

Reversible(s) ==
  /\ sales[s] # NoSale
  /\ sales[s].type = "SALE" /\ sales[s].status # "REVERSED"

Reverse(k, s, id) ==
  /\ Unclaimed(<<"reverse", k>>)
  /\ Reversible(s)
  /\ Fresh(id)
  /\ PostReversal(k, s, id)
  /\ UNCHANGED account

Environment ==
  \/ \E p \in Product, n \in Receipt : Receive(p, n)
  \/ \E c \in Customer, a \in Payment : Settle(c, a)
  \/ \E c \in Customer, t \in Terms : EditAccount(c, t)

Next ==
  \/ \E k \in Key, c \in Command, id \in SaleId : Complete(k, c, id)
  \/ \E k \in Key, s \in SaleId, id \in SaleId : Reverse(k, s, id)
  \/ Environment

Spec == InitBooks /\ [][Next]_books
=============================================================================
