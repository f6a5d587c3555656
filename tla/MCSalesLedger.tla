--------------------------- MODULE MCSalesLedger ---------------------------
(* A small shop: one product, one customer with credit, a cash command that *)
(* takes the whole shelf and a credit command that fits the limit once.     *)
EXTENDS SalesLedger, TLC

CONSTANTS c1, c2

MCCommand ==
  {[customer |-> c1, credit |-> FALSE, demand |-> [p \in Product |-> 2],
    net |-> 4, tax |-> 1, cost |-> 3],
   [customer |-> c2, credit |-> TRUE, demand |-> [p \in Product |-> 1],
    net |-> 2, tax |-> 0, cost |-> 0]}
MCTerms ==
  {[active |-> TRUE, credit |-> TRUE, limit |-> 3],
   [active |-> TRUE, credit |-> FALSE, limit |-> 0]}
MCMinExposure == -2
Symmetry == Permutations(SaleId) \cup Permutations(Key)
=============================================================================
