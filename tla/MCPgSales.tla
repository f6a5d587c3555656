----------------------------- MODULE MCPgSales -----------------------------
(* Two handlers over one shelf, or over two products that commands of       *)
(* different customers lock in opposite orders; a limit that fits one       *)
(* credit sale.                                                             *)
EXTENDS PgSales, TLC

CONSTANTS c1, c2, p1, p2

\* One shelf: a cash sale of two units on two lines, a credit sale of one.
Cash1 == [customer |-> c1, credit |-> FALSE, demand |-> p1 :> 2,
          net |-> 2, tax |-> 0, cost |-> 1]
Credit1 == [customer |-> c2, credit |-> TRUE, demand |-> p1 :> 1,
            net |-> 2, tax |-> 1, cost |-> 1]
OneShelf == {Cash1, Credit1}
OneShelfLines ==
  Cash1 :> << [product |-> p1, quantity |-> 1], [product |-> p1, quantity |-> 1] >>
  @@ Credit1 :> << [product |-> p1, quantity |-> 1] >>

\* Two products in opposite orders.
Cash2 == [customer |-> c1, credit |-> FALSE, demand |-> (p1 :> 1 @@ p2 :> 1),
          net |-> 2, tax |-> 0, cost |-> 1]
Credit2 == [customer |-> c2, credit |-> TRUE, demand |-> (p1 :> 1 @@ p2 :> 1),
            net |-> 2, tax |-> 1, cost |-> 1]
TwoProducts == {Cash2, Credit2}
TwoProductsLines ==
  Cash2 :> << [product |-> p1, quantity |-> 1], [product |-> p2, quantity |-> 1] >>
  @@ Credit2 :> << [product |-> p2, quantity |-> 1], [product |-> p1, quantity |-> 1] >>

GoodTerms == [active |-> TRUE, credit |-> TRUE, limit |-> 4]
ClosedTerms == [active |-> FALSE, credit |-> FALSE, limit |-> 0]
FixedTerms == {GoodTerms}
EditedTerms == {GoodTerms, ClosedTerms}
MCMinExposure == -1
Symmetry == Permutations(Key) \cup Permutations(Tx)
=============================================================================
