-------------------------- MODULE MCMemoryStore --------------------------
(* Integers up to 15 and a scale of 4.  The cash order takes the whole      *)
(* shelf on two lines, and its journal has sides of 22, which wrap; the     *)
(* large one is refused at its second line, when the first is taken, and    *)
(* an unchecked product of it would look small.                             *)
EXTENDS MemoryStore, TLC

CONSTANTS c1, p1, p2, k1, k2

MCCatalog ==
  p1 :> [active |-> TRUE, currency |-> "TZS", price |-> 2, cost |-> 3, rate |-> 1]
  @@ p2 :> [active |-> TRUE, currency |-> "TZS", price |-> 11, cost |-> 0, rate |-> 0]
Line(p, q) == [product |-> p, quantity |-> q]
Sale(credit, lines) == [customer |-> c1, credit |-> credit, lines |-> lines]
MCOrder ==
  {Sale(FALSE, << Line(p1, 2), Line(p1, 2) >>), Sale(TRUE, << Line(p1, 1) >>),
   Sale(FALSE, << Line(p2, 1), Line(p2, 3) >>), Sale(FALSE, << >>)}
MCTerms == {[active |-> TRUE, credit |-> TRUE, limit |-> 4],
            [active |-> TRUE, credit |-> FALSE, limit |-> 0]}

\* The keys are alike, so the first request may as well send k1.
MCKeysOf == 1 :> {k1} @@ 2 :> {k1, k2}
==========================================================================
