------------------------------- MODULE Money -------------------------------
(***************************************************************************)
(* The arithmetic of a sale: amounts in minor units as int64, with the     *)
(* checked operations and the tax of internal/sales/service.go and the     *)
(* balance test of internal/finance/model.go, which adds without a check.  *)
(***************************************************************************)
EXTENDS Integers

CONSTANTS
  MaxInt,   \* math.MaxInt64
  Scale     \* basis points in one: 10000

ASSUME MoneyAssumption ==
  /\ MaxInt \in Nat /\ Scale \in Nat \ {0}
  /\ \E half \in 1..Scale : Scale = 2 * half

Amount == 0..MaxInt

\* ErrMoneyOverflow.  It is negative, so that an operation on it fails again:
\* the code returns at the first one.
Overflow == -1

\* What an int64 shows of a number: it wraps round.
AsInt64(n) == ((n + MaxInt + 1) % (2 * (MaxInt + 1))) - (MaxInt + 1)

\* Faulty variant: the test comes after the product, which has wrapped.
checkedMultiplyLate(left, right) ==
  IF left < 0 \/ right < 0 \/ AsInt64(left * right) < 0 THEN Overflow
  ELSE AsInt64(left * right)

checkedMultiply(left, right) ==
  IF left < 0 \/ right < 0 \/ (right # 0 /\ left > MaxInt \div right) THEN Overflow
  ELSE left * right

checkedAdd(left, right) ==
  IF left < 0 \/ right < 0 \/ left > MaxInt - right THEN Overflow
  ELSE left + right

\* A rate outside 0..Scale is ErrInvalidCommand: refused like an overflow.
taxAmount(subtotal, basisPoints) ==
  LET weighted == checkedAdd(checkedMultiply(subtotal, basisPoints), Scale \div 2) IN
  IF basisPoints < 0 \/ basisPoints > Scale \/ weighted < 0 THEN Overflow
  ELSE weighted \div Scale

\* What the tax of an amount is when numbers have no end: rounded half up.
ExactTax(subtotal, basisPoints) == (subtotal * basisPoints + Scale \div 2) \div Scale

-----------------------------------------------------------------------------
(* Journal.Validate *)

\* int64 addition of an amount, unchecked.
WrapAdd(sum, amount) == AsInt64(sum + amount)

Balances(debits, credits) == debits # 0 /\ debits = credits
=============================================================================
