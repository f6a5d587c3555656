---------------------------- MODULE MoneyProofs ----------------------------
(***************************************************************************)
(* What the checked operations give, for any width of the integers and any *)
(* even number of basis points in one.                                     *)
(***************************************************************************)
EXTENDS Money, TLAPS

LEMMA DivFacts ==
  ASSUME NEW n \in Nat, NEW d \in Nat \ {0}
  PROVE  /\ n \div d \in Nat
         /\ (n \div d) * d <= n
         /\ n < (n \div d) * d + d
BY SMTT(30)

\* left > max / right, as the code tests before it multiplies.
LEMMA QuotientTest ==
  ASSUME NEW left \in Nat, NEW right \in Nat \ {0}
  PROVE  left > MaxInt \div right <=> left * right > MaxInt
<1> DEFINE q == MaxInt \div right
<1>1. q \in Nat /\ q * right <= MaxInt /\ MaxInt < q * right + right
  BY DivFacts, MoneyAssumption
<1> HIDE DEF q
<1>2. CASE left > q
  <2>1. left >= q + 1
    BY <1>1, <1>2
  <2>2. left * right >= (q + 1) * right
    BY <1>1, <2>1, SMTT(30)
  <2>3. (q + 1) * right = q * right + right
    BY <1>1, SMTT(30)
  <2>4. left * right \in Nat /\ q * right \in Nat
    BY <1>1, SMTT(30)
  <2> QED
    BY <1>1, <1>2, <2>2, <2>3, <2>4, MoneyAssumption DEF q
<1>3. CASE left <= q
  <2>1. left * right <= q * right
    BY <1>1, <1>3, SMTT(30)
  <2>2. left * right \in Nat /\ q * right \in Nat
    BY <1>1, SMTT(30)
  <2> QED
    BY <1>1, <1>3, <2>1, <2>2, MoneyAssumption DEF q
<1> QED BY <1>1, <1>2, <1>3

\* checkedMultiply refuses exactly the products an int64 cannot hold, and gives
\* the others as they are.
THEOREM MultiplyExact ==
  ASSUME NEW left \in Amount, NEW right \in Amount
  PROVE  /\ checkedMultiply(left, right) # Overflow <=> left * right <= MaxInt
         /\ left * right <= MaxInt => checkedMultiply(left, right) = left * right
<1>1. left \in Nat /\ right \in Nat /\ MaxInt \in Nat
  BY MoneyAssumption DEF Amount
<1>2. left * right \in Nat
  BY <1>1, SMTT(30)
<1>3. CASE right = 0
  <2>1. left * right = 0
    BY <1>1, <1>3
  <2> QED
    BY <1>1, <1>3, <2>1 DEF checkedMultiply, Overflow
<1>4. CASE right # 0
  <2>1. left > MaxInt \div right <=> left * right > MaxInt
    BY <1>1, <1>4, QuotientTest
  <2>2. CASE left * right > MaxInt
    BY <1>1, <1>2, <1>4, <2>1, <2>2 DEF checkedMultiply, Overflow
  <2>3. CASE left * right <= MaxInt
    <3>1. ~(left > MaxInt \div right)
      BY <1>1, <1>2, <2>1, <2>3
    <3>2. checkedMultiply(left, right) = left * right
      BY <1>1, <1>4, <3>1 DEF checkedMultiply
    <3> QED
      BY <1>2, <2>3, <3>2 DEF Overflow
  <2> QED BY <1>1, <1>2, <2>2, <2>3
<1> QED BY <1>3, <1>4

\* checkedAdd refuses exactly the sums an int64 cannot hold.
THEOREM AddExact ==
  ASSUME NEW left \in Amount, NEW right \in Amount
  PROVE  /\ checkedAdd(left, right) # Overflow <=> left + right <= MaxInt
         /\ left + right <= MaxInt => checkedAdd(left, right) = left + right
BY MoneyAssumption DEF Amount, checkedAdd, Overflow

\* A refusal is not forgotten by what is computed from it.
THEOREM OverflowStays ==
  ASSUME NEW n \in Amount \cup {Overflow}
  PROVE  /\ checkedAdd(Overflow, n) = Overflow /\ checkedAdd(n, Overflow) = Overflow
         /\ checkedMultiply(Overflow, n) = Overflow
BY MoneyAssumption DEF Amount, checkedAdd, checkedMultiply, Overflow

\* Rounding half up is off by half a unit at most, and never more than the
\* amount that is taxed.
LEMMA ExactTaxBounds ==
  ASSUME NEW subtotal \in Nat, NEW rate \in 0..Scale
  PROVE  /\ ExactTax(subtotal, rate) \in 0..subtotal
         /\ 2 * (ExactTax(subtotal, rate) * Scale - subtotal * rate) <= Scale
         /\ 2 * (subtotal * rate - ExactTax(subtotal, rate) * Scale) <= Scale
<1>1. PICK half \in Nat : Scale = 2 * half
  BY MoneyAssumption
<1>2. Scale \in Nat \ {0} /\ rate \in Nat /\ rate <= Scale /\ half > 0
  BY <1>1, MoneyAssumption
<1>3. Scale \div 2 = half
  BY <1>1, <1>2
<1> DEFINE product == subtotal * rate
           t == ExactTax(subtotal, rate)
<1>4. product \in Nat /\ product <= subtotal * Scale /\ subtotal * Scale \in Nat
  BY <1>2, SMTT(30)
<1>5. t = (product + half) \div Scale
  BY <1>3 DEF ExactTax
<1> HIDE DEF product
<1>6. product + half \in Nat
  BY <1>4
<1>7. t \in Nat /\ t * Scale <= product + half /\ product + half < t * Scale + Scale
  BY <1>2, <1>5, <1>6, DivFacts
<1> HIDE DEF t
<1>8. t * Scale \in Nat
  BY <1>2, <1>7, SMTT(30)
<1>9. t <= subtotal
  <2> SUFFICES ASSUME t >= subtotal + 1 PROVE FALSE
    BY <1>7
  <2>1. t * Scale >= (subtotal + 1) * Scale
    BY <1>2, <1>7, SMTT(30)
  <2>2. (subtotal + 1) * Scale = subtotal * Scale + Scale
    BY <1>2, SMTT(30)
  <2> QED
    BY <1>1, <1>2, <1>4, <1>7, <1>8, <2>1, <2>2
<1>10. 2 * (t * Scale - product) <= Scale /\ 2 * (product - t * Scale) <= Scale
  BY <1>1, <1>2, <1>4, <1>7, <1>8
<1> QED
  BY <1>7, <1>9, <1>10 DEF t, product

\* taxAmount rounds half up: it lies between nothing and the whole subtotal,
\* within half a unit of the true tax, and it is refused only when the weighted
\* amount does not fit an int64.
THEOREM TaxExact ==
  ASSUME NEW subtotal \in Amount, NEW rate \in 0..Scale, Scale <= MaxInt
  PROVE  LET tax == taxAmount(subtotal, rate) IN
         /\ tax # Overflow <=> subtotal * rate + Scale \div 2 <= MaxInt
         /\ tax # Overflow =>
              /\ tax = ExactTax(subtotal, rate) /\ tax \in 0..subtotal
              /\ 2 * (tax * Scale - subtotal * rate) <= Scale
              /\ 2 * (subtotal * rate - tax * Scale) <= Scale
<1> DEFINE product == subtotal * rate
           half == Scale \div 2
<1>1. /\ subtotal \in Nat /\ rate \in Amount /\ MaxInt \in Nat
      /\ Scale \in Nat \ {0} /\ rate >= 0 /\ rate <= Scale
  BY MoneyAssumption DEF Amount
<1>2. half \in Amount
  BY <1>1 DEF Amount
<1>3. product \in Nat
  BY <1>1, SMTT(30) DEF Amount
<1>4. ExactTax(subtotal, rate) = (product + half) \div Scale
  BY DEF ExactTax
<1>5. /\ ExactTax(subtotal, rate) \in 0..subtotal
      /\ 2 * (ExactTax(subtotal, rate) * Scale - product) <= Scale
      /\ 2 * (product - ExactTax(subtotal, rate) * Scale) <= Scale
  BY <1>1, ExactTaxBounds
<1>6. CASE product > MaxInt
  <2>1. checkedMultiply(subtotal, rate) = Overflow
    BY <1>1, <1>3, <1>6, MultiplyExact
  <2>2. taxAmount(subtotal, rate) = Overflow
    BY <1>1, <1>2, <2>1 DEF taxAmount, checkedAdd, Overflow, Amount
  <2>3. ~(product + half <= MaxInt)
    BY <1>1, <1>2, <1>3, <1>6 DEF Amount
  <2> QED BY <2>2, <2>3
<1>7. CASE product <= MaxInt
  <2>1. checkedMultiply(subtotal, rate) = product /\ product \in Amount
    BY <1>1, <1>3, <1>7, MultiplyExact DEF Amount
  <2> HIDE DEF product, half
  <2>2. CASE product + half <= MaxInt
    <3>1. checkedAdd(product, half) = product + half
      BY <1>2, <2>1, <2>2, AddExact
    <3>2. product + half >= 0
      BY <1>2, <1>3 DEF Amount
    <3>3. taxAmount(subtotal, rate) = (product + half) \div Scale
      BY <1>1, <2>1, <3>1, <3>2 DEF taxAmount, half
    <3>4. taxAmount(subtotal, rate) # Overflow
      BY <1>4, <1>5, <3>3 DEF Overflow
    <3> QED BY <1>4, <1>5, <2>2, <3>3, <3>4 DEF product, half
  <2>3. CASE product + half > MaxInt
    <3>1. checkedAdd(product, half) = Overflow
      BY <1>1, <1>2, <2>1, <2>3 DEF checkedAdd, Amount
    <3>2. taxAmount(subtotal, rate) = Overflow
      BY <2>1, <3>1 DEF taxAmount, Overflow, half
    <3> QED BY <1>1, <1>2, <1>3, <2>3, <3>2 DEF product, half, Amount
  <2> QED BY <1>1, <1>2, <1>3, <2>2, <2>3 DEF Amount
<1> QED BY <1>1, <1>3, <1>6, <1>7

-----------------------------------------------------------------------------
(* Journals.  Complete refuses a total, and a cost of goods, that does not     *)
(* fit an int64; what it debits is their sum, which may not fit.               *)

LEMMA AsInt64Value ==
  ASSUME NEW n \in -(MaxInt + 1)..(2 * MaxInt + 1)
  PROVE  AsInt64(n) = IF n > MaxInt THEN n - 2 * (MaxInt + 1) ELSE n
<1> DEFINE m == MaxInt + 1
           x == n + m
<1>1. m \in Nat \ {0} /\ x \in 0..(3 * m - 1) /\ x = n + m /\ m = MaxInt + 1
  BY MoneyAssumption
<1>2. AsInt64(n) = (x % (2 * m)) - m
  BY <1>1, MoneyAssumption DEF AsInt64
<1> HIDE DEF m, x
<1>3. CASE x < 2 * m
  <2>1. x % (2 * m) = x
    BY <1>1, <1>3, SMTT(30)
  <2> QED BY <1>1, <1>2, <1>3, <2>1, MoneyAssumption
<1>4. CASE x >= 2 * m
  <2>1. x % (2 * m) = x - 2 * m
    BY <1>1, <1>4, SMTT(30)
  <2> QED BY <1>1, <1>2, <1>4, <2>1, MoneyAssumption
<1> QED BY <1>1, <1>3, <1>4

\* Adding amounts one by one gives what an int64 shows of the true sum, while
\* that is less than two int64s hold.
THEOREM WrapAddTracks ==
  ASSUME NEW sum \in Nat, NEW amount \in Amount, sum + amount <= 2 * MaxInt + 1
  PROVE  WrapAdd(AsInt64(sum), amount) = AsInt64(sum + amount)
<1>1. /\ MaxInt \in Nat /\ amount \in Nat /\ amount <= MaxInt
      /\ sum \in -(MaxInt + 1)..(2 * MaxInt + 1)
      /\ sum + amount \in -(MaxInt + 1)..(2 * MaxInt + 1)
  BY MoneyAssumption DEF Amount
<1>2. AsInt64(sum) = IF sum > MaxInt THEN sum - 2 * (MaxInt + 1) ELSE sum
  BY <1>1, AsInt64Value
<1> DEFINE n == AsInt64(sum) + amount
<1>3. n \in -(MaxInt + 1)..(2 * MaxInt + 1)
  BY <1>1, <1>2
<1>4. WrapAdd(AsInt64(sum), amount) = AsInt64(n)
  BY DEF WrapAdd
<1> HIDE DEF n
<1>6. AsInt64(n) = IF n > MaxInt THEN n - 2 * (MaxInt + 1) ELSE n
  BY <1>3, AsInt64Value
<1>5. AsInt64(sum + amount) =
        IF sum + amount > MaxInt THEN sum + amount - 2 * (MaxInt + 1) ELSE sum + amount
  BY <1>1, AsInt64Value
<1> QED BY <1>1, <1>2, <1>4, <1>5, <1>6 DEF n

\* Journal.Validate adds without a check and is right all the same: for sides
\* that are sums of two amounts, as Complete's are, it accepts a journal if and
\* only if its true debits and credits are equal and not zero.
THEOREM BalanceExact ==
  ASSUME NEW debits \in 0..(2 * MaxInt), NEW credits \in 0..(2 * MaxInt)
  PROVE  Balances(AsInt64(debits), AsInt64(credits)) <=> debits = credits /\ debits # 0
<1>1. /\ MaxInt \in Nat /\ debits \in Nat /\ credits \in Nat
      /\ debits \in -(MaxInt + 1)..(2 * MaxInt + 1)
      /\ credits \in -(MaxInt + 1)..(2 * MaxInt + 1)
  BY MoneyAssumption
<1>2. /\ AsInt64(debits) = IF debits > MaxInt THEN debits - 2 * (MaxInt + 1) ELSE debits
      /\ AsInt64(credits) = IF credits > MaxInt THEN credits - 2 * (MaxInt + 1) ELSE credits
  BY <1>1, AsInt64Value
<1> QED BY <1>1, <1>2, MoneyAssumption DEF Balances
=============================================================================
