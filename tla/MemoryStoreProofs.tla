------------------------- MODULE MemoryStoreProofs -------------------------
(***************************************************************************)
(* MemoryStore for every value of its constants: what the tables always    *)
(* are, what an answer says, that no amount wraps, and that the store      *)
(* implements the serial service.                                          *)
(*                                                                         *)
(* The invariant, MemInv, has four parts.  ControlInv says where requests  *)
(* stand; StoreInv what the tables are between transactions; AnswerInv     *)
(* what each answer says of them; Tx what the transaction has done to its  *)
(* clone so far, told as a difference from the tables, which stand still   *)
(* while the mutex is held.  When the clone takes their place, Tx says     *)
(* which step of SalesLedger that is, and the theorems of that module      *)
(* (Serial) keep what they prove of the books.                             *)
(*                                                                         *)
(* First what sums of rows and of lines are, then the invariant, then one  *)
(* lemma per action, last the theorems.                                    *)
(***************************************************************************)
EXTENDS MemoryStore, SumProofs, MoneyProofs, WellFoundedInduction, TLAPS

-----------------------------------------------------------------------------
(* Sums of sequences *)

\* The places and the values of a sequence.
LEMMA SeqDomain ==
  ASSUME NEW S, NEW s \in Seq(S)
  PROVE  /\ Len(s) \in Nat /\ DOMAIN s = 1..Len(s) /\ IsFiniteSet(DOMAIN s)
         /\ \A i \in DOMAIN s : s[i] \in S
<1>1. Len(s) \in Nat /\ DOMAIN s = 1..Len(s)
  OBVIOUS
<1>2. IsFiniteSet(1..Len(s))
  BY <1>1, FS_Interval
<1> QED BY <1>1, <1>2

\* The first values of a sequence.
First(f, i) == SumFunctionOnSet(f, 1..i)

\* The first no values add up to nothing.
LEMMA FirstNone == ASSUME NEW f PROVE First(f, 0) = 0
<1>1. 1..0 = {}
  OBVIOUS
<1> QED BY <1>1, SumOfNone DEF First

\* One value more.
LEMMA FirstOneMore ==
  ASSUME NEW f, NEW i \in Nat, \A j \in 1..(i + 1) : f[j] \in Int
  PROVE  First(f, i + 1) = f[i + 1] + First(f, i) /\ First(f, i) \in Int
<1>1. 1..(i + 1) = (1..i) \cup {i + 1} /\ i + 1 \notin 1..i /\ IsFiniteSet(1..i)
  BY FS_Interval
<1>2. SumFunctionOnSet(f, (1..i) \cup {i + 1}) = f[i + 1] + SumFunctionOnSet(f, 1..i)
  BY <1>1, SumWith
<1>3. SumFunctionOnSet(f, 1..i) \in Int
  BY <1>1, SumType
<1> QED BY <1>1, <1>2, <1>3 DEF First

\* All values of a sequence.
LEMMA FirstAll ==
  ASSUME NEW S, NEW f \in Seq(S)
  PROVE  SumFunction(f) = First(f, Len(f))
BY SeqDomain DEF SumFunction, First

\* What comes first is no more than the whole, when nothing is negative.
LEMMA FirstGrows ==
  ASSUME NEW f \in Seq(Nat), NEW i \in 0..Len(f)
  PROVE  First(f, i) \in Nat /\ First(f, i) <= SumFunction(f)
<1>1. /\ DOMAIN f = 1..Len(f) /\ IsFiniteSet(DOMAIN f) /\ Len(f) \in Nat
      /\ \A j \in DOMAIN f : f[j] \in Nat
  BY SeqDomain
<1>2. 1..i \in SUBSET (DOMAIN f)
  BY <1>1
<1> QED BY <1>1, <1>2, SumGrows DEF First, SumFunction

\* Two sequences one after the other, by a smallest counterexample.
LEMMA SumConcat ==
  ASSUME NEW s \in Seq(Int), NEW t \in Seq(Int)
  PROVE  SumFunction(s \o t) = SumFunction(s) + SumFunction(t)
<1> DEFINE m == Len(s)
           n == Len(t)
           u == s \o t
           R == (m + 1)..(m + n)
           h == [j \in 1..n |-> m + j]
<1>1. m \in Nat /\ n \in Nat /\ DOMAIN s = 1..m /\ DOMAIN t = 1..n
  BY SeqDomain
<1>2. /\ u \in Seq(Int) /\ DOMAIN u = 1..(m + n)
      /\ \A j \in 1..m : u[j] = s[j]
      /\ \A j \in 1..n : u[m + j] = t[j]
  BY <1>1
<1>3. \A j \in 1..(m + n) : u[j] \in Int
  BY <1>2
<1> HIDE DEF u, m, n
<1>4. 1..(m + n) = (1..m) \cup R /\ (1..m) \cap R = {} /\ IsFiniteSet(1..m) /\ IsFiniteSet(R)
  BY <1>1, FS_Interval
<1>5. SumFunctionOnSet(u, (1..m) \cup R) = SumFunctionOnSet(u, 1..m) + SumFunctionOnSet(u, R)
  <2> DEFINE M == 1..m
  <2>1. IsFiniteSet(M) /\ IsFiniteSet(R) /\ M \cap R = {} /\ \A j \in M \cup R : u[j] \in Int
    BY <1>3, <1>4
  <2> HIDE DEF M, R
  <2>2. SumFunctionOnSet(u, M \cup R) = SumFunctionOnSet(u, M) + SumFunctionOnSet(u, R)
    BY <2>1, SumUnion
  <2> QED BY <2>2 DEF M
<1>6. SumFunctionOnSet(u, 1..m) = SumFunctionOnSet(s, 1..m)
  <2> DEFINE M == 1..m
  <2>1. IsFiniteSet(M) /\ \A j \in M : u[j] = s[j]
    BY <1>2, <1>4
  <2> HIDE DEF M
  <2>2. SumFunctionOnSet(u, M) = SumFunctionOnSet(s, M)
    BY <2>1, SumSame
  <2> QED BY <2>2 DEF M
<1>7. SumFunctionOnSet(t, 1..n) = SumFunctionOnSet(u, R)
  <2> DEFINE N == 1..n
  <2>1. IsFiniteSet(N)
    BY <1>1, FS_Interval
  <2>2. h \in [N -> R] /\ \A i, j \in N : h[i] = h[j] => i = j
    BY <1>1
  <2>3. \A j \in N : t[j] = u[h[j]] /\ t[j] \in Int
    BY <1>1, <1>2
  <2>4. ASSUME NEW k \in R PROVE \E j \in N : h[j] = k
    <3>1. k - m \in N /\ h[k - m] = k
      BY <1>1
    <3> QED BY <3>1
  <2> HIDE DEF h, R, N
  <2>5. h \in Bijection(N, R)
    BY <2>2, <2>4 DEF Bijection, Injection, Surjection, IsInjective
  <2>6. SumFunctionOnSet(t, N) = SumFunctionOnSet(u, R)
    BY <2>1, <2>3, <2>5, SumReindexed
  <2> QED BY <2>6 DEF N
<1>9. SumFunction(u) = SumFunction(s) + SumFunction(t)
  BY <1>1, <1>2, <1>4, <1>5, <1>6, <1>7 DEF SumFunction
<1> QED BY <1>9 DEF u

\* A sequence of one value.
LEMMA SumOne ==
  ASSUME NEW a \in Int
  PROVE  SumFunction(<<a>>) = a
<1> DEFINE s == <<a>>
<1>1. s \in Seq(Int) /\ Len(s) = 0 + 1 /\ s[0 + 1] = a /\ \A j \in 1..(0 + 1) : s[j] \in Int
  OBVIOUS
<1> HIDE DEF s
<1>2. First(s, 0 + 1) = s[0 + 1] + First(s, 0)
  BY <1>1, FirstOneMore
<1>3. SumFunction(s) = a + 0
  BY <1>1, <1>2, FirstNone, FirstAll
<1> QED BY <1>3 DEF s

-----------------------------------------------------------------------------
(* Journals: what their sides and their accounts add up to *)

Debits(e) == [i \in DOMAIN e |-> e[i].debit]
Credits(e) == [i \in DOMAIN e |-> e[i].credit]
Posts(e, a) ==
  [i \in DOMAIN e |-> IF e[i].account = a THEN e[i].debit - e[i].credit ELSE 0]

OneSided(e) ==
  \A i \in DOMAIN e :
    \/ e[i].debit = 0 /\ e[i].credit # 0
    \/ e[i].debit # 0 /\ e[i].credit = 0

\* What Journal.Validate lets through is what balances when numbers have no
\* end, as long as neither side exceeds twice the largest amount.
Sound(e) ==
  /\ Len(e) >= 2 /\ OneSided(e)
  /\ SumFunction(Debits(e)) = SumFunction(Credits(e))
  /\ SumFunction(Debits(e)) \in 1..(2 * MaxInt)

\* The sides of journal entries, as sequences of numbers.
LEMMA EntryTypes ==
  ASSUME NEW e \in Seq(JournalEntry)
  PROVE  /\ Debits(e) \in Seq(Nat) /\ Credits(e) \in Seq(Nat)
         /\ Debits(e) \in Seq(Int) /\ Credits(e) \in Seq(Int)
         /\ \A a : Posts(e, a) \in Seq(Int)
<1>1. /\ Len(e) \in Nat /\ DOMAIN e = 1..Len(e)
      /\ \A i \in DOMAIN e : e[i].debit \in Nat /\ e[i].credit \in Nat
  <2>1. \A i \in DOMAIN e : e[i] \in JournalEntry
    BY SeqDomain
  <2> QED BY <2>1, SeqDomain, MoneyAssumption DEF JournalEntry, Amount
<1>2. ASSUME NEW f, DOMAIN f = 1..Len(e), f = [i \in 1..Len(e) |-> f[i]]
      PROVE  /\ (\A i \in 1..Len(e) : f[i] \in Nat) => f \in Seq(Nat)
             /\ (\A i \in 1..Len(e) : f[i] \in Int) => f \in Seq(Int)
  BY <1>1, <1>2
<1>3. ASSUME NEW a PROVE Posts(e, a) \in Seq(Int)
  <2>1. \A i \in 1..Len(e) : Posts(e, a)[i] \in Int
    BY <1>1 DEF Posts
  <2>2. DOMAIN Posts(e, a) = 1..Len(e)
    BY <1>1 DEF Posts
  <2>3. Posts(e, a) = [i \in 1..Len(e) |-> Posts(e, a)[i]]
    BY <1>1 DEF Posts
  <2> QED BY <1>2, <2>1, <2>2, <2>3
<1>4. Debits(e) \in Seq(Nat) /\ Debits(e) \in Seq(Int)
  BY <1>1, <1>2 DEF Debits
<1>5. Credits(e) \in Seq(Nat) /\ Credits(e) \in Seq(Int)
  BY <1>1, <1>2 DEF Credits
<1> QED BY <1>3, <1>4, <1>5

\* Entries put after other entries: every sum is the two sums together.
LEMMA EntriesConcat ==
  ASSUME NEW e \in Seq(JournalEntry), NEW d \in Seq(JournalEntry)
  PROVE  /\ e \o d \in Seq(JournalEntry) /\ Len(e \o d) = Len(e) + Len(d)
         /\ Len(e) \in Nat /\ Len(d) \in Nat
         /\ SumFunction(Debits(e \o d)) = SumFunction(Debits(e)) + SumFunction(Debits(d))
         /\ SumFunction(Credits(e \o d)) = SumFunction(Credits(e)) + SumFunction(Credits(d))
         /\ \A a : Posting(e \o d, a) = Posting(e, a) + Posting(d, a)
         /\ OneSided(e) /\ OneSided(d) => OneSided(e \o d)
<1> DEFINE c == e \o d
<1>1. /\ c \in Seq(JournalEntry) /\ Len(e) \in Nat /\ Len(d) \in Nat
      /\ DOMAIN e = 1..Len(e) /\ DOMAIN d = 1..Len(d)
      /\ Len(c) = Len(e) + Len(d) /\ DOMAIN c = 1..(Len(e) + Len(d))
      /\ \A i \in 1..(Len(e) + Len(d)) :
           c[i] = IF i <= Len(e) THEN e[i] ELSE d[i - Len(e)]
  OBVIOUS
<1>2. Debits(c) = Debits(e) \o Debits(d)
  BY <1>1, EntryTypes DEF Debits
<1>3. Credits(c) = Credits(e) \o Credits(d)
  BY <1>1, EntryTypes DEF Credits
<1>4. ASSUME NEW a PROVE Posts(c, a) = Posts(e, a) \o Posts(d, a)
  BY <1>1, EntryTypes DEF Posts
<1>5. OneSided(e) /\ OneSided(d) => OneSided(c)
  BY <1>1 DEF OneSided
<1>6. ASSUME NEW a PROVE Posting(c, a) = Posting(e, a) + Posting(d, a)
  <2>1. SumFunction(Posts(e, a) \o Posts(d, a))
          = SumFunction(Posts(e, a)) + SumFunction(Posts(d, a))
    BY EntryTypes, SumConcat
  <2>2. /\ Posting(c, a) = SumFunction(Posts(c, a))
        /\ Posting(e, a) = SumFunction(Posts(e, a))
        /\ Posting(d, a) = SumFunction(Posts(d, a))
    BY DEF Posting, Posts
  <2>3. Posts(c, a) = Posts(e, a) \o Posts(d, a)
    BY <1>4
  <2> HIDE DEF c
  <2> QED BY <2>1, <2>2, <2>3
<1> HIDE DEF c
<1>7. /\ SumFunction(Debits(c)) = SumFunction(Debits(e)) + SumFunction(Debits(d))
      /\ SumFunction(Credits(c)) = SumFunction(Credits(e)) + SumFunction(Credits(d))
  BY <1>2, <1>3, EntryTypes, SumConcat
<1> QED BY <1>1, <1>5, <1>6, <1>7 DEF c

\* Two entries are one and one.
LEMMA PairJoined ==
  ASSUME NEW a, NEW b
  PROVE  << a, b >> = << a >> \o << b >>
<1> DEFINE s == << a >> \o << b >>
           t == << a, b >>
<1>1. << a >> \in Seq({a, b}) /\ << b >> \in Seq({a, b}) /\ t \in Seq({a, b})
  OBVIOUS
<1>2. Len(t) = 2 /\ t[1] = a /\ t[2] = b
  OBVIOUS
<1>3. s \in Seq({a, b}) /\ Len(s) = 2
  BY <1>1
<1>4. s[1] = a /\ s[2] = b
  OBVIOUS
<1> HIDE DEF s, t
<1>5. t = s
  BY <1>1, <1>2, <1>3, <1>4
<1> QED BY <1>5 DEF s, t

\* The sums of one entry.
LEMMA OneEntry ==
  ASSUME NEW account \in Accounts, NEW debit \in Amount, NEW credit \in Amount
  PROVE  LET e == << Entry(account, debit, credit) >> IN
         /\ e \in Seq(JournalEntry) /\ Len(e) = 1
         /\ SumFunction(Debits(e)) = debit /\ SumFunction(Credits(e)) = credit
         /\ \A a : Posting(e, a) = IF a = account THEN debit - credit ELSE 0
         /\ (debit = 0 /\ credit # 0) \/ (debit # 0 /\ credit = 0) => OneSided(e)
<1> DEFINE e == << Entry(account, debit, credit) >>
<1>0. debit \in Int /\ credit \in Int /\ debit - credit \in Int
  BY MoneyAssumption DEF Amount
<1>1. /\ e \in Seq(JournalEntry) /\ Len(e) = 1 /\ DOMAIN e = {1}
      /\ e[1].account = account /\ e[1].debit = debit /\ e[1].credit = credit
  BY DEF Entry, JournalEntry
<1> HIDE DEF e
<1>2. SumFunction(Debits(e)) = debit
  <2>1. Debits(e) = << debit >>
    BY <1>1 DEF Debits
  <2> QED BY <1>0, <2>1, SumOne
<1>3. SumFunction(Credits(e)) = credit
  <2>1. Credits(e) = << credit >>
    BY <1>1 DEF Credits
  <2> QED BY <1>0, <2>1, SumOne
<1>4. ASSUME NEW a PROVE Posting(e, a) = IF a = account THEN debit - credit ELSE 0
  <2> DEFINE v == IF a = account THEN debit - credit ELSE 0
  <2>1. Posts(e, a) = << v >> /\ v \in Int
    BY <1>0, <1>1 DEF Posts
  <2>2. Posting(e, a) = SumFunction(Posts(e, a))
    BY DEF Posting, Posts
  <2> HIDE DEF v
  <2>3. Posting(e, a) = v
    BY <2>1, <2>2, SumOne
  <2> QED BY <2>3 DEF v
<1>5. (debit = 0 /\ credit # 0) \/ (debit # 0 /\ credit = 0) => OneSided(e)
  BY <1>1 DEF OneSided
<1> QED BY <1>1, <1>2, <1>3, <1>4, <1>5 DEF e

\* The sums of no entry.
LEMMA NoEntry ==
  /\ << >> \in Seq(JournalEntry) /\ OneSided(<< >>)
  /\ SumFunction(Debits(<< >>)) = 0 /\ SumFunction(Credits(<< >>)) = 0
  /\ \A a : Posting(<< >>, a) = 0
<1>1. DOMAIN Debits(<< >>) = {} /\ DOMAIN Credits(<< >>) = {}
  BY DEF Debits, Credits
<1>2. SumFunction(Debits(<< >>)) = 0 /\ SumFunction(Credits(<< >>)) = 0
  BY <1>1, SumFunctionNone
<1>3. ASSUME NEW a PROVE Posting(<< >>, a) = 0
  BY SumFunctionNone DEF Posting
<1> QED BY <1>2, <1>3 DEF OneSided

\* The guard a journal passes is no more than that it is sound.
LEMMA SoundIsValid ==
  ASSUME NEW e \in Seq(JournalEntry), Sound(e)
  PROVE  Validate(e)
<1>1. /\ \A i \in DOMAIN e : e[i].debit \in Nat /\ e[i].credit \in Nat
      /\ MaxInt \in Nat
  <2>1. \A i \in DOMAIN e : e[i] \in JournalEntry
    BY SeqDomain
  <2> QED BY <2>1, MoneyAssumption DEF JournalEntry, Amount
<1>2. /\ \A i \in DOMAIN e : e[i].debit >= 0 /\ e[i].credit >= 0
      /\ \A i \in DOMAIN e : (e[i].debit = 0) # (e[i].credit = 0)
  BY <1>1 DEF Sound, OneSided
<1>3. /\ [i \in DOMAIN e |-> e[i]["debit"]] = Debits(e)
      /\ [i \in DOMAIN e |-> e[i]["credit"]] = Credits(e)
  BY DEF Debits, Credits
<1> DEFINE s == SumFunction(Debits(e))
<1>4. s \in 0..(2 * MaxInt) /\ s # 0 /\ SumFunction(Credits(e)) = s
  BY <1>1 DEF Sound
<1> HIDE DEF s
<1>5. Balances(AsInt64(s), AsInt64(s))
  BY <1>4, BalanceExact
<1> QED BY <1>2, <1>3, <1>4, <1>5 DEF Validate, Sound, s

\* Reversed (Journal.Reversed): sound when the journal is, and the opposite on
\* every account.
LEMMA ReversedEntries ==
  ASSUME NEW e \in Seq(JournalEntry)
  PROVE  /\ Reversed(e) \in Seq(JournalEntry)
         /\ Sound(e) => Sound(Reversed(e))
         /\ \A a : Posting(Reversed(e), a) = -Posting(e, a)
<1> DEFINE r == Reversed(e)
<1>1. /\ Len(e) \in Nat /\ DOMAIN e = 1..Len(e)
      /\ \A i \in DOMAIN e : e[i] \in JournalEntry
  BY SeqDomain
<1>2. /\ r \in Seq(JournalEntry) /\ DOMAIN r = DOMAIN e /\ Len(r) = Len(e)
      /\ \A i \in DOMAIN e : /\ r[i].account = e[i].account
                             /\ r[i].debit = e[i].credit /\ r[i].credit = e[i].debit
  BY <1>1 DEF Reversed, Entry, JournalEntry
<1> HIDE DEF r
<1>3. Debits(r) = Credits(e) /\ Credits(r) = Debits(e)
  BY <1>2 DEF Debits, Credits
<1>4. Sound(e) => Sound(r)
  <2>1. OneSided(e) => OneSided(r)
    BY <1>2 DEF OneSided
  <2> QED BY <1>2, <1>3, <2>1 DEF Sound
<1>5. ASSUME NEW a PROVE Posting(r, a) = -Posting(e, a)
  <2> DEFINE D == DOMAIN e
  <2>1. /\ IsFiniteSet(D) /\ DOMAIN Posts(e, a) = D /\ DOMAIN Posts(r, a) = D
        /\ \A i \in D : Posts(e, a)[i] \in Int
    BY <1>2, SeqDomain, EntryTypes DEF Posts
  <2>2. \A i \in D : Posts(r, a)[i] = -Posts(e, a)[i]
    <3>1. ASSUME NEW i \in D PROVE Posts(r, a)[i] = -Posts(e, a)[i]
      <4>1. e[i].debit \in Int /\ e[i].credit \in Int
        BY <1>1, MoneyAssumption DEF JournalEntry, Amount
      <4>2. CASE e[i].account = a
        <5>1. /\ Posts(r, a)[i] = e[i].credit - e[i].debit
              /\ Posts(e, a)[i] = e[i].debit - e[i].credit
          BY <1>2, <4>2 DEF Posts
        <5> QED BY <4>1, <5>1
      <4>3. CASE e[i].account # a
        <5>1. Posts(r, a)[i] = 0 /\ Posts(e, a)[i] = 0
          BY <1>2, <4>3 DEF Posts
        <5> QED BY <5>1, ZeroNegated
      <4> QED BY <4>2, <4>3
    <3> QED BY <3>1
  <2> HIDE DEF D
  <2>3. SumFunctionOnSet(Posts(r, a), D) = -SumFunctionOnSet(Posts(e, a), D)
    BY <2>1, <2>2, SumNegated
  <2>4. \A s : Posting(s, a) = SumFunction(Posts(s, a))
    BY DEF Posting, Posts
  <2> QED BY <2>1, <2>3, <2>4 DEF SumFunction
<1> QED BY <1>2, <1>4, <1>5 DEF r

-----------------------------------------------------------------------------
(* The amounts of an order *)

LineType == [product : Product, quantity : Amount \ {0}]

Nets(L) == [i \in DOMAIN L |-> Net(L[i])]
Taxes(L) == [i \in DOMAIN L |-> Tax(L[i])]
Costs(L) == [i \in DOMAIN L |-> Cost(L[i])]
Units(L, p) == [i \in DOMAIN L |-> IF L[i].product = p THEN L[i].quantity ELSE 0]

\* A product of naturals, and when it is not zero.
LEMMA Products ==
  ASSUME NEW a \in Nat, NEW b \in Nat
  PROVE  a * b \in Nat /\ (a # 0 /\ b # 0 => a * b # 0)
OBVIOUS

\* A line that Validate let through, and its exact amounts.
LEMMA LineAmounts ==
  ASSUME NEW line \in LineType
  PROVE  /\ line.product \in Product /\ line.quantity \in Amount /\ line.quantity \in Nat \ {0}
         /\ Catalog[line.product].price \in Amount \ {0}
         /\ Catalog[line.product].cost \in Amount
         /\ Catalog[line.product].rate \in 0..Scale
         /\ Net(line) \in Nat \ {0} /\ Tax(line) \in Nat /\ Cost(line) \in Nat
<1>1. line.product \in Product /\ line.quantity \in Amount /\ line.quantity \in Nat \ {0}
  BY MoneyAssumption DEF LineType, Amount
<1>2. Catalog[line.product] \in [active : BOOLEAN, currency : STRING, price : Amount \ {0},
                                 cost : Amount, rate : 0..Scale]
  BY <1>1, CatalogAssumption
<1>3. /\ Catalog[line.product].price \in Amount \ {0}
      /\ Catalog[line.product].cost \in Amount
      /\ Catalog[line.product].rate \in 0..Scale
  BY <1>2
<1>4. Catalog[line.product].price \in Nat \ {0} /\ Catalog[line.product].cost \in Nat
  BY <1>3, MoneyAssumption DEF Amount
<1>5. Net(line) \in Nat \ {0} /\ Cost(line) \in Nat
  BY <1>1, <1>4, Products DEF Net, Cost
<1>6. Tax(line) \in Nat
  <2>1. ExactTax(Net(line), Catalog[line.product].rate) \in 0..Net(line)
    BY <1>3, <1>5, ExactTaxBounds
  <2> QED BY <1>5, <2>1 DEF Tax
<1> QED BY <1>1, <1>3, <1>5, <1>6

\* The line loop's amounts are the exact ones, or refused for their size.
LEMMA PriceExact ==
  ASSUME NEW o \in Order, NEW i \in DOMAIN o.lines, o.lines[i] \in LineType
  PROVE  LET line == o.lines[i]
             price == Price[line] IN
         /\ price.subtotal = IF Net(line) <= MaxInt THEN Net(line) ELSE Overflow
         /\ price.cogs = IF Cost(line) <= MaxInt THEN Cost(line) ELSE Overflow
         /\ price.tax # Overflow => /\ Net(line) <= MaxInt /\ Tax(line) \in Amount
                                    /\ price.tax = Tax(line)
         /\ price.tax = Overflow =>
              \/ Net(line) > MaxInt
              \/ Net(line) * Catalog[line.product].rate + Scale \div 2 > MaxInt
         /\ price.total = checkedAdd(price.subtotal, price.tax)
<1> DEFINE line == o.lines[i]
           product == Catalog[line.product]
           subtotal == checkedMultiply(product.price, line.quantity)
           tax == taxAmount(subtotal, product.rate)
           cogs == checkedMultiply(product.cost, line.quantity)
           Lines == UNION {{x.lines[j] : j \in DOMAIN x.lines} : x \in Order}
<1>1. line \in Lines
  OBVIOUS
<1>2. Price[line] = [subtotal |-> subtotal, tax |-> tax, total |-> checkedAdd(subtotal, tax),
                     cogs |-> cogs]
  BY <1>1 DEF Price
<1>3. /\ Price[line].subtotal = subtotal /\ Price[line].tax = tax
      /\ Price[line].total = checkedAdd(subtotal, tax) /\ Price[line].cogs = cogs
  BY <1>2
<1>4. /\ line.quantity \in Amount /\ product.price \in Amount /\ product.cost \in Amount
      /\ product.rate \in 0..Scale /\ Net(line) \in Nat \ {0} /\ Cost(line) \in Nat
      /\ Tax(line) \in Nat
      /\ Net(line) = product.price * line.quantity /\ Cost(line) = product.cost * line.quantity
      /\ Tax(line) = ExactTax(Net(line), product.rate)
  BY LineAmounts DEF Net, Cost, Tax
<1> HIDE DEF line, product
<1>5. subtotal = IF Net(line) <= MaxInt THEN Net(line) ELSE Overflow
  BY <1>4, MultiplyExact, MoneyAssumption DEF Overflow
<1>6. cogs = IF Cost(line) <= MaxInt THEN Cost(line) ELSE Overflow
  BY <1>4, MultiplyExact, MoneyAssumption DEF Overflow
<1> HIDE DEF subtotal, cogs
<1>7. CASE Net(line) <= MaxInt
  <2>1. subtotal = Net(line) /\ Net(line) \in Amount
    BY <1>4, <1>5, <1>7 DEF Amount
  <2>2. /\ tax # Overflow <=> subtotal * product.rate + Scale \div 2 <= MaxInt
        /\ tax # Overflow => tax = ExactTax(subtotal, product.rate) /\ tax \in 0..subtotal
    BY <1>4, <2>1, TaxExact, CatalogAssumption
  <2>3. tax # Overflow => tax = Tax(line) /\ Tax(line) \in Amount
    BY <1>4, <1>7, <2>1, <2>2, MoneyAssumption DEF Amount
  <2>4. tax = Overflow => Net(line) * product.rate + Scale \div 2 > MaxInt
    <3>1. Net(line) * product.rate + Scale \div 2 \in Int
      BY <1>4, MoneyAssumption
    <3> QED BY <2>1, <2>2, <3>1, MoneyAssumption
  <2> QED BY <1>3, <1>5, <1>6, <1>7, <2>3, <2>4 DEF line, product
<1>8. CASE ~(Net(line) <= MaxInt)
  <2>1. subtotal = Overflow /\ Net(line) > MaxInt
    BY <1>4, <1>5, <1>8, MoneyAssumption
  <2>2. tax = Overflow
    <3>1. product.rate \in Amount \cup {Overflow} /\ Scale \div 2 \in Amount \cup {Overflow}
      <4>1. PICK half \in 1..Scale : Scale = 2 * half
        BY MoneyAssumption
      <4>2. Scale \div 2 = half
        BY <4>1, MoneyAssumption
      <4> QED BY <1>4, <4>1, <4>2, CatalogAssumption, MoneyAssumption DEF Amount
    <3>2. checkedMultiply(Overflow, product.rate) = Overflow
      BY <3>1, OverflowStays
    <3>3. checkedAdd(Overflow, Scale \div 2) = Overflow
      BY <3>1, OverflowStays
    <3> QED BY <2>1, <3>2, <3>3 DEF taxAmount, Overflow
  <2> QED BY <1>3, <1>5, <1>6, <2>1, <2>2 DEF line, product
<1> QED BY <1>7, <1>8

\* A sum that was not refused is the sum; one that was is too large.
LEMMA CheckedSum ==
  ASSUME NEW sum \in Amount, NEW value \in Amount \cup {Overflow}
  PROVE  /\ checkedAdd(sum, value) # Overflow =>
              /\ value \in Amount /\ checkedAdd(sum, value) = sum + value
              /\ sum + value \in Amount
         /\ checkedAdd(sum, value) = Overflow => value = Overflow \/ sum + value > MaxInt
BY MoneyAssumption DEF checkedAdd, Amount, Overflow

\* An order that Validate let through.
LEMMA OrderTyped ==
  ASSUME NEW o \in Order
  PROVE  /\ o.customer \in Customer /\ o.credit \in BOOLEAN
         /\ Wanted(o) => o.lines \in Seq(LineType) /\ o.lines # << >>
<1>1. o \in [customer : Customer, credit : BOOLEAN,
             lines : Seq([product : Product, quantity : -(MaxInt + 1)..MaxInt])]
  BY RequestAssumption
<1>2. ASSUME Wanted(o) PROVE o.lines \in Seq(LineType)
  <2>1. /\ Len(o.lines) \in Nat /\ DOMAIN o.lines = 1..Len(o.lines)
        /\ \A i \in DOMAIN o.lines :
             o.lines[i] \in [product : Product, quantity : -(MaxInt + 1)..MaxInt]
    <3>1. o.lines \in Seq([product : Product, quantity : -(MaxInt + 1)..MaxInt])
      BY <1>1
    <3> QED BY <3>1, SeqDomain
  <2>2. \A i \in DOMAIN o.lines : o.lines[i] \in LineType
    <3>1. ASSUME NEW i \in DOMAIN o.lines PROVE o.lines[i] \in LineType
      <4>1. o.lines[i].quantity > 0
        BY <1>2 DEF Wanted
      <4> QED BY <2>1, <4>1, MoneyAssumption DEF LineType, Amount
    <3> QED BY <3>1
  <2>3. o.lines = [i \in 1..Len(o.lines) |-> o.lines[i]]
    BY <1>1, <2>1
  <2> QED BY <2>1, <2>2, <2>3
<1> QED BY <1>1, <1>2 DEF Wanted

\* The exact amounts of the lines, as sequences.
LEMMA LinesTyped ==
  ASSUME NEW L \in Seq(LineType)
  PROVE  /\ Len(L) \in Nat /\ DOMAIN L = 1..Len(L)
         /\ \A i \in 1..Len(L) : L[i] \in LineType
         /\ Nets(L) \in Seq(Nat) /\ Taxes(L) \in Seq(Nat) /\ Costs(L) \in Seq(Nat)
         /\ \A p : Units(L, p) \in Seq(Nat)
         /\ Len(Nets(L)) = Len(L) /\ Len(Taxes(L)) = Len(L) /\ Len(Costs(L)) = Len(L)
         /\ \A p : Len(Units(L, p)) = Len(L)
<1>1. /\ Len(L) \in Nat /\ DOMAIN L = 1..Len(L)
      /\ \A i \in 1..Len(L) : L[i] \in LineType
  BY SeqDomain
<1>2. \A i \in 1..Len(L) : /\ Net(L[i]) \in Nat /\ Tax(L[i]) \in Nat /\ Cost(L[i]) \in Nat
                           /\ L[i].quantity \in Nat
  BY <1>1, LineAmounts
<1>3. ASSUME NEW f, f = [i \in 1..Len(L) |-> f[i]], \A i \in 1..Len(L) : f[i] \in Nat
      PROVE  f \in Seq(Nat) /\ Len(f) = Len(L)
  BY <1>1, <1>3
<1>4. /\ Nets(L) \in Seq(Nat) /\ Taxes(L) \in Seq(Nat) /\ Costs(L) \in Seq(Nat)
      /\ Len(Nets(L)) = Len(L) /\ Len(Taxes(L)) = Len(L) /\ Len(Costs(L)) = Len(L)
  BY <1>1, <1>2, <1>3 DEF Nets, Taxes, Costs
<1>5. ASSUME NEW p PROVE Units(L, p) \in Seq(Nat) /\ Len(Units(L, p)) = Len(L)
  <2>1. \A i \in 1..Len(L) : Units(L, p)[i] \in Nat
    BY <1>1, <1>2 DEF Units
  <2>2. Units(L, p) = [i \in 1..Len(L) |-> Units(L, p)[i]]
    BY <1>1 DEF Units
  <2> QED BY <1>3, <2>1, <2>2
<1> QED BY <1>1, <1>4, <1>5

\* An order is a command of the serial service, and its amounts are sums of
\* the amounts of its lines.
LEMMA ExactSums ==
  ASSUME NEW o
  PROVE  /\ Exact(o).net = SumFunction(Nets(o.lines))
         /\ Exact(o).tax = SumFunction(Taxes(o.lines))
         /\ Exact(o).cost = SumFunction(Costs(o.lines))
         /\ Exact(o).customer = o.customer /\ Exact(o).credit = o.credit
         /\ Exact(o).demand = Demand(o.lines)
         /\ \A p \in Product : Demand(o.lines)[p] = SumFunction(Units(o.lines, p))
BY DEF Exact, Nets, Taxes, Costs, Demand, Units

\* What an order costs is something, and it asks for some product.
LEMMA ExactTyped ==
  ASSUME NEW o, o.lines \in Seq(LineType), o.lines # << >>
  PROVE  /\ Exact(o).net \in Nat \ {0} /\ Exact(o).tax \in Nat /\ Exact(o).cost \in Nat
         /\ Exact(o).demand \in [Product -> Nat]
         /\ \E p \in Product : Exact(o).demand[p] > 0
<1> DEFINE L == o.lines
           p == L[1].product
<1>1. /\ Len(L) \in Nat \ {0} /\ 1 \in 1..Len(L) /\ 1 \in 0..Len(L)
      /\ \A i \in 1..Len(L) : L[i] \in LineType
  BY LinesTyped
<1>2. DOMAIN L = 1..Len(L) /\ L[1] \in LineType
  BY <1>1, LinesTyped
<1>3. /\ p \in Product /\ Nets(L)[1] \in Nat \ {0} /\ Units(L, p)[1] \in Nat \ {0}
  BY <1>1, <1>2, LineAmounts DEF Nets, Units
<1>4. ASSUME NEW f \in Seq(Nat), Len(f) = Len(L)
      PROVE  /\ SumFunction(f) \in Nat
             /\ f[1] # 0 => SumFunction(f) # 0
  <2>1. First(f, Len(f)) \in Nat /\ SumFunction(f) = First(f, Len(f))
    BY <1>1, <1>4, FirstGrows, FirstAll
  <2>2. First(f, 1) \in Nat /\ First(f, 1) <= SumFunction(f)
    BY <1>1, <1>4, FirstGrows
  <2>3. First(f, 0 + 1) = f[0 + 1] + First(f, 0)
    <3>1. \A j \in 1..(0 + 1) : f[j] \in Int
      BY <1>1, <1>4
    <3> QED BY <3>1, FirstOneMore
  <2>4. f[1] \in Nat /\ First(f, 1) = f[1]
    BY <1>1, <1>4, <2>3, FirstNone
  <2> QED BY <2>1, <2>2, <2>4
<1> HIDE DEF p
<1>5. /\ SumFunction(Nets(L)) \in Nat \ {0} /\ SumFunction(Taxes(L)) \in Nat
      /\ SumFunction(Costs(L)) \in Nat
  BY <1>3, <1>4, LinesTyped
<1>6. \A q \in Product : SumFunction(Units(L, q)) \in Nat
  BY <1>4, LinesTyped
<1>7. SumFunction(Units(L, p)) > 0
  BY <1>3, <1>4, LinesTyped
<1>8. Demand(L) \in [Product -> Nat]
  <2>1. \A q \in Product : Demand(L)[q] = SumFunction(Units(L, q))
    BY ExactSums
  <2> QED BY <1>6, <2>1 DEF Demand
<1> QED BY <1>3, <1>5, <1>7, <1>8, ExactSums

-----------------------------------------------------------------------------
(* What rows add up to *)

\* f is g on one part of the set and h on the other.
LEMMA SumJoined ==
  ASSUME NEW f, NEW g, NEW h, NEW S, NEW T,
         IsFiniteSet(S), IsFiniteSet(T), S \cap T = {}, \A x \in S \cup T : f[x] \in Int,
         \A x \in S : f[x] = g[x], \A x \in T : f[x] = h[x]
  PROVE  SumFunctionOnSet(f, S \cup T) = SumFunctionOnSet(g, S) + SumFunctionOnSet(h, T)
<1>1. SumFunctionOnSet(f, S \cup T) = SumFunctionOnSet(f, S) + SumFunctionOnSet(f, T)
  BY SumUnion
<1>2. SumFunctionOnSet(f, S) = SumFunctionOnSet(g, S)
  BY SumSame
<1>3. SumFunctionOnSet(f, T) = SumFunctionOnSet(h, T)
  BY SumSame
<1> QED BY <1>1, <1>2, <1>3

\* A sum of one summand.
LEMMA SumSingle ==
  ASSUME NEW x, NEW f \in [{x} -> Int]
  PROVE  SumFunction(f) = f[x]
<1>1. SumFunctionOnSet(f, {} \cup {x}) = f[x] + SumFunctionOnSet(f, {})
  <2>1. IsFiniteSet({}) /\ x \notin {} /\ \A y \in {} \cup {x} : f[y] \in Int
    BY FS_EmptySet
  <2> QED BY <2>1, SumWith
<1>2. DOMAIN f = {} \cup {x} /\ f[x] \in Int
  OBVIOUS
<1> QED BY <1>1, <1>2, SumOfNone DEF SumFunction

\* h carries each summand of g over to its opposite in f.
LEMMA SumOpposite ==
  ASSUME NEW S, NEW T, IsFiniteSet(S), NEW h \in Bijection(S, T), NEW f, NEW g,
         \A x \in S : g[x] \in Int /\ f[h[x]] = -g[x]
  PROVE  SumFunctionOnSet(f, T) = -SumFunctionOnSet(g, S)
<1> DEFINE e == [x \in S |-> -g[x]]
<1>1. SumFunctionOnSet(e, S) = SumFunctionOnSet(f, T)
  <2>1. \A x \in S : e[x] = f[h[x]] /\ e[x] \in Int
    OBVIOUS
  <2> HIDE DEF e
  <2> QED BY <2>1, SumReindexed
<1>2. SumFunctionOnSet(e, S) = -SumFunctionOnSet(g, S)
  <2>1. \A x \in S : g[x] \in Int /\ e[x] = -g[x]
    OBVIOUS
  <2> HIDE DEF e
  <2> QED BY <2>1, SumNegated
<1> QED BY <1>1, <1>2

Finite(t) ==
  /\ IsFiniteSet(t.movements) /\ IsFiniteSet(t.ledger)
  /\ IsFiniteSet(t.payments) /\ IsFiniteSet(t.journals)

\* Moved, of rows and other rows.
LEMMA MovedJoined ==
  ASSUME NEW A \in SUBSET Movement, NEW B \in SUBSET Movement, NEW p,
         IsFiniteSet(A), IsFiniteSet(B), A \cap B = {}
  PROVE  /\ Moved(A \cup B, p) = Moved(A, p) + Moved(B, p)
         /\ Moved(A, p) \in Int /\ Moved(B, p) \in Int
<1> DEFINE f == [row \in A \cup B |-> IF row.product = p THEN row.quantity ELSE 0]
           g == [row \in A |-> IF row.product = p THEN row.quantity ELSE 0]
           h == [row \in B |-> IF row.product = p THEN row.quantity ELSE 0]
<1>1. /\ Moved(A \cup B, p) = SumFunctionOnSet(f, A \cup B)
      /\ Moved(A, p) = SumFunctionOnSet(g, A) /\ Moved(B, p) = SumFunctionOnSet(h, B)
  BY DEF Moved, SumFunction
<1>2. /\ \A x \in A \cup B : f[x] \in Int
      /\ \A x \in A : f[x] = g[x]
      /\ \A x \in B : f[x] = h[x]
  <2>1. \A x \in A \cup B : x.quantity \in Int
    BY DEF Movement
  <2> QED BY <2>1
<1> HIDE DEF f, g, h
<1>3. SumFunctionOnSet(f, A \cup B) = SumFunctionOnSet(g, A) + SumFunctionOnSet(h, B)
  BY <1>2, SumJoined
<1>4. SumFunctionOnSet(g, A) \in Int /\ SumFunctionOnSet(h, B) \in Int
  BY <1>2, SumType
<1> QED BY <1>1, <1>3, <1>4

\* Owed, of rows and other rows.
LEMMA OwedJoined ==
  ASSUME NEW A \in SUBSET LedgerRow, NEW B \in SUBSET LedgerRow, NEW c,
         IsFiniteSet(A), IsFiniteSet(B), A \cap B = {}
  PROVE  /\ Owed(A \cup B, c) = Owed(A, c) + Owed(B, c)
         /\ Owed(A, c) \in Int /\ Owed(B, c) \in Int
<1> DEFINE f == [row \in A \cup B |-> IF row.customer = c THEN row.amount ELSE 0]
           g == [row \in A |-> IF row.customer = c THEN row.amount ELSE 0]
           h == [row \in B |-> IF row.customer = c THEN row.amount ELSE 0]
<1>1. /\ Owed(A \cup B, c) = SumFunctionOnSet(f, A \cup B)
      /\ Owed(A, c) = SumFunctionOnSet(g, A) /\ Owed(B, c) = SumFunctionOnSet(h, B)
  BY DEF Owed, SumFunction
<1>2. /\ \A x \in A \cup B : f[x] \in Int
      /\ \A x \in A : f[x] = g[x]
      /\ \A x \in B : f[x] = h[x]
  BY DEF LedgerRow
<1> HIDE DEF f, g, h
<1>3. SumFunctionOnSet(f, A \cup B) = SumFunctionOnSet(g, A) + SumFunctionOnSet(h, B)
  BY <1>2, SumJoined
<1>4. SumFunctionOnSet(g, A) \in Int /\ SumFunctionOnSet(h, B) \in Int
  BY <1>2, SumType
<1> QED BY <1>1, <1>3, <1>4

\* Posting is a number.
LEMMA PostingType ==
  ASSUME NEW e \in Seq(JournalEntry), NEW a
  PROVE  Posting(e, a) \in Int
<1>1. Posting(e, a) = SumFunction(Posts(e, a)) /\ Posts(e, a) \in Seq(Int)
  BY EntryTypes DEF Posting, Posts
<1>2. /\ IsFiniteSet(DOMAIN Posts(e, a))
      /\ Posts(e, a) \in [DOMAIN Posts(e, a) -> Int]
  BY <1>1, SeqDomain
<1> QED BY <1>1, <1>2, SumFunctionType

\* Balance, of journals and other journals.
LEMMA BalanceJoined ==
  ASSUME NEW A \in SUBSET Journal, NEW B \in SUBSET Journal, NEW a,
         IsFiniteSet(A), IsFiniteSet(B), A \cap B = {}
  PROVE  /\ Balance(A \cup B, a) = Balance(A, a) + Balance(B, a)
         /\ Balance(A, a) \in Int /\ Balance(B, a) \in Int
<1> DEFINE f == [j \in A \cup B |-> Posting(j.entries, a)]
           g == [j \in A |-> Posting(j.entries, a)]
           h == [j \in B |-> Posting(j.entries, a)]
<1>1. /\ Balance(A \cup B, a) = SumFunctionOnSet(f, A \cup B)
      /\ Balance(A, a) = SumFunctionOnSet(g, A) /\ Balance(B, a) = SumFunctionOnSet(h, B)
  BY DEF Balance, SumFunction
<1>2. /\ \A x \in A \cup B : f[x] \in Int
      /\ \A x \in A : f[x] = g[x]
      /\ \A x \in B : f[x] = h[x]
  <2>1. \A j \in A \cup B : j.entries \in Seq(JournalEntry)
    BY DEF Journal
  <2>2. \A j \in A \cup B : Posting(j.entries, a) \in Int
    BY <2>1, PostingType
  <2> QED BY <2>2
<1> HIDE DEF f, g, h
<1>3. SumFunctionOnSet(f, A \cup B) = SumFunctionOnSet(g, A) + SumFunctionOnSet(h, B)
  BY <1>2, SumJoined
<1>4. SumFunctionOnSet(g, A) \in Int /\ SumFunctionOnSet(h, B) \in Int
  BY <1>2, SumType
<1> QED BY <1>1, <1>3, <1>4

\* Rows of one customer are owed by that customer alone.
LEMMA OwedByOne ==
  ASSUME NEW A \in SUBSET LedgerRow, IsFiniteSet(A), NEW c,
         \A row \in A : row.customer = c, NEW d
  PROVE  Owed(A, d) = IF d = c THEN Amounts(A) ELSE 0
<1>1. CASE d = c
  <2>1. [row \in A |-> IF row.customer = d THEN row.amount ELSE 0] = [row \in A |-> row.amount]
    BY <1>1
  <2> QED BY <1>1, <2>1 DEF Owed, Amounts
<1>2. CASE d # c
  <2> DEFINE f == [row \in A |-> IF row.customer = d THEN row.amount ELSE 0]
  <2>1. DOMAIN f = A /\ \A row \in A : f[row] = 0
    BY <1>2
  <2>2. Owed(A, d) = SumFunctionOnSet(f, A)
    BY DEF Owed, SumFunction
  <2> HIDE DEF f
  <2>3. SumFunctionOnSet(f, A) = 0
    BY <2>1, SumZero
  <2> QED BY <1>2, <2>2, <2>3
<1> QED BY <1>1, <1>2

\* The movements of the first i lines of request n.
Drawn(n, L, i) ==
  {[source |-> n, line |-> j, product |-> L[j].product, quantity |-> -L[j].quantity] : j \in 1..i}

\* What the first i lines draw from the stock of a product.
LEMMA DrawnSum ==
  ASSUME NEW n \in Request, NEW L \in Seq(LineType), NEW i \in 0..Len(L), NEW p
  PROVE  /\ Drawn(n, L, i) \in SUBSET Movement /\ IsFiniteSet(Drawn(n, L, i))
         /\ \A row \in Drawn(n, L, i) : row.source = n
         /\ Moved(Drawn(n, L, i), p) = -First(Units(L, p), i)
<1> DEFINE N == 1..i
           D == Drawn(n, L, i)
           row(j) == [source |-> n, line |-> j, product |-> L[j].product,
                      quantity |-> -L[j].quantity]
           h == [j \in N |-> row(j)]
           f == [r \in D |-> IF r.product = p THEN r.quantity ELSE 0]
           g == Units(L, p)
<1>1. /\ IsFiniteSet(N) /\ Len(L) \in Nat
      /\ \A j \in N : j \in Nat /\ L[j].product \in Product /\ L[j].quantity \in Nat /\ j \in DOMAIN L
  <2>1. Len(L) \in Nat /\ DOMAIN L = 1..Len(L) /\ \A j \in 1..Len(L) : L[j] \in LineType
    BY LinesTyped
  <2>2. \A j \in N : j \in 1..Len(L) /\ j \in Nat
    <3>1. i \in Nat /\ i <= Len(L)
      BY <2>1
    <3> QED BY <2>1, <3>1
  <2>3. \A j \in N : L[j].product \in Product /\ L[j].quantity \in Nat
    BY <2>1, <2>2, LineAmounts
  <2>4. IsFiniteSet(N)
    <3>1. i \in Int
      BY <2>1
    <3> QED BY <3>1, FS_Interval
  <2> HIDE DEF N
  <2> QED BY <2>1, <2>2, <2>3, <2>4
<1>2. D = {row(j) : j \in N} /\ \A j \in N : row(j) \in Movement /\ row(j).source = n
  BY <1>1 DEF Drawn, Movement
<1> HIDE DEF N, D
<1>3. h \in Bijection(N, D)
  <2>1. h \in [N -> D]
    BY <1>2
  <2>2. \A j, k \in N : h[j] = h[k] => j = k
    OBVIOUS
  <2>3. \A r \in D : \E j \in N : h[j] = r
    BY <1>2
  <2> HIDE DEF h
  <2> QED BY <2>1, <2>2, <2>3 DEF Bijection, Injection, Surjection, IsInjective
<1>4. D \in SUBSET Movement /\ IsFiniteSet(D) /\ \A r \in D : r.source = n
  <2>1. IsFiniteSet(D)
    <3>1. h \in Surjection(N, D)
      BY <1>3 DEF Bijection
    <3> HIDE DEF h
    <3> QED BY <1>1, <3>1, FS_Surjection
  <2> QED BY <1>2, <2>1
<1>5. \A j \in N : g[j] \in Int /\ f[h[j]] = -g[j]
  <2>2. ASSUME NEW j \in N PROVE g[j] \in Int /\ f[h[j]] = -g[j]
    <3>1. h[j] \in D /\ h[j].product = L[j].product /\ h[j].quantity = -L[j].quantity
      BY <1>2
    <3>2. g[j] = IF L[j].product = p THEN L[j].quantity ELSE 0
      BY <1>1 DEF Units
    <3>3. f[h[j]] = IF L[j].product = p THEN -L[j].quantity ELSE 0
      BY <3>1
    <3> HIDE DEF f, g, h
    <3> QED BY <1>1, <3>2, <3>3, ZeroNegated
  <2> QED BY <2>2
<1>6. Moved(D, p) = SumFunctionOnSet(f, D)
  BY DEF Moved, SumFunction
<1> HIDE DEF f, g, h
<1>7. SumFunctionOnSet(f, D) = -SumFunctionOnSet(g, N)
  BY <1>1, <1>3, <1>5, SumOpposite
<1> QED BY <1>4, <1>6, <1>7 DEF D, N, g, First

\* The rows of a reversal: those of its original, with the sign turned.
TurnedMoves(n, rows) == {[row EXCEPT !.source = n, !.quantity = -@] : row \in rows}
TurnedDebts(n, rows) == {[row EXCEPT !.source = n, !.amount = -@] : row \in rows}
TurnedPayments(n, rows) == {[row EXCEPT !.sale = n, !.amount = -@] : row \in rows}

\* Only equal numbers have equal opposites.
LEMMA IntNegated == \A i, j \in Int : -i = -j => i = j
OBVIOUS

\* Stock rows with the sign turned move the opposite quantity.
LEMMA TurnedMovesSum ==
  ASSUME NEW n \in Request, NEW s \in Request, NEW A \in SUBSET Movement, IsFiniteSet(A),
         \A row \in A : row.source = s, NEW p
  PROVE  LET T == TurnedMoves(n, A) IN
         /\ T \in SUBSET Movement /\ IsFiniteSet(T) /\ \A row \in T : row.source = n
         /\ Moved(T, p) = -Moved(A, p)
<1> DEFINE T == TurnedMoves(n, A)
           turn(row) == [row EXCEPT !.source = n, !.quantity = -@]
           h == [row \in A |-> turn(row)]
           f == [row \in T |-> IF row.product = p THEN row.quantity ELSE 0]
           g == [row \in A |-> IF row.product = p THEN row.quantity ELSE 0]
<1>1. ASSUME NEW row \in A
      PROVE  /\ row.quantity \in Int
             /\ row = [source |-> s, line |-> row.line, product |-> row.product, quantity |-> row.quantity]
             /\ turn(row) \in Movement /\ turn(row).source = n
             /\ turn(row).quantity = -row.quantity /\ turn(row).line = row.line
             /\ turn(row).product = row.product
  <2> DEFINE r == turn(row)
  <2>1. row \in Movement /\ row.source = s
    OBVIOUS
  <2>2. /\ row.line \in Nat /\ row.product \in Product /\ row.quantity \in Int
        /\ -row.quantity \in Int
        /\ row = [source |-> s, line |-> row.line, product |-> row.product, quantity |-> row.quantity]
    BY <2>1 DEF Movement
  <2>3. r.source = n /\ r.quantity = -row.quantity /\ r.line = row.line /\ r.product = row.product
    BY <2>1 DEF Movement
  <2>4. r = [x \in {"source", "line", "product", "quantity"} |-> r[x]]
    BY <2>1 DEF Movement
  <2> HIDE DEF r
  <2>5. r \in Movement
    BY <2>2, <2>3, <2>4 DEF Movement
  <2> QED BY <2>2, <2>3, <2>5 DEF r
<1>2. T = {turn(row) : row \in A}
  BY DEF TurnedMoves
<1> HIDE DEF T, turn
<1>3. h \in Bijection(A, T)
  <2>1. h \in [A -> T]
    BY <1>2
  <2>2. ASSUME NEW x \in A, NEW y \in A, h[x] = h[y] PROVE x = y
    <3>1. turn(x) = turn(y)
      BY <2>2
    <3>2. x.line = y.line /\ x.product = y.product /\ x.quantity = y.quantity
      BY <1>1, <3>1, IntNegated
    <3> QED BY <1>1, <3>2
  <2>3. \A r \in T : \E x \in A : h[x] = r
    BY <1>2
  <2> HIDE DEF h
  <2> QED BY <2>1, <2>2, <2>3 DEF Bijection, Injection, Surjection, IsInjective
<1>4. T \in SUBSET Movement /\ IsFiniteSet(T) /\ \A row \in T : row.source = n
  <2>1. h \in Surjection(A, T)
    BY <1>3 DEF Bijection
  <2>2. IsFiniteSet(T)
    <3> HIDE DEF h
    <3> QED BY <2>1, FS_Surjection
  <2> QED BY <1>1, <1>2, <2>2
<1>5. \A x \in A : g[x] \in Int /\ f[h[x]] = -g[x]
  <2>1. ASSUME NEW x \in A PROVE g[x] \in Int /\ f[h[x]] = -g[x]
    <3>1. /\ h[x] \in T /\ h[x].quantity = -x.quantity /\ h[x].line = x.line
          /\ h[x].product = x.product
      BY <1>1, <1>2
    <3>2. f[h[x]] = IF x.product = p THEN -x.quantity ELSE 0
      BY <3>1
    <3>3. g[x] = IF x.product = p THEN x.quantity ELSE 0
      OBVIOUS
    <3> HIDE DEF f, g, h
    <3> QED BY <1>1, <3>2, <3>3, ZeroNegated
  <2> QED BY <2>1
<1>6. Moved(T, p) = SumFunctionOnSet(f, T) /\ Moved(A, p) = SumFunctionOnSet(g, A)
  BY DEF Moved, SumFunction
<1> HIDE DEF f, g, h
<1>7. SumFunctionOnSet(f, T) = -SumFunctionOnSet(g, A)
  BY <1>3, <1>5, SumOpposite
<1> QED BY <1>4, <1>6, <1>7 DEF T

\* Ledger rows with the sign turned amount to the opposite.
LEMMA TurnedDebtsSum ==
  ASSUME NEW n \in Request, NEW s \in Request, NEW A \in SUBSET LedgerRow, IsFiniteSet(A),
         \A row \in A : row.source = s
  PROVE  LET T == TurnedDebts(n, A) IN
         /\ T \in SUBSET LedgerRow /\ IsFiniteSet(T) /\ \A row \in T : row.source = n
         /\ Amounts(T) = -Amounts(A)
<1> DEFINE T == TurnedDebts(n, A)
           turn(row) == [row EXCEPT !.source = n, !.amount = -@]
           h == [row \in A |-> turn(row)]
           f == [row \in T |-> row.amount]
           g == [row \in A |-> row.amount]
<1>1. ASSUME NEW row \in A
      PROVE  /\ row.amount \in Int
             /\ row = [source |-> s, customer |-> row.customer, amount |-> row.amount]
             /\ turn(row) \in LedgerRow /\ turn(row).source = n
             /\ turn(row).amount = -row.amount /\ turn(row).customer = row.customer
  <2> DEFINE r == turn(row)
  <2>1. row \in LedgerRow /\ row.source = s
    OBVIOUS
  <2>2. /\ row.customer \in Customer /\ row.amount \in Int /\ -row.amount \in Int
        /\ row = [source |-> s, customer |-> row.customer, amount |-> row.amount]
    BY <2>1 DEF LedgerRow
  <2>3. r.source = n /\ r.amount = -row.amount /\ r.customer = row.customer
    BY <2>1 DEF LedgerRow
  <2>4. r = [x \in {"source", "customer", "amount"} |-> r[x]]
    BY <2>1 DEF LedgerRow
  <2> HIDE DEF r
  <2>5. r \in LedgerRow
    BY <2>2, <2>3, <2>4 DEF LedgerRow
  <2> QED BY <2>2, <2>3, <2>5 DEF r
<1>2. T = {turn(row) : row \in A}
  BY DEF TurnedDebts
<1> HIDE DEF T, turn
<1>3. h \in Bijection(A, T)
  <2>1. h \in [A -> T]
    BY <1>2
  <2>2. ASSUME NEW x \in A, NEW y \in A, h[x] = h[y] PROVE x = y
    <3>1. turn(x) = turn(y)
      BY <2>2
    <3>2. x.customer = y.customer /\ x.amount = y.amount
      BY <1>1, <3>1, IntNegated
    <3> QED BY <1>1, <3>2
  <2>3. \A r \in T : \E x \in A : h[x] = r
    BY <1>2
  <2> HIDE DEF h
  <2> QED BY <2>1, <2>2, <2>3 DEF Bijection, Injection, Surjection, IsInjective
<1>4. T \in SUBSET LedgerRow /\ IsFiniteSet(T) /\ \A row \in T : row.source = n
  <2>1. h \in Surjection(A, T)
    BY <1>3 DEF Bijection
  <2>2. IsFiniteSet(T)
    <3> HIDE DEF h
    <3> QED BY <2>1, FS_Surjection
  <2> QED BY <1>1, <1>2, <2>2
<1>5. \A x \in A : g[x] \in Int /\ f[h[x]] = -g[x]
  <2>1. ASSUME NEW x \in A PROVE g[x] \in Int /\ f[h[x]] = -g[x]
    <3>1. /\ h[x] \in T /\ h[x].amount = -x.amount /\ h[x].customer = x.customer
      BY <1>1, <1>2
    <3>2. f[h[x]] = -x.amount
      BY <3>1
    <3>3. g[x] = x.amount
      OBVIOUS
    <3> HIDE DEF f, g, h
    <3> QED BY <1>1, <3>2, <3>3, ZeroNegated
  <2> QED BY <2>1
<1>6. Amounts(T) = SumFunctionOnSet(f, T) /\ Amounts(A) = SumFunctionOnSet(g, A)
  BY DEF Amounts, SumFunction
<1> HIDE DEF f, g, h
<1>7. SumFunctionOnSet(f, T) = -SumFunctionOnSet(g, A)
  BY <1>3, <1>5, SumOpposite
<1> QED BY <1>4, <1>6, <1>7 DEF T

\* Payments with the sign turned amount to the opposite.
LEMMA TurnedPaymentsSum ==
  ASSUME NEW n \in Request, NEW s \in Request, NEW A \in SUBSET PaymentRow, IsFiniteSet(A),
         \A row \in A : row.sale = s
  PROVE  LET T == TurnedPayments(n, A) IN
         /\ T \in SUBSET PaymentRow /\ IsFiniteSet(T) /\ \A row \in T : row.sale = n
         /\ Amounts(T) = -Amounts(A)
<1> DEFINE T == TurnedPayments(n, A)
           turn(row) == [row EXCEPT !.sale = n, !.amount = -@]
           h == [row \in A |-> turn(row)]
           f == [row \in T |-> row.amount]
           g == [row \in A |-> row.amount]
<1>1. ASSUME NEW row \in A
      PROVE  /\ row.amount \in Int
             /\ row = [sale |-> s, amount |-> row.amount]
             /\ turn(row) \in PaymentRow /\ turn(row).sale = n
             /\ turn(row).amount = -row.amount
  <2> DEFINE r == turn(row)
  <2>1. row \in PaymentRow /\ row.sale = s
    OBVIOUS
  <2>2. /\ row.amount \in Int /\ -row.amount \in Int
        /\ row = [sale |-> s, amount |-> row.amount]
    BY <2>1 DEF PaymentRow
  <2>3. r.sale = n /\ r.amount = -row.amount
    BY <2>1 DEF PaymentRow
  <2>4. r = [x \in {"sale", "amount"} |-> r[x]]
    BY <2>1 DEF PaymentRow
  <2> HIDE DEF r
  <2>5. r \in PaymentRow
    BY <2>2, <2>3, <2>4 DEF PaymentRow
  <2> QED BY <2>2, <2>3, <2>5 DEF r
<1>2. T = {turn(row) : row \in A}
  BY DEF TurnedPayments
<1> HIDE DEF T, turn
<1>3. h \in Bijection(A, T)
  <2>1. h \in [A -> T]
    BY <1>2
  <2>2. ASSUME NEW x \in A, NEW y \in A, h[x] = h[y] PROVE x = y
    <3>1. turn(x) = turn(y)
      BY <2>2
    <3>2. x.amount = y.amount
      BY <1>1, <3>1, IntNegated
    <3> QED BY <1>1, <3>2
  <2>3. \A r \in T : \E x \in A : h[x] = r
    BY <1>2
  <2> HIDE DEF h
  <2> QED BY <2>1, <2>2, <2>3 DEF Bijection, Injection, Surjection, IsInjective
<1>4. T \in SUBSET PaymentRow /\ IsFiniteSet(T) /\ \A row \in T : row.sale = n
  <2>1. h \in Surjection(A, T)
    BY <1>3 DEF Bijection
  <2>2. IsFiniteSet(T)
    <3> HIDE DEF h
    <3> QED BY <2>1, FS_Surjection
  <2> QED BY <1>1, <1>2, <2>2
<1>5. \A x \in A : g[x] \in Int /\ f[h[x]] = -g[x]
  <2>1. ASSUME NEW x \in A PROVE g[x] \in Int /\ f[h[x]] = -g[x]
    <3>1. /\ h[x] \in T /\ h[x].amount = -x.amount
      BY <1>1, <1>2
    <3>2. f[h[x]] = -x.amount
      BY <3>1
    <3>3. g[x] = x.amount
      OBVIOUS
    <3> HIDE DEF f, g, h
    <3> QED BY <1>1, <3>2, <3>3, ZeroNegated
  <2> QED BY <2>1
<1>6. Amounts(T) = SumFunctionOnSet(f, T) /\ Amounts(A) = SumFunctionOnSet(g, A)
  BY DEF Amounts, SumFunction
<1> HIDE DEF f, g, h
<1>7. SumFunctionOnSet(f, T) = -SumFunctionOnSet(g, A)
  BY <1>3, <1>5, SumOpposite
<1> QED BY <1>4, <1>6, <1>7 DEF T

-----------------------------------------------------------------------------
(* The books after the rows of one request are appended *)

Without(t, n) ==
  /\ \A row \in t.movements \cup t.ledger \cup t.journals : row.source # n
  /\ \A row \in t.payments : row.sale # n

Gained(O, P, D, J) ==
  [moved |-> [p \in Product |-> Moved(D, p)], owed |-> Amounts(O), paid |-> Amounts(P),
   journal |-> [a \in Accounts |-> Balance(J, a)]]

Gains(t, u, n, O, P, D, J) ==
  /\ u.movements = t.movements \cup D /\ u.ledger = t.ledger \cup O
  /\ u.payments = t.payments \cup P /\ u.journals = t.journals \cup J
  /\ \A row \in D \cup O \cup J : row.source = n
  /\ \A row \in P : row.sale = n

Typed(D, O, P, J) ==
  /\ D \in SUBSET Movement /\ O \in SUBSET LedgerRow /\ P \in SUBSET PaymentRow
  /\ J \in SUBSET Journal
  /\ IsFiniteSet(D) /\ IsFiniteSet(O) /\ IsFiniteSet(P) /\ IsFiniteSet(J)

\* Rows appended under a source that had none: the books gain their sums there,
\* and what they summed up before stays.
LEMMA BooksGain ==
  ASSUME NEW t, NEW u, NEW n \in Request, NEW c \in Customer,
         NEW D, NEW O, NEW P, NEW J,
         Typed(D, O, P, J), Typed(t.movements, t.ledger, t.payments, t.journals),
         Without(t, n), Gains(t, u, n, O, P, D, J), \A row \in O : row.customer = c
  PROVE  LET r == Gained(O, P, D, J) IN
         /\ Books(u).rows = [Books(t).rows EXCEPT ![n] = r]
         /\ Books(u).stock = [p \in Product |-> Books(t).stock[p] + r.moved[p]]
         /\ Books(u).exposure = [Books(t).exposure EXCEPT ![c] = @ + r.owed]
         /\ Books(u).gl = [a \in Accounts |-> Books(t).gl[a] + r.journal[a]]
<1> DEFINE r == Gained(O, P, D, J)
           rowsOf(v, s) ==
             [moved |-> [p \in Product |-> Moved({row \in v.movements : row.source = s}, p)],
              owed |-> Amounts({row \in v.ledger : row.source = s}),
              paid |-> Amounts({row \in v.payments : row.sale = s}),
              journal |-> [a \in Accounts |-> Balance({j \in v.journals : j.source = s}, a)]]
<1>1. \A v : Books(v).rows = [s \in Request |-> rowsOf(v, s)]
  BY DEF Books, SaleId
<1>2. /\ u.movements = t.movements \cup D /\ u.ledger = t.ledger \cup O
      /\ u.payments = t.payments \cup P /\ u.journals = t.journals \cup J
      /\ t.movements \cap D = {} /\ t.ledger \cap O = {}
      /\ t.payments \cap P = {} /\ t.journals \cap J = {}
  BY DEF Gains, Without
<1>3. ASSUME NEW s \in Request, s # n PROVE rowsOf(u, s) = rowsOf(t, s)
  <2>1. /\ {row \in u.movements : row.source = s} = {row \in t.movements : row.source = s}
        /\ {row \in u.ledger : row.source = s} = {row \in t.ledger : row.source = s}
        /\ {row \in u.payments : row.sale = s} = {row \in t.payments : row.sale = s}
        /\ {row \in u.journals : row.source = s} = {row \in t.journals : row.source = s}
    BY <1>2, <1>3 DEF Gains
  <2> QED BY <2>1
<1>4. rowsOf(u, n) = r
  <2>1. /\ {row \in u.movements : row.source = n} = D
        /\ {row \in u.ledger : row.source = n} = O
        /\ {row \in u.payments : row.sale = n} = P
        /\ {row \in u.journals : row.source = n} = J
    BY <1>2 DEF Gains, Without
  <2> QED BY <2>1 DEF Gained
<1> HIDE DEF rowsOf, r
<1>5. Books(u).rows = [Books(t).rows EXCEPT ![n] = r]
  <2> DEFINE R == Books(t).rows
  <2>1. R = [s \in Request |-> rowsOf(t, s)] /\ Books(u).rows = [s \in Request |-> rowsOf(u, s)]
    BY <1>1
  <2> HIDE DEF R
  <2>2. Books(u).rows = [R EXCEPT ![n] = r]
    BY <1>3, <1>4, <2>1
  <2> QED BY <2>2 DEF R
<1>6. Books(u).stock = [p \in Product |-> Books(t).stock[p] + r.moved[p]]
  <2>1. ASSUME NEW p \in Product PROVE Moved(u.movements, p) = Moved(t.movements, p) + Moved(D, p)
    <3> DEFINE A == t.movements
    <3>1. /\ A \in SUBSET Movement /\ D \in SUBSET Movement
          /\ IsFiniteSet(A) /\ IsFiniteSet(D) /\ A \cap D = {}
      BY <1>2 DEF Typed
    <3> HIDE DEF A
    <3>2. Moved(A \cup D, p) = Moved(A, p) + Moved(D, p)
      BY <3>1, MovedJoined
    <3> QED BY <1>2, <3>2 DEF A
  <2>2. /\ Books(u).stock = [p \in Product |-> Moved(u.movements, p)]
        /\ Books(t).stock = [p \in Product |-> Moved(t.movements, p)]
    BY DEF Books
  <2>3. r.moved = [p \in Product |-> Moved(D, p)]
    BY DEF Gained, r
  <2>4. \A p \in Product : Books(t).stock[p] + r.moved[p] = Moved(u.movements, p)
    BY <2>1, <2>2, <2>3
  <2> QED BY <2>2, <2>4
<1>7. Books(u).gl = [a \in Accounts |-> Books(t).gl[a] + r.journal[a]]
  <2>1. ASSUME NEW a \in Accounts
        PROVE Balance(u.journals, a) = Balance(t.journals, a) + Balance(J, a)
    <3> DEFINE A == t.journals
    <3>1. /\ A \in SUBSET Journal /\ J \in SUBSET Journal
          /\ IsFiniteSet(A) /\ IsFiniteSet(J) /\ A \cap J = {}
      BY <1>2 DEF Typed
    <3> HIDE DEF A
    <3>2. Balance(A \cup J, a) = Balance(A, a) + Balance(J, a)
      BY <3>1, BalanceJoined
    <3> QED BY <1>2, <3>2 DEF A
  <2>2. /\ Books(u).gl = [a \in Accounts |-> Balance(u.journals, a)]
        /\ Books(t).gl = [a \in Accounts |-> Balance(t.journals, a)]
    BY DEF Books
  <2>3. r.journal = [a \in Accounts |-> Balance(J, a)]
    BY DEF Gained, r
  <2>4. \A a \in Accounts : Books(t).gl[a] + r.journal[a] = Balance(u.journals, a)
    BY <2>1, <2>2, <2>3
  <2> QED BY <2>2, <2>4
<1>8. Books(u).exposure = [Books(t).exposure EXCEPT ![c] = @ + r.owed]
  <2>1. ASSUME NEW d \in Customer
        PROVE  Owed(u.ledger, d) = IF d = c THEN Owed(t.ledger, d) + Amounts(O)
                                   ELSE Owed(t.ledger, d)
    <3>1. /\ t.ledger \in SUBSET LedgerRow /\ O \in SUBSET LedgerRow
          /\ IsFiniteSet(t.ledger) /\ IsFiniteSet(O) /\ t.ledger \cap O = {}
      BY <1>2 DEF Typed
    <3>2. Owed(t.ledger \cup O, d) = Owed(t.ledger, d) + Owed(O, d) /\ Owed(t.ledger, d) \in Int
      BY <3>1, OwedJoined
    <3>3. Owed(O, d) = IF d = c THEN Amounts(O) ELSE 0
      BY <3>1, OwedByOne
    <3> QED BY <1>2, <3>2, <3>3
  <2> DEFINE E == Books(t).exposure
  <2>2. /\ Books(u).exposure = [d \in Customer |-> Owed(u.ledger, d)]
        /\ E = [d \in Customer |-> Owed(t.ledger, d)]
    BY DEF Books
  <2>3. r.owed = Amounts(O)
    BY DEF Gained, r
  <2> HIDE DEF E
  <2>4. Books(u).exposure = [E EXCEPT ![c] = @ + r.owed]
    BY <2>1, <2>2, <2>3
  <2> QED BY <2>4 DEF E
<1> QED BY <1>5, <1>6, <1>7, <1>8 DEF r

\* The balance of one journal.
LEMMA BalanceOfOne ==
  ASSUME NEW j \in Journal, NEW a
  PROVE  Balance({j}, a) = Posting(j.entries, a)
<1> DEFINE f == [k \in {j} |-> Posting(k.entries, a)]
<1>1. Posting(j.entries, a) \in Int
  BY PostingType DEF Journal
<1>2. f \in [{j} -> Int] /\ f[j] = Posting(j.entries, a) /\ Balance({j}, a) = SumFunction(f)
  BY <1>1 DEF Balance
<1> HIDE DEF f
<1> QED BY <1>2, SumSingle

\* The amount of one row, and of none.
LEMMA AmountsOfOne ==
  ASSUME NEW row, row.amount \in Int
  PROVE  Amounts({row}) = row.amount /\ Amounts({}) = 0
<1> DEFINE f == [x \in {row} |-> x.amount]
<1>1. f \in [{row} -> Int] /\ f[row] = row.amount /\ Amounts({row}) = SumFunction(f)
  BY DEF Amounts
<1>2. Amounts({}) = 0
  BY SumFunctionNone DEF Amounts
<1> HIDE DEF f
<1> QED BY <1>1, <1>2, SumSingle

Debt(n, o, total) ==
  IF o.credit THEN {[source |-> n, customer |-> o.customer, amount |-> total]} ELSE {}
Payments(n, o, total) == IF o.credit THEN {} ELSE {[sale |-> n, amount |-> total]}

\* A credit sale is owed, a cash sale paid, and never both (Charge).
LEMMA DebtAndPayment ==
  ASSUME NEW n \in Request, NEW o, o.customer \in Customer, NEW total \in Int
  PROVE  LET O == Debt(n, o, total)  P == Payments(n, o, total) IN
         /\ O \in SUBSET LedgerRow /\ IsFiniteSet(O) /\ P \in SUBSET PaymentRow /\ IsFiniteSet(P)
         /\ \A row \in O : row.source = n /\ row.customer = o.customer
         /\ \A row \in P : row.sale = n
         /\ Amounts(O) = IF o.credit THEN total ELSE 0
         /\ Amounts(P) = IF o.credit THEN 0 ELSE total
<1> DEFINE owed == [source |-> n, customer |-> o.customer, amount |-> total]
           paid == [sale |-> n, amount |-> total]
<1>1. /\ owed \in LedgerRow /\ paid \in PaymentRow /\ owed.amount = total /\ paid.amount = total
      /\ owed.source = n /\ owed.customer = o.customer /\ paid.sale = n
  BY DEF LedgerRow, PaymentRow
<1>2. Debt(n, o, total) = (IF o.credit THEN {owed} ELSE {})
  BY DEF Debt
<1>3. Payments(n, o, total) = (IF o.credit THEN {} ELSE {paid})
  BY DEF Payments
<1> HIDE DEF owed, paid
<1>4. Amounts({owed}) = total /\ Amounts({paid}) = total /\ Amounts({}) = 0
  BY <1>1, AmountsOfOne
<1>5. IsFiniteSet({owed}) /\ IsFiniteSet({paid}) /\ IsFiniteSet({})
  BY FS_Singleton, FS_EmptySet
<1> QED BY <1>1, <1>2, <1>3, <1>4, <1>5

\* What a completion appends is what the serial service appends.
PostsTo(e, j) == \A a \in Accounts : Posting(e, a) = j[a]
SaleGains(n, o, e, total) ==
  LET D == Drawn(n, o.lines, Len(o.lines))
      O == Debt(n, o, total)
      P == Payments(n, o, total)
      J == {[source |-> n, entries |-> e]} IN
  /\ Typed(D, O, P, J)
  /\ \A row \in D \cup O \cup J : row.source = n
  /\ \A row \in P : row.sale = n
  /\ \A row \in O : row.customer = o.customer
  /\ Gained(O, P, D, J) = Ledger!SaleRows(Exact(o), Exact(o).demand)

\* The rows of a sale are the ones SalesLedger appends for it.
LEMMA SaleGain ==
  ASSUME NEW n \in Request, NEW o \in Order, Wanted(o), NEW e \in Seq(JournalEntry),
         PostsTo(e, Ledger!SaleJournal(Exact(o))),
         NEW total, total = Exact(o).net + Exact(o).tax
  PROVE  SaleGains(n, o, e, total)
<1> DEFINE L == o.lines
           c == Exact(o)
           j == [source |-> n, entries |-> e]
           D == Drawn(n, L, Len(L))
           O == Debt(n, o, total)
           P == Payments(n, o, total)
           J == {j}
<1>1. L \in Seq(LineType) /\ L # << >> /\ o.customer \in Customer /\ Len(L) \in 0..Len(L)
  <2>1. L \in Seq(LineType) /\ L # << >> /\ o.customer \in Customer
    BY OrderTyped
  <2>2. Len(L) \in Nat
    BY <2>1, LinesTyped
  <2> QED BY <2>1, <2>2
<1>2. /\ c.net \in Nat /\ c.tax \in Nat /\ total \in Int /\ c.credit = o.credit
      /\ c.demand = [p \in Product |-> SumFunction(Units(L, p))]
  <2>1. c.net \in Nat /\ c.tax \in Nat
    BY <1>1, ExactTyped
  <2>2. Demand(L) = [p \in Product |-> SumFunction(Units(L, p))]
    BY DEF Demand, Units
  <2> QED BY <2>1, <2>2, ExactSums
<1>3. D \in SUBSET Movement /\ IsFiniteSet(D) /\ \A row \in D : row.source = n
  BY <1>1, DrawnSum
<1>4. ASSUME NEW p \in Product PROVE Moved(D, p) = -c.demand[p]
  <2>1. Moved(D, p) = -First(Units(L, p), Len(L))
    BY <1>1, DrawnSum
  <2>2. Units(L, p) \in Seq(Nat) /\ Len(Units(L, p)) = Len(L)
    BY <1>1, LinesTyped
  <2>3. SumFunction(Units(L, p)) = First(Units(L, p), Len(L))
    BY <2>2, FirstAll
  <2> QED BY <1>2, <2>1, <2>3
<1>5. j \in Journal /\ j.source = n /\ IsFiniteSet(J) /\ \A a : Balance(J, a) = Posting(e, a)
  <2>1. j \in Journal /\ j.source = n /\ j.entries = e
    BY DEF Journal
  <2> HIDE DEF j
  <2>2. \A a : Balance(J, a) = Posting(e, a)
    BY <2>1, BalanceOfOne
  <2> QED BY <2>1, <2>2, FS_Singleton
<1>6. /\ O \in SUBSET LedgerRow /\ IsFiniteSet(O) /\ P \in SUBSET PaymentRow /\ IsFiniteSet(P)
      /\ \A row \in O : row.source = n /\ row.customer = o.customer
      /\ \A row \in P : row.sale = n
      /\ Amounts(O) = IF o.credit THEN total ELSE 0
      /\ Amounts(P) = IF o.credit THEN 0 ELSE total
  BY <1>1, <1>2, DebtAndPayment
<1> HIDE DEF D, O, P, j, c, L
<1>7. Gained(O, P, D, J) = Ledger!SaleRows(c, c.demand)
  <2>1. [p \in Product |-> Moved(D, p)] = [p \in Product |-> -c.demand[p]]
    BY <1>4
  <2>2. [a \in Accounts |-> Balance(J, a)] = Ledger!SaleJournal(c)
    <3>1. \A a \in Accounts : Balance(J, a) = Ledger!SaleJournal(c)[a]
      BY <1>5 DEF c, PostsTo
    <3>2. Ledger!SaleJournal(c) = [a \in Accounts |-> Ledger!SaleJournal(c)[a]]
      BY DEF Ledger!SaleJournal, Ledger!Account, Accounts
    <3> QED BY <3>1, <3>2
  <2>3. /\ Amounts(O) = IF c.credit THEN Ledger!Total(c) ELSE 0
        /\ Amounts(P) = IF c.credit THEN 0 ELSE Ledger!Total(c)
    BY <1>2, <1>6 DEF Ledger!Total, c
  <2> QED BY <2>1, <2>2, <2>3 DEF Gained, Ledger!SaleRows
<1>8. Typed(D, O, P, J)
  BY <1>3, <1>5, <1>6 DEF Typed
<1>9. /\ \A row \in D \cup O \cup J : row.source = n
      /\ \A row \in P : row.sale = n
      /\ \A row \in O : row.customer = o.customer
  BY <1>3, <1>5, <1>6
<1> QED BY <1>7, <1>8, <1>9 DEF D, O, P, j, c, L, SaleGains

\* What a reversal appends takes back what its original appended.
OnlyJournal(t, x, j) ==
  j \in t.journals /\ j.source = x /\ \A k \in t.journals : k.source = x => k = j
OwedBy(t, x, c) == \A row \in t.ledger : row.source = x => row.customer = c
ReversalGains(n, x, t, j, c) ==
  LET D == TurnedMoves(n, {row \in t.movements : row.source = x})
      O == TurnedDebts(n, {row \in t.ledger : row.source = x})
      P == TurnedPayments(n, {row \in t.payments : row.sale = x})
      J == {[source |-> n, entries |-> Reversed(j.entries)]} IN
  /\ Typed(D, O, P, J)
  /\ \A row \in D \cup O \cup J : row.source = n
  /\ \A row \in P : row.sale = n
  /\ \A row \in O : row.customer = c
  /\ Gained(O, P, D, J) = Ledger!ReversalRows(Books(t).rows[x])

\* The rows of a reversal are those of its original, turned.
LEMMA ReversalGain ==
  ASSUME NEW t, Typed(t.movements, t.ledger, t.payments, t.journals),
         NEW n \in Request, NEW x \in Request, NEW c, OwedBy(t, x, c),
         NEW j, OnlyJournal(t, x, j)
  PROVE  ReversalGains(n, x, t, j, c)
<1> DEFINE moved == {row \in t.movements : row.source = x}
           owed == {row \in t.ledger : row.source = x}
           paid == {row \in t.payments : row.sale = x}
           k == [source |-> n, entries |-> Reversed(j.entries)]
           D == TurnedMoves(n, moved)
           O == TurnedDebts(n, owed)
           P == TurnedPayments(n, paid)
           r == Books(t).rows[x]
<1>1. /\ moved \in SUBSET Movement /\ IsFiniteSet(moved) /\ \A row \in moved : row.source = x
      /\ owed \in SUBSET LedgerRow /\ IsFiniteSet(owed) /\ \A row \in owed : row.source = x
      /\ paid \in SUBSET PaymentRow /\ IsFiniteSet(paid) /\ \A row \in paid : row.sale = x
      /\ \A row \in owed : row.customer = c
  <2>1. /\ moved \in SUBSET t.movements /\ owed \in SUBSET t.ledger /\ paid \in SUBSET t.payments
    OBVIOUS
  <2>2. IsFiniteSet(moved) /\ IsFiniteSet(owed) /\ IsFiniteSet(paid)
    <3> HIDE DEF moved, owed, paid
    <3> QED BY <2>1, FS_Subset DEF Typed
  <2>3. \A row \in owed : row.customer = c
    BY DEF OwedBy
  <2> QED BY <2>2, <2>3 DEF Typed
<1>2. /\ r.moved = [p \in Product |-> Moved(moved, p)]
      /\ r.owed = Amounts(owed) /\ r.paid = Amounts(paid)
      /\ r.journal = [a \in Accounts |-> Balance({i \in t.journals : i.source = x}, a)]
  BY DEF Books, SaleId
<1>3. {i \in t.journals : i.source = x} = {j} /\ j \in t.journals
  BY DEF OnlyJournal
<1>4. /\ j \in Journal /\ j.entries \in Seq(JournalEntry)
  BY <1>3 DEF Typed, Journal
<1>5. /\ k \in Journal /\ k.source = n /\ IsFiniteSet({k})
      /\ \A a : Balance({k}, a) = -Balance({j}, a)
  <2>1. k \in Journal /\ k.source = n /\ k.entries = Reversed(j.entries)
    BY <1>4, ReversedEntries DEF Journal
  <2> HIDE DEF k
  <2>2. ASSUME NEW a PROVE Balance({k}, a) = -Balance({j}, a)
    <3>1. Balance({k}, a) = Posting(Reversed(j.entries), a)
      BY <2>1, BalanceOfOne
    <3>2. Balance({j}, a) = Posting(j.entries, a)
      BY <1>4, BalanceOfOne
    <3>3. Posting(Reversed(j.entries), a) = -Posting(j.entries, a)
      BY <1>4, ReversedEntries
    <3> QED BY <3>1, <3>2, <3>3
  <2> QED BY <2>1, <2>2, FS_Singleton
<1> HIDE DEF moved, owed, paid, k, r
<1>6. /\ D \in SUBSET Movement /\ IsFiniteSet(D) /\ \A row \in D : row.source = n
      /\ \A p : Moved(D, p) = -Moved(moved, p)
  BY <1>1, TurnedMovesSum
<1>7. /\ O \in SUBSET LedgerRow /\ IsFiniteSet(O) /\ \A row \in O : row.source = n
      /\ Amounts(O) = -Amounts(owed)
  BY <1>1, TurnedDebtsSum
<1>8. /\ P \in SUBSET PaymentRow /\ IsFiniteSet(P) /\ \A row \in P : row.sale = n
      /\ Amounts(P) = -Amounts(paid)
  BY <1>1, TurnedPaymentsSum
<1>9. \A row \in O : row.customer = c
  <2>1. ASSUME NEW row \in owed
        PROVE  [row EXCEPT !.source = n, !.amount = -@].customer = c
    <3>1. row \in LedgerRow /\ row.customer = c
      BY <1>1
    <3> QED BY <3>1 DEF LedgerRow
  <2>2. O = {[row EXCEPT !.source = n, !.amount = -@] : row \in owed}
    BY DEF TurnedDebts
  <2> HIDE DEF O
  <2> QED BY <2>1, <2>2
<1> HIDE DEF D, O, P
<1>10. Gained(O, P, D, {k}) = Ledger!ReversalRows(r)
  <2>1. [p \in Product |-> Moved(D, p)] = [p \in Product |-> -r.moved[p]]
    <3>1. \A p \in Product : r.moved[p] = Moved(moved, p)
      BY <1>2
    <3>2. \A p \in Product : Moved(D, p) = -r.moved[p]
      BY <1>6, <3>1
    <3> QED BY <3>2
  <2>2. [a \in Accounts |-> Balance({k}, a)] = [a \in Accounts |-> -r.journal[a]]
    <3>1. \A a \in Accounts : r.journal[a] = Balance({j}, a)
      BY <1>2, <1>3
    <3>2. \A a \in Accounts : Balance({k}, a) = -r.journal[a]
      BY <1>5, <3>1
    <3> QED BY <3>2
  <2>3. Amounts(O) = -r.owed /\ Amounts(P) = -r.paid
    BY <1>2, <1>7, <1>8
  <2> QED BY <2>1, <2>2, <2>3 DEF Gained, Ledger!ReversalRows, Ledger!Account, Accounts
<1>11. Typed(D, O, P, {k})
  BY <1>5, <1>6, <1>7, <1>8 DEF Typed
<1>12. (\A row \in D \cup O \cup {k} : row.source = n) /\ \A row \in P : row.sale = n
  BY <1>5, <1>6, <1>7, <1>8
<1> QED BY <1>9, <1>10, <1>11, <1>12 DEF D, O, P, k, r, moved, owed, paid, ReversalGains

-----------------------------------------------------------------------------
(* The line loop *)

SumsType ==
  [lines : Seq(LineType), currency : STRING \cup {NoSale}, subtotal : Amount, tax : Amount,
   total : Amount, cogs : Amount, entries : Seq(JournalEntry)]

\* What the callback of request n has summed up, over the lines it has drawn.
Sums(n, o, t, b, u, s) ==
  LET L == o.lines
      i == Len(s.lines) IN
  /\ s \in SumsType
  /\ i <= Len(L) /\ \A j \in 1..i : s.lines[j] = L[j]
  /\ s.subtotal = First(Nets(L), i) /\ s.tax = First(Taxes(L), i)
  /\ s.cogs = First(Costs(L), i) /\ s.total = s.subtotal + s.tax
  /\ i > 0 => s.subtotal > 0
  /\ u.movements = t.movements \cup Drawn(n, L, i)
  /\ \A p \in Product : b.stock[p] >= First(Units(L, p), i)

LineEntries(s) ==
  LET e == s.entries IN
  /\ OneSided(e) /\ (s.lines # << >> => Len(e) >= 1)
  /\ SumFunction(Debits(e)) = s.cogs
  /\ SumFunction(Credits(e)) = s.subtotal + s.cogs
  /\ \A a \in Accounts : Posting(e, a) =
       CASE a = "revenue" -> -s.subtotal
         [] a = "cogs" -> s.cogs
         [] a = "inventory" -> -s.cogs
         [] OTHER -> 0

\* The sums with one more line, as TakeLine computes them.
LineSums(o, s) ==
  LET line == o.lines[Len(s.lines) + 1]
      price == Price[line] IN
  [s EXCEPT
     !.lines = Append(@, line), !.currency = Catalog[line.product].currency,
     !.subtotal = checkedAdd(@, price.subtotal), !.tax = checkedAdd(@, price.tax),
     !.total = checkedAdd(@, price.total), !.cogs = checkedAdd(@, price.cogs),
     !.entries = @ \o << Entry("revenue", 0, price.subtotal) >> \o
       IF price.cogs > 0
       THEN << Entry("cogs", price.cogs, 0), Entry("inventory", 0, price.cogs) >>
       ELSE << >>]

\* The sums with one more line, field by field.
LEMMA LineSumsFields ==
  ASSUME NEW o, NEW s \in SumsType
  PROVE  LET line == o.lines[Len(s.lines) + 1]
             price == Price[line]
             z == LineSums(o, s) IN
         /\ z.lines = Append(s.lines, line) /\ z.currency = Catalog[line.product].currency
         /\ z.subtotal = checkedAdd(s.subtotal, price.subtotal)
         /\ z.tax = checkedAdd(s.tax, price.tax)
         /\ z.total = checkedAdd(s.total, price.total)
         /\ z.cogs = checkedAdd(s.cogs, price.cogs)
         /\ z.entries = s.entries \o << Entry("revenue", 0, price.subtotal) >> \o
              IF price.cogs > 0
              THEN << Entry("cogs", price.cogs, 0), Entry("inventory", 0, price.cogs) >>
              ELSE << >>
         /\ z = [x \in {"lines", "currency", "subtotal", "tax", "total", "cogs", "entries"} |-> z[x]]
<1> DEFINE line == o.lines[Len(s.lines) + 1]
           price == Price[line]
           z == LineSums(o, s)
           more == << Entry("revenue", 0, price.subtotal) >> 
           cost == IF price.cogs > 0
              THEN << Entry("cogs", price.cogs, 0), Entry("inventory", 0, price.cogs) >>
              ELSE << >>
<1>1. DOMAIN s = {"lines", "currency", "subtotal", "tax", "total", "cogs", "entries"}
      /\ s = [x \in DOMAIN s |-> s[x]]
  BY DEF SumsType
<1>2. z = [s EXCEPT
     !.lines = Append(@, line), !.currency = Catalog[line.product].currency,
     !.subtotal = checkedAdd(@, price.subtotal), !.tax = checkedAdd(@, price.tax),
     !.total = checkedAdd(@, price.total), !.cogs = checkedAdd(@, price.cogs),
     !.entries = @ \o more \o cost]
  BY DEF LineSums
<1> HIDE DEF line, price, more, cost, z
<1>3. /\ z.lines = Append(s.lines, line) /\ z.currency = Catalog[line.product].currency
         /\ z.subtotal = checkedAdd(s.subtotal, price.subtotal)
         /\ z.tax = checkedAdd(s.tax, price.tax)
         /\ z.total = checkedAdd(s.total, price.total)
         /\ z.cogs = checkedAdd(s.cogs, price.cogs)
         /\ z.entries = s.entries \o more \o cost
  BY <1>1, <1>2
<1>4. z = [x \in {"lines", "currency", "subtotal", "tax", "total", "cogs", "entries"} |-> z[x]]
  BY <1>1, <1>2
<1> QED BY <1>3, <1>4 DEF line, price, more, cost, z

\* The sums of the callback, field by field.
LEMMA SumsFields ==
  ASSUME NEW s \in SumsType
  PROVE  /\ s.lines \in Seq(LineType) /\ s.currency \in STRING \cup {NoSale}
         /\ s.subtotal \in Amount /\ s.tax \in Amount /\ s.total \in Amount /\ s.cogs \in Amount
         /\ s.subtotal \in Nat /\ s.tax \in Nat /\ s.total \in Nat /\ s.cogs \in Nat
         /\ s.entries \in Seq(JournalEntry) /\ Len(s.lines) \in Nat
<1>1. /\ s.lines \in Seq(LineType) /\ s.currency \in STRING \cup {NoSale}
      /\ s.subtotal \in Amount /\ s.tax \in Amount /\ s.total \in Amount /\ s.cogs \in Amount
      /\ s.entries \in Seq(JournalEntry)
  BY DEF SumsType
<1>2. Amount \subseteq Nat
  BY MoneyAssumption DEF Amount
<1>3. Len(s.lines) \in Nat
  BY <1>1, LinesTyped
<1> QED BY <1>1, <1>2, <1>3

\* The first i + 1 amounts are the first i and one more, and no more than all.
LEMMA NextAmounts ==
  ASSUME NEW L \in Seq(LineType), NEW i \in Nat, i + 1 <= Len(L)
  PROVE  /\ First(Nets(L), i + 1) = First(Nets(L), i) + Net(L[i + 1])
         /\ First(Taxes(L), i + 1) = First(Taxes(L), i) + Tax(L[i + 1])
         /\ First(Costs(L), i + 1) = First(Costs(L), i) + Cost(L[i + 1])
         /\ First(Nets(L), i + 1) <= SumFunction(Nets(L))
         /\ First(Taxes(L), i + 1) <= SumFunction(Taxes(L))
         /\ First(Costs(L), i + 1) <= SumFunction(Costs(L))
         /\ First(Nets(L), i) \in Nat /\ First(Taxes(L), i) \in Nat /\ First(Costs(L), i) \in Nat
         /\ SumFunction(Nets(L)) \in Nat /\ SumFunction(Taxes(L)) \in Nat
         /\ SumFunction(Costs(L)) \in Nat
         /\ \A p : /\ First(Units(L, p), i) \in Nat
                   /\ First(Units(L, p), i + 1) = First(Units(L, p), i)
                        + IF L[i + 1].product = p THEN L[i + 1].quantity ELSE 0
<1>1. Len(L) \in Nat /\ i + 1 \in 1..Len(L) /\ DOMAIN L = 1..Len(L)
  BY LinesTyped
<1>2. ASSUME NEW f \in Seq(Nat), Len(f) = Len(L)
      PROVE  /\ First(f, i + 1) = First(f, i) + f[i + 1] /\ First(f, i) \in Nat
             /\ First(f, i + 1) <= SumFunction(f) /\ SumFunction(f) \in Nat
  <2>1. i \in 0..Len(f) /\ i + 1 \in 0..Len(f) /\ Len(f) \in 0..Len(f)
        /\ \A j \in 1..Len(f) : f[j] \in Nat
    BY <1>1, <1>2
  <2>2. First(f, i + 1) = f[i + 1] + First(f, i)
    <3>1. \A j \in 1..(i + 1) : f[j] \in Int
      BY <1>1, <1>2, <2>1
    <3> QED BY <3>1, FirstOneMore
  <2>3. First(f, i) \in Nat
    BY <2>1, FirstGrows
  <2>4. First(f, i + 1) <= SumFunction(f)
    BY <2>1, FirstGrows
  <2>5. First(f, Len(f)) \in Nat /\ SumFunction(f) = First(f, Len(f))
    BY <2>1, FirstGrows, FirstAll
  <2>6. f[i + 1] \in Nat
    BY <1>1, <1>2, <2>1
  <2> QED BY <2>2, <2>3, <2>4, <2>5, <2>6
<1>3. /\ Nets(L)[i + 1] = Net(L[i + 1]) /\ Taxes(L)[i + 1] = Tax(L[i + 1])
      /\ Costs(L)[i + 1] = Cost(L[i + 1])
      /\ \A p : Units(L, p)[i + 1] = IF L[i + 1].product = p THEN L[i + 1].quantity ELSE 0
  BY <1>1 DEF Nets, Taxes, Costs, Units
<1>4. /\ First(Nets(L), i + 1) = First(Nets(L), i) + Nets(L)[i + 1] /\ First(Nets(L), i) \in Nat
      /\ First(Nets(L), i + 1) <= SumFunction(Nets(L)) /\ SumFunction(Nets(L)) \in Nat
  BY <1>2, LinesTyped
<1>5. /\ First(Taxes(L), i + 1) = First(Taxes(L), i) + Taxes(L)[i + 1]
      /\ First(Taxes(L), i) \in Nat
      /\ First(Taxes(L), i + 1) <= SumFunction(Taxes(L)) /\ SumFunction(Taxes(L)) \in Nat
  BY <1>2, LinesTyped
<1>6. /\ First(Costs(L), i + 1) = First(Costs(L), i) + Costs(L)[i + 1]
      /\ First(Costs(L), i) \in Nat
      /\ First(Costs(L), i + 1) <= SumFunction(Costs(L)) /\ SumFunction(Costs(L)) \in Nat
  BY <1>2, LinesTyped
<1>7. \A p : /\ First(Units(L, p), i) \in Nat
             /\ First(Units(L, p), i + 1) = First(Units(L, p), i) + Units(L, p)[i + 1]
  BY <1>2, LinesTyped
<1> QED BY <1>3, <1>4, <1>5, <1>6, <1>7

\* One of the sums is past int64.
Overflown(z) == Overflow \in {z.subtotal, z.tax, z.total, z.cogs}

\* A sum of the line loop is refused only for an order that is too large.
LEMMA LineTooLarge ==
  ASSUME NEW o \in Order, Wanted(o), NEW n, NEW t, NEW b, NEW u, NEW s,
         Sums(n, o, t, b, u, s), Len(s.lines) < Len(o.lines),
         Overflown(LineSums(o, s))
  PROVE  TooLarge(o)
<1> DEFINE L == o.lines
           i == Len(s.lines)
           line == L[i + 1]
           price == Price[line]
           z == LineSums(o, s)
<1>1. /\ s \in SumsType /\ L \in Seq(LineType) /\ i \in Nat /\ i + 1 <= Len(L)
      /\ i + 1 \in DOMAIN L /\ line \in LineType
  <2>1. s \in SumsType /\ L \in Seq(LineType)
    BY OrderTyped DEF Sums
  <2>2. Len(L) \in Nat /\ DOMAIN L = 1..Len(L) /\ \A j \in 1..Len(L) : L[j] \in LineType
    BY <2>1, LinesTyped
  <2>3. i \in Nat
    BY <2>1, SumsFields
  <2>4. i + 1 <= Len(L) /\ i + 1 \in 1..Len(L)
    BY <2>2, <2>3
  <2> QED BY <2>1, <2>2, <2>3, <2>4
<1>2. /\ z.subtotal = checkedAdd(s.subtotal, price.subtotal)
      /\ z.tax = checkedAdd(s.tax, price.tax)
      /\ z.total = checkedAdd(s.total, price.total)
      /\ z.cogs = checkedAdd(s.cogs, price.cogs)
  BY <1>1, LineSumsFields
<1>3. /\ price.subtotal = IF Net(line) <= MaxInt THEN Net(line) ELSE Overflow
      /\ price.cogs = IF Cost(line) <= MaxInt THEN Cost(line) ELSE Overflow
      /\ price.tax # Overflow => /\ Net(line) <= MaxInt /\ Tax(line) \in Amount
                                 /\ price.tax = Tax(line)
      /\ price.tax = Overflow =>
           \/ Net(line) > MaxInt
           \/ Net(line) * Catalog[line.product].rate + Scale \div 2 > MaxInt
      /\ price.total = checkedAdd(price.subtotal, price.tax)
  BY <1>1, PriceExact
<1>4. Net(line) \in Nat \ {0} /\ Tax(line) \in Nat /\ Cost(line) \in Nat
  BY <1>1, LineAmounts
<1>5. /\ s.subtotal \in Amount /\ s.tax \in Amount /\ s.total \in Amount /\ s.cogs \in Amount
      /\ s.subtotal = First(Nets(L), i) /\ s.tax = First(Taxes(L), i)
      /\ s.cogs = First(Costs(L), i) /\ s.total = s.subtotal + s.tax
  BY <1>1, SumsFields DEF Sums
<1>6. /\ First(Nets(L), i) + Net(line) <= Exact(o).net
      /\ First(Taxes(L), i) + Tax(line) <= Exact(o).tax
      /\ First(Costs(L), i) + Cost(line) <= Exact(o).cost
      /\ First(Nets(L), i) \in Nat /\ First(Taxes(L), i) \in Nat /\ First(Costs(L), i) \in Nat
      /\ Exact(o).net \in Nat /\ Exact(o).tax \in Nat /\ Exact(o).cost \in Nat
  BY <1>1, NextAmounts, ExactSums
<1>7. MaxInt \in Nat /\ Amount = 0..MaxInt
  BY MoneyAssumption DEF Amount
<1>8. ASSUME Net(line) > MaxInt PROVE TooLarge(o)
  BY <1>1, <1>8 DEF TooLarge
<1>9. ASSUME Net(line) * Catalog[line.product].rate + Scale \div 2 > MaxInt PROVE TooLarge(o)
  BY <1>1, <1>9 DEF TooLarge
<1>10. ASSUME Exact(o).net + Exact(o).tax > MaxInt \/ Exact(o).cost > MaxInt PROVE TooLarge(o)
  BY <1>10 DEF TooLarge
<1> SUFFICES ASSUME Net(line) <= MaxInt, price.tax # Overflow,
                    Exact(o).net + Exact(o).tax <= MaxInt, Exact(o).cost <= MaxInt
             PROVE  FALSE
  <2>1. /\ Net(line) \in Int /\ Exact(o).net + Exact(o).tax \in Int /\ Exact(o).cost \in Int
    BY <1>4, <1>6
  <2> HIDE DEF line, price, z
  <2> QED BY <1>3, <1>7, <1>8, <1>9, <1>10, <2>1
<1> HIDE DEF line, price, z, L, i
<1> DEFINE a0 == First(Nets(L), i)
           b0 == First(Taxes(L), i)
           c0 == First(Costs(L), i)
           a1 == Net(line)
           b1 == Tax(line)
           c1 == Cost(line)
           a2 == Exact(o).net
           b2 == Exact(o).tax
           c2 == Exact(o).cost
<1>11. /\ a0 \in Nat /\ b0 \in Nat /\ c0 \in Nat /\ a1 \in Nat /\ b1 \in Nat /\ c1 \in Nat
      /\ a2 \in Nat /\ b2 \in Nat /\ c2 \in Nat /\ MaxInt \in Nat
  BY <1>4, <1>6, <1>7
<1>12. /\ a0 + a1 <= a2 /\ b0 + b1 <= b2 /\ c0 + c1 <= c2
      /\ a2 + b2 <= MaxInt /\ c2 <= MaxInt
  BY <1>6
<1>13. /\ s.subtotal = a0 /\ s.tax = b0 /\ s.cogs = c0 /\ s.total = s.subtotal + s.tax
  BY <1>5
<1> HIDE DEF a0, b0, c0, a1, b1, c1, a2, b2, c2
<1>14. a1 <= MaxInt /\ b1 <= MaxInt /\ c1 <= MaxInt /\ a1 + b1 <= MaxInt
  BY <1>11, <1>12
<1>15. a0 + a1 <= MaxInt /\ b0 + b1 <= MaxInt /\ c0 + c1 <= MaxInt
  BY <1>11, <1>12
<1>16. (a0 + b0) + (a1 + b1) <= MaxInt
  BY <1>11, <1>12
<1>17. Net(line) \in Amount /\ Tax(line) \in Amount /\ Cost(line) \in Amount
  <2>1. a1 \in Amount /\ b1 \in Amount /\ c1 \in Amount
    BY <1>11, <1>14, <1>7
  <2> QED BY <2>1 DEF a1, b1, c1
<1>18. price.subtotal = Net(line) /\ price.tax = Tax(line) /\ price.cogs = Cost(line)
  <2>1. Net(line) <= MaxInt /\ Cost(line) <= MaxInt
    BY <1>14 DEF a1, c1
  <2> QED BY <1>3, <2>1
<1>19. price.total = Net(line) + Tax(line) /\ price.total \in Amount
  <2>1. Net(line) + Tax(line) <= MaxInt
    BY <1>14 DEF a1, b1
  <2>2. price.total = checkedAdd(Net(line), Tax(line))
    BY <1>3, <1>18
  <2>3. price.total = Net(line) + Tax(line)
    BY <1>17, <2>1, <2>2, AddExact
  <2>4. a1 + b1 \in Amount
    BY <1>11, <1>14, <1>7
  <2> QED BY <2>3, <2>4 DEF a1, b1
<1>20. /\ s.subtotal + Net(line) <= MaxInt /\ s.tax + Tax(line) <= MaxInt
       /\ s.cogs + Cost(line) <= MaxInt /\ s.total + (Net(line) + Tax(line)) <= MaxInt
  <2>1. /\ s.subtotal + a1 <= MaxInt /\ s.tax + b1 <= MaxInt /\ s.cogs + c1 <= MaxInt
        /\ s.total + (a1 + b1) <= MaxInt
    BY <1>13, <1>15, <1>16
  <2> QED BY <2>1 DEF a1, b1, c1
<1>21. /\ z.subtotal # Overflow /\ z.tax # Overflow /\ z.cogs # Overflow
  BY <1>2, <1>5, <1>18, <1>20, <1>17, AddExact
<1>22. z.total # Overflow
  BY <1>2, <1>5, <1>19, <1>20, AddExact
<1> QED BY <1>21, <1>22 DEF Overflown, z

\* A line that is taken adds its exact amounts to the sums.
LEMMA LineAdds ==
  ASSUME NEW o \in Order, Wanted(o), NEW n, NEW t, NEW b, NEW u, NEW s,
         Sums(n, o, t, b, u, s), Len(s.lines) < Len(o.lines),
         LET z == LineSums(o, s) IN Overflow \notin {z.subtotal, z.tax, z.total, z.cogs}
  PROVE  LET z == LineSums(o, s)
             L == o.lines
             i == Len(s.lines) + 1
             line == L[i]
             price == Price[line] IN
         /\ L \in Seq(LineType) /\ i \in 1..Len(L) /\ Len(L) \in Nat /\ line \in LineType
         /\ price.subtotal = Net(line) /\ price.cogs = Cost(line)
         /\ price.subtotal \in Amount /\ price.cogs \in Amount /\ Net(line) # 0
         /\ z.subtotal = s.subtotal + Net(line) /\ z.subtotal \in Amount
         /\ z.tax = s.tax + Tax(line) /\ z.tax \in Amount
         /\ z.cogs = s.cogs + Cost(line) /\ z.cogs \in Amount
         /\ z.total = s.total + (Net(line) + Tax(line)) /\ z.total \in Amount
         /\ Net(line) \in Nat /\ Tax(line) \in Nat /\ Cost(line) \in Nat
<1> DEFINE z == LineSums(o, s)
           L == o.lines
           i == Len(s.lines) + 1
           line == L[i]
           price == Price[line]
<1>1. /\ s \in SumsType /\ L \in Seq(LineType) /\ i \in 1..Len(L) /\ i \in DOMAIN L
      /\ line \in LineType /\ Len(L) \in Nat
  <2>1. s \in SumsType /\ L \in Seq(LineType)
    BY OrderTyped DEF Sums
  <2>2. Len(L) \in Nat /\ DOMAIN L = 1..Len(L) /\ \A j \in 1..Len(L) : L[j] \in LineType
    BY <2>1, LinesTyped
  <2>3. Len(s.lines) \in Nat
    BY <2>1, SumsFields
  <2>4. i \in 1..Len(L)
    BY <2>2, <2>3
  <2> QED BY <2>1, <2>2, <2>4
<1>2. /\ z.subtotal = checkedAdd(s.subtotal, price.subtotal)
      /\ z.tax = checkedAdd(s.tax, price.tax)
      /\ z.total = checkedAdd(s.total, price.total)
      /\ z.cogs = checkedAdd(s.cogs, price.cogs)
  BY <1>1, LineSumsFields
<1>3. /\ price.subtotal = IF Net(line) <= MaxInt THEN Net(line) ELSE Overflow
      /\ price.cogs = IF Cost(line) <= MaxInt THEN Cost(line) ELSE Overflow
      /\ price.tax # Overflow => /\ Net(line) <= MaxInt /\ Tax(line) \in Amount
                                 /\ price.tax = Tax(line)
      /\ price.total = checkedAdd(price.subtotal, price.tax)
  BY <1>1, PriceExact
<1>4. Net(line) \in Nat \ {0} /\ Tax(line) \in Nat /\ Cost(line) \in Nat
  BY <1>1, LineAmounts
<1>5. /\ s.subtotal \in Amount /\ s.tax \in Amount /\ s.total \in Amount /\ s.cogs \in Amount
  BY <1>1, SumsFields
<1> HIDE DEF line, price, L, i
<1>6. z.subtotal # Overflow /\ z.tax # Overflow /\ z.total # Overflow /\ z.cogs # Overflow
  OBVIOUS
<1> HIDE DEF z
<1>7. MaxInt \in Nat /\ Overflow \notin Amount
  BY MoneyAssumption DEF Amount, Overflow
<1>8. price.subtotal \in Amount \cup {Overflow} /\ price.cogs \in Amount \cup {Overflow}
  BY <1>3, <1>4, <1>7 DEF Amount
<1>9. price.subtotal \in Amount /\ z.subtotal = s.subtotal + price.subtotal
        /\ z.subtotal \in Amount
  BY <1>2, <1>5, <1>6, <1>8, CheckedSum
<1>10. price.cogs \in Amount /\ z.cogs = s.cogs + price.cogs /\ z.cogs \in Amount
  BY <1>2, <1>5, <1>6, <1>8, CheckedSum
<1>11. price.tax # Overflow
  <2>1. ASSUME price.tax = Overflow PROVE FALSE
    <3>1. z.tax = Overflow
      BY <1>2, <1>5, <2>1, OverflowStays
    <3> QED BY <1>6, <3>1
  <2> QED BY <2>1
<1>12. price.tax = Tax(line) /\ Tax(line) \in Amount
  BY <1>3, <1>11
<1>13. z.tax = s.tax + Tax(line) /\ z.tax \in Amount
  BY <1>2, <1>5, <1>6, <1>12, CheckedSum
<1>14. price.subtotal = Net(line) /\ price.cogs = Cost(line)
  BY <1>3, <1>7, <1>9, <1>10
<1>15. price.total \in Amount \cup {Overflow} /\ (price.total # Overflow => price.total = Net(line) + Tax(line))
  <2>1. /\ checkedAdd(price.subtotal, price.tax) # Overflow =>
             /\ checkedAdd(price.subtotal, price.tax) = price.subtotal + price.tax
             /\ price.subtotal + price.tax \in Amount
    BY <1>9, <1>12, CheckedSum
  <2> QED BY <1>3, <1>12, <1>14, <2>1
<1>16. z.total = s.total + price.total /\ z.total \in Amount /\ price.total \in Amount
  BY <1>2, <1>5, <1>6, <1>15, CheckedSum
<1>17. price.total = Net(line) + Tax(line)
  BY <1>7, <1>15, <1>16
<1> QED BY <1>1, <1>4, <1>9, <1>10, <1>13, <1>14, <1>16, <1>17 DEF line, price, L, i, z

\* The stock shown is what the movements add up to.
Stocked(t, b) == \A p \in Product : b.stock[p] = Moved(t.movements, p)

\* One turn of the line loop keeps what its sums are: each int64 sum that did not
\* overflow is the exact one, and the line fits the stock of the tables.
LEMMA LineTaken ==
  ASSUME NEW o \in Order, Wanted(o), NEW n \in Request, NEW t, NEW b, NEW u, NEW s, NEW v,
         Sums(n, o, t, b, u, s), Len(s.lines) < Len(o.lines),
         LET z == LineSums(o, s) IN Overflow \notin {z.subtotal, z.tax, z.total, z.cogs},
         Typed(t.movements, t.ledger, t.payments, t.journals), Without(t, n),
         Stocked(t, b),
         LineEntries(s),
         LET line == o.lines[Len(s.lines) + 1] IN
         /\ Moved(u.movements, line.product) >= line.quantity
         /\ v.movements = u.movements \cup
              {[source |-> n, line |-> Len(s.lines) + 1, product |-> line.product,
                quantity |-> -line.quantity]}
  PROVE  LET z == LineSums(o, s) IN
         Sums(n, o, t, b, v, z) /\ LineEntries(z) /\ Len(z.lines) = Len(s.lines) + 1
<1> DEFINE z == LineSums(o, s)
           L == o.lines
           i == Len(s.lines)
           line == L[i + 1]
           price == Price[line]
           sold == << Entry("revenue", 0, price.subtotal) >>
           cost == IF price.cogs > 0
                   THEN << Entry("cogs", price.cogs, 0), Entry("inventory", 0, price.cogs) >>
                   ELSE << >>
<1>1. /\ L \in Seq(LineType) /\ i + 1 \in 1..Len(L) /\ Len(L) \in Nat /\ line \in LineType
      /\ price.subtotal = Net(line) /\ price.cogs = Cost(line)
      /\ price.subtotal \in Amount /\ price.cogs \in Amount /\ Net(line) # 0
      /\ z.subtotal = s.subtotal + Net(line) /\ z.subtotal \in Amount
      /\ z.tax = s.tax + Tax(line) /\ z.tax \in Amount
      /\ z.cogs = s.cogs + Cost(line) /\ z.cogs \in Amount
      /\ z.total = s.total + (Net(line) + Tax(line)) /\ z.total \in Amount
      /\ Net(line) \in Nat /\ Tax(line) \in Nat /\ Cost(line) \in Nat
  BY LineAdds
<1>2. /\ s \in SumsType /\ s.lines \in Seq(LineType) /\ i \in Nat /\ i + 1 <= Len(L)
      /\ s.subtotal \in Nat /\ s.tax \in Nat /\ s.total \in Nat /\ s.cogs \in Nat
      /\ s.entries \in Seq(JournalEntry)
  <2>1. s \in SumsType
    BY DEF Sums
  <2> QED BY <1>1, <2>1, SumsFields
<1>3. /\ z.lines = Append(s.lines, line) /\ z.currency = Catalog[line.product].currency
      /\ z.entries = s.entries \o sold \o cost
      /\ z = [x \in {"lines", "currency", "subtotal", "tax", "total", "cogs", "entries"} |-> z[x]]
  <2>1. s \in SumsType
    BY <1>2
  <2>2. z.lines = Append(s.lines, line)
    BY <2>1, LineSumsFields
  <2>3. z.currency = Catalog[line.product].currency
    BY <2>1, LineSumsFields
  <2>4. z.entries = s.entries \o sold \o cost
    BY <2>1, LineSumsFields
  <2>5. z = [x \in {"lines", "currency", "subtotal", "tax", "total", "cogs", "entries"} |-> z[x]]
    BY <2>1, LineSumsFields
  <2> HIDE DEF z, sold, cost, line
  <2> QED BY <2>2, <2>3, <2>4, <2>5
<1>4. line.product \in Product /\ line.quantity \in Nat
  BY <1>1, LineAmounts
<1>5. /\ z.lines \in Seq(LineType) /\ Len(z.lines) = i + 1 /\ z.lines # << >>
      /\ z.lines[i + 1] = line /\ \A j \in 1..i : z.lines[j] = s.lines[j]
  <2> HIDE DEF z, line
  <2>1. z.lines = Append(s.lines, line) /\ s.lines \in Seq(LineType) /\ line \in LineType
    BY <1>1, <1>2, <1>3
  <2>2. z.lines \in Seq(LineType) /\ Len(z.lines) = i + 1
    BY <2>1
  <2>3. z.lines[i + 1] = line /\ \A j \in 1..i : z.lines[j] = s.lines[j]
    BY <2>1
  <2>4. z.lines # << >>
    BY <1>2, <2>2
  <2> QED BY <2>2, <2>3, <2>4
<1>6. /\ sold \in Seq(JournalEntry) /\ Len(sold) = 1 /\ OneSided(sold)
      /\ SumFunction(Debits(sold)) = 0 /\ SumFunction(Credits(sold)) = Net(line)
      /\ \A a : Posting(sold, a) = IF a = "revenue" THEN -Net(line) ELSE 0
  <2>1. /\ "revenue" \in Accounts /\ 0 \in Amount /\ price.subtotal \in Amount
        /\ price.subtotal # 0
    BY <1>1, MoneyAssumption DEF Accounts, Amount
  <2> HIDE DEF price
  <2>2. /\ sold \in Seq(JournalEntry) /\ Len(sold) = 1 /\ OneSided(sold)
        /\ SumFunction(Debits(sold)) = 0 /\ SumFunction(Credits(sold)) = price.subtotal
        /\ \A a : Posting(sold, a) = IF a = "revenue" THEN 0 - price.subtotal ELSE 0
    BY <2>1, OneEntry
  <2>3. 0 - price.subtotal = -Net(line)
    BY <1>1
  <2> QED BY <1>1, <2>2, <2>3
<1>7. /\ cost \in Seq(JournalEntry) /\ OneSided(cost)
      /\ SumFunction(Debits(cost)) = Cost(line) /\ SumFunction(Credits(cost)) = Cost(line)
      /\ \A a : Posting(cost, a) = IF a = "cogs" THEN Cost(line)
                                   ELSE IF a = "inventory" THEN -Cost(line) ELSE 0
  <2> DEFINE k == price.cogs
             d == << Entry("cogs", k, 0) >>
             e == << Entry("inventory", 0, k) >>
  <2>1. k = Cost(line) /\ k \in Amount /\ k \in Nat /\ 0 \in Amount
    BY <1>1, MoneyAssumption DEF Amount
  <2>2. /\ k > 0 => cost = << Entry("cogs", k, 0), Entry("inventory", 0, k) >>
        /\ ~(k > 0) => cost = << >>
    OBVIOUS
  <2>5. << Entry("cogs", k, 0), Entry("inventory", 0, k) >> = d \o e
    BY PairJoined
  <2> HIDE DEF k, cost
  <2>3. CASE k = 0
    <3>1. cost = << >>
      BY <2>1, <2>2, <2>3
    <3> QED BY <2>1, <2>3, <3>1, NoEntry, ZeroNegated
  <2>4. CASE k # 0
    <3>1. /\ d \in Seq(JournalEntry) /\ OneSided(d)
          /\ SumFunction(Debits(d)) = k /\ SumFunction(Credits(d)) = 0
          /\ \A a : Posting(d, a) = IF a = "cogs" THEN k - 0 ELSE 0
      <4>1. "cogs" \in Accounts
        BY DEF Accounts
      <4> QED BY <2>1, <2>4, <4>1, OneEntry
    <3>2. /\ e \in Seq(JournalEntry) /\ OneSided(e)
          /\ SumFunction(Debits(e)) = 0 /\ SumFunction(Credits(e)) = k
          /\ \A a : Posting(e, a) = IF a = "inventory" THEN 0 - k ELSE 0
      <4>1. "inventory" \in Accounts
        BY DEF Accounts
      <4> QED BY <2>1, <2>4, <4>1, OneEntry
    <3>3. cost = d \o e
      BY <2>1, <2>2, <2>4, <2>5
    <3> HIDE DEF d, e
    <3>4. /\ cost \in Seq(JournalEntry) /\ OneSided(cost)
          /\ SumFunction(Debits(cost)) = k + 0 /\ SumFunction(Credits(cost)) = 0 + k
          /\ \A a : Posting(cost, a) = Posting(d, a) + Posting(e, a)
      BY <3>1, <3>2, <3>3, EntriesConcat
    <3>5. ASSUME NEW a
          PROVE  Posting(cost, a) = IF a = "cogs" THEN k ELSE IF a = "inventory" THEN -k ELSE 0
      BY <2>1, <3>1, <3>2, <3>4
    <3> QED BY <2>1, <3>4, <3>5
  <2> QED BY <2>3, <2>4
<1> HIDE DEF z, line, price, sold, cost, L, i
<1>8. LineEntries(z) /\ z.entries \in Seq(JournalEntry)
  <2> DEFINE x == s.entries \o sold
             e == z.entries
  <2>1. /\ x \in Seq(JournalEntry) /\ OneSided(x) /\ Len(x) = Len(s.entries) + 1
        /\ Len(s.entries) \in Nat
        /\ SumFunction(Debits(x)) = SumFunction(Debits(s.entries)) + 0
        /\ SumFunction(Credits(x)) = SumFunction(Credits(s.entries)) + Net(line)
        /\ \A a : Posting(x, a) = Posting(s.entries, a) + Posting(sold, a)
    <3>1. OneSided(s.entries)
      BY DEF LineEntries
    <3> QED BY <1>2, <1>6, <3>1, EntriesConcat
  <2> HIDE DEF x
  <2>2. e = x \o cost
    BY <1>3 DEF x
  <2> HIDE DEF e
  <2>3. /\ e \in Seq(JournalEntry) /\ OneSided(e) /\ Len(e) = Len(x) + Len(cost)
        /\ Len(cost) \in Nat
        /\ SumFunction(Debits(e)) = SumFunction(Debits(x)) + Cost(line)
        /\ SumFunction(Credits(e)) = SumFunction(Credits(x)) + Cost(line)
        /\ \A a : Posting(e, a) = Posting(x, a) + Posting(cost, a)
    <3>1. x \in Seq(JournalEntry) /\ OneSided(x) /\ cost \in Seq(JournalEntry) /\ OneSided(cost)
      BY <1>7, <2>1
    <3>2. /\ x \o cost \in Seq(JournalEntry) /\ OneSided(x \o cost)
          /\ Len(x \o cost) = Len(x) + Len(cost) /\ Len(cost) \in Nat
          /\ SumFunction(Debits(x \o cost)) = SumFunction(Debits(x)) + SumFunction(Debits(cost))
          /\ SumFunction(Credits(x \o cost)) = SumFunction(Credits(x)) + SumFunction(Credits(cost))
          /\ \A a : Posting(x \o cost, a) = Posting(x, a) + Posting(cost, a)
      BY <3>1, EntriesConcat
    <3> QED BY <1>7, <2>2, <3>2
  <2>4. Len(e) >= 1
    BY <2>1, <2>3
  <2>5. /\ SumFunction(Debits(s.entries)) = s.cogs
        /\ SumFunction(Credits(s.entries)) = s.subtotal + s.cogs
        /\ \A a \in Accounts : Posting(s.entries, a) =
             CASE a = "revenue" -> -s.subtotal
               [] a = "cogs" -> s.cogs
               [] a = "inventory" -> -s.cogs
               [] OTHER -> 0
    BY DEF LineEntries
  <2>6. SumFunction(Debits(e)) = z.cogs /\ SumFunction(Credits(e)) = z.subtotal + z.cogs
    <3>1. /\ s.cogs \in Nat /\ s.subtotal \in Nat /\ Net(line) \in Nat /\ Cost(line) \in Nat
          /\ z.cogs = s.cogs + Cost(line) /\ z.subtotal = s.subtotal + Net(line)
      BY <1>1, <1>2
    <3>2. SumFunction(Debits(e)) = (s.cogs + 0) + Cost(line)
      BY <2>1, <2>3, <2>5
    <3>3. SumFunction(Credits(e)) = ((s.subtotal + s.cogs) + Net(line)) + Cost(line)
      BY <2>1, <2>3, <2>5
    <3> QED BY <3>1, <3>2, <3>3
  <2>7. ASSUME NEW a \in Accounts
        PROVE  Posting(e, a) =
             CASE a = "revenue" -> -z.subtotal
               [] a = "cogs" -> z.cogs
               [] a = "inventory" -> -z.cogs
               [] OTHER -> 0
    <3>1. Posting(e, a) = (Posting(s.entries, a) + Posting(sold, a)) + Posting(cost, a)
      BY <2>1, <2>3
    <3>2. CASE a = "revenue"
      <4>1. Posting(s.entries, a) = -s.subtotal /\ Posting(sold, a) = -Net(line)
              /\ Posting(cost, a) = 0
        BY <1>6, <1>7, <2>5, <3>2
      <4> QED BY <1>1, <1>2, <3>1, <3>2, <4>1
    <3>3. CASE a = "cogs"
      <4>1. Posting(s.entries, a) = s.cogs /\ Posting(sold, a) = 0 /\ Posting(cost, a) = Cost(line)
        BY <1>6, <1>7, <2>5, <3>3
      <4> QED BY <1>1, <1>2, <3>1, <3>3, <4>1
    <3>4. CASE a = "inventory"
      <4>1. Posting(s.entries, a) = -s.cogs /\ Posting(sold, a) = 0
              /\ Posting(cost, a) = -Cost(line)
        BY <1>6, <1>7, <2>5, <3>4
      <4> QED BY <1>1, <1>2, <3>1, <3>4, <4>1
    <3>5. CASE a \notin {"revenue", "cogs", "inventory"}
      <4>1. Posting(s.entries, a) = 0 /\ Posting(sold, a) = 0 /\ Posting(cost, a) = 0
        BY <1>6, <1>7, <2>5, <3>5
      <4> QED BY <3>1, <3>5, <4>1
    <3> QED BY <3>2, <3>3, <3>4, <3>5
  <2> QED BY <2>3, <2>4, <2>6, <2>7 DEF LineEntries, e
<1>9. z \in SumsType
  <2>1. z.currency \in STRING \cup {NoSale}
    <3>1. Catalog[line.product] \in [active : BOOLEAN, currency : STRING, price : Amount \ {0},
                                     cost : Amount, rate : 0..Scale]
      BY <1>4, CatalogAssumption
    <3> QED BY <1>3, <3>1
  <2> QED BY <1>1, <1>3, <1>5, <1>8, <2>1 DEF SumsType
<1>10. /\ First(Nets(L), i + 1) = First(Nets(L), i) + Net(line)
       /\ First(Taxes(L), i + 1) = First(Taxes(L), i) + Tax(line)
       /\ First(Costs(L), i + 1) = First(Costs(L), i) + Cost(line)
       /\ \A p : /\ First(Units(L, p), i) \in Nat
                 /\ First(Units(L, p), i + 1) = First(Units(L, p), i)
                      + IF line.product = p THEN line.quantity ELSE 0
  BY <1>1, <1>2, NextAmounts DEF line
<1>11. /\ s.subtotal = First(Nets(L), i) /\ s.tax = First(Taxes(L), i)
       /\ s.cogs = First(Costs(L), i) /\ s.total = s.subtotal + s.tax
       /\ \A j \in 1..i : s.lines[j] = L[j]
       /\ u.movements = t.movements \cup Drawn(n, L, i)
       /\ \A p \in Product : b.stock[p] >= First(Units(L, p), i)
  BY DEF Sums, L, i
<1>12. /\ z.subtotal = First(Nets(L), i + 1) /\ z.tax = First(Taxes(L), i + 1)
       /\ z.cogs = First(Costs(L), i + 1) /\ z.total = z.subtotal + z.tax /\ z.subtotal > 0
  <2>1. z.subtotal = First(Nets(L), i + 1)
    BY <1>1, <1>10, <1>11
  <2>2. z.tax = First(Taxes(L), i + 1)
    BY <1>1, <1>10, <1>11
  <2>3. z.cogs = First(Costs(L), i + 1)
    BY <1>1, <1>10, <1>11
  <2>4. z.total = (s.subtotal + s.tax) + (Net(line) + Tax(line))
    BY <1>1, <1>11
  <2>5. /\ z.subtotal = s.subtotal + Net(line) /\ z.tax = s.tax + Tax(line)
        /\ Net(line) \in Nat /\ Tax(line) \in Nat /\ s.subtotal \in Nat /\ s.tax \in Nat
        /\ Net(line) # 0
    BY <1>1, <1>2
  <2>6. z.total = z.subtotal + z.tax
    BY <2>4, <2>5
  <2>7. z.subtotal > 0
    BY <2>5
  <2> QED BY <2>1, <2>2, <2>3, <2>6, <2>7
<1>13. v.movements = t.movements \cup Drawn(n, L, i + 1)
  <2>1. 1..(i + 1) = (1..i) \cup {i + 1}
    BY <1>2
  <2>2. Drawn(n, L, i + 1) = Drawn(n, L, i) \cup
          {[source |-> n, line |-> i + 1, product |-> line.product, quantity |-> -line.quantity]}
    BY <2>1 DEF Drawn, line
  <2> QED BY <1>11, <2>2 DEF L, i, line
<1>14. ASSUME NEW p \in Product PROVE b.stock[p] >= First(Units(L, p), i + 1)
  <2>1. CASE line.product # p
    <3>1. First(Units(L, p), i + 1) = First(Units(L, p), i) + 0 /\ First(Units(L, p), i) \in Nat
      BY <1>10, <2>1
    <3> QED BY <1>11, <3>1
  <2>2. CASE line.product = p
    <3>1. Moved(u.movements, p) >= line.quantity
      BY <2>2 DEF L, i, line
    <3>2. /\ Drawn(n, L, i) \in SUBSET Movement /\ IsFiniteSet(Drawn(n, L, i))
          /\ \A row \in Drawn(n, L, i) : row.source = n
          /\ Moved(Drawn(n, L, i), p) = -First(Units(L, p), i)
      <4>1. i \in 0..Len(L)
        BY <1>1, <1>2
      <4> QED BY <1>1, <4>1, DrawnSum
    <3>3. t.movements \in SUBSET Movement /\ IsFiniteSet(t.movements)
            /\ t.movements \cap Drawn(n, L, i) = {}
      BY <3>2 DEF Typed, Without
    <3>4. /\ Moved(u.movements, p) = Moved(t.movements, p) + Moved(Drawn(n, L, i), p)
          /\ Moved(t.movements, p) \in Int
      <4> DEFINE D == Drawn(n, L, i)
                 M == t.movements
      <4>1. /\ M \in SUBSET Movement /\ D \in SUBSET Movement
            /\ IsFiniteSet(M) /\ IsFiniteSet(D) /\ M \cap D = {}
        BY <3>2, <3>3
      <4>2. u.movements = M \cup D
        BY <1>11
      <4> HIDE DEF D, M
      <4>3. Moved(M \cup D, p) = Moved(M, p) + Moved(D, p)
        BY <4>1, MovedJoined
      <4>4. Moved(M, p) \in Int
        BY <4>1, MovedJoined
      <4> QED BY <4>2, <4>3, <4>4 DEF D, M
    <3>5. First(Units(L, p), i + 1) = First(Units(L, p), i) + line.quantity
            /\ First(Units(L, p), i) \in Nat
      BY <1>10, <2>2
    <3>6. b.stock[p] = Moved(t.movements, p)
      BY DEF Stocked
    <3> QED BY <1>4, <3>1, <3>2, <3>4, <3>5, <3>6
  <2> QED BY <2>1, <2>2
<1>15. \A j \in 1..(i + 1) : z.lines[j] = L[j]
  <2>1. ASSUME NEW j \in 1..(i + 1) PROVE z.lines[j] = L[j]
    <3>1. j = i + 1 \/ j \in 1..i
      BY <1>2
    <3> QED BY <1>5, <1>11, <3>1 DEF line
  <2> QED BY <2>1
<1>16. i + 1 > 0 /\ i + 1 <= Len(L)
  BY <1>2
<1>17. Sums(n, o, t, b, v, z)
  <2>1. Len(z.lines) = i + 1
    BY <1>5
  <2> QED BY <1>9, <1>12, <1>13, <1>14, <1>15, <1>16, <2>1 DEF Sums, L
<1> QED BY <1>5, <1>8, <1>17 DEF z, i

-----------------------------------------------------------------------------
(* A completion that has all its lines *)

\* Sequences of one length with the same values.
LEMMA SameSequence ==
  ASSUME NEW S, NEW f \in Seq(S), NEW g \in Seq(S), Len(f) = Len(g),
         \A i \in 1..Len(f) : f[i] = g[i]
  PROVE  f = g
OBVIOUS

Screened(o, t) ==
  /\ t.customers[o.customer].active
  /\ o.credit => t.customers[o.customer].credit

AllEntries(o, s) ==
  LET e == s.entries IN
  /\ Sound(e)
  /\ \A a \in Accounts : Posting(e, a) = Ledger!SaleJournal(Exact(o))[a]

ChargeSums(o, s) ==
  [s EXCEPT !.entries =
     << Entry(IF o.credit THEN "receivable" ELSE "cash", s.total, 0) >>
     \o @ \o IF s.tax > 0 THEN << Entry("tax", 0, s.tax) >> ELSE << >>]

SaleRowOf(o, s) ==
  [type |-> "SALE", status |-> "POSTED", of |-> NoSale,
   customer |-> o.customer, credit |-> o.credit,
   lines |-> s.lines, subtotal |-> s.subtotal, tax |-> s.tax,
   total |-> s.total, cogs |-> s.cogs]

\* With all its lines, the sums are those of the order.
LEMMA SumsComplete ==
  ASSUME NEW o \in Order, Wanted(o), NEW n, NEW t, NEW b, NEW u, NEW s,
         Sums(n, o, t, b, u, s), Len(s.lines) = Len(o.lines)
  PROVE  /\ s.lines = o.lines /\ s.subtotal = Exact(o).net /\ s.tax = Exact(o).tax
         /\ s.cogs = Exact(o).cost /\ s.total = Exact(o).net + Exact(o).tax
         /\ s.total \in Amount /\ s.total > 0
         /\ u.movements = t.movements \cup Drawn(n, o.lines, Len(o.lines))
         /\ \A p \in Product : b.stock[p] >= Exact(o).demand[p]
         /\ SaleRowOf(o, s) \in SaleRow
         /\ Recorded(SaleRowOf(o, s)) = Exact(o) /\ Exact(SaleRowOf(o, s)) = Exact(o)
<1> DEFINE L == o.lines
           row == SaleRowOf(o, s)
<1>1. /\ s \in SumsType /\ L \in Seq(LineType) /\ L # << >> /\ Len(L) \in Nat \ {0}
      /\ s.lines \in Seq(LineType)
      /\ s.subtotal \in Amount /\ s.tax \in Amount /\ s.total \in Amount /\ s.cogs \in Amount
      /\ s.subtotal \in Nat /\ s.tax \in Nat
      /\ o.customer \in Customer /\ o.credit \in BOOLEAN
  <2>1. s \in SumsType /\ L \in Seq(LineType) /\ L # << >>
        /\ o.customer \in Customer /\ o.credit \in BOOLEAN
    BY OrderTyped DEF Sums
  <2>2. Len(L) \in Nat
    BY <2>1, LinesTyped
  <2>3. Len(L) # 0
    BY <2>1
  <2> QED BY <2>1, <2>2, <2>3, SumsFields
<1>2. /\ \A j \in 1..Len(L) : s.lines[j] = L[j]
      /\ s.subtotal = First(Nets(L), Len(L)) /\ s.tax = First(Taxes(L), Len(L))
      /\ s.cogs = First(Costs(L), Len(L)) /\ s.total = s.subtotal + s.tax
      /\ s.subtotal > 0
      /\ u.movements = t.movements \cup Drawn(n, L, Len(L))
      /\ \A p \in Product : b.stock[p] >= First(Units(L, p), Len(L))
  <2>1. Len(L) > 0
    BY <1>1
  <2> QED BY <2>1 DEF Sums
<1>3. s.lines = L
  <2>1. Len(s.lines) = Len(L) /\ \A j \in 1..Len(s.lines) : s.lines[j] = L[j]
    BY <1>2
  <2> HIDE DEF L
  <2> QED BY <1>1, <2>1, SameSequence
<1>4. ASSUME NEW f \in Seq(Nat), Len(f) = Len(L) PROVE SumFunction(f) = First(f, Len(L))
  BY <1>4, FirstAll
<1>5. /\ Exact(o).net = First(Nets(L), Len(L)) /\ Exact(o).tax = First(Taxes(L), Len(L))
      /\ Exact(o).cost = First(Costs(L), Len(L))
      /\ \A p \in Product : Exact(o).demand[p] = First(Units(L, p), Len(L))
  <2>1. /\ SumFunction(Nets(L)) = First(Nets(L), Len(L))
        /\ SumFunction(Taxes(L)) = First(Taxes(L), Len(L))
        /\ SumFunction(Costs(L)) = First(Costs(L), Len(L))
        /\ \A p : SumFunction(Units(L, p)) = First(Units(L, p), Len(L))
    BY <1>1, <1>4, LinesTyped
  <2> QED BY <2>1, ExactSums
<1>6. s.total > 0
  BY <1>1, <1>2
<1>7. Exact(o) = [customer |-> o.customer, credit |-> o.credit, demand |-> Demand(L),
                  net |-> s.subtotal, tax |-> s.tax, cost |-> s.cogs]
  <2>1. /\ SumFunction([i \in DOMAIN L |-> Net(L[i])]) = s.subtotal
        /\ SumFunction([i \in DOMAIN L |-> Tax(L[i])]) = s.tax
        /\ SumFunction([i \in DOMAIN L |-> Cost(L[i])]) = s.cogs
    BY <1>2, <1>5 DEF Exact
  <2> QED BY <2>1 DEF Exact
<1>8. /\ row.customer = o.customer /\ row.credit = o.credit /\ row.lines = L
      /\ row.subtotal = s.subtotal /\ row.tax = s.tax /\ row.cogs = s.cogs
  BY <1>3 DEF SaleRowOf
<1>9. row \in SaleRow
  BY <1>1 DEF SaleRowOf, SaleRow, LineType
<1> HIDE DEF row
<1>10. Recorded(row) = Exact(o)
  BY <1>7, <1>8 DEF Recorded
<1>11. Exact(row) = Exact(o)
  BY <1>8 DEF Exact
<1> QED BY <1>1, <1>2, <1>3, <1>5, <1>6, <1>9, <1>10, <1>11 DEF row, L

\* With the debit before and the output tax after them, the entries are those of
\* the whole sale.
LEMMA ChargedEntries ==
  ASSUME NEW o \in Order, Wanted(o), NEW n, NEW t, NEW b, NEW u, NEW s, NEW v,
         Sums(n, o, t, b, u, s), Len(s.lines) = Len(o.lines), LineEntries(s),
         v.movements = u.movements
  PROVE  LET z == ChargeSums(o, s) IN
         Sums(n, o, t, b, v, z) /\ Len(z.lines) = Len(o.lines) /\ AllEntries(o, z)
         /\ z.total = s.total
<1> DEFINE z == ChargeSums(o, s)
           debit == << Entry(IF o.credit THEN "receivable" ELSE "cash", s.total, 0) >>
           tax == IF s.tax > 0 THEN << Entry("tax", 0, s.tax) >> ELSE << >>
           e == z.entries
           c == Exact(o)
           x == debit \o s.entries
<1>1. /\ s \in SumsType /\ s.total \in Amount /\ s.tax \in Amount /\ s.total \in Nat
      /\ s.tax \in Nat /\ s.subtotal \in Nat /\ s.cogs \in Nat /\ s.cogs \in Amount
      /\ s.entries \in Seq(JournalEntry) /\ 0 \in Amount /\ MaxInt \in Nat
  <2>1. s \in SumsType
    BY DEF Sums
  <2> QED BY <2>1, SumsFields, MoneyAssumption DEF Amount
<1>2. /\ s.subtotal = c.net /\ s.tax = c.tax /\ s.cogs = c.cost /\ s.total = c.net + c.tax
      /\ s.total > 0 /\ s.lines = o.lines /\ c.credit = o.credit /\ o.credit \in BOOLEAN
      /\ o.lines # << >> /\ s.total = s.subtotal + s.tax
  BY SumsComplete, ExactSums, OrderTyped
<1>3. /\ z.lines = s.lines /\ z.subtotal = s.subtotal /\ z.tax = s.tax /\ z.total = s.total
      /\ z.cogs = s.cogs /\ z.currency = s.currency /\ e = debit \o s.entries \o tax
      /\ z = [f \in {"lines", "currency", "subtotal", "tax", "total", "cogs", "entries"} |-> z[f]]
  <2>1. DOMAIN s = {"lines", "currency", "subtotal", "tax", "total", "cogs", "entries"}
    BY <1>1 DEF SumsType
  <2>2. z = [s EXCEPT !.entries = debit \o @ \o tax]
    BY DEF ChargeSums
  <2> HIDE DEF z, debit, tax
  <2> QED BY <2>1, <2>2
<1>4. /\ debit \in Seq(JournalEntry) /\ Len(debit) = 1 /\ OneSided(debit)
      /\ SumFunction(Debits(debit)) = s.total /\ SumFunction(Credits(debit)) = 0
      /\ \A a : Posting(debit, a) =
           IF a = (IF o.credit THEN "receivable" ELSE "cash") THEN s.total - 0 ELSE 0
  <2> DEFINE account == IF o.credit THEN "receivable" ELSE "cash"
  <2>1. account \in Accounts /\ s.total # 0
    BY <1>1, <1>2 DEF Accounts
  <2> HIDE DEF account
  <2>2. /\ << Entry(account, s.total, 0) >> \in Seq(JournalEntry)
        /\ Len(<< Entry(account, s.total, 0) >>) = 1 /\ OneSided(<< Entry(account, s.total, 0) >>)
        /\ SumFunction(Debits(<< Entry(account, s.total, 0) >>)) = s.total
        /\ SumFunction(Credits(<< Entry(account, s.total, 0) >>)) = 0
        /\ \A a : Posting(<< Entry(account, s.total, 0) >>, a)
                    = IF a = account THEN s.total - 0 ELSE 0
    BY <1>1, <2>1, OneEntry
  <2> QED BY <2>2 DEF account
<1>5. /\ tax \in Seq(JournalEntry) /\ OneSided(tax) /\ Len(tax) \in Nat
      /\ SumFunction(Debits(tax)) = 0 /\ SumFunction(Credits(tax)) = s.tax
      /\ \A a : Posting(tax, a) = IF a = "tax" THEN -s.tax ELSE 0
  <2> DEFINE k == s.tax
  <2>1. k \in Amount /\ k \in Nat /\ 0 \in Amount
    BY <1>1
  <2>2. tax = IF k > 0 THEN << Entry("tax", 0, k) >> ELSE << >>
    OBVIOUS
  <2> HIDE DEF tax, k
  <2>3. CASE k = 0
    <3>1. tax = << >>
      BY <2>2, <2>3
    <3>2. tax \in Seq(JournalEntry) /\ OneSided(tax) /\ Len(tax) = 0
          /\ SumFunction(Debits(tax)) = 0 /\ SumFunction(Credits(tax)) = 0
          /\ \A a : Posting(tax, a) = 0
      BY <3>1, NoEntry
    <3>3. s.tax = 0 /\ -s.tax = 0
      BY <2>3, ZeroNegated DEF k
    <3> QED BY <3>2, <3>3
  <2>4. CASE k # 0
    <3>1. tax = << Entry("tax", 0, k) >> /\ "tax" \in Accounts
      BY <2>1, <2>2, <2>4 DEF Accounts
    <3>2. /\ tax \in Seq(JournalEntry) /\ OneSided(tax) /\ Len(tax) = 1
          /\ SumFunction(Debits(tax)) = 0 /\ SumFunction(Credits(tax)) = k
          /\ \A a : Posting(tax, a) = IF a = "tax" THEN 0 - k ELSE 0
      BY <2>1, <2>4, <3>1, OneEntry
    <3>3. 0 - k = -s.tax
      BY <2>1 DEF k
    <3> QED BY <3>2, <3>3 DEF k
  <2> QED BY <2>3, <2>4
<1>6. /\ OneSided(s.entries) /\ Len(s.entries) >= 1
      /\ SumFunction(Debits(s.entries)) = s.cogs
      /\ SumFunction(Credits(s.entries)) = s.subtotal + s.cogs
      /\ \A a \in Accounts : Posting(s.entries, a) =
           CASE a = "revenue" -> -s.subtotal
             [] a = "cogs" -> s.cogs
             [] a = "inventory" -> -s.cogs
             [] OTHER -> 0
  BY <1>2 DEF LineEntries
<1> HIDE DEF debit, tax, z, e, c
<1>7. /\ x \in Seq(JournalEntry) /\ OneSided(x) /\ Len(x) = 1 + Len(s.entries)
      /\ Len(s.entries) \in Nat
      /\ SumFunction(Debits(x)) = s.total + s.cogs
      /\ SumFunction(Credits(x)) = 0 + (s.subtotal + s.cogs)
      /\ \A a : Posting(x, a) = Posting(debit, a) + Posting(s.entries, a)
  <2>1. /\ x \in Seq(JournalEntry) /\ OneSided(x) /\ Len(x) = Len(debit) + Len(s.entries)
        /\ Len(s.entries) \in Nat
        /\ SumFunction(Debits(x)) = SumFunction(Debits(debit)) + SumFunction(Debits(s.entries))
        /\ SumFunction(Credits(x)) = SumFunction(Credits(debit)) + SumFunction(Credits(s.entries))
        /\ \A a : Posting(x, a) = Posting(debit, a) + Posting(s.entries, a)
    BY <1>1, <1>4, <1>6, EntriesConcat
  <2> HIDE DEF x
  <2> QED BY <1>4, <1>6, <2>1
<1> HIDE DEF x
<1>8. /\ e \in Seq(JournalEntry) /\ OneSided(e) /\ Len(e) = Len(x) + Len(tax)
      /\ SumFunction(Debits(e)) = (s.total + s.cogs) + 0
      /\ SumFunction(Credits(e)) = (0 + (s.subtotal + s.cogs)) + s.tax
      /\ \A a : Posting(e, a) = Posting(x, a) + Posting(tax, a)
  <2>1. /\ x \o tax \in Seq(JournalEntry) /\ OneSided(x \o tax)
        /\ Len(x \o tax) = Len(x) + Len(tax)
        /\ SumFunction(Debits(x \o tax)) = SumFunction(Debits(x)) + SumFunction(Debits(tax))
        /\ SumFunction(Credits(x \o tax)) = SumFunction(Credits(x)) + SumFunction(Credits(tax))
        /\ \A a : Posting(x \o tax, a) = Posting(x, a) + Posting(tax, a)
    BY <1>5, <1>7, EntriesConcat
  <2>2. e = x \o tax
    BY <1>3 DEF x
  <2> QED BY <1>5, <1>7, <2>1, <2>2
<1>9. Sound(e)
  <2>1. Len(e) >= 2
    BY <1>5, <1>6, <1>7, <1>8
  <2>2. /\ SumFunction(Debits(e)) = s.total + s.cogs
        /\ SumFunction(Credits(e)) = s.total + s.cogs
    BY <1>1, <1>2, <1>8
  <2>3. s.total + s.cogs \in 1..(2 * MaxInt)
    <3>1. s.total <= MaxInt /\ s.cogs <= MaxInt
      BY <1>1 DEF Amount
    <3> QED BY <1>1, <1>2, <3>1
  <2> QED BY <1>8, <2>1, <2>2, <2>3 DEF Sound
<1>10. ASSUME NEW a \in Accounts
       PROVE  Posting(e, a) = Ledger!SaleJournal(c)[a]
  <2>1. Posting(e, a) = (Posting(debit, a) + Posting(s.entries, a)) + Posting(tax, a)
    BY <1>7, <1>8
  <2>2. Ledger!SaleJournal(c)[a] =
          CASE a = "cash"       -> IF c.credit THEN 0 ELSE c.net + c.tax
            [] a = "receivable" -> IF c.credit THEN c.net + c.tax ELSE 0
            [] a = "revenue"    -> -c.net
            [] a = "tax"        -> -c.tax
            [] a = "cogs"       -> c.cost
            [] a = "inventory"  -> -c.cost
    BY DEF Ledger!SaleJournal, Ledger!Total, Ledger!Account, Accounts
  <2>3. CASE a = "cash"
    <3>1. Posting(debit, a) = (IF o.credit THEN 0 ELSE s.total - 0)
          /\ Posting(s.entries, a) = 0 /\ Posting(tax, a) = 0
      BY <1>2, <1>4, <1>5, <1>6, <2>3
    <3> QED BY <1>1, <1>2, <2>1, <2>2, <2>3, <3>1
  <2>4. CASE a = "receivable"
    <3>1. Posting(debit, a) = (IF o.credit THEN s.total - 0 ELSE 0)
          /\ Posting(s.entries, a) = 0 /\ Posting(tax, a) = 0
      BY <1>2, <1>4, <1>5, <1>6, <2>4
    <3> QED BY <1>1, <1>2, <2>1, <2>2, <2>4, <3>1
  <2>5. CASE a = "revenue"
    <3>1. Posting(debit, a) = 0 /\ Posting(s.entries, a) = -s.subtotal /\ Posting(tax, a) = 0
      BY <1>2, <1>4, <1>5, <1>6, <2>5
    <3> QED BY <1>1, <1>2, <2>1, <2>2, <2>5, <3>1
  <2>6. CASE a = "tax"
    <3>1. Posting(debit, a) = 0 /\ Posting(s.entries, a) = 0 /\ Posting(tax, a) = -s.tax
      BY <1>2, <1>4, <1>5, <1>6, <2>6
    <3> QED BY <1>1, <1>2, <2>1, <2>2, <2>6, <3>1
  <2>7. CASE a = "cogs"
    <3>1. Posting(debit, a) = 0 /\ Posting(s.entries, a) = s.cogs /\ Posting(tax, a) = 0
      BY <1>2, <1>4, <1>5, <1>6, <2>7
    <3> QED BY <1>1, <1>2, <2>1, <2>2, <2>7, <3>1
  <2>8. CASE a = "inventory"
    <3>1. Posting(debit, a) = 0 /\ Posting(s.entries, a) = -s.cogs /\ Posting(tax, a) = 0
      BY <1>2, <1>4, <1>5, <1>6, <2>8
    <3> QED BY <1>1, <1>2, <2>1, <2>2, <2>8, <3>1
  <2> QED BY <2>3, <2>4, <2>5, <2>6, <2>7, <2>8 DEF Accounts
<1>11. z \in SumsType
  BY <1>1, <1>3, <1>8 DEF SumsType, e
<1>12. Sums(n, o, t, b, v, z)
  BY <1>3, <1>11 DEF Sums
<1> QED BY <1>2, <1>3, <1>9, <1>10, <1>12 DEF AllEntries, z, e, c

-----------------------------------------------------------------------------
(* The serial service over the books shown, with its own theorems *)

Serial == INSTANCE SalesLedgerProofs WITH
  Command <- Commands, Payment <- {}, MinExposure <- 0,
  sales <- shown.sales, rows <- shown.rows, stock <- shown.stock,
  exposure <- shown.exposure, gl <- shown.gl, claims <- shown.claims,
  outbox <- state.outbox, account <- state.customers

\* What SalesLedger assumes of commands holds of the exact orders.
LEMMA CommandTyped ==
  ASSUME NEW c \in Commands
  PROVE  /\ DOMAIN c = {"customer", "credit", "demand", "net", "tax", "cost"}
         /\ c.customer \in Customer /\ c.credit \in BOOLEAN
         /\ c.demand \in [Product -> Nat]
         /\ \E p \in Product : c.demand[p] > 0
         /\ c.net \in Nat \ {0} /\ c.tax \in Nat /\ c.cost \in Nat
<1>1. PICK o \in Order : Wanted(o) /\ c = Exact(o)
  BY DEF Commands
<1>2. /\ o.customer \in Customer /\ o.credit \in BOOLEAN
      /\ o.lines \in Seq(LineType) /\ o.lines # << >>
  BY <1>1, OrderTyped
<1>3. /\ Exact(o).net \in Nat \ {0} /\ Exact(o).tax \in Nat /\ Exact(o).cost \in Nat
      /\ Exact(o).demand \in [Product -> Nat]
      /\ \E p \in Product : Exact(o).demand[p] > 0
  BY <1>2, ExactTyped
<1>4. /\ DOMAIN Exact(o) = {"customer", "credit", "demand", "net", "tax", "cost"}
      /\ Exact(o).customer = o.customer /\ Exact(o).credit = o.credit
  BY DEF Exact
<1> QED BY <1>1, <1>2, <1>3, <1>4

\* What SalesLedger assumes of its constants holds here.
LEMMA SerialAssumptions ==
  /\ Serial!CommandAssumption /\ Serial!TermsAssumption /\ Serial!CustomerAssumption
  /\ Serial!BoundsAssumption /\ Serial!NoSaleAssumption /\ Serial!EnvironmentAssumption
<1>1. Serial!CommandAssumption
  BY CommandTyped DEF Serial!CommandAssumption
<1>2. Serial!TermsAssumption
  BY SeedAssumption DEF Serial!TermsAssumption
<1>3. Serial!CustomerAssumption /\ Serial!BoundsAssumption /\ Serial!EnvironmentAssumption
  <2>1. IsFiniteSet(Customer) /\ Receipt \subseteq Nat /\ MaxStock \in Nat
    BY SeedAssumption
  <2>2. Serial!CustomerAssumption
    BY <2>1 DEF Serial!CustomerAssumption, Serial!IsFiniteSet, IsFiniteSet
  <2>3. Serial!BoundsAssumption
    BY <2>1 DEF Serial!BoundsAssumption
  <2>4. Serial!EnvironmentAssumption
    BY <2>1 DEF Serial!EnvironmentAssumption
  <2> QED BY <2>2, <2>3, <2>4
<1>4. Serial!NoSaleAssumption
  <2>1. NoSale \notin Request /\ NoSale \notin Serial!Record
    BY NoSaleAssumption DEF Serial!Record, Ledger!Record
  <2>2. NoSale \notin Serial!Claim
    <3>1. SUFFICES ASSUME NoSale \in Serial!Claim PROVE FALSE
      OBVIOUS
    <3>2. /\ NoSale = [request |-> NoSale.request, result |-> NoSale.result]
          /\ NoSale.request \in Commands \cup SaleId /\ NoSale.result \in SaleId
      BY <3>1 DEF Serial!Claim
    <3>3. CASE NoSale.request \in Commands
      BY <3>2, <3>3, NoSaleAssumption
    <3>4. CASE NoSale.request \in SaleId
      <4>1. NoSale \in KeyRow
        BY <3>2, <3>4 DEF KeyRow
      <4> QED BY <4>1, NoSaleAssumption
    <3> QED BY <3>2, <3>3, <3>4
  <2> QED BY <2>1, <2>2 DEF Serial!NoSaleAssumption, SaleId
<1> QED BY <1>1, <1>2, <1>3, <1>4

\* The inductive invariant of SalesLedgerProofs, over the books shown.
LEMMA SerialNext == Serial!IInv /\ [Serial!Next]_Serial!books => Serial!IInv'
BY SerialAssumptions, Serial!NextInv

\* And at the start.
LEMMA SerialInit == Serial!InitBooks => Serial!IInv
BY SerialAssumptions, Serial!InitInv

\* Serial and Ledger are the same specification.
LEMMA SerialIsLedger == Serial!Spec => Ledger!Spec
BY DEF Serial!Spec, Serial!InitBooks, Serial!Next, Serial!Complete, Serial!Reverse,
  Serial!Environment, Serial!Receive, Serial!Settle, Serial!EditAccount,
  Serial!PostSale, Serial!PostReversal, Serial!AppendRows, Serial!RecordEvents,
  Serial!CompleteIdempotency, Serial!SaleRecord, Serial!ReversalRecord,
  Serial!SaleRows, Serial!ReversalRows, Serial!SaleJournal, Serial!Total,
  Serial!Account, Serial!Unclaimed, Serial!Eligible, Serial!InStock,
  Serial!WithinLimit, Serial!Fresh, Serial!Reversible, Serial!books,
  Serial!NoRows, Serial!Slot, Serial!Op,
  Ledger!Spec, Ledger!InitBooks, Ledger!Next, Ledger!Complete, Ledger!Reverse,
  Ledger!Environment, Ledger!Receive, Ledger!Settle, Ledger!EditAccount,
  Ledger!PostSale, Ledger!PostReversal, Ledger!AppendRows, Ledger!RecordEvents,
  Ledger!CompleteIdempotency, Ledger!SaleRecord, Ledger!ReversalRecord,
  Ledger!SaleRows, Ledger!ReversalRows, Ledger!SaleJournal, Ledger!Total,
  Ledger!Account, Ledger!Unclaimed, Ledger!Eligible, Ledger!InStock,
  Ledger!WithinLimit, Ledger!Fresh, Ledger!Reversible, Ledger!books,
  Ledger!NoRows, Ledger!Slot, Ledger!Op

-----------------------------------------------------------------------------
(* The invariant: where requests stand *)

Places == {"unsent", "arrived", "locking", "claim", "read", "screen", "line", "charge",
           "post", "original", "undo", "unpost", "end", "answered"}
Held == Places \ {"unsent", "arrived", "locking", "answered"}
Selling == {"screen", "line", "charge", "post"}
Undoing == {"original", "undo", "unpost"}

Refusals ==
  {"not_found", "forbidden", "idempotency_conflict", "insufficient_stock", "period_closed",
   "already_reversed", "customer_inactive", "credit_disabled", "credit_limit",
   "product_inactive", "invalid_command"}
Errors == Refusals \cup {"none", "cancelled", "no identifier", "overflow"}

RequestType ==
  [at : Places, op : Op, key : Key \cup {NoSale}, arg : Order \cup SaleId \cup {NoSale},
   cancelled : BOOLEAN, result : SaleId \cup {NoSale}, err : Errors]

Formed(r) ==
  /\ r.at = "unsent" => r = Unsent
  /\ r.op = "complete" => r.key \in Key /\ r.arg \in Order
  /\ r.op = "reverse" => r.key \in Key /\ r.arg \in SaleId
  /\ r.op = "read" /\ r.at # "unsent" => r.arg \in SaleId
  /\ r.op = "complete" /\ r.at \in Held \cup {"locking"} => Wanted(r.arg)
  /\ r.at = "read" => r.op = "read"
  /\ r.at = "claim" => r.op # "read"
  /\ r.at \in Selling => r.op = "complete"
  /\ r.at \in Undoing => r.op = "reverse"
  /\ r.at # "answered" => r.err = "none"

ControlInv ==
  /\ req \in [Request -> RequestType] /\ mu \in Request \cup {0}
  /\ \A n \in Request : Formed(req[n]) /\ (req[n].at \in Held <=> mu = n)
  /\ mu = 0 => next = NoSale /\ sale = NoSums
  /\ mu # 0 => next \in Tables
  /\ faults \in 0..MaxFaults

-----------------------------------------------------------------------------
(* What the tables always are *)

Content(t, s) ==
  LET row == t.sales[s] IN
  /\ row.lines # << >> /\ Recorded(row) = Exact(row)
  /\ row.total = row.subtotal + row.tax
  /\ \A owed \in t.ledger : owed.source = s => owed.customer = row.customer

Nothing(t, s) == Without(t, s) /\ \A e \in t.outbox : e.sale # s

Tidy(t) ==
  /\ \A x \in KeySlot : t.idempotencies[x] # NoSale =>
       /\ t.idempotencies[x].result \in SaleId
       /\ t.sales[t.idempotencies[x].result] # NoSale
  /\ \A s \in SaleId : IF t.sales[s] = NoSale THEN Nothing(t, s) ELSE Content(t, s)
  /\ \A j, k \in t.journals : j.source = k.source => j = k
  /\ \A j \in t.journals : Sound(j.entries)

Standing(b, s, c) ==
  /\ b.sales[s] # NoSale
  /\ b.sales[s].type = "SALE" /\ b.sales[s].status = "POSTED"
  /\ b.sales[s].command.customer = c /\ b.sales[s].command.credit
Bill(b, s, c) ==
  IF Standing(b, s, c) THEN b.sales[s].command.net + b.sales[s].command.tax ELSE 0
Bills(b, c) == [s \in SaleId |-> Bill(b, s, c)]

\* What a customer owes is the credit sales that stand: never less than
\* nothing, and never more than some limit the customer may have been given.
ExposureInv(b) ==
  \A c \in Customer :
    /\ b.exposure[c] = SumFunction(Bills(b, c))
    /\ b.exposure[c] = 0 \/ \E t \in Terms : b.exposure[c] <= t.limit

StoreInv ==
  /\ state \in Tables /\ Finite(state) /\ shown = Books(state)
  /\ Tidy(state) /\ ExposureInv(shown) /\ Serial!IInv

-----------------------------------------------------------------------------
(* What an answer says *)

Excused(r) ==
  \/ r.err \in Refusals
  \/ r.err = "cancelled" /\ r.cancelled
  \/ r.err = "no identifier"
  \/ r.err = "overflow" /\ TooLarge(r.arg)

Key1(r, result) == [request |-> r.arg, result |-> result]

Answer(r, t) ==
  /\ r.result \in SaleId /\ t.sales[r.result] # NoSale
  /\ r.op # "read" => t.idempotencies[<<r.op, r.key>>] = Key1(r, r.result)

Done(r) == r.at = "answered" /\ r.err = "none"
AnswerInv(n, r, t) ==
  /\ Done(r) => Answer(r, t)
  /\ t.sales[n] # NoSale => Done(r) /\ r.op # "read" /\ r.result = n
  /\ r.err # "none" => Excused(r)

-----------------------------------------------------------------------------
(* What a transaction has done to its clone *)

SameRows(t, u) ==
  u.movements = t.movements /\ u.ledger = t.ledger /\ u.payments = t.payments
SamePosts(t, u) ==
  u.sales = t.sales /\ u.journals = t.journals /\ u.outbox = t.outbox

Keyed(r, t, u, result) ==
  /\ t.idempotencies[<<r.op, r.key>>] = NoSale
  /\ u.idempotencies = [t.idempotencies EXCEPT ![<<r.op, r.key>>] = Key1(r, result)]

Charged(n, o, t, b, u, s) ==
  /\ Screened(o, t) /\ Sums(n, o, t, b, u, s) /\ Len(s.lines) = Len(o.lines)
  /\ AllEntries(o, s)
  /\ o.credit => /\ b.exposure[o.customer] >= 0
                 /\ b.exposure[o.customer] + s.total <= t.customers[o.customer].limit
  /\ u.ledger = t.ledger \cup Debt(n, o, s.total)
  /\ u.payments = t.payments \cup Payments(n, o, s.total)

Found(x, t) ==
  /\ t.sales[x] # NoSale
  /\ t.sales[x].type = "SALE" /\ t.sales[x].status # "REVERSED"

Undone(n, x, t, u) ==
  /\ \E j \in t.journals : j.source = x
  /\ u.movements = t.movements \cup TurnedMoves(n, {row \in t.movements : row.source = x})
  /\ u.ledger = t.ledger \cup TurnedDebts(n, {row \in t.ledger : row.source = x})
  /\ u.payments = t.payments \cup TurnedPayments(n, {row \in t.payments : row.sale = x})

SoldEnd(n, r, t, b, u, s) ==
  /\ r.op = "complete" /\ Charged(n, r.arg, t, b, u, s)
  /\ u.sales = [t.sales EXCEPT ![n] = SaleRowOf(r.arg, s)]
  /\ u.journals = t.journals \cup {[source |-> n, entries |-> s.entries]}
  /\ u.outbox = t.outbox \cup {[type |-> "sale.posted", sale |-> n, cause |-> r.key]}

ReversalRowOf(x, t) ==
  [t.sales[x] EXCEPT !.type = "REVERSAL", !.status = "POSTED", !.of = x]

ReversedEnd(n, r, t, u) ==
  LET x == r.arg IN
  /\ r.op = "reverse" /\ Found(x, t) /\ Undone(n, x, t, u)
  /\ u.sales = [t.sales EXCEPT ![n] = ReversalRowOf(x, t), ![x].status = "REVERSED"]
  /\ \E j \in t.journals : j.source = x /\
       u.journals = t.journals \cup {[source |-> n, entries |-> Reversed(j.entries)]}
  /\ u.outbox = t.outbox \cup {[type |-> "sale.reversed", sale |-> n, cause |-> x]}

TxEnd(n, r, t, b, u, s) ==
  \/ u = t /\ Answer(r, t)
  \/ /\ r.result = n /\ Keyed(r, t, u, n)
     /\ SoldEnd(n, r, t, b, u, s) \/ ReversedEnd(n, r, t, u)

TxLines(n, o, t, b, u, s) ==
  /\ Screened(o, t) /\ Sums(n, o, t, b, u, s) /\ LineEntries(s)
  /\ u.ledger = t.ledger /\ u.payments = t.payments

Tx(n, r, t, b, u, s) ==
  /\ Finite(u) /\ u.customers = t.customers /\ u.open = t.open
  /\ r.at \in {"claim", "read"} => u = t /\ s = NoSums
  /\ r.at \in Selling \cup Undoing => SamePosts(t, u) /\ Keyed(r, t, u, NoSale)
  /\ r.at \in {"screen", "original", "undo"} => SameRows(t, u) /\ s = NoSums
  /\ r.at \in {"line", "charge"} => TxLines(n, r.arg, t, b, u, s)
  /\ r.at = "line" => Len(s.lines) < Len(r.arg.lines)
  /\ r.at = "charge" => Len(s.lines) = Len(r.arg.lines)
  /\ r.at = "post" => Charged(n, r.arg, t, b, u, s)
  /\ r.at \in {"undo", "unpost"} => Found(r.arg, t)
  /\ r.at = "unpost" => Undone(n, r.arg, t, u)
  /\ r.at = "end" => TxEnd(n, r, t, b, u, s)

MemInv ==
  /\ ControlInv /\ StoreInv
  /\ \A n \in Request : AnswerInv(n, req[n], state)
  /\ mu # 0 => Tx(mu, req[mu], state, shown, next, sale)

-----------------------------------------------------------------------------
(* Early returns, and the steps of one request among the others *)

\* The error of a list of tests is that of one that fails.
LEMMA FirstErrorOf ==
  ASSUME NEW k \in Nat, NEW tests, DOMAIN tests = 1..k
  PROVE  \/ FirstError(tests) = "none" /\ \A i \in 1..k : ~tests[i][1]
         \/ \E i \in 1..k : tests[i][1] /\ FirstError(tests) = tests[i][2]
<1> DEFINE failed == {i \in DOMAIN tests : tests[i][1]}
<1>1. CASE failed = {}
  BY <1>1 DEF FirstError
<1>2. CASE failed # {}
  <2>1. failed \in SUBSET Nat
    OBVIOUS
  <2>2. PICK j \in failed : \A i \in failed : ~(<<i, j>> \in OpToRel(<, Nat))
    <3> HIDE DEF failed
    <3> QED BY <1>2, <2>1, NatLessThanWellFounded, WFMin
  <2>3. j \in failed /\ \A i \in failed : j <= i
    <3>1. ASSUME NEW i \in failed PROVE j <= i
      <4>1. i \in Nat /\ j \in Nat
        BY <2>1
      <4>2. ~(i < j)
        BY <2>2, <4>1 DEF OpToRel
      <4> QED BY <4>1, <4>2
    <3> QED BY <3>1
  <2>4. Min(failed) \in failed
    BY <2>3 DEF Min
  <2>5. FirstError(tests) = tests[Min(failed)][2]
    BY <1>2 DEF FirstError
  <2> QED BY <2>4, <2>5
<1> QED BY <1>1, <1>2

\* A request, field by field.
LEMMA RequestFields ==
  ASSUME NEW r \in RequestType
  PROVE  /\ r.at \in Places /\ r.op \in Op /\ r.key \in Key \cup {NoSale}
         /\ r.arg \in Order \cup SaleId \cup {NoSale} /\ r.cancelled \in BOOLEAN
         /\ r.result \in SaleId \cup {NoSale} /\ r.err \in Errors
         /\ r = [x \in {"at", "op", "key", "arg", "cancelled", "result", "err"} |-> r[x]]
BY DEF RequestType

\* A request that stands elsewhere is the same request.
LEMMA RequestMoved ==
  ASSUME NEW r \in RequestType, NEW place \in Places
  PROVE  LET q == [r EXCEPT !.at = place] IN
         /\ q \in RequestType /\ q.at = place /\ q.op = r.op /\ q.key = r.key
         /\ q.arg = r.arg /\ q.cancelled = r.cancelled /\ q.result = r.result
         /\ q.err = r.err
BY DEF RequestType

\* A request whose callback returned a result.
LEMMA RequestEnds ==
  ASSUME NEW r \in RequestType, NEW result \in SaleId
  PROVE  LET q == [r EXCEPT !.at = "end", !.result = result] IN
         /\ q \in RequestType /\ q.at = "end" /\ q.op = r.op /\ q.key = r.key
         /\ q.arg = r.arg /\ q.cancelled = r.cancelled /\ q.result = result
         /\ q.err = r.err
BY DEF RequestType, Places

\* A request that was refused.
LEMMA RequestRefused ==
  ASSUME NEW r \in RequestType, NEW err \in Errors
  PROVE  LET q == [r EXCEPT !.at = "answered", !.err = err, !.result = NoSale] IN
         /\ q \in RequestType /\ q.at = "answered" /\ q.op = r.op /\ q.key = r.key
         /\ q.arg = r.arg /\ q.cancelled = r.cancelled /\ q.result = NoSale
         /\ q.err = err
BY DEF RequestType, Places

\* StoreInv is about the tables and the books alone.
LEMMA StoreKept == StoreInv /\ UNCHANGED <<state, shown>> => StoreInv'
<1> SUFFICES ASSUME StoreInv, UNCHANGED <<state, shown>> PROVE StoreInv'
  OBVIOUS
<1>1. Serial!books' = Serial!books
  BY DEF Serial!books
<1>2. Serial!IInv'
  BY <1>1, SerialNext DEF StoreInv
<1>3. ExposureInv(shown)'
  BY DEF StoreInv, ExposureInv, Bills, Bill, Standing
<1>4. Tidy(state)'
  BY DEF StoreInv, Tidy, Nothing, Content, Without
<1>5. state' \in Tables /\ Finite(state)' /\ (shown = Books(state))'
  BY DEF StoreInv, Finite
<1> QED BY <1>2, <1>3, <1>4, <1>5 DEF StoreInv

\* The holder of the mutex goes on to another place.
LEMMA HolderWorks ==
  ASSUME MemInv, NEW n \in Request, req[n].at \in Held,
         NEW q \in RequestType, Formed(q), q.at \in Held, req' = [req EXCEPT ![n] = q],
         UNCHANGED <<state, shown, mu>>, faults' \in 0..MaxFaults, next' \in Tables,
         Tx(n, q, state, shown, next', sale')
  PROVE  MemInv'
<1>1. mu = n /\ mu' = n /\ req \in [Request -> RequestType] /\ n # 0
  BY DEF MemInv, ControlInv, Request
<1>2. /\ req' \in [Request -> RequestType] /\ req'[n] = q
      /\ \A m \in Request : m # n => req'[m] = req[m]
  BY <1>1
<1>3. ControlInv'
  <2>1. \A m \in Request : Formed(req'[m]) /\ (req'[m].at \in Held <=> mu' = m)
    BY <1>1, <1>2 DEF MemInv, ControlInv
  <2>2. mu' \in Request \cup {0}
    BY DEF MemInv, ControlInv
  <2> QED BY <1>1, <1>2, <2>1, <2>2 DEF ControlInv
<1>4. StoreInv'
  BY StoreKept DEF MemInv
<1>5. ASSUME NEW m \in Request PROVE AnswerInv(m, req'[m], state')
  <2>1. AnswerInv(m, req[m], state)
    BY DEF MemInv
  <2>2. CASE m # n
    BY <1>2, <2>1, <2>2
  <2>3. CASE m = n
    <3>1. q.at # "answered" /\ req[n].at # "answered" /\ q.err = "none"
      BY DEF Held, Formed
    <3>2. state.sales[n] = NoSale
      BY <2>1, <2>3, <3>1 DEF AnswerInv, Done
    <3> QED BY <1>2, <2>3, <3>1, <3>2 DEF AnswerInv, Done
  <2> QED BY <2>2, <2>3
<1>6. Tx(mu', req'[mu'], state', shown', next', sale')
  BY <1>1, <1>2
<1> QED BY <1>3, <1>4, <1>5, <1>6 DEF MemInv

\* Why a request may be refused.
Reason(r, err) ==
  \/ err \in Refusals
  \/ err = "cancelled" /\ r.cancelled
  \/ err = "no identifier"
  \/ err = "overflow" /\ TooLarge(r.arg)

\* A refused request is well formed, and its answer true: it has posted nothing.
LEMMA Refused ==
  ASSUME MemInv, NEW n \in Request, NEW err, Reason(req[n], err), Refuse(n, err),
         req[n].at # "unsent", req[n].at # "answered", state' = state
  PROVE  \E q \in RequestType :
           /\ req' = [req EXCEPT ![n] = q] /\ Formed(q) /\ q.at = "answered"
           /\ AnswerInv(n, q, state)
<1> DEFINE q == [req[n] EXCEPT !.at = "answered", !.err = err, !.result = NoSale]
<1>1. err \in Errors /\ err # "none"
  <2>1. \A e \in Refusals : e # "none"
    BY DEF Refusals
  <2> QED BY <2>1 DEF Reason, Errors
<1>2. req[n] \in RequestType /\ Formed(req[n])
  BY DEF MemInv, ControlInv
<1>3. req' = [req EXCEPT ![n] = q]
  BY DEF Refuse
<1>4. /\ q \in RequestType /\ q.at = "answered" /\ q.op = req[n].op /\ q.key = req[n].key
      /\ q.arg = req[n].arg /\ q.cancelled = req[n].cancelled /\ q.result = NoSale
      /\ q.err = err
  BY <1>1, <1>2, RequestRefused
<1> HIDE DEF q
<1>5. Formed(q)
  BY <1>2, <1>4 DEF Formed, Held, Selling, Undoing
<1>6. AnswerInv(n, q, state)
  <2>1. AnswerInv(n, req[n], state)
    BY DEF MemInv
  <2>2. ~Done(q) /\ state.sales[n] = NoSale
    BY <1>1, <1>4, <2>1 DEF AnswerInv, Done
  <2>3. Excused(q)
    BY <1>4 DEF Reason, Excused
  <2> QED BY <2>2, <2>3 DEF AnswerInv
<1> QED BY <1>3, <1>4, <1>5, <1>6

\* The holder fails: its clone is dropped.
LEMMA HolderFails ==
  ASSUME MemInv, NEW n \in Request, req[n].at \in Held,
         NEW err, Reason(req[n], err), Refuse(n, err),
         UNCHANGED <<state, shown>>, mu' = 0, next' = NoSale, sale' = NoSums,
         faults' \in 0..MaxFaults
  PROVE  MemInv'
<1>1. mu = n /\ req \in [Request -> RequestType]
  BY DEF MemInv, ControlInv
<1>2. PICK q \in RequestType :
        /\ req' = [req EXCEPT ![n] = q] /\ Formed(q) /\ q.at = "answered"
        /\ AnswerInv(n, q, state)
  <2>1. req[n].at # "unsent" /\ req[n].at # "answered"
    BY DEF Held
  <2> QED BY <2>1, Refused
<1>3. /\ req' \in [Request -> RequestType] /\ req'[n] = q
      /\ \A m \in Request : m # n => req'[m] = req[m]
  BY <1>1, <1>2
<1>4. ControlInv'
  <2>1. ASSUME NEW m \in Request PROVE Formed(req'[m]) /\ (req'[m].at \in Held <=> mu' = m)
    <3>1. m # 0 /\ Formed(req[m]) /\ (req[m].at \in Held <=> mu = m)
      BY DEF MemInv, ControlInv, Request
    <3>2. CASE m = n
      BY <1>2, <1>3, <3>1, <3>2 DEF Held
    <3>3. CASE m # n
      BY <1>1, <1>3, <3>1, <3>3
    <3> QED BY <3>2, <3>3
  <2> QED BY <1>3, <2>1 DEF ControlInv
<1>5. StoreInv'
  BY StoreKept DEF MemInv
<1>6. \A m \in Request : AnswerInv(m, req'[m], state')
  BY <1>2, <1>3 DEF MemInv
<1> QED BY <1>4, <1>5, <1>6 DEF MemInv

\* A request that does not hold the mutex goes its way.
LEMMA Bystander ==
  ASSUME MemInv, NEW n \in Request, req[n].at \notin Held,
         NEW q \in RequestType, Formed(q), q.at \notin Held, AnswerInv(n, q, state),
         req' = [req EXCEPT ![n] = q],
         UNCHANGED <<state, shown, next, mu, sale>>, faults' \in 0..MaxFaults
  PROVE  MemInv'
<1>1. mu # n /\ req \in [Request -> RequestType]
  BY DEF MemInv, ControlInv
<1>2. /\ req' \in [Request -> RequestType] /\ req'[n] = q
      /\ \A m \in Request : m # n => req'[m] = req[m]
  BY <1>1
<1>3. ControlInv'
  <2>1. \A m \in Request : Formed(req'[m]) /\ (req'[m].at \in Held <=> mu' = m)
    BY <1>1, <1>2 DEF MemInv, ControlInv
  <2>2. /\ mu' \in Request \cup {0} /\ (mu' = 0 => next' = NoSale /\ sale' = NoSums)
        /\ (mu' # 0 => next' \in Tables)
    BY DEF MemInv, ControlInv
  <2> QED BY <1>2, <2>1, <2>2 DEF ControlInv
<1>4. StoreInv'
  BY StoreKept DEF MemInv
<1>5. \A m \in Request : AnswerInv(m, req'[m], state')
  BY <1>2 DEF MemInv
<1>6. mu' # 0 => Tx(mu', req'[mu'], state', shown', next', sale')
  <2>1. mu # 0 => mu \in Request /\ req'[mu] = req[mu]
    BY <1>1, <1>2 DEF MemInv, ControlInv
  <2> QED BY <2>1 DEF MemInv
<1> QED BY <1>3, <1>4, <1>5, <1>6 DEF MemInv

\* Only the place, the operation and the result of a request matter to its transaction.
LEMMA TxOfSame ==
  ASSUME NEW n, NEW r, NEW q, NEW t, NEW b, NEW u, NEW s, Tx(n, r, t, b, u, s),
         q.at = r.at, q.op = r.op, q.key = r.key, q.arg = r.arg, q.result = r.result
  PROVE  Tx(n, q, t, b, u, s)
<1>1. \A result : Keyed(r, t, u, result) => Keyed(q, t, u, result)
  BY DEF Keyed, Key1
<1>2. TxEnd(n, r, t, b, u, s) => TxEnd(n, q, t, b, u, s)
  <2>1. Answer(r, t) => Answer(q, t)
    BY DEF Answer, Key1
  <2>2. SoldEnd(n, r, t, b, u, s) => SoldEnd(n, q, t, b, u, s)
    BY DEF SoldEnd
  <2>3. ReversedEnd(n, r, t, u) => ReversedEnd(n, q, t, u)
    BY DEF ReversedEnd
  <2> QED BY <1>1, <2>1, <2>2, <2>3 DEF TxEnd
<1> QED BY <1>1, <1>2 DEF Tx

\* A request is sent.
LEMMA SendStep ==
  ASSUME MemInv, NEW n \in Request, NEW op \in Op, NEW key, NEW arg,
         op \in {"complete", "reverse"} => key \in Key,
         op = "complete" => arg \in Order, op # "complete" => arg \in SaleId,
         op = "read" => key = NoSale, Send(n, op, key, arg)
  PROVE  MemInv'
<1> DEFINE q == [Unsent EXCEPT !.at = "arrived", !.op = op, !.key = key, !.arg = arg]
<1>1. /\ q.at = "arrived" /\ q.op = op /\ q.key = key /\ q.arg = arg /\ q.cancelled = FALSE
      /\ q.result = NoSale /\ q.err = "none"
      /\ q = [x \in {"at", "op", "key", "arg", "cancelled", "result", "err"} |-> q[x]]
  BY DEF Unsent
<1>2. key \in Key \cup {NoSale} /\ arg \in Order \cup SaleId
  BY DEF Op
<1>3. req' = [req EXCEPT ![n] = q] /\ req[n].at = "unsent"
  BY DEF Send, At
<1> HIDE DEF q
<1>4. q \in RequestType
  <2>1. /\ q.at \in Places /\ q.op \in Op /\ q.key \in Key \cup {NoSale}
        /\ q.arg \in Order \cup SaleId \cup {NoSale} /\ q.cancelled \in BOOLEAN
        /\ q.result \in SaleId \cup {NoSale} /\ q.err \in Errors
    BY <1>1, <1>2 DEF Places, Errors
  <2> QED BY <1>1, <2>1 DEF RequestType
<1>5. Formed(q) /\ q.at \notin Held
  BY <1>1 DEF Formed, Held, Selling, Undoing
<1>6. AnswerInv(n, q, state)
  <2>1. AnswerInv(n, req[n], state)
    BY DEF MemInv
  <2> QED BY <1>1, <1>3, <2>1 DEF AnswerInv, Done
<1>7. req[n].at \notin Held
  BY <1>3 DEF Held
<1>8. faults' \in 0..MaxFaults /\ UNCHANGED <<state, shown, next, mu, sale>>
  BY DEF Send, MemInv, ControlInv
<1> QED BY <1>3, <1>4, <1>5, <1>6, <1>7, <1>8, Bystander

\* Validate and the first look at the context.
LEMMA ArriveStep ==
  ASSUME MemInv, NEW n \in Request, Arrive(n)
  PROVE  MemInv'
<1>1. /\ req[n].at = "arrived" /\ req[n].at \notin Held /\ req[n] \in RequestType
      /\ Formed(req[n]) /\ faults' \in 0..MaxFaults
      /\ UNCHANGED <<state, shown, next, mu, sale>>
  BY DEF Arrive, At, MemInv, ControlInv, Held
<1>2. CASE \E err : Reason(req[n], err) /\ Refuse(n, err)
  <2>1. PICK err : Reason(req[n], err) /\ Refuse(n, err)
    BY <1>2
  <2>2. PICK q \in RequestType :
          /\ req' = [req EXCEPT ![n] = q] /\ Formed(q) /\ q.at = "answered"
          /\ AnswerInv(n, q, state)
    BY <1>1, <2>1, Refused
  <2>3. q.at \notin Held
    BY <2>2 DEF Held
  <2> QED BY <1>1, <2>2, <2>3, Bystander
<1>3. CASE Valid(n) /\ req' = [req EXCEPT ![n].at = "locking"]
  <2> DEFINE q == [req[n] EXCEPT !.at = "locking"]
  <2>1. req' = [req EXCEPT ![n] = q]
    BY <1>3
  <2>2. /\ q \in RequestType /\ q.at = "locking" /\ q.op = req[n].op /\ q.key = req[n].key
        /\ q.arg = req[n].arg /\ q.result = req[n].result /\ q.err = req[n].err
    <3>1. "locking" \in Places
      BY DEF Places
    <3> QED BY <1>1, <3>1, RequestMoved
  <2> HIDE DEF q
  <2>3. Formed(q) /\ q.at \notin Held
    BY <1>1, <1>3, <2>2 DEF Formed, Valid, Held, Selling, Undoing
  <2>4. AnswerInv(n, q, state)
    <3>1. AnswerInv(n, req[n], state)
      BY DEF MemInv
    <3>2. req[n].err = "none"
      BY <1>1 DEF Formed
    <3> QED BY <1>1, <2>2, <3>1, <3>2 DEF AnswerInv, Done
  <2> QED BY <1>1, <2>1, <2>2, <2>3, <2>4, Bystander
<1> QED
  <2>1. Reason(req[n], "invalid_command")
    BY DEF Reason, Refusals
  <2>2. req[n].cancelled => Reason(req[n], "cancelled")
    BY DEF Reason
  <2> QED BY <1>2, <1>3, <2>1, <2>2 DEF Arrive

\* The context of a request is cancelled.
LEMMA CancelStep ==
  ASSUME MemInv, NEW n \in Request, Cancel(n)
  PROVE  MemInv'
<1> DEFINE q == [req[n] EXCEPT !.cancelled = TRUE]
<1>1. /\ req[n] \in RequestType /\ Formed(req[n]) /\ AnswerInv(n, req[n], state)
      /\ req[n].at # "unsent" /\ req[n].at # "answered"
      /\ UNCHANGED <<state, shown, next, mu, sale>>
  BY DEF Cancel, At, MemInv, ControlInv
<1>2. faults' \in 0..MaxFaults
  BY SeedAssumption DEF Cancel, MemInv, ControlInv
<1>3. req' = [req EXCEPT ![n] = q]
  BY DEF Cancel
<1>4. /\ q \in RequestType /\ q.at = req[n].at /\ q.op = req[n].op /\ q.key = req[n].key
      /\ q.arg = req[n].arg /\ q.result = req[n].result /\ q.err = req[n].err
  BY <1>1 DEF RequestType
<1> HIDE DEF q
<1>5. Formed(q)
  BY <1>1, <1>4 DEF Formed
<1>6. AnswerInv(n, q, state)
  <2>1. req[n].err = "none"
    BY <1>1 DEF Formed
  <2> QED BY <1>1, <1>4, <2>1 DEF AnswerInv, Done
<1>7. CASE req[n].at \in Held
  <2>1. mu = n /\ n # 0
    BY <1>7 DEF MemInv, ControlInv, Request
  <2>2. Tx(n, req[n], state, shown, next, sale) /\ next \in Tables
    BY <2>1 DEF MemInv, ControlInv
  <2>3. Tx(n, q, state, shown, next, sale)
    BY <1>4, <2>2, TxOfSame
  <2> QED BY <1>1, <1>2, <1>3, <1>4, <1>5, <1>7, <2>2, <2>3, HolderWorks
<1>8. CASE req[n].at \notin Held
  BY <1>1, <1>2, <1>3, <1>4, <1>5, <1>6, <1>8, Bystander
<1> QED BY <1>7, <1>8

\* The mutex is taken, and the tables cloned.
LEMMA LockStep ==
  ASSUME MemInv, NEW n \in Request, Lock(n)
  PROVE  MemInv'
<1> DEFINE place == IF req[n].op = "read" THEN "read" ELSE "claim"
           q == [req[n] EXCEPT !.at = place]
<1>1. /\ req[n] \in RequestType /\ Formed(req[n]) /\ AnswerInv(n, req[n], state)
      /\ req[n].at = "locking" /\ mu = 0 /\ mu' = n /\ next' = state /\ n # 0
      /\ UNCHANGED <<state, shown, sale, faults>> /\ sale = NoSums
      /\ req \in [Request -> RequestType] /\ faults \in 0..MaxFaults
  BY DEF Lock, At, MemInv, ControlInv, Request
<1>2. req' = [req EXCEPT ![n] = q]
  BY DEF Lock
<1>3. /\ q \in RequestType /\ q.at = place /\ q.op = req[n].op /\ q.key = req[n].key
      /\ q.arg = req[n].arg /\ q.result = req[n].result /\ q.err = req[n].err
  <2>1. place \in Places
    BY DEF Places
  <2> HIDE DEF place
  <2> QED BY <1>1, <2>1, RequestMoved
<1>4. Formed(q) /\ q.at \in Held
  <2> HIDE DEF q
  <2>1. place \in {"read", "claim"} /\ (place = "read" <=> req[n].op = "read")
    OBVIOUS
  <2> QED BY <1>1, <1>3, <2>1 DEF Formed, Held, Places, Selling, Undoing
<1> HIDE DEF q
<1>5. /\ req' \in [Request -> RequestType] /\ req'[n] = q
      /\ \A m \in Request : m # n => req'[m] = req[m]
  BY <1>1, <1>2, <1>3
<1>6. StoreInv' /\ state \in Tables
  BY <1>1, StoreKept DEF MemInv, StoreInv
<1>7. ControlInv'
  <2>1. \A m \in Request : Formed(req'[m]) /\ (req'[m].at \in Held <=> mu' = m)
    BY <1>1, <1>4, <1>5 DEF MemInv, ControlInv, Request
  <2> QED BY <1>1, <1>5, <1>6, <2>1 DEF ControlInv
<1>8. ASSUME NEW m \in Request PROVE AnswerInv(m, req'[m], state')
  <2>1. AnswerInv(m, req[m], state)
    BY DEF MemInv
  <2>2. CASE m = n
    <3>1. q.at # "answered" /\ q.err = "none" /\ req[n].at # "answered"
      BY <1>1, <1>3 DEF Formed
    <3> QED BY <1>1, <1>5, <2>1, <2>2, <3>1 DEF AnswerInv, Done
  <2> QED BY <1>1, <1>5, <2>1, <2>2
<1>9. Tx(n, q, state, shown, state, NoSums)
  <2>1. q.at \in {"claim", "read"} /\ Finite(state)
    BY <1>3 DEF MemInv, StoreInv
  <2> QED BY <2>1 DEF Tx, Selling, Undoing
<1>10. Tx(mu', req'[mu'], state', shown', next', sale')
  BY <1>1, <1>5, <1>9
<1> QED BY <1>6, <1>7, <1>8, <1>10 DEF MemInv

-----------------------------------------------------------------------------
(* What the holder of the mutex relies on *)

TableNames == {"customers", "open", "sales", "movements", "ledger", "payments", "journals",
               "outbox", "idempotencies"}

\* The tables, one by one.
LEMMA TablesFields ==
  ASSUME NEW t \in Tables
  PROVE  /\ t.customers \in [Customer -> Terms] /\ t.open \in BOOLEAN
         /\ t.sales \in [SaleId -> SaleRow \cup {NoSale}] /\ t.movements \in SUBSET Movement
         /\ t.ledger \in SUBSET LedgerRow /\ t.payments \in SUBSET PaymentRow
         /\ t.journals \in SUBSET Journal /\ t.outbox \in SUBSET Event
         /\ t.idempotencies \in [KeySlot -> KeyRow \cup {NoSale}]
         /\ DOMAIN t = TableNames
BY DEF Tables, TableNames

\* Nine tables of the right rows are Tables.
LEMMA TablesMade ==
  ASSUME NEW t, t = [x \in TableNames |-> t[x]],
         t.customers \in [Customer -> Terms], t.open \in BOOLEAN,
         t.sales \in [SaleId -> SaleRow \cup {NoSale}], t.movements \in SUBSET Movement,
         t.ledger \in SUBSET LedgerRow, t.payments \in SUBSET PaymentRow,
         t.journals \in SUBSET Journal, t.outbox \in SUBSET Event,
         t.idempotencies \in [KeySlot -> KeyRow \cup {NoSale}]
  PROVE  t \in Tables
BY DEF Tables, TableNames

\* The tables before a transaction.
Settled(n, t, b) ==
  /\ t \in Tables /\ Finite(t) /\ b = Books(t) /\ Tidy(t) /\ ExposureInv(b)
  /\ \A p \in Product : b.stock[p] >= 0
  /\ t.sales[n] = NoSale

\* The request that holds the mutex, its transaction and the tables it began with.
LEMMA HolderFacts ==
  ASSUME MemInv, NEW n \in Request, req[n].at \in Held
  PROVE  /\ mu = n /\ req[n] \in RequestType /\ Formed(req[n]) /\ next \in Tables
         /\ Tx(n, req[n], state, shown, next, sale) /\ Settled(n, state, shown)
         /\ faults \in 0..MaxFaults
<1>1. mu = n /\ n # 0 /\ req[n] \in RequestType /\ Formed(req[n]) /\ faults \in 0..MaxFaults
  BY DEF MemInv, ControlInv, Request
<1>2. next \in Tables /\ Tx(n, req[n], state, shown, next, sale)
  BY <1>1 DEF MemInv, ControlInv
<1>3. AnswerInv(n, req[n], state) /\ ~Done(req[n])
  BY DEF MemInv, Done, Held
<1>4. state.sales[n] = NoSale
  BY <1>3 DEF AnswerInv
<1>5. \A p \in Product : shown.stock[p] >= 0
  BY DEF MemInv, StoreInv, Serial!IInv, Serial!StockNeverNegative
<1> QED BY <1>1, <1>2, <1>4, <1>5 DEF Settled, MemInv, StoreInv

\* What a transaction may count on in the tables it began with.
LEMMA SettledFacts ==
  ASSUME NEW n \in Request, NEW t, NEW b, Settled(n, t, b)
  PROVE  /\ Without(t, n) /\ \A e \in t.outbox : e.sale # n
         /\ Typed(t.movements, t.ledger, t.payments, t.journals)
         /\ Stocked(t, b)
         /\ \A c \in Customer : b.exposure[c] = Owed(t.ledger, c)
<1>1. Without(t, n) /\ \A e \in t.outbox : e.sale # n
  BY DEF Settled, Tidy, Nothing, SaleId
<1>2. Typed(t.movements, t.ledger, t.payments, t.journals)
  BY TablesFields DEF Settled, Typed, Finite
<1> QED BY <1>1, <1>2 DEF Settled, Books, Stocked

\* The callback returned an error that is a refusal.
LEMMA HolderRefused ==
  ASSUME MemInv, NEW n \in Request, req[n].at \in Held,
         NEW err, Reason(req[n], err), Fail(n, err)
  PROVE  MemInv'
BY HolderFacts, HolderFails DEF Fail

\* The callback went on: what it needs of the step is about its own tables.
LEMMA HolderContinues ==
  ASSUME MemInv, NEW n \in Request, req[n].at \in Held,
         NEW place \in Held, NEW t \in Tables, Continue(n, place, t),
         LET q == [req[n] EXCEPT !.at = place] IN
         Formed(q) /\ Tx(n, q, state, shown, t, sale')
  PROVE  MemInv'
<1> DEFINE q == [req[n] EXCEPT !.at = place]
<1>1. req' = [req EXCEPT ![n] = q]
  BY DEF Continue
<1>2. q \in RequestType /\ q.at = place
  <2>1. req[n] \in RequestType /\ place \in Places
    BY HolderFacts DEF Held
  <2> QED BY <2>1, RequestMoved
<1>3. Formed(q) /\ Tx(n, q, state, shown, t, sale')
  OBVIOUS
<1>4. /\ UNCHANGED <<state, shown, mu>> /\ next' = t /\ faults' \in 0..MaxFaults
  BY HolderFacts DEF Continue, Write, Cloned
<1> HIDE DEF q
<1> QED BY <1>1, <1>2, <1>3, <1>4, HolderWorks

\* The callback returned a result.
LEMMA HolderReturns ==
  ASSUME MemInv, NEW n \in Request, req[n].at \in Held,
         NEW t \in Tables, NEW result \in SaleId, Return(n, t, result),
         \A q : q.op = req[n].op /\ q.key = req[n].key /\ q.arg = req[n].arg /\ q.result = result
                => TxEnd(n, q, state, shown, t, sale),
         Finite(t), t.customers = state.customers, t.open = state.open
  PROVE  MemInv'
<1> DEFINE q == [req[n] EXCEPT !.at = "end", !.result = result]
<1>1. req' = [req EXCEPT ![n] = q]
  BY DEF Return
<1>2. /\ q \in RequestType /\ q.at = "end" /\ q.op = req[n].op /\ q.key = req[n].key
      /\ q.arg = req[n].arg /\ q.result = result /\ q.err = req[n].err
  BY HolderFacts, RequestEnds
<1>3. UNCHANGED <<state, shown, mu, sale>> /\ next' = t /\ faults' \in 0..MaxFaults
  BY HolderFacts DEF Return, Write, Cloned
<1> HIDE DEF q
<1>4. Formed(q) /\ q.at \in Held
  BY <1>2, HolderFacts DEF Formed, Held, Places, Selling, Undoing
<1>5. Tx(n, q, state, shown, next', sale')
  BY <1>2, <1>3 DEF Tx, Selling, Undoing
<1> QED BY <1>1, <1>2, <1>3, <1>4, <1>5, HolderWorks

\* The place of a request whose callback goes on.
LEMMA FormedOn ==
  ASSUME NEW r \in RequestType, Formed(r), r.at \in Held, NEW place \in Held \ {"read", "claim"},
         place \in Selling => r.op = "complete", place \in Undoing => r.op = "reverse"
  PROVE  LET q == [r EXCEPT !.at = place] IN
         /\ Formed(q) /\ q.at = place /\ q.op = r.op /\ q.key = r.key /\ q.arg = r.arg
         /\ q.result = r.result
<1> DEFINE q == [r EXCEPT !.at = place]
<1>1. /\ q.at = place /\ q.op = r.op /\ q.key = r.key /\ q.arg = r.arg /\ q.err = r.err
      /\ q.result = r.result
  BY RequestMoved DEF Held
<1> HIDE DEF q
<1>2. Formed(q)
  BY <1>1 DEF Formed, Held
<1> QED BY <1>1, <1>2 DEF q

-----------------------------------------------------------------------------
(* The callbacks that read *)

\* The ways Claim may go.
LEMMA ClaimCases ==
  ASSUME NEW n, Claim(n)
  PROVE  LET found == next.idempotencies[Slot(n)]
             claimed == [next EXCEPT !.idempotencies[Slot(n)] =
                           [request |-> req[n].arg, result |-> NoSale]] IN
         \/ \E err \in {"forbidden", "idempotency_conflict", "not_found"} : Fail(n, err)
         \/ found # NoSale /\ found.result = NoSale
         \/ /\ found # NoSale /\ found.request = req[n].arg
            /\ next.sales[found.result] # NoSale /\ Return(n, next, found.result)
         \/ /\ found = NoSale /\ UNCHANGED sale
            /\ Continue(n, IF req[n].op = "complete" THEN "screen" ELSE "original", claimed)
<1> DEFINE found == next.idempotencies[Slot(n)]
           claimed == [next EXCEPT !.idempotencies[Slot(n)] =
                         [request |-> req[n].arg, result |-> NoSale]]
           tests ==
             << <<req[n].op \notin Permitted, "forbidden">>,
                <<found # NoSale /\ found.request # req[n].arg, "idempotency_conflict">>,
                <<found # NoSale /\ found.result = NoSale, "no committed result">>,
                <<found # NoSale /\ next.sales[found.result] = NoSale, "not_found">> >>
           Pass ==
             \/ found # NoSale /\ Return(n, next, found.result)
             \/ /\ found = NoSale /\ UNCHANGED sale
                /\ Continue(n, IF req[n].op = "complete" THEN "screen" ELSE "original", claimed)
<1>1. IF FirstError(tests) = "none" THEN Pass ELSE Fail(n, FirstError(tests))
  BY DEF Claim, Unless
<1>2. /\ DOMAIN tests = 1..4
      /\ tests[2][1] <=> (found # NoSale /\ found.request # req[n].arg)
      /\ tests[3][1] <=> (found # NoSale /\ found.result = NoSale)
      /\ tests[4][1] <=> (found # NoSale /\ next.sales[found.result] = NoSale)
      /\ tests[1][2] = "forbidden" /\ tests[2][2] = "idempotency_conflict"
      /\ tests[3][2] = "no committed result" /\ tests[4][2] = "not_found"
  <2>1. tests[2][1] <=> (found # NoSale /\ found.request # req[n].arg)
    OBVIOUS
  <2>2. tests[3][1] <=> (found # NoSale /\ found.result = NoSale)
    OBVIOUS
  <2>3. tests[4][1] <=> (found # NoSale /\ next.sales[found.result] = NoSale)
    OBVIOUS
  <2>4. /\ DOMAIN tests = 1..4
        /\ tests[1][2] = "forbidden" /\ tests[2][2] = "idempotency_conflict"
        /\ tests[3][2] = "no committed result" /\ tests[4][2] = "not_found"
    OBVIOUS
  <2> HIDE DEF tests, found
  <2> QED BY <2>1, <2>2, <2>3, <2>4
<1> HIDE DEF tests
<1>3. CASE FirstError(tests) = "none" /\ \A i \in 1..4 : ~tests[i][1]
  <2>1. Pass /\ ~tests[2][1] /\ ~tests[4][1]
    BY <1>1, <1>3
  <2> QED BY <1>2, <2>1
<1>4. CASE \E i \in 1..4 : tests[i][1] /\ FirstError(tests) = tests[i][2]
  <2>1. PICK i \in 1..4 : tests[i][1] /\ FirstError(tests) = tests[i][2]
    BY <1>4
  <2>2. i = 1 \/ i = 2 \/ i = 3 \/ i = 4
    OBVIOUS
  <2>3. FirstError(tests) # "none"
    BY <1>2, <2>1, <2>2
  <2>4. Fail(n, tests[i][2])
    BY <1>1, <2>1, <2>3
  <2> HIDE DEF found, claimed, Pass
  <2>5. \/ \E err \in {"forbidden", "idempotency_conflict", "not_found"} : Fail(n, err)
        \/ found # NoSale /\ found.result = NoSale
    BY <1>2, <2>1, <2>2, <2>4
  <2> QED BY <2>5 DEF found
<1>5. \/ FirstError(tests) = "none" /\ \A i \in 1..4 : ~tests[i][1]
      \/ \E i \in 1..4 : tests[i][1] /\ FirstError(tests) = tests[i][2]
  BY <1>2, FirstErrorOf
<1> QED BY <1>3, <1>4, <1>5

\* The key of a request and the row it writes there.
LEMMA SlotTyped ==
  ASSUME NEW r \in RequestType, Formed(r), r.at \in Held, r.op # "read"
  PROVE  /\ <<r.op, r.key>> \in KeySlot /\ r.arg \in Order \cup SaleId /\ r.key \in Key
         /\ \A result \in SaleId \cup {NoSale} : Key1(r, result) \in KeyRow
<1>1. r.op \in {"complete", "reverse"} /\ r.key \in Key /\ r.arg \in Order \cup SaleId
  BY DEF RequestType, Op, Formed
<1> QED BY <1>1 DEF KeySlot, KeyRow, Key1

\* An idempotency row is its request and its result.
LEMMA KeyRowIs ==
  ASSUME NEW x \in KeyRow
  PROVE  x = [request |-> x.request, result |-> x.result]
BY DEF KeyRow

\* The key is claimed, refused, or answered with the result it holds.
LEMMA ClaimStep ==
  ASSUME MemInv, NEW n \in Request, Claim(n)
  PROVE  MemInv'
<1> DEFINE r == req[n]
           slot == <<r.op, r.key>>
           found == next.idempotencies[slot]
           claimed == [next EXCEPT !.idempotencies[slot] = Key1(r, NoSale)]
<1>1. r.at = "claim" /\ r.at \in Held
  BY DEF Claim, At, Held, Places
<1>2. /\ mu = n /\ r \in RequestType /\ Formed(r) /\ next \in Tables /\ next = state
      /\ sale = NoSums /\ Tx(n, r, state, shown, next, sale) /\ Settled(n, state, shown)
      /\ r.op # "read"
  BY <1>1, HolderFacts DEF Tx, Formed
<1>3. /\ slot \in KeySlot /\ r.key \in Key
      /\ \A result \in SaleId \cup {NoSale} : Key1(r, result) \in KeyRow
  BY <1>1, <1>2, SlotTyped
<1>4. /\ next.idempotencies \in [KeySlot -> KeyRow \cup {NoSale}]
      /\ DOMAIN next = TableNames /\ Finite(next) /\ Finite(state)
  BY <1>2, TablesFields DEF Settled
<1>5. found # NoSale => /\ found \in KeyRow /\ found.result \in SaleId
                        /\ state.sales[found.result] # NoSale
  BY <1>2, <1>3, <1>4 DEF Settled, Tidy
<1>6. NoSale \notin SaleId
  BY NoSaleAssumption DEF SaleId
<1>7. CASE \E err \in {"forbidden", "idempotency_conflict", "not_found"} : Fail(n, err)
  <2>1. \A err \in {"forbidden", "idempotency_conflict", "not_found"} : Reason(r, err)
    BY DEF Reason, Refusals
  <2> QED BY <1>1, <1>7, <2>1, HolderRefused
<1>8. CASE found # NoSale /\ found.request = r.arg /\ Return(n, next, found.result)
  <2>1. found = Key1(r, found.result) /\ found.result \in SaleId
    BY <1>5, <1>8, KeyRowIs DEF Key1
  <2>2. ASSUME NEW q, q.op = r.op, q.key = r.key, q.arg = r.arg, q.result = found.result
        PROVE  TxEnd(n, q, state, shown, next, sale)
    <3> HIDE DEF found
    <3>1. state.idempotencies[<<q.op, q.key>>] = Key1(q, q.result)
      BY <1>2, <2>1, <2>2 DEF found, Key1
    <3> QED BY <1>2, <1>5, <1>8, <2>1, <2>2, <3>1 DEF TxEnd, Answer
  <2> HIDE DEF found
  <2> QED BY <1>1, <1>2, <1>4, <1>8, <2>1, <2>2, HolderReturns
<1>9. CASE /\ found = NoSale /\ UNCHANGED sale
           /\ Continue(n, IF r.op = "complete" THEN "screen" ELSE "original", claimed)
  <2> DEFINE place == IF r.op = "complete" THEN "screen" ELSE "original"
             q == [r EXCEPT !.at = place]
  <2>1. /\ place \in Held \ {"read", "claim"} /\ place \in {"screen", "original"}
        /\ (place \in Selling => r.op = "complete") /\ (place \in Undoing => r.op = "reverse")
    BY <1>2 DEF Held, Places, Selling, Undoing, RequestType, Op
  <2>2. Continue(n, place, claimed)
    BY <1>9
  <2> HIDE DEF place
  <2>3. /\ Formed(q) /\ q.at = place /\ q.op = r.op /\ q.key = r.key /\ q.arg = r.arg
    BY <1>1, <1>2, <2>1, FormedOn
  <2>4. /\ claimed.idempotencies = [state.idempotencies EXCEPT ![slot] = Key1(r, NoSale)]
        /\ claimed.customers = state.customers /\ claimed.open = state.open
        /\ SamePosts(state, claimed) /\ SameRows(state, claimed)
        /\ claimed = [x \in TableNames |-> claimed[x]]
    BY <1>2, <1>4 DEF SamePosts, SameRows, TableNames
  <2>5. Key1(r, NoSale) \in KeyRow
    BY <1>3
  <2> HIDE DEF claimed, slot, q
  <2>6. claimed.idempotencies \in [KeySlot -> KeyRow \cup {NoSale}]
    BY <1>2, <1>4, <2>4, <2>5
  <2>7. claimed \in Tables /\ Finite(claimed)
    <3>1. Finite(claimed)
      BY <1>4, <2>4 DEF Finite, SamePosts, SameRows
    <3> QED BY <1>2, <2>4, <2>6, <3>1, TablesFields, TablesMade DEF SamePosts, SameRows
  <2>8. Keyed(q, state, claimed, NoSale)
    BY <1>2, <1>9, <2>3, <2>4 DEF Keyed, Key1, found, slot
  <2>9. Tx(n, q, state, shown, claimed, NoSums)
    BY <2>1, <2>3, <2>4, <2>7, <2>8 DEF Tx
  <2>10. Tx(n, q, state, shown, claimed, sale')
    BY <1>2, <1>9, <2>9
  <2> QED BY <1>1, <2>1, <2>2, <2>3, <2>7, <2>10, HolderContinues DEF q
<1> QED
  <2>1. /\ Slot(n) = slot
        /\ [request |-> req[n].arg, result |-> NoSale] = Key1(r, NoSale)
    BY DEF Slot, Key1
  <2>2. ~(found # NoSale /\ found.result = NoSale)
    BY <1>5, <1>6
  <2>3. \/ \E err \in {"forbidden", "idempotency_conflict", "not_found"} : Fail(n, err)
        \/ found # NoSale /\ found.request = r.arg /\ Return(n, next, found.result)
        \/ /\ found = NoSale /\ UNCHANGED sale
           /\ Continue(n, IF r.op = "complete" THEN "screen" ELSE "original", claimed)
    BY <2>1, <2>2, ClaimCases
  <2> QED BY <1>7, <1>8, <1>9, <2>3

\* The ways Screen may go.
LEMMA ScreenCases ==
  ASSUME NEW n, Screen(n)
  PROVE  LET account == next.customers[req[n].arg.customer] IN
         \/ \E err \in {"customer_inactive", "credit_disabled", "period_closed"} : Fail(n, err)
         \/ /\ account.active /\ ~(req[n].arg.credit /\ ~account.credit)
            /\ Continue(n, "line", next) /\ UNCHANGED sale
<1> DEFINE account == next.customers[req[n].arg.customer]
           tests ==
             << <<~account.active, "customer_inactive">>,
                <<req[n].arg.credit /\ ~account.credit, "credit_disabled">>,
                <<~next.open, "period_closed">> >>
           Pass == Continue(n, "line", next) /\ UNCHANGED sale
<1>1. IF FirstError(tests) = "none" THEN Pass ELSE Fail(n, FirstError(tests))
  BY DEF Screen, Unless
<1>2. /\ tests[1][1] <=> ~account.active
      /\ tests[2][1] <=> (req[n].arg.credit /\ ~account.credit)
      /\ DOMAIN tests = 1..3
      /\ tests[1][2] = "customer_inactive" /\ tests[2][2] = "credit_disabled"
      /\ tests[3][2] = "period_closed"
  <2>1. tests[1][1] <=> ~account.active
    OBVIOUS
  <2>2. tests[2][1] <=> (req[n].arg.credit /\ ~account.credit)
    OBVIOUS
  <2>3. /\ DOMAIN tests = 1..3
        /\ tests[1][2] = "customer_inactive" /\ tests[2][2] = "credit_disabled"
        /\ tests[3][2] = "period_closed"
    OBVIOUS
  <2> HIDE DEF tests, account
  <2> QED BY <2>1, <2>2, <2>3
<1> HIDE DEF tests
<1>3. CASE FirstError(tests) = "none" /\ \A i \in 1..3 : ~tests[i][1]
  <2>1. Pass /\ ~tests[1][1] /\ ~tests[2][1]
    BY <1>1, <1>3
  <2> QED BY <1>2, <2>1
<1>4. CASE \E i \in 1..3 : tests[i][1] /\ FirstError(tests) = tests[i][2]
  <2>1. PICK i \in 1..3 : tests[i][1] /\ FirstError(tests) = tests[i][2]
    BY <1>4
  <2>2. i = 1 \/ i = 2 \/ i = 3
    OBVIOUS
  <2>3. tests[i][2] \in {"customer_inactive", "credit_disabled", "period_closed"}
    BY <1>2, <2>2
  <2>4. Fail(n, tests[i][2])
    BY <1>1, <2>1, <2>3
  <2> QED BY <2>3, <2>4
<1> QED BY <1>2, <1>3, <1>4, FirstErrorOf

\* Before the first line nothing is summed up.
LEMMA NoSumsYet ==
  ASSUME NEW n, NEW o \in Order, Wanted(o), NEW t, NEW b, NEW u,
         u.movements = t.movements, \A p \in Product : b.stock[p] >= 0
  PROVE  Sums(n, o, t, b, u, NoSums) /\ LineEntries(NoSums) /\ Len(NoSums.lines) = 0
         /\ Len(NoSums.lines) < Len(o.lines)
<1> DEFINE L == o.lines
<1>1. /\ NoSums.lines = << >> /\ NoSums.currency = NoSale /\ NoSums.subtotal = 0
      /\ NoSums.tax = 0 /\ NoSums.total = 0 /\ NoSums.cogs = 0 /\ NoSums.entries = << >>
      /\ Len(NoSums.lines) = 0
  BY DEF NoSums
<1>2. L \in Seq(LineType) /\ L # << >> /\ Len(L) \in Nat /\ 0 < Len(L)
  BY OrderTyped, LinesTyped
<1>3. NoSums \in SumsType
  <2>1. << >> \in Seq(LineType) /\ << >> \in Seq(JournalEntry) /\ 0 \in Amount
    BY MoneyAssumption DEF Amount
  <2> QED BY <2>1 DEF NoSums, SumsType
<1>4. Drawn(n, L, 0) = {}
  BY DEF Drawn
<1>5. Sums(n, o, t, b, u, NoSums)
  <2>1. \A f : First(f, 0) = 0
    BY FirstNone
  <2>2. \A j \in 1..0 : NoSums.lines[j] = L[j]
    OBVIOUS
  <2>3. u.movements = t.movements \cup Drawn(n, L, 0)
    BY <1>4
  <2>4. \A p \in Product : b.stock[p] >= First(Units(L, p), 0)
    BY <2>1
  <2> HIDE DEF L
  <2>5. /\ NoSums.subtotal = First(Nets(L), 0) /\ NoSums.tax = First(Taxes(L), 0)
        /\ NoSums.cogs = First(Costs(L), 0) /\ NoSums.total = NoSums.subtotal + NoSums.tax
    BY <1>1, <2>1
  <2> QED BY <1>1, <1>2, <1>3, <2>2, <2>3, <2>4, <2>5 DEF Sums, L
<1>6. LineEntries(NoSums)
  <2>1. -0 = 0
    BY ZeroNegated
  <2>2. \A a : Posting(<< >>, a) = 0
    BY NoEntry
  <2>3. OneSided(<< >>) /\ SumFunction(Debits(<< >>)) = 0 /\ SumFunction(Credits(<< >>)) = 0
    BY NoEntry
  <2> HIDE DEF L
  <2>4. \A a \in Accounts : Posting(NoSums.entries, a) =
          CASE a = "revenue" -> -NoSums.subtotal
            [] a = "cogs" -> NoSums.cogs
            [] a = "inventory" -> -NoSums.cogs
            [] OTHER -> 0
    BY <1>1, <2>1, <2>2
  <2>5. /\ OneSided(NoSums.entries) /\ SumFunction(Debits(NoSums.entries)) = NoSums.cogs
        /\ SumFunction(Credits(NoSums.entries)) = NoSums.subtotal + NoSums.cogs
        /\ (NoSums.lines # << >> => Len(NoSums.entries) >= 1)
    BY <1>1, <2>3
  <2> QED BY <2>4, <2>5 DEF LineEntries
<1> QED BY <1>1, <1>2, <1>5, <1>6

\* Customer and fiscal period are looked at.
LEMMA ScreenStep ==
  ASSUME MemInv, NEW n \in Request, Screen(n)
  PROVE  MemInv'
<1> DEFINE r == req[n]
           q == [r EXCEPT !.at = "line"]
           o == r.arg
<1>1. r.at = "screen" /\ r.at \in Held
  BY DEF Screen, At, Held, Places
<1>2. /\ mu = n /\ r \in RequestType /\ Formed(r) /\ next \in Tables
      /\ Tx(n, r, state, shown, next, sale) /\ Settled(n, state, shown)
  BY <1>1, HolderFacts
<1>3. r.op = "complete" /\ o \in Order /\ Wanted(o)
  BY <1>1, <1>2 DEF Formed, Selling, Held, Places
<1>4. CASE \E err \in {"customer_inactive", "credit_disabled", "period_closed"} : Fail(n, err)
  <2>1. \A err \in {"customer_inactive", "credit_disabled", "period_closed"} : Reason(r, err)
    BY DEF Reason, Refusals
  <2> QED BY <1>1, <1>4, <2>1, HolderRefused
<1>5. CASE /\ next.customers[o.customer].active
           /\ ~(o.credit /\ ~next.customers[o.customer].credit)
           /\ Continue(n, "line", next) /\ UNCHANGED sale
  <2>1. "line" \in Held \ {"read", "claim"} /\ "line" \in Selling /\ "line" \notin Undoing
    BY DEF Held, Places, Selling, Undoing
  <2>2. Formed(q) /\ q.at = "line" /\ q.op = r.op /\ q.key = r.key /\ q.arg = r.arg
    BY <1>1, <1>2, <1>3, <2>1, FormedOn
  <2>3. /\ Finite(next) /\ next.customers = state.customers /\ next.open = state.open
        /\ SamePosts(state, next) /\ Keyed(r, state, next, NoSale)
        /\ SameRows(state, next) /\ sale = NoSums
    BY <1>1, <1>2 DEF Tx, Selling
  <2>4. Screened(o, state)
    BY <1>5, <2>3 DEF Screened
  <2>5. Sums(n, o, state, shown, next, NoSums) /\ LineEntries(NoSums)
        /\ Len(NoSums.lines) < Len(o.lines)
    BY <1>2, <1>3, <2>3, NoSumsYet DEF SameRows, Settled
  <2>6. TxLines(n, o, state, shown, next, NoSums)
    BY <2>3, <2>4, <2>5 DEF TxLines, SameRows
  <2> HIDE DEF q
  <2>7. Keyed(q, state, next, NoSale)
    BY <2>2, <2>3 DEF Keyed, Key1
  <2>8. Tx(n, q, state, shown, next, NoSums)
    BY <2>1, <2>2, <2>3, <2>5, <2>6, <2>7 DEF Tx
  <2>9. Tx(n, q, state, shown, next, sale')
    BY <1>5, <2>3, <2>8
  <2> QED BY <1>1, <1>2, <1>5, <2>1, <2>2, <2>9, HolderContinues DEF q
<1> QED BY <1>4, <1>5, ScreenCases

\* The ways Read may go.
LEMMA ReadCases ==
  ASSUME NEW n, Read(n)
  PROVE  \/ \E err \in {"forbidden", "not_found"} : Fail(n, err)
         \/ next.sales[req[n].arg] # NoSale /\ Return(n, next, req[n].arg)
<1> DEFINE tests == << <<"read" \notin Permitted, "forbidden">>,
                       <<next.sales[req[n].arg] = NoSale, "not_found">> >>
           Pass == Return(n, next, req[n].arg)
<1>1. IF FirstError(tests) = "none" THEN Pass ELSE Fail(n, FirstError(tests))
  BY DEF Read, Unless
<1>2. /\ DOMAIN tests = 1..2 /\ (tests[2][1] <=> next.sales[req[n].arg] = NoSale)
      /\ tests[1][2] = "forbidden" /\ tests[2][2] = "not_found"
  <2>1. tests[2][1] <=> next.sales[req[n].arg] = NoSale
    OBVIOUS
  <2>2. DOMAIN tests = 1..2 /\ tests[1][2] = "forbidden" /\ tests[2][2] = "not_found"
    OBVIOUS
  <2> HIDE DEF tests
  <2> QED BY <2>1, <2>2
<1> HIDE DEF tests
<1>3. CASE FirstError(tests) = "none" /\ \A i \in 1..2 : ~tests[i][1]
  BY <1>1, <1>2, <1>3
<1>4. CASE \E i \in 1..2 : tests[i][1] /\ FirstError(tests) = tests[i][2]
  <2>1. PICK i \in 1..2 : tests[i][1] /\ FirstError(tests) = tests[i][2]
    BY <1>4
  <2>2. tests[i][2] \in {"forbidden", "not_found"}
    <3>1. i = 1 \/ i = 2
      OBVIOUS
    <3> QED BY <1>2, <3>1
  <2>3. Fail(n, tests[i][2])
    BY <1>1, <2>1, <2>2
  <2> QED BY <2>2, <2>3
<1> QED BY <1>2, <1>3, <1>4, FirstErrorOf

\* A record is read.
LEMMA ReadStep ==
  ASSUME MemInv, NEW n \in Request, Read(n)
  PROVE  MemInv'
<1> DEFINE r == req[n]
<1>1. r.at = "read" /\ r.at \in Held
  BY DEF Read, At, Held, Places
<1>2. /\ mu = n /\ r \in RequestType /\ Formed(r) /\ next \in Tables /\ next = state
      /\ Settled(n, state, shown) /\ r.op = "read" /\ r.arg \in SaleId
  BY <1>1, HolderFacts DEF Tx, Formed
<1>3. CASE \E err \in {"forbidden", "not_found"} : Fail(n, err)
  <2>1. \A err \in {"forbidden", "not_found"} : Reason(r, err)
    BY DEF Reason, Refusals
  <2> QED BY <1>1, <1>3, <2>1, HolderRefused
<1>4. CASE next.sales[r.arg] # NoSale /\ Return(n, next, r.arg)
  <2>1. ASSUME NEW q, q.op = r.op, q.key = r.key, q.arg = r.arg, q.result = r.arg
        PROVE  TxEnd(n, q, state, shown, next, sale)
    BY <1>2, <1>4, <2>1 DEF TxEnd, Answer
  <2>2. Finite(next)
    BY <1>2 DEF Settled
  <2> QED BY <1>1, <1>2, <1>4, <2>1, <2>2, HolderReturns
<1> QED BY <1>3, <1>4, ReadCases

\* The ways Original may go.
LEMMA OriginalCases ==
  ASSUME NEW n, Original(n)
  PROVE  LET original == next.sales[req[n].arg] IN
         \/ \E err \in {"not_found", "period_closed", "already_reversed"} : Fail(n, err)
         \/ /\ original # NoSale /\ original.type = "SALE" /\ original.status # "REVERSED"
            /\ Continue(n, "undo", next) /\ UNCHANGED sale
<1> DEFINE original == next.sales[req[n].arg]
           tests ==
             << <<original = NoSale, "not_found">>,
                <<~next.open, "period_closed">>,
                <<original # NoSale /\ (original.type # "SALE" \/ original.status = "REVERSED"),
                  "already_reversed">> >>
           Pass == Continue(n, "undo", next) /\ UNCHANGED sale
<1>1. IF FirstError(tests) = "none" THEN Pass ELSE Fail(n, FirstError(tests))
  BY DEF Original, Unless
<1>2. /\ tests[1][1] <=> original = NoSale
      /\ tests[3][1] <=> (original # NoSale
                            /\ (original.type # "SALE" \/ original.status = "REVERSED"))
      /\ DOMAIN tests = 1..3
      /\ tests[1][2] = "not_found" /\ tests[2][2] = "period_closed"
      /\ tests[3][2] = "already_reversed"
  <2>1. tests[1][1] <=> original = NoSale
    OBVIOUS
  <2>2. tests[3][1] <=> (original # NoSale
                           /\ (original.type # "SALE" \/ original.status = "REVERSED"))
    OBVIOUS
  <2>3. /\ DOMAIN tests = 1..3
        /\ tests[1][2] = "not_found" /\ tests[2][2] = "period_closed"
        /\ tests[3][2] = "already_reversed"
    OBVIOUS
  <2> HIDE DEF tests, original
  <2> QED BY <2>1, <2>2, <2>3
<1> HIDE DEF tests
<1>3. CASE FirstError(tests) = "none" /\ \A i \in 1..3 : ~tests[i][1]
  <2>1. Pass /\ ~tests[1][1] /\ ~tests[3][1]
    BY <1>1, <1>3
  <2> QED BY <1>2, <2>1
<1>4. CASE \E i \in 1..3 : tests[i][1] /\ FirstError(tests) = tests[i][2]
  <2>1. PICK i \in 1..3 : tests[i][1] /\ FirstError(tests) = tests[i][2]
    BY <1>4
  <2>2. i = 1 \/ i = 2 \/ i = 3
    OBVIOUS
  <2>3. tests[i][2] \in {"not_found", "period_closed", "already_reversed"}
    BY <1>2, <2>2
  <2>4. Fail(n, tests[i][2])
    BY <1>1, <2>1, <2>3
  <2> QED BY <2>3, <2>4
<1> QED BY <1>2, <1>3, <1>4, FirstErrorOf

\* The sale to reverse is looked up.
LEMMA OriginalStep ==
  ASSUME MemInv, NEW n \in Request, Original(n)
  PROVE  MemInv'
<1> DEFINE r == req[n]
           q == [r EXCEPT !.at = "undo"]
<1>1. r.at = "original" /\ r.at \in Held
  BY DEF Original, At, Held, Places
<1>2. /\ mu = n /\ r \in RequestType /\ Formed(r) /\ next \in Tables
      /\ Tx(n, r, state, shown, next, sale) /\ Settled(n, state, shown) /\ r.op = "reverse"
  BY <1>1, HolderFacts DEF Formed, Undoing
<1>3. CASE \E err \in {"not_found", "period_closed", "already_reversed"} : Fail(n, err)
  <2>1. \A err \in {"not_found", "period_closed", "already_reversed"} : Reason(r, err)
    BY DEF Reason, Refusals
  <2> QED BY <1>1, <1>3, <2>1, HolderRefused
<1>4. CASE /\ next.sales[r.arg] # NoSale
           /\ next.sales[r.arg].type = "SALE" /\ next.sales[r.arg].status # "REVERSED"
           /\ Continue(n, "undo", next) /\ UNCHANGED sale
  <2>1. "undo" \in Held \ {"read", "claim"} /\ "undo" \in Undoing /\ "undo" \notin Selling
    BY DEF Held, Places, Selling, Undoing
  <2>2. Formed(q) /\ q.at = "undo" /\ q.op = r.op /\ q.key = r.key /\ q.arg = r.arg
    BY <1>1, <1>2, <2>1, FormedOn
  <2>3. /\ Finite(next) /\ next.customers = state.customers /\ next.open = state.open
        /\ SamePosts(state, next) /\ Keyed(r, state, next, NoSale)
        /\ SameRows(state, next) /\ sale = NoSums
    BY <1>1, <1>2 DEF Tx, Undoing
  <2>4. Found(r.arg, state)
    BY <1>4, <2>3 DEF Found, SamePosts
  <2> HIDE DEF q
  <2>5. Keyed(q, state, next, NoSale)
    BY <2>2, <2>3 DEF Keyed, Key1
  <2>6. Tx(n, q, state, shown, next, sale)
    BY <2>1, <2>2, <2>3, <2>4, <2>5 DEF Tx
  <2>7. Tx(n, q, state, shown, next, sale')
    BY <1>4, <2>6
  <2> QED BY <1>1, <1>2, <1>4, <2>1, <2>2, <2>7, HolderContinues DEF q
<1> QED BY <1>3, <1>4, OriginalCases

-----------------------------------------------------------------------------
(* The callback of Complete *)

MovementOf(n, o, s) ==
  LET i == Len(s.lines) + 1 IN
  [source |-> n, line |-> i, product |-> o.lines[i].product,
   quantity |-> -o.lines[i].quantity]

\* The ways TakeLine may go.
LEMMA TakeLineCases ==
  ASSUME NEW n, TakeLine(n)
  PROVE  LET o == req[n].arg
             i == Len(sale.lines) + 1
             z == LineSums(o, sale) IN
         \/ \E err \in {"product_inactive", "invalid_command", "insufficient_stock"} : Fail(n, err)
         \/ Overflow \in {z.subtotal, z.tax, z.total, z.cogs} /\ Fail(n, "overflow")
         \/ /\ ~(Moved(next.movements, o.lines[i].product) < o.lines[i].quantity)
            /\ Overflow \notin {z.subtotal, z.tax, z.total, z.cogs}
            /\ sale' = z
            /\ Continue(n, IF i = Len(o.lines) THEN "charge" ELSE "line",
                        [next EXCEPT !.movements = @ \cup {MovementOf(n, o, sale)}])
<1> DEFINE o == req[n].arg
           i == Len(sale.lines) + 1
           line == o.lines[i]
           product == Catalog[line.product]
           z == LineSums(o, sale)
           large == Overflow \in {z.subtotal, z.tax, z.total, z.cogs}
           inactive == ~product.active
           foreign == sale.currency \notin {NoSale, product.currency}
           short == Moved(next.movements, line.product) < line.quantity
           tests ==
             << <<inactive, "product_inactive">>, <<foreign, "invalid_command">>,
                <<short, "insufficient_stock">>, <<large, "overflow">> >>
           Pass ==
             /\ sale' = z
             /\ Continue(n, IF i = Len(o.lines) THEN "charge" ELSE "line",
                         [next EXCEPT !.movements = @ \cup {MovementOf(n, o, sale)}])
<1>1. IF FirstError(tests) = "none" THEN Pass ELSE Fail(n, FirstError(tests))
  BY DEF TakeLine, Unless, LineSums, MovementOf, AvailableStock
<1> HIDE DEF z
<1>2. /\ tests[3][1] <=> short
      /\ tests[4][1] <=> large
      /\ DOMAIN tests = 1..4
      /\ tests[1][2] = "product_inactive" /\ tests[2][2] = "invalid_command"
      /\ tests[3][2] = "insufficient_stock" /\ tests[4][2] = "overflow"
  <2> HIDE DEF short, large, inactive, foreign, Pass
  <2>1. tests[3][1] <=> short
    OBVIOUS
  <2>2. tests[4][1] <=> large
    OBVIOUS
  <2>3. DOMAIN tests = 1..4
    OBVIOUS
  <2>4. tests[1][2] = "product_inactive" /\ tests[2][2] = "invalid_command"
    OBVIOUS
  <2>5. tests[3][2] = "insufficient_stock" /\ tests[4][2] = "overflow"
    OBVIOUS
  <2> HIDE DEF tests
  <2> QED BY <2>1, <2>2, <2>3, <2>4, <2>5
<1> HIDE DEF tests, Pass, short, large
<1>3. CASE FirstError(tests) = "none" /\ \A j \in 1..4 : ~tests[j][1]
  <2>1. Pass /\ ~short /\ ~large
    BY <1>1, <1>2, <1>3
  <2> QED BY <2>1 DEF Pass, short, large, z
<1>4. CASE \E j \in 1..4 : tests[j][1] /\ FirstError(tests) = tests[j][2]
  <2>1. PICK j \in 1..4 : tests[j][1] /\ FirstError(tests) = tests[j][2]
    BY <1>4
  <2>2. j = 1 \/ j = 2 \/ j = 3 \/ j = 4
    OBVIOUS
  <2>3. \/ tests[j][2] \in {"product_inactive", "invalid_command", "insufficient_stock"}
        \/ tests[j][2] = "overflow" /\ large
    BY <1>2, <2>1, <2>2
  <2>4. Fail(n, tests[j][2])
    BY <1>1, <2>1, <2>3
  <2>5. \/ \E err \in {"product_inactive", "invalid_command", "insufficient_stock"} : Fail(n, err)
        \/ large /\ Fail(n, "overflow")
    BY <2>3, <2>4
  <2> QED BY <2>5 DEF large, z
<1>5. \/ FirstError(tests) = "none" /\ \A j \in 1..4 : ~tests[j][1]
      \/ \E j \in 1..4 : tests[j][1] /\ FirstError(tests) = tests[j][2]
  BY <1>2, FirstErrorOf
<1> QED BY <1>3, <1>4, <1>5

\* A clone whose stock movements alone are written.
LEMMA TablesMoved ==
  ASSUME NEW u \in Tables, Finite(u), NEW m \in Movement
  PROVE  LET v == [u EXCEPT !.movements = @ \cup {m}] IN
         /\ v \in Tables /\ Finite(v) /\ v.movements = u.movements \cup {m}
         /\ v.customers = u.customers /\ v.open = u.open /\ v.ledger = u.ledger
         /\ v.payments = u.payments /\ v.sales = u.sales /\ v.journals = u.journals
         /\ v.outbox = u.outbox /\ v.idempotencies = u.idempotencies
<1> DEFINE v == [u EXCEPT !.movements = @ \cup {m}]
<1>1. /\ v.movements = u.movements \cup {m}
      /\ v.customers = u.customers /\ v.open = u.open /\ v.ledger = u.ledger
      /\ v.payments = u.payments /\ v.sales = u.sales /\ v.journals = u.journals
      /\ v.outbox = u.outbox /\ v.idempotencies = u.idempotencies
      /\ v = [x \in TableNames |-> v[x]]
  BY TablesFields DEF TableNames
<1> HIDE DEF v
<1>2. v.movements \in SUBSET Movement
  BY <1>1, TablesFields
<1>3. v \in Tables
  BY <1>1, <1>2, TablesFields, TablesMade
<1>4. IsFiniteSet(u.movements \cup {m})
  BY FS_AddElement DEF Finite
<1>5. Finite(v)
  BY <1>1, <1>4 DEF Finite
<1> QED BY <1>1, <1>3, <1>5 DEF v

\* A line is taken.
LEMMA TakeLineStep ==
  ASSUME MemInv, NEW n \in Request, TakeLine(n)
  PROVE  MemInv'
<1> DEFINE r == req[n]
           o == r.arg
           i == Len(sale.lines) + 1
           line == o.lines[i]
           z == LineSums(o, sale)
           place == IF i = Len(o.lines) THEN "charge" ELSE "line"
           v == [next EXCEPT !.movements = @ \cup {MovementOf(n, o, sale)}]
           q == [r EXCEPT !.at = place]
<1>1. r.at = "line" /\ r.at \in Held
  BY DEF TakeLine, At, Held, Places
<1>2. /\ mu = n /\ r \in RequestType /\ Formed(r) /\ next \in Tables
      /\ Tx(n, r, state, shown, next, sale) /\ Settled(n, state, shown) /\ r.op = "complete"
      /\ o \in Order /\ Wanted(o)
  BY <1>1, HolderFacts DEF Formed, Selling, Held, Places
<1>3. /\ Finite(next) /\ next.customers = state.customers /\ next.open = state.open
      /\ SamePosts(state, next) /\ Keyed(r, state, next, NoSale)
      /\ Screened(o, state) /\ Sums(n, o, state, shown, next, sale) /\ LineEntries(sale)
      /\ next.ledger = state.ledger /\ next.payments = state.payments
      /\ Len(sale.lines) < Len(o.lines)
  BY <1>1, <1>2 DEF Tx, Selling, TxLines
<1>4. CASE \E err \in {"product_inactive", "invalid_command", "insufficient_stock"} : Fail(n, err)
  <2>1. \A err \in {"product_inactive", "invalid_command", "insufficient_stock"} : Reason(r, err)
    BY DEF Reason, Refusals
  <2> QED BY <1>1, <1>4, <2>1, HolderRefused
<1>5. CASE Overflow \in {z.subtotal, z.tax, z.total, z.cogs} /\ Fail(n, "overflow")
  <2>1. TooLarge(o)
    BY <1>2, <1>3, <1>5, LineTooLarge DEF Overflown
  <2>2. Reason(r, "overflow")
    BY <2>1 DEF Reason
  <2> QED BY <1>1, <1>5, <2>2, HolderRefused
<1>6. CASE /\ ~(Moved(next.movements, line.product) < line.quantity)
           /\ Overflow \notin {z.subtotal, z.tax, z.total, z.cogs}
           /\ sale' = z /\ Continue(n, place, v)
  <2>1. line \in LineType /\ Len(sale.lines) \in Nat /\ Len(o.lines) \in Nat
    <3>1. line \in LineType
      BY <1>2, <1>3, <1>6, LineAdds
    <3>2. sale \in SumsType /\ o.lines \in Seq(LineType)
      BY <1>2, <1>3, OrderTyped DEF Sums
    <3> QED BY <3>1, <3>2, SumsFields, LinesTyped
  <2>2. /\ line.product \in Product /\ line.quantity \in Nat
    BY <2>1, LineAmounts
  <2>3. MovementOf(n, o, sale) \in Movement
    <3> DEFINE m == Len(sale.lines) + 1
               k == -line.quantity
    <3>1. MovementOf(n, o, sale) =
            [source |-> n, line |-> m, product |-> line.product, quantity |-> k]
      BY DEF MovementOf
    <3>2. n \in Request \cup {0} /\ m \in Nat /\ k \in Int
      BY <2>1, <2>2
    <3> HIDE DEF m, k, line, v, q, z
    <3> QED BY <2>2, <3>1, <3>2 DEF Movement
  <2>4. /\ v \in Tables /\ Finite(v)
        /\ v.movements = next.movements \cup {MovementOf(n, o, sale)}
        /\ v.customers = next.customers /\ v.open = next.open /\ v.ledger = next.ledger
        /\ v.payments = next.payments /\ v.sales = next.sales /\ v.journals = next.journals
        /\ v.outbox = next.outbox /\ v.idempotencies = next.idempotencies
    BY <1>2, <1>3, <2>3, TablesMoved
  <2>5. Moved(next.movements, line.product) >= line.quantity
    <3>1. Moved(next.movements, line.product) \in Int
      <4>1. /\ next.movements \in SUBSET Movement /\ IsFiniteSet(next.movements)
            /\ {} \in SUBSET Movement /\ IsFiniteSet({}) /\ next.movements \cap {} = {}
        BY <1>2, <1>3, TablesFields, FS_EmptySet DEF Finite
      <4> QED BY <4>1, MovedJoined
    <3> QED BY <1>6, <2>2, <3>1
  <2>6. /\ Typed(state.movements, state.ledger, state.payments, state.journals)
        /\ Without(state, n) /\ Stocked(state, shown)
    <3>1. Settled(n, state, shown)
      BY <1>2
    <3>2. /\ Typed(state.movements, state.ledger, state.payments, state.journals)
          /\ Without(state, n)
      BY <3>1, SettledFacts
    <3>3. Stocked(state, shown)
      BY <3>1, SettledFacts
    <3> QED BY <3>2, <3>3
  <2> HIDE DEF v
  <2>7. /\ Sums(n, o, state, shown, v, z) /\ LineEntries(z)
        /\ Len(z.lines) = Len(sale.lines) + 1
    <3>1. v.movements = next.movements \cup
            {[source |-> n, line |-> Len(sale.lines) + 1, product |-> line.product,
              quantity |-> -line.quantity]}
      BY <2>4 DEF MovementOf
    <3>2. Overflow \notin {z.subtotal, z.tax, z.total, z.cogs}
      BY <1>6
    <3>3. /\ o \in Order /\ Wanted(o) /\ Sums(n, o, state, shown, next, sale)
          /\ LineEntries(sale) /\ Len(sale.lines) < Len(o.lines)
      BY <1>2, <1>3
    <3> HIDE DEF o, r
    <3> QED BY <2>5, <2>6, <3>1, <3>2, <3>3, LineTaken
  <2> HIDE DEF z
  <2>8. TxLines(n, o, state, shown, v, z)
    BY <1>3, <2>4, <2>7 DEF TxLines
  <2>9. /\ place \in Held \ {"read", "claim"} /\ place \in Selling /\ place \notin Undoing
        /\ place \in {"line", "charge"}
        /\ (place = "line" => Len(z.lines) < Len(o.lines))
        /\ (place = "charge" => Len(z.lines) = Len(o.lines))
    <3>1. i \in Nat /\ Len(o.lines) \in Nat /\ i <= Len(o.lines) /\ Len(z.lines) = i
      BY <1>3, <2>1, <2>7
    <3> HIDE DEF i
    <3> QED BY <3>1 DEF Held, Places, Selling, Undoing
  <2> HIDE DEF place
  <2>10. Formed(q) /\ q.at = place /\ q.op = r.op /\ q.key = r.key /\ q.arg = r.arg
    BY <1>1, <1>2, <2>9, FormedOn
  <2> HIDE DEF q
  <2>11. Keyed(q, state, v, NoSale) /\ SamePosts(state, v)
    BY <1>3, <2>4, <2>10 DEF Keyed, Key1, SamePosts
  <2>12. Tx(n, q, state, shown, v, z)
    BY <1>3, <2>4, <2>8, <2>9, <2>10, <2>11 DEF Tx
  <2>13. Tx(n, q, state, shown, v, sale')
    BY <1>6, <2>12
  <2> QED BY <1>1, <1>6, <2>4, <2>9, <2>10, <2>13, HolderContinues DEF q
<1> QED BY <1>4, <1>5, <1>6, TakeLineCases

\* What a customer owes is not negative, and not beyond every limit.
LEMMA RowFields ==
  ASSUME NEW row \in SaleRow
  PROVE  /\ row.type \in {"SALE", "REVERSAL"} /\ row.status \in {"POSTED", "REVERSED"}
         /\ row.of \in SaleId \cup {NoSale} /\ row.customer \in Customer /\ row.credit \in BOOLEAN
         /\ row.lines \in Seq(LineType) /\ row.subtotal \in Amount /\ row.tax \in Amount
         /\ row.total \in Amount /\ row.cogs \in Amount /\ row # NoSale
         /\ row.subtotal \in Nat /\ row.tax \in Nat /\ row.total \in Nat /\ row.cogs \in Nat
<1>1. /\ row.type \in {"SALE", "REVERSAL"} /\ row.status \in {"POSTED", "REVERSED"}
      /\ row.of \in SaleId \cup {NoSale} /\ row.customer \in Customer /\ row.credit \in BOOLEAN
      /\ row.lines \in Seq([product : Product, quantity : Amount \ {0}])
      /\ row.subtotal \in Amount /\ row.tax \in Amount
      /\ row.total \in Amount /\ row.cogs \in Amount
  BY DEF SaleRow
<1>2. row # NoSale
  BY NoSaleAssumption
<1>3. \A m \in Amount : m \in Nat
  BY MoneyAssumption DEF Amount
<1> QED BY <1>1, <1>2, <1>3 DEF LineType

\* The record the books show of a sale.
LEMMA BooksSale ==
  ASSUME NEW t, NEW s \in SaleId
  PROVE  /\ t.sales[s] = NoSale => Books(t).sales[s] = NoSale
         /\ t.sales[s] # NoSale =>
              /\ Books(t).sales[s] =
                   [type |-> t.sales[s].type, status |-> t.sales[s].status,
                    of |-> t.sales[s].of, command |-> Recorded(t.sales[s])]
              /\ Books(t).sales[s].type = t.sales[s].type
              /\ Books(t).sales[s].status = t.sales[s].status
              /\ Books(t).sales[s].of = t.sales[s].of
              /\ Books(t).sales[s].command = Recorded(t.sales[s])
<1> DEFINE x == [type |-> t.sales[s].type, status |-> t.sales[s].status,
                 of |-> t.sales[s].of, command |-> Recorded(t.sales[s])]
<1>1. Books(t).sales[s] = IF t.sales[s] = NoSale THEN NoSale ELSE x
  BY DEF Books
<1>2. /\ x.type = t.sales[s].type /\ x.status = t.sales[s].status
      /\ x.of = t.sales[s].of /\ x.command = Recorded(t.sales[s])
  OBVIOUS
<1>3. x = [type |-> t.sales[s].type, status |-> t.sales[s].status,
           of |-> t.sales[s].of, command |-> Recorded(t.sales[s])]
  OBVIOUS
<1> HIDE DEF x
<1> QED BY <1>1, <1>2, <1>3

\* What stands on a customer's bills is a natural number.
LEMMA BillsTyped ==
  ASSUME NEW t \in Tables, NEW b, b = Books(t), NEW c
  PROVE  /\ Bills(b, c) \in [SaleId -> Nat] /\ IsFiniteSet(SaleId)
         /\ SumFunction(Bills(b, c)) \in Nat
<1>1. IsFiniteSet(SaleId)
  BY RequestAssumption, FS_Interval DEF SaleId, Request
<1>2. ASSUME NEW s \in SaleId
      PROVE  Bill(b, s, c) \in Nat
  <2>1. CASE ~Standing(b, s, c)
    BY <2>1 DEF Bill
  <2>2. CASE Standing(b, s, c)
    <3>1. t.sales[s] # NoSale
      BY <2>2, BooksSale DEF Standing
    <3>2. t.sales[s] \in SaleRow
      BY <3>1, TablesFields
    <3>3. /\ b.sales[s].command.net = t.sales[s].subtotal
          /\ b.sales[s].command.tax = t.sales[s].tax
      <4>1. b.sales[s].command = Recorded(t.sales[s])
        BY <3>1, BooksSale
      <4>2. /\ Recorded(t.sales[s]).net = t.sales[s].subtotal
            /\ Recorded(t.sales[s]).tax = t.sales[s].tax
        BY DEF Recorded
      <4> QED BY <4>1, <4>2
    <3>4. t.sales[s].subtotal \in Nat /\ t.sales[s].tax \in Nat
      BY <3>2, RowFields
    <3> QED BY <2>2, <3>3, <3>4 DEF Bill
  <2> QED BY <2>1, <2>2
<1>3. Bills(b, c) \in [SaleId -> Nat]
  BY <1>2 DEF Bills
<1> DEFINE f == Bills(b, c)
<1>4. DOMAIN f = SaleId /\ \A s \in SaleId : f[s] \in Nat
  BY <1>3
<1> HIDE DEF f
<1>5. SumFunction(f) \in Nat
  <2>1. SumFunctionOnSet(f, SaleId) \in Nat
    BY <1>1, <1>4, SumGrows
  <2> QED BY <1>4, <2>1 DEF SumFunction
<1> QED BY <1>1, <1>3, <1>5 DEF f

\* What a customer owes is not negative, and within some limit.
LEMMA ExposureNatural ==
  ASSUME NEW n \in Request, NEW t, NEW b, Settled(n, t, b), NEW c \in Customer
  PROVE  /\ b.exposure[c] \in Nat
         /\ b.exposure[c] = 0 \/ \E l \in Terms : b.exposure[c] <= l.limit
<1>1. t \in Tables /\ b = Books(t) /\ ExposureInv(b)
  BY DEF Settled
<1>2. SumFunction(Bills(b, c)) \in Nat
  BY <1>1, BillsTyped
<1> QED BY <1>1, <1>2 DEF ExposureInv

\* The ways Charge may go.
LEMMA ChargeCases ==
  ASSUME NEW n, Charge(n)
  PROVE  LET o == req[n].arg
             exposure == checkedAdd(CreditExposure(o.customer), sale.total) IN
         \/ o.credit /\ exposure = Overflow /\ Fail(n, "overflow")
         \/ Fail(n, "credit_limit")
         \/ /\ o.credit => /\ exposure # Overflow
                           /\ ~(exposure > next.customers[o.customer].limit)
            /\ sale' = ChargeSums(o, sale)
            /\ Continue(n, "post",
                 IF o.credit
                 THEN [next EXCEPT !.ledger = @ \cup
                        {[source |-> n, customer |-> o.customer, amount |-> sale.total]}]
                 ELSE [next EXCEPT !.payments = @ \cup {[sale |-> n, amount |-> sale.total]}])
<1> DEFINE o == req[n].arg
           exposure == checkedAdd(CreditExposure(o.customer), sale.total)
           large == o.credit /\ exposure = Overflow
           beyond == o.credit /\ exposure > next.customers[o.customer].limit
           tests == << <<large, "overflow">>, <<beyond, "credit_limit">> >>
           Pass ==
             /\ sale' = ChargeSums(o, sale)
             /\ Continue(n, "post",
                 IF o.credit
                 THEN [next EXCEPT !.ledger = @ \cup
                        {[source |-> n, customer |-> o.customer, amount |-> sale.total]}]
                 ELSE [next EXCEPT !.payments = @ \cup {[sale |-> n, amount |-> sale.total]}])
<1>1. IF FirstError(tests) = "none" THEN Pass ELSE Fail(n, FirstError(tests))
  BY DEF Charge, Unless, ChargeSums
<1>2. /\ tests[1][1] <=> large
      /\ tests[2][1] <=> beyond
      /\ DOMAIN tests = 1..2 /\ tests[1][2] = "overflow" /\ tests[2][2] = "credit_limit"
  <2> HIDE DEF large, beyond
  <2>1. tests[1][1] <=> large
    OBVIOUS
  <2>2. tests[2][1] <=> beyond
    OBVIOUS
  <2>3. DOMAIN tests = 1..2 /\ tests[1][2] = "overflow" /\ tests[2][2] = "credit_limit"
    OBVIOUS
  <2> HIDE DEF tests
  <2> QED BY <2>1, <2>2, <2>3
<1> HIDE DEF tests, Pass, large, beyond
<1>3. CASE FirstError(tests) = "none" /\ \A j \in 1..2 : ~tests[j][1]
  <2>1. Pass /\ ~large /\ ~beyond
    BY <1>1, <1>2, <1>3
  <2> QED BY <2>1 DEF Pass, large, beyond
<1>4. CASE \E j \in 1..2 : tests[j][1] /\ FirstError(tests) = tests[j][2]
  <2>1. PICK j \in 1..2 : tests[j][1] /\ FirstError(tests) = tests[j][2]
    BY <1>4
  <2>2. j = 1 \/ j = 2
    OBVIOUS
  <2>3. \/ large /\ FirstError(tests) = "overflow"
        \/ FirstError(tests) = "credit_limit"
    BY <1>2, <2>1, <2>2
  <2>4. \/ large /\ Fail(n, "overflow")
        \/ Fail(n, "credit_limit")
    BY <1>1, <2>3
  <2> QED BY <2>4 DEF large
<1>5. \/ FirstError(tests) = "none" /\ \A j \in 1..2 : ~tests[j][1]
      \/ \E j \in 1..2 : tests[j][1] /\ FirstError(tests) = tests[j][2]
  BY <1>2, FirstErrorOf
<1> QED BY <1>3, <1>4, <1>5

\* A clone with what the customer owes, or has paid.
TablesCharged(u, n, o, total) ==
  IF o.credit
  THEN [u EXCEPT !.ledger = @ \cup
         {[source |-> n, customer |-> o.customer, amount |-> total]}]
  ELSE [u EXCEPT !.payments = @ \cup {[sale |-> n, amount |-> total]}]

\* A clone whose ledger and payments alone are written.
LEMMA ChargedTables ==
  ASSUME NEW u \in Tables, Finite(u), NEW n \in Request, NEW o \in Order, NEW total \in Amount
  PROVE  LET v == TablesCharged(u, n, o, total) IN
         /\ v \in Tables /\ Finite(v) /\ v.movements = u.movements
         /\ v.ledger = u.ledger \cup Debt(n, o, total)
         /\ v.payments = u.payments \cup Payments(n, o, total)
         /\ v.customers = u.customers /\ v.open = u.open /\ v.sales = u.sales
         /\ v.journals = u.journals /\ v.outbox = u.outbox
         /\ v.idempotencies = u.idempotencies
<1> DEFINE v == TablesCharged(u, n, o, total)
<1>1. /\ v.movements = u.movements
      /\ v.ledger = u.ledger \cup Debt(n, o, total)
      /\ v.payments = u.payments \cup Payments(n, o, total)
      /\ v.customers = u.customers /\ v.open = u.open /\ v.sales = u.sales
      /\ v.journals = u.journals /\ v.outbox = u.outbox
      /\ v.idempotencies = u.idempotencies
      /\ v = [x \in TableNames |-> v[x]]
  <2>1. CASE o.credit
    BY <2>1, TablesFields DEF TableNames, TablesCharged, Debt, Payments
  <2>2. CASE ~o.credit
    BY <2>2, TablesFields DEF TableNames, TablesCharged, Debt, Payments
  <2> QED BY <2>1, <2>2
<1> HIDE DEF v
<1>2. /\ Debt(n, o, total) \in SUBSET LedgerRow /\ IsFiniteSet(Debt(n, o, total))
      /\ Payments(n, o, total) \in SUBSET PaymentRow /\ IsFiniteSet(Payments(n, o, total))
  <2>1. total \in Int /\ o.customer \in Customer
    BY OrderTyped, MoneyAssumption DEF Amount
  <2> QED BY <2>1, DebtAndPayment
<1>3. v.ledger \in SUBSET LedgerRow /\ v.payments \in SUBSET PaymentRow
  BY <1>1, <1>2, TablesFields
<1>4. v \in Tables
  BY <1>1, <1>3, TablesFields, TablesMade
<1>5. /\ IsFiniteSet(u.ledger \cup Debt(n, o, total))
      /\ IsFiniteSet(u.payments \cup Payments(n, o, total))
  BY <1>2, FS_Union DEF Finite
<1>6. Finite(v)
  BY <1>1, <1>5 DEF Finite
<1> QED BY <1>1, <1>4, <1>6 DEF v

\* The sale is charged or paid.
LEMMA ChargeStep ==
  ASSUME MemInv, NEW n \in Request, Charge(n)
  PROVE  MemInv'
<1> DEFINE r == req[n]
           o == r.arg
           z == ChargeSums(o, sale)
           owes == shown.exposure[o.customer]
           exposure == checkedAdd(CreditExposure(o.customer), sale.total)
           v == TablesCharged(next, n, o, sale.total)
           q == [r EXCEPT !.at = "post"]
<1>1. r.at = "charge" /\ r.at \in Held /\ "post" \in Held
  BY DEF Charge, At, Held, Places
<1>2. /\ mu = n /\ r \in RequestType /\ Formed(r) /\ next \in Tables
      /\ Tx(n, r, state, shown, next, sale) /\ Settled(n, state, shown) /\ r.op = "complete"
      /\ o \in Order /\ Wanted(o)
  BY <1>1, HolderFacts DEF Formed, Selling, Held, Places
<1>3. /\ Finite(next) /\ next.customers = state.customers /\ next.open = state.open
      /\ SamePosts(state, next) /\ Keyed(r, state, next, NoSale)
      /\ Screened(o, state) /\ Sums(n, o, state, shown, next, sale) /\ LineEntries(sale)
      /\ next.ledger = state.ledger /\ next.payments = state.payments
      /\ Len(sale.lines) = Len(o.lines)
  BY <1>1, <1>2 DEF Tx, Selling, TxLines
<1>4. /\ sale.total \in Amount /\ sale.total \in Nat /\ sale.total = Exact(o).net + Exact(o).tax
      /\ Exact(o).net \in Nat /\ Exact(o).tax \in Nat
  <2>1. sale.total \in Amount /\ sale.total = Exact(o).net + Exact(o).tax
    BY <1>2, <1>3, SumsComplete
  <2>2. o.lines \in Seq(LineType) /\ o.lines # << >>
    BY <1>2, OrderTyped
  <2> QED BY <2>1, <2>2, ExactTyped, MoneyAssumption DEF Amount
<1>5. /\ owes \in Nat /\ owes = CreditExposure(o.customer)
      /\ owes = 0 \/ \E l \in Terms : owes <= l.limit
  <2>1. o.customer \in Customer
    BY <1>2, OrderTyped
  <2>2. owes = CreditExposure(o.customer)
    BY <1>2, <1>3, <2>1, SettledFacts DEF CreditExposure
  <2> QED BY <1>2, <2>1, <2>2, ExposureNatural
<1>6. /\ exposure = Overflow <=> owes + sale.total > MaxInt
      /\ exposure # Overflow => exposure = owes + sale.total
  <2> DEFINE m == sale.total
             x == owes
  <2>1. m \in Nat /\ x \in Nat /\ MaxInt \in Nat /\ exposure = checkedAdd(x, m)
    BY <1>4, <1>5, MoneyAssumption
  <2> HIDE DEF m, x
  <2>2. checkedAdd(x, m) = IF x > MaxInt - m THEN Overflow ELSE x + m
    BY <2>1 DEF checkedAdd
  <2>3. /\ checkedAdd(x, m) = Overflow <=> x + m > MaxInt
        /\ checkedAdd(x, m) # Overflow => checkedAdd(x, m) = x + m
    BY <2>1, <2>2 DEF Overflow
  <2> QED BY <2>1, <2>3 DEF m, x
<1> HIDE DEF exposure, owes
<1>7. CASE o.credit /\ exposure = Overflow /\ Fail(n, "overflow")
  <2>1. owes + sale.total > MaxInt
    BY <1>6, <1>7
  <2>2. TooLarge(o)
    <3>1. sale.total <= MaxInt /\ MaxInt \in Nat
      BY <1>4, MoneyAssumption DEF Amount
    <3>2. owes # 0
      BY <1>4, <2>1, <3>1
    <3>3. PICK l \in Terms : owes <= l.limit
      BY <1>5, <3>2
    <3>4. l.limit \in Nat
      BY SeedAssumption
    <3>5. l.limit + Exact(o).net + Exact(o).tax > MaxInt
      BY <1>4, <1>5, <2>1, <3>1, <3>3, <3>4
    <3> QED BY <1>7, <3>5 DEF TooLarge
  <2>3. Reason(r, "overflow")
    BY <2>2 DEF Reason
  <2> QED BY <1>1, <1>7, <2>3, HolderRefused
<1>8. CASE Fail(n, "credit_limit")
  <2>1. Reason(r, "credit_limit")
    BY DEF Reason, Refusals
  <2> QED BY <1>1, <1>8, <2>1, HolderRefused
<1>9. CASE /\ o.credit => /\ exposure # Overflow
                          /\ ~(exposure > next.customers[o.customer].limit)
           /\ sale' = z /\ Continue(n, "post", v)
  <2>1. /\ v \in Tables /\ Finite(v) /\ v.movements = next.movements
        /\ v.ledger = next.ledger \cup Debt(n, o, sale.total)
        /\ v.payments = next.payments \cup Payments(n, o, sale.total)
        /\ v.customers = next.customers /\ v.open = next.open /\ v.sales = next.sales
        /\ v.journals = next.journals /\ v.outbox = next.outbox
        /\ v.idempotencies = next.idempotencies
    BY <1>2, <1>3, <1>4, ChargedTables
  <2> HIDE DEF v
  <2>2. /\ Sums(n, o, state, shown, v, z) /\ Len(z.lines) = Len(o.lines)
        /\ AllEntries(o, z) /\ z.total = sale.total
    BY <1>2, <1>3, <2>1, ChargedEntries
  <2> HIDE DEF z
  <2>3. ASSUME o.credit
        PROVE  /\ shown.exposure[o.customer] >= 0
               /\ shown.exposure[o.customer] + z.total <= state.customers[o.customer].limit
    <3>1. exposure = owes + sale.total
      BY <1>6, <1>9, <2>3
    <3>2. state.customers[o.customer].limit \in Nat
      <4>1. state.customers \in [Customer -> Terms] /\ o.customer \in Customer
        BY <1>2, TablesFields, OrderTyped DEF Settled
      <4> QED BY <4>1, SeedAssumption
    <3>3. ~(owes + sale.total > state.customers[o.customer].limit)
      BY <1>3, <1>9, <2>3, <3>1
    <3> QED BY <1>4, <1>5, <2>2, <3>2, <3>3 DEF owes
  <2>4. Charged(n, o, state, shown, v, z)
    BY <1>3, <2>1, <2>2, <2>3 DEF Charged
  <2>5. Formed(q) /\ q.at = "post" /\ q.op = r.op /\ q.key = r.key /\ q.arg = r.arg
    BY <1>1, <1>2, FormedOn DEF Held, Places, Selling, Undoing
  <2> HIDE DEF q
  <2>6. Keyed(q, state, v, NoSale) /\ SamePosts(state, v)
    BY <1>3, <2>1, <2>5 DEF Keyed, Key1, SamePosts
  <2>7. Tx(n, q, state, shown, v, z)
    BY <1>3, <2>1, <2>4, <2>5, <2>6 DEF Tx, Selling, Undoing
  <2>8. Tx(n, q, state, shown, v, sale')
    BY <1>9, <2>7
  <2> QED BY <1>1, <1>9, <2>1, <2>5, <2>8, HolderContinues DEF q
<1> QED BY <1>7, <1>8, <1>9, ChargeCases DEF exposure, TablesCharged

-----------------------------------------------------------------------------
(* The last writes of a request *)

\* No test fails, no error.
LEMMA NoneFails ==
  ASSUME NEW k \in Nat, NEW tests, DOMAIN tests = 1..k, \A i \in 1..k : ~tests[i][1]
  PROVE  FirstError(tests) = "none"
BY FirstErrorOf

\* What the store guards its last writes against.
Postable(n, entries) ==
  /\ Validate(entries) /\ next.sales[n] = NoSale
  /\ \A j \in next.journals : j.source # n
  /\ next.idempotencies[Slot(n)] = [request |-> req[n].arg, result |-> NoSale]

\* PostErrors finds nothing, in either callback: the guards of the last writes
\* never turn a request away.
LEMMA NoPostError ==
  ASSUME NEW n, NEW entries, Postable(n, entries)
  PROVE  LET tests == PostErrors(n, entries) IN
         /\ DOMAIN tests = 1..4 /\ \A i \in 1..4 : ~tests[i][1]
<1> DEFINE A == ~Validate(entries)
           B == next.sales[n] # NoSale
           C == \E j \in next.journals : j.source = n
           D == next.idempotencies[Slot(n)] # [request |-> req[n].arg, result |-> NoSale]
           tests == << <<A, "unbalanced">>, <<B, "duplicate sale id">>, <<C, "duplicate journal">>,
                       <<D, "invalid idempotency completion">> >>
<1>1. PostErrors(n, entries) = tests
  BY DEF PostErrors
<1>2. ~A /\ ~B /\ ~C /\ ~D
  BY DEF Postable
<1> HIDE DEF A, B, C, D
<1>3. tests[1][1] <=> A
  OBVIOUS
<1>4. tests[2][1] <=> B
  OBVIOUS
<1>5. tests[3][1] <=> C
  OBVIOUS
<1>6. tests[4][1] <=> D
  OBVIOUS
<1>7. DOMAIN tests = 1..4
  OBVIOUS
<1> HIDE DEF tests
<1>8. ASSUME NEW i \in 1..4
      PROVE  ~tests[i][1]
  <2>1. i = 1 \/ i = 2 \/ i = 3 \/ i = 4
    OBVIOUS
  <2> QED BY <1>2, <1>3, <1>4, <1>5, <1>6, <2>1
<1> QED BY <1>1, <1>7, <1>8

\* A clone with the rows of a request's end, and its key completed.
LEMMA PostedTables ==
  ASSUME NEW n \in Request, next \in Tables, Finite(next), state \in Tables,
         req[n] \in RequestType, Formed(req[n]), req[n].at \in Held, req[n].op # "read",
         Keyed(req[n], state, next, NoSale),
         NEW row \in SaleRow, NEW entries \in Seq(JournalEntry), NEW event \in Event
  PROVE  LET v == Posted(n, row, entries, event) IN
         /\ v \in Tables /\ Finite(v) /\ v.customers = next.customers /\ v.open = next.open
         /\ SameRows(next, v) /\ v.sales = [next.sales EXCEPT ![n] = row]
         /\ v.journals = next.journals \cup {[source |-> n, entries |-> entries]}
         /\ v.outbox = next.outbox \cup {event} /\ Keyed(req[n], state, v, n)
<1> DEFINE v == Posted(n, row, entries, event)
           r == req[n]
           slot == <<r.op, r.key>>
           old == next.idempotencies
<1>1. /\ slot \in KeySlot /\ slot = Slot(n) /\ n \in SaleId
      /\ Key1(r, n) \in KeyRow
  BY SlotTyped DEF Slot, SaleId
<1>2. /\ DOMAIN next = TableNames /\ old \in [KeySlot -> KeyRow \cup {NoSale}]
      /\ next.sales \in [SaleId -> SaleRow \cup {NoSale}]
      /\ state.idempotencies \in [KeySlot -> KeyRow \cup {NoSale}]
  BY TablesFields
<1>3. old = [state.idempotencies EXCEPT ![slot] = Key1(r, NoSale)]
  BY DEF Keyed
<1>4. old[slot] = Key1(r, NoSale)
  BY <1>1, <1>2, <1>3
<1> HIDE DEF slot
<1>5. /\ v.customers = next.customers /\ v.open = next.open
      /\ v.movements = next.movements /\ v.ledger = next.ledger /\ v.payments = next.payments
      /\ v.sales = [next.sales EXCEPT ![n] = row]
      /\ v.journals = next.journals \cup {[source |-> n, entries |-> entries]}
      /\ v.outbox = next.outbox \cup {event}
      /\ v.idempotencies = [old EXCEPT ![slot] = [@ EXCEPT !.result = n]]
      /\ v = [x \in TableNames |-> v[x]]
  BY <1>1, <1>2 DEF Posted, TableNames
<1> HIDE DEF v, old
<1>6. [old[slot] EXCEPT !.result = n] = Key1(r, n)
  BY <1>4 DEF Key1
<1>7. v.idempotencies = [state.idempotencies EXCEPT ![slot] = Key1(r, n)]
  <2>1. v.idempotencies = [old EXCEPT ![slot] = Key1(r, n)]
    BY <1>1, <1>2, <1>5, <1>6 DEF old
  <2> QED BY <1>1, <1>2, <1>3, <2>1 DEF old
<1>8. Keyed(r, state, v, n)
  BY <1>7 DEF Keyed, slot
<1>9. v.idempotencies \in [KeySlot -> KeyRow \cup {NoSale}]
  BY <1>1, <1>2, <1>7
<1>10. v.sales \in [SaleId -> SaleRow \cup {NoSale}]
  BY <1>1, <1>2, <1>5
<1>11. [source |-> n, entries |-> entries] \in Journal
  BY DEF Journal
<1>12. v.journals \in SUBSET Journal /\ v.outbox \in SUBSET Event
  BY <1>5, <1>11, TablesFields
<1>13. v \in Tables
  BY <1>5, <1>9, <1>10, <1>12, TablesFields, TablesMade
<1>14. IsFiniteSet(next.journals \cup {[source |-> n, entries |-> entries]})
  BY FS_AddElement DEF Finite
<1>15. Finite(v)
  BY <1>5, <1>14 DEF Finite
<1> QED BY <1>5, <1>8, <1>13, <1>15 DEF v, SameRows

\* What Charge left is about the rows alone.
LEMMA ChargedSame ==
  ASSUME NEW n, NEW o, NEW t, NEW b, NEW u, NEW v, NEW s, Charged(n, o, t, b, u, s),
         SameRows(u, v)
  PROVE  Charged(n, o, t, b, v, s)
<1>1. Sums(n, o, t, b, v, s)
  BY DEF Charged, Sums, SameRows
<1> QED BY <1>1 DEF Charged, SameRows

\* The sale is posted.
LEMMA PostSaleStep ==
  ASSUME MemInv, NEW n \in Request, PostSale(n)
  PROVE  MemInv'
<1> DEFINE r == req[n]
           o == r.arg
           row == SaleRowOf(o, sale)
           event == [type |-> "sale.posted", sale |-> n, cause |-> r.key]
           v == Posted(n, row, sale.entries, event)
<1>1. r.at = "post" /\ r.at \in Held
  BY DEF PostSale, At, Held, Places
<1>2. /\ mu = n /\ r \in RequestType /\ Formed(r) /\ next \in Tables
      /\ Tx(n, r, state, shown, next, sale) /\ Settled(n, state, shown) /\ r.op = "complete"
      /\ o \in Order /\ Wanted(o) /\ r.key \in Key /\ state \in Tables
  BY <1>1, HolderFacts DEF Formed, Selling, Held, Places, Settled
<1>3. /\ Finite(next) /\ next.customers = state.customers /\ next.open = state.open
      /\ SamePosts(state, next) /\ Keyed(r, state, next, NoSale)
      /\ Charged(n, o, state, shown, next, sale)
  BY <1>1, <1>2 DEF Tx, Selling
<1>4. /\ Sums(n, o, state, shown, next, sale) /\ Len(sale.lines) = Len(o.lines)
      /\ AllEntries(o, sale) /\ sale \in SumsType
  BY <1>3 DEF Charged, Sums
<1>5. row \in SaleRow
  BY <1>2, <1>4, SumsComplete
<1>6. sale.entries \in Seq(JournalEntry) /\ Validate(sale.entries)
  <2>1. sale.entries \in Seq(JournalEntry)
    BY <1>4, SumsFields
  <2>2. Sound(sale.entries)
    BY <1>4 DEF AllEntries
  <2> QED BY <2>1, <2>2, SoundIsValid
<1>7. event \in Event /\ n \in SaleId
  BY <1>2 DEF Event, SaleId
<1> HIDE DEF row, event
<1>8. Postable(n, sale.entries)
  <2>1. next.sales[n] = NoSale
    BY <1>2, <1>3 DEF Settled, SamePosts
  <2>2. \A j \in next.journals : j.source # n
    BY <1>2, <1>3, SettledFacts DEF Without, SamePosts
  <2>3. next.idempotencies[Slot(n)] = [request |-> r.arg, result |-> NoSale]
    <3>1. Slot(n) \in KeySlot /\ Slot(n) = <<r.op, r.key>>
      BY <1>1, <1>2, SlotTyped DEF Slot
    <3>2. state.idempotencies \in [KeySlot -> KeyRow \cup {NoSale}]
      BY <1>2, TablesFields
    <3>3. next.idempotencies = [state.idempotencies EXCEPT ![Slot(n)] = Key1(r, NoSale)]
      BY <1>3, <3>1 DEF Keyed
    <3> QED BY <3>1, <3>2, <3>3 DEF Key1
  <2> QED BY <1>6, <2>1, <2>2, <2>3 DEF Postable
<1>9. Return(n, v, n)
  <2> DEFINE tests == PostErrors(n, sale.entries)
  <2>1. FirstError(tests) = "none"
    <3>1. DOMAIN tests = 1..4 /\ \A i \in 1..4 : ~tests[i][1]
      BY <1>8, NoPostError
    <3> QED BY <3>1, NoneFails
  <2>2. IF FirstError(tests) = "none" THEN Return(n, v, n) ELSE Fail(n, FirstError(tests))
    BY DEF PostSale, Unless, row, event, SaleRowOf
  <2> QED BY <2>1, <2>2
<1>10. /\ v \in Tables /\ Finite(v) /\ v.customers = next.customers /\ v.open = next.open
       /\ SameRows(next, v) /\ v.sales = [next.sales EXCEPT ![n] = row]
       /\ v.journals = next.journals \cup {[source |-> n, entries |-> sale.entries]}
       /\ v.outbox = next.outbox \cup {event} /\ Keyed(r, state, v, n)
  BY <1>1, <1>2, <1>3, <1>5, <1>6, <1>7, PostedTables
<1> HIDE DEF v
<1>11. Charged(n, o, state, shown, v, sale)
  BY <1>3, <1>10, ChargedSame
<1>12. ASSUME NEW q, q.op = r.op, q.key = r.key, q.arg = r.arg, q.result = n
       PROVE  TxEnd(n, q, state, shown, v, sale)
  <2>1. Keyed(q, state, v, n)
    BY <1>10, <1>12 DEF Keyed, Key1
  <2>2. SoldEnd(n, q, state, shown, v, sale)
    BY <1>2, <1>3, <1>10, <1>11, <1>12 DEF SoldEnd, SamePosts, row, event
  <2> QED BY <1>12, <2>1, <2>2 DEF TxEnd
<1> QED BY <1>1, <1>3, <1>7, <1>9, <1>10, <1>12, HolderReturns

\* No identifier could be generated.
LEMMA NoIdentifierStep ==
  ASSUME MemInv, NEW n \in Request, NoIdentifier(n)
  PROVE  MemInv'
<1>1. req[n].at \in Held
  BY DEF NoIdentifier, Held, Places
<1>2. Reason(req[n], "no identifier")
  BY DEF Reason
<1>3. faults' \in 0..MaxFaults
  <2>1. faults \in 0..MaxFaults /\ MaxFaults \in Nat
    BY <1>1, HolderFacts, SeedAssumption
  <2>2. faults < MaxFaults /\ faults' = faults + 1
    BY DEF NoIdentifier
  <2> QED BY <2>1, <2>2
<1> QED BY <1>1, <1>2, <1>3, HolderFails DEF NoIdentifier

-----------------------------------------------------------------------------
(* The callback of Reverse *)

\* The ways Undo may go.
LEMMA UndoCases ==
  ASSUME NEW n, Undo(n)
  PROVE  LET s == req[n].arg
             moved == {row \in next.movements : row.source = s}
             owed == {row \in next.ledger : row.source = s}
             paid == {row \in next.payments : row.sale = s} IN
         \/ Fail(n, "not_found")
         \/ /\ \E j \in next.journals : j.source = s
            /\ UNCHANGED sale
            /\ Continue(n, "unpost", [next EXCEPT
                 !.movements = @ \cup TurnedMoves(n, moved),
                 !.ledger = @ \cup TurnedDebts(n, owed),
                 !.payments = @ \cup TurnedPayments(n, paid)])
<1> DEFINE s == req[n].arg
           moved == {row \in next.movements : row.source = s}
           owed == {row \in next.ledger : row.source = s}
           paid == {row \in next.payments : row.sale = s}
           still == moved = {}
           blank == \A j \in next.journals : j.source # s
           tests == << <<still, "not_found">>, <<blank, "not_found">> >>
           Pass ==
             /\ UNCHANGED sale
             /\ Continue(n, "unpost", [next EXCEPT
                  !.movements = @ \cup TurnedMoves(n, moved),
                  !.ledger = @ \cup TurnedDebts(n, owed),
                  !.payments = @ \cup TurnedPayments(n, paid)])
<1>1. IF FirstError(tests) = "none" THEN Pass ELSE Fail(n, FirstError(tests))
  BY DEF Undo, Unless, TurnedMoves, TurnedDebts, TurnedPayments
<1>2. /\ tests[2][1] <=> blank
      /\ DOMAIN tests = 1..2 /\ tests[1][2] = "not_found" /\ tests[2][2] = "not_found"
  <2> HIDE DEF still, blank
  <2>1. tests[2][1] <=> blank
    OBVIOUS
  <2>2. DOMAIN tests = 1..2 /\ tests[1][2] = "not_found" /\ tests[2][2] = "not_found"
    OBVIOUS
  <2> HIDE DEF tests
  <2> QED BY <2>1, <2>2
<1> HIDE DEF tests, Pass, still, blank
<1>3. CASE FirstError(tests) = "none" /\ \A j \in 1..2 : ~tests[j][1]
  <2>1. Pass /\ ~blank
    BY <1>1, <1>2, <1>3
  <2> QED BY <2>1 DEF Pass, blank
<1>4. CASE \E j \in 1..2 : tests[j][1] /\ FirstError(tests) = tests[j][2]
  <2>1. PICK j \in 1..2 : tests[j][1] /\ FirstError(tests) = tests[j][2]
    BY <1>4
  <2>2. j = 1 \/ j = 2
    OBVIOUS
  <2>3. FirstError(tests) = "not_found"
    BY <1>2, <2>1, <2>2
  <2> QED BY <1>1, <2>3
<1>5. \/ FirstError(tests) = "none" /\ \A j \in 1..2 : ~tests[j][1]
      \/ \E j \in 1..2 : tests[j][1] /\ FirstError(tests) = tests[j][2]
  BY <1>2, FirstErrorOf
<1> QED BY <1>3, <1>4, <1>5

\* What the rows of request x amount to, turned over to request n.
LEMMA TurnedTyped ==
  ASSUME NEW t, Typed(t.movements, t.ledger, t.payments, t.journals),
         NEW n \in Request, NEW x \in Request
  PROVE  LET D == TurnedMoves(n, {row \in t.movements : row.source = x})
             O == TurnedDebts(n, {row \in t.ledger : row.source = x})
             P == TurnedPayments(n, {row \in t.payments : row.sale = x}) IN
         /\ D \in SUBSET Movement /\ IsFiniteSet(D) /\ O \in SUBSET LedgerRow /\ IsFiniteSet(O)
         /\ P \in SUBSET PaymentRow /\ IsFiniteSet(P)
<1> DEFINE A == {row \in t.movements : row.source = x}
           B == {row \in t.ledger : row.source = x}
           C == {row \in t.payments : row.sale = x}
<1>1. /\ A \in SUBSET Movement /\ IsFiniteSet(A) /\ \A row \in A : row.source = x
      /\ B \in SUBSET LedgerRow /\ IsFiniteSet(B) /\ \A row \in B : row.source = x
      /\ C \in SUBSET PaymentRow /\ IsFiniteSet(C) /\ \A row \in C : row.sale = x
  BY FS_Subset DEF Typed
<1> HIDE DEF A, B, C
<1>2. TurnedMoves(n, A) \in SUBSET Movement /\ IsFiniteSet(TurnedMoves(n, A))
  BY <1>1, TurnedMovesSum
<1>3. TurnedDebts(n, B) \in SUBSET LedgerRow /\ IsFiniteSet(TurnedDebts(n, B))
  BY <1>1, TurnedDebtsSum
<1>4. TurnedPayments(n, C) \in SUBSET PaymentRow /\ IsFiniteSet(TurnedPayments(n, C))
  BY <1>1, TurnedPaymentsSum
<1> QED BY <1>2, <1>3, <1>4 DEF A, B, C

\* A clone to which rows are appended.
Joined(u, D, O, P) ==
  [u EXCEPT !.movements = @ \cup D, !.ledger = @ \cup O, !.payments = @ \cup P]

\* A clone with rows of stock, ledger and payments appended.
LEMMA TablesJoined ==
  ASSUME NEW u \in Tables, Finite(u),
         NEW D \in SUBSET Movement, NEW O \in SUBSET LedgerRow, NEW P \in SUBSET PaymentRow,
         IsFiniteSet(D), IsFiniteSet(O), IsFiniteSet(P)
  PROVE  LET v == Joined(u, D, O, P) IN
         /\ v \in Tables /\ Finite(v) /\ v.movements = u.movements \cup D
         /\ v.ledger = u.ledger \cup O /\ v.payments = u.payments \cup P
         /\ v.customers = u.customers /\ v.open = u.open /\ SamePosts(u, v)
         /\ v.idempotencies = u.idempotencies
<1> DEFINE v == Joined(u, D, O, P)
<1>1. /\ v.movements = u.movements \cup D
      /\ v.ledger = u.ledger \cup O /\ v.payments = u.payments \cup P
      /\ v.customers = u.customers /\ v.open = u.open /\ v.sales = u.sales
      /\ v.journals = u.journals /\ v.outbox = u.outbox
      /\ v.idempotencies = u.idempotencies /\ v = [x \in TableNames |-> v[x]]
  BY TablesFields DEF TableNames, Joined
<1> HIDE DEF v
<1>2. /\ v.movements \in SUBSET Movement /\ v.ledger \in SUBSET LedgerRow
      /\ v.payments \in SUBSET PaymentRow
  BY <1>1, TablesFields
<1>3. v \in Tables
  BY <1>1, <1>2, TablesFields, TablesMade
<1>4. /\ IsFiniteSet(u.movements \cup D) /\ IsFiniteSet(u.ledger \cup O)
      /\ IsFiniteSet(u.payments \cup P)
  BY FS_Union DEF Finite
<1>5. Finite(v)
  BY <1>1, <1>4 DEF Finite
<1> QED BY <1>1, <1>3, <1>5 DEF v, SamePosts

\* The rows of the original are turned.
LEMMA UndoStep ==
  ASSUME MemInv, NEW n \in Request, Undo(n)
  PROVE  MemInv'
<1> DEFINE r == req[n]
           s == r.arg
           D == TurnedMoves(n, {row \in next.movements : row.source = s})
           O == TurnedDebts(n, {row \in next.ledger : row.source = s})
           P == TurnedPayments(n, {row \in next.payments : row.sale = s})
           v == Joined(next, D, O, P)
           q == [r EXCEPT !.at = "unpost"]
<1>1. r.at = "undo" /\ r.at \in Held /\ "unpost" \in Held
  BY DEF Undo, At, Held, Places
<1>2. /\ mu = n /\ r \in RequestType /\ Formed(r) /\ next \in Tables
      /\ Tx(n, r, state, shown, next, sale) /\ Settled(n, state, shown) /\ r.op = "reverse"
      /\ s \in SaleId /\ s \in Request
  BY <1>1, HolderFacts DEF Formed, Undoing, Held, Places, SaleId
<1>3. /\ Finite(next) /\ next.customers = state.customers /\ next.open = state.open
      /\ SamePosts(state, next) /\ Keyed(r, state, next, NoSale) /\ SameRows(state, next)
      /\ sale = NoSums /\ Found(s, state)
  BY <1>1, <1>2 DEF Tx, Undoing
<1>4. CASE Fail(n, "not_found")
  <2>1. Reason(r, "not_found")
    BY DEF Reason, Refusals
  <2> QED BY <1>1, <1>4, <2>1, HolderRefused
<1>5. CASE /\ \E j \in next.journals : j.source = s
           /\ UNCHANGED sale /\ Continue(n, "unpost", v)
  <2>1. /\ D \in SUBSET Movement /\ IsFiniteSet(D) /\ O \in SUBSET LedgerRow /\ IsFiniteSet(O)
        /\ P \in SUBSET PaymentRow /\ IsFiniteSet(P)
    <3>1. Typed(next.movements, next.ledger, next.payments, next.journals)
      BY <1>2, <1>3, SettledFacts DEF SameRows, SamePosts
    <3> QED BY <1>2, <3>1, TurnedTyped
  <2>2. /\ D = TurnedMoves(n, {row \in state.movements : row.source = s})
        /\ O = TurnedDebts(n, {row \in state.ledger : row.source = s})
        /\ P = TurnedPayments(n, {row \in state.payments : row.sale = s})
    BY <1>3 DEF SameRows
  <2>3. Continue(n, "unpost", v)
    BY <1>5
  <2> HIDE DEF D, O, P
  <2>4. /\ v \in Tables /\ Finite(v) /\ v.movements = next.movements \cup D
        /\ v.ledger = next.ledger \cup O /\ v.payments = next.payments \cup P
        /\ v.customers = next.customers /\ v.open = next.open /\ SamePosts(next, v)
        /\ v.idempotencies = next.idempotencies
    BY <1>2, <1>3, <2>1, TablesJoined
  <2> HIDE DEF v
  <2>5. Formed(q) /\ q.at = "unpost" /\ q.op = r.op /\ q.key = r.key /\ q.arg = r.arg
    BY <1>1, <1>2, FormedOn DEF Held, Places, Selling, Undoing
  <2> HIDE DEF q
  <2>6. Keyed(q, state, v, NoSale) /\ SamePosts(state, v)
    BY <1>3, <2>4, <2>5 DEF Keyed, Key1, SamePosts
  <2>7. Undone(n, s, state, v)
    BY <1>3, <1>5, <2>2, <2>4 DEF Undone, SameRows, SamePosts
  <2>8. Tx(n, q, state, shown, v, sale)
    BY <1>3, <2>4, <2>5, <2>6, <2>7 DEF Tx, Selling, Undoing
  <2>9. Tx(n, q, state, shown, v, sale')
    BY <1>5, <2>8
  <2> QED BY <1>1, <2>3, <2>4, <2>5, <2>9, HolderContinues DEF q
<1> QED BY <1>4, <1>5, UndoCases DEF Joined

\* What stands where in two sequences put together.
LEMMA ConcatElements ==
  ASSUME NEW S, NEW e \in Seq(S), NEW d \in Seq(S)
  PROVE  /\ Len(e) \in Nat /\ Len(d) \in Nat
         /\ DOMAIN (e \o d) = 1..(Len(e) + Len(d))
         /\ \A i \in 1..(Len(e) + Len(d)) :
              (e \o d)[i] = IF i <= Len(e) THEN e[i] ELSE d[i - Len(e)]
<1> DEFINE c == e \o d
<1>1. /\ c \in Seq(S) /\ Len(e) \in Nat /\ Len(d) \in Nat
      /\ DOMAIN e = 1..Len(e) /\ DOMAIN d = 1..Len(d)
      /\ Len(c) = Len(e) + Len(d) /\ DOMAIN c = 1..(Len(e) + Len(d))
      /\ \A i \in 1..(Len(e) + Len(d)) :
           c[i] = IF i <= Len(e) THEN e[i] ELSE d[i - Len(e)]
  OBVIOUS
<1> QED BY <1>1

\* Four tests and one more.
LEMMA FiveTests ==
  ASSUME NEW S, NEW f \in Seq(S), NEW g \in Seq(S), Len(f) = 4, Len(g) = 1
  PROVE  DOMAIN (f \o g) = 1..5 /\ (\A i \in 1..4 : (f \o g)[i] = f[i]) /\ (f \o g)[5] = g[1]
<1> DEFINE c == f \o g
<1>1. /\ DOMAIN c = 1..(Len(f) + Len(g))
      /\ \A i \in 1..(Len(f) + Len(g)) :
           c[i] = IF i <= Len(f) THEN f[i] ELSE g[i - Len(f)]
  BY ConcatElements
<1> HIDE DEF c
<1>2. Len(f) + Len(g) = 5 /\ 5 - Len(f) = 1
  OBVIOUS
<1>3. DOMAIN c = 1..5
  BY <1>1, <1>2
<1>4. ASSUME NEW i \in 1..4 PROVE c[i] = f[i]
  BY <1>1, <1>2
<1>5. c[5] = g[1]
  <2>1. 5 \in 1..(Len(f) + Len(g)) /\ ~(5 <= Len(f))
    BY <1>2
  <2> QED BY <1>1, <1>2, <2>1
<1> QED BY <1>3, <1>4, <1>5 DEF c

\* The record of a reversal has the amounts of its original.
LEMMA RowRenamed ==
  ASSUME NEW x \in SaleRow, NEW type \in {"SALE", "REVERSAL"},
         NEW status \in {"POSTED", "REVERSED"}, NEW of \in SaleId \cup {NoSale}
  PROVE  LET y == [x EXCEPT !.type = type, !.status = status, !.of = of] IN
         /\ y \in SaleRow /\ y.type = type /\ y.status = status /\ y.of = of
         /\ y.customer = x.customer /\ y.credit = x.credit /\ y.lines = x.lines
         /\ y.subtotal = x.subtotal /\ y.tax = x.tax /\ y.total = x.total /\ y.cogs = x.cogs
BY DEF SaleRow

\* A record marked as reversed.
LEMMA RowReversed ==
  ASSUME NEW x \in SaleRow
  PROVE  LET y == [x EXCEPT !.status = "REVERSED"] IN
         /\ y \in SaleRow /\ y.type = x.type /\ y.status = "REVERSED" /\ y.of = x.of
         /\ y.customer = x.customer /\ y.credit = x.credit /\ y.lines = x.lines
         /\ y.subtotal = x.subtotal /\ y.tax = x.tax /\ y.total = x.total /\ y.cogs = x.cogs
BY DEF SaleRow

\* The clone with its original marked as well.
Marked(v, s) == [v EXCEPT !.sales[s].status = "REVERSED"]

\* A clone in which one record is marked as reversed.
LEMMA TablesMarked ==
  ASSUME NEW v \in Tables, Finite(v), NEW s \in SaleId, v.sales[s] \in SaleRow
  PROVE  LET w == Marked(v, s) IN
         /\ w \in Tables /\ Finite(w) /\ SameRows(v, w) /\ w.customers = v.customers
         /\ w.open = v.open /\ w.journals = v.journals /\ w.outbox = v.outbox
         /\ w.idempotencies = v.idempotencies
         /\ w.sales = [v.sales EXCEPT ![s] = [@ EXCEPT !.status = "REVERSED"]]
<1> DEFINE w == Marked(v, s)
<1>1. DOMAIN v = TableNames /\ v.sales \in [SaleId -> SaleRow \cup {NoSale}]
  BY TablesFields
<1>2. /\ w.customers = v.customers
      /\ w.open = v.open /\ w.journals = v.journals /\ w.outbox = v.outbox
      /\ w.movements = v.movements /\ w.ledger = v.ledger /\ w.payments = v.payments
      /\ w.idempotencies = v.idempotencies
      /\ w.sales = [v.sales EXCEPT ![s] = [@ EXCEPT !.status = "REVERSED"]]
      /\ w = [x \in TableNames |-> w[x]]
  BY <1>1 DEF Marked, TableNames
<1> HIDE DEF w
<1>3. w.sales \in [SaleId -> SaleRow \cup {NoSale}]
  BY <1>1, <1>2, RowReversed
<1>4. w \in Tables
  BY <1>2, <1>3, TablesFields, TablesMade
<1>5. Finite(w)
  BY <1>2 DEF Finite
<1> QED BY <1>2, <1>4, <1>5 DEF w, SameRows

\* The ways PostReversal may go.
LEMMA PostReversalCases ==
  ASSUME NEW n, PostReversal(n),
         LET j == CHOOSE j \in next.journals : j.source = req[n].arg IN
         Postable(n, Reversed(j.entries))
  PROVE  LET s == req[n].arg
             j == CHOOSE j \in next.journals : j.source = s
             row == [next.sales[s] EXCEPT !.type = "REVERSAL", !.status = "POSTED", !.of = s]
             event == [type |-> "sale.reversed", sale |-> n, cause |-> s] IN
         \/ Fail(n, "already_reversed")
         \/ Return(n, Marked(Posted(n, row, Reversed(j.entries), event), s), n)
<1> DEFINE s == req[n].arg
           j == CHOOSE j \in next.journals : j.source = s
           row == [next.sales[s] EXCEPT !.type = "REVERSAL", !.status = "POSTED", !.of = s]
           event == [type |-> "sale.reversed", sale |-> n, cause |-> s]
           entries == Reversed(j.entries)
           Pass == Return(n, Marked(Posted(n, row, entries, event), s), n)
           late == next.sales[s].status = "REVERSED"
           first == PostErrors(n, entries)
           last == << <<late, "already_reversed">> >>
           tests == first \o last
<1>1. IF FirstError(tests) = "none" THEN Pass ELSE Fail(n, FirstError(tests))
  BY DEF PostReversal, Unless, Marked
<1>2. DOMAIN first = 1..4 /\ \A i \in 1..4 : ~first[i][1]
  BY NoPostError
<1>3. /\ DOMAIN tests = 1..5 /\ \A i \in 1..4 : tests[i] = first[i]
      /\ tests[5] = last[1]
  <2> DEFINE S == {first[1], first[2], first[3], first[4], last[1]}
  <2>1. first = <<first[1], first[2], first[3], first[4]>>
    BY DEF PostErrors
  <2>2. last = << last[1] >>
    OBVIOUS
  <2> HIDE DEF first, last
  <2>3. first \in Seq(S) /\ Len(first) = 4
    <3>1. /\ <<first[1], first[2], first[3], first[4]>> \in Seq(S)
          /\ Len(<<first[1], first[2], first[3], first[4]>>) = 4
      OBVIOUS
    <3> HIDE DEF S
    <3> QED BY <2>1, <3>1
  <2>4. last \in Seq(S) /\ Len(last) = 1
    <3>1. << last[1] >> \in Seq(S) /\ Len(<< last[1] >>) = 1
      OBVIOUS
    <3> HIDE DEF S
    <3> QED BY <2>2, <3>1
  <2> HIDE DEF S
  <2> QED BY <2>3, <2>4, FiveTests
<1>4. last[1][2] = "already_reversed"
  OBVIOUS
<1> HIDE DEF first, last, tests, Pass
<1>5. CASE FirstError(tests) = "none" /\ \A i \in 1..5 : ~tests[i][1]
  BY <1>1, <1>5 DEF Pass
<1>6. CASE \E i \in 1..5 : tests[i][1] /\ FirstError(tests) = tests[i][2]
  <2>1. PICK i \in 1..5 : tests[i][1] /\ FirstError(tests) = tests[i][2]
    BY <1>6
  <2>2. i = 5
    <3>1. i \notin 1..4
      BY <1>2, <1>3, <2>1
    <3> QED BY <3>1
  <2>3. FirstError(tests) = "already_reversed"
    BY <1>3, <1>4, <2>1, <2>2
  <2> QED BY <1>1, <2>3
<1>7. \/ FirstError(tests) = "none" /\ \A i \in 1..5 : ~tests[i][1]
      \/ \E i \in 1..5 : tests[i][1] /\ FirstError(tests) = tests[i][2]
  BY <1>3, FirstErrorOf
<1> QED BY <1>5, <1>6, <1>7

\* The reversal is posted.
LEMMA PostReversalStep ==
  ASSUME MemInv, NEW n \in Request, PostReversal(n)
  PROVE  MemInv'
<1> DEFINE r == req[n]
           s == r.arg
           j == CHOOSE j \in next.journals : j.source = s
           e == Reversed(j.entries)
           row == [next.sales[s] EXCEPT !.type = "REVERSAL", !.status = "POSTED", !.of = s]
           event == [type |-> "sale.reversed", sale |-> n, cause |-> s]
           v == Posted(n, row, e, event)
           w == Marked(v, s)
<1>1. r.at = "unpost" /\ r.at \in Held
  BY DEF PostReversal, At, Held, Places
<1>2. /\ mu = n /\ r \in RequestType /\ Formed(r) /\ next \in Tables
      /\ Tx(n, r, state, shown, next, sale) /\ Settled(n, state, shown) /\ r.op = "reverse"
      /\ s \in SaleId /\ n \in SaleId /\ r.key \in Key /\ state \in Tables
  BY <1>1, HolderFacts DEF Formed, Undoing, Held, Places, SaleId, Settled
<1>3. /\ Finite(next) /\ next.customers = state.customers /\ next.open = state.open
      /\ SamePosts(state, next) /\ Keyed(r, state, next, NoSale)
      /\ Found(s, state) /\ Undone(n, s, state, next)
  BY <1>1, <1>2 DEF Tx, Undoing
<1>4. j \in state.journals /\ j.source = s /\ next.journals = state.journals
  BY <1>3 DEF Undone, SamePosts
<1> HIDE DEF j
<1>5. e \in Seq(JournalEntry) /\ Sound(e)
  <2>1. j.entries \in Seq(JournalEntry) /\ Sound(j.entries)
    BY <1>2, <1>4, TablesFields DEF Settled, Tidy, Journal
  <2> QED BY <2>1, ReversedEntries
<1> HIDE DEF e
<1>6. row = ReversalRowOf(s, state) /\ state.sales[s] \in SaleRow /\ row \in SaleRow
  <2>1. state.sales[s] \in SaleRow
    BY <1>2, <1>3, TablesFields DEF Found
  <2>2. row = ReversalRowOf(s, state)
    BY <1>3 DEF SamePosts, ReversalRowOf
  <2>3. ReversalRowOf(s, state) \in SaleRow
    <3> DEFINE old == state.sales[s]
    <3>1. ReversalRowOf(s, state) =
            [old EXCEPT !.type = "REVERSAL", !.status = "POSTED", !.of = s]
      BY DEF ReversalRowOf
    <3>2. old \in SaleRow /\ s \in SaleId \cup {NoSale}
      BY <1>2, <2>1
    <3> HIDE DEF old, row, event, v, w
    <3>3. [old EXCEPT !.type = "REVERSAL", !.status = "POSTED", !.of = s] \in SaleRow
      BY <3>2 DEF SaleRow
    <3> QED BY <3>1, <3>3
  <2> QED BY <2>1, <2>2, <2>3
<1>7. event \in Event
  BY <1>2 DEF Event, SaleId
<1> HIDE DEF row, event
<1>8. Postable(n, e)
  <2>1. next.sales[n] = NoSale
    BY <1>2, <1>3 DEF Settled, SamePosts
  <2>2. \A k \in next.journals : k.source # n
    BY <1>2, <1>3, SettledFacts DEF Without, SamePosts
  <2>3. next.idempotencies[Slot(n)] = [request |-> r.arg, result |-> NoSale]
    <3>1. Slot(n) \in KeySlot /\ Slot(n) = <<r.op, r.key>>
      BY <1>1, <1>2, SlotTyped DEF Slot
    <3>2. state.idempotencies \in [KeySlot -> KeyRow \cup {NoSale}]
      BY <1>2, TablesFields
    <3>3. next.idempotencies = [state.idempotencies EXCEPT ![Slot(n)] = Key1(r, NoSale)]
      BY <1>3, <3>1 DEF Keyed
    <3> QED BY <3>1, <3>2, <3>3 DEF Key1
  <2>4. Validate(e)
    BY <1>5, SoundIsValid
  <2> QED BY <2>1, <2>2, <2>3, <2>4 DEF Postable
<1>9. Fail(n, "already_reversed") \/ Return(n, w, n)
  BY <1>8, PostReversalCases DEF j, e, row, event
<1>10. /\ v \in Tables /\ Finite(v) /\ v.customers = next.customers /\ v.open = next.open
       /\ SameRows(next, v) /\ v.sales = [next.sales EXCEPT ![n] = row]
       /\ v.journals = next.journals \cup {[source |-> n, entries |-> e]}
       /\ v.outbox = next.outbox \cup {event} /\ Keyed(r, state, v, n)
  BY <1>1, <1>2, <1>3, <1>5, <1>6, <1>7, PostedTables
<1> HIDE DEF v
<1>11. s # n /\ v.sales[s] \in SaleRow
  <2>1. s # n
    BY <1>2, <1>3 DEF Settled, Found
  <2>2. next.sales \in [SaleId -> SaleRow \cup {NoSale}] /\ next.sales[s] = state.sales[s]
    BY <1>2, <1>3, TablesFields DEF SamePosts
  <2> QED BY <1>2, <1>6, <1>10, <2>1, <2>2
<1>12. /\ w \in Tables /\ Finite(w) /\ SameRows(v, w) /\ w.customers = v.customers
       /\ w.open = v.open /\ w.journals = v.journals /\ w.outbox = v.outbox
       /\ w.idempotencies = v.idempotencies
       /\ w.sales = [v.sales EXCEPT ![s] = [@ EXCEPT !.status = "REVERSED"]]
  BY <1>2, <1>10, <1>11, TablesMarked
<1> HIDE DEF w
<1>13. CASE Fail(n, "already_reversed")
  <2>1. Reason(r, "already_reversed")
    BY DEF Reason, Refusals
  <2> QED BY <1>1, <1>13, <2>1, HolderRefused
<1>14. CASE Return(n, w, n)
  <2>1. Undone(n, s, state, w)
    BY <1>3, <1>10, <1>12 DEF Undone, SameRows
  <2>2. w.sales = [state.sales EXCEPT ![n] = ReversalRowOf(s, state), ![s].status = "REVERSED"]
    BY <1>3, <1>6, <1>10, <1>12 DEF SamePosts
  <2>3. /\ w.journals = state.journals \cup {[source |-> n, entries |-> Reversed(j.entries)]}
        /\ w.outbox = state.outbox \cup {[type |-> "sale.reversed", sale |-> n, cause |-> s]}
    BY <1>3, <1>10, <1>12 DEF SamePosts, e, event
  <2>4. ASSUME NEW q, q.op = r.op, q.key = r.key, q.arg = r.arg, q.result = n
        PROVE  TxEnd(n, q, state, shown, w, sale)
    <3>1. Keyed(q, state, w, n)
      BY <1>10, <1>12, <2>4 DEF Keyed, Key1
    <3>2. ReversedEnd(n, q, state, w)
      BY <1>2, <1>3, <1>4, <2>1, <2>2, <2>3, <2>4 DEF ReversedEnd
    <3> QED BY <2>4, <3>1, <3>2 DEF TxEnd
  <2> QED BY <1>1, <1>2, <1>3, <1>10, <1>12, <1>14, <2>4, HolderReturns
<1> QED BY <1>9, <1>13, <1>14

-----------------------------------------------------------------------------
(* The books after a request: records and keys *)

ShownSale(x) ==
  IF x = NoSale THEN NoSale
  ELSE [type |-> x.type, status |-> x.status, of |-> x.of, command |-> Recorded(x)]
ShownClaim(x, y) ==
  IF y = NoSale \/ x[1] # "complete" THEN y ELSE [y EXCEPT !.request = Exact(@)]

\* The record of a reversal, field by field.
LEMMA ReversalRow ==
  ASSUME NEW x \in SaleId, NEW t, t.sales[x] \in SaleRow
  PROVE  LET y == ReversalRowOf(x, t)
             old == t.sales[x] IN
         /\ y \in SaleRow /\ y.type = "REVERSAL" /\ y.status = "POSTED" /\ y.of = x
         /\ y.customer = old.customer /\ y.credit = old.credit /\ y.lines = old.lines
         /\ y.subtotal = old.subtotal /\ y.tax = old.tax /\ y.total = old.total
         /\ y.cogs = old.cogs
BY DEF SaleRow, ReversalRowOf

\* The records and the claims the books show.
LEMMA BooksFields ==
  ASSUME NEW t
  PROVE  /\ Books(t).sales = [s \in SaleId |-> ShownSale(t.sales[s])]
         /\ Books(t).claims =
              [x \in DOMAIN t.idempotencies |-> ShownClaim(x, t.idempotencies[x])]
BY DEF Books, ShownSale, ShownClaim

\* A record as the books show it.
LEMMA ShownRow ==
  ASSUME NEW x \in SaleRow
  PROVE  /\ ShownSale(x).type = x.type /\ ShownSale(x).status = x.status
         /\ ShownSale(x).of = x.of /\ ShownSale(x).command = Recorded(x)
         /\ ShownSale(x) = [type |-> x.type, status |-> x.status, of |-> x.of,
                            command |-> Recorded(x)]
<1>1. x # NoSale
  BY RowFields
<1> DEFINE y == [type |-> x.type, status |-> x.status, of |-> x.of, command |-> Recorded(x)]
<1>2. ShownSale(x) = y
  BY <1>1 DEF ShownSale
<1>3. y.type = x.type /\ y.status = x.status /\ y.of = x.of /\ y.command = Recorded(x)
  OBVIOUS
<1>4. y = [type |-> x.type, status |-> x.status, of |-> x.of, command |-> Recorded(x)]
  OBVIOUS
<1> HIDE DEF y
<1> QED BY <1>2, <1>3, <1>4

\* The books show a sale written.
LEMMA BooksOfSale ==
  ASSUME NEW t, NEW u, NEW n \in SaleId, NEW row,
         t.sales \in [SaleId -> SaleRow \cup {NoSale}],
         u.sales = [t.sales EXCEPT ![n] = row]
  PROVE  Books(u).sales = [Books(t).sales EXCEPT ![n] = ShownSale(row)]
<1>1. Books(u).sales = [s \in SaleId |-> ShownSale(u.sales[s])]
  BY BooksFields
<1>2. Books(t).sales = [s \in SaleId |-> ShownSale(t.sales[s])]
  BY BooksFields
<1>3. u.sales[n] = row /\ \A s \in SaleId : s # n => u.sales[s] = t.sales[s]
  OBVIOUS
<1> DEFINE A == Books(u).sales
           B == Books(t).sales
<1> HIDE DEF A, B
<1>4. A = [B EXCEPT ![n] = ShownSale(row)]
  BY <1>1, <1>2, <1>3 DEF A, B
<1> QED BY <1>4 DEF A, B

\* The books show a reversal written, and its original marked.
LEMMA BooksOfReversal ==
  ASSUME NEW t, NEW u, NEW n \in SaleId, NEW x \in SaleId, x # n,
         t.sales \in [SaleId -> SaleRow \cup {NoSale}], t.sales[x] # NoSale,
         u.sales = [t.sales EXCEPT ![n] = ReversalRowOf(x, t), ![x].status = "REVERSED"]
  PROVE  /\ Books(u).sales =
              [Books(t).sales EXCEPT
                 ![n] = [type |-> "REVERSAL", status |-> "POSTED", of |-> x,
                         command |-> Books(t).sales[x].command],
                 ![x].status = "REVERSED"]
         /\ u.sales[n] = ReversalRowOf(x, t) /\ u.sales[n] \in SaleRow
         /\ u.sales[x] = [t.sales[x] EXCEPT !.status = "REVERSED"]
         /\ \A s \in SaleId : s # n /\ s # x => u.sales[s] = t.sales[s]
<1> DEFINE row == ReversalRowOf(x, t)
           old == t.sales[x]
           marked == [old EXCEPT !.status = "REVERSED"]
           A == Books(u).sales
           B == Books(t).sales
<1>1. old \in SaleRow
  OBVIOUS
<1>2. /\ row \in SaleRow /\ row.type = "REVERSAL" /\ row.status = "POSTED" /\ row.of = x
      /\ row.customer = old.customer /\ row.credit = old.credit /\ row.lines = old.lines
      /\ row.subtotal = old.subtotal /\ row.tax = old.tax /\ row.cogs = old.cogs
  BY <1>1, ReversalRow
<1>3. /\ marked \in SaleRow /\ marked.type = old.type /\ marked.status = "REVERSED"
      /\ marked.of = old.of
      /\ marked.customer = old.customer /\ marked.credit = old.credit
      /\ marked.lines = old.lines
      /\ marked.subtotal = old.subtotal /\ marked.tax = old.tax /\ marked.cogs = old.cogs
  BY <1>1, RowReversed
<1>4. u.sales[n] = row /\ u.sales[x] = marked
      /\ \A s \in SaleId : s # n /\ s # x => u.sales[s] = t.sales[s]
  OBVIOUS
<1>5. Recorded(row) = Recorded(old) /\ Recorded(marked) = Recorded(old)
  BY <1>2, <1>3 DEF Recorded
<1> HIDE DEF row, marked
<1>6. /\ ShownSale(row) = [type |-> "REVERSAL", status |-> "POSTED", of |-> x,
                           command |-> ShownSale(old).command]
      /\ ShownSale(marked) = [ShownSale(old) EXCEPT !.status = "REVERSED"]
  <2>1. ShownSale(old).command = Recorded(old)
    BY <1>1, ShownRow
  <2>2. ShownSale(row) = [type |-> row.type, status |-> row.status, of |-> row.of,
                          command |-> Recorded(row)]
    BY <1>2, ShownRow
  <2>3. ShownSale(marked) = [type |-> marked.type, status |-> marked.status, of |-> marked.of,
                             command |-> Recorded(marked)]
    BY <1>3, ShownRow
  <2>4. ShownSale(old) = [type |-> old.type, status |-> old.status, of |-> old.of,
                          command |-> Recorded(old)]
    BY <1>1, ShownRow
  <2> HIDE DEF old
  <2>5. [ShownSale(old) EXCEPT !.status = "REVERSED"] =
          [type |-> old.type, status |-> "REVERSED", of |-> old.of, command |-> Recorded(old)]
    BY <2>4
  <2> QED BY <1>2, <1>3, <1>5, <2>1, <2>2, <2>3, <2>5
<1>7. A = [s \in SaleId |-> ShownSale(u.sales[s])]
  BY BooksFields
<1>8. B = [s \in SaleId |-> ShownSale(t.sales[s])]
  BY BooksFields
<1> HIDE DEF A, B
<1>9. B[x] = ShownSale(old)
  BY <1>8
<1> DEFINE new == [type |-> "REVERSAL", status |-> "POSTED", of |-> x, command |-> B[x].command]
           C == [[B EXCEPT ![n] = new] EXCEPT ![x] = [B[x] EXCEPT !.status = "REVERSED"]]
<1>10. A[n] = new /\ A[x] = [B[x] EXCEPT !.status = "REVERSED"]
  BY <1>4, <1>6, <1>7, <1>9
<1> HIDE DEF new
<1>11. A = C
  BY <1>4, <1>7, <1>8, <1>10
<1>12. C = [B EXCEPT ![n] = new, ![x].status = "REVERSED"]
  BY <1>8
<1> QED BY <1>2, <1>4, <1>11, <1>12 DEF A, B, new, row, marked

\* The books show a key claimed.
LEMMA BooksOfKey ==
  ASSUME NEW t, NEW u, NEW slot \in KeySlot, NEW request, NEW result \in SaleId,
         t.idempotencies \in [KeySlot -> KeyRow \cup {NoSale}],
         [request |-> request, result |-> result] \in KeyRow,
         u.idempotencies = [t.idempotencies EXCEPT ![slot] = [request |-> request, result |-> result]],
         t.idempotencies[slot] = NoSale
  PROVE  /\ Books(t).claims[slot] = NoSale
         /\ Books(u).claims = [Books(t).claims EXCEPT ![slot] =
              [request |-> IF slot[1] = "complete" THEN Exact(request) ELSE request,
               result |-> result]]
<1> DEFINE y == [request |-> request, result |-> result]
           z == [request |-> IF slot[1] = "complete" THEN Exact(request) ELSE request,
                 result |-> result]
           A == Books(u).claims
           B == Books(t).claims
<1>1. y # NoSale
  BY NoSaleAssumption
<1>2. ShownClaim(slot, y) = z
  <2>1. CASE slot[1] = "complete"
    <3>1. ShownClaim(slot, y) = [y EXCEPT !.request = Exact(@)]
      BY <1>1, <2>1 DEF ShownClaim
    <3>2. [y EXCEPT !.request = Exact(@)] = [request |-> Exact(request), result |-> result]
      OBVIOUS
    <3> QED BY <2>1, <3>1, <3>2
  <2>2. CASE slot[1] # "complete"
    BY <2>2 DEF ShownClaim
  <2> QED BY <2>1, <2>2
<1> HIDE DEF y, z
<1>3. u.idempotencies = [t.idempotencies EXCEPT ![slot] = y]
  BY DEF y
<1>4. DOMAIN u.idempotencies = KeySlot /\ DOMAIN t.idempotencies = KeySlot
  BY <1>3
<1>5. A = [x \in KeySlot |-> ShownClaim(x, u.idempotencies[x])]
  BY <1>4, BooksFields
<1>6. B = [x \in KeySlot |-> ShownClaim(x, t.idempotencies[x])]
  BY <1>4, BooksFields
<1>7. B[slot] = NoSale
  BY <1>6 DEF ShownClaim
<1> HIDE DEF A, B
<1>8. A = [B EXCEPT ![slot] = z]
  BY <1>2, <1>3, <1>5, <1>6
<1> QED BY <1>7, <1>8 DEF A, B, z

-----------------------------------------------------------------------------
(* What a request that commits leaves as it was *)

Alike(x, y) ==
  /\ x.customer = y.customer /\ x.credit = y.credit /\ x.lines = y.lines
  /\ x.subtotal = y.subtotal /\ x.tax = y.tax /\ x.total = y.total /\ x.cogs = y.cogs

\* What is true of the rows appended, whatever the request.
AppendedRows(n, t, u, D, O, P, J) ==
  /\ Typed(D, O, P, J) /\ Gains(t, u, n, O, P, D, J)
  /\ \A row \in O : row.customer = u.sales[n].customer
  /\ \A j \in J : Sound(j.entries)
  /\ \A j, k \in J : j = k

AppendedRecord(n, t, u) ==
  /\ u.sales[n] \in SaleRow /\ u.sales[n].lines # << >>
  /\ Recorded(u.sales[n]) = Exact(u.sales[n])
  /\ u.sales[n].total = u.sales[n].subtotal + u.sales[n].tax
  /\ \A e \in u.outbox : e \in t.outbox \/ e.sale = n
  /\ \A s \in SaleId : s # n =>
       IF t.sales[s] = NoSale THEN u.sales[s] = NoSale
       ELSE u.sales[s] # NoSale /\ Alike(u.sales[s], t.sales[s])

\* Records that are alike have the same amounts.
LEMMA AlikeSame ==
  ASSUME NEW x, NEW y, Alike(x, y)
  PROVE  Recorded(x) = Recorded(y) /\ Exact(x) = Exact(y)
<1>1. Recorded(x) = Recorded(y)
  BY DEF Alike, Recorded
<1>2. Exact(x) = Exact(y)
  BY DEF Alike, Exact
<1> QED BY <1>1, <1>2

\* A request that commits leaves the tables tidy.
LEMMA TidyKept ==
  ASSUME NEW n \in Request, NEW t, NEW b, Settled(n, t, b), NEW u, NEW r,
         <<r.op, r.key>> \in KeySlot, Keyed(r, t, u, n),
         NEW D, NEW O, NEW P, NEW J, AppendedRows(n, t, u, D, O, P, J), AppendedRecord(n, t, u)
  PROVE  Tidy(u)
<1> DEFINE slot == <<r.op, r.key>>
<1>1. /\ t \in Tables /\ Tidy(t) /\ t.sales[n] = NoSale /\ Without(t, n)
      /\ t.idempotencies \in [KeySlot -> KeyRow \cup {NoSale}] /\ n \in SaleId
  BY SettledFacts, TablesFields DEF Settled, SaleId
<1>2. /\ u.idempotencies = [t.idempotencies EXCEPT ![slot] = Key1(r, n)]
      /\ t.idempotencies[slot] = NoSale
  BY DEF Keyed
<1>3. /\ u.movements = t.movements \cup D /\ u.ledger = t.ledger \cup O
      /\ u.payments = t.payments \cup P /\ u.journals = t.journals \cup J
      /\ \A row \in D \cup O \cup J : row.source = n
      /\ \A row \in P : row.sale = n
      /\ \A row \in O : row.customer = u.sales[n].customer
      /\ \A j \in J : Sound(j.entries)
      /\ \A j, k \in J : j = k
  BY DEF AppendedRows, Gains
<1>4. /\ u.sales[n] # NoSale
      /\ \A s \in SaleId : s # n =>
           IF t.sales[s] = NoSale THEN u.sales[s] = NoSale
           ELSE u.sales[s] # NoSale /\ Alike(u.sales[s], t.sales[s])
      /\ \A e \in u.outbox : e \in t.outbox \/ e.sale = n
  BY RowFields DEF AppendedRecord
<1>5. ASSUME NEW x \in KeySlot, u.idempotencies[x] # NoSale
      PROVE  /\ u.idempotencies[x].result \in SaleId
             /\ u.sales[u.idempotencies[x].result] # NoSale
  <2> HIDE DEF slot
  <2>1. CASE x = slot
    <3>1. u.idempotencies[x].result = n
      BY <1>1, <1>2, <2>1 DEF Key1
    <3> QED BY <1>1, <1>4, <3>1
  <2>2. CASE x # slot
    <3>1. u.idempotencies[x] = t.idempotencies[x]
      BY <1>1, <1>2, <2>2
    <3>2. /\ t.idempotencies[x].result \in SaleId
          /\ t.sales[t.idempotencies[x].result] # NoSale
      BY <1>1, <1>5, <3>1 DEF Tidy
    <3> QED BY <1>4, <3>1, <3>2
  <2> QED BY <2>1, <2>2
<1>6. ASSUME NEW s \in SaleId
      PROVE  IF u.sales[s] = NoSale THEN Nothing(u, s) ELSE Content(u, s)
  <2>1. CASE s = n
    <3>1. \A owed \in u.ledger : owed.source = n => owed.customer = u.sales[n].customer
      BY <1>1, <1>3 DEF Without
    <3> QED BY <1>4, <2>1, <3>1 DEF Content, AppendedRecord
  <2>2. CASE s # n /\ t.sales[s] = NoSale
    <3>1. Without(t, s) /\ \A e \in t.outbox : e.sale # s
      BY <1>1, <2>2 DEF Tidy, Nothing
    <3>2. Without(u, s)
      BY <1>3, <2>2, <3>1 DEF Without
    <3>3. \A e \in u.outbox : e.sale # s
      BY <1>4, <2>2, <3>1
    <3> QED BY <1>4, <2>2, <3>2, <3>3 DEF Nothing
  <2>3. CASE s # n /\ t.sales[s] # NoSale
    <3>1. Content(t, s)
      BY <1>1, <2>3 DEF Tidy
    <3>2. u.sales[s] # NoSale /\ Alike(u.sales[s], t.sales[s])
      BY <1>4, <2>3
    <3>3. Recorded(u.sales[s]) = Exact(u.sales[s])
      <4>1. Recorded(t.sales[s]) = Exact(t.sales[s])
        BY <3>1 DEF Content
      <4> QED BY <3>2, <4>1, AlikeSame
    <3>4. \A owed \in u.ledger : owed.source = s => owed.customer = u.sales[s].customer
      BY <1>3, <2>3, <3>1, <3>2 DEF Content, Alike
    <3> QED BY <3>1, <3>2, <3>3, <3>4 DEF Content, Alike
  <2> QED BY <2>1, <2>2, <2>3
<1>7. ASSUME NEW j \in u.journals, NEW k \in u.journals, j.source = k.source
      PROVE  j = k
  BY <1>1, <1>3, <1>7 DEF Without, Tidy
<1>8. \A j \in u.journals : Sound(j.entries)
  BY <1>1, <1>3 DEF Tidy
<1> QED BY <1>5, <1>6, <1>7, <1>8 DEF Tidy

\* The answers others were given stay true.
LEMMA AnswersKept ==
  ASSUME NEW n \in Request, NEW t, NEW b, Settled(n, t, b), NEW u, NEW r,
         Keyed(r, t, u, n), AppendedRecord(n, t, u),
         NEW m \in Request, m # n, NEW q \in RequestType, Formed(q), AnswerInv(m, q, t)
  PROVE  AnswerInv(m, q, u)
<1>1. /\ t.idempotencies \in [KeySlot -> KeyRow \cup {NoSale}] /\ n \in SaleId /\ m \in SaleId
      /\ t.sales[n] = NoSale
  BY TablesFields DEF Settled, SaleId
<1>2. \A s \in SaleId : s # n => (u.sales[s] = NoSale <=> t.sales[s] = NoSale)
  BY DEF AppendedRecord
<1>3. ASSUME Done(q)
      PROVE  Answer(q, u)
  <2>1. Answer(q, t)
    BY <1>3 DEF AnswerInv
  <2>2. q.result \in SaleId /\ u.sales[q.result] # NoSale
    BY <1>1, <1>2, <2>1 DEF Answer
  <2>3. ASSUME q.op # "read"
        PROVE  u.idempotencies[<<q.op, q.key>>] = Key1(q, q.result)
    <3> DEFINE x == <<q.op, q.key>>
               slot == <<r.op, r.key>>
    <3>1. x \in KeySlot
      BY <2>3, RequestFields DEF Formed, KeySlot, Op
    <3>2. t.idempotencies[x] = Key1(q, q.result)
      BY <2>1, <2>3 DEF Answer
    <3>3. Key1(q, q.result) # NoSale
      <4>1. q.arg \in Order \cup SaleId
        BY <2>3, RequestFields DEF Formed, Op
      <4>2. Key1(q, q.result) \in KeyRow
        BY <2>2, <4>1 DEF Key1, KeyRow
      <4> QED BY <4>2, NoSaleAssumption
    <3> HIDE DEF x
    <3>4. x # slot
      BY <3>2, <3>3 DEF Keyed
    <3>5. u.idempotencies[x] = t.idempotencies[x]
      BY <1>1, <3>1, <3>4 DEF Keyed
    <3> QED BY <3>2, <3>5 DEF x
  <2> QED BY <2>2, <2>3 DEF Answer
<1>4. u.sales[m] # NoSale => t.sales[m] # NoSale
  BY <1>1, <1>2
<1> QED BY <1>3, <1>4 DEF AnswerInv

-----------------------------------------------------------------------------
(* A completion that commits *)

SoldMoves(n, o) == Drawn(n, o.lines, Len(o.lines))
SoldJournal(n, s) == {[source |-> n, entries |-> s.entries]}

\* A completed transaction appended the rows of SalesLedger's sale, for goods that
\* were in stock.
LEMMA SoldRows ==
  ASSUME NEW n \in Request, NEW t, NEW b, Settled(n, t, b), NEW u, NEW r, NEW s,
         r.arg \in Order, Wanted(r.arg), SoldEnd(n, r, t, b, u, s)
  PROVE  LET o == r.arg
             D == SoldMoves(n, o)
             O == Debt(n, o, s.total)
             P == Payments(n, o, s.total)
             J == SoldJournal(n, s)
             row == SaleRowOf(o, s) IN
         /\ AppendedRows(n, t, u, D, O, P, J)
         /\ \A x \in O : x.customer = o.customer
         /\ Gained(O, P, D, J) = Ledger!SaleRows(Exact(o), Exact(o).demand)
         /\ row \in SaleRow /\ row.lines # << >> /\ Recorded(row) = Exact(row)
         /\ Recorded(row) = Exact(o) /\ row.total = row.subtotal + row.tax
         /\ u.sales[n] = row /\ s.total = Exact(o).net + Exact(o).tax
         /\ \A p \in Product : b.stock[p] >= Exact(o).demand[p]
<1> DEFINE o == r.arg
           D == SoldMoves(n, o)
           O == Debt(n, o, s.total)
           P == Payments(n, o, s.total)
           J == SoldJournal(n, s)
           row == SaleRowOf(o, s)
<1>1. /\ Charged(n, o, t, b, u, s) /\ u.sales = [t.sales EXCEPT ![n] = row]
      /\ u.journals = t.journals \cup J
  BY DEF SoldEnd, SoldJournal
<1>2. /\ Sums(n, o, t, b, u, s) /\ Len(s.lines) = Len(o.lines) /\ AllEntries(o, s)
      /\ u.ledger = t.ledger \cup O /\ u.payments = t.payments \cup P /\ s \in SumsType
  BY <1>1 DEF Charged, Sums
<1>3. /\ s.lines = o.lines /\ s.subtotal = Exact(o).net /\ s.tax = Exact(o).tax
      /\ s.total = Exact(o).net + Exact(o).tax
      /\ u.movements = t.movements \cup D
      /\ row \in SaleRow /\ Recorded(row) = Exact(o) /\ Exact(row) = Exact(o)
      /\ \A p \in Product : b.stock[p] >= Exact(o).demand[p]
  BY <1>2, SumsComplete DEF SoldMoves
<1>4. s.entries \in Seq(JournalEntry) /\ Sound(s.entries)
      /\ \A a \in Accounts : Posting(s.entries, a) = Ledger!SaleJournal(Exact(o))[a]
  BY <1>2, SumsFields DEF AllEntries
<1>5. /\ Typed(D, O, P, J)
      /\ \A x \in D \cup O \cup J : x.source = n
      /\ \A x \in P : x.sale = n
      /\ \A x \in O : x.customer = o.customer
      /\ Gained(O, P, D, J) = Ledger!SaleRows(Exact(o), Exact(o).demand)
  <2> DEFINE total == s.total
             e == s.entries
  <2>1. total = Exact(o).net + Exact(o).tax
    BY <1>3
  <2>2. e \in Seq(JournalEntry) /\ PostsTo(e, Ledger!SaleJournal(Exact(o)))
    BY <1>4 DEF PostsTo
  <2>3. o \in Order /\ Wanted(o)
    OBVIOUS
  <2> HIDE DEF total, e, o
  <2>4. SaleGains(n, o, e, total)
    BY <2>1, <2>2, <2>3, SaleGain
  <2> QED BY <2>4 DEF SaleGains, SoldMoves, SoldJournal, total, e
<1>6. t.sales \in [SaleId -> SaleRow \cup {NoSale}] /\ n \in SaleId
  BY TablesFields DEF Settled, SaleId
<1>7. /\ u.sales[n] = row /\ row.lines # << >> /\ row.customer = o.customer
      /\ row.total = row.subtotal + row.tax
  <2>1. u.sales[n] = row
    BY <1>1, <1>6
  <2>2. row.lines = s.lines /\ row.customer = o.customer /\ row.total = s.total
        /\ row.subtotal = s.subtotal /\ row.tax = s.tax
    BY DEF SaleRowOf
  <2>3. o.lines # << >>
    BY DEF Wanted
  <2> QED BY <1>3, <2>1, <2>2, <2>3
<1>8. (\A j \in J : Sound(j.entries)) /\ \A j, k \in J : j = k
  BY <1>4 DEF SoldJournal
<1> HIDE DEF o, D, O, P, J, row
<1>9. AppendedRows(n, t, u, D, O, P, J)
  <2>1. Gains(t, u, n, O, P, D, J)
    BY <1>1, <1>2, <1>3, <1>5 DEF Gains
  <2> QED BY <1>5, <1>7, <1>8, <2>1 DEF AppendedRows
<1> QED BY <1>3, <1>5, <1>7, <1>9 DEF o, D, O, P, J, row

\* And wrote one record, its own.
LEMMA SoldRecord ==
  ASSUME NEW n \in Request, NEW t, NEW b, Settled(n, t, b), NEW u, NEW r, NEW s,
         r.arg \in Order, Wanted(r.arg), SoldEnd(n, r, t, b, u, s)
  PROVE  AppendedRecord(n, t, u)
<1> DEFINE row == SaleRowOf(r.arg, s)
           event == [type |-> "sale.posted", sale |-> n, cause |-> r.key]
<1>1. /\ row \in SaleRow /\ row.lines # << >> /\ Recorded(row) = Exact(row)
      /\ row.total = row.subtotal + row.tax /\ u.sales[n] = row
  BY SoldRows
<1>2. u.sales = [t.sales EXCEPT ![n] = row] /\ u.outbox = t.outbox \cup {event}
  BY DEF SoldEnd
<1>3. event.sale = n
  OBVIOUS
<1>4. t.sales \in [SaleId -> SaleRow \cup {NoSale}]
  BY TablesFields DEF Settled
<1> HIDE DEF row, event
<1>5. \A s1 \in SaleId : s1 # n => u.sales[s1] = t.sales[s1]
  BY <1>2, <1>4
<1>6. \A x : Alike(x, x)
  BY DEF Alike
<1> QED BY <1>1, <1>2, <1>3, <1>5, <1>6 DEF AppendedRecord

\* Serial and Ledger append the same rows.
LEMMA SerialRows ==
  /\ \A c, d : Ledger!SaleRows(c, d) = Serial!SaleRows(c, d)
  /\ \A x : Ledger!ReversalRows(x) = Serial!ReversalRows(x)
BY DEF Ledger!SaleRows, Serial!SaleRows, Ledger!ReversalRows, Serial!ReversalRows,
  Ledger!SaleJournal, Serial!SaleJournal, Ledger!Total, Serial!Total,
  Ledger!Account, Serial!Account

\* What the books of the new tables are, next to those of the old.
LEMMA SerialAppends ==
  ASSUME NEW n \in Request, Settled(n, state, shown), NEW c \in Customer,
         NEW D, NEW O, NEW P, NEW J, AppendedRows(n, state, state', D, O, P, J),
         \A x \in O : x.customer = c, shown' = Books(state'),
         NEW g, Gained(O, P, D, J) = g
  PROVE  Serial!AppendRows(n, c, g)
<1>1. /\ Typed(D, O, P, J) /\ Gains(state, state', n, O, P, D, J)
      /\ Typed(state.movements, state.ledger, state.payments, state.journals)
      /\ Without(state, n) /\ shown = Books(state)
  BY SettledFacts DEF AppendedRows, Settled
<1>2. /\ Books(state').rows = [Books(state).rows EXCEPT ![n] = g]
      /\ Books(state').stock = [p \in Product |-> Books(state).stock[p] + g.moved[p]]
      /\ Books(state').exposure = [Books(state).exposure EXCEPT ![c] = @ + g.owed]
      /\ Books(state').gl = [a \in Accounts |-> Books(state).gl[a] + g.journal[a]]
  BY <1>1, BooksGain
<1> QED BY <1>1, <1>2 DEF Serial!AppendRows, Serial!Account, Accounts

\* A completed sale is a Complete of the serial service.
LEMMA SoldIsSerial ==
  ASSUME NEW n \in Request, Settled(n, state, shown), NEW r, NEW s,
         r.op = "complete", r.key \in Key,
         r.arg \in Order, Wanted(r.arg), SoldEnd(n, r, state, shown, state', s),
         Keyed(r, state, state', n), state'.customers = state.customers,
         shown' = Books(state')
  PROVE  Serial!Complete(r.key, Exact(r.arg), n) /\ Exact(r.arg) \in Commands
<1> DEFINE o == r.arg
           c == Exact(o)
           slot == <<"complete", r.key>>
           row == SaleRowOf(o, s)
           D == SoldMoves(n, o)
           O == Debt(n, o, s.total)
           P == Payments(n, o, s.total)
           J == SoldJournal(n, s)
           g == Gained(O, P, D, J)
<1>1. /\ AppendedRows(n, state, state', D, O, P, J)
      /\ \A x \in O : x.customer = o.customer
      /\ g = Ledger!SaleRows(c, c.demand)
      /\ row \in SaleRow /\ Recorded(row) = c /\ s.total = c.net + c.tax
      /\ \A p \in Product : shown.stock[p] >= c.demand[p]
  BY SoldRows
<1>2. /\ Charged(n, o, state, shown, state', s)
      /\ state'.sales = [state.sales EXCEPT ![n] = row]
      /\ state'.outbox = state.outbox \cup {[type |-> "sale.posted", sale |-> n, cause |-> r.key]}
  BY DEF SoldEnd
<1>3. /\ shown = Books(state) /\ n \in SaleId /\ state.sales[n] = NoSale
      /\ state.sales \in [SaleId -> SaleRow \cup {NoSale}]
      /\ state.idempotencies \in [KeySlot -> KeyRow \cup {NoSale}]
  BY TablesFields DEF Settled, SaleId
<1>4. /\ o.customer \in Customer /\ c.customer = o.customer /\ c.credit = o.credit
  BY OrderTyped, ExactSums
<1>5. c \in Commands
  BY DEF Commands
<1>6. slot \in KeySlot /\ slot[1] = "complete"
  BY DEF KeySlot
<1>7. /\ shown.claims[slot] = NoSale
      /\ shown'.claims = [shown.claims EXCEPT ![slot] = [request |-> c, result |-> n]]
  <2>1. /\ state.idempotencies[slot] = NoSale
        /\ state'.idempotencies = [state.idempotencies EXCEPT ![slot] =
             [request |-> o, result |-> n]]
    BY DEF Keyed, Key1
  <2>2. [request |-> o, result |-> n] \in KeyRow
    BY <1>3 DEF KeyRow
  <2> HIDE DEF slot, o
  <2>3. /\ Books(state).claims[slot] = NoSale
        /\ Books(state').claims = [Books(state).claims EXCEPT ![slot] =
              [request |-> IF slot[1] = "complete" THEN Exact(o) ELSE o, result |-> n]]
    BY <1>3, <1>6, <2>1, <2>2, BooksOfKey
  <2> QED BY <1>3, <1>6, <2>3
<1>8. /\ shown.sales[n] = NoSale
      /\ shown'.sales = [shown.sales EXCEPT ![n] = Serial!SaleRecord(c)]
  <2>1. Books(state').sales = [Books(state).sales EXCEPT ![n] = ShownSale(row)]
    <3>1. state'.sales = [state.sales EXCEPT ![n] = row]
      BY <1>2
    <3> HIDE DEF row
    <3> QED BY <1>3, <3>1, BooksOfSale
  <2>2. ShownSale(row) = Serial!SaleRecord(c)
    <3>1. row.type = "SALE" /\ row.status = "POSTED" /\ row.of = NoSale
      BY DEF SaleRowOf
    <3> HIDE DEF row
    <3> QED BY <1>1, <3>1, ShownRow DEF Serial!SaleRecord
  <2>3. Books(state).sales[n] = NoSale
    BY <1>3, BooksSale
  <2> QED BY <1>3, <2>1, <2>2, <2>3
<1> HIDE DEF D, O, P, J, row
<1>9. Serial!AppendRows(n, c.customer, Serial!SaleRows(c, c.demand))
  <2>1. g = Serial!SaleRows(c, c.demand)
    BY <1>1, SerialRows
  <2> HIDE DEF c
  <2>2. \A x \in O : x.customer = c.customer
    BY <1>1, <1>4
  <2> QED BY <1>1, <1>4, <2>1, <2>2, SerialAppends
<1>10. /\ state.customers[c.customer].active
       /\ c.credit => /\ state.customers[c.customer].credit
                      /\ shown.exposure[c.customer] >= 0
                      /\ shown.exposure[c.customer] + (c.net + c.tax)
                           <= state.customers[c.customer].limit
  BY <1>1, <1>2, <1>4 DEF Charged, Screened
<1> HIDE DEF c
<1>11. Serial!Unclaimed(slot) /\ Serial!Fresh(n) /\ Serial!InStock(c)
  BY <1>1, <1>7, <1>8 DEF Serial!Unclaimed, Serial!Fresh, Serial!InStock
<1>12. Serial!Eligible(c) /\ Serial!WithinLimit(c)
  BY <1>10 DEF Serial!Eligible, Serial!WithinLimit, Serial!Total
<1>13. Serial!PostSale(r.key, c, c.demand, n)
  BY <1>2, <1>7, <1>8, <1>9 DEF Serial!PostSale, Serial!RecordEvents, Serial!CompleteIdempotency
<1>14. Serial!Complete(r.key, c, n)
  BY <1>11, <1>12, <1>13 DEF Serial!Complete
<1> QED BY <1>5, <1>14 DEF c

-----------------------------------------------------------------------------
(* A reversal that commits *)

TurnedJournal(n, j) == {[source |-> n, entries |-> Reversed(j.entries)]}

\* What ReversedEnd says of the new tables, with the journal it turned.
ReversedWith(n, x, t, u, j) ==
  /\ Found(x, t) /\ Undone(n, x, t, u) /\ j \in t.journals /\ j.source = x
  /\ u.sales = [t.sales EXCEPT ![n] = ReversalRowOf(x, t), ![x].status = "REVERSED"]
  /\ u.journals = t.journals \cup TurnedJournal(n, j)
  /\ u.outbox = t.outbox \cup {[type |-> "sale.reversed", sale |-> n, cause |-> x]}

\* A reversal turned some journal.
LEMMA ReversedWithSome ==
  ASSUME NEW n, NEW r, NEW t, NEW u, ReversedEnd(n, r, t, u)
  PROVE  \E j : ReversedWith(n, r.arg, t, u, j)
<1>1. PICK j \in t.journals :
        /\ j.source = r.arg
        /\ u.journals = t.journals \cup {[source |-> n, entries |-> Reversed(j.entries)]}
  BY DEF ReversedEnd
<1>2. ReversedWith(n, r.arg, t, u, j)
  BY <1>1 DEF ReversedEnd, ReversedWith, TurnedJournal
<1> QED BY <1>2

\* A reversal wrote one record and marked another.
LEMMA ReversedRecord ==
  ASSUME NEW n \in Request, NEW t, NEW b, Settled(n, t, b), NEW x \in SaleId, NEW u, NEW j,
         ReversedWith(n, x, t, u, j)
  PROVE  /\ AppendedRecord(n, t, u) /\ x # n
         /\ u.sales[n] \in SaleRow /\ u.sales[n].customer = t.sales[x].customer
<1>1. /\ t.sales \in [SaleId -> SaleRow \cup {NoSale}] /\ n \in SaleId /\ t.sales[n] = NoSale
      /\ t.sales[x] # NoSale /\ t.sales[x] \in SaleRow /\ x # n /\ Content(t, x)
  BY TablesFields DEF Settled, SaleId, ReversedWith, Found, Tidy
<1>2. u.sales = [t.sales EXCEPT ![n] = ReversalRowOf(x, t), ![x].status = "REVERSED"]
  BY DEF ReversedWith
<1>3. /\ u.sales[n] = ReversalRowOf(x, t)
      /\ u.sales[x] = [t.sales[x] EXCEPT !.status = "REVERSED"]
      /\ \A s \in SaleId : s # n /\ s # x => u.sales[s] = t.sales[s]
  BY <1>1, <1>2, BooksOfReversal
<1>4. /\ u.sales[n] \in SaleRow /\ Alike(u.sales[n], t.sales[x])
  <2>1. ReversalRowOf(x, t) \in SaleRow /\ Alike(ReversalRowOf(x, t), t.sales[x])
    BY <1>1, ReversalRow DEF Alike
  <2> QED BY <1>3, <2>1
<1>5. u.sales[x] \in SaleRow /\ Alike(u.sales[x], t.sales[x])
  <2> DEFINE y == [t.sales[x] EXCEPT !.status = "REVERSED"]
  <2>1. y \in SaleRow /\ Alike(y, t.sales[x])
    BY <1>1, RowReversed DEF Alike
  <2> QED BY <1>3, <2>1
<1>6. ASSUME NEW s \in SaleId, s # n
      PROVE  IF t.sales[s] = NoSale THEN u.sales[s] = NoSale
             ELSE u.sales[s] # NoSale /\ Alike(u.sales[s], t.sales[s])
  <2>1. CASE s = x
    BY <1>1, <1>5, <2>1, RowFields
  <2>2. CASE s # x
    <3>1. u.sales[s] = t.sales[s]
      BY <1>3, <1>6, <2>2
    <3> QED BY <3>1 DEF Alike
  <2> QED BY <2>1, <2>2
<1>7. /\ u.sales[n].lines # << >> /\ Recorded(u.sales[n]) = Exact(u.sales[n])
      /\ u.sales[n].total = u.sales[n].subtotal + u.sales[n].tax
      /\ u.sales[n].customer = t.sales[x].customer
  <2>1. Recorded(u.sales[n]) = Recorded(t.sales[x]) /\ Exact(u.sales[n]) = Exact(t.sales[x])
    BY <1>4, AlikeSame
  <2> QED BY <1>1, <1>4, <2>1 DEF Content, Alike
<1>8. \A e \in u.outbox : e \in t.outbox \/ e.sale = n
  <2> DEFINE event == [type |-> "sale.reversed", sale |-> n, cause |-> x]
  <2>1. u.outbox = t.outbox \cup {event} /\ event.sale = n
    BY DEF ReversedWith
  <2> HIDE DEF event
  <2> QED BY <2>1
<1> QED BY <1>1, <1>4, <1>6, <1>7, <1>8 DEF AppendedRecord

\* A reversal appended the rows of SalesLedger's reversal.
LEMMA ReversedRows ==
  ASSUME NEW n \in Request, NEW t, NEW b, Settled(n, t, b), NEW x \in SaleId, NEW u, NEW j,
         ReversedWith(n, x, t, u, j)
  PROVE  LET D == TurnedMoves(n, {row \in t.movements : row.source = x})
             O == TurnedDebts(n, {row \in t.ledger : row.source = x})
             P == TurnedPayments(n, {row \in t.payments : row.sale = x})
             J == TurnedJournal(n, j) IN
         /\ AppendedRows(n, t, u, D, O, P, J)
         /\ \A row \in O : row.customer = t.sales[x].customer
         /\ Gained(O, P, D, J) = Ledger!ReversalRows(Books(t).rows[x])
<1> DEFINE D == TurnedMoves(n, {row \in t.movements : row.source = x})
           O == TurnedDebts(n, {row \in t.ledger : row.source = x})
           P == TurnedPayments(n, {row \in t.payments : row.sale = x})
           J == TurnedJournal(n, j)
           c == t.sales[x].customer
<1>1. /\ Found(x, t) /\ Undone(n, x, t, u) /\ j \in t.journals /\ j.source = x
      /\ u.journals = t.journals \cup J
  BY DEF ReversedWith
<1>2. /\ u.movements = t.movements \cup D /\ u.ledger = t.ledger \cup O
      /\ u.payments = t.payments \cup P
  BY <1>1 DEF Undone
<1>3. OnlyJournal(t, x, j)
  BY <1>1 DEF OnlyJournal, Settled, Tidy
<1>4. OwedBy(t, x, c)
  BY <1>1 DEF OwedBy, Settled, Tidy, Content, Found
<1>5. Typed(t.movements, t.ledger, t.payments, t.journals)
  BY SettledFacts
<1>6. x \in Request
  BY DEF SaleId
<1>7. ReversalGains(n, x, t, j, c)
  <2> HIDE DEF c
  <2> QED BY <1>3, <1>4, <1>5, <1>6, ReversalGain
<1>8. /\ Typed(D, O, P, J)
      /\ \A row \in D \cup O \cup J : row.source = n
      /\ \A row \in P : row.sale = n
      /\ \A row \in O : row.customer = c
      /\ Gained(O, P, D, J) = Ledger!ReversalRows(Books(t).rows[x])
  BY <1>7 DEF ReversalGains, TurnedJournal
<1>9. /\ \A k \in J : Sound(k.entries)
      /\ \A i, k \in J : i = k
  <2>1. j.entries \in Seq(JournalEntry) /\ Sound(j.entries)
    BY <1>1, <1>5 DEF Typed, Journal, Settled, Tidy
  <2>2. Sound(Reversed(j.entries))
    BY <2>1, ReversedEntries
  <2> QED BY <2>2 DEF TurnedJournal
<1>10. u.sales[n].customer = c
  BY ReversedRecord
<1> HIDE DEF D, O, P, J, c
<1>11. Gains(t, u, n, O, P, D, J)
  BY <1>1, <1>2, <1>8 DEF Gains
<1>12. AppendedRows(n, t, u, D, O, P, J)
  BY <1>8, <1>9, <1>10, <1>11 DEF AppendedRows
<1> QED BY <1>8, <1>12 DEF D, O, P, J, c

\* A record that is there is there in the books.
LEMMA ShownIsThere ==
  ASSUME NEW x \in SaleRow, x.lines # << >>, Recorded(x) = Exact(x)
  PROVE  ShownSale(x) # NoSale
<1> DEFINE c == Exact(x)
<1>1. /\ x.type \in {"SALE", "REVERSAL"} /\ x.status \in {"POSTED", "REVERSED"}
      /\ x.of \in SaleId \cup {NoSale} /\ x.customer \in Customer /\ x.credit \in BOOLEAN
      /\ x.lines \in Seq(LineType)
  BY RowFields
<1>2. c \in [customer : Customer, credit : BOOLEAN, demand : [Product -> Nat],
             net : Nat, tax : Nat, cost : Nat]
  <2>1. c.net \in Nat /\ c.tax \in Nat /\ c.cost \in Nat /\ c.demand \in [Product -> Nat]
    BY <1>1, ExactTyped
  <2>2. c.customer = x.customer /\ c.credit = x.credit
    BY ExactSums
  <2>3. c = [customer |-> c.customer, credit |-> c.credit, demand |-> c.demand,
             net |-> c.net, tax |-> c.tax, cost |-> c.cost]
    BY DEF Exact
  <2> HIDE DEF c
  <2> QED BY <1>1, <2>1, <2>2, <2>3
<1> HIDE DEF c
<1>3. ShownSale(x) = [type |-> x.type, status |-> x.status, of |-> x.of, command |-> c]
  BY ShownRow DEF c
<1>4. [type |-> x.type, status |-> x.status, of |-> x.of, command |-> c] \in
        [type : {"SALE", "REVERSAL"}, status : {"POSTED", "REVERSED"},
         of : SaleId \cup {NoSale},
         command : [customer : Customer, credit : BOOLEAN, demand : [Product -> Nat],
                    net : Nat, tax : Nat, cost : Nat]]
  BY <1>1, <1>2
<1> QED BY <1>3, <1>4, NoSaleAssumption

\* The lemmas above for the store's own tables, and the books of the original.
ReversedFacts(n, x, t, u, j) ==
  LET D == TurnedMoves(n, {row \in t.movements : row.source = x})
      O == TurnedDebts(n, {row \in t.ledger : row.source = x})
      P == TurnedPayments(n, {row \in t.payments : row.sale = x})
      J == TurnedJournal(n, j)
      g == Gained(O, P, D, J) IN
  /\ AppendedRows(n, t, u, D, O, P, J)
  /\ \A row \in O : row.customer = t.sales[x].customer
  /\ g = Ledger!ReversalRows(Books(t).rows[x])

\* All of that, in one name.
LEMMA ReversedFactsHold ==
  ASSUME NEW n \in Request, NEW t, NEW b, Settled(n, t, b), NEW x \in SaleId, NEW u, NEW j,
         ReversedWith(n, x, t, u, j)
  PROVE  ReversedFacts(n, x, t, u, j)
BY ReversedRows DEF ReversedFacts

\* The books show the sale that is reversed.
LEMMA OriginalShown ==
  ASSUME NEW n \in Request, NEW t, NEW b, Settled(n, t, b), NEW x \in SaleId, Found(x, t)
  PROVE  /\ b.sales[x] # NoSale /\ b.sales[x].type = "SALE" /\ b.sales[x].status # "REVERSED"
         /\ b.sales[x].command.customer = t.sales[x].customer
         /\ t.sales[x].customer \in Customer /\ b.sales[n] = NoSale
<1>1. /\ b = Books(t) /\ n \in SaleId /\ t.sales[n] = NoSale
      /\ t.sales[x] # NoSale /\ t.sales[x] \in SaleRow /\ Content(t, x)
      /\ t.sales[x].type = "SALE" /\ t.sales[x].status # "REVERSED"
  BY TablesFields DEF Settled, SaleId, Found, Tidy
<1>2. ShownSale(t.sales[x]) # NoSale
  BY <1>1, ShownIsThere DEF Content
<1>3. b.sales[x] = ShownSale(t.sales[x]) /\ b.sales[n] = NoSale
  <2>1. b.sales = [s \in SaleId |-> ShownSale(t.sales[s])]
    BY <1>1, BooksFields
  <2> QED BY <1>1, <2>1 DEF ShownSale
<1>4. /\ ShownSale(t.sales[x]).type = t.sales[x].type
      /\ ShownSale(t.sales[x]).status = t.sales[x].status
      /\ ShownSale(t.sales[x]).command = Recorded(t.sales[x])
  BY <1>1, ShownRow
<1>5. Recorded(t.sales[x]).customer = t.sales[x].customer
  BY DEF Recorded
<1> QED BY <1>1, <1>2, <1>3, <1>4, <1>5, RowFields

\* The new records, and the records the books show for them.
Turned(n, x, t, u) ==
  u.sales = [t.sales EXCEPT ![n] = ReversalRowOf(x, t), ![x].status = "REVERSED"]
ShownTurned(n, x, t, u) ==
  Books(u).sales =
    [Books(t).sales EXCEPT
       ![n] = [type |-> "REVERSAL", status |-> "POSTED", of |-> x,
               command |-> Books(t).sales[x].command],
       ![x].status = "REVERSED"]

\* The books show what the reversal made of it.
LEMMA TurnedShown ==
  ASSUME NEW t, NEW u, NEW n \in SaleId, NEW x \in SaleId, x # n,
         t.sales \in [SaleId -> SaleRow \cup {NoSale}], t.sales[x] # NoSale, Turned(n, x, t, u)
  PROVE  ShownTurned(n, x, t, u)
<1>1. u.sales = [t.sales EXCEPT ![n] = ReversalRowOf(x, t), ![x].status = "REVERSED"]
  BY DEF Turned
<1>2. Books(u).sales =
        [Books(t).sales EXCEPT
           ![n] = [type |-> "REVERSAL", status |-> "POSTED", of |-> x,
                   command |-> Books(t).sales[x].command],
           ![x].status = "REVERSED"]
  BY <1>1, BooksOfReversal
<1> QED BY <1>2 DEF ShownTurned

\* A completed reversal is a Reverse of the serial service.
LEMMA ReversedIsSerial ==
  ASSUME NEW n \in Request, Settled(n, state, shown), NEW r, NEW j,
         r.op = "reverse", r.key \in Key, r.arg \in SaleId,
         ReversedWith(n, r.arg, state, state', j),
         Keyed(r, state, state', n), state'.customers = state.customers,
         shown' = Books(state')
  PROVE  Serial!Reverse(r.key, r.arg, n)
<1> DEFINE x == r.arg
           slot == <<"reverse", r.key>>
           c == shown.sales[x].command.customer
           D == TurnedMoves(n, {row \in state.movements : row.source = x})
           O == TurnedDebts(n, {row \in state.ledger : row.source = x})
           P == TurnedPayments(n, {row \in state.payments : row.sale = x})
           J == TurnedJournal(n, j)
           g == Gained(O, P, D, J)
<1>1. /\ AppendedRows(n, state, state', D, O, P, J)
      /\ \A row \in O : row.customer = state.sales[x].customer
      /\ g = Ledger!ReversalRows(Books(state).rows[x])
  <2>1. ReversedFacts(n, x, state, state', j)
    BY ReversedFactsHold
  <2> QED BY <2>1 DEF ReversedFacts
<1>2. x # n
  BY ReversedRecord
<1>3. /\ Found(x, state)
      /\ state'.sales = [state.sales EXCEPT ![n] = ReversalRowOf(x, state), ![x].status = "REVERSED"]
      /\ state'.outbox = state.outbox \cup {[type |-> "sale.reversed", sale |-> n, cause |-> x]}
  BY DEF ReversedWith
<1>4. /\ shown.sales[x] # NoSale /\ shown.sales[x].type = "SALE"
      /\ shown.sales[x].status # "REVERSED" /\ c = state.sales[x].customer
      /\ shown.sales[n] = NoSale /\ c \in Customer
  BY <1>3, OriginalShown
<1>5. /\ shown = Books(state) /\ n \in SaleId
      /\ state.sales \in [SaleId -> SaleRow \cup {NoSale}]
      /\ state.idempotencies \in [KeySlot -> KeyRow \cup {NoSale}] /\ state.sales[x] # NoSale
  BY <1>3, TablesFields DEF Settled, SaleId, Found
<1>6. slot \in KeySlot /\ slot[1] # "complete"
  BY DEF KeySlot
<1>7. /\ shown.claims[slot] = NoSale
      /\ shown'.claims = [shown.claims EXCEPT ![slot] = [request |-> x, result |-> n]]
  <2>1. /\ state.idempotencies[slot] = NoSale
        /\ state'.idempotencies = [state.idempotencies EXCEPT ![slot] =
             [request |-> x, result |-> n]]
    BY DEF Keyed, Key1
  <2>2. [request |-> x, result |-> n] \in KeyRow
    BY <1>5 DEF KeyRow
  <2> HIDE DEF slot, x
  <2>3. /\ Books(state).claims[slot] = NoSale
        /\ Books(state').claims = [Books(state).claims EXCEPT ![slot] =
              [request |-> IF slot[1] = "complete" THEN Exact(x) ELSE x, result |-> n]]
    BY <1>5, <1>6, <2>1, <2>2, BooksOfKey
  <2> QED BY <1>5, <1>6, <2>3
<1>8. shown'.sales = [shown.sales EXCEPT ![n] = Serial!ReversalRecord(x), ![x].status = "REVERSED"]
  <2>1. Turned(n, x, state, state')
    BY <1>3 DEF Turned
  <2>2. ShownTurned(n, x, state, state')
    <3>1. x \in SaleId
      OBVIOUS
    <3> HIDE DEF x
    <3> QED BY <1>2, <1>5, <2>1, <3>1, TurnedShown
  <2> QED BY <1>5, <2>2 DEF Serial!ReversalRecord, ShownTurned
<1> HIDE DEF D, O, P, J
<1>9. Serial!AppendRows(n, c, Serial!ReversalRows(shown.rows[x]))
  <2>1. g = Serial!ReversalRows(shown.rows[x])
    BY <1>1, <1>5, SerialRows
  <2> HIDE DEF c, g
  <2>2. \A row \in O : row.customer = c
    BY <1>1, <1>4
  <2>3. c \in Customer /\ AppendedRows(n, state, state', D, O, P, J)
    BY <1>1, <1>4
  <2>4. Gained(O, P, D, J) = Serial!ReversalRows(shown.rows[x])
    BY <2>1 DEF g
  <2> QED BY <2>2, <2>3, <2>4, SerialAppends
<1>10. Serial!Unclaimed(slot) /\ Serial!Fresh(n) /\ Serial!Reversible(x)
  BY <1>4, <1>7 DEF Serial!Unclaimed, Serial!Fresh, Serial!Reversible
<1>11. Serial!PostReversal(r.key, x, n)
  BY <1>3, <1>7, <1>8, <1>9 DEF Serial!PostReversal, Serial!RecordEvents,
    Serial!CompleteIdempotency
<1> QED BY <1>10, <1>11 DEF Serial!Reverse

-----------------------------------------------------------------------------
(* What customers owe follows the credit sales that stand *)

\* One bill is written or taken back, and the exposure moves by as much.
BillMoves(b, d, c) ==
  \E x \in SaleId :
    /\ \A s \in SaleId \ {x} : Bill(d, s, c) = Bill(b, s, c)
    /\ d.exposure[c] = b.exposure[c] + (Bill(d, x, c) - Bill(b, x, c))

\* Exposure stays the sum of the bills when one bill and it move alike.
LEMMA BillsFollow ==
  ASSUME NEW t \in Tables, NEW u \in Tables, NEW b, NEW d, b = Books(t), d = Books(u),
         NEW c, BillMoves(b, d, c), b.exposure[c] = SumFunction(Bills(b, c))
  PROVE  d.exposure[c] = SumFunction(Bills(d, c))
<1> DEFINE f == Bills(b, c)
           g == Bills(d, c)
<1>1. PICK x \in SaleId :
        /\ \A s \in SaleId \ {x} : Bill(d, s, c) = Bill(b, s, c)
        /\ d.exposure[c] = b.exposure[c] + (Bill(d, x, c) - Bill(b, x, c))
  BY DEF BillMoves
<1>2. f \in [SaleId -> Nat] /\ IsFiniteSet(SaleId)
  BY BillsTyped
<1>3. g \in [SaleId -> Nat]
  BY BillsTyped
<1>4. \A s \in SaleId : f[s] = Bill(b, s, c) /\ g[s] = Bill(d, s, c)
  BY DEF Bills
<1>5. b.exposure[c] = SumFunction(f)
  OBVIOUS
<1> HIDE DEF f, g
<1>6. f \in [SaleId -> Int] /\ g \in [SaleId -> Int] /\ \A s \in SaleId \ {x} : f[s] = g[s]
  BY <1>1, <1>2, <1>3, <1>4
<1>7. SumFunction(g) = SumFunction(f) + (g[x] - f[x])
  BY <1>2, <1>6, SumFunctionChange
<1>8. d.exposure[c] = SumFunction(g)
  BY <1>1, <1>4, <1>5, <1>7
<1> QED BY <1>8 DEF g

\* What a Complete does to the records.
LEMMA SerialCompletes ==
  ASSUME Serial!TypeOK, NEW k \in Key, NEW cmd \in Commands, NEW id \in SaleId,
         Serial!Complete(k, cmd, id)
  PROVE  /\ shown.sales[id] = NoSale
         /\ shown'.sales[id] = Serial!SaleRecord(cmd) /\ shown'.sales[id] # NoSale
         /\ \A s \in SaleId \ {id} : shown'.sales[s] = shown.sales[s]
<1>1. /\ shown.sales[id] = NoSale /\ shown.sales \in [SaleId -> Serial!Record \cup {NoSale}]
      /\ shown'.sales = [shown.sales EXCEPT ![id] = Serial!SaleRecord(cmd)]
  BY DEF Serial!Complete, Serial!Fresh, Serial!PostSale, Serial!TypeOK
<1>2. Serial!SaleRecord(cmd) # NoSale
  BY NoSaleAssumption DEF Serial!SaleRecord, Ledger!Record
<1> QED BY <1>1, <1>2

\* A Complete writes one bill, or none, of each customer.
LEMMA CompleteBills ==
  ASSUME Serial!TypeOK, NEW k \in Key, NEW cmd \in Commands, NEW id \in SaleId,
         Serial!Complete(k, cmd, id), NEW c \in Customer
  PROVE  BillMoves(shown, shown', c)
<1> DEFINE total == cmd.net + cmd.tax
<1>1. /\ shown.sales[id] = NoSale
      /\ shown'.sales[id] = Serial!SaleRecord(cmd) /\ shown'.sales[id] # NoSale
      /\ \A s \in SaleId \ {id} : shown'.sales[s] = shown.sales[s]
  BY SerialCompletes
<1>2. cmd.customer \in Customer /\ cmd.credit \in BOOLEAN /\ total \in Int
  <2>1. cmd.net \in Nat /\ cmd.tax \in Nat
    BY CommandTyped
  <2> QED BY <2>1, CommandTyped
<1>3. shown'.exposure = [shown.exposure EXCEPT ![cmd.customer] = @ + IF cmd.credit THEN total ELSE 0]
  BY DEF Serial!Complete, Serial!PostSale, Serial!AppendRows, Serial!SaleRows, Serial!Total
<1>4. shown.exposure \in [Customer -> Int]
  BY DEF Serial!TypeOK
<1>5. \A s \in SaleId \ {id} : Bill(shown', s, c) = Bill(shown, s, c)
  BY <1>1 DEF Bill, Standing
<1>6. Bill(shown, id, c) = 0
  BY <1>1 DEF Bill, Standing
<1>7. Bill(shown', id, c) = IF c = cmd.customer /\ cmd.credit THEN total ELSE 0
  <2>1. /\ shown'.sales[id].type = "SALE" /\ shown'.sales[id].status = "POSTED"
        /\ shown'.sales[id].command = cmd
    BY <1>1 DEF Serial!SaleRecord
  <2> QED BY <1>1, <2>1 DEF Bill, Standing
<1> HIDE DEF total
<1>8. shown'.exposure[c] = shown.exposure[c] + (Bill(shown', id, c) - Bill(shown, id, c))
  <2>1. CASE c = cmd.customer /\ cmd.credit
    BY <1>2, <1>3, <1>4, <1>6, <1>7, <2>1
  <2>2. CASE ~(c = cmd.customer /\ cmd.credit)
    BY <1>2, <1>3, <1>4, <1>6, <1>7, <2>2
  <2> QED BY <2>1, <2>2
<1> QED BY <1>5, <1>8 DEF BillMoves

\* A Reverse takes one bill back, or none, of each customer.
LEMMA ReverseBills ==
  ASSUME Serial!IInv, NEW k \in Key, NEW x \in SaleId, NEW id \in SaleId,
         Serial!Reverse(k, x, id), NEW c \in Customer
  PROVE  BillMoves(shown, shown', c)
<1> DEFINE cmd == shown.sales[x].command
           total == cmd.net + cmd.tax
           owed == IF cmd.credit THEN total ELSE 0
<1>1. /\ Serial!TypeOK /\ Serial!RowsOfCommand
  BY DEF Serial!IInv
<1>2. /\ shown.sales[x] # NoSale /\ shown.sales[x].type = "SALE"
      /\ shown.sales[x].status # "REVERSED" /\ shown.sales[id] = NoSale /\ x # id
      /\ shown.sales \in [SaleId -> Serial!Record \cup {NoSale}]
      /\ shown.exposure \in [Customer -> Int]
  BY <1>1 DEF Serial!Reverse, Serial!Reversible, Serial!Fresh, Serial!TypeOK
<1>3. shown.sales[x] \in Serial!Record
  BY <1>2
<1>4. cmd \in Commands /\ shown.sales[x].status = "POSTED"
  BY <1>2, <1>3 DEF Serial!Record
<1>5. cmd.customer \in Customer /\ cmd.credit \in BOOLEAN /\ total \in Int /\ owed \in Int
  <2>1. cmd.net \in Nat /\ cmd.tax \in Nat /\ cmd.customer \in Customer /\ cmd.credit \in BOOLEAN
    BY <1>4, CommandTyped
  <2> QED BY <2>1
<1>6. shown.rows[x].owed = owed
  <2>1. shown.rows[x] = Serial!SaleRows(cmd, cmd.demand)
    BY <1>1, <1>2 DEF Serial!RowsOfCommand, Serial!Posted
  <2> QED BY <2>1 DEF Serial!SaleRows, Serial!Total
<1>7. shown'.exposure = [shown.exposure EXCEPT ![cmd.customer] = @ + -owed]
  <2>1. Serial!AppendRows(id, cmd.customer, Serial!ReversalRows(shown.rows[x]))
    BY DEF Serial!Reverse, Serial!PostReversal
  <2>2. Serial!ReversalRows(shown.rows[x]).owed = -owed
    BY <1>6 DEF Serial!ReversalRows
  <2> HIDE DEF owed, cmd
  <2> QED BY <2>1, <2>2 DEF Serial!AppendRows
<1>8. /\ shown'.sales[x].status = "REVERSED"
      /\ shown'.sales[id].type = "REVERSAL"
      /\ \A s \in SaleId \ {x, id} : shown'.sales[s] = shown.sales[s]
  <2>1. shown'.sales = [shown.sales EXCEPT ![id] = Serial!ReversalRecord(x), ![x].status = "REVERSED"]
    BY DEF Serial!Reverse, Serial!PostReversal
  <2>2. Serial!ReversalRecord(x).type = "REVERSAL"
    BY DEF Serial!ReversalRecord
  <2>3. [shown.sales[x] EXCEPT !.status = "REVERSED"].status = "REVERSED"
    BY <1>3 DEF Serial!Record
  <2>4. shown'.sales[x] = [shown.sales[x] EXCEPT !.status = "REVERSED"]
    BY <1>2, <2>1
  <2>5. shown'.sales[id] = Serial!ReversalRecord(x)
    BY <1>2, <2>1
  <2>6. \A s \in SaleId \ {x, id} : shown'.sales[s] = shown.sales[s]
    BY <1>2, <2>1
  <2> QED BY <2>2, <2>3, <2>4, <2>5, <2>6
<1>9. \A s \in SaleId \ {x} : Bill(shown', s, c) = Bill(shown, s, c)
  <2>1. Bill(shown', id, c) = 0 /\ Bill(shown, id, c) = 0
    BY <1>2, <1>8 DEF Bill, Standing
  <2>2. \A s \in SaleId \ {x, id} : Bill(shown', s, c) = Bill(shown, s, c)
    BY <1>8 DEF Bill, Standing
  <2> QED BY <2>1, <2>2
<1>10. Bill(shown', x, c) = 0
  BY <1>8 DEF Bill, Standing
<1>11. Bill(shown, x, c) = IF c = cmd.customer /\ cmd.credit THEN total ELSE 0
  BY <1>2, <1>4 DEF Bill, Standing
<1> HIDE DEF total, cmd
<1>12. shown'.exposure[c] = shown.exposure[c] + (Bill(shown', x, c) - Bill(shown, x, c))
  <2>1. CASE c = cmd.customer /\ cmd.credit
    BY <1>2, <1>5, <1>7, <1>10, <1>11, <2>1
  <2>2. CASE ~(c = cmd.customer /\ cmd.credit)
    BY <1>2, <1>5, <1>7, <1>10, <1>11, <2>2
  <2> QED BY <2>1, <2>2
<1> QED BY <1>9, <1>12 DEF BillMoves

\* Receipts, edits of an account and steps that write nothing leave them alone.
LEMMA QuietBills ==
  ASSUME [Serial!Next]_Serial!books
  PROVE  \/ \E k \in Key, cmd \in Commands, id \in SaleId : Serial!Complete(k, cmd, id)
         \/ \E k \in Key, x \in SaleId, id \in SaleId : Serial!Reverse(k, x, id)
         \/ shown'.sales = shown.sales /\ shown'.exposure = shown.exposure
BY DEF Serial!Next, Serial!Environment, Serial!Receive, Serial!Settle, Serial!EditAccount,
  Serial!books

\* No step of the serial service takes exposure below zero or above every limit.
LEMMA ExposureStep ==
  ASSUME Serial!IInv, [Serial!Next]_Serial!books, ExposureInv(shown),
         state \in Tables, state' \in Tables, shown = Books(state), shown' = Books(state')
  PROVE  ExposureInv(shown')
<1> SUFFICES ASSUME NEW c \in Customer
             PROVE  /\ shown'.exposure[c] = SumFunction(Bills(shown', c))
                    /\ \/ shown'.exposure[c] = 0
                       \/ \E t \in Terms : shown'.exposure[c] <= t.limit
  BY DEF ExposureInv
<1>1. /\ shown.exposure[c] = SumFunction(Bills(shown, c))
      /\ shown.exposure[c] = 0 \/ \E t \in Terms : shown.exposure[c] <= t.limit
  BY DEF ExposureInv
<1>2. shown'.exposure[c] = SumFunction(Bills(shown', c))
  <2>1. CASE BillMoves(shown, shown', c)
    BY <1>1, <2>1, BillsFollow
  <2>2. CASE shown'.sales = shown.sales /\ shown'.exposure = shown.exposure
    <3>1. \A s \in SaleId : Bill(shown', s, c) = Bill(shown, s, c)
      BY <2>2 DEF Bill, Standing
    <3>2. Bills(shown', c) = Bills(shown, c)
      BY <3>1 DEF Bills
    <3> QED BY <1>1, <2>2, <3>2
  <2>3. Serial!TypeOK
    BY DEF Serial!IInv
  <2> QED BY <2>1, <2>2, <2>3, QuietBills, CompleteBills, ReverseBills
<1>3. shown.exposure[c] \in Nat /\ shown'.exposure[c] \in Nat
  <2>1. SumFunction(Bills(shown, c)) \in Nat
    BY BillsTyped
  <2>2. SumFunction(Bills(shown', c)) \in Nat
    BY BillsTyped
  <2> QED BY <1>1, <1>2, <2>1, <2>2
<1>4. state.customers[c] \in Terms /\ \A t \in Terms : t.limit \in Nat
  BY TablesFields, SeedAssumption
<1>5. shown'.exposure[c] > shown.exposure[c] => shown'.exposure[c] <= state.customers[c].limit
  <2>1. Serial!RaisedWithinLimit
    BY SerialAssumptions, Serial!CreditStep
  <2> QED BY <2>1 DEF Serial!RaisedWithinLimit
<1>6. CASE shown'.exposure[c] > shown.exposure[c]
  BY <1>2, <1>4, <1>5, <1>6
<1>7. CASE ~(shown'.exposure[c] > shown.exposure[c])
  <2>1. \A t \in Terms : shown.exposure[c] <= t.limit => shown'.exposure[c] <= t.limit
    BY <1>3, <1>4, <1>7
  <2>2. shown.exposure[c] = 0 => shown'.exposure[c] = 0
    BY <1>3, <1>7
  <2> QED BY <1>1, <1>2, <2>1, <2>2
<1> QED BY <1>6, <1>7

-----------------------------------------------------------------------------
(* The clone becomes the state *)

\* The holder of the mutex is answered, and the mutex released.
LEMMA HolderAnswered ==
  ASSUME MemInv, NEW n \in Request, req[n].at \in Held,
         NEW q \in RequestType, Formed(q), q.at = "answered", req' = [req EXCEPT ![n] = q],
         mu' = 0, next' = NoSale, sale' = NoSums, faults' = faults, StoreInv',
         AnswerInv(n, q, state'), \A m \in Request : m # n => AnswerInv(m, req[m], state')
  PROVE  MemInv'
<1>1. mu = n /\ req \in [Request -> RequestType] /\ faults' \in 0..MaxFaults
  BY DEF MemInv, ControlInv
<1>2. /\ req' \in [Request -> RequestType] /\ req'[n] = q
      /\ \A m \in Request : m # n => req'[m] = req[m]
  BY <1>1
<1>3. ControlInv'
  <2>1. ASSUME NEW m \in Request PROVE Formed(req'[m]) /\ (req'[m].at \in Held <=> mu' = m)
    <3>1. m # 0 /\ Formed(req[m]) /\ (req[m].at \in Held <=> mu = m)
      BY DEF MemInv, ControlInv, Request
    <3>2. CASE m = n
      BY <1>2, <3>1, <3>2 DEF Held
    <3>3. CASE m # n
      BY <1>1, <1>2, <3>1, <3>3
    <3> QED BY <3>2, <3>3
  <2> QED BY <1>1, <1>2, <2>1 DEF ControlInv
<1>4. \A m \in Request : AnswerInv(m, req'[m], state')
  BY <1>2
<1> QED BY <1>3, <1>4 DEF MemInv

\* A transaction that wrote is one step of the serial service.
LEMMA Commits ==
  ASSUME NEW n \in Request, Settled(n, state, shown), NEW r \in RequestType, Formed(r),
         r.at \in Held, Keyed(r, state, state', n),
         \/ SoldEnd(n, r, state, shown, state', sale)
         \/ ReversedEnd(n, r, state, state'),
         state'.customers = state.customers, shown' = Books(state')
  PROVE  /\ Serial!Next /\ AppendedRecord(n, state, state') /\ <<r.op, r.key>> \in KeySlot
         /\ \E D, O, P, J : AppendedRows(n, state, state', D, O, P, J)
<1>1. n \in SaleId
  BY DEF SaleId
<1>2. CASE SoldEnd(n, r, state, shown, state', sale)
  <2>1. r.op = "complete" /\ r.key \in Key /\ r.arg \in Order /\ Wanted(r.arg)
    BY <1>2 DEF SoldEnd, Formed
  <2>2. Serial!Complete(r.key, Exact(r.arg), n) /\ Exact(r.arg) \in Commands
    BY <1>2, <2>1, SoldIsSerial
  <2>3. Serial!Next
    BY <1>1, <2>1, <2>2 DEF Serial!Next
  <2>4. AppendedRecord(n, state, state')
    BY <1>2, <2>1, SoldRecord
  <2>5. \E D, O, P, J : AppendedRows(n, state, state', D, O, P, J)
    BY <1>2, <2>1, SoldRows
  <2>6. <<r.op, r.key>> \in KeySlot
    BY <2>1 DEF KeySlot
  <2> QED BY <2>3, <2>4, <2>5, <2>6
<1>3. CASE ReversedEnd(n, r, state, state')
  <2>1. r.op = "reverse" /\ r.key \in Key /\ r.arg \in SaleId
    BY <1>3 DEF ReversedEnd, Formed
  <2>2. PICK j : ReversedWith(n, r.arg, state, state', j)
    BY <1>3, ReversedWithSome
  <2>3. Serial!Reverse(r.key, r.arg, n)
    BY <2>1, <2>2, ReversedIsSerial
  <2>4. Serial!Next
    BY <1>1, <2>1, <2>3 DEF Serial!Next
  <2>5. AppendedRecord(n, state, state')
    BY <2>1, <2>2, ReversedRecord
  <2>6. ReversedFacts(n, r.arg, state, state', j)
    BY <2>1, <2>2, ReversedFactsHold
  <2>7. \E D, O, P, J : AppendedRows(n, state, state', D, O, P, J)
    BY <2>6 DEF ReversedFacts
  <2>8. <<r.op, r.key>> \in KeySlot
    BY <2>1 DEF KeySlot
  <2> QED BY <2>4, <2>5, <2>7, <2>8
<1> QED BY <1>2, <1>3

\* The store after a step of the serial service that left it tidy.
LEMMA StoreAfter ==
  ASSUME StoreInv, [Serial!Next]_Serial!books, state' \in Tables, Finite(state'),
         shown' = Books(state'), Tidy(state')
  PROVE  StoreInv'
<1>1. /\ state \in Tables /\ shown = Books(state) /\ ExposureInv(shown) /\ Serial!IInv
  BY DEF StoreInv
<1>2. ExposureInv(shown')
  BY <1>1, ExposureStep
<1>3. Serial!IInv'
  BY <1>1, SerialNext
<1> QED BY <1>2, <1>3 DEF StoreInv

\* The clone becomes the state: one step of the serial service, or none when
\* nothing was written.
LEMMA CommitStep ==
  ASSUME MemInv, NEW n \in Request, req[n].at = "end", Store(next), Swap(n)
  PROVE  MemInv' /\ [Serial!Next]_Serial!books
<1> DEFINE r == req[n]
           q == [r EXCEPT !.at = "answered"]
<1>1. /\ r \in RequestType /\ Formed(r) /\ r.at = "end" /\ r.at \in Held
      /\ Settled(n, state, shown) /\ next \in Tables
      /\ Tx(n, r, state, shown, next, sale)
  <2>1. r.at \in Held
    BY DEF Held, Places
  <2> QED BY <2>1, HolderFacts
<1>2. /\ state' = next /\ shown' = Books(state') /\ req' = [req EXCEPT ![n] = q]
      /\ mu' = 0 /\ next' = NoSale /\ sale' = NoSums /\ faults' = faults
  BY DEF Store, Swap
<1>3. /\ q \in RequestType /\ q.at = "answered" /\ q.op = r.op /\ q.key = r.key
      /\ q.arg = r.arg /\ q.result = r.result /\ q.err = r.err /\ r.err = "none"
  <2>1. "answered" \in Places /\ r.err = "none"
    BY <1>1 DEF Places, Formed
  <2> QED BY <1>1, <2>1, RequestMoved
<1> HIDE DEF q
<1>4. Formed(q)
  BY <1>1, <1>3 DEF Formed, Held, Selling, Undoing
<1>5. /\ Finite(state') /\ state' \in Tables /\ state'.customers = state.customers
      /\ TxEnd(n, r, state, shown, state', sale)
  BY <1>1, <1>2 DEF Tx
<1>6. ASSUME NEW m \in Request, m # n
      PROVE  AnswerInv(m, req[m], state) /\ req[m] \in RequestType /\ Formed(req[m])
  BY DEF MemInv, ControlInv
<1>7. StoreInv
  BY DEF MemInv
<1> HIDE DEF r
<1>8. req[n].at \in Held
  BY <1>1 DEF r
<1>9. CASE state' = state /\ Answer(r, state)
  <2>1. shown' = shown
    BY <1>2, <1>7, <1>9 DEF StoreInv
  <2>2. StoreInv'
    BY <1>7, <1>9, <2>1, StoreKept
  <2>3. AnswerInv(n, q, state')
    <3>1. Answer(q, state)
      BY <1>3, <1>9 DEF Answer, Key1
    <3>2. state.sales[n] = NoSale
      BY <1>1 DEF Settled
    <3> QED BY <1>3, <1>9, <3>1, <3>2 DEF AnswerInv
  <2>4. \A m \in Request : m # n => AnswerInv(m, req[m], state')
    BY <1>6, <1>9
  <2>5. MemInv'
    BY <1>2, <1>3, <1>4, <1>8, <2>2, <2>3, <2>4, HolderAnswered
  <2>6. UNCHANGED Serial!books
    BY <1>9, <2>1 DEF Serial!books
  <2> QED BY <2>5, <2>6
<1>10. CASE /\ r.result = n /\ Keyed(r, state, state', n)
            /\ SoldEnd(n, r, state, shown, state', sale) \/ ReversedEnd(n, r, state, state')
  <2>1. /\ Serial!Next /\ AppendedRecord(n, state, state') /\ <<r.op, r.key>> \in KeySlot
        /\ \E D, O, P, J : AppendedRows(n, state, state', D, O, P, J)
    BY <1>1, <1>2, <1>5, <1>10, Commits
  <2>2. Tidy(state')
    <3>1. PICK D, O, P, J : AppendedRows(n, state, state', D, O, P, J)
      BY <2>1
    <3> QED BY <1>1, <1>10, <2>1, <3>1, TidyKept
  <2>3. StoreInv'
    BY <1>2, <1>5, <1>7, <2>1, <2>2, StoreAfter
  <2>4. AnswerInv(n, q, state')
    <3>1. n \in SaleId /\ q.result = n /\ state'.sales[n] # NoSale
      BY <1>3, <1>10, <2>1, RowFields DEF SaleId, AppendedRecord
    <3>2. q.op # "read"
      BY <1>3, <2>1 DEF KeySlot
    <3>3. state'.idempotencies[<<q.op, q.key>>] = Key1(q, q.result)
      <4> DEFINE slot == <<r.op, r.key>>
      <4>1. state.idempotencies \in [KeySlot -> KeyRow \cup {NoSale}]
        BY <1>1, TablesFields DEF Settled
      <4>2. state'.idempotencies = [state.idempotencies EXCEPT ![slot] = Key1(r, n)]
        BY <1>10 DEF Keyed
      <4>3. slot \in KeySlot
        BY <2>1
      <4>4. Key1(q, q.result) = Key1(r, n) /\ <<q.op, q.key>> = slot
        BY <1>3, <1>10 DEF Key1
      <4> HIDE DEF slot
      <4>5. state'.idempotencies[slot] = Key1(r, n)
        BY <4>1, <4>2, <4>3
      <4> QED BY <4>4, <4>5
    <3>4. Answer(q, state')
      BY <3>1, <3>3 DEF Answer
    <3> QED BY <1>3, <3>1, <3>2, <3>4 DEF AnswerInv, Done
  <2>5. \A m \in Request : m # n => AnswerInv(m, req[m], state')
    <3>1. ASSUME NEW m \in Request, m # n PROVE AnswerInv(m, req[m], state')
      BY <1>1, <1>6, <1>10, <2>1, <3>1, AnswersKept
    <3> QED BY <3>1
  <2>6. MemInv'
    BY <1>2, <1>3, <1>4, <1>8, <2>3, <2>4, <2>5, HolderAnswered
  <2> QED BY <2>1, <2>6
<1>11. \/ state' = state /\ Answer(r, state)
       \/ /\ r.result = n /\ Keyed(r, state, state', n)
          /\ SoldEnd(n, r, state, shown, state', sale) \/ ReversedEnd(n, r, state, state')
  BY <1>5 DEF TxEnd
<1> QED BY <1>9, <1>10, <1>11

\* A transaction ends.
LEMMA FinishStep ==
  ASSUME MemInv, NEW n \in Request, Finish(n)
  PROVE  MemInv' /\ [Serial!Next]_Serial!books
<1>1. req[n].at = "end" /\ req[n].at \in Held
  BY DEF Finish, At, Held, Places
<1>2. CASE req[n].cancelled /\ Fail(n, "cancelled")
  <2>1. /\ Reason(req[n], "cancelled") /\ Refuse(n, "cancelled")
        /\ UNCHANGED <<state, shown>> /\ mu' = 0 /\ next' = NoSale /\ sale' = NoSums
    BY <1>2 DEF Reason, Fail
  <2>2. faults' \in 0..MaxFaults
    BY <1>2 DEF Fail, MemInv, ControlInv
  <2>3. MemInv'
    BY <1>1, <2>1, <2>2, HolderFails
  <2>4. UNCHANGED Serial!books
    BY <2>1 DEF Serial!books
  <2> QED BY <2>3, <2>4
<1>3. CASE Store(next) /\ Swap(n)
  BY <1>1, <1>3, CommitStep
<1> QED BY <1>2, <1>3 DEF Finish

-----------------------------------------------------------------------------
(* What the rest of the program writes in the tables *)

\* Tables in which no row of a request has changed stay tidy.
LEMMA TidySame ==
  ASSUME NEW t, NEW u, Tidy(t),
         u.sales = t.sales, u.idempotencies = t.idempotencies, u.ledger = t.ledger,
         u.payments = t.payments, u.journals = t.journals, u.outbox = t.outbox,
         \A row \in u.movements : row \in t.movements \/ row.source = 0
  PROVE  Tidy(u)
<1>1. ASSUME NEW s \in SaleId, Nothing(t, s) PROVE Nothing(u, s)
  <2>1. s # 0
    BY DEF SaleId, Request
  <2> QED BY <1>1, <2>1 DEF Nothing, Without
<1>2. \A s \in SaleId : Content(t, s) => Content(u, s)
  BY DEF Content
<1> QED BY <1>1, <1>2 DEF Tidy

\* Nobody is at work, and every request was answered what it still finds.
LEMMA SeedFrame ==
  ASSUME MemInv, mu = 0, UNCHANGED <<next, mu, sale, req, faults>>, StoreInv',
         state'.sales = state.sales, state'.idempotencies = state.idempotencies
  PROVE  MemInv'
<1>1. ControlInv'
  BY DEF MemInv, ControlInv
<1>2. ASSUME NEW n \in Request PROVE AnswerInv(n, req'[n], state')
  <2>1. AnswerInv(n, req[n], state) /\ req'[n] = req[n]
    BY DEF MemInv
  <2> QED BY <2>1 DEF AnswerInv, Answer
<1> QED BY <1>1, <1>2 DEF MemInv

\* What one row moves.
LEMMA MovedOfOne ==
  ASSUME NEW m \in Movement, NEW p
  PROVE  Moved({m}, p) = IF m.product = p THEN m.quantity ELSE 0
<1> DEFINE f == [x \in {m} |-> IF x.product = p THEN x.quantity ELSE 0]
<1>1. m.quantity \in Int
  BY DEF Movement
<1>2. /\ f \in [{m} -> Int] /\ f[m] = (IF m.product = p THEN m.quantity ELSE 0)
      /\ Moved({m}, p) = SumFunction(f)
  BY <1>1 DEF Moved
<1> HIDE DEF f
<1> QED BY <1>2, SumSingle

SeedRow(t, p, k) ==
  LET seeds == {row \in t.movements : row.source = 0 /\ row.product = p} IN
  [source |-> 0, line |-> Cardinality(seeds) + 1, product |-> p, quantity |-> k]

\* The row that seeds stock.
LEMMA SeedRowType ==
  ASSUME NEW t, Finite(t), NEW p \in Product, NEW k \in Receipt
  PROVE  LET m == SeedRow(t, p, k) IN
         m \in Movement /\ m.source = 0 /\ m.product = p /\ m.quantity = k
<1> DEFINE seeds == {row \in t.movements : row.source = 0 /\ row.product = p}
           i == Cardinality(seeds) + 1
           m == [source |-> 0, line |-> i, product |-> p, quantity |-> k]
<1>1. IsFiniteSet(seeds)
  BY FS_Subset DEF Finite
<1> HIDE DEF seeds
<1>2. i \in Nat
  BY <1>1, FS_CardinalityType
<1> HIDE DEF i
<1>3. k \in Int
  BY SeedAssumption
<1>4. m \in Movement /\ m.source = 0 /\ m.product = p /\ m.quantity = k
  BY <1>2, <1>3 DEF Movement
<1>5. SeedRow(t, p, k) = m
  BY DEF SeedRow, i, seeds
<1> QED BY <1>4, <1>5

Raised(b, d, p, k) ==
  /\ d.sales = b.sales /\ d.claims = b.claims /\ d.rows = b.rows
  /\ d.exposure = b.exposure /\ d.gl = b.gl
  /\ d.stock = [b.stock EXCEPT ![p] = @ + k]

\* Goods on a row that no request wrote are stock, and nothing else.
LEMMA BooksSeeded ==
  ASSUME NEW t, NEW u, Typed(t.movements, t.ledger, t.payments, t.journals),
         NEW m \in Movement, m.source = 0, m \notin t.movements,
         u.movements = t.movements \cup {m}, u.ledger = t.ledger, u.payments = t.payments,
         u.journals = t.journals, u.sales = t.sales, u.idempotencies = t.idempotencies
  PROVE  Raised(Books(t), Books(u), m.product, m.quantity)
<1>1. Books(u).sales = Books(t).sales /\ Books(u).claims = Books(t).claims
  BY DEF Books
<1>2. Books(u).exposure = Books(t).exposure /\ Books(u).gl = Books(t).gl
  BY DEF Books
<1>3. Books(u).rows = Books(t).rows
  <2>1. ASSUME NEW s \in SaleId
        PROVE  {row \in u.movements : row.source = s} = {row \in t.movements : row.source = s}
    <3>1. s # 0
      BY DEF SaleId, Request
    <3> QED BY <3>1
  <2> QED BY <2>1 DEF Books
<1>4. ASSUME NEW p \in Product
      PROVE  /\ Moved(u.movements, p) = Moved(t.movements, p)
                                        + (IF m.product = p THEN m.quantity ELSE 0)
             /\ Moved(t.movements, p) \in Int
  <2>1. /\ t.movements \in SUBSET Movement /\ {m} \in SUBSET Movement
        /\ IsFiniteSet(t.movements) /\ IsFiniteSet({m}) /\ t.movements \cap {m} = {}
    BY FS_Singleton DEF Typed
  <2>2. /\ Moved(t.movements \cup {m}, p) = Moved(t.movements, p) + Moved({m}, p)
        /\ Moved(t.movements, p) \in Int
    BY <2>1, MovedJoined
  <2> QED BY <2>2, MovedOfOne
<1>5. m.product \in Product /\ m.quantity \in Int
  BY DEF Movement
<1>6. Books(u).stock = [Books(t).stock EXCEPT ![m.product] = @ + m.quantity]
  <2> DEFINE B == Books(t).stock
  <2>1. /\ Books(u).stock = [p \in Product |-> Moved(u.movements, p)]
        /\ B = [p \in Product |-> Moved(t.movements, p)]
    BY DEF Books
  <2> HIDE DEF B
  <2> DEFINE q == m.product
             k == m.quantity
             C == Books(u).stock
  <2>2. q \in Product /\ k \in Int
    BY <1>5
  <2>3. ASSUME NEW p \in Product PROVE C[p] = IF p = q THEN B[p] + k ELSE B[p]
    <3>1. C[p] = Moved(u.movements, p) /\ B[p] = Moved(t.movements, p)
      BY <2>1
    <3>2. C[p] = B[p] + (IF q = p THEN k ELSE 0) /\ B[p] \in Int
      BY <1>4, <3>1
    <3> HIDE DEF C, q, k
    <3> QED BY <3>2
  <2>4. DOMAIN C = Product /\ DOMAIN B = Product /\ C = [p \in Product |-> C[p]]
    BY <2>1
  <2> HIDE DEF C, q, k
  <2>5. C = [B EXCEPT ![q] = @ + k]
    BY <2>2, <2>3, <2>4
  <2> QED BY <2>5 DEF B, C, q, k
<1> QED BY <1>1, <1>2, <1>3, <1>6 DEF Raised

\* Seeded stock is goods received.
LEMMA SeedStockStep ==
  ASSUME StoreInv, NEW p \in Product, NEW k \in Receipt, SeedStock(p, k)
  PROVE  /\ StoreInv' /\ [Serial!Next]_Serial!books
         /\ state'.sales = state.sales /\ state'.idempotencies = state.idempotencies
<1> DEFINE m == SeedRow(state, p, k)
<1>1. /\ Moved(state.movements, p) + k <= MaxStock
      /\ state' = [state EXCEPT !.movements = @ \cup {m}] /\ shown' = Books(state')
  BY DEF SeedStock, Store, SeedRow
<1>2. /\ state \in Tables /\ Finite(state) /\ Tidy(state) /\ shown = Books(state)
      /\ Typed(state.movements, state.ledger, state.payments, state.journals)
  BY TablesFields DEF StoreInv, Finite, Typed
<1>3. m \in Movement /\ m.source = 0 /\ m.product = p /\ m.quantity = k
  BY <1>2, SeedRowType
<1> HIDE DEF m
<1>4. /\ state' \in Tables /\ Finite(state') /\ state'.movements = state.movements \cup {m}
      /\ state'.customers = state.customers /\ state'.ledger = state.ledger
      /\ state'.payments = state.payments /\ state'.sales = state.sales
      /\ state'.journals = state.journals /\ state'.outbox = state.outbox
      /\ state'.idempotencies = state.idempotencies
  BY <1>1, <1>2, <1>3, TablesMoved
<1>5. Tidy(state')
  BY <1>2, <1>3, <1>4, TidySame
<1>6. [Serial!Next]_Serial!books
  <2>1. CASE m \in state.movements
    <3>1. Books(state') = Books(state)
      <4>1. state'.movements = state.movements
        BY <1>4, <2>1
      <4> QED BY <1>4, <4>1 DEF Books
    <3> QED BY <1>1, <1>2, <1>4, <3>1 DEF Serial!books
  <2>2. CASE m \notin state.movements
    <3>1. Raised(shown, shown', p, k)
      <4>1. Raised(Books(state), Books(state'), m.product, m.quantity)
        BY <1>2, <1>3, <1>4, <2>2, BooksSeeded
      <4> QED BY <1>1, <1>2, <1>3, <4>1
    <3>2. shown.stock[p] + k <= MaxStock
      BY <1>1, <1>2 DEF Books
    <3>3. Serial!Receive(p, k)
      BY <1>4, <3>1, <3>2 DEF Serial!Receive, Raised
    <3> QED BY <3>3 DEF Serial!Next, Serial!Environment
  <2> QED BY <2>1, <2>2
<1> QED BY <1>1, <1>4, <1>5, <1>6, StoreAfter

\* A seeded customer is an edited account.
LEMMA SeedCustomerStep ==
  ASSUME StoreInv, NEW c \in Customer, NEW x \in Terms, SeedCustomer(c, x)
  PROVE  /\ StoreInv' /\ [Serial!Next]_Serial!books
         /\ state'.sales = state.sales /\ state'.idempotencies = state.idempotencies
<1> DEFINE A == [state.customers EXCEPT ![c] = x]
           u == [state EXCEPT !.customers = A]
<1>1. /\ state \in Tables /\ Finite(state) /\ Tidy(state) /\ shown = Books(state)
  BY DEF StoreInv
<1>2. A \in [Customer -> Terms]
  BY <1>1, TablesFields
<1>3. state' = u /\ shown' = Books(state') /\ state.customers[c] # x
  BY DEF SeedCustomer, Store
<1>4. /\ u.movements = state.movements /\ u.customers = A /\ u.open = state.open
      /\ u.ledger = state.ledger /\ u.payments = state.payments /\ u.sales = state.sales
      /\ u.journals = state.journals /\ u.outbox = state.outbox
      /\ u.idempotencies = state.idempotencies /\ u = [y \in TableNames |-> u[y]]
  <2> HIDE DEF A
  <2> QED BY <1>1, TablesFields DEF TableNames
<1> HIDE DEF u
<1>5. u \in Tables /\ Finite(u)
  BY <1>1, <1>2, <1>4, TablesFields, TablesMade DEF Finite
<1>6. Tidy(state')
  BY <1>1, <1>3, <1>4, TidySame
<1>7. Books(u) = Books(state)
  BY <1>4 DEF Books
<1>8. Serial!EditAccount(c, x)
  BY <1>1, <1>3, <1>4, <1>7 DEF Serial!EditAccount
<1>9. [Serial!Next]_Serial!books
  BY <1>8 DEF Serial!Next, Serial!Environment
<1> QED BY <1>3, <1>4, <1>5, <1>6, <1>9, StoreAfter

\* The fiscal period is not in the books.
LEMMA SeedPeriodStep ==
  ASSUME StoreInv, ReplaceFiscalPeriods
  PROVE  /\ StoreInv' /\ [Serial!Next]_Serial!books
         /\ state'.sales = state.sales /\ state'.idempotencies = state.idempotencies
<1> DEFINE o == ~state.open
           u == [state EXCEPT !.open = o]
<1>1. /\ state \in Tables /\ Finite(state) /\ Tidy(state) /\ shown = Books(state)
  BY DEF StoreInv
<1>2. o \in BOOLEAN
  OBVIOUS
<1>3. state' = u /\ shown' = Books(state')
  BY DEF ReplaceFiscalPeriods, Store
<1>4. /\ u.movements = state.movements /\ u.customers = state.customers /\ u.open = o
      /\ u.ledger = state.ledger /\ u.payments = state.payments /\ u.sales = state.sales
      /\ u.journals = state.journals /\ u.outbox = state.outbox
      /\ u.idempotencies = state.idempotencies /\ u = [y \in TableNames |-> u[y]]
  <2> HIDE DEF o
  <2> QED BY <1>1, TablesFields DEF TableNames
<1> HIDE DEF u, o
<1>5. u \in Tables /\ Finite(u)
  BY <1>1, <1>2, <1>4, TablesFields, TablesMade DEF Finite
<1>6. Tidy(state')
  BY <1>1, <1>3, <1>4, TidySame
<1>7. Books(u) = Books(state)
  BY <1>4 DEF Books
<1>8. [Serial!Next]_Serial!books
  BY <1>1, <1>3, <1>4, <1>7 DEF Serial!books
<1> QED BY <1>3, <1>4, <1>5, <1>6, <1>8, StoreAfter

\* Whatever is seeded, between transactions.
LEMMA SeedStep ==
  ASSUME MemInv, Seed
  PROVE  MemInv' /\ [Serial!Next]_Serial!books
<1>1. mu = 0 /\ UNCHANGED <<next, mu, sale, req, faults>> /\ StoreInv
  BY DEF Seed, MemInv
<1>2. /\ StoreInv' /\ [Serial!Next]_Serial!books
      /\ state'.sales = state.sales /\ state'.idempotencies = state.idempotencies
  BY <1>1, SeedStockStep, SeedCustomerStep, SeedPeriodStep DEF Seed
<1> QED BY <1>1, <1>2, SeedFrame

-----------------------------------------------------------------------------
(* The first state, and every step *)

\* The tables of a new store.
LEMMA FirstTables ==
  ASSUME NEW accounts \in [Customer -> Terms]
  PROVE  LET t == newState(accounts) IN
         /\ t \in Tables /\ t.customers = accounts /\ t.open = TRUE
         /\ t.sales = [s \in SaleId |-> NoSale] /\ t.movements = {} /\ t.ledger = {}
         /\ t.payments = {} /\ t.journals = {} /\ t.outbox = {}
         /\ t.idempotencies = [x \in KeySlot |-> NoSale]
<1> DEFINE t == newState(accounts)
<1>1. /\ t.customers = accounts /\ t.open = TRUE
      /\ t.sales = [s \in SaleId |-> NoSale] /\ t.movements = {} /\ t.ledger = {}
      /\ t.payments = {} /\ t.journals = {} /\ t.outbox = {}
      /\ t.idempotencies = [x \in KeySlot |-> NoSale]
      /\ t = [x \in TableNames |-> t[x]]
  BY DEF newState, TableNames
<1> HIDE DEF t
<1>2. t \in Tables
  <2>1. /\ t.customers \in [Customer -> Terms] /\ t.open \in BOOLEAN
        /\ t.sales \in [SaleId -> SaleRow \cup {NoSale}]
        /\ t.idempotencies \in [KeySlot -> KeyRow \cup {NoSale}]
    BY <1>1
  <2>2. /\ t.movements \in SUBSET Movement /\ t.ledger \in SUBSET LedgerRow
        /\ t.payments \in SUBSET PaymentRow /\ t.journals \in SUBSET Journal
        /\ t.outbox \in SUBSET Event
    BY <1>1
  <2>3. t = [x \in TableNames |-> t[x]]
    BY <1>1
  <2> QED BY <2>1, <2>2, <2>3, TablesMade
<1> QED BY <1>1, <1>2 DEF t

FirstBooks(b) ==
  /\ b.sales = [s \in SaleId |-> NoSale] /\ b.rows = [s \in SaleId |-> Serial!NoRows]
  /\ b.stock = [p \in Product |-> 0] /\ b.exposure = [c \in Customer |-> 0]
  /\ b.gl = [a \in Accounts |-> 0] /\ b.claims = [x \in KeySlot |-> NoSale]

\* The books of a new store are those SalesLedger begins with.
LEMMA FirstShown ==
  ASSUME NEW accounts \in [Customer -> Terms]
  PROVE  FirstBooks(Books(newState(accounts)))
<1> DEFINE t == newState(accounts)
           b == Books(t)
<1>1. /\ t.sales = [s \in SaleId |-> NoSale] /\ t.movements = {} /\ t.ledger = {}
      /\ t.payments = {} /\ t.journals = {}
      /\ t.idempotencies = [x \in KeySlot |-> NoSale]
  BY FirstTables
<1> HIDE DEF t
<1>2. /\ \A p : Moved({}, p) = 0
      /\ \A c : Owed({}, c) = 0
      /\ Amounts({}) = 0
      /\ \A a : Balance({}, a) = 0
  BY SumFunctionNone DEF Moved, Owed, Amounts, Balance
<1>3. b.stock = [p \in Product |-> 0] /\ b.exposure = [c \in Customer |-> 0]
      /\ b.gl = [a \in Accounts |-> 0]
  BY <1>1, <1>2 DEF Books
<1>4. b.sales = [s \in SaleId |-> NoSale] /\ b.claims = [x \in KeySlot |-> NoSale]
  BY <1>1 DEF Books
<1>5. b.rows = [s \in SaleId |-> Serial!NoRows]
  <2>1. \A s : /\ {row \in t.movements : row.source = s} = {}
               /\ {row \in t.ledger : row.source = s} = {}
               /\ {row \in t.payments : row.sale = s} = {}
               /\ {j \in t.journals : j.source = s} = {}
    BY <1>1
  <2>2. b.rows = [s \in SaleId |->
          [moved |-> [p \in Product |-> Moved({}, p)], owed |-> Amounts({}),
           paid |-> Amounts({}), journal |-> [a \in Accounts |-> Balance({}, a)]]]
    BY <2>1 DEF Books
  <2> QED BY <1>2, <2>2 DEF Serial!NoRows, Serial!Account, Accounts
<1> QED BY <1>3, <1>4, <1>5 DEF FirstBooks, t

\* A new store.
LEMMA FirstState ==
  ASSUME Init
  PROVE  MemInv /\ Serial!InitBooks
<1>1. PICK accounts \in [Customer -> Terms] : state = newState(accounts)
  BY DEF Init
<1>2. /\ shown = Books(state) /\ next = NoSale /\ mu = 0 /\ sale = NoSums
      /\ req = [n \in Request |-> Unsent] /\ faults = 0
  BY DEF Init
<1>3. /\ state \in Tables /\ state.customers = accounts
      /\ state.sales = [s \in SaleId |-> NoSale] /\ state.movements = {} /\ state.ledger = {}
      /\ state.payments = {} /\ state.journals = {} /\ state.outbox = {}
      /\ state.idempotencies = [x \in KeySlot |-> NoSale]
  BY <1>1, FirstTables
<1>4. FirstBooks(shown)
  BY <1>1, <1>2, FirstShown
<1>5. Serial!InitBooks
  BY <1>3, <1>4 DEF FirstBooks, Serial!InitBooks, Serial!Account, Accounts, KeySlot,
     Serial!Slot, Serial!Op
<1>6. Finite(state)
  BY <1>3, FS_EmptySet DEF Finite
<1>7. Tidy(state)
  BY <1>3 DEF Tidy, Nothing, Without
<1>8. ExposureInv(shown)
  <2>1. ASSUME NEW c \in Customer PROVE shown.exposure[c] = 0 /\ SumFunction(Bills(shown, c)) = 0
    <3> DEFINE f == Bills(shown, c)
    <3>1. shown.exposure[c] = 0
      BY <1>4 DEF FirstBooks
    <3>2. f \in [SaleId -> Nat] /\ IsFiniteSet(SaleId)
      BY <1>2, <1>3, BillsTyped
    <3>3. \A s \in SaleId : f[s] = 0
      BY <1>4 DEF FirstBooks, Bills, Bill, Standing
    <3> HIDE DEF f
    <3>4. SumFunction(f) = 0
      BY <3>2, <3>3, SumZero DEF SumFunction
    <3> QED BY <3>1, <3>4 DEF f
  <2> QED BY <2>1 DEF ExposureInv
<1>9. StoreInv
  BY <1>2, <1>3, <1>5, <1>6, <1>7, <1>8, SerialInit DEF StoreInv
<1>10. ControlInv
  <2>1. Unsent \in RequestType
    BY DEF Unsent, RequestType, Places, Op, Errors
  <2>2. Formed(Unsent) /\ Unsent.at \notin Held
    BY DEF Formed, Unsent, Held, Selling, Undoing
  <2>3. 0 \notin Request /\ 0 \in 0..MaxFaults
    BY SeedAssumption DEF Request
  <2> QED BY <1>2, <2>1, <2>2, <2>3 DEF ControlInv
<1>11. ASSUME NEW n \in Request PROVE AnswerInv(n, req[n], state)
  <2>1. req[n].err = "none" /\ ~Done(req[n])
    BY <1>2 DEF Unsent, Done
  <2>2. state.sales[n] = NoSale
    BY <1>3 DEF SaleId
  <2> QED BY <2>1, <2>2 DEF AnswerInv
<1> QED BY <1>2, <1>5, <1>9, <1>10, <1>11 DEF MemInv

\* Until its transaction ends a request writes its own clone.
LEMMA StoreUntouched ==
  ASSUME NEW n \in Request,
         \/ Arrive(n) \/ Lock(n) \/ Cancel(n) \/ NoIdentifier(n)
         \/ Claim(n) \/ Screen(n) \/ TakeLine(n) \/ Charge(n) \/ PostSale(n)
         \/ Original(n) \/ Undo(n) \/ PostReversal(n) \/ Read(n)
         \/ \E op, key, arg : Send(n, op, key, arg)
  PROVE  UNCHANGED <<state, shown>>
<1>1. \A t : Write(t) => UNCHANGED <<state, shown>>
  BY DEF Write, Cloned
<1>2. \A err : Fail(n, err) => UNCHANGED <<state, shown>>
  BY DEF Fail
<1>3. /\ \A place, t : Continue(n, place, t) => UNCHANGED <<state, shown>>
      /\ \A t, result : Return(n, t, result) => UNCHANGED <<state, shown>>
  BY <1>1 DEF Continue, Return
<1>4. CASE Arrive(n) \/ Lock(n) \/ Cancel(n) \/ NoIdentifier(n)
  BY <1>4 DEF Arrive, Lock, Cancel, NoIdentifier
<1>5. CASE Claim(n)
  BY <1>2, <1>3, <1>5 DEF Claim, Unless
<1>6. CASE Screen(n)
  BY <1>2, <1>3, <1>6 DEF Screen, Unless
<1>7. CASE TakeLine(n)
  BY <1>2, <1>3, <1>7 DEF TakeLine, Unless
<1>8. CASE Charge(n)
  BY <1>2, <1>3, <1>8 DEF Charge, Unless
<1>9. CASE PostSale(n)
  BY <1>2, <1>3, <1>9 DEF PostSale, Unless
<1>10. CASE Original(n)
  BY <1>2, <1>3, <1>10 DEF Original, Unless
<1>11. CASE Undo(n)
  BY <1>2, <1>3, <1>11 DEF Undo, Unless
<1>12. CASE PostReversal(n)
  BY <1>2, <1>3, <1>12 DEF PostReversal, Unless
<1>13. CASE Read(n)
  BY <1>2, <1>3, <1>13 DEF Read, Unless
<1>14. CASE \E op, key, arg : Send(n, op, key, arg)
  BY <1>14 DEF Send
<1> QED BY <1>4, <1>5, <1>6, <1>7, <1>8, <1>9, <1>10, <1>11, <1>12, <1>13, <1>14

\* Any request that Next may send.
LEMMA SendSteps ==
  ASSUME MemInv, NEW n \in Request,
         \/ \E k \in KeysOf[n], o \in Order : Send(n, "complete", k, o)
         \/ \E k \in KeysOf[n], s \in SaleId : Send(n, "reverse", k, s)
         \/ \E s \in SaleId : Send(n, "read", NoSale, s)
  PROVE  MemInv'
<1>1. KeysOf[n] \subseteq Key
  BY RequestAssumption
<1>2. "complete" \in Op /\ "reverse" \in Op /\ "read" \in Op
  BY DEF Op
<1>3. CASE \E k \in KeysOf[n], o \in Order : Send(n, "complete", k, o)
  <2>1. PICK k \in KeysOf[n], o \in Order : Send(n, "complete", k, o)
    BY <1>3
  <2> QED BY <1>1, <1>2, <2>1, SendStep
<1>4. CASE \E k \in KeysOf[n], s \in SaleId : Send(n, "reverse", k, s)
  <2>1. PICK k \in KeysOf[n], s \in SaleId : Send(n, "reverse", k, s)
    BY <1>4
  <2> QED BY <1>1, <1>2, <2>1, SendStep
<1>5. CASE \E s \in SaleId : Send(n, "read", NoSale, s)
  <2>1. PICK s \in SaleId : Send(n, "read", NoSale, s)
    BY <1>5
  <2> QED BY <1>2, <2>1, SendStep
<1> QED BY <1>3, <1>4, <1>5

\* A stuttering step.
LEMMA VarsKept ==
  ASSUME MemInv, UNCHANGED vars
  PROVE  MemInv' /\ UNCHANGED Serial!books
<1>1. StoreInv'
  BY StoreKept DEF MemInv, vars
<1>2. ControlInv'
  BY DEF MemInv, ControlInv, vars
<1>3. \A n \in Request : AnswerInv(n, req'[n], state')
  BY DEF MemInv, vars
<1>4. mu' # 0 => Tx(mu', req'[mu'], state', shown', next', sale')
  BY DEF MemInv, vars
<1> QED BY <1>1, <1>2, <1>3, <1>4 DEF MemInv, vars, Serial!books

\* Every step keeps the invariant and is a step of the serial service, or none.
LEMMA MemoryStep ==
  ASSUME MemInv, [Next]_vars
  PROVE  MemInv' /\ [Serial!Next]_Serial!books
<1>1. ASSUME UNCHANGED <<state, shown>> PROVE UNCHANGED Serial!books
  BY <1>1 DEF Serial!books
<1>2. CASE UNCHANGED vars
  BY <1>2, VarsKept
<1>3. CASE Seed
  BY <1>3, SeedStep
<1>4. ASSUME NEW n \in Request, Finish(n) PROVE MemInv' /\ [Serial!Next]_Serial!books
  BY <1>4, FinishStep
<1>5. ASSUME NEW n \in Request,
             \/ \E k \in KeysOf[n], o \in Order : Send(n, "complete", k, o)
             \/ \E k \in KeysOf[n], s \in SaleId : Send(n, "reverse", k, s)
             \/ \E s \in SaleId : Send(n, "read", NoSale, s)
      PROVE  MemInv' /\ [Serial!Next]_Serial!books
  <2>1. MemInv'
    BY <1>5, SendSteps
  <2>2. UNCHANGED <<state, shown>>
    BY <1>5 DEF Send
  <2> QED BY <1>1, <2>1, <2>2
<1>6. ASSUME NEW n \in Request,
             \/ Arrive(n) \/ Lock(n) \/ Cancel(n) \/ NoIdentifier(n)
             \/ Claim(n) \/ Screen(n) \/ TakeLine(n) \/ Charge(n) \/ PostSale(n)
             \/ Original(n) \/ Undo(n) \/ PostReversal(n) \/ Read(n)
      PROVE  MemInv' /\ [Serial!Next]_Serial!books
  <2>1. UNCHANGED <<state, shown>>
    BY <1>6, StoreUntouched
  <2>2. CASE Arrive(n) \/ Lock(n) \/ Cancel(n) \/ NoIdentifier(n)
    BY <1>1, <2>1, <2>2, ArriveStep, LockStep, CancelStep, NoIdentifierStep
  <2>3. CASE Claim(n) \/ Screen(n) \/ TakeLine(n) \/ Charge(n) \/ PostSale(n)
    BY <1>1, <2>1, <2>3, ClaimStep, ScreenStep, TakeLineStep, ChargeStep, PostSaleStep
  <2>4. CASE Original(n) \/ Undo(n) \/ PostReversal(n) \/ Read(n)
    BY <1>1, <2>1, <2>4, OriginalStep, UndoStep, PostReversalStep, ReadStep
  <2> QED BY <1>6, <2>2, <2>3, <2>4
<1> QED BY <1>2, <1>3, <1>4, <1>5, <1>6 DEF Next, Callback

-----------------------------------------------------------------------------
(* What the invariant says of the store's promises *)

\* The errors of the store's rules are answered with a 4xx.
LEMMA RefusalStatus ==
  ASSUME NEW err \in Errors
  PROVE  /\ err # "none" => writeError(err) \notin {200, 201}
         /\ err \in Refusals => writeError(err) # 500
<1>1. CASE err = "not_found" \/ err = "forbidden"
  BY <1>1 DEF writeError
<1>2. CASE err \in {"idempotency_conflict", "insufficient_stock", "period_closed",
                    "already_reversed"}
  BY <1>2 DEF writeError
<1>3. CASE err \in {"customer_inactive", "credit_disabled", "credit_limit",
                    "product_inactive"}
  BY <1>3 DEF writeError
<1>4. CASE err = "invalid_command"
  BY <1>4 DEF writeError
<1>5. CASE err \in {"none", "cancelled", "no identifier", "overflow"}
  <2>1. err \notin Refusals
    BY <1>5 DEF Refusals
  <2>2. writeError(err) = 500
    BY <2>1 DEF writeError, Refusals
  <2> QED BY <2>1, <2>2
<1> QED BY <1>1, <1>2, <1>3, <1>4, <1>5 DEF Errors, Refusals

\* The type invariant, from MemInv.
LEMMA InvType ==
  ASSUME MemInv
  PROVE  MemoryTypeOK
<1>1. /\ mu \in Request \cup {0} /\ faults \in 0..MaxFaults
      /\ mu = 0 => next = NoSale
      /\ mu # 0 => next \in Tables
  BY DEF MemInv, ControlInv
<1>2. next = NoSale <=> mu = 0
  BY <1>1, NoSaleAssumption
<1>3. state \in Tables /\ Tidy(state)
  BY DEF MemInv, StoreInv
<1>4. DOMAIN state = DOMAIN newState(state.customers)
  <2>1. state.customers \in [Customer -> Terms]
    BY <1>3, TablesFields
  <2>2. newState(state.customers) \in Tables
    BY <2>1, FirstTables
  <2> QED BY <1>3, <2>2, TablesFields
<1>5. \A s \in SaleId : state.sales[s] # NoSale => state.sales[s] \in SaleRow
  BY <1>3, TablesFields
<1>6. \A x \in DOMAIN state.idempotencies :
        state.idempotencies[x] # NoSale => state.idempotencies[x].result \in SaleId
  BY <1>3, TablesFields DEF Tidy
<1>7. ASSUME NEW j \in state.journals, NEW i \in DOMAIN j.entries
      PROVE  j.entries[i].debit \in Amount /\ j.entries[i].credit \in Amount
  <2>1. j \in Journal
    BY <1>3, TablesFields
  <2>2. j.entries \in Seq(JournalEntry)
    BY <2>1 DEF Journal
  <2>3. j.entries[i] \in JournalEntry
    BY <2>2
  <2> QED BY <2>3 DEF JournalEntry
<1> QED BY <1>1, <1>2, <1>4, <1>5, <1>6, <1>7 DEF MemoryTypeOK

\* AnswersTellTruth, from MemInv.
LEMMA InvAnswers ==
  ASSUME MemInv
  PROVE  AnswersTellTruth
<1> SUFFICES ASSUME NEW n \in Request
    PROVE
    /\ At(n, "answered") /\ Status(n) \in {200, 201} =>
         state.sales[req[n].result] # NoSale
    /\ At(n, "answered") /\ Status(n) = 201 =>
         state.idempotencies[Slot(n)] = [request |-> req[n].arg, result |-> req[n].result]
    /\ ~(At(n, "answered") /\ Status(n) = 201 /\ req[n].result = n) =>
         /\ state.sales[n] = NoSale
         /\ \A row \in state.movements \cup state.ledger \cup state.journals : row.source # n
         /\ \A row \in state.payments : row.sale # n
         /\ \A e \in state.outbox : e.sale # n
         /\ \A x \in DOMAIN state.idempotencies :
              state.idempotencies[x] # NoSale => state.idempotencies[x].result # n
    /\ At(n, "answered") /\ Status(n) = 500 =>
         \/ req[n].err = "cancelled" /\ req[n].cancelled
         \/ req[n].err = "no identifier"
         \/ req[n].err = "overflow" /\ TooLarge(req[n].arg)
  BY DEF AnswersTellTruth
<1> DEFINE r == req[n]
<1>1. /\ AnswerInv(n, r, state) /\ r \in RequestType /\ r.err \in Errors
      /\ state \in Tables /\ Tidy(state) /\ n \in SaleId
  <2>1. r \in RequestType
    BY DEF MemInv, ControlInv
  <2> QED BY <2>1, RequestFields DEF MemInv, StoreInv, SaleId
<1>2. /\ Status(n) \in {200, 201} <=> r.err = "none"
      /\ Status(n) = 201 <=> r.err = "none" /\ r.op # "read"
      /\ Status(n) = 500 => r.err # "none" /\ r.err \notin Refusals
  <2>1. CASE r.err = "none"
    BY <2>1 DEF Status
  <2>2. CASE r.err # "none"
    <3>1. Status(n) = writeError(r.err)
      BY <2>2 DEF Status
    <3> HIDE DEF r
    <3>2. writeError(r.err) \notin {200, 201} /\ (r.err \in Refusals => writeError(r.err) # 500)
      BY <1>1, <2>2, RefusalStatus
    <3> QED BY <2>2, <3>1, <3>2
  <2> QED BY <2>1, <2>2
<1>3. At(n, "answered") /\ Status(n) \in {200, 201} => Done(r) /\ Answer(r, state)
  BY <1>1, <1>2 DEF At, Done, AnswerInv
<1>4. At(n, "answered") /\ Status(n) \in {200, 201} => state.sales[r.result] # NoSale
  BY <1>3 DEF Answer
<1>5. At(n, "answered") /\ Status(n) = 201 =>
        state.idempotencies[Slot(n)] = [request |-> r.arg, result |-> r.result]
  BY <1>2, <1>3 DEF Answer, Slot, Key1
<1>6. ASSUME ~(At(n, "answered") /\ Status(n) = 201 /\ r.result = n)
      PROVE  /\ state.sales[n] = NoSale
             /\ \A row \in state.movements \cup state.ledger \cup state.journals : row.source # n
             /\ \A row \in state.payments : row.sale # n
             /\ \A e \in state.outbox : e.sale # n
             /\ \A x \in DOMAIN state.idempotencies :
                  state.idempotencies[x] # NoSale => state.idempotencies[x].result # n
  <2>1. state.sales[n] = NoSale
    BY <1>1, <1>2, <1>6 DEF AnswerInv, Done, At
  <2>2. Nothing(state, n)
    BY <1>1, <2>1 DEF Tidy
  <2>3. DOMAIN state.idempotencies = KeySlot
    BY <1>1, TablesFields
  <2>4. \A x \in KeySlot : state.idempotencies[x] # NoSale => state.idempotencies[x].result # n
    BY <1>1, <2>1 DEF Tidy
  <2> QED BY <2>1, <2>2, <2>3, <2>4 DEF Nothing, Without
<1>7. At(n, "answered") /\ Status(n) = 500 =>
        \/ r.err = "cancelled" /\ r.cancelled
        \/ r.err = "no identifier"
        \/ r.err = "overflow" /\ TooLarge(r.arg)
  BY <1>1, <1>2 DEF AnswerInv, Excused
<1> QED BY <1>4, <1>5, <1>6, <1>7

\* MoneyIsExact, from MemInv.
LEMMA InvMoney ==
  ASSUME MemInv
  PROVE  MoneyIsExact
<1>1. Tidy(state)
  BY DEF MemInv, StoreInv
<1>2. ASSUME NEW s \in SaleId, state.sales[s] # NoSale
      PROVE  /\ Recorded(state.sales[s]) = Exact(state.sales[s])
             /\ state.sales[s].total = state.sales[s].subtotal + state.sales[s].tax
  <2>1. Content(state, s)
    BY <1>1, <1>2 DEF Tidy
  <2> QED BY <2>1 DEF Content
<1>3. ASSUME NEW j \in state.journals
      PROVE  SumFunction([i \in DOMAIN j.entries |-> j.entries[i].debit])
               = SumFunction([i \in DOMAIN j.entries |-> j.entries[i].credit])
  BY <1>1 DEF Tidy, Sound, Debits, Credits
<1> QED BY <1>2, <1>3 DEF MoneyIsExact

-----------------------------------------------------------------------------
(* The theorems *)

\* The invariant, and what each step is in the eyes of the serial service.
THEOREM MemoryInductive == Spec => []MemInv /\ Serial!InitBooks /\ [][Serial!Next]_Serial!books
<1>1. Init => MemInv /\ Serial!InitBooks
  BY FirstState
<1>2. MemInv /\ [Next]_vars => MemInv'
  BY MemoryStep
<1>3. MemInv /\ [Next]_vars => [Serial!Next]_Serial!books
  BY MemoryStep
<1> QED BY <1>1, <1>2, <1>3, PTL DEF Spec

\* MemoryTypeOK, for every value of the constants: the tables have their rows,
\* a clone exists exactly while the mutex is held, and no key is stored
\* without its result.
THEOREM MemoryTypeCorrect == Spec => []MemoryTypeOK
<1>1. MemInv => MemoryTypeOK
  BY InvType
<1> QED BY <1>1, MemoryInductive, PTL

\* AnswersTellTruth: a 200 or a 201 names a posted record, any other answer
\* left nothing behind, and a 500 has one of three causes.
THEOREM AnswersAreTrue == Spec => []AnswersTellTruth
<1>1. MemInv => AnswersTellTruth
  BY InvAnswers
<1> QED BY <1>1, MemoryInductive, PTL

\* MoneyIsExact: the int64 sums of the line loop, and the wrapped ones of
\* Journal.Validate, are the sums of numbers without end.
THEOREM MoneyStaysExact == Spec => []MoneyIsExact
<1>1. MemInv => MoneyIsExact
  BY InvMoney
<1> QED BY <1>1, MemoryInductive, PTL

\* LedgerSpec: the store over its clones, statement by statement and with its
\* failures, implements the serial service.
THEOREM StoreImplementsLedger == Spec => LedgerSpec
<1>1. Spec => Serial!Spec
  BY MemoryInductive, PTL DEF Serial!Spec
<1> QED BY <1>1, SerialIsLedger DEF LedgerSpec

\* And so the books of the store are those of the serial service: nothing is
\* oversold or reversed twice, the ledger balances, and each record is the
\* result of one claimed key.
THEOREM MemoryTablesAgree ==
  Spec => [](/\ Serial!StockNeverNegative /\ Serial!OneReversalPerSale
             /\ Serial!DebitsEqualCredits /\ Serial!OneClaimPerRecord)
<1>1. MemInv => /\ Serial!StockNeverNegative /\ Serial!OneReversalPerSale
                /\ Serial!DebitsEqualCredits /\ Serial!OneClaimPerRecord
  BY DEF MemInv, StoreInv, Serial!IInv
<1> QED BY <1>1, MemoryInductive, PTL
=============================================================================
