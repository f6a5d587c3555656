----------------------------- MODULE SumProofs -----------------------------
(***************************************************************************)
(* Sums over finite sets: what SumFunctionOnSet, a fold, amounts to.  The  *)
(* ledgers are sums of rows, and what a posting does to a ledger follows   *)
(* from these facts.                                                       *)
(*                                                                         *)
(* The library's induction theorems take an operator as a parameter; here  *)
(* an induction runs over a set of counterexamples instead, which has a    *)
(* smallest element when it is not empty (SmallestSubset).                 *)
(***************************************************************************)
EXTENDS Functions, Integers, FiniteSets, FiniteSetTheorems, WellFoundedInduction, TLAPS

\* A set of finite sets has a member that no other lies within.
THEOREM SmallestSubset ==
  ASSUME NEW S, IsFiniteSet(S), NEW Bad \in SUBSET (SUBSET S), Bad # {}
  PROVE  \E T \in Bad : \A U \in Bad : ~(U \subseteq T /\ U # T)
<1>1. IsWellFoundedOn(StrictSubsetOrdering(S), FiniteSubsetsOf(S))
  BY FS_StrictSubsetOrderingWellFounded
<1>2. FiniteSubsetsOf(S) = SUBSET S
  BY FS_FiniteSubsetsOfFinite
<1>3. PICK T \in Bad : \A U \in Bad : ~(<<U, T>> \in StrictSubsetOrdering(S))
  BY <1>1, <1>2, WFMin
<1> QED BY <1>3 DEF StrictSubsetOrdering

-----------------------------------------------------------------------------
(* The recursive function behind the fold: it exists, and there is one *)

Picked(S) == CHOOSE x \in S : TRUE

Unfolds(f, S, g) ==
  g = [T \in SUBSET S |-> IF T = {} THEN 0 ELSE f[Picked(T)] + g[T \ {Picked(T)}]]

Unfolding(f, S) == CHOOSE g : Unfolds(f, S, g)

LEMMA SumIsUnfolding ==
  ASSUME NEW f, NEW S
  PROVE  SumFunctionOnSet(f, S) = Unfolding(f, S)[S]
BY DEF SumFunctionOnSet, FoldFunctionOnSet, MapThenFoldSet, Unfolds, Picked, Unfolding

LEMMA UnfoldingUnique ==
  ASSUME NEW f, NEW S, IsFiniteSet(S), NEW g, Unfolds(f, S, g), NEW h, Unfolds(f, S, h)
  PROVE g = h
<1> DEFINE Bad == {T \in SUBSET S : g[T] # h[T]}
<1>1. CASE Bad = {}
  BY <1>1 DEF Unfolds
<1>2. CASE Bad # {}
  <2>0. \E T \in Bad : \A U \in Bad : ~(U \subseteq T /\ U # T)
    <3>1. Bad \in SUBSET (SUBSET S)
      OBVIOUS
    <3> HIDE DEF Bad
    <3> QED BY <1>2, <3>1, SmallestSubset
  <2>1. PICK T \in Bad : \A U \in Bad : ~(U \subseteq T /\ U # T)
    BY <2>0
  <2>2. T # {} /\ T \subseteq S
    BY <2>1 DEF Unfolds
  <2>3. Picked(T) \in T
    BY <2>2 DEF Picked
  <2>4. g[T \ {Picked(T)}] = h[T \ {Picked(T)}]
    BY <2>1, <2>2, <2>3
  <2>5. g[T] = h[T]
    BY <2>2, <2>4 DEF Unfolds
  <2> QED BY <2>1, <2>5
<1> QED BY <1>1, <1>2

LEMMA UnfoldingExists ==
  ASSUME NEW f, NEW S, IsFiniteSet(S)
  PROVE \E g : Unfolds(f, S, g)
<1> DEFINE Bad == {T \in SUBSET S : ~ \E g : Unfolds(f, T, g)}
<1>1. CASE Bad = {}
  BY <1>1
<1>2. CASE Bad # {}
  <2>0. \E T \in Bad : \A U \in Bad : ~(U \subseteq T /\ U # T)
    <3>1. Bad \in SUBSET (SUBSET S)
      OBVIOUS
    <3> HIDE DEF Bad
    <3> QED BY <1>2, <3>1, SmallestSubset
  <2>1. PICK T \in Bad : \A U \in Bad : ~(U \subseteq T /\ U # T)
    BY <2>0
  <2>a. T \subseteq S /\ IsFiniteSet(T)
    BY <2>1, FS_Subset
  <2>2. \A U \in SUBSET T : U # T => \E g : Unfolds(f, U, g)
    BY <2>1
  <2> DEFINE I(U) == Unfolding(f, U)
             Rest(U) == U \ {Picked(U)}
             G == [U \in SUBSET T |->
                     IF U = {} THEN 0 ELSE f[Picked(U)] + I(Rest(U))[Rest(U)]]
  <2>3. ASSUME NEW U \in SUBSET T, U # T PROVE Unfolds(f, U, I(U))
    BY <2>2, <2>3, Zenon DEF Unfolding
  <2>4. ASSUME NEW U \in SUBSET T, U # {} PROVE Picked(U) \in U
    BY <2>4 DEF Picked
  <2>5. ASSUME NEW U \in SUBSET T, U # T PROVE G[U] = I(U)[U]
    <3>1. CASE U = {}
      <4>1. Unfolds(f, U, I(U)) BY <2>3, <2>5
      <4>2. I(U)[U] = 0 BY <4>1, <3>1 DEF Unfolds
      <4> QED BY <3>1, <4>2
    <3>2. CASE U # {}
      <4> DEFINE V == U \ {Picked(U)}
                 R == [W \in SUBSET V |-> I(U)[W]]
      <4>0. V \in SUBSET T /\ V # T /\ V \subseteq U /\ IsFiniteSet(V)
        BY <2>4, <2>a, <3>2, FS_Subset
      <4>1. Unfolds(f, U, I(U)) /\ Unfolds(f, V, I(V))
        BY <2>3, <2>5, <4>0
      <4>2. Unfolds(f, V, R)
        <5>1. \A W \in SUBSET V : W \in SUBSET U /\ W \ {Picked(W)} \in SUBSET V
          BY <4>0
        <5>2. \A W \in SUBSET V :
                R[W] = IF W = {} THEN 0 ELSE f[Picked(W)] + R[W \ {Picked(W)}]
          BY <4>1, <5>1 DEF Unfolds
        <5> QED BY <5>2 DEF Unfolds
      <4>3. R = I(V)
        BY <4>0, <4>1, <4>2, UnfoldingUnique
      <4>4. I(U)[U] = f[Picked(U)] + I(U)[V]
        BY <3>2, <4>1 DEF Unfolds
      <4>5. I(U)[V] = I(V)[V]
        BY <4>3
      <4> QED BY <3>2, <4>4, <4>5
    <3> QED BY <3>1, <3>2
  <2>6. ASSUME NEW U \in SUBSET T, U # {}
        PROVE G[U] = f[Picked(U)] + G[U \ {Picked(U)}]
    <3>1. U \ {Picked(U)} \in SUBSET T /\ U \ {Picked(U)} # T
      BY <2>4, <2>6
    <3>2. G[U \ {Picked(U)}] = I(U \ {Picked(U)})[U \ {Picked(U)}]
      BY <2>5, <3>1
    <3> QED BY <2>6, <3>2
  <2>7. G[{}] = 0
    OBVIOUS
  <2>8. Unfolds(f, T, G)
    <3>1. \A U \in SUBSET T : G[U] = IF U = {} THEN 0 ELSE f[Picked(U)] + G[U \ {Picked(U)}]
      BY <2>6, <2>7
    <3>2. G = [U \in SUBSET T |-> G[U]]
      OBVIOUS
    <3> QED BY <3>1, <3>2 DEF Unfolds
  <2> QED BY <2>1, <2>8
<1> QED BY <1>1, <1>2

LEMMA SumStep ==
  ASSUME NEW f, NEW S, IsFiniteSet(S), S # {}
  PROVE  SumFunctionOnSet(f, S) = f[Picked(S)] + SumFunctionOnSet(f, S \ {Picked(S)})
<1> DEFINE x == Picked(S)
           T == S \ {x}
           R == [U \in SUBSET T |-> Unfolding(f, S)[U]]
<1>1. x \in S
  BY DEF Picked
<1>2. Unfolds(f, S, Unfolding(f, S))
  BY UnfoldingExists, Zenon DEF Unfolding
<1>3. IsFiniteSet(T)
  BY FS_Subset
<1>4. Unfolds(f, T, Unfolding(f, T))
  BY <1>3, UnfoldingExists, Zenon DEF Unfolding
<1>5. Unfolds(f, T, R)
  <2>1. \A U \in SUBSET T : U \in SUBSET S /\ U \ {Picked(U)} \in SUBSET T
    OBVIOUS
  <2>2. \A U \in SUBSET T : R[U] = IF U = {} THEN 0 ELSE f[Picked(U)] + R[U \ {Picked(U)}]
    BY <1>2, <2>1 DEF Unfolds
  <2> QED BY <2>2 DEF Unfolds
<1>6. R = Unfolding(f, T)
  BY <1>3, <1>4, <1>5, UnfoldingUnique
<1>7. Unfolding(f, S)[S] = f[x] + Unfolding(f, S)[T]
  BY <1>2 DEF Unfolds
<1>8. Unfolding(f, S)[T] = Unfolding(f, T)[T]
  BY <1>6
<1> QED BY <1>7, <1>8, SumIsUnfolding

-----------------------------------------------------------------------------
(* What proofs about sums use *)

\* The sum of nothing is nothing.
THEOREM SumOfNone == ASSUME NEW f PROVE SumFunctionOnSet(f, {}) = 0
<1>1. Unfolds(f, {}, Unfolding(f, {}))
  BY UnfoldingExists, FS_EmptySet, Zenon DEF Unfolding
<1> QED BY <1>1, SumIsUnfolding DEF Unfolds

\* A sum of integers is an integer.
THEOREM SumType ==
  ASSUME NEW f, NEW S, IsFiniteSet(S), \A x \in S : f[x] \in Int
  PROVE  SumFunctionOnSet(f, S) \in Int
<1> DEFINE Bad == {T \in SUBSET S : SumFunctionOnSet(f, T) \notin Int}
<1> SUFFICES ASSUME Bad # {} PROVE FALSE
  OBVIOUS
<1>1. \E T \in Bad : \A U \in Bad : ~(U \subseteq T /\ U # T)
  <2>1. Bad \in SUBSET (SUBSET S)
    OBVIOUS
  <2> HIDE DEF Bad
  <2> QED BY <2>1, SmallestSubset
<1>2. PICK T \in Bad : \A U \in Bad : ~(U \subseteq T /\ U # T)
  BY <1>1
<1>3. T # {}
  <2>1. SumFunctionOnSet(f, {}) \in Int
    BY SumOfNone
  <2> QED BY <1>2, <2>1
<1>4. Picked(T) \in T /\ T \subseteq S /\ IsFiniteSet(T)
  BY <1>2, <1>3, FS_Subset DEF Picked
<1>5. SumFunctionOnSet(f, T \ {Picked(T)}) \in Int
  BY <1>2, <1>4
<1> QED BY <1>2, <1>3, <1>4, <1>5, SumStep

\* Any element may be taken out first.
THEOREM SumWithout ==
  ASSUME NEW f, NEW S, IsFiniteSet(S), \A x \in S : f[x] \in Int, NEW x \in S
  PROVE  SumFunctionOnSet(f, S) = f[x] + SumFunctionOnSet(f, S \ {x})
<1> DEFINE Bad == {T \in SUBSET S : \E z \in T :
                     SumFunctionOnSet(f, T) # f[z] + SumFunctionOnSet(f, T \ {z})}
<1> SUFFICES ASSUME Bad # {} PROVE FALSE
  OBVIOUS
<1>1. \E T \in Bad : \A U \in Bad : ~(U \subseteq T /\ U # T)
  <2>1. Bad \in SUBSET (SUBSET S)
    OBVIOUS
  <2> HIDE DEF Bad
  <2> QED BY <2>1, SmallestSubset
<1>2. PICK T \in Bad : \A U \in Bad : ~(U \subseteq T /\ U # T)
  BY <1>1
<1>3. PICK z \in T : SumFunctionOnSet(f, T) # f[z] + SumFunctionOnSet(f, T \ {z})
  BY <1>2
<1> DEFINE y == Picked(T)
<1>4. y \in T /\ T \subseteq S /\ IsFiniteSet(T)
  BY <1>2, <1>3, FS_Subset DEF Picked
<1>5. SumFunctionOnSet(f, T) = f[y] + SumFunctionOnSet(f, T \ {y})
  BY <1>3, <1>4, SumStep
<1>6. y # z
  BY <1>3, <1>5
<1> HIDE DEF y
<1>7. ASSUME NEW u \in T
      PROVE  \A v \in T \ {u} :
               SumFunctionOnSet(f, T \ {u})
                 = f[v] + SumFunctionOnSet(f, (T \ {u}) \ {v})
  <2>1. T \ {u} \notin Bad /\ T \ {u} \in SUBSET S
    BY <1>2, <1>4
  <2> QED BY <2>1
<1>8. /\ SumFunctionOnSet(f, T \ {y}) = f[z] + SumFunctionOnSet(f, (T \ {y}) \ {z})
      /\ SumFunctionOnSet(f, T \ {z}) = f[y] + SumFunctionOnSet(f, (T \ {z}) \ {y})
  BY <1>4, <1>6, <1>7
<1>9. (T \ {y}) \ {z} = (T \ {z}) \ {y}
  OBVIOUS
<1>10. SumFunctionOnSet(f, (T \ {y}) \ {z}) \in Int /\ f[y] \in Int /\ f[z] \in Int
  <2>1. IsFiniteSet((T \ {y}) \ {z}) /\ (T \ {y}) \ {z} \subseteq S
    BY <1>4, FS_Subset
  <2> QED BY <1>3, <1>4, <2>1, SumType
<1>11. ASSUME NEW a \in Int, NEW b \in Int, NEW r \in Int
       PROVE  a + (b + r) = b + (a + r)
  OBVIOUS
<1>12. SumFunctionOnSet(f, T) = f[y] + (f[z] + SumFunctionOnSet(f, (T \ {y}) \ {z}))
  BY <1>5, <1>8, Zenon
<1>13. f[z] + SumFunctionOnSet(f, T \ {z})
         = f[z] + (f[y] + SumFunctionOnSet(f, (T \ {y}) \ {z}))
  BY <1>8, <1>9, Zenon
<1>14. f[y] + (f[z] + SumFunctionOnSet(f, (T \ {y}) \ {z}))
         = f[z] + (f[y] + SumFunctionOnSet(f, (T \ {y}) \ {z}))
  BY <1>10, <1>11, Zenon
<1> QED BY <1>3, <1>12, <1>13, <1>14, Zenon

\* A new element adds its value.
THEOREM SumWith ==
  ASSUME NEW f, NEW S, IsFiniteSet(S), NEW x, x \notin S,
         \A y \in S \cup {x} : f[y] \in Int
  PROVE  SumFunctionOnSet(f, S \cup {x}) = f[x] + SumFunctionOnSet(f, S)
<1>1. IsFiniteSet(S \cup {x}) /\ (S \cup {x}) \ {x} = S
  BY FS_AddElement
<1> QED BY <1>1, SumWithout

\* Only the values on the set count.
THEOREM SumSame ==
  ASSUME NEW f, NEW g, NEW S, IsFiniteSet(S), \A x \in S : f[x] = g[x]
  PROVE  SumFunctionOnSet(f, S) = SumFunctionOnSet(g, S)
<1> DEFINE Bad == {T \in SUBSET S : SumFunctionOnSet(f, T) # SumFunctionOnSet(g, T)}
<1> SUFFICES ASSUME Bad # {} PROVE FALSE
  OBVIOUS
<1>1. \E T \in Bad : \A U \in Bad : ~(U \subseteq T /\ U # T)
  <2>1. Bad \in SUBSET (SUBSET S)
    OBVIOUS
  <2> HIDE DEF Bad
  <2> QED BY <2>1, SmallestSubset
<1>2. PICK T \in Bad : \A U \in Bad : ~(U \subseteq T /\ U # T)
  BY <1>1
<1>3. T # {}
  <2>1. SumFunctionOnSet(f, {}) = SumFunctionOnSet(g, {})
    BY SumOfNone
  <2> QED BY <1>2, <2>1
<1>4. Picked(T) \in T /\ T \subseteq S /\ IsFiniteSet(T)
  BY <1>2, <1>3, FS_Subset DEF Picked
<1>5. SumFunctionOnSet(f, T \ {Picked(T)}) = SumFunctionOnSet(g, T \ {Picked(T)})
  BY <1>2, <1>4
<1>6. SumFunctionOnSet(f, T) = f[Picked(T)] + SumFunctionOnSet(f, T \ {Picked(T)})
  BY <1>3, <1>4, SumStep
<1>7. SumFunctionOnSet(g, T) = g[Picked(T)] + SumFunctionOnSet(g, T \ {Picked(T)})
  BY <1>3, <1>4, SumStep
<1> QED BY <1>2, <1>4, <1>5, <1>6, <1>7

\* A value that changes at one element changes the sum by as much.
THEOREM SumChange ==
  ASSUME NEW f, NEW g, NEW S, IsFiniteSet(S), NEW x \in S,
         \A y \in S : f[y] \in Int /\ g[y] \in Int,
         \A y \in S \ {x} : f[y] = g[y]
  PROVE  SumFunctionOnSet(g, S) = SumFunctionOnSet(f, S) + (g[x] - f[x])
<1>1. IsFiniteSet(S \ {x})
  BY FS_Subset
<1>2. /\ SumFunctionOnSet(f, S) = f[x] + SumFunctionOnSet(f, S \ {x})
      /\ SumFunctionOnSet(g, S) = g[x] + SumFunctionOnSet(g, S \ {x})
  BY SumWithout
<1>3. /\ SumFunctionOnSet(f, S \ {x}) = SumFunctionOnSet(g, S \ {x})
      /\ SumFunctionOnSet(f, S \ {x}) \in Int
  BY <1>1, SumSame, SumType
<1> QED BY <1>2, <1>3

\* Zeros add up to zero.
THEOREM SumZero ==
  ASSUME NEW f, NEW S, IsFiniteSet(S), \A x \in S : f[x] = 0
  PROVE  SumFunctionOnSet(f, S) = 0
<1> DEFINE Bad == {T \in SUBSET S : SumFunctionOnSet(f, T) # 0}
<1> SUFFICES ASSUME Bad # {} PROVE FALSE
  OBVIOUS
<1>1. \E T \in Bad : \A U \in Bad : ~(U \subseteq T /\ U # T)
  <2>1. Bad \in SUBSET (SUBSET S)
    OBVIOUS
  <2> HIDE DEF Bad
  <2> QED BY <2>1, SmallestSubset
<1>2. PICK T \in Bad : \A U \in Bad : ~(U \subseteq T /\ U # T)
  BY <1>1
<1>3. T # {}
  <2>1. SumFunctionOnSet(f, {}) = 0
    BY SumOfNone
  <2> QED BY <1>2, <2>1
<1>4. Picked(T) \in T /\ T \subseteq S /\ IsFiniteSet(T)
  BY <1>2, <1>3, FS_Subset DEF Picked
<1>5. SumFunctionOnSet(f, T \ {Picked(T)}) = 0
  BY <1>2, <1>4
<1> QED BY <1>2, <1>3, <1>4, <1>5, SumStep

LEMMA ZeroNegated == 0 = -0
<1>1. \A a, b \in Int : a + b = 0 => a = -b
  OBVIOUS
<1>2. 0 \in Int /\ 0 + 0 = 0
  OBVIOUS
<1> QED BY <1>1, <1>2

\* Opposite values add up to the opposite.
THEOREM SumNegated ==
  ASSUME NEW f, NEW g, NEW S, IsFiniteSet(S), \A x \in S : f[x] \in Int /\ g[x] = -f[x]
  PROVE  SumFunctionOnSet(g, S) = -SumFunctionOnSet(f, S)
<1> DEFINE Bad == {T \in SUBSET S : SumFunctionOnSet(g, T) # -SumFunctionOnSet(f, T)}
<1> SUFFICES ASSUME Bad # {} PROVE FALSE
  OBVIOUS
<1>1. \E T \in Bad : \A U \in Bad : ~(U \subseteq T /\ U # T)
  <2>1. Bad \in SUBSET (SUBSET S)
    OBVIOUS
  <2> HIDE DEF Bad
  <2> QED BY <2>1, SmallestSubset
<1>2. PICK T \in Bad : \A U \in Bad : ~(U \subseteq T /\ U # T)
  BY <1>1
<1>3. T # {}
  <2>1. SumFunctionOnSet(f, {}) = 0 /\ SumFunctionOnSet(g, {}) = 0
    BY SumOfNone
  <2> QED BY <1>2, <2>1, ZeroNegated
<1> DEFINE y == Picked(T)
<1>4. y \in T /\ T \subseteq S /\ IsFiniteSet(T) /\ IsFiniteSet(T \ {y})
  BY <1>2, <1>3, FS_Subset DEF Picked
<1>5. SumFunctionOnSet(g, T \ {y}) = -SumFunctionOnSet(f, T \ {y})
  BY <1>2, <1>4
<1>6. /\ SumFunctionOnSet(f, T) = f[y] + SumFunctionOnSet(f, T \ {y})
      /\ SumFunctionOnSet(g, T) = g[y] + SumFunctionOnSet(g, T \ {y})
  BY <1>3, <1>4, SumStep
<1>7. SumFunctionOnSet(f, T \ {y}) \in Int /\ f[y] \in Int /\ g[y] = -f[y]
  BY <1>4, SumType
<1>8. ASSUME NEW a \in Int, NEW b \in Int PROVE -a + -b = -(a + b)
  OBVIOUS
<1> HIDE DEF y
<1>9. SumFunctionOnSet(g, T) = -SumFunctionOnSet(f, T)
  BY <1>5, <1>6, <1>7, <1>8
<1> QED BY <1>2, <1>9

\* Two sets that have nothing in common.
THEOREM SumUnion ==
  ASSUME NEW f, NEW S, NEW T, IsFiniteSet(S), IsFiniteSet(T), S \cap T = {},
         \A x \in S \cup T : f[x] \in Int
  PROVE  SumFunctionOnSet(f, S \cup T) = SumFunctionOnSet(f, S) + SumFunctionOnSet(f, T)
<1> DEFINE Bad == {U \in SUBSET T :
                     SumFunctionOnSet(f, S \cup U) # SumFunctionOnSet(f, S) + SumFunctionOnSet(f, U)}
<1> SUFFICES ASSUME Bad # {} PROVE FALSE
  OBVIOUS
<1>1. \E U \in Bad : \A V \in Bad : ~(V \subseteq U /\ V # U)
  <2>1. Bad \in SUBSET (SUBSET T)
    OBVIOUS
  <2> HIDE DEF Bad
  <2> QED BY <2>1, SmallestSubset
<1>2. PICK U \in Bad : \A V \in Bad : ~(V \subseteq U /\ V # U)
  BY <1>1
<1>0. SumFunctionOnSet(f, S) \in Int
  BY SumType
<1>3. U # {}
  <2>1. SumFunctionOnSet(f, {}) = 0 /\ S \cup {} = S
    BY SumOfNone
  <2>2. \A a \in Int : a = a + 0
    OBVIOUS
  <2>3. SumFunctionOnSet(f, S \cup {}) = SumFunctionOnSet(f, S) + SumFunctionOnSet(f, {})
    BY <1>0, <2>1, <2>2, Zenon
  <2>4. SumFunctionOnSet(f, S \cup U) # SumFunctionOnSet(f, S) + SumFunctionOnSet(f, U)
    BY <1>2
  <2> QED BY <2>3, <2>4, Zenon
<1> DEFINE y == Picked(U)
<1>4. /\ y \in U /\ U \subseteq T /\ IsFiniteSet(U) /\ IsFiniteSet(U \ {y})
      /\ IsFiniteSet(S \cup U)
  BY <1>2, <1>3, FS_Subset, FS_Union DEF Picked
<1> HIDE DEF y
<1>5. SumFunctionOnSet(f, S \cup (U \ {y}))
        = SumFunctionOnSet(f, S) + SumFunctionOnSet(f, U \ {y})
  BY <1>2, <1>4
<1>6. SumFunctionOnSet(f, U) = f[y] + SumFunctionOnSet(f, U \ {y})
  <2>1. \A x \in U : f[x] \in Int
    BY <1>4
  <2> QED BY <1>4, <2>1, SumWithout
<1>7. SumFunctionOnSet(f, S \cup U) = f[y] + SumFunctionOnSet(f, S \cup (U \ {y}))
  <2>1. (S \cup U) \ {y} = S \cup (U \ {y}) /\ y \in S \cup U
    BY <1>4
  <2>2. \A x \in S \cup U : f[x] \in Int
    BY <1>4
  <2>3. SumFunctionOnSet(f, S \cup U) = f[y] + SumFunctionOnSet(f, (S \cup U) \ {y})
    BY <1>4, <2>1, <2>2, SumWithout
  <2> QED BY <2>1, <2>3
<1>8. SumFunctionOnSet(f, U \ {y}) \in Int /\ f[y] \in Int
  <2>1. \A x \in U \ {y} : f[x] \in Int
    BY <1>4
  <2> QED BY <1>4, <2>1, SumType
<1>9. ASSUME NEW a \in Int, NEW b \in Int, NEW c \in Int PROVE a + (b + c) = b + (a + c)
  OBVIOUS
<1>10. SumFunctionOnSet(f, S \cup U) = SumFunctionOnSet(f, S) + SumFunctionOnSet(f, U)
  BY <1>0, <1>5, <1>6, <1>7, <1>8, <1>9
<1> QED BY <1>2, <1>10

\* The same values under other names.
THEOREM SumReindexed ==
  ASSUME NEW f, NEW g, NEW S, NEW T, IsFiniteSet(S), NEW h \in Bijection(S, T),
         \A x \in S : g[x] = f[h[x]] /\ g[x] \in Int
  PROVE  SumFunctionOnSet(g, S) = SumFunctionOnSet(f, T)
<1> DEFINE Image(U) == {h[x] : x \in U}
           Bad == {U \in SUBSET S : SumFunctionOnSet(g, U) # SumFunctionOnSet(f, Image(U))}
<1>0. /\ Image(S) = T /\ h \in [S -> T]
      /\ \A x, y \in S : h[x] = h[y] => x = y
  BY DEF Bijection, Injection, Surjection, IsInjective
<1> SUFFICES ASSUME Bad # {} PROVE FALSE
  BY <1>0
<1>1. \E U \in Bad : \A V \in Bad : ~(V \subseteq U /\ V # U)
  <2>1. Bad \in SUBSET (SUBSET S)
    OBVIOUS
  <2> HIDE DEF Bad
  <2> QED BY <2>1, SmallestSubset
<1>2. PICK U \in Bad : \A V \in Bad : ~(V \subseteq U /\ V # U)
  BY <1>1
<1>3. U # {}
  <2>1. SumFunctionOnSet(g, {}) = 0 /\ SumFunctionOnSet(f, {}) = 0 /\ Image({}) = {}
    BY SumOfNone
  <2> QED BY <1>2, <2>1
<1> DEFINE y == Picked(U)
<1>4. y \in U /\ U \subseteq S /\ IsFiniteSet(U)
  BY <1>2, <1>3, FS_Subset DEF Picked
<1> HIDE DEF y
<1>5. SumFunctionOnSet(g, U \ {y}) = SumFunctionOnSet(f, Image(U \ {y}))
  BY <1>2, <1>4
<1>6. SumFunctionOnSet(g, U) = g[y] + SumFunctionOnSet(g, U \ {y})
  <2>1. \A x \in U : g[x] \in Int
    BY <1>4
  <2> QED BY <1>4, <2>1, SumWithout
<1>7. SumFunctionOnSet(f, Image(U)) = f[h[y]] + SumFunctionOnSet(f, Image(U) \ {h[y]})
  <2>1. IsFiniteSet(Image(U))
    <3>1. [x \in U |-> h[x]] \in Surjection(U, Image(U))
      BY <1>4 DEF Surjection
    <3> HIDE DEF Image
    <3> QED BY <1>4, <3>1, FS_Surjection
  <2>2. h[y] \in Image(U) /\ \A z \in Image(U) : f[z] \in Int
    BY <1>4
  <2> HIDE DEF Image
  <2> QED BY <2>1, <2>2, SumWithout
<1>8. Image(U) \ {h[y]} = Image(U \ {y})
  BY <1>0, <1>4
<1>9. SumFunctionOnSet(g, U) = SumFunctionOnSet(f, Image(U))
  BY <1>4, <1>5, <1>6, <1>7, <1>8
<1> QED BY <1>2, <1>9

\* Sums of what is not negative grow with their set.
THEOREM SumGrows ==
  ASSUME NEW f, NEW S, IsFiniteSet(S), NEW T \in SUBSET S, \A x \in S : f[x] \in Nat
  PROVE  SumFunctionOnSet(f, T) \in Nat /\ SumFunctionOnSet(f, T) <= SumFunctionOnSet(f, S)
<1>1. ASSUME NEW R \in SUBSET S PROVE SumFunctionOnSet(f, R) \in Nat
  <2> DEFINE Bad == {U \in SUBSET R : SumFunctionOnSet(f, U) \notin Nat}
  <2> SUFFICES ASSUME Bad # {} PROVE FALSE
    OBVIOUS
  <2>0. IsFiniteSet(R)
    BY FS_Subset
  <2>1. \E U \in Bad : \A V \in Bad : ~(V \subseteq U /\ V # U)
    <3>1. Bad \in SUBSET (SUBSET R)
      OBVIOUS
    <3> HIDE DEF Bad
    <3> QED BY <2>0, <3>1, SmallestSubset
  <2>2. PICK U \in Bad : \A V \in Bad : ~(V \subseteq U /\ V # U)
    BY <2>1
  <2>3. U # {}
    <3>1. SumFunctionOnSet(f, {}) \in Nat
      BY SumOfNone
    <3> QED BY <2>2, <3>1
  <2>4. Picked(U) \in U /\ U \subseteq S /\ IsFiniteSet(U)
    BY <2>0, <2>2, <2>3, FS_Subset DEF Picked
  <2>5. SumFunctionOnSet(f, U \ {Picked(U)}) \in Nat
    BY <2>2, <2>4
  <2>6. SumFunctionOnSet(f, U) = f[Picked(U)] + SumFunctionOnSet(f, U \ {Picked(U)})
    BY <2>3, <2>4, SumStep
  <2> QED BY <2>2, <2>4, <2>5, <2>6
<1>2. /\ SumFunctionOnSet(f, T) \in Nat /\ SumFunctionOnSet(f, S \ T) \in Nat
      /\ IsFiniteSet(T) /\ IsFiniteSet(S \ T)
  BY <1>1, FS_Subset
<1>3. SumFunctionOnSet(f, S) = SumFunctionOnSet(f, T) + SumFunctionOnSet(f, S \ T)
  <2>1. T \cup (S \ T) = S /\ T \cap (S \ T) = {} /\ \A x \in S : f[x] \in Int
    OBVIOUS
  <2>2. SumFunctionOnSet(f, T \cup (S \ T)) = SumFunctionOnSet(f, T) + SumFunctionOnSet(f, S \ T)
    BY <1>2, <2>1, SumUnion
  <2> QED BY <2>1, <2>2
<1> QED BY <1>2, <1>3

-----------------------------------------------------------------------------
(* The same for SumFunction, the sum over a function's domain *)

\* The sum of an integer function is an integer.
THEOREM SumFunctionType ==
  ASSUME NEW S, IsFiniteSet(S), NEW f \in [S -> Int]
  PROVE  SumFunction(f) \in Int
BY SumType DEF SumFunction

\* Nothing to sum.
THEOREM SumFunctionNone ==
  ASSUME NEW f, DOMAIN f = {}
  PROVE  SumFunction(f) = 0
BY SumOfNone DEF SumFunction

\* g is f, defined at one more element.
THEOREM SumFunctionWith ==
  ASSUME NEW S, IsFiniteSet(S), NEW x, x \notin S,
         NEW f \in [S -> Int], NEW g \in [S \cup {x} -> Int],
         \A y \in S : g[y] = f[y]
  PROVE  SumFunction(g) = g[x] + SumFunction(f)
<1>1. SumFunctionOnSet(g, S \cup {x}) = g[x] + SumFunctionOnSet(g, S)
  <2>1. \A y \in S \cup {x} : g[y] \in Int
    OBVIOUS
  <2> QED BY <2>1, SumWith
<1>2. SumFunctionOnSet(g, S) = SumFunctionOnSet(f, S)
  BY SumSame
<1>3. DOMAIN g = S \cup {x} /\ DOMAIN f = S
  OBVIOUS
<1> QED BY <1>1, <1>2, <1>3 DEF SumFunction

\* g and f differ at one element.
THEOREM SumFunctionChange ==
  ASSUME NEW S, IsFiniteSet(S), NEW x \in S,
         NEW f \in [S -> Int], NEW g \in [S -> Int],
         \A y \in S \ {x} : f[y] = g[y]
  PROVE  SumFunction(g) = SumFunction(f) + (g[x] - f[x])
<1>1. SumFunctionOnSet(g, S) = SumFunctionOnSet(f, S) + (g[x] - f[x])
  <2>1. \A y \in S : f[y] \in Int /\ g[y] \in Int
    OBVIOUS
  <2> QED BY <2>1, SumChange
<1>2. DOMAIN g = S /\ DOMAIN f = S
  OBVIOUS
<1> QED BY <1>1, <1>2 DEF SumFunction

\* One value is moved by d: so is the sum.
THEOREM SumFunctionMoves ==
  ASSUME NEW S, IsFiniteSet(S), NEW x \in S, NEW d \in Int,
         NEW f \in [S -> Int], NEW g \in [S -> Int],
         g[x] = f[x] + d, \A y \in S \ {x} : f[y] = g[y]
  PROVE  SumFunction(g) = SumFunction(f) + d
<1>1. SumFunction(g) = SumFunction(f) + (g[x] - f[x])
  BY SumFunctionChange
<1>2. SumFunction(f) \in Int /\ f[x] \in Int
  BY SumFunctionType
<1> QED
  BY <1>1, <1>2

=============================================================================
