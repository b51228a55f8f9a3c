------------------------------- MODULE Lemmas -------------------------------
(***************************************************************************)
(* What the proofs of several components share: sums over finite sets, and *)
(* the arithmetic of one trade.                                            *)
(*                                                                         *)
(* A sum is a fold, a recursive function, and what it computes needs an    *)
(* induction.  The induction theorems of the library take the induction    *)
(* hypothesis as an operator, which the provers cannot instantiate; here   *)
(* every induction is the choice of a smallest counterexample from a set.  *)
(***************************************************************************)
EXTENDS Cpmm, Functions, FiniteSetTheorems, WellFoundedInduction, TLAPS

-----------------------------------------------------------------------------
(* Sums.                                                                   *)

\* Every set of subsets of a finite set has a smallest one.
LEMMA SmallestSubset ==
  ASSUME NEW S, IsFiniteSet(S), NEW Bad, Bad \subseteq SUBSET S, Bad # {}
  PROVE  \E T \in Bad : \A U \in Bad : U \subseteq T => U = T
<1>1. IsWellFoundedOn(StrictSubsetOrdering(S), SUBSET S)
  BY FS_StrictSubsetOrderingWellFounded, FS_FiniteSubsetsOfFinite
<1>2. PICK T \in Bad : \A U \in Bad : <<U, T>> \notin StrictSubsetOrdering(S)
  BY <1>1, WFMin
<1> QED
  BY <1>2 DEF StrictSubsetOrdering

\* The member a fold takes out of s.
Pick(s) == CHOOSE x \in s : TRUE

\* The equation that defines the sums of f over the subsets of U.
IsSums(g, f, U) ==
  g = [s \in SUBSET U |->
         IF s = {} THEN 0 ELSE f[Pick(s)] + g[s \ {Pick(s)}]]

\* The sum of the library is a solution of that equation, if there is one.
LEMMA SumsAreFolds ==
  ASSUME NEW f, NEW S
  PROVE  SumFunctionOnSet(f, S) = (CHOOSE g : IsSums(g, f, S))[S]
BY DEF SumFunctionOnSet, FoldFunctionOnSet, MapThenFoldSet, IsSums, Pick

\* A fold takes out members.
LEMMA PickIsMember == \A s : s # {} => Pick(s) \in s
BY DEF Pick

\* What solutions of the equation have in common they agree on.
LEMMA SumsAgree ==
  ASSUME NEW f, NEW U, NEW W, NEW g, NEW h, IsSums(g, f, U), IsSums(h, f, W),
         NEW s, s \subseteq U, s \subseteq W, IsFiniteSet(s)
  PROVE  g[s] = h[s]
<1> DEFINE Bad == {t \in SUBSET s : g[t] # h[t]}
<1>1. SUFFICES ASSUME Bad # {} PROVE FALSE
  OBVIOUS
<1>2. PICK t \in Bad : \A u \in Bad : u \subseteq t => u = t
  <2>1. Bad \subseteq SUBSET s
    OBVIOUS
  <2> HIDE DEF Bad
  <2> QED BY <1>1, <2>1, SmallestSubset
<1>3. t # {}
  BY <1>2 DEF IsSums
<1>4. PICK x \in t : x = Pick(t)
  BY <1>3, PickIsMember
<1>5. g[t] = f[x] + g[t \ {x}] /\ h[t] = f[x] + h[t \ {x}]
  BY <1>3, <1>4 DEF IsSums
<1>6. g[t \ {x}] = h[t \ {x}]
  BY <1>2, <1>4
<1> QED
  BY <1>5, <1>6
\* The sum of f over s, by itself.
SumOf(f, s) == (CHOOSE g : IsSums(g, f, s))[s]

\* The equation has a solution.
LEMMA SumsExist ==
  ASSUME NEW f, NEW S, IsFiniteSet(S)
  PROVE  \E g : IsSums(g, f, S)
<1> DEFINE Bad == {T \in SUBSET S : ~ \E g : IsSums(g, f, T)}
<1>1. SUFFICES ASSUME Bad # {} PROVE FALSE
  OBVIOUS
<1>2. PICK T \in Bad : \A U \in Bad : U \subseteq T => U = T
  <2>1. Bad \subseteq SUBSET S
    OBVIOUS
  <2> HIDE DEF Bad
  <2> QED BY <1>1, <2>1, SmallestSubset
<1>3. ASSUME NEW U, U \subseteq T, U # T
      PROVE  IsSums(CHOOSE g : IsSums(g, f, U), f, U)
  <2>1. \E g : IsSums(g, f, U)
    BY <1>2, <1>3
  <2> QED BY <2>1
<1> DEFINE G(s) == IF s = {} THEN 0 ELSE f[Pick(s)] + SumOf(f, s \ {Pick(s)})
           h == [s \in SUBSET T |-> G(s)]
<1>4. ASSUME NEW s, s \subseteq T, s # T PROVE SumOf(f, s) = G(s)
  <2>1. CASE s = {}
    <3>1. PICK g : g = CHOOSE q : IsSums(q, f, s)
      OBVIOUS
    <3>2. g[s] = 0
      BY <1>3, <1>4, <2>1, <3>1 DEF IsSums
    <3> QED BY <2>1, <3>1, <3>2 DEF SumOf
  <2>2. CASE s # {}
    <3>1. PICK x \in s : x = Pick(s)
      BY <2>2, PickIsMember
    <3>2. PICK g : g = CHOOSE q : IsSums(q, f, s)
      OBVIOUS
    <3>3. PICK k : k = CHOOSE q : IsSums(q, f, s \ {x})
      OBVIOUS
    <3>4. IsSums(g, f, s) /\ IsSums(k, f, s \ {x})
      BY <1>3, <1>4, <3>1, <3>2, <3>3
    <3>5. s \ {x} \in SUBSET S
      BY <1>4
    <3>6. IsFiniteSet(s \ {x})
      BY <3>5, FS_Subset
    <3>7. g[s \ {x}] = k[s \ {x}]
      BY <3>4, <3>6, SumsAgree
    <3>8. g[s] = f[x] + g[s \ {x}]
      BY <2>2, <3>1, <3>4 DEF IsSums
    <3> QED BY <2>2, <3>1, <3>2, <3>3, <3>7, <3>8 DEF SumOf
  <2> QED BY <2>1, <2>2
<1>5. IsSums(h, f, T)
  <2>1. ASSUME NEW s \in SUBSET T, s # {}
        PROVE  h[s] = f[Pick(s)] + h[s \ {Pick(s)}]
    <3>1. PICK x \in s : x = Pick(s)
      BY <2>1, PickIsMember
    <3>2. s \ {x} \subseteq T /\ s \ {x} # T
      BY <3>1
    <3>3. SumOf(f, s \ {x}) = h[s \ {x}]
      BY <1>4, <3>2
    <3>4. h[s] = f[x] + SumOf(f, s \ {x})
      BY <2>1, <3>1
    <3> HIDE DEF h
    <3> QED BY <3>1, <3>3, <3>4
  <2>2. h = [s \in SUBSET T |-> h[s]] /\ h[{}] = 0
    OBVIOUS
  <2> HIDE DEF h
  <2>3. h = [s \in SUBSET T |-> IF s = {} THEN 0 ELSE f[Pick(s)] + h[s \ {Pick(s)}]]
    BY <2>1, <2>2
  <2> QED BY <2>3 DEF IsSums
<1> QED BY <1>2, <1>5

\* A sum is what its definition says.
LEMMA SumEquation ==
  ASSUME NEW f, NEW S, IsFiniteSet(S)
  PROVE  /\ S = {} => SumFunctionOnSet(f, S) = 0
         /\ S # {} => \E x \in S :
              SumFunctionOnSet(f, S) = f[x] + SumFunctionOnSet(f, S \ {x})
<1>1. ASSUME NEW T, T \subseteq S
      PROVE  \E g : /\ IsSums(g, f, T) /\ SumFunctionOnSet(f, T) = g[T]
                    /\ g = CHOOSE q : IsSums(q, f, T)
  <2>1. IsFiniteSet(T)
    BY <1>1, FS_Subset
  <2>2. \E g : IsSums(g, f, T)
    BY <2>1, SumsExist
  <2>3. PICK g : g = CHOOSE q : IsSums(q, f, T)
    OBVIOUS
  <2> QED BY <2>2, <2>3, SumsAreFolds
<1>2. PICK g : IsSums(g, f, S) /\ SumFunctionOnSet(f, S) = g[S]
  BY <1>1
<1>3. CASE S = {}
  BY <1>2, <1>3 DEF IsSums
<1>4. CASE S # {}
  <2>1. PICK x \in S : x = Pick(S)
    BY <1>4, PickIsMember
  <2>2. g[S] = f[x] + g[S \ {x}]
    BY <1>2, <1>4, <2>1 DEF IsSums
  <2>3. PICK h : IsSums(h, f, S \ {x}) /\ SumFunctionOnSet(f, S \ {x}) = h[S \ {x}]
    BY <1>1
  <2>4. IsFiniteSet(S \ {x})
    BY FS_RemoveElement
  <2>5. g[S \ {x}] = h[S \ {x}]
    BY <1>2, <2>3, <2>4, SumsAgree
  <2> QED BY <1>2, <1>4, <2>2, <2>3, <2>5
<1> QED BY <1>3, <1>4

\* A sum of numbers is a number.
LEMMA SumType ==
  ASSUME NEW f, NEW S, IsFiniteSet(S)
  PROVE  /\ (\A x \in S : f[x] \in Int) => SumFunctionOnSet(f, S) \in Int
         /\ (\A x \in S : f[x] \in Nat) => SumFunctionOnSet(f, S) \in Nat
<1> SUFFICES ASSUME NEW Typ \in {Int, Nat}, \A x \in S : f[x] \in Typ
             PROVE  SumFunctionOnSet(f, S) \in Typ
  OBVIOUS
<1> DEFINE Bad == {T \in SUBSET S : SumFunctionOnSet(f, T) \notin Typ}
<1>1. SUFFICES ASSUME Bad # {} PROVE FALSE
  OBVIOUS
<1>2. PICK T \in Bad : \A U \in Bad : U \subseteq T => U = T
  <2>1. Bad \subseteq SUBSET S
    OBVIOUS
  <2> HIDE DEF Bad
  <2> QED BY <1>1, <2>1, SmallestSubset
<1>3. IsFiniteSet(T)
  BY FS_Subset
<1>4. T # {}
  BY <1>2, <1>3, SumEquation
<1>5. PICK x \in T : SumFunctionOnSet(f, T) = f[x] + SumFunctionOnSet(f, T \ {x})
  BY <1>3, <1>4, SumEquation
<1>6. SumFunctionOnSet(f, T \ {x}) \in Typ
  BY <1>2
<1>7. f[x] \in Typ
  OBVIOUS
<1> QED BY <1>2, <1>5, <1>6, <1>7

\* Any member can be taken out of a sum first.
LEMMA SumTakesOut ==
  ASSUME NEW f, NEW S, IsFiniteSet(S), \A x \in S : f[x] \in Int, NEW x \in S
  PROVE  SumFunctionOnSet(f, S) = f[x] + SumFunctionOnSet(f, S \ {x})
<1> DEFINE Bad == {T \in SUBSET S : \E y \in T :
                     SumFunctionOnSet(f, T) # f[y] + SumFunctionOnSet(f, T \ {y})}
<1>1. SUFFICES ASSUME Bad # {} PROVE FALSE
  OBVIOUS
<1>2. PICK T \in Bad : \A U \in Bad : U \subseteq T => U = T
  <2>1. Bad \subseteq SUBSET S
    OBVIOUS
  <2> HIDE DEF Bad
  <2> QED BY <1>1, <2>1, SmallestSubset
<1>3. PICK y \in T : SumFunctionOnSet(f, T) # f[y] + SumFunctionOnSet(f, T \ {y})
  OBVIOUS
<1>4. IsFiniteSet(T)
  BY FS_Subset
<1>5. PICK p \in T : SumFunctionOnSet(f, T) = f[p] + SumFunctionOnSet(f, T \ {p})
  BY <1>4, SumEquation
<1>6. p # y
  BY <1>3, <1>5
<1>7. ASSUME NEW a \in T, NEW b \in T, a # b
      PROVE  SumFunctionOnSet(f, T \ {a})
               = f[b] + SumFunctionOnSet(f, (T \ {a}) \ {b})
  <2>1. T \ {a} \in SUBSET S /\ T \ {a} \subseteq T /\ T \ {a} # T /\ b \in T \ {a}
    BY <1>7
  <2>2. T \ {a} \notin Bad
    BY <1>2, <2>1
  <2> QED BY <2>1, <2>2
<1>8. /\ SumFunctionOnSet(f, T \ {p}) = f[y] + SumFunctionOnSet(f, (T \ {p}) \ {y})
      /\ SumFunctionOnSet(f, T \ {y}) = f[p] + SumFunctionOnSet(f, (T \ {y}) \ {p})
  BY <1>6, <1>7
<1>9. PICK rest : rest = SumFunctionOnSet(f, (T \ {p}) \ {y})
  OBVIOUS
<1>10. rest = SumFunctionOnSet(f, (T \ {y}) \ {p})
  <2>1. (T \ {p}) \ {y} = (T \ {y}) \ {p}
    OBVIOUS
  <2> QED BY <1>9, <2>1
<1>11. rest \in Int
  <2>1. IsFiniteSet((T \ {p}) \ {y})
    BY <1>4, FS_RemoveElement
  <2> QED BY <1>9, <2>1, SumType
<1>12. f[p] \in Int /\ f[y] \in Int
  OBVIOUS
<1>13. /\ SumFunctionOnSet(f, T) = f[p] + (f[y] + rest)
       /\ SumFunctionOnSet(f, T) # f[y] + (f[p] + rest)
  BY <1>3, <1>5, <1>8, <1>9, <1>10
<1> HIDE DEF Bad
<1> QED BY <1>11, <1>12, <1>13

\* A sum depends on nothing but its terms.
LEMMA SumOfSameTerms ==
  ASSUME NEW f, NEW g, NEW S, IsFiniteSet(S), \A x \in S : f[x] = g[x]
  PROVE  SumFunctionOnSet(f, S) = SumFunctionOnSet(g, S)
<1>1. PICK F : IsSums(F, f, S) /\ SumFunctionOnSet(f, S) = F[S]
  BY SumsExist, SumsAreFolds
<1>2. PICK G : IsSums(G, g, S) /\ SumFunctionOnSet(g, S) = G[S]
  BY SumsExist, SumsAreFolds
<1>3. ASSUME NEW s \in SUBSET S, s # {} PROVE f[Pick(s)] = g[Pick(s)]
  BY <1>3, PickIsMember
<1>4. IsSums(G, f, S)
  BY <1>2, <1>3 DEF IsSums
<1> QED BY <1>1, <1>2, <1>4, SumsAgree

\* The terms of a sum that is a sum of two can be added up apart.
LEMMA SumOfSums ==
  ASSUME NEW f, NEW g, NEW h, NEW S, IsFiniteSet(S),
         \A x \in S : g[x] \in Int /\ h[x] \in Int /\ f[x] = g[x] + h[x]
  PROVE  SumFunctionOnSet(f, S) = SumFunctionOnSet(g, S) + SumFunctionOnSet(h, S)
<1> DEFINE Bad == {T \in SUBSET S : SumFunctionOnSet(f, T)
                     # SumFunctionOnSet(g, T) + SumFunctionOnSet(h, T)}
<1>1. SUFFICES ASSUME Bad # {} PROVE FALSE
  OBVIOUS
<1>2. PICK T \in Bad : \A U \in Bad : U \subseteq T => U = T
  <2>1. Bad \subseteq SUBSET S
    OBVIOUS
  <2> HIDE DEF Bad
  <2> QED BY <1>1, <2>1, SmallestSubset
<1>3. IsFiniteSet(T)
  BY FS_Subset
<1>4. PICK x \in T : TRUE
  BY <1>2, <1>3, SumEquation
<1>5. /\ SumFunctionOnSet(f, T) = f[x] + SumFunctionOnSet(f, T \ {x})
      /\ SumFunctionOnSet(g, T) = g[x] + SumFunctionOnSet(g, T \ {x})
      /\ SumFunctionOnSet(h, T) = h[x] + SumFunctionOnSet(h, T \ {x})
  BY <1>3, SumTakesOut
<1>6. SumFunctionOnSet(g, T \ {x}) \in Int /\ SumFunctionOnSet(h, T \ {x}) \in Int
  BY <1>3, FS_RemoveElement, SumType
<1>7. SumFunctionOnSet(f, T \ {x})
        = SumFunctionOnSet(g, T \ {x}) + SumFunctionOnSet(h, T \ {x})
  BY <1>2
<1>8. g[x] \in Int /\ h[x] \in Int /\ f[x] = g[x] + h[x]
  OBVIOUS
<1>9. SumFunctionOnSet(f, T) # SumFunctionOnSet(g, T) + SumFunctionOnSet(h, T)
  OBVIOUS
<1> HIDE DEF Bad
<1> QED BY <1>5, <1>6, <1>7, <1>8, <1>9

\* Changing one term changes the sum by as much.
LEMMA SumUpdate ==
  ASSUME NEW S, IsFiniteSet(S), NEW f \in [S -> Int], NEW x \in S, NEW v \in Int
  PROVE  /\ SumFunction(f) \in Int
         /\ SumFunction([f EXCEPT ![x] = v]) = SumFunction(f) - f[x] + v
<1> DEFINE g == [f EXCEPT ![x] = v]
<1>1. SumFunction(f) = SumFunctionOnSet(f, S) /\ SumFunction(g) = SumFunctionOnSet(g, S)
  BY DEF SumFunction
<1>2. SumFunctionOnSet(f, S \ {x}) = SumFunctionOnSet(g, S \ {x})
  BY FS_RemoveElement, SumOfSameTerms
<1>3. SumFunctionOnSet(f, S \ {x}) \in Int /\ SumFunctionOnSet(f, S) \in Int
  BY FS_RemoveElement, SumType
<1>4. /\ SumFunctionOnSet(f, S) = f[x] + SumFunctionOnSet(f, S \ {x})
      /\ SumFunctionOnSet(g, S) = g[x] + SumFunctionOnSet(g, S \ {x})
  <2>1. (\A y \in S : f[y] \in Int) /\ (\A y \in S : g[y] \in Int)
    OBVIOUS
  <2> HIDE DEF g
  <2> QED BY <2>1, SumTakesOut
<1>5. g[x] = v /\ f[x] \in Int
  OBVIOUS
<1> HIDE DEF g
<1> QED BY <1>1, <1>2, <1>3, <1>4, <1>5 DEF g

\* The sum of a constant.
LEMMA SumOfConstant ==
  ASSUME NEW S, IsFiniteSet(S), NEW c \in Int
  PROVE  SumFunction([x \in S |-> c]) = Cardinality(S) * c
<1> DEFINE f == [x \in S |-> c]
           Bad == {T \in SUBSET S : SumFunctionOnSet(f, T) # Cardinality(T) * c}
<1>1. SUFFICES ASSUME Bad # {} PROVE FALSE
  BY DEF SumFunction
<1>2. PICK T \in Bad : \A U \in Bad : U \subseteq T => U = T
  <2>1. Bad \subseteq SUBSET S
    OBVIOUS
  <2> HIDE DEF Bad
  <2> QED BY <1>1, <2>1, SmallestSubset
<1>3. IsFiniteSet(T)
  BY FS_Subset
<1>4. PICK x \in T : TRUE
  <2>1. SumFunctionOnSet(f, {}) = 0 /\ Cardinality({}) = 0
    BY FS_EmptySet, SumEquation
  <2>2. T # {}
    <3> SUFFICES ASSUME T = {} PROVE FALSE
      OBVIOUS
    <3>1. SumFunctionOnSet(f, {}) # Cardinality({}) * c
      BY <1>2
    <3> HIDE DEF f, Bad
    <3> QED BY <2>1, <3>1
  <2> QED BY <2>2
<1>5. SumFunctionOnSet(f, T) = c + SumFunctionOnSet(f, T \ {x})
  BY <1>3, SumTakesOut
<1>6. SumFunctionOnSet(f, T \ {x}) = Cardinality(T \ {x}) * c
  BY <1>2
<1>7. Cardinality(T \ {x}) = Cardinality(T) - 1 /\ Cardinality(T) \in Nat
  BY <1>3, FS_RemoveElement, FS_CardinalityType
<1>8. SumFunctionOnSet(f, T) # Cardinality(T) * c
  OBVIOUS
<1> HIDE DEF Bad, f
<1>9. \A n \in Nat : (n - 1) * c + c = n * c
  OBVIOUS
<1> QED BY <1>5, <1>6, <1>7, <1>8, <1>9

-----------------------------------------------------------------------------
(* One trade.                                                              *)

\* Rounding up never falls short of the quotient.
LEMMA DivUpCovers ==
  ASSUME NEW a \in Nat, NEW b \in Nat, b > 0
  PROVE  DivUp(a, b) \in Nat /\ DivUp(a, b) * b >= a
<1> DEFINE q == (a + b - 1) \div b
<1>1. q \in Int /\ a + b - 1 - b * q \in 0..(b - 1)
  OBVIOUS
<1>2. b * q >= a
  BY <1>1
<1>3. q >= 0
  BY <1>1
<1> QED BY <1>1, <1>2, <1>3 DEF DivUp

\* The product of a pool is a natural number, whichever side comes first.
LEMMA ProductType ==
  ASSUME NEW m \in Pool
  PROVE  Product(m) \in Nat /\ Product(m) = m["NO"] * m["YES"]
BY DEF Pool, Product, Outcome

\* A purchase leaves a pool, and the product no lower.
LEMMA PurchaseKeepsProduct ==
  ASSUME NEW m \in Pool, NEW side \in Outcome, NEW bet \in Nat \ {0}
  PROVE  /\ PoolAfterPurchase(m, side, bet) \in Pool
         /\ Product(PoolAfterPurchase(m, side, bet)) >= Product(m)
<1> DEFINE other   == Opposite(side)
           against == m[other] + bet
           new     == PoolAfterPurchase(m, side, bet)
<1>1. other \in Outcome /\ other # side
  BY DEF Outcome, Opposite
<1>2. against \in Nat /\ against > 0
  BY <1>1 DEF Pool
<1>3. Product(m) \in Nat
  BY ProductType
<1>4. /\ DivUp(Product(m), against) \in Nat
      /\ DivUp(Product(m), against) * against >= Product(m)
  BY <1>2, <1>3, DivUpCovers
<1>5. new = [s \in Outcome |->
               IF s = side THEN DivUp(Product(m), against) ELSE against]
  BY DEF PoolAfterPurchase
<1>6. new \in Pool
  BY <1>2, <1>4, <1>5 DEF Pool
<1>7. new[side] = DivUp(Product(m), against) /\ new[other] = against
  BY <1>1, <1>5
<1>8. Product(new) = new[side] * new[other]
  BY <1>1, <1>6, ProductType DEF Outcome, Product, Opposite
<1> QED BY <1>4, <1>6, <1>7, <1>8

\* The cap of a sale is below either side.
LEMMA CapBelowSides ==
  ASSUME NEW m \in Pool
  PROVE  SaleCap(m) \in Nat /\ SaleCap(m) <= m["YES"] /\ SaleCap(m) <= m["NO"]
<1> DEFINE smaller == IF m["YES"] <= m["NO"] THEN m["YES"] ELSE m["NO"]
<1>1. smaller \in Nat /\ smaller <= m["YES"] /\ smaller <= m["NO"]
  BY DEF Pool, Outcome
<1>2. ASSUME NEW n \in Nat
      PROVE  (99 * n) \div 100 \in Nat /\ (99 * n) \div 100 <= n
  OBVIOUS
<1>3. SaleCap(m) = (99 * smaller) \div 100
  BY DEF SaleCap
<1> HIDE DEF smaller
<1> QED BY <1>1, <1>2, <1>3 DEF Pool, Outcome

\* A sale leaves a pool, whichever of its payouts the search ends with.
LEMMA SaleKeepsPool ==
  ASSUME NEW m \in Pool, NEW side \in Outcome, NEW shares \in Nat,
         NEW payout \in SaleAmounts(m, side, shares)
  PROVE  /\ payout \in Nat /\ payout <= SaleCap(m)
         /\ PoolAfterSale(m, side, shares, payout) \in Pool
<1>1. payout \in 0..SaleCap(m)
  BY DEF SaleAmounts
<1>2. \A s \in Outcome : m[s] \in Nat /\ m[s] - payout \in Nat
  BY <1>1, CapBelowSides DEF Pool, Outcome
<1>3. PoolAfterSale(m, side, shares, payout) \in Pool
  BY <1>2 DEF PoolAfterSale, Pool
<1> QED BY <1>1, <1>3, CapBelowSides
=============================================================================
