----------------------------- MODULE CpmmProofs -----------------------------
(***************************************************************************)
(* What the market maker promises of every walk, for every liquidity, set  *)
(* of bet amounts, tolerance and number of trades.                         *)
(***************************************************************************)
EXTENDS CpmmWalk, Lemmas

-----------------------------------------------------------------------------
(* What one sale may do to the product.                                    *)

\* A number below a quotient rounded up is below the quotient.
LEMMA BelowDivUp ==
  ASSUME NEW c \in Nat, NEW e \in Nat \ {0}, e < DivUp(c, e)
  PROVE  e * e < c
<1> DEFINE q == (c + e - 1) \div e
<1>1. q \in Int /\ c + e - 1 - e * q \in 0..(e - 1)
  OBVIOUS
<1>2. e <= q - 1
  BY <1>1 DEF DivUp
<1>3. e * e <= e * (q - 1)
  <2>1. q - 1 \in Nat
    BY <1>1, <1>2
  <2> HIDE DEF q
  <2>2. \A a \in Nat, b \in Nat : a <= b => a * a <= a * b
    OBVIOUS
  <2> QED BY <1>2, <2>1, <2>2
<1>4. e * (q - 1) = e * q - e
  BY <1>1
<1> HIDE DEF q
<1> QED BY <1>1, <1>3, <1>4

\* A product that is at least a square and near another one leaves the other
\* at least the square of a root smaller by the tolerance.
LEMMA NearLosesOneTolerance ==
  ASSUME NEW x \in Nat, NEW y \in Nat, Near(x, y),
         NEW b \in Nat, y >= (b + Tolerance) * (b + Tolerance)
  PROVE  x >= b * b
<1> DEFINE t == Tolerance
           e == y - x - t * t
<1>1. t \in Nat \ {0}
  BY ToleranceAssumption
<1> SUFFICES ASSUME x < b * b PROVE FALSE
  BY <1>1
<1>2. y >= b * b + 2 * (b * t) + t * t
  BY <1>1
<1>3. b * t \in Nat /\ t * t \in Nat /\ b * b \in Nat
  BY <1>1
<1>4. x < y /\ x <= y
  BY <1>2, <1>3
<1>5. e \in Nat \ {0} /\ e > 2 * (b * t)
  BY <1>2, <1>3
<1>6. 4 * t * t * x \in Nat
  <2>1. t * t * x \in Nat
    BY <1>3
  <2> QED BY <2>1, <1>1
<1>7. e < DivUp(4 * t * t * x, e)
  BY <1>4, <1>5 DEF Near
<1>8. e * e < 4 * t * t * x
  <2> HIDE DEF e, t
  <2> QED BY <1>5, <1>6, <1>7, BelowDivUp
<1> HIDE DEF e, t
<1>9. \A u \in Nat, v \in Nat : u <= v => u * u <= v * v
  OBVIOUS
<1>10. (2 * (b * t)) * (2 * (b * t)) <= e * e
  BY <1>3, <1>5, <1>9
<1>11. (2 * (b * t)) * (2 * (b * t)) = 4 * (t * t) * (b * b)
  BY <1>1
<1>12. 4 * t * t * x <= 4 * (t * t) * (b * b)
  <2> DEFINE s == t * t
             d == b * b
  <2>1. s \in Nat /\ d \in Nat /\ x <= d
    BY <1>3
  <2>2. 4 * t * t * x = 4 * (s * x)
    BY <1>1
  <2> HIDE DEF s, d
  <2>3. s * x <= s * d
    BY <2>1
  <2>4. 4 * s * d = 4 * (s * d) /\ s * x \in Nat /\ s * d \in Nat
    BY <2>1
  <2>5. 4 * t * t * x <= 4 * s * d
    BY <2>2, <2>3, <2>4
  <2> QED BY <2>5 DEF s, d
<1>13. e * e \in Nat /\ 4 * (t * t) * (b * b) \in Nat /\ 4 * t * t * x \in Nat
  <2>1. \A u \in Nat, v \in Nat : 4 * u * v \in Nat
    OBVIOUS
  <2> QED BY <1>3, <1>5, <1>6, <2>1
<1> QED BY <1>8, <1>10, <1>11, <1>12, <1>13

-----------------------------------------------------------------------------
(* The walk.  The search keeps the product at its lower end and loses it at *)
(* its upper one, and a sale whose product falls loses one tolerance of its *)
(* root: after so many sales the root is at most so many tolerances lower.  *)

\* The interval of a search always has a payout that SaleAmounts promises.
SearchInv ==
  sale # NoSale =>
    /\ sale.shares > 0 /\ sale.shares <= held[sale.side]
    /\ sale.low < sale.high /\ sale.high <= SaleCap(pool) + 1
    /\ Keeps(pool, sale.side, sale.shares, sale.low)
    /\ sale.high = SaleCap(pool) + 1 \/ ~Keeps(pool, sale.side, sale.shares, sale.high)

\* The product is at least the square of what the tolerances have left.
ProductInv ==
  \A root \in Nat :
    root + sales * Tolerance <= Liquidity => Product(pool) >= root * root

WalkInv == TypeOK /\ CompleteSets /\ SearchInv /\ ProductInv

\* Larger numbers have larger squares.
LEMMA SquaresGrow == \A a \in Nat, b \in Nat : a <= b => a * a <= b * b
OBVIOUS

\* A fresh pool satisfies the invariant.
LEMMA InitWalkInv == Init => WalkInv
<1> SUFFICES ASSUME Init PROVE WalkInv
  OBVIOUS
<1>1. TypeOK /\ CompleteSets /\ SearchInv
  BY LiquidityAssumption, MaxMovesAssumption
     DEF Init, TypeOK, CompleteSets, SearchInv, Searches, NoSale, Pool, Outcome
<1>2. ProductInv
  <2>1. sales = 0 /\ Product(pool) = Liquidity * Liquidity
    BY DEF Init, Product, Outcome
  <2>2. sales * Tolerance = 0
    BY <2>1, ToleranceAssumption
  <2> QED BY <2>1, <2>2, SquaresGrow, LiquidityAssumption DEF ProductInv
<1> QED BY <1>1, <1>2 DEF WalkInv

\* A purchase keeps the invariant.
LEMMA BuyWalkInv ==
  ASSUME WalkInv, NEW side \in Outcome, NEW bet \in BetAmounts, Buy(side, bet)
  PROVE  WalkInv'
<1> DEFINE new == PoolAfterPurchase(pool, side, bet)
           n   == SharesBought(pool, side, bet)
<1>1. bet \in Nat \ {0} /\ pool \in Pool /\ held \in Pool
  BY BetAmountsAssumption DEF WalkInv, TypeOK
<1>2. new \in Pool /\ Product(new) >= Product(pool)
  BY <1>1, PurchaseKeepsProduct
<1>3. n = pool[side] + bet - new[side]
  BY DEF SharesBought
<1>4. n \in Nat
  BY <1>1, <1>2, <1>3 DEF Buy, Pool
<1>5. /\ pool' = new
      /\ held' = [held EXCEPT ![side] = @ + n]
      /\ spent' = spent + bet
      /\ moves < MaxMoves /\ moves' = moves + 1
      /\ sale = NoSale /\ sale' = NoSale /\ sales' = sales
  BY DEF Buy
<1>6. TypeOK'
  BY <1>1, <1>2, <1>4, <1>5, MaxMovesAssumption DEF WalkInv, TypeOK, Pool
<1>7. CompleteSets'
  <2> SUFFICES ASSUME NEW s \in Outcome
               PROVE  pool'[s] + held'[s] = Liquidity + spent'
    BY DEF CompleteSets
  <2>1. pool[s] + held[s] = Liquidity + spent
    BY DEF WalkInv, CompleteSets
  <2>2. CASE s = side
    <3>1. held'[s] = held[s] + n
      BY <1>1, <1>5, <2>2 DEF Pool
    <3>2. pool[s] \in Nat /\ held[s] \in Nat /\ new[s] \in Nat /\ spent \in Int
      BY <1>1, <1>2 DEF Pool, WalkInv, TypeOK
    <3> HIDE DEF new, n
    <3> QED BY <1>1, <1>3, <1>5, <2>1, <2>2, <3>1, <3>2, LiquidityAssumption
  <2>3. CASE s # side
    <3>1. s = Opposite(side)
      BY <2>3 DEF Outcome, Opposite
    <3>2. new[s] = pool[s] + bet /\ held'[s] = held[s]
      BY <1>1, <1>5, <2>3, <3>1 DEF PoolAfterPurchase, Pool
    <3> QED BY <1>1, <1>5, <2>1, <3>2, LiquidityAssumption DEF Pool, WalkInv, TypeOK
  <2> QED BY <2>2, <2>3
<1>8. SearchInv'
  BY <1>5 DEF SearchInv
<1>9. ProductInv'
  <2> SUFFICES ASSUME NEW root \in Nat, root + sales * Tolerance <= Liquidity
               PROVE  Product(new) >= root * root
    BY <1>5 DEF ProductInv
  <2>1. Product(pool) >= root * root
    BY DEF WalkInv, ProductInv
  <2>2. Product(pool) \in Nat /\ Product(new) \in Nat /\ root * root \in Nat
    BY <1>1, <1>2, ProductType
  <2> HIDE DEF new
  <2> QED BY <1>2, <2>1, <2>2
<1> QED BY <1>6, <1>7, <1>8, <1>9 DEF WalkInv

\* No money for the shares keeps the product.
LEMMA NothingKeeps ==
  ASSUME NEW m \in Pool, NEW side \in Outcome, NEW shares \in Nat
  PROVE  Keeps(m, side, shares, 0)
<1> DEFINE new == PoolAfterSale(m, side, shares, 0)
<1>1. \A s \in Outcome : m[s] \in Nat /\ new[s] \in Nat /\ new[s] >= m[s]
  BY DEF PoolAfterSale, Pool, Outcome
<1>2. ASSUME NEW a \in Nat, NEW b \in Nat, NEW c \in Nat, NEW d \in Nat,
             a >= c, b >= d
      PROVE  a * b >= c * d
  <2>1. a * b >= c * b
    BY <1>2
  <2>2. c * b >= c * d
    BY <1>2
  <2>3. a * b \in Nat /\ c * b \in Nat /\ c * d \in Nat
    OBVIOUS
  <2> QED BY <2>1, <2>2, <2>3
<1>3. Product(new) >= Product(m)
  BY <1>1, <1>2 DEF Product, Outcome
<1> QED BY <1>3 DEF Keeps

\* The search starts between paying nothing and the cap.
LEMMA SellWalkInv ==
  ASSUME WalkInv, NEW side \in Outcome, NEW shares \in SellSizes(held[side]),
         Sell(side, shares)
  PROVE  WalkInv'
<1>1. pool \in Pool /\ held[side] \in Nat /\ SaleCap(pool) \in Nat
  BY CapBelowSides DEF WalkInv, TypeOK, Pool
<1>2. shares \in Nat /\ shares > 0 /\ shares <= held[side]
  BY <1>1 DEF SellSizes
<1>3. /\ sale' = [side |-> side, shares |-> shares, low |-> 0, high |-> SaleCap(pool) + 1]
      /\ UNCHANGED <<pool, held, spent, sales>>
      /\ moves < MaxMoves /\ moves' = moves + 1
  BY DEF Sell
<1>4. TypeOK'
  BY <1>1, <1>2, <1>3, MaxMovesAssumption DEF WalkInv, TypeOK, Searches
<1>5. SearchInv'
  BY <1>1, <1>2, <1>3, NothingKeeps DEF SearchInv
<1> QED BY <1>3, <1>4, <1>5 DEF WalkInv, CompleteSets, ProductInv

\* What a search knows of its middle.
LEMMA MiddleBetween ==
  ASSUME WalkInv, sale # NoSale
  PROVE  /\ Middle \in Nat /\ sale.low <= Middle /\ Middle < sale.high
         /\ Middle <= SaleCap(pool)
         /\ Middle = sale.low => sale.high = sale.low + 1
<1>1. /\ sale.low \in Nat /\ sale.high \in Nat /\ sale.low < sale.high
      /\ sale.high <= SaleCap(pool) + 1 /\ SaleCap(pool) \in Nat
  BY CapBelowSides DEF WalkInv, TypeOK, SearchInv, Searches
<1>2. \A a \in Nat, b \in Nat : a < b =>
        /\ (a + b) \div 2 \in Nat /\ a <= (a + b) \div 2 /\ (a + b) \div 2 < b
        /\ (a + b) \div 2 = a => b = a + 1
  OBVIOUS
<1> QED BY <1>1, <1>2 DEF Middle

\* A turn of the loop keeps the invariant.
LEMMA HalveWalkInv ==
  ASSUME WalkInv, Halve
  PROVE  WalkInv'
<1>1. UNCHANGED <<pool, held, spent, sales, moves>> /\ sale # NoSale
  BY DEF Halve
<1>2. /\ Middle \in Nat /\ sale.low < Middle /\ Middle < sale.high
      /\ Middle <= SaleCap(pool) /\ SaleCap(pool) \in Nat
  BY MiddleBetween, CapBelowSides DEF Halve, WalkInv, TypeOK
<1>3. PICK lo \in Nat, hi \in Nat :
        /\ sale' = [side |-> sale.side, shares |-> sale.shares, low |-> lo, high |-> hi]
        /\ lo < hi /\ hi <= SaleCap(pool) + 1
        /\ Keeps(pool, sale.side, sale.shares, lo)
        /\ hi = SaleCap(pool) + 1 \/ ~Keeps(pool, sale.side, sale.shares, hi)
  <2>1. /\ sale \in Searches /\ sale.low \in Nat /\ sale.high \in Nat
        /\ sale.high <= SaleCap(pool) + 1
        /\ Keeps(pool, sale.side, sale.shares, sale.low)
        /\ sale.high = SaleCap(pool) + 1
             \/ ~Keeps(pool, sale.side, sale.shares, sale.high)
    BY <1>1 DEF WalkInv, TypeOK, SearchInv, Searches
  <2>2. CASE Keeps(pool, sale.side, sale.shares, Middle)
    <3>1. sale' = [sale EXCEPT !.low = Middle]
      BY <2>2 DEF Halve
    <3>2. sale' = [side |-> sale.side, shares |-> sale.shares,
                   low |-> Middle, high |-> sale.high]
      BY <2>1, <3>1 DEF Searches
    <3> QED BY <1>2, <2>1, <2>2, <3>2
  <2>3. CASE ~Keeps(pool, sale.side, sale.shares, Middle)
    <3>1. sale' = [sale EXCEPT !.high = Middle]
      BY <2>3 DEF Halve
    <3>2. sale' = [side |-> sale.side, shares |-> sale.shares,
                   low |-> sale.low, high |-> Middle]
      BY <2>1, <3>1 DEF Searches
    <3>3. Middle <= SaleCap(pool) + 1
      BY <1>2
    <3> QED BY <1>2, <2>1, <2>3, <3>2, <3>3
  <2> QED BY <2>2, <2>3
<1>4. TypeOK'
  BY <1>1, <1>3 DEF WalkInv, TypeOK, Searches
<1>5. SearchInv'
  BY <1>1, <1>3 DEF WalkInv, SearchInv
<1> QED BY <1>1, <1>4, <1>5 DEF WalkInv, CompleteSets, ProductInv

\* The answer of a search is promised.
LEMMA AnswerPromised ==
  ASSUME WalkInv, Answered
  PROVE  Middle \in SaleAmounts(pool, sale.side, sale.shares)
<1>1. sale # NoSale /\ SaleCap(pool) \in Nat
  BY CapBelowSides DEF Answered, WalkInv, TypeOK
<1>2. Middle \in 0..SaleCap(pool)
  BY <1>1, MiddleBetween
<1>3. CASE MiddleAccepted
  BY <1>2, <1>3 DEF SaleAmounts, MiddleAccepted
<1>4. CASE Middle = sale.low
  <2>1. sale.high = Middle + 1
    BY <1>1, <1>4, MiddleBetween
  <2>2. /\ Keeps(pool, sale.side, sale.shares, Middle)
        /\ Middle = SaleCap(pool) \/ ~Keeps(pool, sale.side, sale.shares, Middle + 1)
    BY <1>1, <1>2, <1>4, <2>1 DEF WalkInv, SearchInv
  <2> QED BY <1>2, <2>2 DEF SaleAmounts
<1> QED BY <1>3, <1>4 DEF Answered

\* A promised payout costs the root of the product at most one tolerance.
LEMMA SaleLosesOneTolerance ==
  ASSUME NEW m \in Pool, NEW side \in Outcome, NEW shares \in Nat,
         NEW payout \in SaleAmounts(m, side, shares), NEW root \in Nat,
         Product(m) >= (root + Tolerance) * (root + Tolerance)
  PROVE  Product(PoolAfterSale(m, side, shares, payout)) >= root * root
<1> DEFINE x == Product(PoolAfterSale(m, side, shares, payout))
           y == Product(m)
<1>1. x \in Nat /\ y \in Nat
  BY SaleKeepsPool, ProductType
<1>2. CASE Accepts(m, side, shares, payout)
  <2>1. Near(x, y)
    BY <1>2 DEF Accepts
  <2> HIDE DEF x, y
  <2> QED BY <1>1, <2>1, NearLosesOneTolerance DEF x, y
<1>3. CASE Keeps(m, side, shares, payout)
  <2>1. x >= y
    BY <1>3 DEF Keeps
  <2>2. (root + Tolerance) * (root + Tolerance) >= root * root
    BY ToleranceAssumption, SquaresGrow
  <2>3. root * root \in Nat /\ (root + Tolerance) * (root + Tolerance) \in Nat
    BY ToleranceAssumption
  <2>4. y >= (root + Tolerance) * (root + Tolerance)
    OBVIOUS
  <2> HIDE DEF x, y
  <2>5. x >= root * root
    BY <1>1, <2>1, <2>2, <2>3, <2>4
  <2> QED BY <2>5 DEF x
<1> QED BY <1>2, <1>3 DEF SaleAmounts

\* A sale that goes through keeps the invariant.
LEMMA PayWalkInv ==
  ASSUME WalkInv, Pay
  PROVE  WalkInv'
<1> DEFINE side == sale.side
           n == sale.shares
           payout == Middle
<1>1. /\ pool \in Pool /\ held \in Pool /\ side \in Outcome /\ n \in Nat
      /\ n <= held[side] /\ sale # NoSale
  BY DEF WalkInv, TypeOK, SearchInv, Searches, Pay, Answered
<1>2. /\ held' = [held EXCEPT ![side] = @ - n]
      /\ pool' = PoolAfterSale(pool, side, n, payout)
      /\ spent' = spent - payout
      /\ sale' = NoSale /\ sales' = sales + 1 /\ moves' = moves
  BY DEF Pay
<1>3. payout \in SaleAmounts(pool, side, n)
  BY AnswerPromised DEF Pay
<1> HIDE DEF payout, side, n
<1>4. payout \in Nat /\ pool' \in Pool
  BY <1>1, <1>2, <1>3, SaleKeepsPool
<1>5. TypeOK'
  <2>1. held[side] \in Nat /\ held[side] - n \in Nat
    BY <1>1 DEF Pool
  <2>2. held' \in Pool
    BY <1>1, <1>2, <2>1 DEF Pool
  <2>3. spent' \in Int /\ moves' \in 0..MaxMoves /\ sales' \in Nat
    BY <1>2, <1>4 DEF WalkInv, TypeOK
  <2>4. sale' \in Searches
    BY <1>2 DEF NoSale, Searches, Outcome
  <2> QED BY <1>4, <2>2, <2>3, <2>4 DEF TypeOK
<1>6. CompleteSets'
  <2> SUFFICES ASSUME NEW s \in Outcome
               PROVE  pool'[s] + held'[s] = Liquidity + spent'
    BY DEF CompleteSets
  <2>1. pool[s] + held[s] = Liquidity + spent
    BY DEF WalkInv, CompleteSets
  <2>2. pool'[s] = pool[s] - payout + (IF s = side THEN n ELSE 0)
    BY <1>2 DEF PoolAfterSale
  <2>3. held'[s] = held[s] - (IF s = side THEN n ELSE 0)
    BY <1>1, <1>2 DEF Pool
  <2>4. /\ pool[s] \in Nat /\ held[s] \in Nat /\ spent \in Int
        /\ spent' = spent - payout
    BY <1>1, <1>2 DEF Pool, WalkInv, TypeOK
  <2>5. CASE s = side
    BY <1>1, <1>4, <2>1, <2>2, <2>3, <2>4, <2>5, LiquidityAssumption
  <2>6. CASE s # side
    BY <1>1, <1>4, <2>1, <2>2, <2>3, <2>4, <2>6, LiquidityAssumption
  <2> QED BY <2>5, <2>6
<1>7. SearchInv'
  BY <1>2 DEF SearchInv
<1>8. ProductInv'
  <2> SUFFICES ASSUME NEW root \in Nat, root + (sales + 1) * Tolerance <= Liquidity
               PROVE  Product(pool') >= root * root
    BY <1>2 DEF ProductInv
  <2>1. (root + Tolerance) + sales * Tolerance <= Liquidity
    <3>1. sales \in Nat /\ Tolerance \in Nat
      BY ToleranceAssumption DEF WalkInv, TypeOK
    <3> QED BY <3>1
  <2>2. root + Tolerance \in Nat
    BY ToleranceAssumption
  <2>3. Product(pool) >= (root + Tolerance) * (root + Tolerance)
    BY <2>1, <2>2 DEF WalkInv, ProductInv
  <2> QED BY <1>1, <1>2, <1>3, <2>3, SaleLosesOneTolerance
<1> QED BY <1>5, <1>6, <1>7, <1>8 DEF WalkInv

\* A refused sale leaves everything as it was.
LEMMA RefuseWalkInv ==
  ASSUME WalkInv, Refuse
  PROVE  WalkInv'
BY DEF Refuse, WalkInv, TypeOK, CompleteSets, SearchInv, ProductInv, NoSale, Searches,
       Outcome

\* The invariant is inductive.
LEMMA NextWalkInv == WalkInv /\ [Next]_vars => WalkInv'
<1> SUFFICES ASSUME WalkInv, [Next]_vars PROVE WalkInv'
  OBVIOUS
<1>1. CASE Next
  BY <1>1, BuyWalkInv, SellWalkInv, HalveWalkInv, PayWalkInv, RefuseWalkInv DEF Next
<1>2. CASE UNCHANGED vars
  BY <1>2 DEF vars, WalkInv, TypeOK, CompleteSets, SearchInv, ProductInv
<1> QED BY <1>1, <1>2

\* The invariant holds of every walk.
LEMMA WalkInvHolds == Spec => []WalkInv
BY InitWalkInv, NextWalkInv, PTL DEF Spec

-----------------------------------------------------------------------------
(* The theorems.                                                           *)

\* Shares, money and the pool keep their types; above all no side of the pool
\* and no holding goes below zero.
THEOREM WalkTypeCorrect == Spec => []TypeOK
<1>1. WalkInv => TypeOK
  BY DEF WalkInv
<1> QED BY <1>1, WalkInvHolds, PTL

\* YES and NO shares in existence stay equal, and backed by what was paid in.
THEOREM SharesAreBacked == Spec => []CompleteSets
<1>1. WalkInv => CompleteSets
  BY DEF WalkInv
<1> QED BY <1>1, WalkInvHolds, PTL

\* Every search ends within its tolerance, or with the last payout up to the
\* cap that keeps the product.
THEOREM SearchFindsPromised == Spec => []AnswersArePromised
<1>1. WalkInv => AnswersArePromised
  BY AnswerPromised DEF AnswersArePromised
<1> QED BY <1>1, WalkInvHolds, PTL

\* A trader who holds no shares has taken out at most one tolerance per sale
\* more than it paid in.
THEOREM OneToleranceASale == Spec => []GainIsBounded
<1>1. WalkInv => GainIsBounded
  <2> SUFFICES ASSUME WalkInv, \A s \in Outcome : held[s] = 0
               PROVE  spent + sales * Tolerance >= 0
    BY DEF GainIsBounded
  <2> DEFINE sum  == Liquidity + spent
             lost == sales * Tolerance
             root == Liquidity - lost
  <2>1. sum \in Nat /\ pool["YES"] = sum /\ pool["NO"] = sum
    BY LiquidityAssumption DEF WalkInv, TypeOK, CompleteSets, Pool, Outcome
  <2>2. lost \in Nat /\ Liquidity \in Nat /\ spent \in Int
    BY LiquidityAssumption, ToleranceAssumption DEF WalkInv, TypeOK
  <2>3. CASE root < 0
    BY <2>1, <2>2, <2>3
  <2>4. CASE root >= 0
    <3>1. root \in Nat /\ root + sales * Tolerance <= Liquidity
      BY <2>2, <2>4
    <3>2. sum * sum >= root * root
      BY <2>1, <3>1 DEF WalkInv, ProductInv, Product
    <3>3. sum >= root
      <4>1. ASSUME NEW a \in Nat, NEW b \in Nat, a < b PROVE a * a < b * b
        BY <4>1
      <4> HIDE DEF sum, root
      <4> QED BY <2>1, <3>1, <3>2, <4>1
    <3> QED BY <2>2, <3>3
  <2> QED BY <2>2, <2>3, <2>4
<1> QED BY <1>1, WalkInvHolds, PTL
=============================================================================
