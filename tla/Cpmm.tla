-------------------------------- MODULE Cpmm --------------------------------
(***************************************************************************)
(* The constant-product market maker of cpmm.py, as pure operators.        *)
(*                                                                         *)
(* A pool holds YES and NO shares.  Every market is created with weight    *)
(* p = 1/2 and no liquidity fee is ever taken, so p never moves and the    *)
(* quantity the code keeps, k = y^p * n^(1-p), is the square root of the   *)
(* product y * n.  Amounts are integers of a small unit; a fraction of a   *)
(* unit is rounded in the pool's favour, where the code has a float.       *)
(***************************************************************************)
EXTENDS Integers

CONSTANT Tolerance   \* the 0.0001 within which a sale takes k for kept, in units

ASSUME ToleranceAssumption == Tolerance \in Nat \ {0}

Outcome == {"YES", "NO"}

Opposite(side) == IF side = "YES" THEN "NO" ELSE "YES"

Pool == [Outcome -> Nat]

\* k squared: the quantity a trade must keep.
Product(pool) == pool["YES"] * pool["NO"]

DivUp(a, b) == (a + b - 1) \div b

-----------------------------------------------------------------------------
(* calculate_cpmm_purchase: the bet enters both sides, and shares of the   *)
(* chosen side leave until the product is back where it was.               *)

PoolAfterPurchase(pool, side, bet) ==
  LET against == pool[Opposite(side)] + bet
  IN  [s \in Outcome |->
         IF s = side THEN DivUp(Product(pool), against) ELSE against]

\* Bug form: the shares minted by the bet itself are forgotten.
BugSharesBought(pool, side, bet) ==
  pool[side] - PoolAfterPurchase(pool, side, bet)[side]

SharesBought(pool, side, bet) ==
  pool[side] + bet - PoolAfterPurchase(pool, side, bet)[side]

-----------------------------------------------------------------------------
(* calculate_cpmm_sale: the shares return to their side and the payout     *)
(* leaves both.                                                            *)

PoolAfterSale(pool, side, shares, payout) ==
  [s \in Outcome |-> pool[s] - payout + (IF s = side THEN shares ELSE 0)]

\* The upper end of the binary search: 99% of the smaller side.
SaleCap(pool) ==
  LET smaller == IF pool["YES"] <= pool["NO"] THEN pool["YES"] ELSE pool["NO"]
  IN  (99 * smaller) \div 100

\* The payout leaves the product at its value before the sale or above.
Keeps(pool, side, shares, payout) ==
  Product(PoolAfterSale(pool, side, shares, payout)) >= Product(pool)

\* Bug form: the test of the search without its abs().
BugNear(x, y) ==
  LET excess == x - y - Tolerance * Tolerance
  IN  excess > 0 => excess < DivUp(4 * Tolerance * Tolerance * y, excess)

\* abs(new_k - k) < 0.0001, for the products x and y whose roots they are:
\* the larger is below the square of the smaller root plus the tolerance.
Near(x, y) ==
  LET smaller == IF x <= y THEN x ELSE y
      larger  == IF x <= y THEN y ELSE x
      excess  == larger - smaller - Tolerance * Tolerance
  IN  excess > 0 => excess < DivUp(4 * Tolerance * Tolerance * smaller, excess)

\* The binary search is content with this payout.
Accepts(pool, side, shares, payout) ==
  Near(Product(PoolAfterSale(pool, side, shares, payout)), Product(pool))

\* What the binary search may answer: a payout it is content with, on either
\* side of the product before the sale, or, where it ran into the cap or found
\* no such payout, the last one that keeps the product.  CpmmWalk has the search
\* itself, which answers with one of these.
SaleAmounts(pool, side, shares) ==
  LET cap == SaleCap(pool)
  IN  {payout \in 0..cap :
         \/ Accepts(pool, side, shares, payout)
         \/ /\ Keeps(pool, side, shares, payout)
            /\ payout = cap \/ ~Keeps(pool, side, shares, payout + 1)}
=============================================================================
