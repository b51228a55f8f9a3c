------------------------------ MODULE CpmmWalk ------------------------------
(***************************************************************************)
(* One trader walking a pool with any sequence of purchases and sales,     *)
(* fees left aside: what the market maker of Cpmm promises over time.  The *)
(* payout of a sale is searched for step by step, as the loop of           *)
(* calculate_cpmm_sale_amount does; nothing else runs meanwhile.           *)
(***************************************************************************)
EXTENDS Cpmm

CONSTANTS
  Liquidity,    \* initial shares on each side
  BetAmounts,   \* the amounts a purchase may have
  MaxMoves      \* bound: trades begun in one walk

ASSUME LiquidityAssumption == Liquidity \in Nat \ {0}
ASSUME BetAmountsAssumption == BetAmounts \subseteq Nat \ {0}
ASSUME MaxMovesAssumption == MaxMoves \in Nat

VARIABLES
  pool,   \* the market's pool
  held,   \* the trader's shares
  spent,  \* paid for shares minus received for them
  sale,   \* the sale whose payout is searched for, of no shares if there is none
  sales,  \* sales paid so far
  moves   \* trades begun so far (bound only)

vars == <<pool, held, spent, sale, sales, moves>>

\* Between low and high, itself excluded, the search looks for the payout.
Searches == [side : Outcome, shares : Nat, low : Nat, high : Nat]

NoSale == [side |-> "YES", shares |-> 0, low |-> 0, high |-> 0]

Init ==
  /\ pool = [s \in Outcome |-> Liquidity]
  /\ held = [s \in Outcome |-> 0]
  /\ spent = 0
  /\ sale = NoSale
  /\ sales = 0
  /\ moves = 0

Buy(side, bet) ==
  /\ sale = NoSale
  /\ moves < MaxMoves
  /\ SharesBought(pool, side, bet) > 0
  /\ held' = [held EXCEPT ![side] = @ + SharesBought(pool, side, bet)]
  /\ pool' = PoolAfterPurchase(pool, side, bet)
  /\ spent' = spent + bet
  /\ moves' = moves + 1
  /\ UNCHANGED <<sale, sales>>

-----------------------------------------------------------------------------
(* A sale.                                                                 *)

\* Input bound: a holder sells everything, half, or a single unit.
SellSizes(n) == {n, n \div 2, 1} \cap 1..n

Sell(side, shares) ==
  /\ sale = NoSale
  /\ moves < MaxMoves
  /\ sale' = [side |-> side, shares |-> shares, low |-> 0, high |-> SaleCap(pool) + 1]
  /\ moves' = moves + 1
  /\ UNCHANGED <<pool, held, spent, sales>>

Middle == (sale.low + sale.high) \div 2

MiddleAccepted == Accepts(pool, sale.side, sale.shares, Middle)

\* Bug form: the two ends of the interval are exchanged.
BugHalve ==
  /\ sale # NoSale
  /\ sale.low < Middle /\ ~MiddleAccepted
  /\ sale' = IF Keeps(pool, sale.side, sale.shares, Middle)
               THEN [sale EXCEPT !.high = Middle]
               ELSE [sale EXCEPT !.low = Middle]
  /\ UNCHANGED <<pool, held, spent, sales, moves>>

\* One turn of the loop that does not return.  A side at or below zero, which
\* the loop looks for, is out of reach below the cap.
Halve ==
  /\ sale # NoSale
  /\ sale.low < Middle /\ ~MiddleAccepted
  /\ sale' = IF Keeps(pool, sale.side, sale.shares, Middle)
               THEN [sale EXCEPT !.low = Middle]
               ELSE [sale EXCEPT !.high = Middle]
  /\ UNCHANGED <<pool, held, spent, sales, moves>>

\* The search is over: it accepts the middle, or its interval is down to one
\* payout, long before the hundred turns are over.
Answered == sale # NoSale /\ (MiddleAccepted \/ Middle = sale.low)

\* The sale goes through with the answer; one that pays nothing is refused.
Pay ==
  /\ Answered
  /\ Middle > 0
  /\ held' = [held EXCEPT ![sale.side] = @ - sale.shares]
  /\ pool' = PoolAfterSale(pool, sale.side, sale.shares, Middle)
  /\ spent' = spent - Middle
  /\ sale' = NoSale
  /\ sales' = sales + 1
  /\ UNCHANGED moves

Refuse ==
  /\ Answered
  /\ Middle = 0
  /\ sale' = NoSale
  /\ UNCHANGED <<pool, held, spent, sales, moves>>

Next ==
  \/ \E side \in Outcome :
       \/ \E bet \in BetAmounts : Buy(side, bet)
       \/ \E shares \in SellSizes(held[side]) : Sell(side, shares)
  \/ Halve
  \/ Pay
  \/ Refuse

Spec == Init /\ [][Next]_vars

-----------------------------------------------------------------------------
TypeOK ==
  /\ pool \in Pool
  /\ held \in Pool
  /\ spent \in Int
  /\ sale \in Searches
  /\ sales \in Nat
  /\ moves \in 0..MaxMoves

\* Purchases and sales only move shares between the pool and the trader in
\* complete sets: YES and NO shares in existence stay equal, and equal to the
\* liquidity plus what was paid in.  This is what lets payouts.py redeem every
\* winning share and hand the rest of the winning side to the creator.
CompleteSets ==
  \A s \in Outcome : pool[s] + held[s] = Liquidity + spent

\* Wherever the binary search of calculate_cpmm_sale_amount ends, its answer is
\* one that SaleAmounts promises: within the tolerance, or the last payout up to
\* the cap that keeps the product.
AnswersArePromised ==
  Answered => Middle \in SaleAmounts(pool, sale.side, sale.shares)

\* A trader left with no shares has taken out at most one tolerance per sale
\* more than it paid in, whatever sequence of trades led there: the tolerance of
\* cpmm.py:258 is the only leak of the pool, and it does not grow.
GainIsBounded ==
  (\A s \in Outcome : held[s] = 0) => spent + sales * Tolerance >= 0
=============================================================================
