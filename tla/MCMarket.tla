------------------------------ MODULE MCMarket ------------------------------
(* Instances of Market for TLC.  One unit is 0.1 points: the pool starts    *)
(* with 50 points, the least create_market accepts, and bets are of 50 or   *)
(* 100 points, so that a bet or two moves the price far.  After the larger  *)
(* bet a trader can pay the smaller one, but not its fee.                    *)
EXTENDS Market, TLC

CONSTANTS t1, t2, t3, creator, none

MCScale        == 10
MCLiquidity    == 500
MCStartBalance == 1525
OneAmount      == {500}
TwoAmounts     == {500, 1000}

TwoTraders   == {t1, t2}
ThreeTraders == {t1, t2, t3}

\* Input bound: after two trades of any kind, a third only where all of them
\* are bets on YES by the three traders.
YesBetsOnly ==
  /\ \A u \in Users : shares[u]["NO"] = 0 /\ ledger[u]["sell"] = 0
  /\ ledger[Creator]["buy"] = 0
AtMostTwoOrYes == used.trades <= 2 \/ YesBetsOnly

\* Input bound: a question takes the place of a trade.
TradesAndQuestions == used.trades + used.questions <= 2

\* Traders differ in nothing but their name.
TraderSymmetry == Permutations(Traders)
=============================================================================
