----------------------------- MODULE MCCpmmWalk -----------------------------
(* Cpmm walks checked by TLC.  One unit is half a point: the pool starts    *)
(* with the 50 points of MIN_CREATION_LIQUIDITY and bets are of 0.5, 5 and  *)
(* 500 points, from a tiny one up to the largest PlaceBetRequest takes.     *)
(* The tolerance is a point and a half, several units, so that it is large  *)
(* beside small sales, as the code's is.                                    *)
EXTENDS CpmmWalk

MCBetAmounts == {1, 10, 1000}
=============================================================================
