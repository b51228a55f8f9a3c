------------------------------ MODULE MCBounty ------------------------------
(* Instances of Bounty for TLC.  Five users are what a dispute needs: the   *)
(* creator, the claimant and three arbiters.  A user can pay for one bounty. *)
EXTENDS Bounty, TLC

CONSTANTS b1, b2, u1, u2, u3, u4, u5, w1, w2, none

OneBounty   == {b1}
TwoBounties == {b1, b2}
ThreeUsers  == {u1, u2, u3}
FiveUsers   == {u1, u2, u3, u4, u5}
OneWorker   == {w1}
TwoWorkers  == {w1, w2}

\* Bounties, users and workers differ in nothing but their names.
Symmetry == Permutations(Bounties) \cup Permutations(Users) \cup Permutations(Workers)
=============================================================================
