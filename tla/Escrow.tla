------------------------------- MODULE Escrow -------------------------------
(***************************************************************************)
(* What docs/bounties-api.md promises of a bounty: points are locked when  *)
(* it is created, and released to the claimant or refunded to the creator, *)
(* once.  Every step moves the points at once, and none is ever made or    *)
(* lost.                                                                   *)
(***************************************************************************)
EXTENDS Integers

CONSTANTS Bounties, Users, None, Amount, StartBalance

VARIABLES
  escrow,    \* "none", "held", "released" or "refunded"
  owner,     \* who locked the points
  claimant,  \* who may receive them
  purse      \* what each user owns

vars == <<escrow, owner, claimant, purse>>

Init ==
  /\ escrow   = [b \in Bounties |-> "none"]
  /\ owner    = [b \in Bounties |-> None]
  /\ claimant = [b \in Bounties |-> None]
  /\ purse    = [u \in Users |-> StartBalance]

Lock(b, u) ==
  /\ escrow[b] = "none"
  /\ purse[u] >= Amount
  /\ escrow' = [escrow EXCEPT ![b] = "held"]
  /\ owner'  = [owner EXCEPT ![b] = u]
  /\ purse'  = [purse EXCEPT ![u] = @ - Amount]
  /\ UNCHANGED claimant

Claim(b, u) ==
  /\ escrow[b] = "held"
  /\ claimant[b] = None
  /\ owner[b] # u
  /\ claimant' = [claimant EXCEPT ![b] = u]
  /\ UNCHANGED <<escrow, owner, purse>>

Release(b) ==
  /\ escrow[b] = "held"
  /\ claimant[b] # None
  /\ escrow' = [escrow EXCEPT ![b] = "released"]
  /\ purse'  = [purse EXCEPT ![claimant[b]] = @ + Amount]
  /\ UNCHANGED <<owner, claimant>>

Refund(b) ==
  /\ escrow[b] = "held"
  /\ escrow' = [escrow EXCEPT ![b] = "refunded"]
  /\ purse'  = [purse EXCEPT ![owner[b]] = @ + Amount]
  /\ UNCHANGED <<owner, claimant>>

Next ==
  \E b \in Bounties :
    \/ \E u \in Users : Lock(b, u) \/ Claim(b, u)
    \/ Release(b) \/ Refund(b)

Spec == Init /\ [][Next]_vars
=============================================================================
