----------------------------- MODULE MCAccounts -----------------------------
(* Instances of Accounts for TLC: two users with accounts and one who may   *)
(* register, and an order of every kind.                                     *)
EXTENDS Accounts, TLC

CONSTANTS r1, r2, r3, u1, u2, u3, h1

\* Resets of a sandbox balance are sent without an idempotency key.
Order(op, user, to, amount) ==
  [op |-> op, user |-> user, to |-> to, amount |-> amount,
   keyed |-> op # "sandbox_reset"]

MCOrders ==
  {Order("transfer", u1, u2, 2), Order("bounty", u1, None, 2),
   Order("reset_key", u1, None, 0), Order("sandbox_reset", u2, None, 0),
   Order("register", u3, None, 0), Order("claim", u3, h1, 0)}

MCKeys ==
  {<<n, o>> \in (0..MaxSecrets) \X MCOrders : n = 0 <=> o.op \in Public}

\* Input bounds: one handler that raises, one call of an administrator or one
\* restart; and time passes between two attempts, a third is made at once.
OneMishap == cuts + admin + (IF excused = Keys THEN 1 ELSE 0) <= 1
TimeForTwo == now = 0 \/ \E r \in Attempts : phase[r] = "idle"
Bounds == OneMishap /\ TimeForTwo

\* Attempts differ in nothing but their names.
AttemptSymmetry == Permutations(Attempts)
=============================================================================
