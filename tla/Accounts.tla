------------------------------ MODULE Accounts ------------------------------
(***************************************************************************)
(* Accounts and their points: registration and claim (routes/agents.py),   *)
(* API keys, transfers, sandbox resets, the locking of a bounty's points   *)
(* and the account endpoints of admin.py, over storage/users.py, all       *)
(* behind the idempotency middleware.                                      *)
(*                                                                         *)
(* A client has orders, each of which it wants carried out once, and sends *)
(* an attempt for one whenever it likes: the first time, or again because  *)
(* no answer came.  All attempts for a keyed order carry the order's own   *)
(* idempotency key, which the middleware scopes by the API key they are    *)
(* sent with; registrations and claims are sent without an API key.        *)
(*                                                                         *)
(* A handler runs to its end in one step, but for claim_agent, which waits *)
(* for the tweet.  The ...Cut forms are handlers that raise after their    *)
(* first commit; followed by Restart, they are a crash at that point.  The *)
(* rate limiter, which may answer register with a 429 and the admin        *)
(* endpoints with none of their effect, is module RateLimiter's.           *)
(***************************************************************************)
EXTENDS Idempotency, Functions, FiniteSetsExt

CONSTANTS
  Users,         \* those with an account, and those who may register
  Registered,    \* who has a claimed account at first
  Sandboxes, Humans, \* who registers as a sandbox agent, or as a human
  Orders,        \* what clients want done: [op, user, to, amount, keyed]
  StartBalance,  \* STARTING_BALANCE
  SandboxBalance,\* SANDBOX_STARTING_BALANCE and SANDBOX_BALANCE_RESET_AMOUNT
  MaxSecrets,    \* bound: API keys issued to one user
  MaxCuts,       \* bound: handlers that raise
  MaxAdmin       \* bound: calls of the admin endpoints

Public == {"register", "claim"}        \* the endpoints that take no API key
TxTypes == {"transfer_out", "transfer_in", "escrow_lock"}

ASSUME AccountsAssumption ==
  /\ IsFiniteSet(Users) /\ Registered \subseteq Users
  /\ Sandboxes \cap Humans = {}
  /\ {StartBalance, SandboxBalance} \subseteq Nat /\ MaxSecrets \in Nat \ {0}
  /\ None \notin Orders
  /\ \A o \in Orders : /\ o.user \in Users /\ o.amount \in Nat
                       /\ o.op = "transfer" => o.to \in Users
  /\ Keys = {k \in (0..MaxSecrets) \X Orders : k[1] = 0 <=> k[2].op \in Public}

\* get_starting_balance.
Opening(u) == IF u \in Sandboxes THEN SandboxBalance ELSE StartBalance

VARIABLES
  \* the users rows; a user's API keys are numbered, only the last one is valid
  account, balance, secret, handle,
  \* transactions, summed by type; the bounties inserted
  ledger, escrow,
  \* attempts: the order, the API key sent, whether claim_agent is waiting,
  \* the API key in the response, whether the reply reached the client
  order, token, waits, issued, got,
  known,   \* the API keys each client has learnt of
  spent,   \* history: attempts that took points from their sender
  cuts, admin

rows     == <<account, balance, secret, handle, ledger, escrow>>
letters  == <<order, token, known, got>>
accVars  == <<idemVars, rows, letters, waits, issued, spent, cuts, admin>>

Init ==
  /\ IdemInit
  /\ account = [u \in Users |-> IF u \in Registered THEN "claimed" ELSE "none"]
  /\ balance = [u \in Users |-> IF u \in Registered THEN Opening(u) ELSE 0]
  /\ secret  = [u \in Users |-> IF u \in Registered THEN 1 ELSE 0]
  /\ handle  = [u \in Users |-> None]
  /\ ledger  = [u \in Users |-> [t \in TxTypes |-> 0]]
  /\ escrow  = 0
  /\ order   = [r \in Attempts |-> None]
  /\ token   = [r \in Attempts |-> 0]
  /\ waits   = [r \in Attempts |-> FALSE]
  /\ issued  = [r \in Attempts |-> 0]
  /\ got     = [r \in Attempts |-> "no"]
  /\ known   = [u \in Users |-> IF u \in Registered THEN {1} ELSE {}]
  /\ spent   = {}
  /\ cuts = 0 /\ admin = 0

-----------------------------------------------------------------------------
(* The client and the network.                                             *)

\* Bug form: the key is scoped by the newest API key of the user.
BugScoped(o, n) == <<IF o.op \in Public THEN 0 ELSE secret[o.user], o>>

\* _extract_user_scope: the API key sent, or "anon", here 0.
Scoped(o, n) == <<IF o.op \in Public THEN 0 ELSE n, o>>

Send(r, o, n) ==
  /\ IF o.op \in Public THEN n = 0 ELSE n \in known[o.user]
  /\ IF o.keyed
     THEN LET k == Scoped(o, n) IN Begin(r, k) \/ Replay(r, k) \/ Refuse(r, k)
     ELSE PassThrough(r)
  /\ order' = [order EXCEPT ![r] = o]
  /\ token' = [token EXCEPT ![r] = n]
  /\ UNCHANGED <<rows, waits, issued, known, got, spent, cuts, admin>>

\* A reply with an API key in it arrives, or is lost on the way.
Deliver(r) ==
  /\ phase[r] \in {"answered", "replayed"}
  /\ got[r] = "no"
  /\ issued[reply[r]] > 0
  /\ \/ /\ got' = [got EXCEPT ![r] = "yes"]
        /\ known' = [known EXCEPT ![order[r].user] = @ \cup {issued[reply[r]]}]
     \/ got' = [got EXCEPT ![r] = "lost"] /\ UNCHANGED known
  /\ UNCHANGED <<idemVars, rows, order, token, waits, issued, spent, cuts, admin>>

-----------------------------------------------------------------------------
(* The handlers.                                                           *)

Exists(u) == account[u] \in {"pending", "claimed"}

\* require_auth, at the time the handler runs.
Authorized(r) ==
  /\ Exists(order[r].user)
  /\ token[r] = secret[order[r].user]

Pays(r) ==
  /\ Authorized(r)
  /\ account[order[r].user] = "claimed"
  /\ balance[order[r].user] >= order[r].amount

\* What the handler demands before it changes anything.
Allowed(r) ==
  LET o == order[r] IN
  CASE o.op = "transfer"  -> Pays(r) /\ o.to # o.user /\ account[o.to] = "claimed"
    [] o.op = "bounty"    -> Pays(r)
    [] o.op = "reset_key" -> Authorized(r) /\ secret[o.user] < MaxSecrets
    [] o.op = "sandbox_reset" -> Authorized(r) /\ o.user \in Sandboxes
    [] o.op = "register"  -> account[o.user] = "none"
    [] o.op = "claim"     -> account[o.user] = "pending"

Runs(r, op) ==
  phase[r] = "running" /\ ~waits[r] /\ order[r].op = op /\ Allowed(r)

Answers(r, s) == Respond(r, s) /\ UNCHANGED <<letters, cuts, admin>>

\* The handler raises after what it has committed.
Breaks(r) ==
  /\ cuts < MaxCuts
  /\ cuts' = cuts + 1
  /\ Raise(r)
  /\ UNCHANGED <<letters, admin>>

Reject(r) ==
  /\ phase[r] = "running" /\ ~waits[r]
  /\ order[r].op # "register" => ~Allowed(r)
  /\ Answers(r, "client_error")
  /\ UNCHANGED <<rows, waits, issued, spent>>

\* The handler raises before it commits anything.
Fails(r) ==
  /\ Breaks(r)
  /\ UNCHANGED <<rows, waits, issued, spent>>

\* Bug form: only the sender's row of the ledger is written.
BugTransferred(o) ==
  [ledger EXCEPT ![o.user]["transfer_out"] = @ - o.amount]

Transferred(o) ==
  [ledger EXCEPT ![o.user]["transfer_out"] = @ - o.amount,
                 ![o.to]["transfer_in"] = @ + o.amount]

\* transfer_balance is one transaction: both balances and both ledger rows.
Transfer(r) ==
  LET o == order[r] IN
  /\ Runs(r, "transfer")
  /\ balance' = [balance EXCEPT ![o.user] = @ - o.amount, ![o.to] = @ + o.amount]
  /\ ledger'  = Transferred(o)
  /\ spent'   = spent \cup {r}
  /\ Answers(r, "ok")
  /\ UNCHANGED <<account, secret, handle, escrow, waits, issued>>

\* create_bounty: the debit, then the bounty.
Lock(r, inserted) ==
  LET o == order[r] IN
  /\ Runs(r, "bounty")
  /\ balance' = [balance EXCEPT ![o.user] = @ - o.amount]
  /\ ledger'  = [ledger EXCEPT ![o.user]["escrow_lock"] = @ - o.amount]
  /\ escrow'  = escrow + inserted
  /\ spent'   = spent \cup {r}
  /\ UNCHANGED <<account, secret, handle, waits, issued>>

CreateBounty(r)    == Lock(r, order[r].amount) /\ Answers(r, "ok")
CreateBountyCut(r) == Lock(r, 0) /\ Breaks(r)

\* Bug form: the new key is generated and answered, but not saved.
BugWithNewKey(u) == secret

\* update_api_key and update_user_api_key: the old key is void at once.
WithNewKey(u) == [secret EXCEPT ![u] = @ + 1]

\* The new key is in the response only.
ResetKey(r) ==
  LET u == order[r].user IN
  /\ Runs(r, "reset_key")
  /\ secret' = WithNewKey(u)
  /\ issued' = [issued EXCEPT ![r] = secret[u] + 1]
  /\ Answers(r, "ok")
  /\ UNCHANGED <<account, balance, handle, ledger, escrow, waits, spent>>

ResetSandboxBalance(r) ==
  /\ Runs(r, "sandbox_reset")
  /\ balance' = [balance EXCEPT ![order[r].user] = SandboxBalance]
  /\ Answers(r, "ok")
  /\ UNCHANGED <<account, secret, handle, ledger, escrow, waits, issued, spent>>

\* create_user, then the display name.
Registers(r) ==
  LET u == order[r].user IN
  /\ Runs(r, "register")
  /\ account' = [account EXCEPT
       ![u] = IF u \in Sandboxes \cup Humans THEN "claimed" ELSE "pending"]
  /\ balance' = [balance EXCEPT ![u] = Opening(u)]
  /\ secret'  = [secret EXCEPT ![u] = 1]
  /\ issued'  = [issued EXCEPT ![r] = 1]
  /\ UNCHANGED <<handle, ledger, escrow, waits, spent>>

Register(r)    == Registers(r) /\ Answers(r, "ok")
RegisterCut(r) == Registers(r) /\ Breaks(r)

\* claim_agent checks the account, then waits for the tweet.
ClaimFetches(r) ==
  /\ Runs(r, "claim")
  /\ waits' = [waits EXCEPT ![r] = TRUE]
  /\ UNCHANGED <<idemVars, rows, letters, issued, spent, cuts, admin>>

\* The tweet lacks the code or is gone; or Twitter fails or times out.
ClaimDenied(r) ==
  /\ phase[r] = "running" /\ waits[r]
  /\ \E s \in {"client_error", "server_error"} : Answers(r, s)
  /\ UNCHANGED <<rows, waits, issued, spent>>

\* Bug form: the row is written whether it is still there or not.
BugRowOf(u) == TRUE

\* An UPDATE of a row that was deleted meanwhile changes nothing.
RowOf(u) == Exists(u)

ClaimStatus(r) ==
  LET u == order[r].user IN
  /\ phase[r] = "running" /\ waits[r]
  /\ account' = IF RowOf(u) THEN [account EXCEPT ![u] = "claimed"] ELSE account
  /\ UNCHANGED <<balance, secret, ledger, escrow, waits, issued, spent>>

\* The status, then the handle, which is the `to` of the order.  The account is
\* not looked at again after the wait.
ClaimEnds(r) ==
  LET u == order[r].user IN
  /\ ClaimStatus(r)
  /\ handle' = IF RowOf(u) THEN [handle EXCEPT ![u] = order[r].to] ELSE handle
  /\ Answers(r, "ok")

ClaimEndsCut(r) == ClaimStatus(r) /\ UNCHANGED handle /\ Breaks(r)

-----------------------------------------------------------------------------
(* The admin endpoints, which clients do not retry, and what is left.      *)

Administers ==
  /\ admin < MaxAdmin
  /\ admin' = admin + 1
  /\ UNCHANGED <<idemVars, order, token, got, waits, issued, spent, cuts>>

\* Rows of u that the deletion does not clear, and whose foreign key forbids it:
\* those of the ledger.  Who has made a bounty has one there.
Referenced(u) == \E t \in TxTypes : ledger[u][t] # 0

AdminDeleteUser(u) ==
  /\ Exists(u) /\ ~Referenced(u)
  /\ account' = [account EXCEPT ![u] = "deleted"]
  /\ Administers
  /\ UNCHANGED <<balance, secret, handle, ledger, escrow, known>>

\* The administrator hands the new key over.
AdminRegenerateKey(u) ==
  /\ Exists(u) /\ secret[u] < MaxSecrets
  /\ secret' = WithNewKey(u)
  /\ known'  = [known EXCEPT ![u] = @ \cup {secret[u] + 1}]
  /\ Administers
  /\ UNCHANGED <<account, balance, handle, ledger, escrow>>

ServerSteps ==
  /\ (\E r \in Attempts : Conclude(r)) \/ Tick \/ Restart
  /\ UNCHANGED <<rows, letters, waits, issued, spent, cuts, admin>>

Handles(r) ==
  \/ Reject(r) \/ Fails(r)
  \/ Transfer(r) \/ CreateBounty(r) \/ CreateBountyCut(r)
  \/ ResetKey(r) \/ ResetSandboxBalance(r)
  \/ Register(r) \/ RegisterCut(r)
  \/ ClaimFetches(r) \/ ClaimDenied(r) \/ ClaimEnds(r) \/ ClaimEndsCut(r)

Next ==
  \/ \E r \in Attempts :
       \/ \E o \in Orders, n \in 0..MaxSecrets : Send(r, o, n)
       \/ Handles(r) \/ Deliver(r)
  \/ \E u \in Users : AdminDeleteUser(u) \/ AdminRegenerateKey(u)
  \/ ServerSteps

Spec == Init /\ [][Next]_accVars

-----------------------------------------------------------------------------
(* Correctness.                                                            *)

TypeOK ==
  /\ IdemTypeOK
  /\ account \in [Users -> {"none", "pending", "claimed", "deleted"}]
  /\ balance \in [Users -> Int]
  /\ secret \in [Users -> 0..MaxSecrets]
  /\ \A u \in Users : account[u] # "none" <=> secret[u] > 0
  /\ DOMAIN known = Users /\ \A u \in Users : known[u] \subseteq 1..secret[u]
  /\ spent \subseteq Attempts

\* Points move, and are neither made nor lost: balances are what the ledger
\* says, nobody owes, every transfer was taken from one account and given to
\* another, and what was locked is in a bounty unless a handler broke off.
BooksAgree ==
  LET Total(t) == SumFunction([u \in Users |-> ledger[u][t]]) IN
  /\ \A u \in Users \ Sandboxes : account[u] \in {"pending", "claimed"} =>
       balance[u] = StartBalance + SumFunction(ledger[u])
  /\ \A u \in Users : balance[u] >= 0
  /\ Total("transfer_in") + Total("transfer_out") = 0
  /\ cuts = 0 => escrow + Total("escrow_lock") = 0

\* The idempotency key of a registration or a key reset saves the account: if
\* the client does not know the valid API key, its order can still be sent
\* again and is answered with that key, until the response expires; or the
\* answer is on its way; or the process or the handler broke off.
KeyRecoverable ==
  \A u \in Users : Exists(u) /\ secret[u] \notin known[u] =>
    \E r \in Attempts :
      /\ order[r] # None /\ order[r].user = u /\ issued[r] = secret[u]
      /\ \/ phase[r] \in {"responded", "failed"}
         \/ key[r] \in excused \cup {None}
         \/ now > ended[r] + Ttl
         \/ LET k == Scoped(order[r], token[r]) IN
            Found(k) /\ ~store[k].in_progress /\ store[k].by = r

\* A deleted account stays deleted and keeps its books, also when a claim that
\* was waiting for its tweet goes on.
DeletedStays ==
  \A u \in Users : account[u] = "deleted" =>
    /\ account'[u] = "deleted"
    /\ UNCHANGED <<balance[u], ledger[u], handle[u], secret[u]>>

DeletedIsFinal == [][DeletedStays]_accVars

\* An order that is sent again, with the API key and the idempotency key it was
\* sent with before, is paid once: two attempts that both took points are one
\* Ttl apart, if neither broke off, the process lived and no marker timed out.
RetriesSpendOnce ==
  \A r, q \in spent :
    /\ r # q /\ order[r] = order[q] /\ token[r] = token[q]
    /\ order[r].keyed /\ key[r] \notin excused
    /\ phase[r] # "failed" /\ phase[q] # "failed"
    => \/ phase[q] = "answered" /\ began[r] > ended[q] + Ttl
       \/ phase[r] = "answered" /\ began[q] > ended[r] + Ttl

\* What the header of idempotency.py promises: no retry spends twice.  Two
\* attempts with one key that both took points are one Ttl apart, or the
\* process died or a marker timed out between them.
SpentOnce ==
  \A r, q \in spent :
    /\ r # q
    /\ key[r] = key[q] /\ key[r] \in Keys \ excused
    => began[r] > ended[q] + Ttl \/ began[q] > ended[r] + Ttl
=============================================================================
