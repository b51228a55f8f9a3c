--------------------------- MODULE AccountsProofs ---------------------------
(***************************************************************************)
(* The accounts behind the idempotency middleware: every step of Accounts  *)
(* is, for the middleware, a step of Idempotency or none, so that what     *)
(* IdempotencyProofs shows holds of the handlers of this program too.  A   *)
(* deleted account stays deleted, whatever was under way; the books agree; *)
(* a client that lost its API key can ask for it again; and an order that  *)
(* is sent again is paid once.                                             *)
(***************************************************************************)
EXTENDS Accounts, IdempotencyProofs, Lemmas

\* The attempts and the orders they carry.
LettersMatch ==
  /\ order \in [Attempts -> Orders \cup {None}]
  /\ \A r \in Attempts :
       /\ phase[r] = "idle" <=> order[r] = None
       /\ key[r] \in Keys => order[r] = key[r][2]
       /\ phase[r] = "replayed" => key[r] \in Keys
       /\ phase[r] = "answered" => reply[r] = r

\* The rows of the users.
RowsTyped ==
  /\ account \in [Users -> {"none", "pending", "claimed", "deleted"}]
  /\ balance \in [Users -> Int]
  /\ secret \in [Users -> 0..MaxSecrets]
  /\ DOMAIN handle = Users /\ DOMAIN ledger = Users
  /\ \A u \in Users : account[u] # "none" <=> secret[u] > 0

\* API keys in responses, and those clients know, were issued to that user.
KeysWereIssued ==
  /\ issued \in [Attempts -> 0..MaxSecrets]
  /\ \A r \in Attempts : issued[r] > 0 =>
       order[r] # None /\ issued[r] <= secret[order[r].user]
  /\ DOMAIN known = Users /\ \A u \in Users : known[u] \subseteq 1..secret[u]
  /\ spent \subseteq Attempts

AccInv == IdemInv /\ LettersMatch /\ RowsTyped /\ KeysWereIssued

-----------------------------------------------------------------------------
LEMMA OrderTypes ==
  ASSUME NEW o \in Orders
  PROVE  /\ o # None /\ o.user \in Users /\ o.amount \in Nat
         /\ o.op = "transfer" => o.to \in Users
         /\ MaxSecrets \in Nat \ {0}
BY AccountsAssumption

\* A running handler has an order.
LEMMA RunningHasOrder ==
  ASSUME AccInv, NEW r \in Attempts, phase[r] = "running"
  PROVE  order[r] \in Orders /\ order[r].user \in Users
BY OrderTypes DEF AccInv, LettersMatch

\* An API key a client knows makes a key of the middleware.
LEMMA ScopedIsKey ==
  ASSUME AccInv, NEW o \in Orders, NEW n \in 0..MaxSecrets,
         IF o.op \in Public THEN n = 0 ELSE n \in known[o.user]
  PROVE  Scoped(o, n) \in Keys /\ Scoped(o, n)[2] = o
<1>1. o.op \notin Public => n # 0
  <2> SUFFICES ASSUME o.op \notin Public PROVE n # 0
    OBVIOUS
  <2>1. n \in 1..secret[o.user] /\ secret[o.user] \in Nat
    BY OrderTypes DEF AccInv, KeysWereIssued, RowsTyped
  <2> QED
    BY <2>1
<1>2. Scoped(o, n) = <<n, o>>
  BY DEF Scoped
<1>3. n = 0 <=> o.op \in Public
  BY <1>1
<1> QED
  BY <1>2, <1>3, AccountsAssumption

-----------------------------------------------------------------------------
(* What each step is to the middleware.                                    *)

IdemStep == IdemNext \/ UNCHANGED idemVars

LEMMA SendIsIdemStep ==
  ASSUME AccInv, NEW r \in Attempts, NEW o \in Orders, NEW n \in 0..MaxSecrets,
         Send(r, o, n)
  PROVE  IdemStep
<1>1. CASE o.keyed
  <2>1. PICK k \in Keys : Begin(r, k) \/ Replay(r, k) \/ Refuse(r, k)
    BY <1>1, ScopedIsKey DEF Send
  <2> QED
    BY <2>1 DEF IdemStep, IdemNext, Dispatch
<1>2. CASE ~o.keyed
  BY <1>2 DEF Send, IdemStep, IdemNext, Dispatch
<1> QED
  BY <1>1, <1>2

\* A handler responds, raises, or waits.
LEMMA HandlesIsIdemStep ==
  ASSUME NEW r \in Attempts, Handles(r)
  PROVE  /\ \/ \E c \in Statuses \ {"none"} : Respond(r, c)
            \/ Raise(r)
            \/ UNCHANGED idemVars
         /\ phase[r] = "running"
         /\ UNCHANGED letters
<1>1. CASE Reject(r)
  BY <1>1 DEF Reject, Answers, Statuses
<1>2. CASE Fails(r)
  BY <1>2 DEF Fails, Breaks, Raise
<1>3. CASE Transfer(r)
  BY <1>3 DEF Transfer, Runs, Answers, Statuses
<1>4. CASE CreateBounty(r)
  BY <1>4 DEF CreateBounty, Lock, Runs, Answers, Statuses
<1>5. CASE CreateBountyCut(r)
  BY <1>5 DEF CreateBountyCut, Lock, Runs, Breaks
<1>6. CASE ResetKey(r)
  BY <1>6 DEF ResetKey, Runs, Answers, Statuses
<1>7. CASE ResetSandboxBalance(r)
  BY <1>7 DEF ResetSandboxBalance, Runs, Answers, Statuses
<1>8. CASE Register(r)
  BY <1>8 DEF Register, Registers, Runs, Answers, Statuses
<1>9. CASE RegisterCut(r)
  BY <1>9 DEF RegisterCut, Registers, Runs, Breaks
<1>10. CASE ClaimFetches(r)
  BY <1>10 DEF ClaimFetches, Runs
<1>11. CASE ClaimDenied(r)
  BY <1>11 DEF ClaimDenied, Answers, Statuses
<1>12. CASE ClaimEnds(r)
  BY <1>12 DEF ClaimEnds, ClaimStatus, Answers, Statuses
<1>13. CASE ClaimEndsCut(r)
  BY <1>13 DEF ClaimEndsCut, ClaimStatus, Breaks
<1> QED
  BY <1>1, <1>2, <1>3, <1>4, <1>5, <1>6, <1>7, <1>8, <1>9, <1>10, <1>11, <1>12,
     <1>13 DEF Handles

\* Every step of Accounts is a step of Idempotency, or stutters there.
LEMMA StepIsIdemStep ==
  ASSUME AccInv, [Next]_accVars
  PROVE  [IdemNext]_idemVars
<1>1. CASE UNCHANGED accVars
  BY <1>1 DEF accVars
<1>2. ASSUME NEW r \in Attempts, NEW o \in Orders, NEW n \in 0..MaxSecrets,
             Send(r, o, n)
      PROVE  IdemStep
  BY <1>2, SendIsIdemStep
<1>3. ASSUME NEW r \in Attempts, Handles(r) PROVE IdemStep
  BY <1>3, HandlesIsIdemStep DEF IdemStep, IdemNext, Dispatch
<1>4. ASSUME NEW r \in Attempts, Deliver(r) PROVE IdemStep
  BY <1>4 DEF Deliver, IdemStep
<1>5. ASSUME NEW u \in Users, AdminDeleteUser(u) \/ AdminRegenerateKey(u)
      PROVE  IdemStep
  BY <1>5 DEF AdminDeleteUser, AdminRegenerateKey, Administers, IdemStep
<1>6. CASE ServerSteps
  BY <1>6 DEF ServerSteps, IdemStep, IdemNext, Dispatch
<1> QED
  BY <1>1, <1>2, <1>3, <1>4, <1>5, <1>6 DEF Next, IdemStep

-----------------------------------------------------------------------------
(* The attempts carry their orders.                                        *)

\* Only Send changes what an attempt carries.
LEMMA LettersStayMatched ==
  ASSUME AccInv, UNCHANGED <<order, key>>,
         \A r \in Attempts :
           /\ phase'[r] = "idle" <=> phase[r] = "idle"
           /\ phase'[r] = "replayed" => phase[r] = "replayed"
           /\ phase'[r] = "answered" =>
                reply'[r] = r \/ (phase[r] = "answered" /\ reply'[r] = reply[r])
  PROVE  LettersMatch'
BY DEF AccInv, LettersMatch

\* What the steps inside the middleware do to the phases.
LEMMA MiddlewareSteps ==
  ASSUME IdemTypeOK, NEW r \in Attempts,
         \/ \E c \in Statuses \ {"none"} : Respond(r, c)
         \/ Raise(r) \/ Conclude(r) \/ Tick \/ Restart \/ UNCHANGED idemVars
  PROVE  /\ UNCHANGED key
         /\ \A q \in Attempts :
              /\ phase'[q] = "idle" <=> phase[q] = "idle"
              /\ phase'[q] = "replayed" => phase[q] = "replayed"
              /\ phase'[q] = "answered" =>
                   reply'[q] = q \/ (phase[q] = "answered" /\ reply'[q] = reply[q])
<1>1. CASE \E c \in Statuses \ {"none"} : Respond(r, c)
  BY <1>1 DEF Respond, IdemTypeOK
<1>2. CASE Raise(r)
  BY <1>2 DEF Raise, IdemTypeOK
<1>3. CASE Conclude(r)
  BY <1>3 DEF Conclude, IdemTypeOK
<1>4. CASE Tick \/ UNCHANGED idemVars
  BY <1>4 DEF Tick, idemVars, clients
<1>5. CASE Restart
  BY <1>5 DEF Restart, InFlight
<1> QED
  BY <1>1, <1>2, <1>3, <1>4, <1>5

LEMMA SendMatchesLetters ==
  ASSUME AccInv, NEW r \in Attempts, NEW o \in Orders, NEW n \in 0..MaxSecrets,
         Send(r, o, n)
  PROVE  LettersMatch'
<1>1. /\ order' = [order EXCEPT ![r] = o]
      /\ order \in [Attempts -> Orders \cup {None}] /\ o # None
  BY OrderTypes DEF Send, AccInv, LettersMatch
<1>2. order' \in [Attempts -> Orders \cup {None}] /\ order'[r] = o
      /\ \A q \in Attempts \ {r} : order'[q] = order[q]
  BY <1>1
<1>3. IdemTypeOK
  BY DEF AccInv, IdemInv
<1>4. \A q \in Attempts \ {r} :
        phase'[q] = phase[q] /\ key'[q] = key[q] /\ reply'[q] = reply[q]
  <2>1. ASSUME NEW k, Begin(r, k) \/ Replay(r, k) \/ Refuse(r, k)
        PROVE  \A q \in Attempts \ {r} :
                 phase'[q] = phase[q] /\ key'[q] = key[q] /\ reply'[q] = reply[q]
    BY <1>3, <2>1 DEF Begin, Replay, Refuse, IdemTypeOK
  <2>2. CASE PassThrough(r)
    BY <1>3, <2>2 DEF PassThrough, IdemTypeOK
  <2> QED
    BY <2>1, <2>2 DEF Send
<1>5. /\ phase'[r] \in {"running", "replayed", "refused"}
      /\ key'[r] \in Keys => o = key'[r][2]
      /\ phase'[r] = "replayed" => key'[r] \in Keys
  <2>1. CASE o.keyed
    <3> DEFINE k == Scoped(o, n)
    <3>1. k \in Keys /\ k[2] = o
      BY ScopedIsKey DEF Send
    <3>2. Begin(r, k) \/ Replay(r, k) \/ Refuse(r, k)
      BY <2>1 DEF Send
    <3>3. key'[r] = k /\ phase'[r] \in {"running", "replayed", "refused"}
      <4> HIDE DEF k
      <4> QED
        BY <1>3, <3>2 DEF Begin, Replay, Refuse, IdemTypeOK
    <3> QED
      BY <3>1, <3>3
  <2>2. CASE ~o.keyed
    <3>1. PassThrough(r)
      BY <2>2 DEF Send
    <3>2. key'[r] = None /\ phase'[r] = "running"
      BY <1>3, <3>1 DEF PassThrough, AccInv, IdemInv, IdemTypeOK, IdleHaveNoKey
    <3> QED
      BY <3>2, NoneAssumption
  <2> QED
    BY <2>1, <2>2
<1> QED
  BY <1>1, <1>2, <1>4, <1>5 DEF LettersMatch, AccInv

LEMMA StepMatchesLetters ==
  ASSUME AccInv, [Next]_accVars
  PROVE  LettersMatch'
<1>1. IdemTypeOK
  BY DEF AccInv, IdemInv
<1>2. CASE UNCHANGED accVars
  BY <1>2 DEF accVars, idemVars, clients, letters, AccInv, LettersMatch
<1>3. ASSUME NEW r \in Attempts, NEW o \in Orders, NEW n \in 0..MaxSecrets,
             Send(r, o, n)
      PROVE  LettersMatch'
  BY <1>3, SendMatchesLetters
<1>4. ASSUME NEW r \in Attempts, Handles(r) PROVE LettersMatch'
  <2>1. UNCHANGED <<order, key>>
    BY <1>1, <1>4, HandlesIsIdemStep, MiddlewareSteps DEF letters
  <2> QED
    BY <1>1, <1>4, <2>1, HandlesIsIdemStep, MiddlewareSteps, LettersStayMatched
<1>5. ASSUME NEW r \in Attempts, Deliver(r) PROVE LettersMatch'
  BY <1>5 DEF Deliver, idemVars, clients, AccInv, LettersMatch
<1>6. ASSUME NEW u \in Users, AdminDeleteUser(u) \/ AdminRegenerateKey(u)
      PROVE  LettersMatch'
  BY <1>6 DEF AdminDeleteUser, AdminRegenerateKey, Administers, idemVars, clients,
              AccInv, LettersMatch
<1>7. CASE ServerSteps
  <2>1. UNCHANGED order
    BY <1>7 DEF ServerSteps, letters
  <2>2. ASSUME NEW r \in Attempts, Conclude(r) PROVE LettersMatch'
    BY <1>1, <2>1, <2>2, MiddlewareSteps, LettersStayMatched
  <2>3. CASE Tick
    BY <2>1, <2>3 DEF Tick, clients, AccInv, LettersMatch
  <2>4. CASE Restart
    BY <2>1, <2>4 DEF Restart, InFlight, AccInv, LettersMatch
  <2> QED
    BY <1>7, <2>2, <2>3, <2>4 DEF ServerSteps
<1> QED
  BY <1>2, <1>3, <1>4, <1>5, <1>6, <1>7 DEF Next

-----------------------------------------------------------------------------
(* The rows, the API keys, and the rows of the deleted.                    *)

\* A step keeps the rows, the API keys, and the rows of the deleted.
RowStep == RowsTyped' /\ KeysWereIssued' /\ DeletedStays

\* Steps that leave the rows and the API keys alone.
LEMMA QuietStep ==
  ASSUME AccInv, UNCHANGED <<rows, issued, known, spent>>,
         \A r \in Attempts : order[r] # None => order'[r] = order[r]
  PROVE  RowStep
<1>1. \A r \in Attempts : issued[r] > 0 => order'[r] = order[r]
  BY DEF AccInv, KeysWereIssued
<1>2. KeysWereIssued'
  BY <1>1 DEF rows, AccInv, KeysWereIssued
<1> QED
  BY <1>2 DEF rows, RowStep, DeletedStays, AccInv, RowsTyped

\* A transfer, the locking of points and a sandbox reset touch no API key and
\* only the rows of users whose accounts exist.
LEMMA PointsStep ==
  ASSUME AccInv, NEW r \in Attempts,
         Transfer(r) \/ CreateBounty(r) \/ CreateBountyCut(r) \/ ResetSandboxBalance(r)
  PROVE  RowStep
<1> DEFINE o == order[r]
<1>1. o \in Orders /\ o.user \in Users /\ o.amount \in Int /\ SandboxBalance \in Int
      /\ (o.op = "transfer" => o.to \in Users)
  <2>1. phase[r] = "running"
    BY DEF Transfer, CreateBounty, CreateBountyCut, Lock, ResetSandboxBalance, Runs
  <2> QED
    BY <2>1, RunningHasOrder, OrderTypes, AccountsAssumption
<1>2. /\ UNCHANGED <<account, secret, handle, issued, known, order>>
      /\ spent' \subseteq spent \cup {r}
  BY DEF Transfer, CreateBounty, CreateBountyCut, Lock, ResetSandboxBalance, Answers,
         Breaks, letters
<1>3. /\ balance' \in [Users -> Int] /\ DOMAIN ledger' = Users
      /\ \A u \in Users : account[u] = "deleted" =>
           balance'[u] = balance[u] /\ ledger'[u] = ledger[u]
  <2>1. balance \in [Users -> Int] /\ DOMAIN ledger = Users
    BY DEF AccInv, RowsTyped
  <2>2. CASE Transfer(r)
    <3>1. o.op = "transfer" /\ Exists(o.user) /\ account[o.to] = "claimed"
      BY <2>2 DEF Transfer, Runs, Allowed, Pays, Authorized
    <3>2. o.to \in Users
      BY <1>1, <3>1
    <3>3. balance' = [balance EXCEPT ![o.user] = @ - o.amount, ![o.to] = @ + o.amount]
      BY <2>2 DEF Transfer
    <3>4. \A u \in Users \ {o.user, o.to} : ledger'[u] = ledger[u]
      BY <2>1, <2>2 DEF Transfer, Transferred
    <3>5. DOMAIN ledger' = Users
      BY <2>1, <2>2 DEF Transfer, Transferred
    <3> QED
      BY <1>1, <2>1, <3>1, <3>2, <3>3, <3>4, <3>5 DEF Exists
  <2>3. CASE CreateBounty(r) \/ CreateBountyCut(r)
    <3>1. Exists(o.user)
      BY <2>3 DEF CreateBounty, CreateBountyCut, Lock, Runs, Allowed, Pays, Authorized
    <3>2. /\ balance' = [balance EXCEPT ![o.user] = @ - o.amount]
          /\ ledger' = [ledger EXCEPT ![o.user]["escrow_lock"] = @ - o.amount]
      BY <2>3 DEF CreateBounty, CreateBountyCut, Lock
    <3> QED
      BY <1>1, <2>1, <3>1, <3>2 DEF Exists
  <2>4. CASE ResetSandboxBalance(r)
    <3>1. Exists(o.user)
      BY <2>4 DEF ResetSandboxBalance, Runs, Allowed, Authorized
    <3>2. /\ balance' = [balance EXCEPT ![o.user] = SandboxBalance]
          /\ ledger' = ledger
      BY <2>4 DEF ResetSandboxBalance
    <3> QED
      BY <1>1, <2>1, <3>1, <3>2 DEF Exists
  <2> QED
    BY <2>2, <2>3, <2>4
<1>4. RowsTyped'
  BY <1>2, <1>3 DEF AccInv, RowsTyped
<1>5. KeysWereIssued'
  BY <1>2 DEF AccInv, KeysWereIssued
<1> QED
  BY <1>2, <1>3, <1>4, <1>5 DEF RowStep, DeletedStays

\* A new API key is one more than the last, for a user whose account exists.
LEMMA ResetKeyStep ==
  ASSUME AccInv, NEW r \in Attempts, ResetKey(r)
  PROVE  RowStep
<1> DEFINE u == order[r].user
<1>1. /\ order[r] \in Orders /\ order[r] # None /\ u \in Users
      /\ Exists(u) /\ secret[u] < MaxSecrets /\ MaxSecrets \in Nat
  BY RunningHasOrder, OrderTypes DEF ResetKey, Runs, Allowed, Authorized
<1>2. /\ UNCHANGED <<account, balance, handle, ledger, known, order, spent>>
      /\ secret' = [secret EXCEPT ![u] = @ + 1]
      /\ issued' = [issued EXCEPT ![r] = secret[u] + 1]
  BY DEF ResetKey, WithNewKey, Answers, letters
<1>3. /\ secret' \in [Users -> 0..MaxSecrets]
      /\ \A v \in Users : secret'[v] >= secret[v]
      /\ secret'[u] = secret[u] + 1 /\ secret[u] > 0
      /\ \A v \in Users \ {u} : secret'[v] = secret[v]
  BY <1>1, <1>2 DEF AccInv, RowsTyped, Exists
<1>4. RowsTyped'
  BY <1>2, <1>3 DEF AccInv, RowsTyped
<1>5. KeysWereIssued'
  <2>1. issued' \in [Attempts -> 0..MaxSecrets]
    BY <1>1, <1>2, <1>3 DEF AccInv, RowsTyped, KeysWereIssued
  <2>2. ASSUME NEW q \in Attempts, issued'[q] > 0
        PROVE  order[q] # None /\ issued'[q] <= secret'[order[q].user]
    <3>1. CASE q = r
      BY <1>1, <1>2, <1>3, <3>1 DEF AccInv, KeysWereIssued
    <3>2. CASE q # r
      <4>1. issued'[q] = issued[q] /\ issued[q] \in Nat
        BY <1>2, <3>2 DEF AccInv, KeysWereIssued
      <4>2. order[q] # None /\ issued[q] <= secret[order[q].user]
            /\ order[q].user \in Users
        BY <2>2, <4>1, OrderTypes DEF AccInv, KeysWereIssued, LettersMatch
      <4>3. /\ secret[order[q].user] \in Nat /\ secret'[order[q].user] \in Nat
            /\ secret'[order[q].user] >= secret[order[q].user]
        BY <1>3, <4>2 DEF AccInv, RowsTyped
      <4> QED
        BY <4>1, <4>2, <4>3
    <3> QED
      BY <3>1, <3>2
  <2>3. ASSUME NEW v \in Users PROVE known[v] \subseteq 1..secret'[v]
    <3>1. /\ known[v] \subseteq 1..secret[v] /\ secret[v] \in Nat
          /\ secret'[v] \in Nat /\ secret'[v] >= secret[v]
      BY <1>3 DEF AccInv, KeysWereIssued, RowsTyped
    <3> QED
      BY <3>1
  <2> QED
    BY <1>2, <2>1, <2>2, <2>3 DEF AccInv, KeysWereIssued
<1> QED
  BY <1>1, <1>2, <1>3, <1>4, <1>5 DEF RowStep, DeletedStays, Exists

\* The first API key of a user, who had none.
LEMMA RegisterStep ==
  ASSUME AccInv, NEW r \in Attempts, Register(r) \/ RegisterCut(r)
  PROVE  RowStep
<1> DEFINE u == order[r].user
<1>1. /\ order[r] # None /\ u \in Users /\ account[u] = "none"
      /\ MaxSecrets \in Nat \ {0} /\ Opening(u) \in Int
  <2>1. phase[r] = "running" /\ order[r].op = "register" /\ Allowed(r)
    BY DEF Register, RegisterCut, Registers, Runs
  <2>2. order[r] \in Orders
    BY <2>1, RunningHasOrder
  <2>3. account[u] = "none"
    BY <2>1 DEF Allowed
  <2> QED
    BY <2>2, <2>3, OrderTypes, AccountsAssumption DEF Opening
<1>2. /\ UNCHANGED <<handle, ledger, known, order, spent>>
      /\ \E a \in {"claimed", "pending"} : account' = [account EXCEPT ![u] = a]
      /\ balance' = [balance EXCEPT ![u] = Opening(u)]
      /\ secret' = [secret EXCEPT ![u] = 1]
      /\ issued' = [issued EXCEPT ![r] = 1]
  BY DEF Register, RegisterCut, Registers, Answers, Breaks, letters
<1>3. /\ secret' \in [Users -> 0..MaxSecrets] /\ secret[u] = 0 /\ secret'[u] = 1
      /\ \A v \in Users \ {u} : secret'[v] = secret[v]
  BY <1>1, <1>2 DEF AccInv, RowsTyped
<1>4. RowsTyped'
  BY <1>1, <1>2, <1>3 DEF AccInv, RowsTyped
<1>5. KeysWereIssued'
  <2>1. issued' \in [Attempts -> 0..MaxSecrets]
    BY <1>1, <1>2 DEF AccInv, KeysWereIssued
  <2>2. ASSUME NEW q \in Attempts, issued'[q] > 0
        PROVE  order[q] # None /\ issued'[q] <= secret'[order[q].user]
    <3>1. CASE q = r
      BY <1>1, <1>2, <1>3, <3>1 DEF AccInv, KeysWereIssued
    <3>2. CASE q # r
      <4>1. issued'[q] = issued[q] /\ issued[q] \in Nat
        BY <1>2, <3>2 DEF AccInv, KeysWereIssued
      <4>2. order[q] # None /\ issued[q] <= secret[order[q].user]
            /\ order[q].user \in Users
        BY <2>2, <4>1, OrderTypes DEF AccInv, KeysWereIssued, LettersMatch
      <4>3. order[q].user # u
        BY <1>3, <2>2, <4>1, <4>2
      <4> QED
        BY <1>3, <4>1, <4>2, <4>3
    <3> QED
      BY <3>1, <3>2
  <2>3. \A v \in Users : known[v] \subseteq 1..secret'[v]
    BY <1>3 DEF AccInv, KeysWereIssued
  <2> QED
    BY <1>2, <2>1, <2>2, <2>3 DEF AccInv, KeysWereIssued
<1> QED
  BY <1>1, <1>2, <1>3, <1>4, <1>5 DEF RowStep, DeletedStays, AccInv, RowsTyped

\* A claim that waited for its tweet writes the row only if it is still there.
LEMMA ClaimStep ==
  ASSUME AccInv, NEW r \in Attempts, ClaimEnds(r) \/ ClaimEndsCut(r)
  PROVE  RowStep
<1> DEFINE u == order[r].user
<1>1. order[r] \in Orders /\ u \in Users
  BY RunningHasOrder DEF ClaimEnds, ClaimEndsCut, ClaimStatus
<1>2. /\ UNCHANGED <<balance, secret, ledger, issued, known, order, spent>>
      /\ account' = IF Exists(u) THEN [account EXCEPT ![u] = "claimed"] ELSE account
      /\ \/ handle' = handle
         \/ Exists(u) /\ handle' = [handle EXCEPT ![u] = order[r].to]
  BY DEF ClaimEnds, ClaimEndsCut, ClaimStatus, RowOf, Answers, Breaks, letters
<1>3. RowsTyped'
  BY <1>1, <1>2 DEF AccInv, RowsTyped, Exists
<1>4. KeysWereIssued'
  BY <1>2 DEF AccInv, KeysWereIssued
<1>5. DeletedStays
  BY <1>1, <1>2 DEF DeletedStays, AccInv, RowsTyped, Exists
<1> QED
  BY <1>3, <1>4, <1>5 DEF RowStep

LEMMA AdminStep ==
  ASSUME AccInv, NEW u \in Users, AdminDeleteUser(u) \/ AdminRegenerateKey(u)
  PROVE  RowStep
<1>1. /\ Exists(u) /\ UNCHANGED <<balance, handle, ledger, issued, order, spent>>
  BY DEF AdminDeleteUser, AdminRegenerateKey, Administers
<1>2. CASE AdminDeleteUser(u)
  <2>1. /\ account' = [account EXCEPT ![u] = "deleted"]
        /\ UNCHANGED <<secret, known>>
    BY <1>2 DEF AdminDeleteUser
  <2>2. RowsTyped' /\ DeletedStays
    BY <1>1, <2>1 DEF AccInv, RowsTyped, DeletedStays, Exists
  <2>3. KeysWereIssued'
    BY <1>1, <2>1 DEF AccInv, KeysWereIssued
  <2> QED
    BY <2>2, <2>3 DEF RowStep
<1>3. CASE AdminRegenerateKey(u)
  <2>1. /\ account' = account /\ secret' = [secret EXCEPT ![u] = @ + 1]
        /\ known' = [known EXCEPT ![u] = @ \cup {secret[u] + 1}]
        /\ secret[u] < MaxSecrets /\ MaxSecrets \in Nat
    BY <1>3, AccountsAssumption DEF AdminRegenerateKey, WithNewKey
  <2>2. /\ secret' \in [Users -> 0..MaxSecrets] /\ secret[u] > 0
        /\ secret'[u] = secret[u] + 1
        /\ \A v \in Users \ {u} : secret'[v] = secret[v]
        /\ \A v \in Users : secret[v] \in Nat /\ secret'[v] >= secret[v]
    BY <1>1, <2>1 DEF AccInv, RowsTyped, Exists
  <2>3. RowsTyped' /\ DeletedStays
    BY <1>1, <2>1, <2>2 DEF AccInv, RowsTyped, DeletedStays, Exists
  <2>4. ASSUME NEW q \in Attempts, issued[q] > 0
        PROVE  order[q] # None /\ issued[q] <= secret'[order[q].user]
    <3>1. /\ order[q] # None /\ issued[q] <= secret[order[q].user]
          /\ issued[q] \in Nat /\ order[q].user \in Users
      BY <2>4, OrderTypes DEF AccInv, KeysWereIssued, LettersMatch
    <3>2. /\ secret[order[q].user] \in Nat /\ secret'[order[q].user] \in Nat
          /\ secret'[order[q].user] >= secret[order[q].user]
      BY <2>2, <3>1
    <3> QED
      BY <3>1, <3>2
  <2>5. ASSUME NEW v \in Users PROVE known'[v] \subseteq 1..secret'[v]
    <3>1. known[v] \subseteq 1..secret[v] /\ DOMAIN known = Users
      BY DEF AccInv, KeysWereIssued
    <3> QED
      BY <2>1, <2>2, <3>1
  <2>6. KeysWereIssued'
    BY <1>1, <2>1, <2>4, <2>5 DEF AccInv, KeysWereIssued
  <2> QED
    BY <2>3, <2>6 DEF RowStep
<1> QED
  BY <1>2, <1>3

\* An API key reaches the client whose order it answers.
LEMMA DeliverStep ==
  ASSUME AccInv, NEW r \in Attempts, Deliver(r)
  PROVE  RowStep
<1> DEFINE q == reply[r]
<1>1. /\ UNCHANGED <<rows, issued, order, spent>> /\ issued[q] > 0
      /\ \/ known' = known
         \/ known' = [known EXCEPT ![order[r].user] = @ \cup {issued[q]}]
  BY DEF Deliver
<1>2. q \in Attempts /\ order[q] = order[r]
  <2>1. CASE phase[r] = "answered"
    BY <2>1 DEF AccInv, LettersMatch
  <2>2. CASE phase[r] = "replayed"
    BY <2>2 DEF AccInv, LettersMatch, IdemInv, ReplaysAreTrue
  <2> QED
    BY <2>1, <2>2 DEF Deliver
<1>3. /\ order[r] # None /\ order[r].user \in Users
      /\ issued[q] \in 1..secret[order[r].user]
  <2>1. order[r] \in Orders /\ issued[q] <= secret[order[r].user] /\ issued[q] \in Nat
    BY <1>1, <1>2 DEF AccInv, LettersMatch, KeysWereIssued
  <2>2. order[r].user \in Users /\ secret[order[r].user] \in Nat
    BY <2>1, OrderTypes DEF AccInv, RowsTyped
  <2> QED
    BY <1>1, <2>1, <2>2, OrderTypes
<1>4. \A u \in Users : known'[u] \subseteq 1..secret[u]
  BY <1>1, <1>3 DEF AccInv, KeysWereIssued
<1>5. KeysWereIssued'
  BY <1>1, <1>4 DEF rows, AccInv, KeysWereIssued
<1> QED
  BY <1>1, <1>5 DEF rows, RowStep, DeletedStays, AccInv, RowsTyped

LEMMA StepOfRows ==
  ASSUME AccInv, [Next]_accVars
  PROVE  RowStep
<1>1. CASE UNCHANGED accVars
  BY <1>1, QuietStep DEF accVars, letters
<1>2. ASSUME NEW r \in Attempts, NEW o \in Orders, NEW n \in 0..MaxSecrets,
             Send(r, o, n)
      PROVE  RowStep
  <2>1. phase[r] = "idle"
    BY <1>2 DEF Send, Begin, Replay, Refuse, PassThrough
  <2>2. \A q \in Attempts : order[q] # None => order'[q] = order[q]
    BY <1>2, <2>1 DEF Send, AccInv, LettersMatch
  <2> QED
    BY <1>2, <2>2, QuietStep DEF Send
<1>3. ASSUME NEW r \in Attempts, Handles(r) PROVE RowStep
  <2>1. CASE Reject(r) \/ Fails(r) \/ ClaimFetches(r) \/ ClaimDenied(r)
    BY <2>1, QuietStep
    DEF Reject, Fails, ClaimFetches, ClaimDenied, Answers, Breaks, letters
  <2>2. CASE Transfer(r) \/ CreateBounty(r) \/ CreateBountyCut(r)
             \/ ResetSandboxBalance(r)
    BY <2>2, PointsStep
  <2>3. CASE ResetKey(r)
    BY <2>3, ResetKeyStep
  <2>4. CASE Register(r) \/ RegisterCut(r)
    BY <2>4, RegisterStep
  <2>5. CASE ClaimEnds(r) \/ ClaimEndsCut(r)
    BY <2>5, ClaimStep
  <2> QED
    BY <1>3, <2>1, <2>2, <2>3, <2>4, <2>5 DEF Handles
<1>4. ASSUME NEW r \in Attempts, Deliver(r) PROVE RowStep
  BY <1>4, DeliverStep
<1>5. ASSUME NEW u \in Users, AdminDeleteUser(u) \/ AdminRegenerateKey(u)
      PROVE  RowStep
  BY <1>5, AdminStep
<1>6. CASE ServerSteps
  BY <1>6, QuietStep DEF ServerSteps, letters
<1> QED
  BY <1>1, <1>2, <1>3, <1>4, <1>5, <1>6 DEF Next

-----------------------------------------------------------------------------
LEMMA InitEstablishesAccInv == Init => AccInv
<1> SUFFICES ASSUME Init PROVE AccInv
  OBVIOUS
<1>1. IdemInv
  BY IdemInitEstablishesInv DEF Init
<1>2. LettersMatch
  BY NoneAssumption DEF Init, IdemInit, LettersMatch
<1>3. \A u \in Users : Opening(u) \in Int
  BY AccountsAssumption DEF Opening
<1>4. RowsTyped
  BY <1>3, AccountsAssumption DEF Init, RowsTyped
<1>5. KeysWereIssued
  BY AccountsAssumption DEF Init, KeysWereIssued
<1> QED
  BY <1>1, <1>2, <1>4, <1>5 DEF AccInv

LEMMA StepKeepsAccInv == AccInv /\ [Next]_accVars => AccInv' /\ DeletedStays
<1> SUFFICES ASSUME AccInv, [Next]_accVars PROVE AccInv' /\ DeletedStays
  OBVIOUS
<1>1. IdemInv'
  BY StepIsIdemStep, IdemStepKeepsInv DEF AccInv
<1> QED
  BY <1>1, StepMatchesLetters, StepOfRows DEF AccInv, RowStep

\* The invariant the following rest on.
THEOREM AccountsInvariant == Spec => []AccInv
<1>1. Init => AccInv
  BY InitEstablishesAccInv
<1>2. AccInv /\ [Next]_accVars => AccInv'
  BY StepKeepsAccInv
<1> QED
  BY <1>1, <1>2, PTL DEF Spec

\* Clients, handlers, administrators and the network together give the
\* middleware no other behaviour than module Idempotency describes.
THEOREM AccountsImplementIdempotency == Spec => IdemSpec
<1>1. Init => IdemInit
  BY DEF Init
<1>2. AccInv /\ [Next]_accVars => [IdemNext]_idemVars
  BY StepIsIdemStep
<1> QED
  BY <1>1, <1>2, AccountsInvariant, PTL DEF Spec, IdemSpec

\* So the middleware keeps its promises to this program's clients, however
\* their retries, lost replies, key resets and restarts interleave.
THEOREM AccountsRunAtMostOnce ==
  Spec => [](SingleFlight /\ AtMostOnce /\ NoOrphanMarker /\ ReplaysItsOwn)
BY AccountsImplementIdempotency, IdempotencyIsKept, PTL

\* Rows, API keys and attempts keep their types, and no client knows an API
\* key that was never issued to its user.
THEOREM AccountsTypeCorrect == Spec => []TypeOK
<1>1. AccInv => TypeOK
  BY DEF AccInv, IdemInv, RowsTyped, KeysWereIssued, TypeOK
<1> QED
  BY <1>1, AccountsInvariant, PTL

\* A deleted account stays deleted and its rows as they were, whatever was
\* under way when it was deleted.
THEOREM DeletedAccountsStay == Spec => DeletedIsFinal
<1>1. AccInv /\ [Next]_accVars => [DeletedStays]_accVars
  BY StepKeepsAccInv
<1> QED
  BY <1>1, AccountsInvariant, PTL DEF Spec, DeletedIsFinal

-----------------------------------------------------------------------------
(* The books.                                                              *)

Ledgers == [Users -> [TxTypes -> Int]]

\* What the rows of one type add up to.
TotalOf(L, t) == SumFunction([u \in Users |-> L[u][t]])

\* The balance of an account is what its own rows of the ledger say.
RowsAddUp ==
  /\ \A u \in Users : balance[u] >= 0
  /\ \A u \in Users : account[u] = "none" => \A t \in TxTypes : ledger[u][t] = 0
  /\ \A u \in Users \ Sandboxes : account[u] # "none" =>
       balance[u] = StartBalance + SumFunction(ledger[u])

\* What the rows of all accounts add up to.
TotalsAgree ==
  /\ TotalOf(ledger, "transfer_in") + TotalOf(ledger, "transfer_out") = 0
  /\ cuts = 0 => escrow + TotalOf(ledger, "escrow_lock") = 0

BookInv ==
  /\ ledger \in Ledgers /\ escrow \in Int /\ cuts \in Nat
  /\ RowsAddUp /\ TotalsAgree

LEMMA TxTypesAre ==
  /\ IsFiniteSet(TxTypes) /\ IsFiniteSet(Users)
  /\ {"transfer_in", "transfer_out", "escrow_lock"} \subseteq TxTypes
<1>1. TxTypes = {} \cup {"transfer_out"} \cup {"transfer_in"} \cup {"escrow_lock"}
  BY DEF TxTypes
<1>2. IsFiniteSet(TxTypes)
  BY <1>1, FS_EmptySet, FS_AddElement
<1> QED
  BY <1>1, <1>2, AccountsAssumption

LEMMA RowType ==
  "transfer_in" \in TxTypes /\ "transfer_out" \in TxTypes /\ "escrow_lock" \in TxTypes
BY DEF TxTypes

\* No rows add up to nothing.
LEMMA NoRowsAddUp ==
  ASSUME NEW f \in [TxTypes -> Int], \A t \in TxTypes : f[t] = 0
  PROVE  SumFunction(f) = 0
<1>1. f = [t \in TxTypes |-> 0]
  OBVIOUS
<1>2. \A c \in Int : SumFunction([t \in TxTypes |-> c]) = Cardinality(TxTypes) * c
  BY TxTypesAre, SumOfConstant
<1>3. 0 \in Int
  OBVIOUS
<1>4. SumFunction([t \in TxTypes |-> 0]) = Cardinality(TxTypes) * 0
  BY <1>2, <1>3, Zenon
<1>5. Cardinality(TxTypes) \in Nat
  BY TxTypesAre, FS_CardinalityType
<1> QED
  BY <1>1, <1>4, <1>5

\* n written to the row t of u.
Written(L, u, t, n) == [L EXCEPT ![u][t] = @ + n]

\* The sum of its user and the total of its type change by n.
Changes(L, M, u, t, n) ==
  /\ M \in Ledgers
  /\ SumFunction(M[u]) = SumFunction(L[u]) + n
  /\ \A v \in Users : v # u => M[v] = L[v]
  /\ TotalOf(M, t) = TotalOf(L, t) + n
  /\ \A s \in TxTypes \ {t} : TotalOf(M, s) = TotalOf(L, s)
  /\ TotalOf(L, t) \in Int /\ SumFunction(L[u]) \in Int

LEMMA RowWritten ==
  ASSUME NEW L \in Ledgers, NEW u \in Users, NEW t \in TxTypes, NEW n \in Int,
         NEW M, M = Written(L, u, t, n)
  PROVE  Changes(L, M, u, t, n)
<1>1. L[u] \in [TxTypes -> Int] /\ L[u][t] \in Int
  BY DEF Ledgers
<1>2. PICK w : w = L[u][t] + n
  OBVIOUS
<1>3. w \in Int
  BY <1>1, <1>2
<1>4. /\ M[u] = [L[u] EXCEPT ![t] = w]
      /\ \A v \in Users : v # u => M[v] = L[v]
      /\ M \in Ledgers
  BY <1>2, <1>3 DEF Ledgers, Written
<1>5. SumFunction(M[u]) = SumFunction(L[u]) - L[u][t] + w
      /\ SumFunction(L[u]) \in Int
  BY <1>1, <1>3, <1>4, TxTypesAre, SumUpdate
<1>6. PICK f : f = [v \in Users |-> L[v][t]]
  OBVIOUS
<1>7. f \in [Users -> Int] /\ f[u] = L[u][t]
  BY <1>6 DEF Ledgers
<1>8. [v \in Users |-> M[v][t]] = [f EXCEPT ![u] = w]
  BY <1>1, <1>4, <1>6
<1>9. /\ TotalOf(M, t) = SumFunction([f EXCEPT ![u] = w])
      /\ TotalOf(L, t) = SumFunction(f)
  BY <1>6, <1>8 DEF TotalOf
<1>10. SumFunction([f EXCEPT ![u] = w]) = SumFunction(f) - f[u] + w
       /\ SumFunction(f) \in Int
  BY <1>3, <1>7, TxTypesAre, SumUpdate
<1>11. ASSUME NEW s \in TxTypes \ {t} PROVE TotalOf(M, s) = TotalOf(L, s)
  <2>1. [v \in Users |-> M[v][s]] = [v \in Users |-> L[v][s]]
    BY <1>1, <1>4
  <2> QED
    BY <2>1 DEF TotalOf
<1>12. SumFunction(M[u]) = SumFunction(L[u]) + n
  BY <1>1, <1>2, <1>5
<1>13. TotalOf(M, t) = TotalOf(L, t) + n /\ TotalOf(L, t) \in Int
  BY <1>1, <1>2, <1>7, <1>9, <1>10
<1> QED
  BY <1>4, <1>5, <1>11, <1>12, <1>13 DEF Changes
\* Steps that move no points, whatever becomes of an account that is there.
LEMMA QuietBooks ==
  ASSUME BookInv, UNCHANGED <<balance, ledger, escrow>>,
         cuts' = cuts \/ cuts' = cuts + 1,
         \A u \in Users : account'[u] = "none" <=> account[u] = "none"
  PROVE  BookInv'
<1>1. cuts' \in Nat /\ (cuts' = 0 => cuts = 0)
  BY DEF BookInv
<1>2. TotalsAgree'
  BY <1>1 DEF BookInv, TotalsAgree, TotalOf
<1>3. RowsAddUp'
  BY DEF BookInv, RowsAddUp
<1> QED
  BY <1>1, <1>2, <1>3 DEF BookInv

\* Both accounts and both rows of a transfer.
LEMMA TransferBooks ==
  ASSUME AccInv, BookInv, NEW r \in Attempts, Transfer(r)
  PROVE  BookInv'
<1> DEFINE o == order[r]
<1>1. /\ o.op = "transfer" /\ account[o.user] # "none" /\ account[o.to] # "none"
      /\ o.to # o.user /\ balance[o.user] >= o.amount /\ phase[r] = "running"
  BY DEF Transfer, Runs, Allowed, Pays, Authorized, Exists
<1>2. PICK a \in Users, b \in Users, n \in Nat : a = o.user /\ b = o.to /\ n = o.amount
  BY <1>1, RunningHasOrder, OrderTypes
<1>3. a # b /\ account[a] # "none" /\ account[b] # "none" /\ balance[a] >= n
  BY <1>1, <1>2
<1>4. /\ balance' = [balance EXCEPT ![a] = @ - n, ![b] = @ + n]
      /\ ledger' = [ledger EXCEPT ![a]["transfer_out"] = @ - n,
                                  ![b]["transfer_in"] = @ + n]
      /\ UNCHANGED <<account, escrow, cuts>>
  BY <1>2 DEF Transfer, Transferred, Answers
<1>5. PICK L, M, N :
        /\ L = ledger /\ N = ledger'
        /\ M = Written(L, a, "transfer_out", -n)
  OBVIOUS
<1>6. L \in Ledgers /\ balance \in [Users -> Int] /\ -n \in Int /\ n \in Int
  BY <1>5 DEF BookInv, AccInv, RowsTyped
<1>7. /\ M \in Ledgers
      /\ SumFunction(M[a]) = SumFunction(L[a]) + (-n)
      /\ \A v \in Users : v # a => M[v] = L[v]
      /\ TotalOf(M, "transfer_out") = TotalOf(L, "transfer_out") + (-n)
      /\ \A s \in TxTypes \ {"transfer_out"} : TotalOf(M, s) = TotalOf(L, s)
      /\ TotalOf(L, "transfer_out") \in Int /\ SumFunction(L[a]) \in Int
  <2>1. Changes(L, M, a, "transfer_out", -n)
    BY <1>5, <1>6, RowType, RowWritten
  <2> QED
    BY <2>1 DEF Changes
<1>8. N = Written(M, b, "transfer_in", n)
  <2>1. L[a]["transfer_out"] - n = L[a]["transfer_out"] + (-n)
    BY <1>6, RowType DEF Ledgers
  <2> QED
    BY <1>3, <1>4, <1>5, <1>6, <2>1 DEF Ledgers, Written
<1>9. /\ N \in Ledgers
      /\ SumFunction(N[b]) = SumFunction(M[b]) + n
      /\ \A v \in Users : v # b => N[v] = M[v]
      /\ TotalOf(N, "transfer_in") = TotalOf(M, "transfer_in") + n
      /\ \A s \in TxTypes \ {"transfer_in"} : TotalOf(N, s) = TotalOf(M, s)
      /\ TotalOf(M, "transfer_in") \in Int /\ SumFunction(M[b]) \in Int
  <2>1. Changes(M, N, b, "transfer_in", n)
    BY <1>6, <1>7, <1>8, RowType, RowWritten
  <2> QED
    BY <2>1 DEF Changes
<1>10. RowsAddUp'
  <2>1. /\ balance'[a] = balance[a] - n /\ balance'[b] = balance[b] + n
        /\ \A v \in Users \ {a, b} :
             balance'[v] = balance[v] /\ N[v] = L[v]
    BY <1>3, <1>4, <1>6, <1>7, <1>9
  <2>2. N[a] = M[a] /\ M[b] = L[b]
    BY <1>3, <1>7, <1>9
  <2>3. ASSUME NEW u \in Users PROVE balance'[u] >= 0
    BY <1>3, <1>6, <2>1, <2>3 DEF BookInv, RowsAddUp
  <2>4. ASSUME NEW u \in Users, account[u] = "none", NEW t \in TxTypes
        PROVE  N[u][t] = 0
    BY <1>3, <1>5, <2>1, <2>4 DEF BookInv, RowsAddUp
  <2>5. ASSUME NEW u \in Users \ Sandboxes, account[u] # "none"
        PROVE  balance'[u] = StartBalance + SumFunction(N[u])
    <3>1. balance[u] = StartBalance + SumFunction(L[u]) /\ StartBalance \in Nat
      BY <1>5, <2>5, AccountsAssumption DEF BookInv, RowsAddUp
    <3>2. CASE u = a
      BY <1>6, <1>7, <2>1, <2>2, <3>1, <3>2
    <3>3. CASE u = b
      BY <1>6, <1>9, <2>1, <2>2, <3>1, <3>3
    <3>4. CASE u \notin {a, b}
      BY <2>1, <3>1, <3>4
    <3> QED
      BY <3>2, <3>3, <3>4
  <2> QED
    BY <1>4, <1>5, <2>3, <2>4, <2>5 DEF RowsAddUp
<1>11. TotalsAgree'
  <2>1. /\ TotalOf(N, "transfer_in") = TotalOf(L, "transfer_in") + n
        /\ TotalOf(N, "transfer_out") = TotalOf(L, "transfer_out") + (-n)
        /\ TotalOf(N, "escrow_lock") = TotalOf(L, "escrow_lock")
        /\ TotalOf(L, "transfer_in") \in Int
    BY <1>7, <1>9, RowType
  <2>2. PICK i \in Int, j \in Int :
          i = TotalOf(L, "transfer_in") /\ j = TotalOf(L, "transfer_out")
    BY <1>7, <2>1
  <2>3. i + j = 0
    BY <1>5, <2>2 DEF BookInv, TotalsAgree, TotalOf
  <2>4. (i + n) + (j + (-n)) = 0
    BY <2>3
  <2>5. TotalOf(N, "transfer_in") + TotalOf(N, "transfer_out") = 0
    BY <2>1, <2>2, <2>4
  <2> QED
    BY <1>4, <1>5, <2>1, <2>5 DEF BookInv, TotalsAgree, TotalOf
<1> QED
  BY <1>4, <1>5, <1>9, <1>10, <1>11 DEF BookInv

\* What is locked is taken from the account; the bounty may not be inserted.
LEMMA LockBooks ==
  ASSUME AccInv, BookInv, NEW r \in Attempts, CreateBounty(r) \/ CreateBountyCut(r)
  PROVE  BookInv'
<1> DEFINE o == order[r]
<1>1. /\ account[o.user] # "none" /\ balance[o.user] >= o.amount /\ phase[r] = "running"
  BY DEF CreateBounty, CreateBountyCut, Lock, Runs, Allowed, Pays, Authorized, Exists
<1>2. PICK a \in Users, n \in Nat : a = o.user /\ n = o.amount
  BY <1>1, RunningHasOrder, OrderTypes
<1>3. account[a] # "none" /\ balance[a] >= n
  BY <1>1, <1>2
<1>4. /\ balance' = [balance EXCEPT ![a] = @ - n]
      /\ ledger' = [ledger EXCEPT ![a]["escrow_lock"] = @ - n]
      /\ UNCHANGED account
  BY <1>2 DEF CreateBounty, CreateBountyCut, Lock
<1>5. \/ escrow' = escrow + n /\ cuts' = cuts
      \/ escrow' = escrow + 0 /\ cuts' = cuts + 1
  BY <1>2 DEF CreateBounty, CreateBountyCut, Lock, Answers, Breaks
<1>0. PICK L, N : L = ledger /\ N = ledger'
  OBVIOUS
<1>6. /\ L \in Ledgers /\ balance \in [Users -> Int] /\ -n \in Int /\ n \in Int
      /\ escrow \in Int /\ cuts \in Nat
  BY <1>0 DEF BookInv, AccInv, RowsTyped
<1>7. N = Written(L, a, "escrow_lock", -n)
  <2>1. L[a]["escrow_lock"] - n = L[a]["escrow_lock"] + (-n)
    BY <1>6, RowType DEF Ledgers
  <2> QED
    BY <1>4, <1>0, <2>1 DEF Written
<1>8. /\ N \in Ledgers
      /\ SumFunction(N[a]) = SumFunction(L[a]) + (-n)
      /\ \A v \in Users : v # a => N[v] = L[v]
      /\ TotalOf(N, "escrow_lock") = TotalOf(L, "escrow_lock") + (-n)
      /\ \A s \in TxTypes \ {"escrow_lock"} : TotalOf(N, s) = TotalOf(L, s)
      /\ TotalOf(L, "escrow_lock") \in Int /\ SumFunction(L[a]) \in Int
  <2>1. Changes(L, N, a, "escrow_lock", -n)
    BY <1>6, <1>7, RowType, RowWritten
  <2> QED
    BY <2>1 DEF Changes
<1>9. /\ balance'[a] = balance[a] - n
      /\ \A v \in Users \ {a} : balance'[v] = balance[v]
  BY <1>4, <1>6
<1>10. RowsAddUp'
  <2>1. ASSUME NEW u \in Users PROVE balance'[u] >= 0
    BY <1>3, <1>6, <1>9, <2>1 DEF BookInv, RowsAddUp
  <2>2. ASSUME NEW u \in Users, account[u] = "none", NEW t \in TxTypes
        PROVE  N[u][t] = 0
    BY <1>3, <1>8, <1>0, <2>2 DEF BookInv, RowsAddUp
  <2>3. ASSUME NEW u \in Users \ Sandboxes, account[u] # "none"
        PROVE  balance'[u] = StartBalance + SumFunction(N[u])
    <3>1. balance[u] = StartBalance + SumFunction(L[u]) /\ StartBalance \in Nat
      BY <1>0, <2>3, AccountsAssumption DEF BookInv, RowsAddUp
    <3>2. CASE u = a
      BY <1>6, <1>8, <1>9, <3>1, <3>2
    <3>3. CASE u # a
      BY <1>8, <1>9, <3>1, <3>3
    <3> QED
      BY <3>2, <3>3
  <2> QED
    BY <1>4, <1>0, <2>1, <2>2, <2>3 DEF RowsAddUp
<1>11. TotalsAgree'
  <2>1. /\ TotalOf(N, "transfer_in") = TotalOf(L, "transfer_in")
        /\ TotalOf(N, "transfer_out") = TotalOf(L, "transfer_out")
    BY <1>8, RowType
  <2>2. PICK l \in Int : l = TotalOf(L, "escrow_lock")
    BY <1>8
  <2>3. cuts = 0 => escrow + l = 0
    BY <1>0, <2>2 DEF BookInv, TotalsAgree, TotalOf
  <2>4. cuts' = 0 => escrow' + (l + (-n)) = 0
    BY <1>5, <1>6, <2>3
  <2>5. cuts' = 0 => escrow' + TotalOf(N, "escrow_lock") = 0
    BY <1>8, <2>2, <2>4
  <2> QED
    BY <1>0, <2>1, <2>5 DEF BookInv, TotalsAgree, TotalOf
<1>12. escrow' \in Int /\ cuts' \in Nat
  BY <1>5, <1>6
<1> QED
  BY <1>0, <1>8, <1>10, <1>11, <1>12 DEF BookInv

\* A registration opens the books of an account that had none; a reset sets the
\* balance of a sandbox, whose books say nothing of it.
LEMMA OpeningBooks ==
  ASSUME AccInv, BookInv, NEW r \in Attempts,
         Register(r) \/ RegisterCut(r) \/ ResetSandboxBalance(r)
  PROVE  BookInv'
<1>1. phase[r] = "running"
  BY DEF Register, RegisterCut, Registers, ResetSandboxBalance, Runs
<1>2. PICK a \in Users : a = order[r].user
  BY <1>1, RunningHasOrder
<1>3. /\ UNCHANGED <<ledger, escrow>> /\ (cuts' = cuts \/ cuts' = cuts + 1)
  BY DEF Register, RegisterCut, Registers, ResetSandboxBalance, Answers, Breaks
<1>4. /\ \/ /\ account[a] = "none"
            /\ account' = [account EXCEPT
                 ![a] = IF a \in Sandboxes \cup Humans THEN "claimed" ELSE "pending"]
            /\ balance' = [balance EXCEPT ![a] = Opening(a)]
         \/ /\ a \in Sandboxes /\ account' = account
            /\ balance' = [balance EXCEPT ![a] = SandboxBalance]
  BY <1>2 DEF Register, RegisterCut, Registers, ResetSandboxBalance, Runs, Allowed
<1>5. /\ Opening(a) \in Nat /\ SandboxBalance \in Nat
      /\ (a \notin Sandboxes => Opening(a) = StartBalance) /\ StartBalance \in Nat
  BY AccountsAssumption DEF Opening
<1>6. /\ balance \in [Users -> Int] /\ ledger \in Ledgers
      /\ account \in [Users -> {"none", "pending", "claimed", "deleted"}]
  BY DEF AccInv, RowsTyped, BookInv
<1>7. RowsAddUp'
  <2>1. ASSUME NEW u \in Users PROVE balance'[u] >= 0
    BY <1>4, <1>5, <1>6, <2>1 DEF BookInv, RowsAddUp
  <2>2. ASSUME NEW u \in Users, account'[u] = "none", NEW t \in TxTypes
        PROVE  ledger[u][t] = 0
    BY <1>4, <1>6, <2>2 DEF BookInv, RowsAddUp
  <2>3. ASSUME NEW u \in Users \ Sandboxes, account'[u] # "none"
        PROVE  balance'[u] = StartBalance + SumFunction(ledger[u])
    <3>1. CASE u = a
      <4>1. account[u] = "none" /\ balance'[u] = StartBalance
        BY <1>4, <1>5, <1>6, <3>1
      <4>2. \A t \in TxTypes : ledger[u][t] = 0
        BY <4>1 DEF BookInv, RowsAddUp
      <4>3. SumFunction(ledger[u]) = 0
        BY <1>6, <4>2, NoRowsAddUp DEF Ledgers
      <4> QED
        BY <1>5, <4>1, <4>3
    <3>2. CASE u # a
      BY <1>4, <1>6, <2>3, <3>2 DEF BookInv, RowsAddUp
    <3> QED
      BY <3>1, <3>2
  <2> QED
    BY <1>3, <2>1, <2>2, <2>3 DEF RowsAddUp
<1>8. cuts' \in Nat /\ (cuts' = 0 => cuts = 0)
  BY <1>3 DEF BookInv
<1>9. TotalsAgree'
  BY <1>3, <1>8 DEF BookInv, TotalsAgree, TotalOf
<1> QED
  BY <1>3, <1>7, <1>8, <1>9 DEF BookInv

\* A claim, a deletion and everything else move no points.
LEMMA OtherBooks ==
  ASSUME AccInv, BookInv, [Next]_accVars,
         \A r \in Attempts :
           ~(Transfer(r) \/ CreateBounty(r) \/ CreateBountyCut(r)
             \/ Register(r) \/ RegisterCut(r) \/ ResetSandboxBalance(r))
  PROVE  BookInv'
<1>1. /\ UNCHANGED <<balance, ledger, escrow>>
      /\ cuts' = cuts \/ cuts' = cuts + 1
      /\ \/ UNCHANGED account
         \/ \E u \in Users, s \in {"claimed", "deleted"} :
              account[u] # "none" /\ account' = [account EXCEPT ![u] = s]
  <2>1. CASE UNCHANGED accVars
    BY <2>1 DEF accVars, rows
  <2>2. ASSUME NEW r \in Attempts, NEW o \in Orders, NEW n \in 0..MaxSecrets,
               Send(r, o, n)
        PROVE  <1>1!:
    BY <2>2 DEF Send, rows
  <2>3. ASSUME NEW r \in Attempts, Handles(r)
        PROVE  <1>1!:
    <3>1. CASE Reject(r) \/ Fails(r) \/ ResetKey(r) \/ ClaimFetches(r) \/ ClaimDenied(r)
      BY <3>1 DEF Reject, Fails, ResetKey, ClaimFetches, ClaimDenied, Answers, Breaks,
                  rows
    <3>2. CASE ClaimEnds(r) \/ ClaimEndsCut(r)
      <4>1. order[r].user \in Users
        BY <3>2, RunningHasOrder DEF ClaimEnds, ClaimEndsCut, ClaimStatus
      <4> QED
        BY <3>2, <4>1
        DEF ClaimEnds, ClaimEndsCut, ClaimStatus, RowOf, Exists, Answers, Breaks
    <3> QED
      BY <2>3, <3>1, <3>2 DEF Handles
  <2>4. ASSUME NEW r \in Attempts, Deliver(r)
        PROVE  <1>1!:
    BY <2>4 DEF Deliver, rows
  <2>5. ASSUME NEW u \in Users, AdminDeleteUser(u) \/ AdminRegenerateKey(u)
        PROVE  <1>1!:
    BY <2>5 DEF AdminDeleteUser, AdminRegenerateKey, Administers, Exists
  <2>6. CASE ServerSteps
    BY <2>6 DEF ServerSteps, rows
  <2> QED
    BY <2>1, <2>2, <2>3, <2>4, <2>5, <2>6 DEF Next
<1>2. \A u \in Users : account'[u] = "none" <=> account[u] = "none"
  BY <1>1 DEF AccInv, RowsTyped
<1> QED
  BY <1>1, <1>2, QuietBooks

LEMMA InitEstablishesBookInv == Init => BookInv
<1> SUFFICES ASSUME Init PROVE BookInv
  OBVIOUS
<1>1. ledger \in Ledgers /\ escrow \in Int /\ cuts \in Nat
  BY DEF Init, Ledgers
<1>2. \A u \in Users, t \in TxTypes : ledger[u][t] = 0
  BY DEF Init
<1>3. RowsAddUp
  <2>1. \A u \in Users : SumFunction(ledger[u]) = 0
    BY <1>1, <1>2, NoRowsAddUp DEF Ledgers
  <2>2. \A u \in Users : balance[u] >= 0
    BY AccountsAssumption DEF Init, Opening
  <2>3. \A u \in Users \ Sandboxes : account[u] # "none" => balance[u] = StartBalance
    BY DEF Init, Opening
  <2>4. StartBalance \in Nat
    BY AccountsAssumption
  <2> QED
    BY <1>2, <2>1, <2>2, <2>3, <2>4 DEF RowsAddUp
<1>4. \A t \in TxTypes : TotalOf(ledger, t) = 0
  <2> SUFFICES ASSUME NEW t \in TxTypes PROVE TotalOf(ledger, t) = 0
    OBVIOUS
  <2>1. [u \in Users |-> ledger[u][t]] = [u \in Users |-> 0]
    BY <1>2
  <2>2. \A c \in Int : SumFunction([u \in Users |-> c]) = Cardinality(Users) * c
    BY TxTypesAre, SumOfConstant
  <2>3. 0 \in Int
    OBVIOUS
  <2>4. SumFunction([u \in Users |-> 0]) = Cardinality(Users) * 0
    BY <2>2, <2>3, Zenon
  <2>5. Cardinality(Users) \in Nat
    BY TxTypesAre, FS_CardinalityType
  <2> QED
    BY <2>1, <2>4, <2>5 DEF TotalOf
<1>5. TotalsAgree
  BY <1>4, TxTypesAre DEF Init, TotalsAgree
<1> QED
  BY <1>1, <1>3, <1>5 DEF BookInv

LEMMA StepKeepsBookInv == AccInv /\ BookInv /\ [Next]_accVars => BookInv'
BY TransferBooks, LockBooks, OpeningBooks, OtherBooks

\* Points move and are neither made nor lost, whatever interleaves: the balance
\* of an account is what its rows of the ledger say, nobody owes, what transfers
\* took from one account they gave to another, and what was locked is in a
\* bounty unless a handler broke off.
THEOREM AccountBooksAgree == Spec => []BooksAgree
<1>1. Init => BookInv
  BY InitEstablishesBookInv
<1>2. AccInv /\ BookInv /\ [Next]_accVars => BookInv'
  BY StepKeepsBookInv
<1>3. BookInv => BooksAgree
  BY DEF BookInv, RowsAddUp, TotalsAgree, TotalOf, BooksAgree
<1> QED
  BY <1>1, <1>2, <1>3, AccountsInvariant, PTL DEF Spec

-----------------------------------------------------------------------------
(* The API keys in responses.                                              *)

\* A response with an API key in it is one that is stored, unless the handler
\* or the process broke off.
IssuedIsStored ==
  \A r \in Attempts : issued[r] > 0 =>
    phase[r] = "failed" \/ (phase[r] \in {"responded", "answered"} /\ status[r] = "ok")

\* The key of an attempt is that of its order, scoped by the API key sent.
KeysAreScoped ==
  /\ token \in [Attempts -> 0..MaxSecrets]
  /\ \A r \in Attempts : key[r] \in Keys => key[r] = Scoped(order[r], token[r])

\* The valid API key of a user who does not know it is in some response.
SecretsAreIssued ==
  \A u \in Users : secret[u] > 0 /\ secret[u] \notin known[u] =>
    \E r \in Attempts : order[r] # None /\ order[r].user = u /\ issued[r] = secret[u]

KeyInv == IssuedIsStored /\ KeysAreScoped /\ SecretsAreIssued

\* In a response that was sent and has not expired it can be asked for again.
LEMMA KeyInvRecovers == AccInv /\ KeyInv => KeyRecoverable
<1> SUFFICES ASSUME AccInv, KeyInv, NEW u \in Users, Exists(u), secret[u] \notin known[u]
             PROVE  \E r \in Attempts :
                      /\ order[r] # None /\ order[r].user = u /\ issued[r] = secret[u]
                      /\ \/ phase[r] \in {"responded", "failed"}
                         \/ key[r] \in excused \cup {None}
                         \/ now > ended[r] + Ttl
                         \/ LET k == Scoped(order[r], token[r]) IN
                            Found(k) /\ ~store[k].in_progress /\ store[k].by = r
  BY DEF KeyRecoverable
<1>1. secret[u] > 0
  BY DEF Exists, AccInv, RowsTyped
<1>2. PICK r \in Attempts : order[r] # None /\ order[r].user = u /\ issued[r] = secret[u]
  BY <1>1 DEF KeyInv, SecretsAreIssued
<1>3. SUFFICES ASSUME phase[r] \notin {"responded", "failed"},
                      key[r] \notin excused \cup {None}, ~(now > ended[r] + Ttl)
               PROVE  LET k == Scoped(order[r], token[r]) IN
                      Found(k) /\ ~store[k].in_progress /\ store[k].by = r
  BY <1>2
<1>4. Succeeded(r)
  BY <1>1, <1>2, <1>3 DEF KeyInv, IssuedIsStored, Succeeded
<1>5. IdemInv /\ key[r] \in Keys \ excused
  BY <1>3 DEF AccInv, IdemInv, IdemTypeOK
<1>6. Found(key[r])
  BY <1>3, <1>4, <1>5, ResponsesAreFound
<1>7. store[key[r]] = Response(r)
  BY <1>3, <1>4, <1>5 DEF IdemInv, StoredUntilExpiry
<1>8. Response(r).in_progress = FALSE /\ Response(r).by = r
  BY DEF Response
<1>9. key[r] = Scoped(order[r], token[r])
  BY <1>5 DEF KeyInv, KeysAreScoped
<1> QED
  BY <1>6, <1>7, <1>8, <1>9

\* Steps that issue no API key.
LEMMA NothingIssued ==
  ASSUME AccInv, KeyInv, UNCHANGED <<issued, secret, order, token, key>>,
         \A u \in Users : known[u] \subseteq known'[u],
         \A r \in Attempts :
           \/ phase'[r] = phase[r] /\ status'[r] = status[r]
           \/ phase[r] = "running"
           \/ phase[r] = "responded" /\ phase'[r] = "answered" /\ status'[r] = status[r]
           \/ phase'[r] = "failed"
  PROVE  KeyInv'
<1>1. IssuedIsStored'
  BY DEF KeyInv, IssuedIsStored
<1>2. KeysAreScoped'
  BY DEF KeyInv, KeysAreScoped, Scoped
<1>3. SecretsAreIssued'
  BY DEF KeyInv, SecretsAreIssued
<1> QED
  BY <1>1, <1>2, <1>3 DEF KeyInv

LEMMA SendKeepsKeyInv ==
  ASSUME AccInv, KeyInv, NEW r \in Attempts, NEW o \in Orders, NEW n \in 0..MaxSecrets,
         Send(r, o, n)
  PROVE  KeyInv'
<1>1. /\ order' = [order EXCEPT ![r] = o] /\ token' = [token EXCEPT ![r] = n]
      /\ UNCHANGED <<issued, secret, known>> /\ phase[r] = "idle"
  BY DEF Send, rows, Begin, Replay, Refuse, PassThrough
<1>2. /\ order \in [Attempts -> Orders \cup {None}] /\ order[r] = None
      /\ token \in [Attempts -> 0..MaxSecrets] /\ ~(issued[r] > 0)
      /\ IdemTypeOK
  BY <1>1 DEF AccInv, IdemInv, LettersMatch, KeyInv, IssuedIsStored, KeysAreScoped
<1>3. /\ order'[r] = o /\ token'[r] = n
      /\ \A q \in Attempts : q # r => order'[q] = order[q] /\ token'[q] = token[q]
  BY <1>1, <1>2
<1>4. /\ \A q \in Attempts : q # r => key'[q] = key[q] /\ phase'[q] = phase[q]
      /\ status' = status
      /\ key'[r] \in Keys => key'[r] = Scoped(o, n)
  <2>1. CASE o.keyed
    <3>1. PICK k : k = Scoped(o, n)
      OBVIOUS
    <3>2. Begin(r, k) \/ Replay(r, k) \/ Refuse(r, k)
      BY <2>1, <3>1 DEF Send
    <3>3. key' = [key EXCEPT ![r] = k] /\ status' = status
          /\ \E p : phase' = [phase EXCEPT ![r] = p]
      BY <3>2 DEF Begin, Replay, Refuse
    <3> QED
      BY <1>2, <3>1, <3>3 DEF IdemTypeOK
  <2>2. CASE ~o.keyed
    <3>1. PassThrough(r)
      BY <2>2 DEF Send
    <3>2. key' = key /\ status' = status
          /\ \E p : phase' = [phase EXCEPT ![r] = p]
      BY <3>1 DEF PassThrough
    <3>3. key[r] = None
      BY <1>1 DEF AccInv, IdemInv, IdleHaveNoKey
    <3> QED
      BY <1>2, <3>2, <3>3, NoneAssumption DEF IdemTypeOK
  <2> QED
    BY <2>1, <2>2
<1>5. IssuedIsStored'
  BY <1>1, <1>2, <1>4 DEF KeyInv, IssuedIsStored
<1>6. KeysAreScoped'
  <2>1. token' \in [Attempts -> 0..MaxSecrets]
    BY <1>1, <1>2
  <2>2. ASSUME NEW q \in Attempts, key'[q] \in Keys
        PROVE  key'[q] = Scoped(order'[q], token'[q])
    BY <1>3, <1>4, <2>2 DEF KeyInv, KeysAreScoped
  <2>3. \A a, b : Scoped(a, b)' = Scoped(a, b)
    BY DEF Scoped
  <2> QED
    BY <2>1, <2>2 DEF KeysAreScoped, Scoped
<1>7. SecretsAreIssued'
  BY <1>1, <1>2, <1>3 DEF KeyInv, SecretsAreIssued
<1> QED
  BY <1>5, <1>6, <1>7 DEF KeyInv

\* A handler that issues an API key puts it in its response.
LEMMA IssueKeepsKeyInv ==
  ASSUME AccInv, KeyInv, NEW r \in Attempts,
         ResetKey(r) \/ Register(r) \/ RegisterCut(r)
  PROVE  KeyInv'
<1>1. phase[r] = "running"
  BY DEF ResetKey, Register, RegisterCut, Registers, Runs
<1>2. PICK a \in Users : a = order[r].user
  BY <1>1, RunningHasOrder
<1>3. order[r] # None
  BY <1>1, RunningHasOrder, OrderTypes
<1>4. /\ secret \in [Users -> 0..MaxSecrets] /\ issued \in [Attempts -> 0..MaxSecrets]
      /\ IdemTypeOK
  BY DEF AccInv, IdemInv, RowsTyped, KeysWereIssued
<1>5. /\ UNCHANGED <<order, token, known, key>>
      /\ \E c : secret' = [secret EXCEPT ![a] = c] /\ issued' = [issued EXCEPT ![r] = c]
      /\ \/ /\ phase' = [phase EXCEPT ![r] = "responded"]
            /\ status' = [status EXCEPT ![r] = "ok"]
         \/ phase' = [phase EXCEPT ![r] = "failed"] /\ UNCHANGED status
  <2>1. /\ UNCHANGED <<order, token, known, key>>
        /\ \/ /\ phase' = [phase EXCEPT ![r] = "responded"]
              /\ status' = [status EXCEPT ![r] = "ok"]
           \/ phase' = [phase EXCEPT ![r] = "failed"] /\ UNCHANGED status
    BY DEF ResetKey, Register, RegisterCut, Answers, Breaks, letters, Respond, Raise
  <2>2. \E c : secret' = [secret EXCEPT ![a] = c] /\ issued' = [issued EXCEPT ![r] = c]
    BY <1>2, <1>4 DEF ResetKey, WithNewKey, Register, RegisterCut, Registers
  <2> QED
    BY <2>1, <2>2
<1>6. /\ issued'[r] = secret'[a]
      /\ \A q \in Attempts : q # r =>
           issued'[q] = issued[q] /\ phase'[q] = phase[q] /\ status'[q] = status[q]
      /\ \A v \in Users : v # a => secret'[v] = secret[v]
      /\ phase'[r] = "failed" \/ (phase'[r] = "responded" /\ status'[r] = "ok")
  BY <1>4, <1>5 DEF IdemTypeOK
<1>7. IssuedIsStored'
  BY <1>6 DEF KeyInv, IssuedIsStored
<1>8. KeysAreScoped'
  BY <1>5 DEF KeyInv, KeysAreScoped, Scoped
<1>9. SecretsAreIssued'
  <2>1. ~(issued[r] > 0)
    BY <1>1 DEF KeyInv, IssuedIsStored
  <2> QED
    BY <1>2, <1>3, <1>5, <1>6, <2>1 DEF KeyInv, SecretsAreIssued
<1> QED
  BY <1>7, <1>8, <1>9 DEF KeyInv

\* The administrator hands a new API key over.
LEMMA AdminKeepsKeyInv ==
  ASSUME AccInv, KeyInv, NEW u \in Users, AdminDeleteUser(u) \/ AdminRegenerateKey(u)
  PROVE  KeyInv'
<1>1. /\ UNCHANGED <<issued, order, token, key, phase, status>>
      /\ \/ UNCHANGED <<secret, known>>
         \/ /\ secret' = [secret EXCEPT ![u] = @ + 1]
            /\ known' = [known EXCEPT ![u] = @ \cup {secret[u] + 1}]
  BY DEF AdminDeleteUser, AdminRegenerateKey, WithNewKey, Administers, idemVars, clients
<1>2. secret \in [Users -> 0..MaxSecrets] /\ DOMAIN known = Users
  BY DEF AccInv, RowsTyped, KeysWereIssued
<1>3. IssuedIsStored' /\ KeysAreScoped'
  BY <1>1 DEF KeyInv, IssuedIsStored, KeysAreScoped, Scoped
<1>4. SecretsAreIssued'
  BY <1>1, <1>2 DEF KeyInv, SecretsAreIssued
<1> QED
  BY <1>3, <1>4 DEF KeyInv

\* Everything else issues none.
LEMMA OtherKeepsKeyInv ==
  ASSUME AccInv, KeyInv,
         \/ \E r \in Attempts :
              \/ Handles(r) /\ ~(ResetKey(r) \/ Register(r) \/ RegisterCut(r))
              \/ Deliver(r)
         \/ ServerSteps
         \/ UNCHANGED accVars
  PROVE  KeyInv'
<1>1. IdemTypeOK /\ DOMAIN known = Users
  BY DEF AccInv, IdemInv, KeysWereIssued
<1>2. ASSUME NEW r \in Attempts, Handles(r),
             ~(ResetKey(r) \/ Register(r) \/ RegisterCut(r))
      PROVE  KeyInv'
  <2>1. UNCHANGED <<issued, secret>>
    <3>1. CASE Reject(r) \/ Fails(r) \/ ClaimFetches(r) \/ ClaimDenied(r)
               \/ ClaimEnds(r) \/ ClaimEndsCut(r)
      BY <3>1 DEF Reject, Fails, ClaimFetches, ClaimDenied, ClaimEnds, ClaimEndsCut,
                  ClaimStatus, Answers, Breaks, rows
    <3>2. CASE Transfer(r) \/ CreateBounty(r) \/ CreateBountyCut(r)
               \/ ResetSandboxBalance(r)
      BY <3>2 DEF Transfer, CreateBounty, CreateBountyCut, Lock, ResetSandboxBalance
    <3> QED
      BY <1>2, <3>1, <3>2 DEF Handles
  <2>2. /\ UNCHANGED letters /\ UNCHANGED key /\ phase[r] = "running"
        /\ \A q \in Attempts \ {r} : phase'[q] = phase[q] /\ status'[q] = status[q]
    <3>1. /\ \/ \E c \in Statuses \ {"none"} : Respond(r, c)
             \/ Raise(r)
             \/ UNCHANGED idemVars
          /\ phase[r] = "running"
          /\ UNCHANGED letters
      BY <1>2, HandlesIsIdemStep
    <3> QED
      BY <1>1, <3>1 DEF Respond, Raise, idemVars, clients, IdemTypeOK
  <2> QED
    BY <2>1, <2>2, NothingIssued DEF letters
<1>3. ASSUME NEW r \in Attempts, Deliver(r) PROVE KeyInv'
  <2>1. /\ UNCHANGED <<issued, secret, order, token, key, phase, status>>
        /\ \/ UNCHANGED known
           \/ known' = [known EXCEPT ![order[r].user] = @ \cup {issued[reply[r]]}]
    BY <1>3 DEF Deliver, rows, idemVars, clients
  <2>2. \A u \in Users : known[u] \subseteq known'[u]
    BY <1>1, <2>1
  <2> QED
    BY <2>1, <2>2, NothingIssued
<1>4. CASE ServerSteps
  <2>1. UNCHANGED <<issued, secret, order, token, known>>
    BY <1>4 DEF ServerSteps, rows, letters
  <2>2. /\ UNCHANGED <<key, status>>
        /\ \A r \in Attempts :
             \/ phase'[r] = phase[r]
             \/ phase[r] = "responded" /\ phase'[r] = "answered"
             \/ phase'[r] = "failed"
    BY <1>1, <1>4 DEF ServerSteps, Conclude, Tick, Restart, clients, IdemTypeOK
  <2> QED
    BY <2>1, <2>2, NothingIssued
<1>5. CASE UNCHANGED accVars
  BY <1>5, NothingIssued DEF accVars, rows, letters, idemVars, clients
<1> QED
  BY <1>2, <1>3, <1>4, <1>5

LEMMA StepKeepsKeyInv == AccInv /\ KeyInv /\ [Next]_accVars => KeyInv'
<1> SUFFICES ASSUME AccInv, KeyInv, [Next]_accVars PROVE KeyInv'
  OBVIOUS
<1> QED
  BY SendKeepsKeyInv, IssueKeepsKeyInv, AdminKeepsKeyInv, OtherKeepsKeyInv DEF Next

LEMMA InitEstablishesKeyInv == Init => KeyInv
<1> SUFFICES ASSUME Init PROVE KeyInv
  OBVIOUS
<1>1. IssuedIsStored
  BY DEF Init, IssuedIsStored
<1>2. KeysAreScoped
  BY NoneAssumption, AccountsAssumption DEF Init, IdemInit, KeysAreScoped
<1>3. SecretsAreIssued
  BY DEF Init, SecretsAreIssued
<1> QED
  BY <1>1, <1>2, <1>3 DEF KeyInv

\* Nobody loses an account to a lost reply: as long as neither a handler nor the
\* process broke off, no marker timed out and the response has not expired, a
\* client that does not know its valid API key gets it by sending its order
\* again with the same idempotency key.
THEOREM KeysAreRecoverable == Spec => []KeyRecoverable
<1>1. Init => KeyInv
  BY InitEstablishesKeyInv
<1>2. AccInv /\ KeyInv /\ [Next]_accVars => KeyInv'
  BY StepKeepsKeyInv
<1>3. AccInv /\ KeyInv => KeyRecoverable
  BY KeyInvRecovers
<1> QED
  BY <1>1, <1>2, <1>3, AccountsInvariant, PTL DEF Spec

-----------------------------------------------------------------------------
(* Orders that are paid once.                                              *)

\* An attempt that took points answers so, unless the handler or the process
\* broke off.
SpentIsStored ==
  \A r \in spent :
    phase[r] = "failed" \/ (phase[r] \in {"responded", "answered"} /\ status[r] = "ok")

\* An order that is to be carried out once has an idempotency key.
OrdersAreKeyed ==
  \A r \in Attempts :
    order[r] # None /\ order[r].keyed => key[r] \in Keys

SpendInv == spent \subseteq Attempts /\ SpentIsStored /\ OrdersAreKeyed

\* Of two attempts with one key that took points, the one that is not over, or
\* that began later, began when the response of the other had expired.
LEMMA SpendInvPaysOnce == AccInv /\ KeyInv /\ SpendInv => RetriesSpendOnce
<1> SUFFICES ASSUME AccInv, KeyInv, SpendInv, NEW r \in spent, NEW q \in spent,
                    r # q, order[r] = order[q], token[r] = token[q],
                    order[r].keyed, key[r] \notin excused,
                    phase[r] # "failed", phase[q] # "failed"
             PROVE  \/ phase[q] = "answered" /\ began[r] > ended[q] + Ttl
                    \/ phase[r] = "answered" /\ began[q] > ended[r] + Ttl
  BY DEF RetriesSpendOnce
<1>1. /\ r \in Attempts /\ q \in Attempts /\ status[r] = "ok" /\ status[q] = "ok"
      /\ phase[r] \in {"responded", "answered"} /\ phase[q] \in {"responded", "answered"}
  BY DEF SpendInv, SpentIsStored
<1>2. order[r] \in Orders
  BY <1>1 DEF AccInv, LettersMatch
<1>3. key[r] \in Keys /\ key[q] \in Keys
  BY <1>1, <1>2, OrderTypes DEF SpendInv, OrdersAreKeyed
<1>4. key[r] = key[q] /\ key[r] \in Keys \ excused
  BY <1>1, <1>3 DEF KeyInv, KeysAreScoped
<1>5. IdemInv
  BY DEF AccInv
<1>6. \A a \in {r, q} : /\ phase[a] = "answered" => Succeeded(a)
                        /\ phase[a] = "responded" => InFlight(a)
  BY <1>1 DEF Succeeded, InFlight
<1>7. CASE phase[r] = "answered" /\ phase[q] = "answered"
  BY <1>1, <1>4, <1>5, <1>6, <1>7 DEF IdemInv, AtMostOnce
<1>8. CASE phase[r] = "responded" /\ phase[q] = "answered"
  BY <1>1, <1>4, <1>5, <1>6, <1>8 DEF IdemInv, BeganAfterExpiry
<1>9. CASE phase[r] = "answered" /\ phase[q] = "responded"
  BY <1>1, <1>4, <1>5, <1>6, <1>9 DEF IdemInv, BeganAfterExpiry
<1>10. CASE phase[r] = "responded" /\ phase[q] = "responded"
  BY <1>1, <1>4, <1>5, <1>6, <1>10, FlightsAreSingle
<1> QED
  BY <1>1, <1>7, <1>8, <1>9, <1>10

\* Steps that take nobody's points.
LEMMA NothingSpent ==
  ASSUME AccInv, SpendInv, UNCHANGED <<spent, order, key>>,
         \A r \in Attempts :
           \/ phase'[r] = phase[r] /\ status'[r] = status[r]
           \/ phase[r] = "running"
           \/ phase[r] = "responded" /\ phase'[r] = "answered" /\ status'[r] = status[r]
           \/ phase'[r] = "failed"
  PROVE  SpendInv'
<1>1. SpentIsStored'
  BY DEF SpendInv, SpentIsStored
<1>2. OrdersAreKeyed'
  BY DEF SpendInv, OrdersAreKeyed
<1> QED
  BY <1>1, <1>2 DEF SpendInv

\* A keyed order goes through the middleware, the others past it.
LEMMA SendKeepsSpendInv ==
  ASSUME AccInv, SpendInv, NEW r \in Attempts, NEW o \in Orders,
         NEW n \in 0..MaxSecrets, Send(r, o, n)
  PROVE  SpendInv'
<1>1. /\ order' = [order EXCEPT ![r] = o] /\ UNCHANGED spent /\ phase[r] = "idle"
  BY DEF Send, Begin, Replay, Refuse, PassThrough
<1>2. order \in [Attempts -> Orders \cup {None}] /\ IdemTypeOK
  BY DEF AccInv, IdemInv, LettersMatch
<1>3. /\ status' = status /\ \E p : phase' = [phase EXCEPT ![r] = p]
      /\ \A q \in Attempts : q # r => key'[q] = key[q]
      /\ o.keyed => key'[r] \in Keys
  <2>1. CASE o.keyed
    <3>1. PICK k \in Keys : Begin(r, k) \/ Replay(r, k) \/ Refuse(r, k)
      BY <2>1, ScopedIsKey DEF Send
    <3> QED
      BY <1>2, <3>1 DEF Begin, Replay, Refuse, IdemTypeOK
  <2>2. CASE ~o.keyed
    BY <2>2 DEF Send, PassThrough
  <2> QED
    BY <2>1, <2>2
<1>4. r \notin spent
  BY <1>1 DEF SpendInv, SpentIsStored
<1>5. SpentIsStored'
  BY <1>1, <1>2, <1>3, <1>4 DEF SpendInv, SpentIsStored, IdemTypeOK
<1>6. OrdersAreKeyed'
  BY <1>1, <1>2, <1>3 DEF SpendInv, OrdersAreKeyed
<1> QED
  BY <1>1, <1>5, <1>6 DEF SpendInv

\* A handler that takes points answers that all is well, or breaks off.
LEMMA PaymentKeepsSpendInv ==
  ASSUME AccInv, SpendInv, NEW r \in Attempts,
         Transfer(r) \/ CreateBounty(r) \/ CreateBountyCut(r)
  PROVE  SpendInv'
<1>1. /\ spent' = spent \cup {r} /\ UNCHANGED <<order, key>>
      /\ \/ /\ phase' = [phase EXCEPT ![r] = "responded"]
            /\ status' = [status EXCEPT ![r] = "ok"]
         \/ phase' = [phase EXCEPT ![r] = "failed"] /\ UNCHANGED status
  BY DEF Transfer, CreateBounty, CreateBountyCut, Lock, Answers, Breaks, letters,
         Respond, Raise
<1>2. IdemTypeOK
  BY DEF AccInv, IdemInv
<1>3. SpentIsStored'
  BY <1>1, <1>2 DEF SpendInv, SpentIsStored, IdemTypeOK
<1>4. OrdersAreKeyed'
  BY <1>1 DEF SpendInv, OrdersAreKeyed
<1> QED
  BY <1>1, <1>3, <1>4 DEF SpendInv

\* Everything else but a new attempt takes none.
LEMMA OtherKeepsSpendInv ==
  ASSUME AccInv, SpendInv,
         \/ \E r \in Attempts :
              \/ Handles(r) /\ ~(Transfer(r) \/ CreateBounty(r) \/ CreateBountyCut(r))
              \/ Deliver(r)
         \/ \E u \in Users : AdminDeleteUser(u) \/ AdminRegenerateKey(u)
         \/ ServerSteps
         \/ UNCHANGED accVars
  PROVE  SpendInv'
<1>1. IdemTypeOK
  BY DEF AccInv, IdemInv
<1>2. ASSUME NEW r \in Attempts, Handles(r),
             ~(Transfer(r) \/ CreateBounty(r) \/ CreateBountyCut(r))
      PROVE  SpendInv'
  <2>1. UNCHANGED spent
    BY <1>2 DEF Handles, Reject, Fails, ResetKey, ResetSandboxBalance, Register,
                RegisterCut, Registers, ClaimFetches, ClaimDenied, ClaimEnds,
                ClaimEndsCut, ClaimStatus
  <2>2. /\ UNCHANGED <<order, key>> /\ phase[r] = "running"
        /\ \A q \in Attempts \ {r} : phase'[q] = phase[q] /\ status'[q] = status[q]
    <3>1. /\ \/ \E c \in Statuses \ {"none"} : Respond(r, c)
             \/ Raise(r)
             \/ UNCHANGED idemVars
          /\ phase[r] = "running"
          /\ UNCHANGED letters
      BY <1>2, HandlesIsIdemStep
    <3> QED
      BY <1>1, <3>1 DEF Respond, Raise, idemVars, clients, letters, IdemTypeOK
  <2> QED
    BY <2>1, <2>2, NothingSpent
<1>3. CASE \/ \E r \in Attempts : Deliver(r)
           \/ \E u \in Users : AdminDeleteUser(u) \/ AdminRegenerateKey(u)
           \/ UNCHANGED accVars
  <2>1. UNCHANGED <<spent, order, key, phase, status>>
    BY <1>3 DEF Deliver, AdminDeleteUser, AdminRegenerateKey, Administers, accVars,
                letters, idemVars, clients
  <2> QED
    BY <2>1, NothingSpent
<1>4. CASE ServerSteps
  <2>1. UNCHANGED <<spent, order>>
    BY <1>4 DEF ServerSteps, letters
  <2>2. /\ UNCHANGED <<key, status>>
        /\ \A r \in Attempts :
             \/ phase'[r] = phase[r]
             \/ phase[r] = "responded" /\ phase'[r] = "answered"
             \/ phase'[r] = "failed"
    BY <1>1, <1>4 DEF ServerSteps, Conclude, Tick, Restart, clients, IdemTypeOK
  <2> QED
    BY <2>1, <2>2, NothingSpent
<1> QED
  BY <1>2, <1>3, <1>4

LEMMA InitEstablishesSpendInv == Init => SpendInv
BY DEF Init, SpendInv, SpentIsStored, OrdersAreKeyed

LEMMA StepKeepsSpendInv == AccInv /\ SpendInv /\ [Next]_accVars => SpendInv'
<1> SUFFICES ASSUME AccInv, SpendInv, [Next]_accVars PROVE SpendInv'
  OBVIOUS
<1> QED
  BY SendKeepsSpendInv, PaymentKeepsSpendInv, OtherKeepsSpendInv DEF Next

\* A client that sends an order again with the same keys pays it once, unless a
\* handler or the process broke off, a marker timed out or the response expired.
THEOREM OrdersArePaidOnce == Spec => []RetriesSpendOnce
<1>1. Init => SpendInv
  BY InitEstablishesSpendInv
<1>2. AccInv /\ SpendInv /\ [Next]_accVars => SpendInv'
  BY StepKeepsSpendInv
<1>3. Init => KeyInv
  BY InitEstablishesKeyInv
<1>4. AccInv /\ KeyInv /\ [Next]_accVars => KeyInv'
  BY StepKeepsKeyInv
<1>5. AccInv /\ KeyInv /\ SpendInv => RetriesSpendOnce
  BY SpendInvPaysOnce
<1> QED
  BY <1>1, <1>2, <1>3, <1>4, <1>5, AccountsInvariant, PTL DEF Spec
=============================================================================
