------------------------------- MODULE Bounty -------------------------------
(***************************************************************************)
(* Escrow bounties: the handlers of routes/bounties.py over the rows of    *)
(* storage/bounties.py and the users' balances.                            *)
(*                                                                         *)
(* Every storage call is a transaction of its own.  A worker, one server   *)
(* process, runs one handler at a time; req[w] holds the next commit of    *)
(* its handler and what the handler read before it.  The service runs one  *)
(* worker (Procfile); the compare-and-set of update_bounty_status is there *)
(* for several, as when two deployments overlap, so Workers is a constant. *)
(*                                                                         *)
(* All bounties are of one Amount.  Titles, events and answers are left    *)
(* out, and so are proof and contest, which check the status and publish.  *)
(***************************************************************************)
EXTENDS Integers, FiniteSets

CONSTANTS
  Bounties,      \* ids a new bounty may get
  Users,         \* the agents, all of them claimed accounts
  Workers,       \* server processes
  None,          \* no user, no bounty, no vote
  Amount,        \* points locked by a bounty
  StartBalance,  \* what a user owns at first
  VotesNeeded,   \* VOTES_NEEDED
  MaxFailures    \* bound: handlers cut short

ASSUME NoneAssumption == None \notin Bounties \cup Users
ASSUME UsersAssumption == IsFiniteSet(Users)
ASSUME AmountsAssumption ==
  /\ {Amount, VotesNeeded} \subseteq Nat \ {0}
  /\ {StartBalance, MaxFailures} \subseteq Nat

VARIABLES
  status, creator, claimant, \* the bounties rows; status "none" before one
  expired,   \* expires_at has passed
  votes,     \* bounty_votes
  balance,   \* users.balance
  req,       \* what each worker is about to commit
  credits,   \* history: escrow_release and escrow_refund transactions
  paidTo,    \* history: who got the last of them
  failures   \* bound only

rows == <<status, creator, claimant>>
money == <<balance, credits, paidTo>>
vars == <<rows, expired, votes, money, req, failures>>

Final    == {"completed", "cancelled"}
Live     == {"open", "claimed", "disputed"}
Statuses == {"none"} \cup Live \cup Final
Verdicts == {"creator", "claimant"}

\* A pending commit: of kind pc, for bounty, by user.  A "cas" moves the status
\* from expected to the status `to`; afterwards payee, if any, is paid.  Only
\* if checked is a lost race noticed.
Requests ==
  [pc : {"idle", "debit", "insert", "vote", "tally", "cas", "pay"},
   bounty : Bounties \cup {None}, user : Users \cup {None},
   expected : Statuses, to : Statuses, payee : Users \cup {None},
   checked : BOOLEAN, choice : Verdicts \cup {None}]

Idle ==
  [pc |-> "idle", bounty |-> None, user |-> None, expected |-> "none",
   to |-> "none", payee |-> None, checked |-> TRUE, choice |-> None]

Init ==
  /\ status   = [b \in Bounties |-> "none"]
  /\ creator  = [b \in Bounties |-> None]
  /\ claimant = [b \in Bounties |-> None]
  /\ expired  = [b \in Bounties |-> FALSE]
  /\ votes    = [b \in Bounties |-> [u \in Users |-> None]]
  /\ balance  = [u \in Users |-> StartBalance]
  /\ req      = [w \in Workers |-> Idle]
  /\ credits  = [b \in Bounties |-> 0]
  /\ paidTo   = [b \in Bounties |-> None]
  /\ failures = 0

-----------------------------------------------------------------------------
(* A handler begins: it reads the bounty, checks it, and goes on to its     *)
(* first commit.                                                            *)

Begins(w, request) ==
  /\ req[w] = Idle
  /\ req' = [req EXCEPT ![w] = request]
  /\ UNCHANGED <<rows, expired, votes, money, failures>>

Creating(b, u) == [Idle EXCEPT !.pc = "debit", !.bounty = b, !.user = u]

Voting(b, u, choice) ==
  [Idle EXCEPT !.pc = "vote", !.bounty = b, !.user = u, !.choice = choice]

Moving(b, u, from, to, payee, checked) ==
  [Idle EXCEPT !.pc = "cas", !.bounty = b, !.user = u, !.expected = from,
               !.to = to, !.payee = payee, !.checked = checked]

\* The new id is a uuid no other request has.
BeginCreate(w, b, u) ==
  /\ status[b] = "none"
  /\ \A v \in Workers : req[v].bounty # b
  /\ balance[u] >= Amount
  /\ Begins(w, Creating(b, u))

BeginClaim(w, b, u) ==
  /\ status[b] = "open"
  /\ creator[b] # u
  /\ ~expired[b]
  /\ Begins(w, Moving(b, u, "open", "claimed", None, TRUE))

\* Bug form: a late claim cancels the bounty without a refund.
BugBeginClaimExpired(w, b, u) ==
  /\ status[b] = "open"
  /\ creator[b] # u
  /\ expired[b]
  /\ Begins(w, Moving(b, u, "open", "cancelled", None, FALSE))

\* A claim that comes too late cancels the bounty, and does not look at what
\* the compare-and-set returns.
BeginClaimExpired(w, b, u) ==
  /\ status[b] = "open"
  /\ creator[b] # u
  /\ expired[b]
  /\ Begins(w, Moving(b, u, "open", "cancelled", creator[b], FALSE))

BeginRelease(w, b) ==
  /\ status[b] = "claimed"
  /\ claimant[b] # None
  /\ Begins(w, Moving(b, creator[b], "claimed", "completed", claimant[b], TRUE))

\* Bug form: a completed bounty can be cancelled.
BugCancellable == {"open", "claimed", "completed"}

Cancellable == {"open", "claimed"}

BeginCancel(w, b) ==
  /\ status[b] \in Cancellable
  /\ Begins(w, Moving(b, creator[b], status[b], "cancelled", creator[b], TRUE))

BeginDispute(w, b) ==
  /\ status[b] = "claimed"
  /\ Begins(w, Moving(b, creator[b], "claimed", "disputed", None, TRUE))

Total(b) == Cardinality({u \in Users : votes[b][u] # None})
For(b, verdict) == Cardinality({u \in Users : votes[b][u] = verdict})

BeginVote(w, b, u, choice) ==
  /\ status[b] = "disputed"
  /\ u \notin {creator[b], claimant[b]}
  /\ Total(b) < VotesNeeded
  /\ Begins(w, Voting(b, u, choice))

-----------------------------------------------------------------------------
(* The commits of a handler, by the worker that runs it.                    *)

Continues(w, request) == req' = [req EXCEPT ![w] = request]

\* Bug form: the balance is left as it is.
BugDebit(w) ==
  /\ req[w].pc = "debit"
  /\ Continues(w, [req[w] EXCEPT !.pc = "insert"])
  /\ UNCHANGED <<rows, expired, votes, money, failures>>

Debit(w) ==
  /\ req[w].pc = "debit"
  /\ balance' = [balance EXCEPT ![req[w].user] = @ - Amount]
  /\ Continues(w, [req[w] EXCEPT !.pc = "insert"])
  /\ UNCHANGED <<rows, expired, votes, credits, paidTo, failures>>

Insert(w) ==
  /\ req[w].pc = "insert"
  /\ status'  = [status EXCEPT ![req[w].bounty] = "open"]
  /\ creator' = [creator EXCEPT ![req[w].bounty] = req[w].user]
  /\ Continues(w, Idle)
  /\ UNCHANGED <<claimant, expired, votes, money, failures>>

\* A second vote by the same voter conflicts and is not recorded.
AddVote(w) ==
  LET r == req[w]
  IN  /\ r.pc = "vote"
      /\ IF votes[r.bounty][r.user] = None
         THEN /\ votes' = [votes EXCEPT ![r.bounty][r.user] = r.choice]
              /\ Continues(w, [r EXCEPT !.pc = "tally"])
         ELSE /\ Continues(w, Idle)
              /\ UNCHANGED votes
      /\ UNCHANGED <<rows, expired, money, failures>>

\* Bug form: one vote too many is awaited.
BugEnoughVotes(b) == Total(b) > VotesNeeded

EnoughVotes(b) == Total(b) >= VotesNeeded

\* Bug form: a status that does not exist.
BugVerdictStatus(verdict) ==
  IF verdict = "claimant" THEN "released" ELSE "cancelled"

VerdictStatus(verdict) ==
  IF verdict = "claimant" THEN "completed" ELSE "cancelled"

\* Bug form: the parties mixed up.
BugVerdictPayee(b, verdict) ==
  IF verdict = "claimant" THEN creator[b] ELSE claimant[b]

VerdictPayee(b, verdict) ==
  IF verdict = "claimant" THEN claimant[b] ELSE creator[b]

\* The settlement of a vote does not look at what the compare-and-set returns.
Tally(w) ==
  LET r == req[w]
      b == r.bounty
      verdict == IF For(b, "claimant") > For(b, "creator")
                 THEN "claimant" ELSE "creator"
  IN  /\ r.pc = "tally"
      /\ Continues(w, IF EnoughVotes(b)
                      THEN Moving(b, r.user, "disputed", VerdictStatus(verdict),
                                  VerdictPayee(b, verdict), FALSE)
                      ELSE Idle)
      /\ UNCHANGED <<rows, expired, votes, money, failures>>

\* Bug form: the UPDATE without its condition on the status.
BugMatches(b, expected) == status[b] # "none"

Matches(b, expected) == status[b] = expected

\* update_bounty_status: compare and set, and what the handler does next.
Cas(w) ==
  LET r == req[w]
      b == r.bounty
  IN  /\ r.pc = "cas"
      /\ IF Matches(b, r.expected)
         THEN /\ status' = [status EXCEPT ![b] = r.to]
              /\ claimant' = [claimant EXCEPT ![b] =
                                IF r.to = "claimed" THEN r.user ELSE @]
         ELSE UNCHANGED <<status, claimant>>
      /\ Continues(w, IF /\ r.payee # None
                         /\ Matches(b, r.expected) \/ ~r.checked
                      THEN [r EXCEPT !.pc = "pay"] ELSE Idle)
      /\ UNCHANGED <<creator, expired, votes, money, failures>>

Pay(w) ==
  LET r == req[w]
  IN  /\ r.pc = "pay"
      /\ balance' = [balance EXCEPT ![r.payee] = @ + Amount]
      /\ credits' = [credits EXCEPT ![r.bounty] = @ + 1]
      /\ paidTo'  = [paidTo EXCEPT ![r.bounty] = r.payee]
      /\ Continues(w, Idle)
      /\ UNCHANGED <<rows, expired, votes, failures>>

-----------------------------------------------------------------------------
\* A storage call raises or the worker restarts: the handler ends there.
Fail(w) ==
  /\ req[w] # Idle
  /\ failures < MaxFailures
  /\ failures' = failures + 1
  /\ Continues(w, Idle)
  /\ UNCHANGED <<rows, expired, votes, money>>

Expire(b) ==
  /\ status[b] # "none" /\ ~expired[b]
  /\ expired' = [expired EXCEPT ![b] = TRUE]
  /\ UNCHANGED <<rows, votes, money, req, failures>>

Begin(w, b) ==
  \/ \E u \in Users :
       \/ BeginCreate(w, b, u) \/ BeginClaim(w, b, u) \/ BeginClaimExpired(w, b, u)
       \/ \E choice \in Verdicts : BeginVote(w, b, u, choice)
  \/ BeginRelease(w, b) \/ BeginCancel(w, b) \/ BeginDispute(w, b)

Step(w) == Debit(w) \/ Insert(w) \/ AddVote(w) \/ Tally(w) \/ Cas(w) \/ Pay(w)

Next ==
  \/ \E w \in Workers :
       Step(w) \/ Fail(w) \/ \E b \in Bounties : Begin(w, b)
  \/ \E b \in Bounties : Expire(b)

Spec == Init /\ [][Next]_vars

-----------------------------------------------------------------------------
TypeOK ==
  /\ status \in [Bounties -> Statuses]
  /\ creator \in [Bounties -> Users \cup {None}]
  /\ claimant \in [Bounties -> Users \cup {None}]
  /\ expired \in [Bounties -> BOOLEAN]
  /\ votes \in [Bounties -> [Users -> Verdicts \cup {None}]]
  /\ balance \in [Users -> Int]
  /\ req \in [Workers -> Requests]
  /\ credits \in [Bounties -> Nat]
  /\ paidTo \in [Bounties -> Users \cup {None}]
  /\ failures \in 0..MaxFailures

SingleProcess == \A v, w \in Workers : v = w

\* An escrow is paid out at most once, whatever fails in between and in
\* whatever order claims, releases, cancellations, late claims and the last
\* vote of a dispute arrive; for the one worker the service runs.
SettledOnce == \A b \in Bounties : credits[b] <= 1

\* With several workers the compare-and-set alone guards release, cancel,
\* claim and dispute: an escrow is paid out twice only by a late claim or by
\* the vote that ends a dispute, which do not look at what it returns.
Unchecked(b) == expired[b] \/ Total(b) >= VotesNeeded
SettledOnceIfChecked ==
  \A b \in Bounties : credits[b] <= 1 \/ Unchecked(b)

\* The money goes where the status says: to the claimant of a completed bounty
\* and to the creator of a cancelled one, on each of the five ways to settle.
SettlementMatches ==
  \A b \in Bounties : credits[b] > 0 =>
    \/ status[b] = "completed" /\ paidTo[b] = claimant[b]
    \/ status[b] = "cancelled" /\ paidTo[b] = creator[b]

\* A dispute with all its votes in is settled or being settled, unless a
\* handler failed: when voting is closed, nobody is left to trigger it.
VotedIsSettled ==
  \A b \in Bounties :
    status[b] = "disputed" /\ Total(b) >= VotesNeeded /\ failures = 0 =>
      \E w \in Workers : req[w].bounty = b /\ req[w].pc \in {"tally", "cas"}

\* As long as no handler is cut short, a settled bounty is paid, or some worker
\* is about to pay it: the worker whose compare-and-set lost leaves nothing
\* unpaid, for the one that won pays.
SettledIsPaid ==
  \A b \in Bounties :
    status[b] \in Final /\ failures = 0 =>
      credits[b] > 0 \/ \E w \in Workers : req[w].pc = "pay" /\ req[w].bounty = b

\* docs/bounties-api.md:116 on release: points "transferred from escrow to
\* claimant's balance atomically": between requests, completed means paid.
ReleaseIsAtomic ==
  (\A w \in Workers : req[w] = Idle) =>
    \A b \in Bounties : status[b] = "completed" => credits[b] > 0

-----------------------------------------------------------------------------
(* The bounties implement an escrow.  A request in progress counts as done  *)
(* from the commit that decides it: the debit of a creation, and the        *)
(* compare-and-set of a settlement, whose payment is as good as made.       *)

Holding(b) ==
  status[b] \in Live \/ \E w \in Workers : req[w].pc = "insert" /\ req[w].bounty = b

EscrowState(b) ==
  IF Holding(b) THEN "held"
  ELSE CASE status[b] = "completed" -> "released"
         [] status[b] = "cancelled" -> "refunded"
         [] OTHER -> "none"

EscrowOwner(b) ==
  IF status[b] # "none" \/ ~Holding(b) THEN creator[b]
  ELSE req[CHOOSE w \in Workers : req[w].bounty = b].user

Owed(u) == Amount * Cardinality({w \in Workers : req[w].pc = "pay" /\ req[w].payee = u})

E == INSTANCE Escrow WITH
       escrow   <- [b \in Bounties |-> EscrowState(b)],
       owner    <- [b \in Bounties |-> EscrowOwner(b)],
       claimant <- claimant,
       purse    <- [u \in Users |-> balance[u] + Owed(u)]

\* With one worker, create, claim, release, cancel, dispute and vote do to the
\* money what the escrow of docs/bounties-api.md promises, also after a failure:
\* only the failure itself, which drops the rest of a handler, is no step of
\* the escrow.
ImplementsEscrow ==
  E!Init /\ [][failures' # failures \/ [E!Next]_(E!vars)]_vars
=============================================================================
