------------------------------- MODULE Market -------------------------------
(***************************************************************************)
(* One market of the exchange, from creation to settlement: trading.py,    *)
(* resolution.py, committee.py, payouts.py, the sweep of api.py and the    *)
(* two market endpoints of admin.py, over the rows they keep.              *)
(*                                                                         *)
(* The server is one process whose handlers run to their end without       *)
(* giving way, but every storage call commits a transaction of its own.    *)
(* So a request is a plan, the sequence of the commits it still has to     *)
(* make: todo.  A request starts when no other is running; an exception or *)
(* a crash drops the rest of the plan.  Only request_resolution waits in   *)
(* the middle, for the resolver's answer, and lets other requests run.     *)
(*                                                                         *)
(* Amounts are integers, Scale units to a point.  Dry runs, rejected       *)
(* requests and reporting fields (profit, counters, titles) change nothing *)
(* the properties speak of and are left out.                               *)
(***************************************************************************)
EXTENDS Cpmm, Sequences, FiniteSets, FiniteSetsExt, Functions

CONSTANTS
  Creator,       \* who creates the market
  Traders,       \* the other users
  None,          \* no vote, no resolution
  Scale,         \* units in one point
  Liquidity,     \* initial liquidity
  StartBalance,  \* what every user owns at first
  BetAmounts,    \* the amounts a bet may have
  MaxTrades,     \* bound: bets and sales
  MaxQuestions,  \* bound: requests to the resolver
  MaxTransitions,\* bound: calls of admin transition-markets
  MaxFixes,      \* bound: calls of admin fix-resolutions
  MaxFailures    \* bound: requests cut short

ASSUME UsersAssumption == IsFiniteSet(Traders) /\ Creator \notin Traders
ASSUME NoneAssumption == None \notin Outcome \cup {"INVALID"}
ASSUME AmountsAssumption ==
  /\ {Scale, Liquidity, StartBalance} \subseteq Nat \ {0}
  /\ BetAmounts \subseteq Nat \ {0}
ASSUME BoundsAssumption ==
  {MaxTrades, MaxQuestions, MaxTransitions, MaxFixes, MaxFailures} \subseteq Nat

VARIABLES
  \* the markets row
  status, resolution, pool, volume, committee, window,
  \* positions and bets: shares and total_invested by user; sum of the bets
  shares, invested, bets,
  \* users.balance; transactions, summed by user and type; committee votes
  balance, ledger, votes,
  \* the process: the running request, and requests awaiting the resolver
  todo, asked,
  \* closes_at has passed
  closed,
  \* history: platform fees, dues of the first resolution, outcomes written
  burned, due, residual, outcomes,
  \* bounds only
  used

row      == <<status, resolution, pool, volume, committee, window>>
holdings == <<shares, invested, bets>>
money    == <<balance, ledger>>
history  == <<due, residual, outcomes>>
vars == <<row, holdings, money, votes, todo, asked, closed, burned, history,
          used>>

Users       == Traders \cup {Creator}
VoteChoices == Outcome \cup {"INVALID"}
TxTypes     == {"market_creation", "buy", "sell", "creator_fee", "payout",
                "creator_recovery"}

Fee(amount) == (2 * amount) \div 100          \* TRADE_FEE_RATE
CreatorFee(amount) == Fee(amount) \div 2      \* CREATOR_FEE_SHARE

Empty == [s \in Outcome |-> 0]

Init ==
  /\ status = "NONE" /\ resolution = None
  /\ pool = Empty /\ volume = 0
  /\ committee = {} /\ window = "unset"
  /\ shares = [u \in Users |-> Empty]
  /\ invested = [u \in Users |-> 0]
  /\ bets = 0
  /\ balance = [u \in Users |-> StartBalance]
  /\ ledger = [u \in Users |-> [t \in TxTypes |-> 0]]
  /\ votes = [u \in Users |-> None]
  /\ todo = <<>> /\ asked = 0
  /\ closed = FALSE
  /\ burned = 0 /\ due = [u \in Users |-> 0] /\ residual = 0 /\ outcomes = {}
  /\ used = [trades |-> 0, questions |-> 0, transitions |-> 0, fixes |-> 0,
             failures |-> 0]

-----------------------------------------------------------------------------
(* The commits a plan is made of, one for each storage call.               *)

Pays(u, type, amount, fee) ==
  [kind |-> "balance", user |-> u, type |-> type, amount |-> amount,
   fee |-> fee]
SetsPool(new, volumeDelta) ==
  [kind |-> "pool", pool |-> new, volume |-> volumeDelta]
AddsPosition(u, side, n, cost) ==
  [kind |-> "position", user |-> u, side |-> side, shares |-> n, cost |-> cost]
Reduces(u, side, n) ==
  [kind |-> "reduce", user |-> u, side |-> side, shares |-> n]
\* One commit for each of these users, in any order.
PaysWinners(outcome, left) ==
  IF left = {} THEN <<>>
  ELSE <<[kind |-> "winners", outcome |-> outcome, left |-> left]>>
Clears(left) ==
  IF left = {} THEN <<>> ELSE <<[kind |-> "clear", left |-> left]>>
Inserts == [kind |-> "insert"]
RecordsBet(amount) == [kind |-> "bet", amount |-> amount]
SetsCommittee(members) == [kind |-> "committee", members |-> members]
SetsResolving == [kind |-> "status"]
Votes(u, choice) == [kind |-> "vote", user |-> u, choice |-> choice]
Resolves(outcome, by) == [kind |-> "resolve", outcome |-> outcome, by |-> by]

Commits ==
       [kind : {"balance"}, user : Users, type : TxTypes \ {"payout"},
        amount : Int, fee : Nat]
  \cup [kind : {"pool"}, pool : Pool, volume : Nat]
  \cup [kind : {"position"}, user : Users, side : Outcome, shares : Nat,
        cost : Nat]
  \cup [kind : {"reduce"}, user : Users, side : Outcome, shares : Nat]
  \cup [kind : {"winners"}, outcome : Outcome, left : SUBSET Users]
  \cup [kind : {"clear"}, left : SUBSET Users]
  \cup [kind : {"insert", "status"}]
  \cup [kind : {"bet"}, amount : Nat]
  \cup [kind : {"committee"}, members : SUBSET Users]
  \cup [kind : {"vote"}, user : Users, choice : VoteChoices]
  \cup [kind : {"resolve"}, outcome : Outcome,
        by : {"creator", "committee", "resolver"}]

\* A handler starts: it has the process for itself and plans its commits.
Starts(plan) ==
  /\ todo = <<>>
  /\ todo' = plan
  /\ UNCHANGED <<row, holdings, money, votes, closed, burned, history>>

Use(what, bound) ==
  /\ used[what] < bound
  /\ used' = [used EXCEPT ![what] = @ + 1]

-----------------------------------------------------------------------------
(* Creating and trading.                                                   *)

CreateMarket ==
  /\ status = "NONE"
  /\ balance[Creator] >= Liquidity
  /\ Starts(<<Pays(Creator, "market_creation", -Liquidity, 0), Inserts>>)
  /\ UNCHANGED <<asked, used>>

\* Bug form: the creator is paid a share of the fee of its own trades too.
BugFeeToCreator(u, amount) ==
  <<Pays(Creator, "creator_fee", CreatorFee(amount), 0)>>

\* The creator's share of the fee of a trade by u, none on its own trades.
FeeToCreator(u, amount) ==
  IF u = Creator THEN <<>>
  ELSE <<Pays(Creator, "creator_fee", CreatorFee(amount), 0)>>

\* Bug form: the difference taken the wrong way round.
BugPlatformFee(u, amount) ==
  IF u = Creator THEN Fee(amount) ELSE CreatorFee(amount) - Fee(amount)

\* What the platform keeps of the fee of a trade by u.
PlatformFee(u, amount) ==
  IF u = Creator THEN Fee(amount) ELSE Fee(amount) - CreatorFee(amount)

\* Bug form: the fee is left out of the check.
BugCanPay(u, amount) == balance[u] >= amount

CanPay(u, amount) == balance[u] >= amount + Fee(amount)

\* Bug form: the position is written before the pool and its volume.
BugBetCommits(u, side, amount) ==
     <<Pays(u, "buy", -(amount + Fee(amount)), PlatformFee(u, amount)),
       AddsPosition(u, side, SharesBought(pool, side, amount), amount)>>
  \o FeeToCreator(u, amount)
  \o <<SetsPool(PoolAfterPurchase(pool, side, amount), amount),
       RecordsBet(amount)>>

BetCommits(u, side, amount) ==
  <<Pays(u, "buy", -(amount + Fee(amount)), PlatformFee(u, amount))>>
  \o (FeeToCreator(u, amount)
      \o <<SetsPool(PoolAfterPurchase(pool, side, amount), amount),
           AddsPosition(u, side, SharesBought(pool, side, amount), amount),
           RecordsBet(amount)>>)

PlaceBet(u, side, amount) ==
  /\ status = "OPEN"
  /\ CanPay(u, amount)
  /\ SharesBought(pool, side, amount) > 0
  /\ Starts(BetCommits(u, side, amount))
  /\ Use("trades", MaxTrades)
  /\ UNCHANGED asked

SaleCommits(u, side, n, amount) ==
  <<Pays(u, "sell", amount - Fee(amount), PlatformFee(u, amount))>>
  \o (FeeToCreator(u, amount)
      \o <<SetsPool(PoolAfterSale(pool, side, n, amount), 0),
           Reduces(u, side, n)>>)

SellShares(u, side, n) ==
  /\ status = "OPEN"
  /\ n <= shares[u][side]
  /\ \E amount \in SaleAmounts(pool, side, n) :
       /\ amount > 0
       /\ Starts(SaleCommits(u, side, n, amount))
  /\ Use("trades", MaxTrades)
  /\ UNCHANGED asked

\* Input bound: a holder sells all or half of its shares.
SaleSizes(n) == {n, n \div 2} \ {0}

-----------------------------------------------------------------------------
(* Committee and resolution.                                               *)

Investors == {u \in Traders : invested[u] > 0}

\* Bug form: the sort without reverse=True.
BugPossibleCommittees ==
  {{Creator} \cup top : top \in
     {S \in SUBSET Investors :
        /\ Cardinality(S) = Min({2, Cardinality(Investors)})
        /\ \A u \in S, v \in Investors \ S : invested[u] <= invested[v]}}

\* form_committee: the creator and the two traders who invested most; a tie
\* may fall either way.
PossibleCommittees ==
  {{Creator} \cup top : top \in
     {S \in SUBSET Investors :
        /\ Cardinality(S) = Min({2, Cardinality(Investors)})
        /\ \A u \in S, v \in Investors \ S : invested[u] >= invested[v]}}

\* check_committee_unanimity over the votes vs: it counts the votes of all
\* and compares those of the members.
UnanimousIn(vs, members) ==
  LET cast == {vs[u] : u \in members} \ {None}
  IN  /\ Cardinality({u \in Users : vs[u] # None}) >= Cardinality(members)
      /\ cast \in {{"YES"}, {"NO"}}

\* Bug form: off by one in the size that makes a committee.
BugWindowActive == Cardinality(committee) > 2 /\ window = "ahead"

\* len(committee) > 1 and now < resolution_deadline.
WindowActive == Cardinality(committee) > 1 /\ window = "ahead"

\* The creator, or anyone with the admin secret, resolves an OPEN market: a
\* committee is formed, and only a creator alone may go on at once.
ResolveOpen(outcome) ==
  /\ status = "OPEN"
  /\ \E members \in PossibleCommittees :
       Starts(<<SetsCommittee(members), SetsResolving>>
              \o (IF Cardinality(members) > 1 THEN <<>>
                  ELSE <<Resolves(outcome, "creator")>>))
  /\ UNCHANGED <<asked, used>>

\* Bug form: the check that the market is not resolved yet is missing.
BugResolveResolving(outcome) ==
  /\ status \in {"RESOLVING", "RESOLVED"}
  /\ ~WindowActive
  /\ Starts(<<Resolves(outcome, "creator")>>)
  /\ UNCHANGED <<asked, used>>

ResolveResolving(outcome) ==
  /\ status = "RESOLVING"
  /\ ~WindowActive
  /\ Starts(<<Resolves(outcome, "creator")>>)
  /\ UNCHANGED <<asked, used>>

\* Any user's call forms a committee that is missing; only members vote.
CastCommitteeVote(u, choice) ==
  /\ status = "RESOLVING"
  /\ \/ /\ committee = {}
        /\ \E members \in PossibleCommittees :
             Starts(<<SetsCommittee(members)>>
                    \o (IF u \in members THEN <<Votes(u, choice)>> ELSE <<>>))
     \/ /\ u \in committee
        /\ Starts(<<Votes(u, choice)>>)
  /\ UNCHANGED <<asked, used>>

\* request_resolution up to its await: the status is read here only.
RequestResolution ==
  /\ status \in {"OPEN", "RESOLVING"}
  /\ Use("questions", MaxQuestions)
  /\ asked' = asked + 1
  /\ Starts(<<>>)

\* request_resolution after its await; None when the agents do not decide.
ResolverAnswers(answer) ==
  /\ asked > 0
  /\ asked' = asked - 1
  /\ Starts(IF answer = None THEN <<>> ELSE <<Resolves(answer, "resolver")>>)
  /\ UNCHANGED used

-----------------------------------------------------------------------------
(* The background sweep and the admin endpoints.                           *)

\* Bug form: the comparison with closes_at the wrong way round.
BugSweep ==
  /\ status = "OPEN" /\ ~closed
  /\ \E members \in PossibleCommittees :
       Starts(<<SetsCommittee(members), SetsResolving>>)
  /\ UNCHANGED <<asked, used>>

Sweep ==
  /\ status = "OPEN" /\ closed
  /\ \E members \in PossibleCommittees :
       Starts(<<SetsCommittee(members), SetsResolving>>)
  /\ UNCHANGED <<asked, used>>

\* transition_expired_markets: one UPDATE, and no committee.
AdminTransition ==
  /\ status = "OPEN" /\ closed
  /\ Starts(<<SetsResolving>>)
  /\ Use("transitions", MaxTransitions)
  /\ UNCHANGED asked

TerminalPool(outcome) ==
  [s \in Outcome |-> IF s = outcome THEN 0 ELSE Scale]

\* Bug form: the losing side of the pool is credited.
BugRecovery(outcome) ==
  IF pool[outcome] = 0 THEN <<>>
  ELSE <<Pays(Creator, "creator_recovery", pool[Opposite(outcome)], 0)>>

\* Credit the winning side of the pool to the creator, and end the pool.
Recovery(outcome) ==
  IF pool[outcome] = 0 THEN <<>>
  ELSE <<Pays(Creator, "creator_recovery", pool[outcome], 0)>>

Winners(outcome) == {u \in Users : shares[u][outcome] > 0}

Holders == {u \in Users : shares[u] # Empty}

\* What a settlement and its repair end with.
Cleanup(outcome) ==
  Recovery(outcome) \o <<SetsPool(TerminalPool(outcome), 0)>> \o Clears(Holders)

\* Bug form: the positions are cleared first.
BugPayoutPlan(outcome) ==
     Clears(Holders) \o PaysWinners(outcome, Winners(outcome))
  \o Recovery(outcome) \o <<SetsPool(TerminalPool(outcome), 0)>>

\* calculate_and_distribute_payouts, from the positions and pool it reads.
PayoutPlan(outcome) == PaysWinners(outcome, Winners(outcome)) \o Cleanup(outcome)

FixResolutions ==
  /\ status = "RESOLVED"
  /\ pool[resolution] > 0
  /\ Starts(Cleanup(resolution))
  /\ Use("fixes", MaxFixes)
  /\ UNCHANGED asked

-----------------------------------------------------------------------------
(* The commits.                                                            *)

Committing(kind) == todo # <<>> /\ Head(todo).kind = kind

Rest == todo' = Tail(todo) /\ UNCHANGED <<asked, closed, used>>

Credits(u, type, amount) ==
  /\ balance' = [balance EXCEPT ![u] = @ + amount]
  /\ ledger' = [ledger EXCEPT ![u][type] = @ + amount]

\* The balance and its row in transactions are written in one commit.
UpdateUserBalance ==
  LET c == Head(todo)
  IN  /\ Committing("balance")
      /\ Credits(c.user, c.type, c.amount)
      /\ burned' = burned + c.fee
      /\ Rest
      /\ UNCHANGED <<row, holdings, votes, history>>

\* The next of the winners.  No position has moved since they were read.
PayWinner ==
  LET c == Head(todo)
  IN  /\ Committing("winners")
      /\ \E u \in c.left :
           /\ Credits(u, "payout", shares[u][c.outcome])
           /\ todo' = PaysWinners(c.outcome, c.left \ {u}) \o Tail(todo)
      /\ UNCHANGED <<row, holdings, votes, asked, closed, burned, history, used>>

InsertMarket ==
  /\ Committing("insert")
  /\ status' = "OPEN"
  /\ pool' = [s \in Outcome |-> Liquidity]
  /\ Rest
  /\ UNCHANGED <<resolution, volume, committee, window, holdings, money, votes,
                 burned, history>>

UpdateMarketPool ==
  LET c == Head(todo)
  IN  /\ Committing("pool")
      /\ pool' = c.pool
      /\ volume' = volume + c.volume
      /\ Rest
      /\ UNCHANGED <<status, resolution, committee, window, holdings, money,
                     votes, burned, history>>

UpdatePosition ==
  LET c == Head(todo)
  IN  /\ Committing("position")
      /\ shares' = [shares EXCEPT ![c.user][c.side] = @ + c.shares]
      /\ invested' = [invested EXCEPT ![c.user] = @ + c.cost]
      /\ Rest
      /\ UNCHANGED <<row, bets, money, votes, burned, history>>

ReducePosition ==
  LET c == Head(todo)
  IN  /\ Committing("reduce")
      /\ shares' = [shares EXCEPT ![c.user][c.side] = Max({0, @ - c.shares})]
      /\ Rest
      /\ UNCHANGED <<row, invested, bets, money, votes, burned, history>>

\* The next of the holders: its YES shares, then its NO shares, if any.
ClearPosition ==
  LET c == Head(todo)
  IN  /\ Committing("clear")
      /\ \E u \in c.left :
           /\ LET side == IF shares[u]["YES"] > 0 THEN "YES" ELSE "NO"
              IN  shares' = [shares EXCEPT ![u][side] = 0]
           /\ todo' = (IF shares'[u] = Empty THEN <<>> ELSE Clears({u}))
                       \o Clears(c.left \ {u}) \o Tail(todo)
      /\ UNCHANGED <<row, invested, bets, money, votes, asked, closed, burned,
                     history, used>>

CreateBet ==
  /\ Committing("bet")
  /\ bets' = bets + Head(todo).amount
  /\ Rest
  /\ UNCHANGED <<row, shares, invested, money, votes, burned, history>>

\* update_market_committee also sets the deadline, 30 minutes ahead.
UpdateMarketCommittee ==
  /\ Committing("committee")
  /\ committee' = Head(todo).members
  /\ window' = "ahead"
  /\ Rest
  /\ UNCHANGED <<status, resolution, pool, volume, holdings, money, votes,
                 burned, history>>

UpdateMarketStatus ==
  /\ Committing("status")
  /\ status' = "RESOLVING"
  /\ Rest
  /\ UNCHANGED <<resolution, pool, volume, committee, window, holdings, money,
                 votes, burned, history>>

\* The vote, and the count that follows it.
UpsertCommitteeVote ==
  LET c == Head(todo)
  IN  /\ Committing("vote")
      /\ votes' = [votes EXCEPT ![c.user] = c.choice]
      /\ todo' = IF UnanimousIn(votes', committee)
                 THEN <<Resolves(c.choice, "committee")>> ELSE <<>>
      /\ UNCHANGED <<row, holdings, money, asked, closed, burned, history, used>>

\* The row becomes RESOLVED, whatever it was, and the payouts are planned from
\* a fresh read of positions and pool.
ResolveMarket ==
  LET outcome == Head(todo).outcome
  IN  /\ Committing("resolve")
      /\ status' = "RESOLVED"
      /\ resolution' = outcome
      /\ todo' = PayoutPlan(outcome)
      /\ outcomes' = outcomes \cup {outcome}
      /\ IF outcomes = {}
         THEN /\ due' = [u \in Users |-> shares[u][outcome]]
              /\ residual' = pool[outcome]
         ELSE UNCHANGED <<due, residual>>
      /\ UNCHANGED <<pool, volume, committee, window, holdings, money, votes,
                     asked, closed, burned, used>>

Commit ==
  \/ UpdateUserBalance \/ PayWinner \/ InsertMarket \/ UpdateMarketPool
  \/ UpdatePosition \/ ReducePosition \/ ClearPosition \/ CreateBet
  \/ UpdateMarketCommittee \/ UpdateMarketStatus
  \/ UpsertCommitteeVote \/ ResolveMarket

-----------------------------------------------------------------------------
(* Failures and time.                                                      *)

\* A storage call raises: the request ends there, with what it committed.
RequestFails ==
  /\ todo # <<>>
  /\ todo' = <<>>
  /\ Use("failures", MaxFailures)
  /\ UNCHANGED <<row, holdings, money, votes, asked, closed, burned, history>>

\* The process restarts: the requests awaiting the resolver are lost as well.
\* A restart of an idle process changes nothing.
ProcessRestarts ==
  /\ todo # <<>> \/ asked > 0
  /\ todo' = <<>>
  /\ asked' = 0
  /\ Use("failures", MaxFailures)
  /\ UNCHANGED <<row, holdings, money, votes, closed, burned, history>>

CloseTimePasses ==
  /\ status # "NONE" /\ ~closed
  /\ closed' = TRUE
  /\ UNCHANGED <<row, holdings, money, votes, todo, asked, burned, history, used>>

WindowPasses ==
  /\ window = "ahead"
  /\ window' = "passed"
  /\ UNCHANGED <<status, resolution, pool, volume, committee, holdings, money,
                 votes, todo, asked, closed, burned, history, used>>

-----------------------------------------------------------------------------
Request ==
  \/ CreateMarket
  \/ \E u \in Users, side \in Outcome :
       \/ \E amount \in BetAmounts : PlaceBet(u, side, amount)
       \/ \E n \in SaleSizes(shares[u][side]) : SellShares(u, side, n)
  \/ \E outcome \in Outcome : ResolveOpen(outcome) \/ ResolveResolving(outcome)
  \/ \E u \in Users, choice \in VoteChoices : CastCommitteeVote(u, choice)
  \/ RequestResolution
  \/ \E answer \in Outcome \cup {None} : ResolverAnswers(answer)
  \/ AdminTransition
  \/ FixResolutions

Next ==
  \/ Request \/ Sweep \/ Commit
  \/ RequestFails \/ ProcessRestarts
  \/ CloseTimePasses \/ WindowPasses

Spec == Init /\ [][Next]_vars

\* The process goes on with the request it runs, and the event loop, first
\* come first served, gives the sweep its turn between requests.
FairSpec == Spec /\ WF_vars(Commit) /\ SF_vars(Sweep)

-----------------------------------------------------------------------------
TypeOK ==
  /\ status \in {"NONE", "OPEN", "RESOLVING", "RESOLVED"}
  /\ resolution \in Outcome \cup {None}
  /\ pool \in Pool /\ volume \in Nat
  /\ committee \in SUBSET Users /\ window \in {"unset", "ahead", "passed"}
  /\ shares \in [Users -> Pool] /\ invested \in [Users -> Nat] /\ bets \in Nat
  /\ balance \in [Users -> Int] /\ ledger \in [Users -> [TxTypes -> Int]]
  /\ votes \in [Users -> VoteChoices \cup {None}]
  /\ todo \in Seq(Commits) /\ asked \in 0..MaxQuestions
  /\ closed \in BOOLEAN
  /\ burned \in Nat /\ due \in [Users -> Nat] /\ residual \in Nat
  /\ outcomes \subseteq Outcome
  /\ used \in [trades : Nat, questions : Nat, transitions : Nat, fixes : Nat,
              failures : Nat]

Idle == todo = <<>>
Unfailing == used.failures = 0

Balances == SumFunction(balance)
InExistence(side) ==
  pool[side] + SumFunction([u \in Users |-> shares[u][side]])

\* Between requests none of which failed, no money has appeared or been lost:
\* balances, platform fees and the collateral behind the shares add up to
\* what the users began with.  The collateral is the number of shares of
\* either side until the market resolves (trades move complete sets), and
\* nothing once payouts.py has settled it, unless the outcome was rewritten.
Conservation ==
  Idle /\ Unfailing /\ Cardinality(outcomes) <= 1 =>
    \A side \in Outcome :
      Balances + burned
        + (IF status = "RESOLVED" THEN 0 ELSE InExistence(side))
      = Cardinality(Users) * StartBalance

\* The order of the commits of place_bet keeps the books one-sided at every
\* instant and after any failure: a bet is listed only if its position exists,
\* a position only if the pool and volume moved, and these only if it was paid.
BooksAgree ==
  /\ bets <= SumFunction(invested)
  /\ SumFunction(invested) <= volume
  /\ volume <= -SumFunction([u \in Users |-> ledger[u]["buy"]])

\* Nobody goes into debt, at no instant: trading.py and create_market check
\* the balance first and then debit without a floor in the UPDATE.
Solvent == \A u \in Users : balance[u] >= 0

\* A market under resolution, if nothing failed, is judged by its creator and
\* its largest investors, even when the committee was formed long after the
\* market stopped trading (committee.py, and the late formation of
\* cast_committee_vote after an admin transition).
CommitteeRepresents ==
  status = "RESOLVING" /\ committee # {} /\ Unfailing =>
    /\ Creator \in committee
    /\ Cardinality(committee) = 1 + Min({2, Cardinality(Investors)})
    /\ \A u \in committee \ {Creator}, v \in Investors \ committee :
         invested[u] >= invested[v]

\* While the window of a committee of several is running, the market is
\* resolved only by that committee's unanimity, or by the resolver the creator
\* asked; the window and the votes survive failures and restarts.
CommitteeWindow ==
  [][(/\ status # "RESOLVED" /\ status' = "RESOLVED"
      /\ Cardinality(committee) > 1 /\ window = "ahead")
     => \/ Head(todo).by = "resolver"
        \/ \A u \in committee : votes[u] = resolution']_vars

\* A settlement nothing cut short is complete: every winning share is paid
\* once, the creator gets the pool's winning side, and nothing is left in
\* positions or on the winning side of the pool.
SettledInFull ==
  status = "RESOLVED" /\ Idle /\ Unfailing /\ Cardinality(outcomes) = 1 =>
    /\ \A u \in Users : ledger[u]["payout"] = due[u] /\ shares[u] = Empty
    /\ ledger[Creator]["creator_recovery"] = residual
    /\ pool = TerminalPool(resolution)

\* No position is paid more than its winning shares at the first resolution,
\* whatever fails in between, whoever repeats the request or repairs the market.
\* Only a late answer of the resolver, which rewrites the outcome, starts a
\* second settlement.
Unasked == used.questions = 0
PaidAtMostOnce == Unasked => \A u \in Users : ledger[u]["payout"] <= due[u]

\* A winning position is cleared only after its holder was paid.
\* admin.py:115 says so of fix-resolutions: "Zero out all positions (already
\* paid out ...)".
ZeroedWerePaid ==
  status = "RESOLVED" =>
    \A u \in Users :
      shares[u] = Empty => ledger[u]["payout"] = due[u]

\* The order of the commits of payouts.py keeps it so after any failure; only
\* fix-resolutions, and a second settlement, can break it.
SettlementPaysFirst == used.fixes = 0 /\ Unasked => ZeroedWerePaid

\* models.py:77 on RESOLVED: "Final - outcome set, payouts distributed".
ResolvedIsFinal ==
  [][status = "RESOLVED" => status' = "RESOLVED" /\ resolution' = resolution]_vars

\* What the code keeps of it: a resolved market stays resolved, and only a late
\* answer of the resolver rewrites its outcome; no bet, vote or committee that
\* was under way reaches it.
OnlyTheResolverRewrites ==
  [][status = "RESOLVED" =>
       /\ status' = "RESOLVED"
       /\ resolution' # resolution => Head(todo).by = "resolver"
       /\ UNCHANGED <<volume, invested, bets, committee, votes>>]_vars

\* A market past its closing time leaves OPEN, although trading goes on until
\* it does and the sweep may be cut short: the sweep comes round again.
ClosedLeavesOpen == closed /\ status = "OPEN" ~> status # "OPEN"
=============================================================================
