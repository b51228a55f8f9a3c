---------------------------- MODULE MarketProofs ----------------------------
(***************************************************************************)
(* What one market keeps, for any traders, amounts, liquidity and number   *)
(* of trades, questions, transitions, repairs and failures.                *)
(***************************************************************************)
EXTENDS Market, Lemmas, FiniteSetTheorems, SequenceTheorems

-----------------------------------------------------------------------------
(* Plans.                                                                  *)

\* What a commit of each kind carries.
LEMMA CommitFields ==
  ASSUME NEW c \in Commits
  PROVE  /\ c.kind = "balance" =>
              /\ c.user \in Users /\ c.type \in TxTypes \ {"payout"}
              /\ c.amount \in Int /\ c.fee \in Nat
         /\ c.kind = "pool" => c.pool \in Pool /\ c.volume \in Nat
         /\ c.kind = "position" =>
              /\ c.user \in Users /\ c.side \in Outcome
              /\ c.shares \in Nat /\ c.cost \in Nat
         /\ c.kind = "reduce" =>
              c.user \in Users /\ c.side \in Outcome /\ c.shares \in Nat
         /\ c.kind = "winners" => c.outcome \in Outcome /\ c.left \subseteq Users
         /\ c.kind = "clear" => c.left \subseteq Users
         /\ c.kind = "bet" => c.amount \in Nat
         /\ c.kind = "committee" => c.members \subseteq Users
         /\ c.kind = "vote" => c.user \in Users /\ c.choice \in VoteChoices
         /\ c.kind = "resolve" =>
              /\ c.outcome \in Outcome
              /\ c.by \in {"creator", "committee", "resolver"}
BY DEF Commits

\* The constructors make commits.
LEMMA PaysIsCommit ==
  ASSUME NEW u \in Users, NEW type \in TxTypes \ {"payout"}, NEW amount \in Int,
         NEW fee \in Nat
  PROVE  Pays(u, type, amount, fee) \in Commits
BY DEF Pays, Commits

LEMMA TradesAreCommits ==
  ASSUME NEW u \in Users, NEW side \in Outcome, NEW n \in Nat, NEW k \in Nat,
         NEW m \in Pool
  PROVE  /\ SetsPool(m, k) \in Commits
         /\ AddsPosition(u, side, n, k) \in Commits
         /\ Reduces(u, side, n) \in Commits
         /\ RecordsBet(k) \in Commits
BY DEF SetsPool, AddsPosition, Reduces, RecordsBet, Commits

LEMMA SetsCommitteeIsCommit ==
  ASSUME NEW members \in SUBSET Users
  PROVE  SetsCommittee(members) \in Commits
BY DEF SetsCommittee, Commits

LEMMA MarksAreCommits == Inserts \in Commits /\ SetsResolving \in Commits
BY DEF Inserts, SetsResolving, Commits

LEMMA InsertsIsAPlan == <<Inserts>> \in Seq(Commits)
BY MarksAreCommits

LEMMA SettlementsAreCommits ==
  ASSUME NEW outcome \in Outcome, NEW left \in SUBSET Users
  PROVE  /\ PaysWinners(outcome, left) \in Seq(Commits)
         /\ Clears(left) \in Seq(Commits)
<1>1. /\ [kind |-> "winners", outcome |-> outcome, left |-> left] \in Commits
      /\ [kind |-> "clear", left |-> left] \in Commits
  BY DEF Commits
<1>2. CASE left = {}
  BY <1>2 DEF PaysWinners, Clears
<1>3. CASE left # {}
  BY <1>1, <1>3 DEF PaysWinners, Clears
<1> QED BY <1>2, <1>3

\* What follows the head of a plan that begins with a.
LEMMA PlanWithHead ==
  ASSUME NEW A, NEW q \in Seq(A), NEW a
  PROVE  /\ <<a>> \o q # <<>>
         /\ Head(<<a>> \o q) = a
         /\ Tail(<<a>> \o q) = q
         /\ \A B : a \in B /\ A \subseteq B => <<a>> \o q \in Seq(B)
OBVIOUS

LEMMA ShortPlans ==
  ASSUME NEW a, NEW b, NEW c
  PROVE  <<a>> \o <<b>> = <<a, b>> /\ <<a, b>> \o <<c>> = <<a, b, c>>
<1> DEFINE A == {a, b, c}
<1>1. \A x \in A, y \in A : <<x>> \in Seq(A) /\ <<x, y>> \in Seq(A)
  OBVIOUS
<1>2. <<a, b, c>> \in Seq(A)
  OBVIOUS
<1> HIDE DEF A
<1>3. a \in A /\ b \in A /\ c \in A
  BY DEF A
<1>4. <<a>> \o <<b>> = <<a, b>>
  <2>1. <<a>> \o <<b>> \in Seq(A) /\ Len(<<a>> \o <<b>>) = 2
        /\ (<<a>> \o <<b>>)[1] = a /\ (<<a>> \o <<b>>)[2] = b
    BY <1>1, <1>3, ConcatProperties
  <2> DEFINE s == <<a>> \o <<b>>
             t == <<a, b>>
  <2>2. s \in Seq(A) /\ t \in Seq(A) /\ Len(s) = 2 /\ Len(t) = 2
        /\ \A i \in 1..2 : s[i] = t[i]
    BY <1>1, <1>3, <2>1
  <2> HIDE DEF s, t
  <2>3. s = t
    BY <2>2, SeqEqual
  <2> QED BY <2>3 DEF s, t
<1>5. <<a, b>> \o <<c>> = <<a, b, c>>
  <2>1. <<a, b>> \o <<c>> \in Seq(A) /\ Len(<<a, b>> \o <<c>>) = 3
        /\ (<<a, b>> \o <<c>>)[1] = a /\ (<<a, b>> \o <<c>>)[2] = b
        /\ (<<a, b>> \o <<c>>)[3] = c
    BY <1>1, <1>3, ConcatProperties
  <2> DEFINE s == <<a, b>> \o <<c>>
             t == <<a, b, c>>
  <2>2. s \in Seq(A) /\ t \in Seq(A) /\ Len(s) = 3 /\ Len(t) = 3
        /\ \A i \in 1..3 : s[i] = t[i]
    BY <1>2, <2>1
  <2> HIDE DEF s, t
  <2>3. s = t
    BY <2>2, SeqEqual
  <2> QED BY <2>3 DEF s, t
<1> QED BY <1>4, <1>5

\* Fees are natural numbers, no more than what they are taken from.
LEMMA FeesTyped ==
  ASSUME NEW u, NEW amount \in Nat
  PROVE  /\ Fee(amount) \in Nat /\ Fee(amount) <= amount
         /\ CreatorFee(amount) \in Nat
         /\ PlatformFee(u, amount) \in Nat
<1>1. Fee(amount) \in Nat /\ Fee(amount) <= amount
  BY DEF Fee
<1>2. ASSUME NEW f \in Nat PROVE f \div 2 \in Nat /\ f \div 2 <= f
  OBVIOUS
<1> QED BY <1>1, <1>2 DEF CreatorFee, PlatformFee

\* What follows the debit of a bet, and what a sale does: nobody is debited,
\* and nothing settled.
TradeCommits ==
  {c \in Commits : /\ c.kind \in {"balance", "pool", "position", "reduce", "bet"}
                   /\ c.kind = "balance" =>
                        c.amount >= 0 /\ c.type # "creator_recovery"}

\* What follows the payments of a settlement.
SettleCommits ==
  {c \in Commits : /\ c.kind \in {"balance", "pool", "clear"}
                   /\ c.kind = "balance" =>
                        /\ c.user = Creator /\ c.type = "creator_recovery"
                        /\ c.amount >= 0 /\ c.fee = 0
                   /\ c.kind = "pool" => c.volume = 0}

LEMMA FeeToCreatorTyped ==
  ASSUME NEW u \in Users, NEW amount \in Nat
  PROVE  FeeToCreator(u, amount) \in Seq(TradeCommits)
<1>1. Pays(Creator, "creator_fee", CreatorFee(amount), 0) \in Commits
  BY FeesTyped, PaysIsCommit DEF Users, TxTypes
<1>2. Pays(Creator, "creator_fee", CreatorFee(amount), 0) \in TradeCommits
  BY <1>1, FeesTyped DEF TradeCommits, Pays
<1> QED BY <1>2 DEF FeeToCreator

LEMMA BetPlan ==
  ASSUME NEW u \in Users, NEW side \in Outcome, NEW amount \in Nat \ {0},
         pool \in Pool, SharesBought(pool, side, amount) > 0
  PROVE  \E q \in Seq(TradeCommits), fee \in Nat :
           BetCommits(u, side, amount)
             = <<Pays(u, "buy", -(amount + Fee(amount)), fee)>> \o q
<1> DEFINE n == SharesBought(pool, side, amount)
           m == PoolAfterPurchase(pool, side, amount)
           rest == <<SetsPool(m, amount), AddsPosition(u, side, n, amount),
                     RecordsBet(amount)>>
<1>1. m \in Pool
  BY PurchaseKeepsProduct
<1>2. n \in Nat
  BY <1>1 DEF SharesBought, Pool
<1> HIDE DEF n, m
<1>3. /\ SetsPool(m, amount) \in TradeCommits
      /\ AddsPosition(u, side, n, amount) \in TradeCommits
      /\ RecordsBet(amount) \in TradeCommits
  BY <1>1, <1>2, TradesAreCommits
     DEF TradeCommits, SetsPool, AddsPosition, RecordsBet
<1>4. rest \in Seq(TradeCommits)
  BY <1>3
<1> HIDE DEF rest
<1>5. FeeToCreator(u, amount) \o rest \in Seq(TradeCommits)
  BY <1>4, FeeToCreatorTyped, ConcatProperties
<1>6. PlatformFee(u, amount) \in Nat
  BY FeesTyped
<1> QED BY <1>5, <1>6 DEF BetCommits, rest, m, n

LEMMA SalePlan ==
  ASSUME NEW u \in Users, NEW side \in Outcome, NEW n \in Nat,
         pool \in Pool, NEW amount \in SaleAmounts(pool, side, n)
  PROVE  SaleCommits(u, side, n, amount) \in Seq(TradeCommits)
<1> DEFINE m == PoolAfterSale(pool, side, n, amount)
           rest == <<SetsPool(m, 0), Reduces(u, side, n)>>
           credit == Pays(u, "sell", amount - Fee(amount), PlatformFee(u, amount))
<1>1. amount \in Nat /\ m \in Pool
  BY SaleKeepsPool
<1> HIDE DEF m
<1>2. SetsPool(m, 0) \in TradeCommits /\ Reduces(u, side, n) \in TradeCommits
  BY <1>1, TradesAreCommits DEF TradeCommits, SetsPool, Reduces
<1>3. rest \in Seq(TradeCommits)
  BY <1>2
<1> HIDE DEF rest
<1>4. FeeToCreator(u, amount) \o rest \in Seq(TradeCommits)
  BY <1>1, <1>3, FeeToCreatorTyped, ConcatProperties
<1>5. amount - Fee(amount) \in Nat /\ PlatformFee(u, amount) \in Nat
  BY <1>1, FeesTyped
<1>6. credit \in Commits
  BY <1>5, PaysIsCommit DEF TxTypes
<1>7. credit \in TradeCommits
  BY <1>5, <1>6 DEF TradeCommits, Pays
<1> QED BY <1>4, <1>7, PlanWithHead DEF SaleCommits, rest, m, credit

LEMMA ClearsTyped ==
  ASSUME NEW left \in SUBSET Users
  PROVE  Clears(left) \in Seq(SettleCommits)
<1>1. [kind |-> "clear", left |-> left] \in SettleCommits
  BY DEF Commits, SettleCommits
<1>2. CASE left = {}
  BY <1>2 DEF Clears
<1>3. CASE left # {}
  BY <1>1, <1>3 DEF Clears
<1> QED BY <1>2, <1>3

\* The end of a settlement.
LEMMA CleanupPlan ==
  ASSUME NEW outcome \in Outcome, pool \in Pool
  PROVE  Cleanup(outcome) \in Seq(SettleCommits)
<1>1. pool[outcome] \in Nat /\ pool[outcome] \in Int
  BY DEF Pool
<1>2. Pays(Creator, "creator_recovery", pool[outcome], 0) \in Commits
  <2>1. Creator \in Users /\ "creator_recovery" \in TxTypes \ {"payout"}
    BY DEF Users, TxTypes
  <2> QED BY <1>1, <2>1, PaysIsCommit
<1>3. Pays(Creator, "creator_recovery", pool[outcome], 0) \in SettleCommits
  BY <1>1, <1>2 DEF SettleCommits, Pays
<1>4. Recovery(outcome) \in Seq(SettleCommits)
  BY <1>3 DEF Recovery
<1>5. TerminalPool(outcome) \in Pool
  BY AmountsAssumption DEF TerminalPool, Pool
<1>6. SetsPool(TerminalPool(outcome), 0) \in Commits
  BY <1>5, TradesAreCommits DEF Users
<1>7. SetsPool(TerminalPool(outcome), 0) \in SettleCommits
  BY <1>6 DEF SettleCommits, SetsPool
<1>8. Holders \in SUBSET Users
  BY DEF Holders
<1>9. Clears(Holders) \in Seq(SettleCommits)
  BY <1>8, ClearsTyped
<1> QED BY <1>4, <1>7, <1>9, ConcatProperties DEF Cleanup

-----------------------------------------------------------------------------
(* The plans the process can be in the middle of, and what they rely on.   *)

NobodyVoted == \A u \in Users : votes[u] = None

\* A debit is at the head only, and the balance it was checked against is
\* still there: no other request has run since.
Debits(u, cost, fee, type, rest) ==
  /\ todo = <<Pays(u, type, -cost, fee)>> \o rest
  /\ cost <= balance[u]

Creating ==
  /\ status = "NONE"
  /\ \/ Debits(Creator, Liquidity, 0, "market_creation", <<Inserts>>)
     \/ todo = <<Inserts>>

Trading ==
  /\ status = "OPEN"
  /\ \/ \E u \in Users, cost \in Nat, fee \in Nat, rest \in Seq(TradeCommits) :
          Debits(u, cost, fee, "buy", rest)
     \/ todo \in Seq(TradeCommits)

Settling ==
  /\ status = "RESOLVED"
  /\ \/ \E outcome \in Outcome, left \in SUBSET Users, rest \in Seq(SettleCommits) :
          /\ left # {}
          /\ todo = PaysWinners(outcome, left) \o rest
     \/ todo \in Seq(SettleCommits)

\* A committee is formed before its market has a vote.
Convening ==
  /\ NobodyVoted
  /\ \E members \in PossibleCommittees :
       \/ /\ status = "OPEN"
          /\ \/ todo = <<SetsCommittee(members), SetsResolving>>
             \/ /\ Cardinality(members) <= 1
                /\ \E outcome \in Outcome :
                     todo = <<SetsCommittee(members), SetsResolving,
                              Resolves(outcome, "creator")>>
       \/ /\ status = "RESOLVING"
          /\ \/ todo = <<SetsCommittee(members)>>
             \/ \E u \in members, choice \in VoteChoices :
                  todo = <<SetsCommittee(members), Votes(u, choice)>>

Marking ==
  /\ status = "OPEN"
  /\ \/ todo = <<SetsResolving>>
     \/ /\ ~WindowActive
        /\ \E outcome \in Outcome :
             todo = <<SetsResolving, Resolves(outcome, "creator")>>

Voting ==
  /\ status = "RESOLVING"
  /\ \E u \in committee, choice \in VoteChoices : todo = <<Votes(u, choice)>>

\* The creator resolves outside a window, a committee by its own votes, and
\* the resolver's answer at any time.
Deciding ==
  \E outcome \in Outcome, by \in {"creator", "committee", "resolver"} :
    /\ todo = <<Resolves(outcome, by)>>
    /\ by = "creator" => status = "RESOLVING" /\ ~WindowActive
    /\ by = "committee" =>
         status = "RESOLVING" /\ \A u \in committee : votes[u] = outcome
    /\ by = "resolver" => used.questions > 0

Planned ==
  \/ todo = <<>> \/ Creating \/ Trading \/ Settling
  \/ Convening \/ Marking \/ Voting \/ Deciding

\* Only members have voted, and nobody before the market is under resolution.
VotesAreOfMembers ==
  /\ \A u \in Users : votes[u] # None => u \in committee
  /\ status \in {"NONE", "OPEN"} => NobodyVoted

Counters == [trades : Nat, questions : Nat, transitions : Nat, fixes : Nat,
             failures : Nat]

\* As many requests await the resolver as have asked it, at most.
Counted ==
  used \in Counters /\ used.questions <= MaxQuestions /\ asked \in 0..used.questions

ResolvedHasOutcome == status = "RESOLVED" => resolution \in Outcome

MarketInv ==
  TypeOK /\ Counted /\ Planned /\ VotesAreOfMembers /\ ResolvedHasOutcome

\* A committee that may be formed is of users.
LEMMA CommitteesAreUsers == PossibleCommittees \subseteq SUBSET Users
BY DEF PossibleCommittees, Investors, Users

\* Who has invested how much stays, and so does the choice.
LEMMA ChoiceStays ==
  ASSUME UNCHANGED invested
  PROVE  PossibleCommittees' = PossibleCommittees
BY DEF PossibleCommittees, Investors

LEMMA InitEstablishesInv == Init => MarketInv
<1> SUFFICES ASSUME Init PROVE MarketInv
  OBVIOUS
<1> USE DEF Init
<1>1. TypeOK
  <2>1. pool \in Pool /\ shares \in [Users -> Pool]
    BY DEF Empty, Pool
  <2>2. balance \in [Users -> Int] /\ ledger \in [Users -> [TxTypes -> Int]]
    BY AmountsAssumption
  <2>3. asked \in 0..MaxQuestions
    BY BoundsAssumption
  <2>4. todo \in Seq(Commits)
    OBVIOUS
  <2> QED BY <2>1, <2>2, <2>3, <2>4 DEF TypeOK
<1>2. Counted
  BY BoundsAssumption DEF Counted, Counters
<1> QED BY <1>1, <1>2
       DEF MarketInv, Planned, VotesAreOfMembers, NobodyVoted, ResolvedHasOutcome

-----------------------------------------------------------------------------
(* The commits: what they change.                                          *)

\* The plan of a running request, one commit at a time.
LEMMA HeadAndTail ==
  ASSUME TypeOK, todo # <<>>
  PROVE  Head(todo) \in Commits /\ Tail(todo) \in Seq(Commits)
BY HeadTailProperties DEF TypeOK

LEMMA CreditsTyped ==
  ASSUME TypeOK, NEW u \in Users, NEW type \in TxTypes, NEW amount \in Int,
         Credits(u, type, amount)
  PROVE  balance' \in [Users -> Int] /\ ledger' \in [Users -> [TxTypes -> Int]]
BY DEF TypeOK, Credits

LEMMA BalanceTyped == ASSUME TypeOK, UpdateUserBalance PROVE TypeOK'
<1> DEFINE c == Head(todo)
<1>1. /\ c \in Commits /\ c.kind = "balance" /\ Tail(todo) \in Seq(Commits)
  BY HeadAndTail DEF UpdateUserBalance, Committing
<1>2. /\ c.user \in Users /\ c.type \in TxTypes /\ c.amount \in Int /\ c.fee \in Nat
  BY <1>1, CommitFields
<1>3. balance' \in [Users -> Int] /\ ledger' \in [Users -> [TxTypes -> Int]]
  BY <1>2, CreditsTyped DEF UpdateUserBalance
<1>4. burned' \in Nat
  <2>1. burned' = burned + c.fee /\ burned \in Nat
    BY DEF UpdateUserBalance, TypeOK
  <2> HIDE DEF c
  <2> QED BY <1>2, <2>1
<1> QED BY <1>1, <1>3, <1>4 DEF UpdateUserBalance, Rest, TypeOK, row, holdings, history

LEMMA WinnerTyped == ASSUME TypeOK, PayWinner PROVE TypeOK'
<1> DEFINE c == Head(todo)
<1>1. /\ c \in Commits /\ c.kind = "winners" /\ Tail(todo) \in Seq(Commits)
  BY HeadAndTail DEF PayWinner, Committing
<1>2. c.outcome \in Outcome /\ c.left \subseteq Users
  BY <1>1, CommitFields
<1>3. PICK u \in c.left :
        /\ Credits(u, "payout", shares[u][c.outcome])
        /\ todo' = PaysWinners(c.outcome, c.left \ {u}) \o Tail(todo)
  BY DEF PayWinner
<1>4. u \in Users /\ shares[u][c.outcome] \in Int /\ "payout" \in TxTypes
  BY <1>2 DEF TypeOK, Pool, TxTypes
<1>5. balance' \in [Users -> Int] /\ ledger' \in [Users -> [TxTypes -> Int]]
  BY <1>3, <1>4, CreditsTyped
<1>6. todo' \in Seq(Commits)
  <2>1. PaysWinners(c.outcome, c.left \ {u}) \in Seq(Commits)
    BY <1>2, SettlementsAreCommits
  <2> QED BY <1>1, <1>3, <2>1, ConcatProperties
<1> QED BY <1>5, <1>6 DEF PayWinner, TypeOK, row, holdings, history

LEMMA ClearTyped == ASSUME TypeOK, ClearPosition PROVE TypeOK'
<1> DEFINE c == Head(todo)
<1>1. /\ c \in Commits /\ c.kind = "clear" /\ Tail(todo) \in Seq(Commits)
  BY HeadAndTail DEF ClearPosition, Committing
<1>2. c.left \subseteq Users
  BY <1>1, CommitFields
<1>3. PICK u \in c.left :
        /\ LET side == IF shares[u]["YES"] > 0 THEN "YES" ELSE "NO"
           IN  shares' = [shares EXCEPT ![u][side] = 0]
        /\ todo' = (IF shares'[u] = Empty THEN <<>> ELSE Clears({u}))
                     \o Clears(c.left \ {u}) \o Tail(todo)
  BY DEF ClearPosition
<1>4. shares' \in [Users -> Pool]
  BY <1>2, <1>3 DEF TypeOK, Pool, Outcome
<1>5. todo' \in Seq(Commits)
  <2>1. Clears({u}) \in Seq(Commits) /\ Clears(c.left \ {u}) \in Seq(Commits)
    BY <1>2, SettlementsAreCommits DEF Outcome
  <2>2. Clears({u}) \o Clears(c.left \ {u}) \in Seq(Commits)
    BY <2>1, ConcatProperties
  <2>3. CASE shares'[u] = Empty
    BY <1>1, <1>3, <2>1, <2>3, ConcatProperties
  <2>4. CASE shares'[u] # Empty
    BY <1>1, <1>3, <2>2, <2>4, ConcatProperties
  <2> QED BY <2>3, <2>4
<1> QED BY <1>4, <1>5 DEF ClearPosition, TypeOK, row, money, history

LEMMA LesserStays ==
  ASSUME NEW n \in Nat, NEW k \in Nat
  PROVE  Max({0, n - k}) \in Nat
<1> DEFINE S == {0, n - k}
<1>1. CASE n - k >= 0
  <2>1. \A y \in S : n - k >= y
    BY <1>1
  <2> QED BY <1>1, <2>1 DEF Max
<1>2. CASE n - k < 0
  <2>1. \A y \in S : 0 >= y
    BY <1>2
  <2> QED BY <1>2, <2>1 DEF Max
<1> QED BY <1>1, <1>2

LEMMA HoldingsTyped ==
  ASSUME TypeOK, UpdatePosition \/ ReducePosition \/ CreateBet
  PROVE  TypeOK'
<1> DEFINE c == Head(todo)
<1>1. c \in Commits /\ Tail(todo) \in Seq(Commits)
  BY HeadAndTail DEF UpdatePosition, ReducePosition, CreateBet, Committing
<1>2. CASE UpdatePosition
  <2>1. /\ c.user \in Users /\ c.side \in Outcome
        /\ c.shares \in Nat /\ c.cost \in Nat
    BY <1>1, <1>2, CommitFields DEF UpdatePosition, Committing
  <2>2. shares' \in [Users -> Pool]
    <3>1. shares[c.user][c.side] + c.shares \in Nat
      <4>1. shares[c.user][c.side] \in Nat
        BY <2>1 DEF TypeOK, Pool
      <4> HIDE DEF c
      <4> QED BY <2>1, <4>1
    <3>2. shares' = [shares EXCEPT ![c.user][c.side] = shares[c.user][c.side] + c.shares]
      BY <1>2 DEF UpdatePosition
    <3> QED BY <2>1, <3>1, <3>2 DEF TypeOK, Pool
  <2>3. invested' \in [Users -> Nat]
    BY <1>2, <2>1 DEF UpdatePosition, TypeOK
  <2> QED BY <1>1, <1>2, <2>2, <2>3 DEF UpdatePosition, Rest, TypeOK, row, money, history
<1>3. CASE ReducePosition
  <2>1. c.user \in Users /\ c.side \in Outcome /\ c.shares \in Nat
    BY <1>1, <1>3, CommitFields DEF ReducePosition, Committing
  <2>2. Max({0, shares[c.user][c.side] - c.shares}) \in Nat
    <3>1. shares[c.user][c.side] \in Nat
      BY <2>1 DEF TypeOK, Pool
    <3> HIDE DEF c
    <3> QED BY <2>1, <3>1, LesserStays
  <2>3. shares' \in [Users -> Pool]
    BY <1>3, <2>1, <2>2 DEF ReducePosition, TypeOK, Pool
  <2> QED BY <1>1, <1>3, <2>3 DEF ReducePosition, Rest, TypeOK, row, money, history
<1>4. CASE CreateBet
  <2>1. c.amount \in Nat
    BY <1>1, <1>4, CommitFields DEF CreateBet, Committing
  <2>2. bets' \in Nat
    <3>1. bets' = bets + c.amount /\ bets \in Nat
      BY <1>4 DEF CreateBet, TypeOK
    <3> HIDE DEF c
    <3> QED BY <2>1, <3>1
  <2> QED BY <1>1, <1>4, <2>2 DEF CreateBet, Rest, TypeOK, row, money, history
<1> QED BY <1>2, <1>3, <1>4

LEMMA RowTyped ==
  ASSUME TypeOK, \/ InsertMarket \/ UpdateMarketPool
                 \/ UpdateMarketCommittee \/ UpdateMarketStatus
  PROVE  TypeOK'
<1> DEFINE c == Head(todo)
<1>1. c \in Commits /\ Tail(todo) \in Seq(Commits)
  BY HeadAndTail DEF InsertMarket, UpdateMarketPool, UpdateMarketCommittee,
                     UpdateMarketStatus, Committing
<1> USE DEF Rest, TypeOK, holdings, money, history
<1>2. CASE InsertMarket
  <2>1. pool' \in Pool
    BY <1>2, AmountsAssumption DEF InsertMarket, Pool
  <2> QED BY <1>1, <1>2, <2>1 DEF InsertMarket
<1>3. CASE UpdateMarketPool
  <2>1. c.pool \in Pool /\ c.volume \in Nat
    BY <1>1, <1>3, CommitFields DEF UpdateMarketPool, Committing
  <2>2. volume' \in Nat
    <3>1. volume' = volume + c.volume /\ volume \in Nat
      BY <1>3 DEF UpdateMarketPool
    <3> HIDE DEF c
    <3> QED BY <2>1, <3>1
  <2> QED BY <1>1, <1>3, <2>1, <2>2 DEF UpdateMarketPool
<1>4. CASE UpdateMarketCommittee
  <2>1. c.members \subseteq Users
    BY <1>1, <1>4, CommitFields DEF UpdateMarketCommittee, Committing
  <2> QED BY <1>1, <1>4, <2>1 DEF UpdateMarketCommittee
<1>5. CASE UpdateMarketStatus
  BY <1>1, <1>5 DEF UpdateMarketStatus
<1> QED BY <1>2, <1>3, <1>4, <1>5

LEMMA PayoutPlanTyped ==
  ASSUME NEW outcome \in Outcome, pool \in Pool
  PROVE  /\ PayoutPlan(outcome) \in Seq(Commits)
         /\ \/ /\ Winners(outcome) = {}
               /\ PayoutPlan(outcome) \in Seq(SettleCommits)
            \/ /\ Winners(outcome) # {}
               /\ \E rest \in Seq(SettleCommits) :
                    PayoutPlan(outcome)
                      = PaysWinners(outcome, Winners(outcome)) \o rest
<1>1. Cleanup(outcome) \in Seq(SettleCommits)
  BY CleanupPlan
<1>2. Cleanup(outcome) \in Seq(Commits)
  BY <1>1, SeqMonotonic DEF SettleCommits
<1>3. Winners(outcome) \in SUBSET Users
  BY DEF Winners
<1>4. PaysWinners(outcome, Winners(outcome)) \in Seq(Commits)
  BY <1>3, SettlementsAreCommits
<1>5. PayoutPlan(outcome) \in Seq(Commits)
  BY <1>2, <1>4, ConcatProperties DEF PayoutPlan
<1>6. CASE Winners(outcome) = {}
  <2>1. PayoutPlan(outcome) = Cleanup(outcome)
    BY <1>1, <1>6, ConcatEmptySeq DEF PayoutPlan, PaysWinners
  <2> QED BY <1>1, <1>5, <1>6, <2>1
<1>7. CASE Winners(outcome) # {}
  BY <1>1, <1>5, <1>7 DEF PayoutPlan
<1> QED BY <1>6, <1>7

LEMMA ResolveTyped == ASSUME TypeOK, ResolveMarket PROVE TypeOK'
<1> DEFINE outcome == Head(todo).outcome
<1>1. outcome \in Outcome
  BY HeadAndTail, CommitFields DEF ResolveMarket, Committing
<1>2. todo' \in Seq(Commits)
  BY <1>1, PayoutPlanTyped DEF ResolveMarket, TypeOK
<1>3. due' \in [Users -> Nat] /\ residual' \in Nat
  BY <1>1 DEF ResolveMarket, TypeOK, Pool
<1> QED BY <1>1, <1>2, <1>3 DEF ResolveMarket, TypeOK, holdings, money

-----------------------------------------------------------------------------
(* Counting votes.                                                         *)

LEMMA UsersAreFinite == IsFiniteSet(Users)
BY UsersAssumption, FS_AddElement DEF Users

\* When the votes cast by members are as many as the members, and say one
\* thing, every member said it.
LEMMA UnanimityIsOfAll ==
  ASSUME NEW vs \in [Users -> VoteChoices \cup {None}],
         NEW members \in SUBSET Users,
         \A u \in Users : vs[u] # None => u \in members,
         UnanimousIn(vs, members)
  PROVE  \E outcome \in Outcome : \A u \in members : vs[u] = outcome
<1> DEFINE voters == {u \in Users : vs[u] # None}
           cast   == {vs[u] : u \in members} \ {None}
<1>1. IsFiniteSet(members) /\ voters \subseteq members
  BY UsersAreFinite, FS_Subset
<1>2. Cardinality(voters) >= Cardinality(members)
  BY DEF UnanimousIn
<1>3. voters = members
  <2>1. IsFiniteSet(voters) /\ Cardinality(voters) <= Cardinality(members)
    BY <1>1, FS_Subset
  <2>2. Cardinality(members) \in Nat /\ Cardinality(voters) \in Nat
    BY <1>1, <2>1, FS_CardinalityType
  <2>3. Cardinality(voters) = Cardinality(members)
    BY <1>2, <2>1, <2>2
  <2> QED BY <1>1, <2>3, FS_Subset
<1>4. PICK outcome \in Outcome : cast = {outcome}
  BY DEF UnanimousIn, Outcome
<1>5. ASSUME NEW u \in members PROVE vs[u] = outcome
  <2>1. vs[u] # None
    BY <1>3
  <2> QED BY <1>4, <2>1
<1> QED BY <1>5

\* A vote leaves the votes those of members, and decides what all of them said.
LEMMA VoteEffect ==
  ASSUME MarketInv, Voting, UpsertCommitteeVote
  PROVE  /\ votes' \in [Users -> VoteChoices \cup {None}]
         /\ \A u \in Users : votes'[u] # None => u \in committee
         /\ \/ todo' = <<>>
            \/ \E outcome \in Outcome :
                 /\ todo' = <<Resolves(outcome, "committee")>>
                 /\ \A u \in committee : votes'[u] = outcome
<1>1. PICK u \in committee, choice \in VoteChoices : todo = <<Votes(u, choice)>>
  BY DEF Voting
<1>2. u \in Users /\ committee \in SUBSET Users
  BY DEF MarketInv, TypeOK
<1>3. Head(todo).user = u /\ Head(todo).choice = choice
  BY <1>1 DEF Votes
<1>4. /\ votes' = [votes EXCEPT ![u] = choice]
      /\ todo' = IF UnanimousIn(votes', committee)
                 THEN <<Resolves(choice, "committee")>> ELSE <<>>
  BY <1>3 DEF UpsertCommitteeVote
<1>5. votes' \in [Users -> VoteChoices \cup {None}]
  BY <1>2, <1>4 DEF MarketInv, TypeOK
<1>6. \A v \in Users : votes'[v] # None => v \in committee
  BY <1>1, <1>2, <1>4 DEF MarketInv, TypeOK, VotesAreOfMembers
<1>7. CASE UnanimousIn(votes', committee)
  <2>1. PICK outcome \in Outcome : \A v \in committee : votes'[v] = outcome
    BY <1>2, <1>5, <1>6, <1>7, UnanimityIsOfAll
  <2>2. outcome = choice
    BY <1>2, <1>4, <2>1 DEF MarketInv, TypeOK
  <2> QED BY <1>4, <1>5, <1>6, <1>7, <2>1, <2>2
<1>8. CASE ~UnanimousIn(votes', committee)
  BY <1>4, <1>5, <1>6, <1>8
<1> QED BY <1>7, <1>8

-----------------------------------------------------------------------------
(* Where a running plan goes with its next commit, from each of its forms. *)

\* What the members vote and what they judge stays.
Unjudged == UNCHANGED <<status, committee, window, votes>>

\* The commits that move shares and money change nothing else.
LEMMA MoneyMoves ==
  ASSUME Commit,
         Head(todo).kind \in {"balance", "pool", "position", "reduce", "bet"}
  PROVE  todo' = Tail(todo) /\ Unjudged /\ UNCHANGED <<asked, used>>
BY DEF Commit, Committing, UpdateUserBalance, PayWinner, InsertMarket,
       UpdateMarketPool, UpdatePosition, ReducePosition, ClearPosition, CreateBet,
       UpdateMarketCommittee, UpdateMarketStatus, UpsertCommitteeVote, ResolveMarket,
       Rest, Unjudged, row

\* The kind of the next commit is the action that makes it.
LEMMA KindsAreActions ==
  ASSUME Commit
  PROVE  /\ todo # <<>>
         /\ Head(todo).kind = "winners" => PayWinner
         /\ Head(todo).kind = "clear" => ClearPosition
         /\ Head(todo).kind = "insert" => InsertMarket
         /\ Head(todo).kind = "committee" => UpdateMarketCommittee
         /\ Head(todo).kind = "status" => UpdateMarketStatus
         /\ Head(todo).kind = "vote" => UpsertCommitteeVote
         /\ Head(todo).kind = "resolve" => ResolveMarket
BY DEF Commit, Committing, UpdateUserBalance, PayWinner, InsertMarket,
       UpdateMarketPool, UpdatePosition, ReducePosition, ClearPosition, CreateBet,
       UpdateMarketCommittee, UpdateMarketStatus, UpsertCommitteeVote, ResolveMarket

JudgesKept == Planned /\ VotesAreOfMembers

LEMMA CreatingGoesOn ==
  ASSUME MarketInv, Creating, Commit
  PROVE  JudgesKept'
<1>1. ASSUME todo = <<Inserts>> PROVE JudgesKept'
  <2>1. InsertMarket
    BY <1>1, KindsAreActions DEF Inserts
  <2>2. todo' = <<>> /\ status' = "OPEN" /\ UNCHANGED <<committee, votes>>
    BY <1>1, <2>1 DEF InsertMarket, Rest
  <2> QED
    BY <2>2 DEF JudgesKept, Planned, Creating, MarketInv, VotesAreOfMembers, NobodyVoted
<1>2. ASSUME Debits(Creator, Liquidity, 0, "market_creation", <<Inserts>>)
      PROVE  JudgesKept'
  <2>1. /\ Head(todo) = Pays(Creator, "market_creation", -Liquidity, 0)
        /\ Tail(todo) = <<Inserts>>
    BY <1>2, InsertsIsAPlan, PlanWithHead DEF Debits
  <2>2. Head(todo).kind = "balance"
    BY <2>1 DEF Pays
  <2>3. todo' = <<Inserts>> /\ Unjudged
    BY <2>1, <2>2, MoneyMoves
  <2> QED
    BY <2>3 DEF JudgesKept, Planned, Creating, MarketInv, VotesAreOfMembers,
                NobodyVoted, Unjudged
<1> QED BY <1>1, <1>2 DEF Creating

\* What the next commit of a trade or a settlement can be.
LEMMA TradingHead ==
  ASSUME Trading, todo # <<>>
  PROVE  /\ Head(todo).kind \in {"balance", "pool", "position", "reduce", "bet"}
         /\ Tail(todo) \in Seq(TradeCommits)
<1>1. CASE todo \in Seq(TradeCommits)
  BY <1>1, HeadTailProperties DEF TradeCommits
<1>2. ASSUME NEW u \in Users, NEW cost \in Nat, NEW fee \in Nat,
             NEW rest \in Seq(TradeCommits), Debits(u, cost, fee, "buy", rest)
      PROVE  Head(todo).kind = "balance" /\ Tail(todo) = rest
  BY <1>2, PlanWithHead DEF Debits, Pays
<1> QED BY <1>1, <1>2 DEF Trading

LEMMA SettlingHead ==
  ASSUME Settling, todo # <<>>
  PROVE  Head(todo).kind \in {"balance", "pool", "clear", "winners"}
<1>1. CASE todo \in Seq(SettleCommits)
  BY <1>1, HeadTailProperties DEF SettleCommits
<1>2. ASSUME NEW outcome \in Outcome, NEW left \in SUBSET Users,
             NEW rest \in Seq(SettleCommits), left # {},
             todo = PaysWinners(outcome, left) \o rest
      PROVE  Head(todo).kind = "winners"
  BY <1>2, PlanWithHead DEF PaysWinners
<1> QED BY <1>1, <1>2 DEF Settling

LEMMA TradingGoesOn ==
  ASSUME MarketInv, Trading, Commit
  PROVE  JudgesKept'
<1>1. /\ Head(todo).kind \in {"balance", "pool", "position", "reduce", "bet"}
      /\ Tail(todo) \in Seq(TradeCommits)
  BY TradingHead, KindsAreActions
<1>2. todo' \in Seq(TradeCommits) /\ Unjudged
  BY <1>1, MoneyMoves
<1> QED
  BY <1>2 DEF JudgesKept, Planned, Trading, MarketInv, VotesAreOfMembers,
              NobodyVoted, Unjudged

LEMMA SettlementGoesOn ==
  ASSUME Commit, todo \in Seq(SettleCommits)
  PROVE  /\ todo' \in Seq(SettleCommits) /\ Unjudged
         /\ Head(todo).kind \in {"balance", "pool", "clear"}
<1>1. Head(todo) \in SettleCommits /\ Tail(todo) \in Seq(SettleCommits)
  BY KindsAreActions, HeadTailProperties
<1>2. CASE Head(todo).kind \in {"balance", "pool"}
  BY <1>1, <1>2, MoneyMoves
<1>3. CASE Head(todo).kind = "clear"
  <2>1. ClearPosition
    BY <1>3, KindsAreActions
  <2>2. PICK u \in Head(todo).left :
          todo' = (IF shares'[u] = Empty THEN <<>> ELSE Clears({u}))
                     \o Clears(Head(todo).left \ {u}) \o Tail(todo)
    BY <2>1 DEF ClearPosition
  <2>3. Head(todo).left \subseteq Users
    BY <1>1, <1>3, CommitFields DEF SettleCommits
  <2>4. /\ Clears({u}) \in Seq(SettleCommits)
        /\ Clears(Head(todo).left \ {u}) \in Seq(SettleCommits)
    BY <2>3, ClearsTyped
  <2>5. Clears({u}) \o Clears(Head(todo).left \ {u}) \in Seq(SettleCommits)
    BY <2>4, ConcatProperties
  <2>6. ASSUME shares'[u] = Empty PROVE todo' \in Seq(SettleCommits)
    <3>1. <<>> \o Clears(Head(todo).left \ {u}) \in Seq(SettleCommits)
      BY <2>4, ConcatEmptySeq
    <3> QED BY <1>1, <2>2, <2>6, <3>1, ConcatProperties
  <2>7. ASSUME shares'[u] # Empty PROVE todo' \in Seq(SettleCommits)
    BY <1>1, <2>2, <2>5, <2>7, ConcatProperties
  <2>8. Unjudged
    BY <2>1 DEF ClearPosition, Unjudged, row
  <2> QED BY <1>3, <2>6, <2>7, <2>8
<1> QED BY <1>1, <1>2, <1>3 DEF SettleCommits

\* A settlement that pays goes on with one of the winners left, and with the
\* rest after the last of them.
LEMMA PaymentGoesOn ==
  ASSUME Commit, NEW outcome \in Outcome, NEW left \in SUBSET Users,
         NEW rest \in Seq(SettleCommits), left # {},
         todo = PaysWinners(outcome, left) \o rest
  PROVE  /\ UNCHANGED <<row, holdings, votes, history, used>>
         /\ \E u \in left :
              /\ Credits(u, "payout", shares[u][outcome])
              /\ todo' = PaysWinners(outcome, left \ {u}) \o rest
              /\ left \ {u} = {} => todo' = rest
<1>1. todo = <<[kind |-> "winners", outcome |-> outcome, left |-> left]>> \o rest
  BY DEF PaysWinners
<1>2. /\ Head(todo) = [kind |-> "winners", outcome |-> outcome, left |-> left]
      /\ Tail(todo) = rest
  BY <1>1, PlanWithHead
<1>3. PayWinner
  BY <1>2, KindsAreActions
<1>4. PICK u \in left :
        /\ Credits(u, "payout", shares[u][outcome])
        /\ todo' = PaysWinners(outcome, left \ {u}) \o rest
  <2>1. Head(todo).left = left /\ Head(todo).outcome = outcome
    <3> DEFINE c == [kind |-> "winners", outcome |-> outcome, left |-> left]
    <3>1. c.left = left /\ c.outcome = outcome
      OBVIOUS
    <3> HIDE DEF c
    <3>2. Head(todo) = c
      BY <1>2 DEF c
    <3> QED BY <3>1, <3>2
  <2> QED BY <1>2, <1>3, <2>1 DEF PayWinner
<1>5. ASSUME left \ {u} = {} PROVE todo' = rest
  BY <1>4, <1>5, ConcatEmptySeq DEF PaysWinners
<1> QED BY <1>3, <1>4, <1>5 DEF PayWinner

LEMMA SettlingGoesOn ==
  ASSUME MarketInv, Settling, Commit
  PROVE  JudgesKept'
<1>1. ASSUME NEW outcome \in Outcome, NEW left \in SUBSET Users,
             NEW rest \in Seq(SettleCommits), left # {},
             todo = PaysWinners(outcome, left) \o rest
      PROVE  /\ Unjudged
             /\ \/ \E more \in SUBSET Users :
                     more # {} /\ todo' = PaysWinners(outcome, more) \o rest
                \/ todo' = rest
  <2>1. PICK u \in left :
          /\ todo' = PaysWinners(outcome, left \ {u}) \o rest
          /\ left \ {u} = {} => todo' = rest
    BY <1>1, PaymentGoesOn
  <2>2. left \ {u} \in SUBSET Users
    OBVIOUS
  <2>3. Unjudged
    BY <1>1, PaymentGoesOn DEF Unjudged, row
  <2>4. CASE left \ {u} = {}
    BY <2>1, <2>3, <2>4
  <2>5. CASE left \ {u} # {}
    BY <2>1, <2>2, <2>3, <2>5
  <2> QED BY <2>4, <2>5
<1>2. Settling' /\ Unjudged
  <2>1. CASE todo \in Seq(SettleCommits)
    BY <2>1, SettlementGoesOn DEF Settling, Unjudged
  <2>2. CASE todo \notin Seq(SettleCommits)
    BY <1>1, <2>2 DEF Settling, Unjudged
  <2> QED BY <2>1, <2>2
<1> QED
  BY <1>2 DEF JudgesKept, Planned, MarketInv, VotesAreOfMembers, NobodyVoted, Unjudged

\* A committee takes its seat while there is no vote.
LEMMA ConveningGoesOn ==
  ASSUME MarketInv, Convening, Commit
  PROVE  JudgesKept'
<1>1. PICK members \in PossibleCommittees :
        \/ /\ status = "OPEN"
           /\ \/ todo = <<SetsCommittee(members), SetsResolving>>
              \/ /\ Cardinality(members) <= 1
                 /\ \E outcome \in Outcome :
                      todo = <<SetsCommittee(members), SetsResolving,
                               Resolves(outcome, "creator")>>
        \/ /\ status = "RESOLVING"
           /\ \/ todo = <<SetsCommittee(members)>>
              \/ \E u \in members, choice \in VoteChoices :
                   todo = <<SetsCommittee(members), Votes(u, choice)>>
  BY DEF Convening
<1>2. Head(todo) = SetsCommittee(members)
  BY <1>1
<1>3. /\ UpdateMarketCommittee
      /\ Head(todo).members = members
  BY <1>2, KindsAreActions DEF SetsCommittee
<1>4. /\ committee' = members /\ todo' = Tail(todo)
      /\ UNCHANGED <<status, votes>>
  BY <1>3 DEF UpdateMarketCommittee, Rest
<1>5. VotesAreOfMembers'
  BY <1>4 DEF Convening, VotesAreOfMembers, NobodyVoted
<1>6. Planned'
  <2>1. ASSUME status = "OPEN",
               todo = <<SetsCommittee(members), SetsResolving>>
        PROVE  Marking'
    BY <1>4, <2>1 DEF Marking
  <2>2. ASSUME NEW outcome \in Outcome, status = "OPEN", Cardinality(members) <= 1,
               todo = <<SetsCommittee(members), SetsResolving,
                        Resolves(outcome, "creator")>>
        PROVE  Marking'
    <3>1. todo' = <<SetsResolving, Resolves(outcome, "creator")>>
      BY <1>4, <2>2
    <3>2. ~(Cardinality(members) > 1)
      BY <2>2, CommitteesAreUsers, UsersAreFinite, FS_Subset, FS_CardinalityType
    <3>3. ~WindowActive'
      BY <1>4, <3>2 DEF WindowActive
    <3> QED BY <1>4, <2>2, <3>1, <3>3 DEF Marking
  <2>3. ASSUME todo = <<SetsCommittee(members)>> PROVE todo' = <<>>
    BY <1>4, <2>3
  <2>4. ASSUME NEW u \in members, NEW choice \in VoteChoices, status = "RESOLVING",
               todo = <<SetsCommittee(members), Votes(u, choice)>>
        PROVE  Voting'
    BY <1>4, <2>4 DEF Voting
  <2> QED BY <1>1, <2>1, <2>2, <2>3, <2>4 DEF Planned
<1> QED BY <1>5, <1>6 DEF JudgesKept

LEMMA MarkingGoesOn ==
  ASSUME MarketInv, Marking, Commit
  PROVE  JudgesKept'
<1>1. Head(todo) = SetsResolving
  BY DEF Marking
<1>2. UpdateMarketStatus
  BY <1>1, KindsAreActions DEF SetsResolving
<1>3. /\ status' = "RESOLVING" /\ todo' = Tail(todo)
      /\ UNCHANGED <<committee, window, votes>>
  BY <1>2 DEF UpdateMarketStatus, Rest
<1>4. VotesAreOfMembers'
  BY <1>3 DEF MarketInv, VotesAreOfMembers, NobodyVoted
<1>5. CASE todo = <<SetsResolving>>
  BY <1>3, <1>4, <1>5 DEF JudgesKept, Planned
<1>6. ASSUME NEW outcome \in Outcome, ~WindowActive,
             todo = <<SetsResolving, Resolves(outcome, "creator")>>
      PROVE  JudgesKept'
  <2>1. todo' = <<Resolves(outcome, "creator")>>
    BY <1>3, <1>6
  <2>2. ~WindowActive'
    BY <1>3, <1>6 DEF WindowActive
  <2>3. Deciding'
    BY <1>3, <2>1, <2>2 DEF Deciding
  <2> QED BY <1>4, <2>3 DEF JudgesKept, Planned
<1> QED BY <1>5, <1>6 DEF Marking

LEMMA VotingGoesOn ==
  ASSUME MarketInv, Voting, Commit
  PROVE  JudgesKept' /\ TypeOK'
<1>1. UpsertCommitteeVote
  <2>1. Head(todo).kind = "vote"
    BY DEF Voting, Votes
  <2> QED BY <2>1, KindsAreActions
<1>2. UNCHANGED <<status, committee>> /\ status = "RESOLVING"
  BY <1>1 DEF UpsertCommitteeVote, row, Voting
<1>3. /\ votes' \in [Users -> VoteChoices \cup {None}]
      /\ \A u \in Users : votes'[u] # None => u \in committee
      /\ \/ todo' = <<>>
         \/ \E outcome \in Outcome :
              /\ todo' = <<Resolves(outcome, "committee")>>
              /\ \A u \in committee : votes'[u] = outcome
  BY <1>1, VoteEffect
<1>4. VotesAreOfMembers'
  BY <1>2, <1>3 DEF VotesAreOfMembers
<1>5. todo' = <<>> \/ Deciding'
  BY <1>2, <1>3 DEF Deciding
<1>6. todo' \in Seq(Commits)
  <2>1. ASSUME NEW outcome \in Outcome
        PROVE  <<Resolves(outcome, "committee")>> \in Seq(Commits)
    <3>1. Resolves(outcome, "committee") \in Commits
      BY DEF Resolves, Commits
    <3> QED BY <3>1
  <2>2. <<>> \in Seq(Commits)
    OBVIOUS
  <2> QED BY <1>3, <2>1, <2>2
<1>7. TypeOK'
  BY <1>1, <1>3, <1>6
     DEF MarketInv, TypeOK, UpsertCommitteeVote, row, holdings, money, history
<1> QED BY <1>4, <1>5, <1>7 DEF JudgesKept, Planned

LEMMA DecidingGoesOn ==
  ASSUME MarketInv, Deciding, Commit
  PROVE  JudgesKept'
<1>1. PICK outcome \in Outcome, by \in {"creator", "committee", "resolver"} :
        todo = <<Resolves(outcome, by)>>
  BY DEF Deciding
<1>2. Head(todo).kind = "resolve" /\ Head(todo).outcome = outcome
  BY <1>1 DEF Resolves
<1>3. ResolveMarket
  BY <1>2, KindsAreActions
<1>4. /\ status' = "RESOLVED" /\ todo' = PayoutPlan(outcome)
      /\ UNCHANGED <<committee, votes>>
  BY <1>2, <1>3 DEF ResolveMarket
<1>5. VotesAreOfMembers'
  BY <1>4 DEF MarketInv, VotesAreOfMembers
<1>6. pool \in Pool
  BY DEF MarketInv, TypeOK
<1>7. CASE PayoutPlan(outcome) \in Seq(SettleCommits)
  BY <1>4, <1>5, <1>7 DEF JudgesKept, Planned, Settling
<1>8. ASSUME NEW rest \in Seq(SettleCommits), Winners(outcome) # {},
             PayoutPlan(outcome) = PaysWinners(outcome, Winners(outcome)) \o rest
      PROVE  JudgesKept'
  <2>1. Winners(outcome) \in SUBSET Users
    BY DEF Winners
  <2>2. Settling'
    BY <1>4, <1>8, <2>1 DEF Settling
  <2> QED BY <1>5, <2>2 DEF JudgesKept, Planned
<1> QED BY <1>6, <1>7, <1>8, PayoutPlanTyped

\* Only a decision resolves.
LEMMA ResolutionIsDecided ==
  ASSUME MarketInv, ResolveMarket
  PROVE  Deciding
<1>1. Head(todo).kind = "resolve" /\ todo # <<>>
  BY DEF ResolveMarket, Committing
<1>2. ~Creating
  BY <1>1, PlanWithHead, InsertsIsAPlan DEF Creating, Debits, Pays, Inserts
<1>3. ~Trading /\ ~Settling
  BY <1>1, TradingHead, SettlingHead
<1>4. ~Convening /\ ~Marking /\ ~Voting
  BY <1>1 DEF Convening, Marking, Voting, SetsCommittee, SetsResolving, Votes
<1> QED BY <1>1, <1>2, <1>3, <1>4 DEF MarketInv, Planned

LEMMA CommitKeepsInv ==
  ASSUME MarketInv, Commit
  PROVE  MarketInv'
<1>1. JudgesKept'
  <2>1. todo # <<>>
    BY KindsAreActions
  <2> QED
    BY <2>1, CreatingGoesOn, TradingGoesOn, SettlingGoesOn, ConveningGoesOn,
       MarkingGoesOn, VotingGoesOn, DecidingGoesOn DEF MarketInv, Planned
<1>2. TypeOK'
  <2>1. CASE UpsertCommitteeVote
    <3>1. Voting
      <4>1. Head(todo).kind = "vote" /\ todo # <<>>
        BY <2>1 DEF UpsertCommitteeVote, Committing
      <4>2. ~Creating
        BY <4>1, PlanWithHead, InsertsIsAPlan DEF Creating, Debits, Pays, Inserts
      <4>3. ~Trading /\ ~Settling
        BY <4>1, TradingHead, SettlingHead
      <4>4. ~Convening /\ ~Marking /\ ~Deciding
        BY <4>1 DEF Convening, Marking, Deciding, SetsCommittee, SetsResolving, Resolves
      <4> QED BY <4>1, <4>2, <4>3, <4>4 DEF MarketInv, Planned
    <3> QED BY <3>1, VotingGoesOn
  <2>2. CASE ~UpsertCommitteeVote
    BY <2>2, BalanceTyped, WinnerTyped, ClearTyped, HoldingsTyped, RowTyped,
       ResolveTyped DEF Commit, MarketInv
  <2> QED BY <2>1, <2>2
<1>3. asked' = asked /\ used' = used
  BY DEF Commit, UpdateUserBalance, PayWinner, InsertMarket,
         UpdateMarketPool, UpdatePosition, ReducePosition, ClearPosition, CreateBet,
         UpdateMarketCommittee, UpdateMarketStatus, UpsertCommitteeVote, ResolveMarket,
         Rest
<1>4. ResolvedHasOutcome'
  <2>1. CASE ResolveMarket
    BY <2>1, HeadAndTail, CommitFields
       DEF ResolveMarket, Committing, ResolvedHasOutcome, MarketInv
  <2>2. CASE ~ResolveMarket
    BY <2>2 DEF Commit, UpdateUserBalance, PayWinner, InsertMarket,
         UpdateMarketPool, UpdatePosition, ReducePosition, ClearPosition, CreateBet,
         UpdateMarketCommittee, UpdateMarketStatus, UpsertCommitteeVote,
         MarketInv, ResolvedHasOutcome, row
  <2> QED BY <2>1, <2>2
<1> QED BY <1>1, <1>2, <1>3, <1>4 DEF MarketInv, JudgesKept, Counted

-----------------------------------------------------------------------------
(* The requests: the plans they start with.                                *)

\* A handler that starts leaves what the rows say, so it need only plan well.
LEMMA StartKeepsInv ==
  ASSUME MarketInv, NEW plan \in Seq(Commits), Starts(plan), Planned', Counted'
  PROVE  MarketInv'
<1>1. asked' \in 0..MaxQuestions
  BY BoundsAssumption DEF Counted, Counters
<1>2. TypeOK'
  BY <1>1 DEF MarketInv, TypeOK, Starts, row, holdings, money, history, Counted, Counters
<1>3. VotesAreOfMembers'
  BY DEF MarketInv, Starts, VotesAreOfMembers, NobodyVoted, row
<1> QED BY <1>2, <1>3 DEF MarketInv, ResolvedHasOutcome, Starts, row

LEMMA UseTyped ==
  ASSUME Counted, NEW what \in {"trades", "questions", "transitions", "fixes",
                               "failures"},
         NEW bound \in Nat, Use(what, bound)
  PROVE  /\ used' \in Counters
         /\ what # "questions" => used'.questions = used.questions
         /\ what = "questions" => /\ used'.questions = used.questions + 1
                                 /\ used'.questions <= bound
<1> USE DEF Counted, Counters, Use
<1>1. CASE what = "trades"
  BY <1>1
<1>2. CASE what = "questions"
  BY <1>2
<1>3. CASE what = "transitions"
  BY <1>3
<1>4. CASE what = "fixes"
  BY <1>4
<1>5. CASE what = "failures"
  BY <1>5
<1> QED BY <1>1, <1>2, <1>3, <1>4, <1>5

\* Requests that ask the resolver nothing keep the count.
LEMMA CountStays ==
  ASSUME MarketInv,
         asked' = asked \/ asked' \in 0..asked,
         \/ used' = used
         \/ \E what \in {"trades", "transitions", "fixes", "failures"}, bound \in Nat :
              Use(what, bound)
  PROVE  Counted'
<1>1. CASE used' = used
  BY <1>1 DEF MarketInv, Counted, Counters
<1>2. CASE \E what \in {"trades", "transitions", "fixes", "failures"}, bound \in Nat :
             Use(what, bound)
  <2>1. used' \in Counters /\ used'.questions = used.questions
    BY <1>2, UseTyped DEF MarketInv
  <2> QED BY <2>1 DEF MarketInv, Counted, Counters
<1> QED BY <1>1, <1>2

LEMMA CreateKeepsInv == ASSUME MarketInv, CreateMarket PROVE MarketInv'
<1> DEFINE debit == Pays(Creator, "market_creation", -Liquidity, 0)
           plan == <<debit, Inserts>>
<1>1. debit \in Commits
  <2>1. Creator \in Users /\ "market_creation" \in TxTypes \ {"payout"}
    BY DEF Users, TxTypes
  <2> QED BY <2>1, AmountsAssumption, PaysIsCommit
<1> HIDE DEF debit
<1>2. plan \in Seq(Commits) /\ plan = <<debit>> \o <<Inserts>>
  BY <1>1, MarksAreCommits
<1>3. Starts(plan) /\ UNCHANGED <<asked, used>>
  BY DEF CreateMarket, debit
<1>4. Creating'
  <2>1. todo' = <<debit>> \o <<Inserts>> /\ UNCHANGED <<status, balance>>
    BY <1>2, <1>3 DEF Starts, row, money
  <2>2. Liquidity <= balance[Creator]
    BY AmountsAssumption DEF CreateMarket, MarketInv, TypeOK, Users
  <2> QED BY <2>1, <2>2 DEF CreateMarket, Creating, Debits, debit
<1>5. Counted'
  BY <1>3, CountStays
<1> QED BY <1>2, <1>3, <1>4, <1>5, StartKeepsInv DEF Planned

LEMMA BetKeepsInv ==
  ASSUME MarketInv, NEW u \in Users, NEW side \in Outcome, NEW amount \in BetAmounts,
         PlaceBet(u, side, amount)
  PROVE  MarketInv'
<1> DEFINE cost == amount + Fee(amount)
<1>1. amount \in Nat \ {0} /\ cost \in Nat
  <2>1. amount \in Nat \ {0}
    BY AmountsAssumption
  <2> QED BY <2>1, FeesTyped
<1>2. PICK rest \in Seq(TradeCommits), fee \in Nat :
        BetCommits(u, side, amount) = <<Pays(u, "buy", -cost, fee)>> \o rest
  BY <1>1, BetPlan DEF PlaceBet, MarketInv, TypeOK
<1>3. cost <= balance[u]
  BY <1>1 DEF PlaceBet, CanPay, MarketInv, TypeOK
<1> HIDE DEF cost
<1>4. BetCommits(u, side, amount) \in Seq(Commits)
  <2>1. Pays(u, "buy", -cost, fee) \in Commits
    <3>1. "buy" \in TxTypes \ {"payout"} /\ -cost \in Int
      BY <1>1 DEF TxTypes
    <3> QED BY <3>1, PaysIsCommit
  <2> QED BY <1>2, <2>1, PlanWithHead DEF TradeCommits
<1>5. /\ Starts(BetCommits(u, side, amount)) /\ asked' = asked
      /\ Use("trades", MaxTrades) /\ status = "OPEN"
  BY DEF PlaceBet
<1>6. Trading'
  <2>1. /\ todo' = <<Pays(u, "buy", -cost, fee)>> \o rest
        /\ UNCHANGED <<status, balance>>
    BY <1>2, <1>5 DEF Starts, row, money
  <2> QED BY <1>1, <1>3, <1>5, <2>1 DEF Trading, Debits
<1>7. Counted'
  BY <1>5, CountStays, BoundsAssumption
<1> QED BY <1>4, <1>5, <1>6, <1>7, StartKeepsInv DEF Planned

LEMMA SaleKeepsInv ==
  ASSUME MarketInv, NEW u \in Users, NEW side \in Outcome,
         NEW n \in SaleSizes(shares[u][side]), SellShares(u, side, n)
  PROVE  MarketInv'
<1>1. n \in Nat
  <2>1. shares[u][side] \in Nat
    BY DEF MarketInv, TypeOK, Pool
  <2> QED BY <2>1 DEF SaleSizes
<1>2. PICK amount \in SaleAmounts(pool, side, n) :
        Starts(SaleCommits(u, side, n, amount))
  BY DEF SellShares
<1>3. SaleCommits(u, side, n, amount) \in Seq(TradeCommits)
  BY <1>1, SalePlan DEF MarketInv, TypeOK
<1>4. SaleCommits(u, side, n, amount) \in Seq(Commits)
  BY <1>3, SeqMonotonic DEF TradeCommits
<1>5. asked' = asked /\ Use("trades", MaxTrades) /\ status = "OPEN"
  BY DEF SellShares
<1>6. Trading'
  BY <1>2, <1>3, <1>5 DEF Starts, row, Trading
<1>7. Counted'
  BY <1>5, CountStays, BoundsAssumption
<1> QED BY <1>2, <1>4, <1>6, <1>7, StartKeepsInv DEF Planned

LEMMA ConveningKeepsInv ==
  ASSUME MarketInv, (\E outcome \in Outcome : ResolveOpen(outcome)) \/ Sweep
  PROVE  MarketInv'
<1>1. /\ status = "OPEN" /\ todo = <<>> /\ NobodyVoted /\ UNCHANGED <<asked, used>>
      /\ UNCHANGED <<status, votes, invested>>
  BY DEF ResolveOpen, Sweep, Starts, row, holdings, MarketInv, VotesAreOfMembers
<1>2. Counted'
  BY <1>1, CountStays
<1>3. NobodyVoted' /\ PossibleCommittees' = PossibleCommittees
  BY <1>1, ChoiceStays DEF NobodyVoted
<1>4. ASSUME NEW members \in PossibleCommittees,
             Starts(<<SetsCommittee(members), SetsResolving>>)
      PROVE  MarketInv'
  <2>1. members \in SUBSET Users
    BY CommitteesAreUsers
  <2>2. <<SetsCommittee(members), SetsResolving>> \in Seq(Commits)
    BY <2>1, MarksAreCommits, SetsCommitteeIsCommit
  <2>3. Convening'
    BY <1>1, <1>3, <1>4, <2>1 DEF Convening, Starts
  <2> QED BY <1>2, <1>4, <2>2, <2>3, StartKeepsInv DEF Planned
<1>5. ASSUME NEW members \in PossibleCommittees, NEW outcome \in Outcome,
             ~(Cardinality(members) > 1),
             Starts(<<SetsCommittee(members), SetsResolving>>
                      \o <<Resolves(outcome, "creator")>>)
      PROVE  MarketInv'
  <2>1. members \in SUBSET Users
    BY CommitteesAreUsers
  <2>2. <<SetsCommittee(members), SetsResolving>> \o <<Resolves(outcome, "creator")>>
          = <<SetsCommittee(members), SetsResolving, Resolves(outcome, "creator")>>
    BY ShortPlans
  <2>3. Resolves(outcome, "creator") \in Commits
    BY DEF Resolves, Commits
  <2>4. <<SetsCommittee(members), SetsResolving, Resolves(outcome, "creator")>>
          \in Seq(Commits)
    BY <2>1, <2>3, MarksAreCommits, SetsCommitteeIsCommit
  <2>5. Cardinality(members) <= 1
    BY <1>5, <2>1, UsersAreFinite, FS_Subset, FS_CardinalityType
  <2>6. Convening'
    BY <1>1, <1>3, <1>5, <2>1, <2>2, <2>5 DEF Convening, Starts
  <2> QED BY <1>2, <1>5, <2>2, <2>4, <2>6, StartKeepsInv DEF Planned
<1>6. CASE Sweep
  BY <1>4, <1>6 DEF Sweep
<1>7. ASSUME NEW outcome \in Outcome, ResolveOpen(outcome) PROVE MarketInv'
  <2>1. PICK members \in PossibleCommittees :
          Starts(<<SetsCommittee(members), SetsResolving>>
                 \o (IF Cardinality(members) > 1 THEN <<>>
                     ELSE <<Resolves(outcome, "creator")>>))
    BY <1>7 DEF ResolveOpen
  <2>2. CASE Cardinality(members) > 1
    <3>1. <<SetsCommittee(members), SetsResolving>> \o <<>>
            = <<SetsCommittee(members), SetsResolving>>
      OBVIOUS
    <3> QED BY <1>4, <2>1, <2>2, <3>1
  <2>3. CASE ~(Cardinality(members) > 1)
    BY <1>5, <2>1, <2>3
  <2> QED BY <2>2, <2>3
<1> QED BY <1>6, <1>7

LEMMA VoteKeepsInv ==
  ASSUME MarketInv, NEW u \in Users, NEW choice \in VoteChoices,
         CastCommitteeVote(u, choice)
  PROVE  MarketInv'
<1>1. /\ status = "RESOLVING" /\ UNCHANGED <<asked, used>>
      /\ UNCHANGED <<status, committee, votes, invested>>
  BY DEF CastCommitteeVote, Starts, row, holdings
<1>2. Counted'
  BY <1>1, CountStays
<1>3. Votes(u, choice) \in Commits
  BY DEF Votes, Commits
<1>4. ASSUME committee = {}, NEW members \in PossibleCommittees,
             Starts(<<SetsCommittee(members)>>
                    \o (IF u \in members THEN <<Votes(u, choice)>> ELSE <<>>))
      PROVE  MarketInv'
  <2>1. members \in SUBSET Users
    BY CommitteesAreUsers
  <2>2. NobodyVoted' /\ PossibleCommittees' = PossibleCommittees
    BY <1>1, <1>4, ChoiceStays DEF MarketInv, VotesAreOfMembers, NobodyVoted
  <2>3. CASE u \in members
    <3>1. <<SetsCommittee(members)>> \o <<Votes(u, choice)>>
            = <<SetsCommittee(members), Votes(u, choice)>>
      BY ShortPlans
    <3>2. <<SetsCommittee(members), Votes(u, choice)>> \in Seq(Commits)
      BY <1>3, <2>1, SetsCommitteeIsCommit
    <3>3. Starts(<<SetsCommittee(members), Votes(u, choice)>>)
      BY <1>4, <2>3, <3>1
    <3>4. Convening'
      BY <1>1, <2>1, <2>2, <2>3, <3>3 DEF Convening, Starts
    <3> QED BY <1>2, <3>2, <3>3, <3>4, StartKeepsInv DEF Planned
  <2>4. CASE u \notin members
    <3>1. <<SetsCommittee(members)>> \o <<>> = <<SetsCommittee(members)>>
      OBVIOUS
    <3>2. <<SetsCommittee(members)>> \in Seq(Commits)
      BY <2>1, SetsCommitteeIsCommit
    <3>3. Starts(<<SetsCommittee(members)>>)
      BY <1>4, <2>4, <3>1
    <3>4. Convening'
      BY <1>1, <2>1, <2>2, <3>3 DEF Convening, Starts
    <3> QED BY <1>2, <3>2, <3>3, <3>4, StartKeepsInv DEF Planned
  <2> QED BY <2>3, <2>4
<1>5. ASSUME u \in committee, Starts(<<Votes(u, choice)>>) PROVE MarketInv'
  <2>1. <<Votes(u, choice)>> \in Seq(Commits)
    BY <1>3
  <2>2. Voting'
    BY <1>1, <1>5 DEF Voting, Starts
  <2> QED BY <1>2, <1>5, <2>1, <2>2, StartKeepsInv DEF Planned
<1> QED BY <1>4, <1>5 DEF CastCommitteeVote

LEMMA ResolveKeepsInv ==
  ASSUME MarketInv,
         \/ \E outcome \in Outcome : ResolveResolving(outcome)
         \/ \E answer \in Outcome \cup {None} : ResolverAnswers(answer)
         \/ AdminTransition
  PROVE  MarketInv'
<1>1. ASSUME NEW outcome \in Outcome, ResolveResolving(outcome) PROVE MarketInv'
  <2>1. <<Resolves(outcome, "creator")>> \in Seq(Commits)
    BY DEF Resolves, Commits
  <2>2. /\ Starts(<<Resolves(outcome, "creator")>>) /\ UNCHANGED <<asked, used>>
        /\ status = "RESOLVING" /\ ~WindowActive
    BY <1>1 DEF ResolveResolving
  <2>3. todo' = <<Resolves(outcome, "creator")>> /\ status' = "RESOLVING" /\ ~WindowActive'
    BY <2>2 DEF Starts, row, WindowActive
  <2>4. Deciding'
    BY <2>3 DEF Deciding
  <2>5. Counted'
    BY <2>2, CountStays
  <2> QED BY <2>1, <2>2, <2>4, <2>5, StartKeepsInv DEF Planned
<1>2. ASSUME NEW answer \in Outcome \cup {None}, ResolverAnswers(answer)
      PROVE  MarketInv'
  <2>1. asked' \in 0..asked
    BY <1>2 DEF ResolverAnswers, MarketInv, Counted, Counters
  <2>2. Counted'
    BY <1>2, <2>1, CountStays DEF ResolverAnswers
  <2>3. CASE answer = None
    <3>1. Starts(<<>>)
      BY <1>2, <2>3 DEF ResolverAnswers
    <3>2. Planned'
      BY <3>1 DEF Starts, Planned
    <3>3. <<>> \in Seq(Commits)
      OBVIOUS
    <3> QED BY <2>2, <3>1, <3>2, <3>3, StartKeepsInv
  <2>4. CASE answer # None
    <3>1. Starts(<<Resolves(answer, "resolver")>>)
      BY <1>2, <2>4 DEF ResolverAnswers
    <3>2. Deciding'
      <4>1. used'.questions > 0
        BY <1>2 DEF ResolverAnswers, MarketInv, Counted, Counters
      <4> QED BY <2>4, <3>1, <4>1 DEF Starts, Deciding
    <3>3. <<Resolves(answer, "resolver")>> \in Seq(Commits)
      BY <2>4 DEF Resolves, Commits
    <3> QED BY <2>2, <3>1, <3>2, <3>3, StartKeepsInv DEF Planned
  <2> QED BY <2>3, <2>4
<1>3. CASE AdminTransition
  <2>1. <<SetsResolving>> \in Seq(Commits)
    BY MarksAreCommits
  <2>2. Starts(<<SetsResolving>>) /\ asked' = asked /\ status = "OPEN"
        /\ Use("transitions", MaxTransitions)
    BY <1>3 DEF AdminTransition
  <2>3. Marking'
    BY <2>2 DEF Marking, Starts, row
  <2>4. Counted'
    BY <2>2, CountStays, BoundsAssumption
  <2> QED BY <2>1, <2>2, <2>3, <2>4, StartKeepsInv DEF Planned
<1> QED BY <1>1, <1>2, <1>3

LEMMA AskKeepsInv == ASSUME MarketInv, RequestResolution PROVE MarketInv'
<1>1. /\ used' \in Counters
      /\ used'.questions = used.questions + 1 /\ used'.questions <= MaxQuestions
  BY UseTyped, BoundsAssumption DEF RequestResolution, MarketInv
<1>2. Counted'
  BY <1>1 DEF RequestResolution, MarketInv, Counted, Counters
<1>3. Starts(<<>>) /\ Planned'
  BY DEF RequestResolution, Starts, Planned
<1>4. <<>> \in Seq(Commits)
  OBVIOUS
<1> QED BY <1>2, <1>3, <1>4, StartKeepsInv

LEMMA FixKeepsInv == ASSUME MarketInv, FixResolutions PROVE MarketInv'
<1>1. resolution \in Outcome
  BY DEF MarketInv, ResolvedHasOutcome, FixResolutions
<1>2. Cleanup(resolution) \in Seq(SettleCommits)
  BY <1>1, CleanupPlan DEF MarketInv, TypeOK
<1>3. Cleanup(resolution) \in Seq(Commits)
  BY <1>2, SeqMonotonic DEF SettleCommits
<1>4. Starts(Cleanup(resolution)) /\ asked' = asked /\ status = "RESOLVED"
      /\ Use("fixes", MaxFixes)
  BY DEF FixResolutions
<1>5. Settling'
  BY <1>2, <1>4 DEF Settling, Starts, row
<1>6. Counted'
  BY <1>4, CountStays, BoundsAssumption
<1> QED BY <1>3, <1>4, <1>5, <1>6, StartKeepsInv DEF Planned

-----------------------------------------------------------------------------
(* Failures and time, and the theorems.                                    *)

LEMMA FailureKeepsInv ==
  ASSUME MarketInv, RequestFails \/ ProcessRestarts
  PROVE  MarketInv'
<1>1. /\ todo' = <<>> /\ Use("failures", MaxFailures)
      /\ asked' = asked \/ asked' \in 0..asked
      /\ UNCHANGED <<row, holdings, money, votes, closed, burned, history>>
  BY DEF RequestFails, ProcessRestarts, MarketInv, Counted, Counters
<1>2. Counted'
  BY <1>1, CountStays, BoundsAssumption
<1>3. asked' \in 0..MaxQuestions /\ todo' \in Seq(Commits)
  BY <1>1, <1>2, BoundsAssumption DEF Counted, Counters
<1>4. TypeOK'
  BY <1>1, <1>2, <1>3
     DEF MarketInv, TypeOK, row, holdings, money, history, Counted, Counters
<1>5. VotesAreOfMembers' /\ Planned'
  BY <1>1 DEF MarketInv, VotesAreOfMembers, NobodyVoted, row, Planned
<1> QED BY <1>1, <1>2, <1>4, <1>5 DEF MarketInv, ResolvedHasOutcome, row

LEMMA TimeKeepsInv ==
  ASSUME MarketInv, CloseTimePasses \/ WindowPasses
  PROVE  MarketInv'
<1>1. /\ UNCHANGED <<status, resolution, committee, todo, asked, votes, used, balance>>
      /\ PossibleCommittees' = PossibleCommittees
      /\ WindowActive' => WindowActive
  BY ChoiceStays DEF CloseTimePasses, WindowPasses, WindowActive, row, money, holdings
<1>2. TypeOK'
  <2>1. CASE CloseTimePasses
    BY <2>1 DEF CloseTimePasses, MarketInv, TypeOK, row, holdings, money, history
  <2>2. CASE WindowPasses
    BY <2>2 DEF WindowPasses, MarketInv, TypeOK, holdings, money, history
  <2> QED BY <2>1, <2>2
<1>3. Planned'
  <2>1. Creating => Creating'
    BY <1>1 DEF Creating, Debits
  <2>2. Trading => Trading'
    BY <1>1 DEF Trading, Debits
  <2>3. (Settling => Settling') /\ (Voting => Voting') /\ (Convening => Convening')
    BY <1>1 DEF Settling, Voting, Convening, NobodyVoted
  <2>4. (Marking => Marking') /\ (Deciding => Deciding')
    BY <1>1 DEF Marking, Deciding
  <2> QED BY <1>1, <2>1, <2>2, <2>3, <2>4 DEF MarketInv, Planned
<1>4. Counted' /\ VotesAreOfMembers' /\ ResolvedHasOutcome'
  BY <1>1 DEF MarketInv, Counted, VotesAreOfMembers, NobodyVoted, ResolvedHasOutcome
<1> QED BY <1>2, <1>3, <1>4 DEF MarketInv

LEMMA StutterKeepsInv == ASSUME MarketInv, UNCHANGED vars PROVE MarketInv'
BY ChoiceStays DEF vars, row, holdings, money, history, MarketInv, TypeOK, Counted, Planned,
       VotesAreOfMembers, ResolvedHasOutcome, NobodyVoted, WindowActive, Creating,
       Trading, Settling, Convening, Marking, Voting, Deciding, Debits

LEMMA NextKeepsInv == ASSUME MarketInv, Next PROVE MarketInv'
<1>1. CASE Request
  BY <1>1, CreateKeepsInv, BetKeepsInv, SaleKeepsInv, ConveningKeepsInv, VoteKeepsInv,
     ResolveKeepsInv, AskKeepsInv, FixKeepsInv DEF Request
<1> QED
  BY <1>1, ConveningKeepsInv, CommitKeepsInv, FailureKeepsInv, TimeKeepsInv DEF Next

LEMMA SpecKeepsInv == Spec => []MarketInv
<1>1. MarketInv /\ [Next]_vars => MarketInv'
  BY NextKeepsInv, StutterKeepsInv
<1> QED BY <1>1, InitEstablishesInv, PTL DEF Spec

\* The market's row, positions, money and plan are what their tables and the
\* commits of the handlers can hold.
THEOREM MarketTypeCorrect == Spec => []TypeOK
<1>1. MarketInv => TypeOK
  BY DEF MarketInv
<1> QED BY <1>1, SpecKeepsInv, PTL

-----------------------------------------------------------------------------
(* Nobody in debt.                                                         *)

\* Only these commits move money, and a debit finds what it was checked
\* against.
LEMMA BalancesMove ==
  ASSUME MarketInv, Next
  PROVE  \/ UNCHANGED balance
         \/ \E u \in Users, amount \in Int :
              /\ balance' = [balance EXCEPT ![u] = @ + amount]
              /\ amount >= 0 \/ balance[u] + amount >= 0
<1>1. CASE UpdateUserBalance
  <2> DEFINE c == Head(todo)
  <2>1. /\ todo # <<>> /\ c \in Commits /\ c.kind = "balance"
        /\ balance' = [balance EXCEPT ![c.user] = @ + c.amount]
    BY <1>1, HeadAndTail DEF UpdateUserBalance, Committing, Credits, MarketInv
  <2>2. c.user \in Users /\ c.amount \in Int /\ balance[c.user] \in Int
    BY <2>1, CommitFields DEF MarketInv, TypeOK
  <2>3. ASSUME NEW u \in Users, NEW cost \in Nat, NEW fee, NEW type, NEW rest \in Seq(Commits),
               Debits(u, cost, fee, type, rest)
        PROVE  c.user = u /\ balance[u] + c.amount >= 0
    <3>1. c = Pays(u, type, -cost, fee)
      BY <2>3, PlanWithHead DEF Debits
    <3>2. c.user = u /\ c.amount = -cost
      BY <3>1 DEF Pays
    <3>3. cost <= balance[u] /\ balance[u] \in Int
      BY <2>2, <2>3, <3>2 DEF Debits
    <3> HIDE DEF c
    <3> QED BY <3>2, <3>3
  <2>4. CASE Creating
    <3>1. <<Inserts>> \in Seq(Commits) /\ Creator \in Users /\ Liquidity \in Nat
      BY MarksAreCommits, AmountsAssumption DEF Users
    <3>2. todo # <<Inserts>>
      BY <2>1 DEF Inserts
    <3>3. Debits(Creator, Liquidity, 0, "market_creation", <<Inserts>>)
      BY <2>4, <3>2 DEF Creating
    <3> QED BY <2>1, <2>2, <2>3, <3>1, <3>3
  <2>5. CASE Trading
    <3>1. CASE todo \in Seq(TradeCommits)
      <4>1. c.amount >= 0
        BY <2>1, <3>1, HeadTailProperties DEF TradeCommits
      <4> QED BY <2>1, <2>2, <4>1
    <3>2. CASE \E u \in Users, cost \in Nat, fee \in Nat, rest \in Seq(TradeCommits) :
                 Debits(u, cost, fee, "buy", rest)
      <4>1. PICK u \in Users, cost \in Nat, fee \in Nat, rest \in Seq(TradeCommits) :
              Debits(u, cost, fee, "buy", rest)
        BY <3>2
      <4>2. rest \in Seq(Commits)
        BY SeqMonotonic DEF TradeCommits
      <4> QED BY <2>1, <2>2, <2>3, <4>1, <4>2
    <3> QED BY <2>5, <3>1, <3>2 DEF Trading
  <2>6. CASE Settling
    <3>1. todo \in Seq(SettleCommits)
      <4>1. ASSUME NEW outcome \in Outcome, NEW left \in SUBSET Users,
                   NEW rest \in Seq(SettleCommits), left # {},
                   todo = PaysWinners(outcome, left) \o rest
            PROVE  c.kind = "winners"
        BY <4>1, PlanWithHead DEF PaysWinners
      <4> QED BY <2>1, <2>6, <4>1 DEF Settling
    <3>2. c.amount >= 0
      BY <2>1, <3>1, HeadTailProperties DEF SettleCommits
    <3> QED BY <2>1, <2>2, <3>2
  <2>7. ~Convening /\ ~Marking /\ ~Voting /\ ~Deciding
    BY <2>1 DEF Convening, Marking, Voting, Deciding, SetsCommittee, SetsResolving,
                Votes, Resolves
  <2> QED BY <2>1, <2>4, <2>5, <2>6, <2>7 DEF MarketInv, Planned
<1>2. CASE PayWinner
  <2> DEFINE c == Head(todo)
  <2>1. c \in Commits /\ c.kind = "winners"
    BY <1>2, HeadAndTail DEF PayWinner, Committing, MarketInv
  <2>2. c.outcome \in Outcome /\ c.left \subseteq Users
    BY <2>1, CommitFields
  <2>3. PICK u \in c.left : Credits(u, "payout", shares[u][c.outcome])
    BY <1>2 DEF PayWinner
  <2>4. u \in Users /\ shares[u][c.outcome] \in Nat
    BY <2>2 DEF MarketInv, TypeOK, Pool
  <2>5. PICK amount \in Nat : balance' = [balance EXCEPT ![u] = @ + amount]
    BY <2>3, <2>4 DEF Credits
  <2>6. amount \in Int /\ amount >= 0
    OBVIOUS
  <2> QED BY <2>4, <2>5, <2>6
<1>3. CASE ~UpdateUserBalance /\ ~PayWinner
  <2>1. ASSUME Request \/ Sweep PROVE UNCHANGED balance
    BY <2>1 DEF Request, Sweep, CreateMarket, PlaceBet, SellShares, ResolveOpen,
       ResolveResolving, CastCommitteeVote, RequestResolution, ResolverAnswers,
       AdminTransition, FixResolutions, Starts, money
  <2>2. ASSUME Commit PROVE UNCHANGED balance
    BY <1>3, <2>2 DEF Commit, InsertMarket, UpdateMarketPool, UpdatePosition,
       ReducePosition, ClearPosition, CreateBet, UpdateMarketCommittee,
       UpdateMarketStatus, UpsertCommitteeVote, ResolveMarket, money
  <2> QED
    BY <2>1, <2>2 DEF Next, RequestFails, ProcessRestarts, CloseTimePasses,
       WindowPasses, money
<1> QED BY <1>1, <1>2, <1>3

\* Nobody goes into debt, at no instant, whatever fails and whoever bets in
\* whatever order: the balance create_market and place_bet checked is still
\* there when they debit, and no other commit debits anyone.
THEOREM NobodyInDebt == Spec => []Solvent
<1>1. Init => Solvent
  BY AmountsAssumption DEF Init, Solvent
<1>2. MarketInv /\ Solvent /\ [Next]_vars => Solvent'
  <2> SUFFICES ASSUME MarketInv, Solvent, [Next]_vars, NEW v \in Users
               PROVE  balance'[v] >= 0
    BY DEF Solvent
  <2>1. CASE UNCHANGED vars
    BY <2>1 DEF vars, money, Solvent
  <2>2. CASE Next /\ ~UNCHANGED balance
    <3>1. PICK u \in Users, amount \in Int :
            /\ balance' = [balance EXCEPT ![u] = @ + amount]
            /\ amount >= 0 \/ balance[u] + amount >= 0
      BY <2>2, BalancesMove
    <3> QED BY <3>1 DEF MarketInv, TypeOK, Solvent
  <2>3. CASE UNCHANGED balance
    BY <2>3 DEF Solvent
  <2> QED BY <2>1, <2>2, <2>3
<1> QED BY <1>1, <1>2, SpecKeepsInv, PTL DEF Spec

-----------------------------------------------------------------------------
(* The window of a committee.                                              *)

\* A committee of several is not passed over while its window runs: only its
\* unanimity, or the answer of the resolver the creator asked, resolves the
\* market, for any number of traders, votes, failures and restarts.
THEOREM WindowIsRespected == Spec => CommitteeWindow
<1> DEFINE Passed == /\ status # "RESOLVED" /\ status' = "RESOLVED"
                     /\ Cardinality(committee) > 1 /\ window = "ahead"
           Judged == \/ Head(todo).by = "resolver"
                     \/ \A u \in committee : votes[u] = resolution'
<1>1. MarketInv /\ [Next]_vars => [Passed => Judged]_vars
  <2> SUFFICES ASSUME MarketInv, Next, Passed PROVE Judged
    BY DEF vars, row
  <2>1. ResolveMarket
    <3>1. ASSUME Request \/ Sweep PROVE FALSE
      BY <3>1 DEF Request, Sweep, CreateMarket, PlaceBet, SellShares, ResolveOpen,
         ResolveResolving, CastCommitteeVote, RequestResolution, ResolverAnswers,
         AdminTransition, FixResolutions, Starts, row
    <3>2. ASSUME Commit, ~ResolveMarket PROVE FALSE
      BY <3>2 DEF Commit, UpdateUserBalance, PayWinner, InsertMarket,
         UpdateMarketPool, UpdatePosition, ReducePosition, ClearPosition, CreateBet,
         UpdateMarketCommittee, UpdateMarketStatus, UpsertCommitteeVote, row
    <3> QED
      BY <3>1, <3>2 DEF Next, RequestFails, ProcessRestarts, CloseTimePasses,
         WindowPasses, row
  <2>2. Head(todo).kind = "resolve" /\ todo # <<>> /\ resolution' = Head(todo).outcome
    BY <2>1 DEF ResolveMarket, Committing
  <2>3. Deciding
    BY <2>1, ResolutionIsDecided
  <2>4. PICK outcome \in Outcome, by \in {"creator", "committee", "resolver"} :
          /\ todo = <<Resolves(outcome, by)>>
          /\ by = "creator" => ~WindowActive
          /\ by = "committee" => \A u \in committee : votes[u] = outcome
    BY <2>3 DEF Deciding
  <2>5. Head(todo).by = by /\ Head(todo).outcome = outcome
    BY <2>4 DEF Resolves
  <2> QED BY <2>2, <2>4, <2>5 DEF WindowActive
<1> QED BY <1>1, SpecKeepsInv, PTL DEF Spec, CommitteeWindow

-----------------------------------------------------------------------------
(* What the winners are paid.                                              *)

\* The bounds are counted up, never down.
LEMMA UsedGrows ==
  ASSUME MarketInv, Next
  PROVE  /\ used'.questions = 0 => used.questions = 0
         /\ used'.fixes = 0 => used.fixes = 0
         /\ used'.failures = 0 => used.failures = 0
         /\ FixResolutions => used'.fixes # 0
         /\ RequestFails \/ ProcessRestarts => used'.failures # 0
<1> USE DEF MarketInv, Counted, Counters
<1>1. ASSUME NEW what \in {"trades", "questions", "transitions", "fixes", "failures"},
             NEW bound, Use(what, bound)
      PROVE  /\ used'.questions = 0 => used.questions = 0
             /\ used'.fixes = 0 => used.fixes = 0 /\ what # "fixes"
             /\ used'.failures = 0 => used.failures = 0 /\ what # "failures"
  <2>1. CASE what = "trades"
    BY <1>1, <2>1 DEF Use
  <2>2. CASE what = "questions"
    BY <1>1, <2>2 DEF Use
  <2>3. CASE what = "transitions"
    BY <1>1, <2>3 DEF Use
  <2>4. CASE what = "fixes"
    BY <1>1, <2>4 DEF Use
  <2>5. CASE what = "failures"
    BY <1>1, <2>5 DEF Use
  <2> QED BY <2>1, <2>2, <2>3, <2>4, <2>5
<1> DEFINE Counts ==
      \/ used' = used
      \/ \E what \in {"trades", "questions", "transitions", "fixes", "failures"} :
           \E bound : Use(what, bound)
<1>2. Counts
  <2>1. ASSUME Request \/ Sweep PROVE Counts
    BY <2>1 DEF Request, Sweep, CreateMarket, PlaceBet, SellShares, ResolveOpen,
       ResolveResolving, CastCommitteeVote, RequestResolution, ResolverAnswers,
       AdminTransition, FixResolutions
  <2>2. ASSUME Commit PROVE Counts
    BY <2>2 DEF Commit, UpdateUserBalance, PayWinner, InsertMarket,
         UpdateMarketPool, UpdatePosition, ReducePosition, ClearPosition, CreateBet,
         UpdateMarketCommittee, UpdateMarketStatus, UpsertCommitteeVote, ResolveMarket,
         Rest
  <2> QED
    BY <2>1, <2>2 DEF Next, RequestFails, ProcessRestarts, CloseTimePasses, WindowPasses
<1>3. (FixResolutions => Use("fixes", MaxFixes))
      /\ (RequestFails \/ ProcessRestarts => Use("failures", MaxFailures))
  BY DEF FixResolutions, RequestFails, ProcessRestarts
<1> QED BY <1>1, <1>2, <1>3

\* Between commits, only the plan, the counts and the clocks move.
LEMMA OthersKeepRows ==
  ASSUME Next, ~Commit
  PROVE  UNCHANGED <<status, resolution, pool, committee, holdings, money, votes,
                     history>>
<1>1. ASSUME Request \/ Sweep
      PROVE  UNCHANGED <<row, holdings, money, votes, history>>
  BY <1>1 DEF Request, Sweep, CreateMarket, PlaceBet, SellShares, ResolveOpen,
     ResolveResolving, CastCommitteeVote, RequestResolution, ResolverAnswers,
     AdminTransition, FixResolutions, Starts
<1> QED
  BY <1>1 DEF Next, RequestFails, ProcessRestarts, CloseTimePasses, WindowPasses, row

Paid(u)   == ledger[u]["payout"]
Unpaid    == {u \in Users : Paid(u) # due[u]}
Recovered == ledger[Creator]["creator_recovery"]

\* Before the market resolves nothing is due and nothing is paid.
BeforeSettlement ==
  /\ outcomes = {} /\ Recovered = 0
  /\ \A u \in Users : Paid(u) = 0 /\ due[u] = 0

\* A running settlement pays those it has left, and ends after the last.
SettlementRuns ==
  \/ todo = <<>>
  \/ todo \in Seq(SettleCommits) /\ (used.fixes = 0 => Unpaid = {})
  \/ \E left \in SUBSET Users, rest \in Seq(SettleCommits) :
       /\ left # {}
       /\ todo = PaysWinners(resolution, left) \o rest
       /\ \A u \in left : Paid(u) = 0 /\ shares[u][resolution] = due[u]
       /\ Unpaid \subseteq left

\* Nobody is paid but what is due, and whoever is not paid still has the
\* shares, unless the market was repaired.
AfterSettlement ==
  /\ \A u \in Users : Paid(u) \in {0, due[u]}
  /\ used.fixes = 0 => \A u \in Unpaid : shares[u][resolution] = due[u]
  /\ SettlementRuns

SettleInv ==
  IF status = "RESOLVED" THEN Unasked => AfterSettlement ELSE BeforeSettlement

\* No commit takes a market out of RESOLVED.
LEMMA ResolvedStays ==
  ASSUME MarketInv, status = "RESOLVED", Commit
  PROVE  status' = "RESOLVED" /\ (Settling \/ Deciding)
<1>1. todo # <<>>
  BY KindsAreActions
<1>2. Settling \/ Deciding
  BY <1>1 DEF MarketInv, Planned, Creating, Trading, Convening, Marking, Voting
<1>3. Head(todo).kind \notin {"insert", "status"}
  <2>1. Deciding => Head(todo).kind = "resolve"
    BY DEF Deciding, Resolves
  <2> QED BY <1>1, <1>2, <2>1, SettlingHead
<1>4. ~InsertMarket /\ ~UpdateMarketStatus
  BY <1>3 DEF InsertMarket, UpdateMarketStatus, Committing
<1>5. status' = "RESOLVED"
  BY <1>4 DEF Commit, UpdateUserBalance, PayWinner, UpdateMarketPool, UpdatePosition,
     ReducePosition, ClearPosition, CreateBet, UpdateMarketCommittee,
     UpsertCommitteeVote, ResolveMarket, row
<1> QED BY <1>2, <1>5

\* A trade credits nobody with what a pool leaves.
LEMMA RecoveryIsNoTrade ==
  ASSUME Trading, todo # <<>>, Head(todo).kind = "balance"
  PROVE  Head(todo).type # "creator_recovery"
<1>1. CASE todo \in Seq(TradeCommits)
  BY <1>1, HeadTailProperties DEF TradeCommits
<1>2. ASSUME NEW u \in Users, NEW cost \in Nat, NEW fee \in Nat,
             NEW rest \in Seq(TradeCommits), Debits(u, cost, fee, "buy", rest)
      PROVE  Head(todo).type = "buy"
  BY <1>2, PlanWithHead DEF Debits, Pays
<1> QED BY <1>1, <1>2 DEF Trading

LEMMA ResolutionStartsSettlement ==
  ASSUME MarketInv, SettleInv, Unasked, ResolveMarket
  PROVE  status' = "RESOLVED" /\ AfterSettlement'
<1>1. Deciding /\ pool \in Pool
  BY ResolutionIsDecided DEF MarketInv, TypeOK
<1>2. PICK outcome \in Outcome, by \in {"creator", "committee", "resolver"} :
        /\ todo = <<Resolves(outcome, by)>> /\ by # "resolver" /\ status = "RESOLVING"
  BY <1>1 DEF Deciding, Unasked
<1>3. Head(todo).outcome = outcome
  BY <1>2 DEF Resolves
<1>4. BeforeSettlement
  BY <1>2 DEF SettleInv
<1>5. /\ status' = "RESOLVED" /\ resolution' = outcome /\ todo' = PayoutPlan(outcome)
      /\ due' = [u \in Users |-> shares[u][outcome]]
      /\ UNCHANGED <<shares, ledger, used>>
  BY <1>3, <1>4 DEF ResolveMarket, BeforeSettlement, holdings, money
<1>6. \A u \in Users : /\ Paid(u)' = 0
                       /\ due'[u] = shares'[u][resolution']
                       /\ due'[u] \in Nat
  BY <1>4, <1>5 DEF BeforeSettlement, Paid, MarketInv, TypeOK, Pool
<1>7. Unpaid' = Winners(outcome)
  BY <1>5, <1>6 DEF Unpaid, Winners
<1>8. SettlementRuns'
  <2>1. CASE Winners(outcome) = {} /\ PayoutPlan(outcome) \in Seq(SettleCommits)
    BY <1>5, <1>7, <2>1 DEF SettlementRuns
  <2>2. ASSUME Winners(outcome) # {},
               NEW rest \in Seq(SettleCommits),
               PayoutPlan(outcome) = PaysWinners(outcome, Winners(outcome)) \o rest
        PROVE  SettlementRuns'
    <3>1. Winners(outcome) \in SUBSET Users
      BY DEF Winners
    <3>2. todo' = PaysWinners(resolution', Winners(outcome)) \o rest
      BY <1>5, <2>2
    <3> QED BY <1>6, <1>7, <2>2, <3>1, <3>2 DEF SettlementRuns
  <2> QED BY <1>1, <2>1, <2>2, PayoutPlanTyped
<1>9. \A u \in Unpaid' : shares'[u][resolution'] = due'[u]
  BY <1>6 DEF Unpaid
<1> QED BY <1>5, <1>6, <1>8, <1>9 DEF AfterSettlement

\* A commit of anything but a payment pays no winner.
LEMMA OthersPayNobody ==
  ASSUME MarketInv, Commit, ~PayWinner, ~ResolveMarket
  PROVE  /\ UNCHANGED <<due, outcomes, resolution, used>>
         /\ \A u \in Users : Paid(u)' = Paid(u)
<1>1. UNCHANGED <<due, outcomes, resolution, used>>
  BY DEF Commit, UpdateUserBalance, InsertMarket,
         UpdateMarketPool, UpdatePosition, ReducePosition, ClearPosition, CreateBet,
         UpdateMarketCommittee, UpdateMarketStatus, UpsertCommitteeVote,
         Rest, history, row
<1>2. CASE UpdateUserBalance
  <2> DEFINE c == Head(todo)
  <2>1. /\ c.user \in Users /\ c.type # "payout" /\ c.type \in TxTypes
        /\ ledger' = [ledger EXCEPT ![c.user][c.type] = @ + c.amount]
    BY <1>2, HeadAndTail, CommitFields
       DEF UpdateUserBalance, Committing, Credits, MarketInv
  <2> HIDE DEF c
  <2> QED BY <1>1, <2>1 DEF Paid, MarketInv, TypeOK, TxTypes
<1>3. CASE ~UpdateUserBalance
  <2>1. UNCHANGED ledger
    BY <1>3 DEF Commit, InsertMarket,
         UpdateMarketPool, UpdatePosition, ReducePosition, ClearPosition, CreateBet,
         UpdateMarketCommittee, UpdateMarketStatus, UpsertCommitteeVote, money
  <2> QED BY <1>1, <2>1 DEF Paid
<1> QED BY <1>2, <1>3

LEMMA SettlementGoesOnPaying ==
  ASSUME MarketInv, SettleInv, Unasked, status = "RESOLVED", Commit
  PROVE  status' = "RESOLVED" /\ AfterSettlement'
<1>1. AfterSettlement /\ todo # <<>>
  BY KindsAreActions DEF SettleInv
<1>2. ~ResolveMarket
  <2>1. ~Deciding
    <3> SUFFICES ASSUME Deciding PROVE FALSE
      OBVIOUS
    <3>1. PICK outcome \in Outcome, by \in {"creator", "committee", "resolver"} :
            /\ by = "creator" => status = "RESOLVING"
            /\ by = "committee" => status = "RESOLVING"
            /\ by # "resolver"
      BY DEF Deciding, Unasked
    <3> QED BY <3>1
  <2> QED BY <2>1, ResolutionIsDecided
<1>3. CASE todo \in Seq(SettleCommits)
  <2>1. /\ todo' \in Seq(SettleCommits) /\ UNCHANGED status
        /\ Head(todo).kind \in {"balance", "pool", "clear"}
    BY <1>3, SettlementGoesOn DEF Unjudged
  <2>2. ~PayWinner
    BY <2>1 DEF PayWinner, Committing
  <2>3. /\ UNCHANGED <<due, outcomes, resolution, used>>
        /\ \A u \in Users : Paid(u)' = Paid(u)
    BY <1>2, <2>2, OthersPayNobody
  <2>4. Unpaid' = Unpaid
    BY <2>3 DEF Unpaid
  <2>5. used.fixes = 0 => Unpaid = {}
    <3>1. ASSUME NEW left \in SUBSET Users, NEW rest \in Seq(SettleCommits),
                 left # {}, todo = PaysWinners(resolution, left) \o rest
          PROVE  Head(todo).kind = "winners"
      BY <3>1, PlanWithHead DEF PaysWinners
    <3> QED BY <1>1, <2>1, <3>1 DEF AfterSettlement, SettlementRuns
  <2> QED BY <1>1, <2>1, <2>3, <2>4, <2>5 DEF AfterSettlement, SettlementRuns
<1>4. ASSUME NEW left \in SUBSET Users, NEW rest \in Seq(SettleCommits),
             left # {}, todo = PaysWinners(resolution, left) \o rest,
             \A u \in left : Paid(u) = 0 /\ shares[u][resolution] = due[u],
             Unpaid \subseteq left
      PROVE  status' = "RESOLVED" /\ AfterSettlement'
  <2>1. resolution \in Outcome
    BY DEF MarketInv, ResolvedHasOutcome
  <2>2. /\ UNCHANGED <<status, resolution, shares, due, used>>
        /\ \E u \in left :
             /\ Credits(u, "payout", shares[u][resolution])
             /\ todo' = PaysWinners(resolution, left \ {u}) \o rest
             /\ left \ {u} = {} => todo' = rest
    BY <1>4, <2>1, PaymentGoesOn DEF row, holdings, history
  <2>3. PICK u \in left :
          /\ Credits(u, "payout", shares[u][resolution])
          /\ todo' = PaysWinners(resolution, left \ {u}) \o rest
          /\ left \ {u} = {} => todo' = rest
    BY <2>2
  <2>4. Paid(u)' = due[u] /\ \A v \in Users \ {u} : Paid(v)' = Paid(v)
    <3>1. u \in Users /\ due[u] \in Nat /\ shares[u][resolution] = due[u] /\ Paid(u) = 0
      BY <1>4 DEF MarketInv, TypeOK
    <3>2. ledger' = [ledger EXCEPT ![u]["payout"] = @ + due[u]]
      BY <2>3, <3>1 DEF Credits
    <3> QED BY <3>1, <3>2 DEF Paid, MarketInv, TypeOK, TxTypes
  <2>5. Unpaid' \subseteq left \ {u}
    BY <1>4, <2>2, <2>4 DEF Unpaid
  <2>6. \A v \in left \ {u} : Paid(v)' = 0 /\ shares'[v][resolution'] = due'[v]
    BY <1>4, <2>2, <2>4
  <2>7. \A v \in Users : Paid(v)' \in {0, due'[v]}
    BY <1>1, <2>2, <2>4 DEF AfterSettlement
  <2>8. \A v \in Unpaid' : shares'[v][resolution'] = due'[v]
    BY <2>5, <2>6
  <2>9. SettlementRuns'
    <3>1. CASE left \ {u} = {}
      BY <2>3, <2>5, <3>1 DEF SettlementRuns
    <3>2. CASE left \ {u} # {}
      <4>1. left \ {u} \in SUBSET Users
        OBVIOUS
      <4>2. todo' = PaysWinners(resolution', left \ {u}) \o rest
        BY <2>2, <2>3
      <4> QED BY <2>5, <2>6, <3>2, <4>1, <4>2 DEF SettlementRuns
    <3> QED BY <3>1, <3>2
  <2> QED BY <2>2, <2>7, <2>8, <2>9 DEF AfterSettlement
<1> QED BY <1>1, <1>3, <1>4 DEF AfterSettlement, SettlementRuns

\* Until the market resolves, nothing is paid.
LEMMA NothingPaidYet ==
  ASSUME MarketInv, SettleInv, status # "RESOLVED", Commit, ~ResolveMarket
  PROVE  status' # "RESOLVED" /\ BeforeSettlement'
<1>1. ~PayWinner
  <2> SUFFICES ASSUME PayWinner PROVE FALSE
    OBVIOUS
  <2>1. Head(todo).kind = "winners" /\ todo # <<>>
    BY DEF PayWinner, Committing
  <2>2. ~Creating
    BY <2>1, PlanWithHead, InsertsIsAPlan DEF Creating, Debits, Pays, Inserts
  <2>3. ~Trading /\ ~Settling
    BY <2>1, TradingHead DEF Settling
  <2>4. ~Convening /\ ~Marking /\ ~Voting /\ ~Deciding
    BY <2>1 DEF Convening, Marking, Voting, Deciding, SetsCommittee, SetsResolving,
                Votes, Resolves
  <2> QED BY <2>1, <2>2, <2>3, <2>4 DEF MarketInv, Planned
<1>2. /\ UNCHANGED <<due, outcomes>>
      /\ \A u \in Users : Paid(u)' = Paid(u)
  BY <1>1, OthersPayNobody
<1>3. status' # "RESOLVED"
  BY <1>1 DEF Commit, UpdateUserBalance, InsertMarket,
         UpdateMarketPool, UpdatePosition, ReducePosition, ClearPosition, CreateBet,
         UpdateMarketCommittee, UpdateMarketStatus, UpsertCommitteeVote, row
<1>4. Recovered' = Recovered
  <2>1. CASE UpdateUserBalance
    <3> DEFINE c == Head(todo)
    <3>1. /\ c.kind = "balance" /\ todo # <<>>
          /\ ledger' = [ledger EXCEPT ![c.user][c.type] = @ + c.amount]
      BY <2>1 DEF UpdateUserBalance, Committing, Credits
    <3>2. c.user \in Users /\ c.type \in TxTypes
      BY <3>1, HeadAndTail, CommitFields DEF MarketInv
    <3>3. c.type # "creator_recovery"
      <4>1. CASE Creating
        BY <3>1, <4>1, PlanWithHead, InsertsIsAPlan DEF Creating, Debits, Pays, Inserts
      <4>2. CASE Trading
        BY <3>1, <4>2, RecoveryIsNoTrade
      <4>3. ~Convening /\ ~Marking /\ ~Voting /\ ~Deciding /\ ~Settling
        BY <3>1 DEF Convening, Marking, Voting, Deciding, SetsCommittee, SetsResolving,
                    Votes, Resolves, Settling
      <4> QED BY <3>1, <4>1, <4>2, <4>3 DEF MarketInv, Planned
    <3> HIDE DEF c
    <3>4. Creator \in Users
      BY DEF Users
    <3> QED BY <3>1, <3>2, <3>3, <3>4 DEF Recovered, MarketInv, TypeOK, TxTypes
  <2>2. CASE ~UpdateUserBalance
    BY <1>1, <2>2 DEF Commit, InsertMarket, Recovered,
         UpdateMarketPool, UpdatePosition, ReducePosition, ClearPosition, CreateBet,
         UpdateMarketCommittee, UpdateMarketStatus, UpsertCommitteeVote, money
  <2> QED BY <2>1, <2>2
<1> QED BY <1>2, <1>3, <1>4 DEF SettleInv, BeforeSettlement

LEMMA NextKeepsSettleInv ==
  ASSUME MarketInv, SettleInv, Next
  PROVE  SettleInv'
<1>1. Unasked' => Unasked
  BY UsedGrows DEF Unasked
<1>2. CASE Commit
  <2>1. CASE status # "RESOLVED" /\ ~ResolveMarket
    BY <1>2, <2>1, NothingPaidYet DEF SettleInv
  <2>2. CASE ResolveMarket
    <3>1. status' = "RESOLVED"
      BY <2>2 DEF ResolveMarket
    <3> QED BY <1>1, <2>2, <3>1, ResolutionStartsSettlement DEF SettleInv
  <2>3. CASE status = "RESOLVED"
    <3>1. status' = "RESOLVED"
      BY <1>2, <2>3, ResolvedStays
    <3> QED BY <1>1, <1>2, <2>3, <3>1, SettlementGoesOnPaying DEF SettleInv
  <2> QED BY <2>1, <2>2, <2>3
<1>3. CASE ~Commit
  <2>1. /\ UNCHANGED <<status, resolution, due, outcomes, shares, ledger>>
    BY <1>3, OthersKeepRows DEF holdings, money, history
  <2>2. (\A u \in Users : Paid(u)' = Paid(u)) /\ Unpaid' = Unpaid /\ Recovered' = Recovered
    BY <2>1 DEF Paid, Unpaid, Recovered
  <2>3. CASE status # "RESOLVED"
    BY <2>1, <2>2, <2>3 DEF SettleInv, BeforeSettlement
  <2>4. ASSUME status = "RESOLVED", Unasked' PROVE AfterSettlement'
    <3>1. AfterSettlement
      BY <1>1, <2>4 DEF SettleInv
    <3>2. SettlementRuns'
      <4>1. CASE todo' = <<>>
        BY <4>1 DEF SettlementRuns
      <4>2. CASE FixResolutions
        <5>1. resolution \in Outcome
          BY <2>4 DEF MarketInv, ResolvedHasOutcome
        <5>2. todo' \in Seq(SettleCommits)
          BY <4>2, <5>1, CleanupPlan DEF FixResolutions, Starts, MarketInv, TypeOK
        <5>3. used'.fixes # 0
          BY <4>2, UsedGrows
        <5> QED BY <5>2, <5>3 DEF SettlementRuns
      <4>3. CASE CloseTimePasses \/ WindowPasses
        <5>1. UNCHANGED <<todo, used>>
          BY <4>3 DEF CloseTimePasses, WindowPasses
        <5> QED BY <2>1, <2>2, <3>1, <5>1 DEF AfterSettlement, SettlementRuns
      <4>4. ~(\E answer \in Outcome \cup {None} : ResolverAnswers(answer))
        <5>1. Unasked
          BY <1>1, <2>4
        <5> QED BY <5>1 DEF ResolverAnswers, MarketInv, Counted, Unasked
      <4>5. CASE (Request /\ ~FixResolutions) \/ Sweep
        BY <2>4, <4>4, <4>5 DEF Request, Sweep, CreateMarket, PlaceBet, SellShares,
           ResolveOpen, ResolveResolving, CastCommitteeVote, RequestResolution,
           AdminTransition
      <4>6. CASE RequestFails \/ ProcessRestarts
        BY <4>1, <4>6 DEF RequestFails, ProcessRestarts
      <4> QED BY <1>3, <4>1, <4>2, <4>3, <4>5, <4>6 DEF Next
    <3>3. used'.fixes = 0 => used.fixes = 0
      BY UsedGrows
    <3> QED BY <2>1, <2>2, <3>1, <3>2, <3>3 DEF AfterSettlement
  <2> QED BY <2>1, <2>3, <2>4 DEF SettleInv
<1> QED BY <1>2, <1>3

LEMMA StutterKeepsSettleInv ==
  ASSUME SettleInv, UNCHANGED vars
  PROVE  SettleInv'
BY DEF vars, row, holdings, money, history, SettleInv, Unasked, AfterSettlement,
       BeforeSettlement, SettlementRuns, Paid, Unpaid, Recovered

LEMMA SpecKeepsSettleInv == Spec => []SettleInv
<1>1. Init => SettleInv
  BY DEF Init, SettleInv, BeforeSettlement, Paid, Recovered, TxTypes, Users
<1>2. MarketInv /\ SettleInv /\ [Next]_vars => SettleInv'
  BY NextKeepsSettleInv, StutterKeepsSettleInv
<1> QED BY <1>1, <1>2, SpecKeepsInv, PTL DEF Spec

\* No position is paid more than it won, for any number of bets, sales,
\* repeated resolutions, repairs and failures, as long as the resolver is not
\* asked.
THEOREM WinnersPaidAtMostOnce == Spec => []PaidAtMostOnce
<1>1. MarketInv /\ SettleInv => PaidAtMostOnce
  <2> SUFFICES ASSUME MarketInv, SettleInv, Unasked, NEW u \in Users
               PROVE  Paid(u) <= due[u]
    BY DEF PaidAtMostOnce, Paid
  <2>1. due[u] \in Nat
    BY DEF MarketInv, TypeOK
  <2> QED BY <2>1 DEF SettleInv, AfterSettlement, BeforeSettlement
<1> QED BY <1>1, SpecKeepsInv, SpecKeepsSettleInv, PTL

\* A winner's shares are not taken before it is paid, wherever a settlement is
\* cut short, as long as neither the repair nor the resolver is asked for.
THEOREM WinnersPaidFirst == Spec => []SettlementPaysFirst
<1>1. MarketInv /\ SettleInv => SettlementPaysFirst
  <2> SUFFICES ASSUME MarketInv, SettleInv, Unasked, used.fixes = 0,
                      status = "RESOLVED", NEW u \in Users, shares[u] = Empty
               PROVE  Paid(u) = due[u]
    BY DEF SettlementPaysFirst, ZeroedWerePaid, Paid
  <2>1. resolution \in Outcome /\ AfterSettlement
    BY DEF MarketInv, ResolvedHasOutcome, SettleInv
  <2>2. shares[u][resolution] = 0
    BY <2>1 DEF Empty
  <2> QED BY <2>1, <2>2 DEF AfterSettlement, Unpaid
<1> QED BY <1>1, SpecKeepsInv, SpecKeepsSettleInv, PTL

-----------------------------------------------------------------------------
(* Who is in the committee.                                                *)

\* If nothing failed, the committee is one form_committee can choose, and a
\* market that is still OPEN has one only when its status is written next.
ChosenInv ==
  Unfailing =>
    /\ status \in {"OPEN", "RESOLVING"} /\ committee # {} =>
         committee \in PossibleCommittees
    /\ status \in {"NONE", "OPEN"} /\ committee # {} =>
         todo # <<>> /\ Head(todo).kind = "status"

\* Only trades change what is invested, and no trade runs when there is a
\* committee.
LEMMA InvestmentsStay ==
  ASSUME MarketInv, ChosenInv, Unfailing, Next, committee # {},
         status \in {"OPEN", "RESOLVING"}
  PROVE  UNCHANGED invested
<1>1. ~UpdatePosition
  <2> SUFFICES ASSUME UpdatePosition PROVE FALSE
    OBVIOUS
  <2>1. Head(todo).kind = "position" /\ todo # <<>>
    BY DEF UpdatePosition, Committing
  <2>2. status = "RESOLVING"
    BY <2>1 DEF ChosenInv
  <2>3. ~Creating /\ ~Trading /\ ~Settling /\ ~Marking
    BY <2>2 DEF Creating, Trading, Settling, Marking
  <2>4. ~Convening /\ ~Voting /\ ~Deciding
    BY <2>1 DEF Convening, Voting, Deciding, SetsCommittee, Votes, Resolves
  <2> QED BY <2>1, <2>3, <2>4 DEF MarketInv, Planned
<1>2. CASE Commit
  BY <1>1, <1>2 DEF Commit, UpdateUserBalance, PayWinner, InsertMarket,
       UpdateMarketPool, ReducePosition, ClearPosition, CreateBet,
       UpdateMarketCommittee, UpdateMarketStatus, UpsertCommitteeVote, ResolveMarket,
       holdings
<1>3. CASE ~Commit
  BY <1>3, OthersKeepRows DEF holdings
<1> QED BY <1>2, <1>3

\* The committee written is one of those form_committee can choose.
LEMMA CommitteeIsChosen ==
  ASSUME MarketInv, UpdateMarketCommittee
  PROVE  /\ committee' \in PossibleCommittees' /\ status \in {"OPEN", "RESOLVING"}
         /\ status' = status
         /\ status = "OPEN" => todo' # <<>> /\ Head(todo').kind = "status"
<1>1. Head(todo).kind = "committee" /\ todo # <<>>
  BY DEF UpdateMarketCommittee, Committing
<1>2. Convening
  <2>1. ~Creating
    BY <1>1, PlanWithHead, InsertsIsAPlan DEF Creating, Debits, Pays, Inserts
  <2>2. ~Trading /\ ~Settling
    BY <1>1, TradingHead, SettlingHead
  <2>3. ~Marking /\ ~Voting /\ ~Deciding
    BY <1>1 DEF Marking, Voting, Deciding, SetsResolving, Votes, Resolves
  <2> QED BY <1>1, <2>1, <2>2, <2>3 DEF MarketInv, Planned
<1>3. PICK members \in PossibleCommittees :
        \/ /\ status = "OPEN"
           /\ \/ todo = <<SetsCommittee(members), SetsResolving>>
              \/ \E outcome \in Outcome :
                   todo = <<SetsCommittee(members), SetsResolving,
                            Resolves(outcome, "creator")>>
        \/ /\ status = "RESOLVING"
           /\ Head(todo) = SetsCommittee(members)
  BY <1>2 DEF Convening
<1>4. Head(todo).members = members
  BY <1>3 DEF SetsCommittee
<1>5. committee' = members /\ status' = status /\ todo' = Tail(todo)
      /\ UNCHANGED invested
  BY <1>4 DEF UpdateMarketCommittee, Rest, holdings
<1>6. PossibleCommittees' = PossibleCommittees
  BY <1>5, ChoiceStays
<1>7. ASSUME status = "OPEN" PROVE todo' # <<>> /\ Head(todo') = SetsResolving
  <2>1. CASE todo = <<SetsCommittee(members), SetsResolving>>
    <3>1. todo' = <<SetsResolving>>
      BY <1>5, <2>1
    <3> QED BY <3>1
  <2>2. ASSUME NEW outcome \in Outcome,
               todo = <<SetsCommittee(members), SetsResolving,
                        Resolves(outcome, "creator")>>
        PROVE  todo' # <<>> /\ Head(todo') = SetsResolving
    <3>1. todo' = <<SetsResolving, Resolves(outcome, "creator")>>
      BY <1>5, <2>2
    <3> QED BY <3>1
  <2> QED BY <1>3, <1>7, <2>1, <2>2
<1> QED BY <1>3, <1>5, <1>6, <1>7 DEF SetsResolving

LEMMA NextKeepsChosenInv ==
  ASSUME MarketInv, ChosenInv, Next
  PROVE  ChosenInv'
<1> SUFFICES ASSUME Unfailing' PROVE ChosenInv'
  BY DEF ChosenInv
<1>1. Unfailing /\ ~RequestFails /\ ~ProcessRestarts
  BY UsedGrows DEF Unfailing
<1>2. CASE UpdateMarketCommittee
  BY <1>2, CommitteeIsChosen DEF ChosenInv
<1>3. CASE ~UpdateMarketCommittee
  <2>1. UNCHANGED committee
    <3>1. CASE Commit
      BY <1>3, <3>1 DEF Commit, UpdateUserBalance, PayWinner, InsertMarket,
       UpdateMarketPool, UpdatePosition, ReducePosition, ClearPosition, CreateBet,
       UpdateMarketStatus, UpsertCommitteeVote, ResolveMarket, row
    <3>2. CASE ~Commit
      BY <3>2, OthersKeepRows
    <3> QED BY <3>1, <3>2
  <2>2. CASE committee = {}
    BY <2>1, <2>2 DEF ChosenInv
  <2>3. CASE committee # {} /\ status \in {"NONE", "OPEN"}
    <3>1. todo # <<>> /\ Head(todo).kind = "status"
      BY <1>1, <2>3 DEF ChosenInv
    <3>2. CASE Commit
      <4>1. status' = "RESOLVING" /\ UNCHANGED invested /\ status = "OPEN"
        <5>1. UpdateMarketStatus
          BY <3>1, <3>2, KindsAreActions
        <5>2. status = "OPEN"
          <6>1. ~Creating
            BY <3>1, PlanWithHead, InsertsIsAPlan DEF Creating, Debits, Pays, Inserts
          <6> QED BY <2>3, <3>1, <6>1 DEF MarketInv, Planned, Trading, Settling,
                     Convening, Marking, Voting, Deciding, Resolves
        <5> QED BY <5>1, <5>2 DEF UpdateMarketStatus, holdings
      <4>2. PossibleCommittees' = PossibleCommittees
        BY <4>1, ChoiceStays
      <4> QED BY <1>1, <2>1, <2>3, <4>1, <4>2 DEF ChosenInv
    <3>3. CASE ~Commit
      <4>1. CloseTimePasses \/ WindowPasses
        <5>1. ~Request /\ ~Sweep
          BY <3>1 DEF Request, Sweep, CreateMarket, PlaceBet, SellShares, ResolveOpen,
             ResolveResolving, CastCommitteeVote, RequestResolution, ResolverAnswers,
             AdminTransition, FixResolutions, Starts
        <5> QED BY <1>1, <3>3, <5>1 DEF Next
      <4>2. UNCHANGED <<status, invested, todo>>
        BY <4>1 DEF CloseTimePasses, WindowPasses, row, holdings
      <4>3. PossibleCommittees' = PossibleCommittees
        BY <4>2, ChoiceStays
      <4> QED BY <1>1, <2>1, <4>2, <4>3 DEF ChosenInv
    <3> QED BY <3>2, <3>3
  <2>4. CASE committee # {} /\ status = "RESOLVING"
    <3>1. UNCHANGED invested
      BY <1>1, <2>4, InvestmentsStay
    <3>2. PossibleCommittees' = PossibleCommittees
      BY <3>1, ChoiceStays
    <3>3. status' \in {"RESOLVING", "RESOLVED"}
      <4>1. CASE Commit
        <5>1. ~InsertMarket
          <6> SUFFICES ASSUME InsertMarket PROVE FALSE
            OBVIOUS
          <6>1. Head(todo).kind = "insert" /\ todo # <<>>
            BY DEF InsertMarket, Committing
          <6>2. ~Creating /\ ~Trading /\ ~Settling /\ ~Marking
            BY <2>4 DEF Creating, Trading, Settling, Marking
          <6>3. ~Convening /\ ~Voting /\ ~Deciding
            BY <6>1 DEF Convening, Voting, Deciding, SetsCommittee, Votes, Resolves
          <6> QED BY <6>1, <6>2, <6>3 DEF MarketInv, Planned
        <5> QED
          BY <1>3, <2>4, <4>1, <5>1 DEF Commit, UpdateUserBalance, PayWinner,
             UpdateMarketPool, UpdatePosition, ReducePosition, ClearPosition, CreateBet,
             UpdateMarketStatus, UpsertCommitteeVote, ResolveMarket, row
      <4>2. CASE ~Commit
        BY <2>4, <4>2, OthersKeepRows
      <4> QED BY <4>1, <4>2
    <3> QED BY <1>1, <2>1, <2>4, <3>2, <3>3 DEF ChosenInv
  <2>5. CASE committee # {} /\ status = "RESOLVED"
    <3>1. status' = "RESOLVED"
      <4>1. CASE Commit
        BY <2>5, <4>1, ResolvedStays
      <4>2. CASE ~Commit
        BY <2>5, <4>2, OthersKeepRows
      <4> QED BY <4>1, <4>2
    <3> QED BY <3>1 DEF ChosenInv
  <2> QED BY <2>2, <2>3, <2>4, <2>5 DEF MarketInv, TypeOK
<1> QED BY <1>2, <1>3

LEMMA SpecKeepsChosenInv == Spec => []ChosenInv
<1>1. Init => ChosenInv
  BY DEF Init, ChosenInv
<1>2. ChosenInv /\ UNCHANGED vars => ChosenInv'
  BY ChoiceStays DEF vars, row, holdings, ChosenInv, Unfailing
<1>3. MarketInv /\ ChosenInv /\ [Next]_vars => ChosenInv'
  BY <1>2, NextKeepsChosenInv
<1> QED BY <1>1, <1>3, SpecKeepsInv, PTL DEF Spec

\* Whoever judges a market, if nothing failed, is its creator and those who
\* invested most, for any number of traders and trades and however late the
\* committee was formed.
THEOREM CommitteeIsRepresentative == Spec => []CommitteeRepresents
<1>1. MarketInv /\ ChosenInv => CommitteeRepresents
  <2> SUFFICES ASSUME MarketInv, ChosenInv, Unfailing, status = "RESOLVING",
                      committee # {}
               PROVE  /\ Creator \in committee
                      /\ Cardinality(committee) = 1 + Min({2, Cardinality(Investors)})
                      /\ \A u \in committee \ {Creator}, v \in Investors \ committee :
                           invested[u] >= invested[v]
    BY DEF CommitteeRepresents
  <2>1. PICK top \in SUBSET Investors :
          /\ committee = {Creator} \cup top
          /\ Cardinality(top) = Min({2, Cardinality(Investors)})
          /\ \A u \in top, v \in Investors \ top : invested[u] >= invested[v]
    BY DEF ChosenInv, PossibleCommittees
  <2>2. top \subseteq Users /\ Creator \notin top
    BY UsersAssumption DEF Investors, Users
  <2>3. IsFiniteSet(top)
    BY <2>2, UsersAreFinite, FS_Subset
  <2>4. Cardinality(committee) = Cardinality(top) + 1 /\ Cardinality(top) \in Nat
    <3>1. committee = top \cup {Creator}
      BY <2>1
    <3> QED BY <2>2, <2>3, <3>1, FS_AddElement, FS_CardinalityType
  <2> QED BY <2>1, <2>2, <2>4
<1> QED BY <1>1, SpecKeepsInv, SpecKeepsChosenInv, PTL

-----------------------------------------------------------------------------
(* A settlement nothing cut short.                                         *)

EverybodyPaid == \A u \in Users : Paid(u) = due[u]

\* It pays the winners, ...
Paying ==
  /\ \E left \in SUBSET Users :
       /\ left # {}
       /\ todo = PaysWinners(resolution, left) \o Cleanup(resolution)
       /\ \A u \in left : Paid(u) = 0 /\ shares[u][resolution] = due[u]
       /\ \A u \in Users \ left : Paid(u) = due[u]
  /\ Recovered = 0 /\ pool[resolution] = residual

\* ... then what the pool leaves, ...
Recovering ==
  /\ todo = Cleanup(resolution) /\ EverybodyPaid
  /\ Recovered = 0 /\ pool[resolution] = residual

\* ... ends the pool, ...
Ending ==
  /\ todo = <<SetsPool(TerminalPool(resolution), 0)>> \o Clears(Holders)
  /\ EverybodyPaid /\ Recovered = residual

\* ... and clears the positions; at most one holder is half cleared.
Clearing ==
  /\ \E one \in SUBSET Users, more \in SUBSET Users :
       /\ \A u \in one, v \in one : u = v
       /\ todo = Clears(one) \o Clears(more)
       /\ Holders \subseteq one \cup more
  /\ EverybodyPaid /\ Recovered = residual /\ pool = TerminalPool(resolution)

\* An answer of the resolver that arrives after all of it.
Reconsidering ==
  /\ \E outcome \in Outcome : todo = <<Resolves(outcome, "resolver")>>
  /\ Holders = {}
  /\ EverybodyPaid /\ Recovered = residual /\ pool = TerminalPool(resolution)

\* A resolved market has an outcome, and one of the forms above.
FullInv ==
  /\ status = "RESOLVED" => resolution \in outcomes
  /\ status = "RESOLVED" /\ Unfailing /\ outcomes = {resolution} =>
       Paying \/ Recovering \/ Ending \/ Clearing \/ Reconsidering

\* What the forms depend on besides the plan.
LEMMA FormsStay ==
  ASSUME UNCHANGED <<resolution, shares, pool, due, residual, ledger>>
  PROVE  /\ Holders' = Holders /\ EverybodyPaid' = EverybodyPaid
         /\ Recovered' = Recovered
         /\ \A u \in Users : Paid(u)' = Paid(u)
         /\ Cleanup(resolution)' = Cleanup(resolution)
BY DEF Holders, EverybodyPaid, Recovered, Paid, Cleanup, Recovery

\* A settlement starts by paying, or with the cleanup if nobody won.
LEMMA FirstResolutionIsFull ==
  ASSUME MarketInv, SettleInv, ResolveMarket, status # "RESOLVED"
  PROVE  (Paying \/ Recovering)'
<1>1. Deciding /\ pool \in Pool
  BY ResolutionIsDecided DEF MarketInv, TypeOK
<1>2. PICK outcome \in Outcome, by \in {"creator", "committee", "resolver"} :
        todo = <<Resolves(outcome, by)>>
  BY <1>1 DEF Deciding
<1>3. Head(todo).outcome = outcome
  BY <1>2 DEF Resolves
<1>4. BeforeSettlement
  BY DEF SettleInv
<1>5. /\ resolution' = outcome /\ todo' = PayoutPlan(outcome)
      /\ due' = [u \in Users |-> shares[u][outcome]] /\ residual' = pool[outcome]
      /\ UNCHANGED <<shares, ledger, pool>>
  BY <1>3, <1>4 DEF ResolveMarket, BeforeSettlement, holdings, money
<1>6. /\ \A u \in Users : Paid(u)' = 0 /\ due'[u] = shares'[u][resolution']
                           /\ due'[u] \in Nat
      /\ Recovered' = 0 /\ pool'[resolution'] = residual'
  BY <1>4, <1>5 DEF BeforeSettlement, Paid, Recovered, MarketInv, TypeOK, Pool
<1>7. Cleanup(outcome) \in Seq(SettleCommits) /\ Cleanup(resolution)' = Cleanup(outcome)
  BY <1>1, <1>5, CleanupPlan DEF Cleanup, Recovery, Holders
<1>8. \A u \in Users \ Winners(outcome) : due'[u] = 0
  BY <1>5, <1>6 DEF Winners
<1>9. CASE Winners(outcome) = {}
  <2>1. todo' = Cleanup(resolution)'
    BY <1>5, <1>7, <1>9, ConcatEmptySeq DEF PayoutPlan, PaysWinners
  <2>2. EverybodyPaid'
    BY <1>6, <1>8, <1>9 DEF EverybodyPaid
  <2> QED BY <1>6, <2>1, <2>2 DEF Recovering
<1>10. CASE Winners(outcome) # {}
  <2>1. todo' = PaysWinners(resolution', Winners(outcome)) \o Cleanup(resolution)'
    BY <1>5, <1>7 DEF PayoutPlan
  <2>2. Winners(outcome) \in SUBSET Users
    BY DEF Winners
  <2> QED BY <1>6, <1>8, <1>10, <2>1, <2>2 DEF Paying
<1> QED BY <1>9, <1>10

LEMMA PayingGoesOn ==
  ASSUME MarketInv, status = "RESOLVED", Paying, Commit
  PROVE  (Paying \/ Recovering)'
<1>1. resolution \in Outcome /\ pool \in Pool
  BY DEF MarketInv, TypeOK, ResolvedHasOutcome
<1>2. Cleanup(resolution) \in Seq(SettleCommits)
  BY <1>1, CleanupPlan
<1>3. PICK left \in SUBSET Users :
        /\ left # {}
        /\ todo = PaysWinners(resolution, left) \o Cleanup(resolution)
        /\ \A u \in left : Paid(u) = 0 /\ shares[u][resolution] = due[u]
        /\ \A u \in Users \ left : Paid(u) = due[u]
  BY DEF Paying
<1>4. /\ UNCHANGED <<resolution, shares, pool, due, residual>>
      /\ \E u \in left :
           /\ Credits(u, "payout", shares[u][resolution])
           /\ todo' = PaysWinners(resolution, left \ {u}) \o Cleanup(resolution)
           /\ left \ {u} = {} => todo' = Cleanup(resolution)
  BY <1>1, <1>2, <1>3, PaymentGoesOn DEF row, holdings, history
<1>5. PICK u \in left :
        /\ Credits(u, "payout", shares[u][resolution])
        /\ todo' = PaysWinners(resolution, left \ {u}) \o Cleanup(resolution)
        /\ left \ {u} = {} => todo' = Cleanup(resolution)
  BY <1>4
<1>6. /\ Paid(u)' = due[u] /\ \A v \in Users \ {u} : Paid(v)' = Paid(v)
      /\ Recovered' = Recovered
  <2>1. u \in Users /\ due[u] \in Nat /\ shares[u][resolution] = due[u] /\ Paid(u) = 0
    BY <1>3 DEF MarketInv, TypeOK
  <2>2. ledger' = [ledger EXCEPT ![u]["payout"] = @ + due[u]]
    BY <1>5, <2>1 DEF Credits
  <2>3. Creator \in Users
    BY DEF Users
  <2>4. Paid(u)' = due[u] /\ \A v \in Users \ {u} : Paid(v)' = Paid(v)
    BY <2>1, <2>2 DEF Paid, MarketInv, TypeOK, TxTypes
  <2>5. Recovered' = Recovered
    BY <2>1, <2>2, <2>3 DEF Recovered, MarketInv, TypeOK, TxTypes
  <2> QED BY <2>4, <2>5
<1>7. Cleanup(resolution)' = Cleanup(resolution)
  BY <1>4 DEF Cleanup, Recovery, Holders
<1>8. Recovered' = 0 /\ pool'[resolution'] = residual'
  BY <1>4, <1>6 DEF Paying
<1>9. CASE left \ {u} = {}
  <2>1. EverybodyPaid'
    BY <1>3, <1>4, <1>6, <1>9 DEF EverybodyPaid
  <2> QED BY <1>5, <1>7, <1>8, <1>9, <2>1 DEF Recovering
<1>10. CASE left \ {u} # {}
  <2>1. left \ {u} \in SUBSET Users
    OBVIOUS
  <2>2. todo' = PaysWinners(resolution', left \ {u}) \o Cleanup(resolution)'
    BY <1>4, <1>5, <1>7
  <2>3. /\ \A v \in left \ {u} : Paid(v)' = 0 /\ shares'[v][resolution'] = due'[v]
        /\ \A v \in Users \ (left \ {u}) : Paid(v)' = due'[v]
    BY <1>3, <1>4, <1>6
  <2> QED BY <1>8, <1>10, <2>1, <2>2, <2>3 DEF Paying
<1> QED BY <1>9, <1>10

\* What the cleanup is made of.
LEMMA CleanupForms ==
  ASSUME NEW outcome \in Outcome, pool \in Pool
  PROVE  LET last == <<SetsPool(TerminalPool(outcome), 0)>> \o Clears(Holders)
         IN  /\ last \in Seq(SettleCommits)
             /\ pool[outcome] = 0 => Cleanup(outcome) = last
             /\ pool[outcome] # 0 =>
                  Cleanup(outcome)
                    = <<Pays(Creator, "creator_recovery", pool[outcome], 0)>> \o last
<1> DEFINE final == SetsPool(TerminalPool(outcome), 0)
           paid  == Pays(Creator, "creator_recovery", pool[outcome], 0)
<1>1. TerminalPool(outcome) \in Pool
  BY AmountsAssumption DEF TerminalPool, Pool, Outcome
<1>2. final \in SettleCommits
  BY <1>1, TradesAreCommits DEF SettleCommits, SetsPool, Commits
<1>3. Clears(Holders) \in Seq(SettleCommits)
  BY ClearsTyped DEF Holders
<1>4. <<final>> \o Clears(Holders) \in Seq(SettleCommits)
  BY <1>2, <1>3, ConcatProperties
<1> HIDE DEF final, paid
<1>5. CASE pool[outcome] = 0
  <2>1. Recovery(outcome) = <<>>
    BY <1>5 DEF Recovery
  <2>2. <<>> \o <<final>> = <<final>>
    BY ConcatEmptySeq, <1>2
  <2> QED BY <1>4, <1>5, <2>1, <2>2 DEF Cleanup, final
<1>6. CASE pool[outcome] # 0
  <2>1. Recovery(outcome) = <<paid>>
    BY <1>6 DEF Recovery, paid
  <2>2. (<<paid>> \o <<final>>) \o Clears(Holders)
          = <<paid>> \o (<<final>> \o Clears(Holders))
    <3> DEFINE A == SettleCommits \cup {paid}
    <3>1. <<paid>> \in Seq(A) /\ <<final>> \in Seq(A) /\ Clears(Holders) \in Seq(A)
      BY <1>2, <1>3
    <3> QED BY <3>1, ConcatAssociative
  <2> QED BY <1>4, <1>6, <2>1, <2>2 DEF Cleanup, final, paid
<1> QED BY <1>5, <1>6

\* A cleanup with nothing to recover ends the pool.
LEMMA NothingToRecover ==
  ASSUME MarketInv, status = "RESOLVED", Recovering, pool[resolution] = 0
  PROVE  Ending
<1>1. resolution \in Outcome /\ pool \in Pool
  BY DEF MarketInv, TypeOK, ResolvedHasOutcome
<1>2. Cleanup(resolution) = <<SetsPool(TerminalPool(resolution), 0)>> \o Clears(Holders)
  BY <1>1, CleanupForms
<1> QED BY <1>2 DEF Recovering, Ending

LEMMA EndingGoesOn ==
  ASSUME MarketInv, status = "RESOLVED", Ending, Commit
  PROVE  Clearing'
<1> DEFINE c == SetsPool(TerminalPool(resolution), 0)
<1>1. Clears(Holders) \in Seq(SettleCommits)
  BY ClearsTyped DEF Holders
<1>2. Head(todo) = c /\ Tail(todo) = Clears(Holders) /\ todo # <<>>
  BY <1>1, PlanWithHead DEF Ending
<1>3. c.kind = "pool" /\ c.pool = TerminalPool(resolution)
  BY DEF SetsPool
<1>4. UpdateMarketPool
  BY <1>2, <1>3 DEF Commit, UpdateUserBalance, PayWinner, InsertMarket, UpdatePosition,
     ReducePosition, ClearPosition, CreateBet, UpdateMarketCommittee,
     UpdateMarketStatus, UpsertCommitteeVote, ResolveMarket, Committing,
     Inserts, SetsResolving
<1>5. /\ pool' = TerminalPool(resolution) /\ todo' = Clears(Holders)
      /\ UNCHANGED <<resolution, shares, due, residual, ledger>>
  BY <1>2, <1>3, <1>4 DEF UpdateMarketPool, Rest, holdings, money, history
<1>6. Holders' = Holders /\ EverybodyPaid' = EverybodyPaid /\ Recovered' = Recovered
  BY <1>5 DEF Holders, EverybodyPaid, Recovered, Paid
<1>7. TerminalPool(resolution)' = TerminalPool(resolution)
  BY <1>5 DEF TerminalPool
<1>8. todo' = Clears({}) \o Clears(Holders)
  BY <1>1, <1>5, ConcatEmptySeq DEF Clears
<1>9. {} \in SUBSET Users /\ Holders \in SUBSET Users
  BY DEF Holders
<1>10. \E one \in SUBSET Users, more \in SUBSET Users :
         /\ \A u \in one, v \in one : u = v
         /\ todo' = Clears(one) \o Clears(more)
         /\ Holders' \subseteq one \cup more
  BY <1>6, <1>8, <1>9
<1> QED BY <1>5, <1>6, <1>7, <1>10 DEF Clearing, Ending

LEMMA RecoveringGoesOn ==
  ASSUME MarketInv, status = "RESOLVED", Recovering, Commit, pool[resolution] # 0
  PROVE  Ending'
<1> DEFINE c    == Pays(Creator, "creator_recovery", residual, 0)
           last == <<SetsPool(TerminalPool(resolution), 0)>> \o Clears(Holders)
<1>1. resolution \in Outcome /\ pool \in Pool /\ residual \in Nat
  BY DEF MarketInv, TypeOK, ResolvedHasOutcome
<1>2. todo = <<c>> \o last /\ last \in Seq(SettleCommits)
  BY <1>1, CleanupForms DEF Recovering
<1>3. Head(todo) = c /\ Tail(todo) = last /\ todo # <<>>
  <2> HIDE DEF c, last
  <2> QED BY <1>2, PlanWithHead
<1>4. /\ c.kind = "balance" /\ c.user = Creator /\ c.type = "creator_recovery"
      /\ c.amount = residual
  BY DEF Pays
<1> HIDE DEF c
<1>5. UpdateUserBalance
  BY <1>3, <1>4 DEF Commit, PayWinner, InsertMarket, UpdateMarketPool, UpdatePosition,
     ReducePosition, ClearPosition, CreateBet, UpdateMarketCommittee,
     UpdateMarketStatus, UpsertCommitteeVote, ResolveMarket, Committing
<1>6. /\ ledger' = [ledger EXCEPT ![Creator]["creator_recovery"] = @ + residual]
      /\ todo' = last
      /\ UNCHANGED <<resolution, shares, pool, due, residual>>
  BY <1>3, <1>4, <1>5 DEF UpdateUserBalance, Credits, Rest, row, holdings, history
<1>7. Creator \in Users
  BY DEF Users
<1>8. Recovered' = residual'
  <2>1. Recovered' = Recovered + residual
    BY <1>6, <1>7 DEF Recovered, MarketInv, TypeOK, TxTypes
  <2> QED BY <1>1, <1>6, <2>1 DEF Recovering
<1>9. \A u \in Users : Paid(u)' = Paid(u)
  BY <1>6 DEF Paid, MarketInv, TypeOK, TxTypes
<1>10. EverybodyPaid'
  BY <1>6, <1>9 DEF EverybodyPaid, Recovering
<1>11. todo' = <<SetsPool(TerminalPool(resolution), 0)>>' \o Clears(Holders)'
  BY <1>6 DEF SetsPool, TerminalPool, Clears, Holders
<1> QED BY <1>8, <1>10, <1>11 DEF Ending

\* A clearing commit takes the shares of one side from one of those left, and
\* puts it first again if it has shares of the other.
LEMMA ClearingOfOne ==
  ASSUME MarketInv, Commit, NEW left \in SUBSET Users,
         NEW rest \in Seq(SettleCommits), left # {}, todo = Clears(left) \o rest
  PROVE  /\ UNCHANGED <<row, money, history>>
         /\ \E u \in left, half \in SUBSET Users :
              /\ half = IF shares'[u] = Empty THEN {} ELSE {u}
              /\ \A v \in Users \ {u} : shares'[v] = shares[v]
              /\ todo' = Clears(half) \o Clears(left \ {u}) \o rest
<1> DEFINE c == [kind |-> "clear", left |-> left]
<1>1. Head(todo) = c /\ Tail(todo) = rest /\ c.kind = "clear" /\ c.left = left
  BY PlanWithHead DEF Clears
<1> HIDE DEF c
<1>2. ClearPosition
  BY <1>1 DEF Commit, UpdateUserBalance, PayWinner, InsertMarket, UpdateMarketPool,
     UpdatePosition, ReducePosition, CreateBet, UpdateMarketCommittee,
     UpdateMarketStatus, UpsertCommitteeVote, ResolveMarket, Committing
<1>3. UNCHANGED <<row, money, history>>
  BY <1>2 DEF ClearPosition
<1>4. PICK u \in left :
        /\ \E side \in Outcome : shares' = [shares EXCEPT ![u][side] = 0]
        /\ todo' = (IF shares'[u] = Empty THEN <<>> ELSE Clears({u}))
                     \o Clears(left \ {u}) \o rest
  BY <1>1, <1>2 DEF ClearPosition, Outcome
<1>5. u \in Users /\ \A v \in Users \ {u} : shares'[v] = shares[v]
  BY <1>4 DEF MarketInv, TypeOK
<1>6. Clears({}) = <<>>
  BY DEF Clears
<1>7. CASE shares'[u] = Empty
  <2>1. {} \in SUBSET Users
    OBVIOUS
  <2> QED BY <1>3, <1>4, <1>5, <1>6, <1>7, <2>1
<1>8. CASE shares'[u] # Empty
  <2>1. {u} \in SUBSET Users
    BY <1>5
  <2> QED BY <1>3, <1>4, <1>5, <1>8, <2>1
<1> QED BY <1>7, <1>8

LEMMA ClearingGoesOn ==
  ASSUME MarketInv, status = "RESOLVED", Clearing, Commit
  PROVE  Clearing'
<1>1. PICK one \in SUBSET Users, more \in SUBSET Users :
        /\ \A u \in one, v \in one : u = v
        /\ todo = Clears(one) \o Clears(more)
        /\ Holders \subseteq one \cup more
  BY DEF Clearing
<1>2. Clears(one) \in Seq(SettleCommits) /\ Clears(more) \in Seq(SettleCommits)
  BY ClearsTyped
<1>3. Clears({}) = <<>> /\ todo # <<>>
  BY KindsAreActions DEF Clears
<1>4. PICK left \in SUBSET Users, after \in SUBSET Users :
        /\ left # {} /\ todo = Clears(left) \o Clears(after)
        /\ Holders \subseteq left \cup after
        /\ after = {} \/ \A u \in left, v \in left : u = v
  <2>1. CASE one = {}
    <3>1. todo = Clears(more) /\ todo = Clears(more) \o Clears({})
      BY <1>1, <1>2, <1>3, <2>1, ConcatEmptySeq
    <3>2. more # {} /\ {} \in SUBSET Users
      BY <1>3, <3>1
    <3> QED BY <1>1, <2>1, <3>1, <3>2
  <2>2. CASE one # {}
    BY <1>1, <2>2
  <2> QED BY <2>1, <2>2
<1>5. Clears(after) \in Seq(SettleCommits)
  BY ClearsTyped
<1>6. UNCHANGED <<resolution, pool, due, residual, ledger>>
  BY <1>4, <1>5, ClearingOfOne DEF row, money, history
<1>7. PICK u \in left, half \in SUBSET Users :
        /\ half = IF shares'[u] = Empty THEN {} ELSE {u}
        /\ \A v \in Users \ {u} : shares'[v] = shares[v]
        /\ todo' = Clears(half) \o Clears(left \ {u}) \o Clears(after)
  BY <1>4, <1>5, ClearingOfOne
<1>8. Holders' \subseteq half \cup ((left \ {u}) \cup after)
  BY <1>4, <1>7 DEF Holders
<1>9. \A a \in half, b \in half : a = b
  BY <1>7
<1>10. PICK others \in SUBSET Users :
         todo' = Clears(half) \o Clears(others) /\ others = (left \ {u}) \cup after
  <2>1. Clears(half) \in Seq(SettleCommits)
    BY ClearsTyped
  <2>2. CASE after = {}
    <3>1. Clears(left \ {u}) \in Seq(SettleCommits)
      BY ClearsTyped
    <3>2. Clears(half) \o Clears(left \ {u}) \in Seq(SettleCommits)
      BY <2>1, <3>1, ConcatProperties
    <3>3. todo' = Clears(half) \o Clears(left \ {u})
      BY <1>3, <1>7, <2>2, <3>2, ConcatEmptySeq
    <3> QED BY <2>2, <3>3
  <2>3. CASE left \ {u} = {}
    <3>1. todo' = Clears(half) \o Clears(after)
      BY <1>3, <1>7, <2>1, <2>3, ConcatEmptySeq
    <3> QED BY <2>3, <3>1
  <2> QED BY <1>4, <2>2, <2>3
<1>11. \E a \in SUBSET Users, b \in SUBSET Users :
         /\ \A v \in a, w \in a : v = w
         /\ todo' = Clears(a) \o Clears(b)
         /\ Holders' \subseteq a \cup b
  BY <1>8, <1>9, <1>10
<1>12. EverybodyPaid' = EverybodyPaid /\ Recovered' = Recovered
  BY <1>6 DEF EverybodyPaid, Recovered, Paid
<1>13. TerminalPool(resolution)' = TerminalPool(resolution)
  BY <1>6 DEF TerminalPool
<1> QED BY <1>6, <1>11, <1>12, <1>13 DEF Clearing

\* A late answer changes the outcome, or pays nobody and ends the pool again.
LEMMA ReconsideringGoesOn ==
  ASSUME MarketInv, status = "RESOLVED", Reconsidering, Commit,
         resolution \in outcomes
  PROVE  outcomes' = {resolution'} => Ending'
<1> SUFFICES ASSUME outcomes' = {resolution'} PROVE Ending'
  OBVIOUS
<1>1. resolution \in Outcome /\ pool \in Pool
  BY DEF MarketInv, TypeOK, ResolvedHasOutcome
<1>2. PICK outcome \in Outcome : todo = <<Resolves(outcome, "resolver")>>
  BY DEF Reconsidering
<1>3. Head(todo).kind = "resolve" /\ Head(todo).outcome = outcome
  BY <1>2 DEF Resolves
<1>4. ResolveMarket
  BY <1>3, KindsAreActions
<1>5. /\ resolution' = outcome /\ outcomes' = outcomes \cup {outcome}
      /\ todo' = PayoutPlan(outcome)
      /\ UNCHANGED <<due, residual, pool, shares, ledger>>
  BY <1>3, <1>4 DEF ResolveMarket, holdings, money
<1>6. outcome = resolution
  BY <1>5
<1>7. pool[resolution] = 0
  BY <1>1 DEF Reconsidering, TerminalPool
<1>8. Winners(resolution) = {}
  <2> SUFFICES ASSUME NEW u \in Users, shares[u][resolution] > 0 PROVE FALSE
    BY DEF Winners
  <2>1. shares[u] = Empty
    BY DEF Reconsidering, Holders
  <2> QED BY <1>1, <2>1 DEF Empty
<1>9. Cleanup(resolution) \in Seq(SettleCommits)
  BY <1>1, CleanupPlan
<1>10. todo' = Cleanup(resolution)
  BY <1>5, <1>6, <1>8, <1>9, ConcatEmptySeq DEF PayoutPlan, PaysWinners
<1>11. Cleanup(resolution) = <<SetsPool(TerminalPool(resolution), 0)>> \o Clears(Holders)
  BY <1>1, <1>7, CleanupForms
<1>12. /\ Holders' = Holders /\ EverybodyPaid' = EverybodyPaid
       /\ Recovered' = Recovered
       /\ <<SetsPool(TerminalPool(resolution), 0)>>'
            = <<SetsPool(TerminalPool(resolution), 0)>>
       /\ Clears(Holders)' = Clears(Holders)
  BY <1>5, <1>6 DEF Holders, EverybodyPaid, Recovered, Paid, SetsPool, TerminalPool,
                    Clears
<1> QED BY <1>5, <1>10, <1>11, <1>12 DEF Ending, Reconsidering

\* A settlement that is idle has cleared everybody.
LEMMA IdleIsCleared ==
  ASSUME MarketInv, status = "RESOLVED", todo = <<>>,
         Paying \/ Recovering \/ Ending \/ Clearing \/ Reconsidering
  PROVE  Clearing /\ Holders = {}
<1>1. resolution \in Outcome /\ pool \in Pool
  BY DEF MarketInv, TypeOK, ResolvedHasOutcome
<1>2. Clears(Holders) \in Seq(SettleCommits)
  BY ClearsTyped DEF Holders
<1>3. ~Paying
  <2> SUFFICES ASSUME Paying PROVE FALSE
    OBVIOUS
  <2>1. PICK left \in SUBSET Users :
          left # {} /\ todo = PaysWinners(resolution, left) \o Cleanup(resolution)
    BY DEF Paying
  <2> QED BY <1>1, <2>1, CleanupPlan, PlanWithHead DEF PaysWinners
<1>4. ~Recovering
  <2> DEFINE paid == Pays(Creator, "creator_recovery", pool[resolution], 0)
             final == SetsPool(TerminalPool(resolution), 0)
             last == <<final>> \o Clears(Holders)
  <2>1. /\ last \in Seq(SettleCommits)
        /\ Cleanup(resolution) \in {last, <<paid>> \o last}
    BY <1>1, CleanupForms
  <2> HIDE DEF paid, final
  <2>2. last # <<>> /\ <<paid>> \o last # <<>>
    <3>1. last # <<>>
      BY <1>2, PlanWithHead
    <3> HIDE DEF last
    <3> QED BY <2>1, <3>1, PlanWithHead
  <2> QED BY <2>1, <2>2 DEF Recovering
<1>5. ~Ending
  <2> DEFINE final == SetsPool(TerminalPool(resolution), 0)
  <2> HIDE DEF final
  <2>1. <<final>> \o Clears(Holders) # <<>>
    BY <1>2, PlanWithHead
  <2> QED BY <2>1 DEF Ending, final
<1>6. ~Reconsidering
  BY DEF Reconsidering
<1>7. Clearing
  BY <1>3, <1>4, <1>5, <1>6
<1>8. PICK one \in SUBSET Users, more \in SUBSET Users :
        todo = Clears(one) \o Clears(more) /\ Holders \subseteq one \cup more
  BY <1>7 DEF Clearing
<1>9. Clears(one) \in Seq(SettleCommits) /\ Clears(more) \in Seq(SettleCommits)
  BY ClearsTyped
<1>10. one = {} /\ more = {}
  <2>1. Clears(one) = <<>> /\ Clears(more) = <<>>
    <3> DEFINE a == Clears(one)
               b == Clears(more)
    <3>1. a \in Seq(SettleCommits) /\ b \in Seq(SettleCommits) /\ a \o b = <<>>
      BY <1>8, <1>9
    <3> HIDE DEF a, b
    <3>2. Len(a) + Len(b) = 0 /\ Len(a) \in Nat /\ Len(b) \in Nat
      BY <3>1, ConcatProperties
    <3> QED BY <3>1, <3>2, EmptySeq DEF a, b
  <2> QED BY <2>1 DEF Clears
<1> QED BY <1>7, <1>8, <1>10

LEMMA CommitKeepsFullInv ==
  ASSUME MarketInv, SettleInv, FullInv, Commit
  PROVE  FullInv'
<1>1. CASE status # "RESOLVED" /\ ~ResolveMarket
  <2>1. status' # "RESOLVED"
    BY <1>1, NothingPaidYet
  <2> QED BY <2>1 DEF FullInv
<1>2. CASE status # "RESOLVED" /\ ResolveMarket
  <2>1. resolution' \in outcomes'
    BY <1>2 DEF ResolveMarket
  <2> QED BY <1>2, <2>1, FirstResolutionIsFull DEF FullInv
<1>3. CASE status = "RESOLVED"
  <2>1. \/ UNCHANGED <<resolution, outcomes>>
        \/ \E outcome : resolution' = outcome /\ outcomes' = outcomes \cup {outcome}
    <3>1. CASE ResolveMarket
      BY <3>1 DEF ResolveMarket
    <3>2. CASE PayWinner
      BY <3>2 DEF PayWinner, row, history
    <3> QED BY <3>1, <3>2, OthersPayNobody
  <2>2. resolution \in outcomes /\ resolution' \in outcomes'
    BY <1>3, <2>1 DEF FullInv
  <2>3. ASSUME Unfailing', outcomes' = {resolution'}
        PROVE  (Paying \/ Recovering \/ Ending \/ Clearing \/ Reconsidering)'
    <3>1. Unfailing
      <4>1. Next
        BY DEF Next
      <4> QED BY <2>3, <4>1, UsedGrows DEF Unfailing
    <3>2. outcomes = {resolution}
      BY <2>1, <2>2, <2>3
    <3>3. CASE Paying
      BY <1>3, <3>3, PayingGoesOn
    <3>4. CASE Recovering
      BY <1>3, <3>4, NothingToRecover, RecoveringGoesOn, EndingGoesOn
    <3>5. CASE Ending
      BY <1>3, <3>5, EndingGoesOn
    <3>6. CASE Clearing
      BY <1>3, <3>6, ClearingGoesOn
    <3>7. CASE Reconsidering
      BY <1>3, <2>2, <2>3, <3>7, ReconsideringGoesOn
    <3> QED BY <1>3, <3>1, <3>2, <3>3, <3>4, <3>5, <3>6, <3>7 DEF FullInv
  <2> QED BY <2>2, <2>3 DEF FullInv
<1> QED BY <1>1, <1>2, <1>3

LEMMA OthersKeepFullInv ==
  ASSUME MarketInv, FullInv, Next, ~Commit
  PROVE  FullInv'
<1>1. UNCHANGED <<status, resolution, pool, shares, ledger, due, residual, outcomes>>
  BY OthersKeepRows DEF holdings, money, history
<1>2. /\ Holders' = Holders /\ EverybodyPaid' = EverybodyPaid
      /\ Recovered' = Recovered
      /\ \A u \in Users : Paid(u)' = Paid(u)
      /\ Cleanup(resolution)' = Cleanup(resolution)
      /\ TerminalPool(resolution)' = TerminalPool(resolution)
  BY <1>1, FormsStay DEF TerminalPool
<1>3. SUFFICES ASSUME status = "RESOLVED", Unfailing', outcomes = {resolution}
               PROVE (Paying \/ Recovering \/ Ending \/ Clearing \/ Reconsidering)'
  BY <1>1 DEF FullInv
<1>4. Unfailing /\ ~RequestFails /\ ~ProcessRestarts
  BY <1>3, UsedGrows DEF Unfailing
<1>5. Paying \/ Recovering \/ Ending \/ Clearing \/ Reconsidering
  BY <1>3, <1>4 DEF FullInv
<1>6. CASE todo' = todo
  <2>1. Paying => Paying'
    BY <1>1, <1>2, <1>6 DEF Paying
  <2>2. Recovering => Recovering'
    BY <1>1, <1>2, <1>6 DEF Recovering
  <2>3. Ending => Ending'
    BY <1>1, <1>2, <1>6 DEF Ending, SetsPool, TerminalPool
  <2>4. Clearing => Clearing'
    BY <1>1, <1>2, <1>6 DEF Clearing
  <2>5. Reconsidering => Reconsidering'
    BY <1>1, <1>2, <1>6 DEF Reconsidering
  <2> QED BY <1>5, <2>1, <2>2, <2>3, <2>4, <2>5
<1>7. CASE FixResolutions
  <2>1. todo = <<>> /\ pool[resolution] > 0 /\ resolution \in Outcome
    BY <1>3, <1>7 DEF FixResolutions, Starts, MarketInv, ResolvedHasOutcome
  <2>2. pool = TerminalPool(resolution)
    BY <1>3, <1>5, <2>1, IdleIsCleared DEF Clearing
  <2> QED BY <2>1, <2>2 DEF TerminalPool
<1>8. ASSUME NEW answer \in Outcome \cup {None}, ResolverAnswers(answer)
      PROVE  (Clearing \/ Reconsidering)'
  <2>1. /\ todo = <<>>
        /\ todo' = IF answer = None THEN <<>> ELSE <<Resolves(answer, "resolver")>>
    BY <1>8 DEF ResolverAnswers, Starts
  <2>2. Clearing /\ Holders = {}
    BY <1>3, <1>5, <2>1, IdleIsCleared
  <2>3. CASE answer = None
    BY <1>1, <1>2, <2>1, <2>2, <2>3 DEF Clearing
  <2>4. CASE answer # None
    BY <1>1, <1>2, <1>8, <2>1, <2>2, <2>4 DEF Clearing, Reconsidering
  <2> QED BY <2>3, <2>4
<1>9. CASE CloseTimePasses \/ WindowPasses
  <2>1. todo' = todo
    BY <1>9 DEF CloseTimePasses, WindowPasses
  <2> QED BY <1>6, <2>1
<1> QED
  BY <1>3, <1>4, <1>7, <1>8, <1>9
     DEF Next, Request, Sweep, CreateMarket, PlaceBet, SellShares, ResolveOpen,
         ResolveResolving, CastCommitteeVote, RequestResolution, AdminTransition

LEMMA StutterKeepsFullInv ==
  ASSUME FullInv, UNCHANGED vars
  PROVE  FullInv'
<1>1. /\ UNCHANGED <<resolution, shares, pool, due, residual, ledger>>
      /\ UNCHANGED <<status, outcomes, todo, used>>
  BY DEF vars, row, holdings, money, history
<1>2. /\ Holders' = Holders /\ EverybodyPaid' = EverybodyPaid
      /\ Recovered' = Recovered
      /\ \A u \in Users : Paid(u)' = Paid(u)
      /\ Cleanup(resolution)' = Cleanup(resolution)
  BY <1>1, FormsStay
<1>3. Paying => Paying'
  BY <1>1, <1>2 DEF Paying
<1>4. Recovering => Recovering'
  BY <1>1, <1>2 DEF Recovering
<1>5. Ending => Ending'
  BY <1>1, <1>2 DEF Ending, SetsPool, TerminalPool
<1>6. Clearing => Clearing'
  BY <1>1, <1>2 DEF Clearing, TerminalPool
<1>7. Reconsidering => Reconsidering'
  BY <1>1, <1>2 DEF Reconsidering, TerminalPool
<1> QED BY <1>1, <1>3, <1>4, <1>5, <1>6, <1>7 DEF FullInv, Unfailing

LEMMA SpecKeepsFullInv == Spec => []FullInv
<1>1. Init => FullInv
  BY DEF Init, FullInv
<1>2. MarketInv /\ SettleInv /\ FullInv /\ [Next]_vars => FullInv'
  <2> SUFFICES ASSUME MarketInv, SettleInv, FullInv, [Next]_vars PROVE FullInv'
    OBVIOUS
  <2>1. CASE Next
    BY <2>1, CommitKeepsFullInv, OthersKeepFullInv
  <2>2. CASE UNCHANGED vars
    BY <2>2, StutterKeepsFullInv
  <2> QED BY <2>1, <2>2
<1> QED BY <1>1, <1>2, SpecKeepsInv, SpecKeepsSettleInv, PTL DEF Spec

\* A settlement that no failure cut short, of a market resolved to one outcome
\* however often, has paid every winning share, given the creator what the pool
\* had left on the winning side, and emptied every position: for any number of
\* winners and any order in which payouts.py comes to them.
THEOREM SettlementIsFull == Spec => []SettledInFull
<1>1. MarketInv /\ FullInv => SettledInFull
  <2> SUFFICES ASSUME MarketInv, FullInv, status = "RESOLVED", Idle, Unfailing,
                      Cardinality(outcomes) = 1
               PROVE  /\ \A u \in Users : Paid(u) = due[u] /\ shares[u] = Empty
                      /\ Recovered = residual
                      /\ pool = TerminalPool(resolution)
    BY DEF SettledInFull, Paid, Recovered
  <2>1. outcomes = {resolution}
    <3>1. IsFiniteSet(outcomes)
      <4>1. IsFiniteSet({"YES"}) /\ Outcome = {"YES"} \cup {"NO"}
        BY FS_Singleton DEF Outcome
      <4>2. IsFiniteSet(Outcome)
        BY <4>1, FS_AddElement
      <4> QED BY <4>2, FS_Subset DEF MarketInv, TypeOK
    <3>2. \E outcome : outcomes = {outcome}
      BY <3>1, FS_Singleton
    <3> QED BY <3>2 DEF FullInv
  <2>2. Clearing /\ Holders = {}
    BY <2>1, IdleIsCleared DEF FullInv, Idle
  <2> QED BY <2>2 DEF Clearing, EverybodyPaid, Holders
<1> QED BY <1>1, SpecKeepsInv, SpecKeepsFullInv, PTL

-----------------------------------------------------------------------------
(* A trade, one commit at a time.                                          *)

\* What the next commit of a running trade writes.
LEMMA TradeWrites ==
  ASSUME MarketInv, Commit, NEW c, NEW q \in Seq(Commits), todo = <<c>> \o q,
         c.kind \in {"balance", "pool", "position", "reduce", "bet"}
  PROVE  /\ c \in Commits /\ todo' = q /\ UNCHANGED <<status, history, used>>
         /\ c.kind = "balance" =>
              /\ Credits(c.user, c.type, c.amount) /\ burned' = burned + c.fee
              /\ UNCHANGED <<pool, volume, holdings>>
         /\ c.kind = "pool" =>
              /\ pool' = c.pool /\ volume' = volume + c.volume
              /\ UNCHANGED <<holdings, money, burned>>
         /\ c.kind = "position" =>
              /\ shares' = [shares EXCEPT ![c.user][c.side] = @ + c.shares]
              /\ invested' = [invested EXCEPT ![c.user] = @ + c.cost]
              /\ UNCHANGED <<pool, volume, bets, money, burned>>
         /\ c.kind = "reduce" =>
              /\ shares' = [shares EXCEPT ![c.user][c.side] = Max({0, @ - c.shares})]
              /\ UNCHANGED <<pool, volume, invested, bets, money, burned>>
         /\ c.kind = "bet" =>
              /\ bets' = bets + c.amount
              /\ UNCHANGED <<pool, volume, shares, invested, money, burned>>
<1>1. Head(todo) = c /\ Tail(todo) = q
  BY PlanWithHead
<1>2. c \in Commits
  BY <1>1, HeadAndTail, KindsAreActions DEF MarketInv
<1> QED
  BY <1>1, <1>2 DEF Commit, Committing, UpdateUserBalance, PayWinner, InsertMarket,
       UpdateMarketPool, UpdatePosition, ReducePosition, ClearPosition, CreateBet,
       UpdateMarketCommittee, UpdateMarketStatus, UpsertCommitteeVote, ResolveMarket,
       Rest, row, holdings, history

\* A bet or a sale, as place_bet or sell_shares has computed it: whose it is,
\* its amount before fees, the shares that change hands and the pool after it.
Deals == [user : Users, side : Outcome, amount : Nat, shares : Nat, pool : Pool]

Debit(b) == Pays(b.user, "buy", -(b.amount + Fee(b.amount)), PlatformFee(b.user, b.amount))
Share(b) == Pays(Creator, "creator_fee", CreatorFee(b.amount), 0)
Lists(b)  == <<RecordsBet(b.amount)>>
Places(b) == <<AddsPosition(b.user, b.side, b.shares, b.amount)>> \o Lists(b)
Moves(b)  == <<SetsPool(b.pool, b.amount)>> \o Places(b)

\* The five points a running bet can be at.
Debiting(b) == todo = <<Debit(b)>> \o (FeeToCreator(b.user, b.amount) \o Moves(b))
Sharing(b)  == b.user # Creator /\ todo = <<Share(b)>> \o Moves(b)
Moving(b)   == todo = Moves(b)
Placing(b)  == todo = Places(b)
Listing(b)  == todo = Lists(b)

LEMMA WagerIsPlanned ==
  ASSUME NEW b \in Deals
  PROVE  /\ Debit(b) \in Commits /\ Share(b) \in Commits
         /\ Lists(b) \in Seq(TradeCommits) /\ Places(b) \in Seq(TradeCommits)
         /\ Moves(b) \in Seq(TradeCommits)
         /\ <<Share(b)>> \o Moves(b) \in Seq(TradeCommits)
         /\ FeeToCreator(b.user, b.amount) \o Moves(b)
              = IF b.user = Creator THEN Moves(b) ELSE <<Share(b)>> \o Moves(b)
         /\ {Lists(b), Places(b), Moves(b), <<Share(b)>> \o Moves(b)} \subseteq Seq(Commits)
<1>1. /\ b.user \in Users /\ b.side \in Outcome /\ b.amount \in Nat /\ b.shares \in Nat
      /\ b.pool \in Pool
  BY DEF Deals
<1>2. /\ SetsPool(b.pool, b.amount) \in TradeCommits
      /\ AddsPosition(b.user, b.side, b.shares, b.amount) \in TradeCommits
      /\ RecordsBet(b.amount) \in TradeCommits
  BY <1>1, TradesAreCommits
     DEF TradeCommits, SetsPool, AddsPosition, RecordsBet
<1>3. Fee(b.amount) \in Nat /\ CreatorFee(b.amount) \in Nat /\ PlatformFee(b.user, b.amount) \in Nat
  BY <1>1, FeesTyped
<1>4. Share(b) \in Commits /\ Debit(b) \in Commits
  <2>1. /\ {"buy", "creator_fee"} \subseteq TxTypes \ {"payout"} /\ Creator \in Users
        /\ -(b.amount + Fee(b.amount)) \in Int
    BY <1>1, <1>3 DEF TxTypes, Users
  <2> QED BY <1>1, <1>3, <2>1, PaysIsCommit DEF Share, Debit
<1>5. Share(b) \in TradeCommits
  BY <1>3, <1>4 DEF TradeCommits, Share, Pays
<1>6. Lists(b) \in Seq(TradeCommits)
  BY <1>2 DEF Lists
<1>7. Places(b) \in Seq(TradeCommits)
  BY <1>2, <1>6, PlanWithHead DEF Places
<1>8. Moves(b) \in Seq(TradeCommits)
  BY <1>2, <1>7, PlanWithHead DEF Moves
<1>9. <<Share(b)>> \o Moves(b) \in Seq(TradeCommits)
  BY <1>5, <1>8, PlanWithHead
<1>10. FeeToCreator(b.user, b.amount) \o Moves(b)
         = IF b.user = Creator THEN Moves(b) ELSE <<Share(b)>> \o Moves(b)
  BY <1>8, ConcatEmptySeq DEF FeeToCreator, Share
<1> QED
  BY <1>4, <1>6, <1>7, <1>8, <1>9, <1>10, SeqMonotonic DEF TradeCommits

\* From each of these points a bet goes on to the next.
LEMMA WagerGoesOn ==
  ASSUME MarketInv, Commit, NEW b \in Deals
  PROVE  /\ Debiting(b) =>
              /\ IF b.user = Creator THEN Moving(b)' ELSE Sharing(b)'
              /\ Credits(b.user, "buy", -(b.amount + Fee(b.amount)))
              /\ burned' = burned + PlatformFee(b.user, b.amount)
              /\ UNCHANGED <<pool, volume, holdings>>
         /\ Sharing(b) =>
              /\ Moving(b)'
              /\ Credits(Creator, "creator_fee", CreatorFee(b.amount))
              /\ burned' = burned + 0
              /\ UNCHANGED <<pool, volume, holdings>>
         /\ Moving(b) =>
              /\ Placing(b)'
              /\ pool' = b.pool /\ volume' = volume + b.amount
              /\ UNCHANGED <<holdings, money, burned>>
         /\ Placing(b) =>
              /\ Listing(b)'
              /\ shares' = [shares EXCEPT ![b.user][b.side] = @ + b.shares]
              /\ invested' = [invested EXCEPT ![b.user] = @ + b.amount]
              /\ UNCHANGED <<pool, volume, bets, money, burned>>
         /\ Listing(b) =>
              /\ todo' = <<>>
              /\ bets' = bets + b.amount
              /\ UNCHANGED <<pool, volume, shares, invested, money, burned>>
         /\ Debiting(b) \/ Sharing(b) \/ Moving(b) \/ Placing(b) \/ Listing(b) =>
              UNCHANGED <<status, history, used>>
<1>1. ASSUME Debiting(b)
      PROVE  /\ IF b.user = Creator THEN Moving(b)' ELSE Sharing(b)'
             /\ Credits(b.user, "buy", -(b.amount + Fee(b.amount)))
             /\ burned' = burned + PlatformFee(b.user, b.amount)
             /\ UNCHANGED <<pool, volume, holdings>> /\ UNCHANGED <<status, history, used>>
  <2> DEFINE c == Debit(b)
             q == FeeToCreator(b.user, b.amount) \o Moves(b)
  <2>1. /\ c.kind = "balance" /\ c.user = b.user /\ c.type = "buy"
        /\ c.amount = -(b.amount + Fee(b.amount)) /\ c.fee = PlatformFee(b.user, b.amount)
    BY DEF Debit, Pays
  <2>2. q \in Seq(Commits) /\ q = IF b.user = Creator THEN Moves(b) ELSE <<Share(b)>> \o Moves(b)
    BY WagerIsPlanned
  <2>3. todo = <<c>> \o q
    BY <1>1 DEF Debiting
  <2> HIDE DEF c, q
  <2>4. /\ todo' = q /\ UNCHANGED <<status, history, used>>
        /\ Credits(c.user, c.type, c.amount) /\ burned' = burned + c.fee
        /\ UNCHANGED <<pool, volume, holdings>>
    BY <2>1, <2>2, <2>3, TradeWrites
  <2> QED BY <2>1, <2>2, <2>4 DEF Moving, Sharing
<1>2. ASSUME Sharing(b)
      PROVE  /\ Moving(b)'
             /\ Credits(Creator, "creator_fee", CreatorFee(b.amount))
             /\ burned' = burned + 0
             /\ UNCHANGED <<pool, volume, holdings>> /\ UNCHANGED <<status, history, used>>
  <2> DEFINE c == Share(b)
  <2>1. /\ c.kind = "balance" /\ c.user = Creator /\ c.type = "creator_fee"
        /\ c.amount = CreatorFee(b.amount) /\ c.fee = 0
    BY DEF Share, Pays
  <2>2. todo = <<c>> \o Moves(b) /\ Moves(b) \in Seq(Commits)
    BY <1>2, WagerIsPlanned DEF Sharing
  <2> HIDE DEF c
  <2>3. /\ todo' = Moves(b) /\ UNCHANGED <<status, history, used>>
        /\ Credits(c.user, c.type, c.amount) /\ burned' = burned + c.fee
        /\ UNCHANGED <<pool, volume, holdings>>
    BY <2>1, <2>2, TradeWrites
  <2> QED BY <2>1, <2>3 DEF Moving
<1>3. ASSUME Moving(b)
      PROVE  /\ Placing(b)'
             /\ pool' = b.pool /\ volume' = volume + b.amount
             /\ UNCHANGED <<holdings, money, burned>> /\ UNCHANGED <<status, history, used>>
  <2> DEFINE c == SetsPool(b.pool, b.amount)
  <2>1. c.kind = "pool" /\ c.pool = b.pool /\ c.volume = b.amount
    BY DEF SetsPool
  <2>2. todo = <<c>> \o Places(b) /\ Places(b) \in Seq(Commits)
    BY <1>3, WagerIsPlanned DEF Moving, Moves
  <2> HIDE DEF c
  <2> QED BY <2>1, <2>2, TradeWrites DEF Placing
<1>4. ASSUME Placing(b)
      PROVE  /\ Listing(b)'
             /\ shares' = [shares EXCEPT ![b.user][b.side] = @ + b.shares]
             /\ invested' = [invested EXCEPT ![b.user] = @ + b.amount]
             /\ UNCHANGED <<pool, volume, bets, money, burned>>
             /\ UNCHANGED <<status, history, used>>
  <2> DEFINE c == AddsPosition(b.user, b.side, b.shares, b.amount)
  <2>1. /\ c.kind = "position" /\ c.user = b.user /\ c.side = b.side
        /\ c.shares = b.shares /\ c.cost = b.amount
    BY DEF AddsPosition
  <2>2. todo = <<c>> \o Lists(b) /\ Lists(b) \in Seq(Commits)
    BY <1>4, WagerIsPlanned DEF Placing, Places
  <2> HIDE DEF c
  <2> QED BY <2>1, <2>2, TradeWrites DEF Listing
<1>5. ASSUME Listing(b)
      PROVE  /\ todo' = <<>>
             /\ bets' = bets + b.amount
             /\ UNCHANGED <<pool, volume, shares, invested, money, burned>>
             /\ UNCHANGED <<status, history, used>>
  <2> DEFINE c == RecordsBet(b.amount)
  <2>1. c.kind = "bet" /\ c.amount = b.amount
    BY DEF RecordsBet
  <2>2. todo = <<c>> \o <<>>
    BY <1>5 DEF Listing, Lists
  <2> HIDE DEF c
  <2>3. <<>> \in Seq(Commits)
    OBVIOUS
  <2> QED BY <2>1, <2>2, <2>3, TradeWrites
<1> QED BY <1>1, <1>2, <1>3, <1>4, <1>5

\* A bet starts with its debit, whole.
LEMMA BetStarts ==
  ASSUME MarketInv, NEW u \in Users, NEW side \in Outcome, NEW amount \in BetAmounts,
         PlaceBet(u, side, amount)
  PROVE  \E b \in Deals :
           /\ Debiting(b)'
           /\ b.user = u /\ b.side = side /\ b.amount = amount
           /\ b.shares = SharesBought(pool, side, amount)
           /\ b.pool = PoolAfterPurchase(pool, side, amount)
<1> DEFINE n == SharesBought(pool, side, amount)
           m == PoolAfterPurchase(pool, side, amount)
           b == [user |-> u, side |-> side, amount |-> amount, shares |-> n, pool |-> m]
<1>1. amount \in Nat \ {0} /\ pool \in Pool
  BY AmountsAssumption DEF MarketInv, TypeOK
<1>2. m \in Pool
  BY <1>1, PurchaseKeepsProduct
<1>3. n \in Nat
  BY <1>1, <1>2 DEF SharesBought, Pool, PlaceBet
<1>4. todo' = BetCommits(u, side, amount)
  BY DEF PlaceBet, Starts
<1>5. BetCommits(u, side, amount)
        = <<Pays(u, "buy", -(amount + Fee(amount)), PlatformFee(u, amount))>>
          \o (FeeToCreator(u, amount)
              \o <<SetsPool(m, amount), AddsPosition(u, side, n, amount),
                   RecordsBet(amount)>>)
  BY DEF BetCommits
<1> HIDE DEF n, m
<1>6. b \in Deals
  BY <1>1, <1>2, <1>3 DEF Deals
<1>7. Moves(b) = <<SetsPool(m, amount), AddsPosition(u, side, n, amount), RecordsBet(amount)>>
  <2> DEFINE x == SetsPool(m, amount)
             y == AddsPosition(u, side, n, amount)
             z == RecordsBet(amount)
  <2>1. Moves(b) = <<x>> \o (<<y>> \o <<z>>)
    BY DEF Moves, Places, Lists
  <2> HIDE DEF x, y, z
  <2>3. <<x>> \o (<<y>> \o <<z>>) = (<<x>> \o <<y>>) \o <<z>>
    <3> DEFINE A == {x, y, z}
    <3>1. <<x>> \in Seq(A) /\ <<y>> \in Seq(A) /\ <<z>> \in Seq(A)
      OBVIOUS
    <3> QED BY <3>1, ConcatAssociative
  <2>4. Moves(b) = <<x, y, z>>
    BY <2>1, <2>3, ShortPlans
  <2> QED BY <2>4 DEF x, y, z
<1>8. PICK w \in Deals : w = b
  BY <1>6
<1>9. todo' = <<Debit(w)>> \o (FeeToCreator(w.user, w.amount) \o Moves(w))
  BY <1>4, <1>5, <1>7, <1>8 DEF Debit
<1>10. Debiting(w)'
  BY <1>9 DEF Debiting
<1> QED BY <1>8, <1>10 DEF n, m

-----------------------------------------------------------------------------
(* The books of the bets.                                                  *)

Purchases == [u \in Users |-> ledger[u]["buy"]]
Spent     == -SumFunction(Purchases)
Invested  == SumFunction(invested)

\* What trades that are no bets, and the ends of bets, commit.
QuietCommits ==
  {c \in TradeCommits : /\ c.kind \in {"balance", "pool", "reduce"}
                        /\ c.kind = "balance" => c.type # "buy"
                        /\ c.kind = "pool" => c.volume = 0}

\* A bet that runs has written the books it has not reached yet.
Betting ==
  \E b \in Deals :
    \/ Debiting(b)
    \/ (Sharing(b) \/ Moving(b)) /\ volume + b.amount <= Spent
    \/ Placing(b) /\ Invested + b.amount <= volume
    \/ Listing(b) /\ bets + b.amount <= Invested

BookInv == BooksAgree /\ (Trading => todo \in Seq(QuietCommits) \/ Betting)

\* The sums of a typed state.
LEMMA BookSums ==
  ASSUME TypeOK
  PROVE  /\ Invested \in Int /\ Spent \in Int
         /\ Purchases \in [Users -> Int] /\ SumFunction(Purchases) \in Int
<1>1. Purchases \in [Users -> Int] /\ invested \in [Users -> Int]
  BY DEF Purchases, TypeOK, TxTypes
<1>2. SumFunction(Purchases) \in Int /\ Invested \in Int
  <2>1. Creator \in Users /\ 0 \in Int
    BY DEF Users
  <2> QED BY <1>1, <2>1, UsersAreFinite, SumUpdate DEF Invested
<1> QED BY <1>1, <1>2 DEF Spent

\* What a credit of any type does to what was spent on bets.
LEMMA SpentMoves ==
  ASSUME TypeOK, NEW u \in Users, NEW type \in TxTypes, NEW amount \in Int,
         Credits(u, type, amount)
  PROVE  Spent' = IF type = "buy" THEN Spent - amount ELSE Spent
<1>1. Purchases \in [Users -> Int] /\ SumFunction(Purchases) \in Int
  BY BookSums
<1>2. ledger' = [ledger EXCEPT ![u][type] = @ + amount]
  BY DEF Credits
<1>3. CASE type = "buy"
  <2>1. Purchases' = [Purchases EXCEPT ![u] = Purchases[u] + amount]
    BY <1>2, <1>3 DEF Purchases, TypeOK, TxTypes
  <2>2. Purchases[u] + amount \in Int /\ Purchases[u] \in Int
    BY <1>1
  <2>3. SumFunction(Purchases)' = SumFunction(Purchases) - Purchases[u] + (Purchases[u] + amount)
    BY <1>1, <2>1, <2>2, UsersAreFinite, SumUpdate
  <2> QED BY <1>1, <1>3, <2>2, <2>3 DEF Spent
<1>4. CASE type # "buy"
  <2>1. Purchases' = Purchases
    BY <1>2, <1>4 DEF Purchases, TypeOK, TxTypes
  <2> QED BY <1>4, <2>1 DEF Spent
<1> QED BY <1>3, <1>4

\* A bet keeps the books one-sided with each of its commits.
LEMMA BettingKeepsBooks ==
  ASSUME MarketInv, BooksAgree, Betting, Commit
  PROVE  BooksAgree' /\ (todo' = <<>> \/ Betting')
<1>1. PICK b \in Deals :
        \/ Debiting(b)
        \/ (Sharing(b) \/ Moving(b)) /\ volume + b.amount <= Spent
        \/ Placing(b) /\ Invested + b.amount <= volume
        \/ Listing(b) /\ bets + b.amount <= Invested
  BY DEF Betting
<1>2. /\ TypeOK /\ b.user \in Users /\ b.amount \in Nat /\ volume \in Nat /\ bets \in Nat
      /\ invested \in [Users -> Int] /\ Fee(b.amount) \in Nat /\ CreatorFee(b.amount) \in Nat
  <2>1. /\ TypeOK /\ b.user \in Users /\ b.amount \in Nat /\ volume \in Nat
        /\ bets \in Nat /\ invested \in [Users -> Int]
    BY DEF Deals, MarketInv, TypeOK
  <2> QED BY <2>1, FeesTyped
<1>3. Invested \in Int /\ Spent \in Int
  BY <1>2, BookSums
<1>4. bets <= Invested /\ Invested <= volume /\ volume <= Spent
  BY DEF BooksAgree, Invested, Spent, Purchases
<1>5. SUFFICES ASSUME TRUE
               PROVE  /\ bets' <= Invested' /\ Invested' <= volume' /\ volume' <= Spent'
                      /\ todo' = <<>> \/ Betting'
  BY DEF BooksAgree, Invested, Spent, Purchases
<1>6. CASE Debiting(b)
  <2>1. /\ Sharing(b)' \/ Moving(b)'
        /\ Credits(b.user, "buy", -(b.amount + Fee(b.amount)))
        /\ UNCHANGED <<volume, holdings>>
    BY <1>6, WagerGoesOn
  <2>2. "buy" \in TxTypes /\ -(b.amount + Fee(b.amount)) \in Int
    BY <1>2 DEF TxTypes
  <2>3. Spent' = Spent - (-(b.amount + Fee(b.amount)))
    BY <1>2, <2>1, <2>2, SpentMoves
  <2>4. Invested' = Invested /\ volume' = volume /\ bets' = bets
    BY <2>1 DEF Invested, holdings
  <2>5. volume' + b.amount <= Spent'
    BY <1>2, <1>3, <1>4, <2>3, <2>4
  <2> QED BY <1>2, <1>3, <1>4, <2>1, <2>3, <2>4, <2>5 DEF Betting
<1>7. CASE (Sharing(b) \/ Moving(b)) /\ volume + b.amount <= Spent
  <2>1. CASE Sharing(b)
    <3>1. /\ Moving(b)' /\ Credits(Creator, "creator_fee", CreatorFee(b.amount))
          /\ UNCHANGED <<volume, holdings>>
      BY <2>1, WagerGoesOn
    <3>2. "creator_fee" \in TxTypes /\ Creator \in Users /\ CreatorFee(b.amount) \in Int
      BY <1>2 DEF TxTypes, Users
    <3>3. Spent' = Spent
      BY <1>2, <3>1, <3>2, SpentMoves
    <3>4. Invested' = Invested /\ volume' = volume /\ bets' = bets
      BY <3>1 DEF Invested, holdings
    <3> QED BY <1>4, <1>7, <3>1, <3>3, <3>4 DEF Betting
  <2>2. CASE Moving(b)
    <3>1. Placing(b)' /\ volume' = volume + b.amount /\ UNCHANGED <<holdings, money>>
      BY <2>2, WagerGoesOn
    <3>2. Invested' = Invested /\ bets' = bets /\ Spent' = Spent
      BY <3>1 DEF Invested, Spent, Purchases, holdings, money
    <3>3. Invested' + b.amount <= volume'
      BY <1>2, <1>3, <1>4, <3>1, <3>2
    <3> QED BY <1>2, <1>3, <1>4, <1>7, <3>1, <3>2, <3>3 DEF Betting
  <2> QED BY <1>7, <2>1, <2>2
<1>8. CASE Placing(b) /\ Invested + b.amount <= volume
  <2>1. /\ Listing(b)' /\ invested' = [invested EXCEPT ![b.user] = @ + b.amount]
        /\ UNCHANGED <<volume, bets, money>>
    BY <1>8, WagerGoesOn
  <2>2. Spent' = Spent
    BY <2>1 DEF Spent, Purchases, money
  <2>3. Invested' = Invested + b.amount
    <3>1. invested[b.user] + b.amount \in Int /\ invested[b.user] \in Int
      BY <1>2
    <3>2. PICK n \in Int : n = invested[b.user] + b.amount
      BY <3>1
    <3>3. SumFunction([invested EXCEPT ![b.user] = n])
            = SumFunction(invested) - invested[b.user] + n
      BY <1>2, UsersAreFinite, SumUpdate
    <3>4. invested' = [invested EXCEPT ![b.user] = n]
      BY <2>1, <3>2
    <3> QED BY <1>2, <1>3, <3>1, <3>2, <3>3, <3>4 DEF Invested
  <2>4. bets' + b.amount <= Invested'
    BY <1>2, <1>3, <1>4, <2>1, <2>3
  <2> QED BY <1>2, <1>3, <1>4, <1>8, <2>1, <2>2, <2>3, <2>4 DEF Betting
<1>9. CASE Listing(b) /\ bets + b.amount <= Invested
  <2>1. /\ todo' = <<>> /\ bets' = bets + b.amount
        /\ UNCHANGED <<volume, invested, money>>
    BY <1>9, WagerGoesOn
  <2>2. Spent' = Spent /\ Invested' = Invested
    BY <2>1 DEF Spent, Purchases, money, Invested
  <2> QED BY <1>4, <1>9, <2>1, <2>2
<1> QED BY <1>1, <1>6, <1>7, <1>8, <1>9

\* No other commit touches the books of the bets.
LEMMA QuietCommitKeepsBooks ==
  ASSUME MarketInv, Commit,
         Head(todo).kind \notin {"position", "bet"},
         Head(todo).kind = "balance" => Head(todo).type # "buy",
         Head(todo).kind = "pool" => Head(todo).volume = 0
  PROVE  UNCHANGED <<bets, volume, invested>> /\ Spent' = Spent
<1>1. /\ todo # <<>> /\ Head(todo) \in Commits /\ TypeOK /\ volume \in Nat
  BY KindsAreActions, HeadAndTail DEF MarketInv, TypeOK
<1>2. ~UpdatePosition /\ ~CreateBet
  BY DEF UpdatePosition, CreateBet, Committing
<1>3. CASE UpdateMarketPool
  <2>1. Head(todo).volume = 0
    BY <1>3 DEF UpdateMarketPool, Committing
  <2> QED
    BY <1>1, <1>3, <2>1 DEF UpdateMarketPool, holdings, money, Spent, Purchases
<1>4. CASE UpdateUserBalance
  <2> DEFINE c == Head(todo)
  <2>1. /\ c.user \in Users /\ c.type \in TxTypes \ {"buy"} /\ c.amount \in Int
        /\ Credits(c.user, c.type, c.amount)
    BY <1>1, <1>4, CommitFields DEF UpdateUserBalance, Committing
  <2> HIDE DEF c
  <2>2. Spent' = Spent
    BY <1>1, <2>1, SpentMoves
  <2> QED BY <1>4, <2>2 DEF UpdateUserBalance, row, holdings
<1>5. CASE PayWinner
  <2> DEFINE c == Head(todo)
  <2>1. c.left \subseteq Users /\ c.outcome \in Outcome
    BY <1>1, <1>5, CommitFields DEF PayWinner, Committing
  <2>2. PICK u \in c.left : Credits(u, "payout", shares[u][c.outcome])
    BY <1>5 DEF PayWinner
  <2>3. u \in Users /\ "payout" \in TxTypes /\ shares[u][c.outcome] \in Int
    BY <1>1, <2>1 DEF TypeOK, Pool, TxTypes
  <2>4. Spent' = Spent
    BY <1>1, <2>2, <2>3, SpentMoves
  <2> QED BY <1>5, <2>4 DEF PayWinner, row, holdings
<1> QED
  BY <1>2, <1>3, <1>4, <1>5 DEF Commit, InsertMarket, ReducePosition,
     ClearPosition, UpdateMarketCommittee, UpdateMarketStatus,
     UpsertCommitteeVote, ResolveMarket, Spent, Purchases, row, holdings, money

\* A sale, from any of its commits, is quiet.
LEMMA SaleIsQuiet ==
  ASSUME MarketInv, NEW u \in Users, NEW side \in Outcome, NEW n \in Nat,
         NEW amount \in SaleAmounts(pool, side, n)
  PROVE  SaleCommits(u, side, n, amount) \in Seq(QuietCommits)
<1> DEFINE m == PoolAfterSale(pool, side, n, amount)
           a == SetsPool(m, 0)
           b == Reduces(u, side, n)
           credit == Pays(u, "sell", amount - Fee(amount), PlatformFee(u, amount))
           share == Pays(Creator, "creator_fee", CreatorFee(amount), 0)
<1>1. amount \in Nat /\ m \in Pool
  BY SaleKeepsPool DEF MarketInv, TypeOK
<1> HIDE DEF m
<1>2. a \in QuietCommits /\ b \in QuietCommits
  <2>1. a \in TradeCommits /\ b \in TradeCommits
    BY <1>1, TradesAreCommits DEF TradeCommits, SetsPool, Reduces
  <2> QED BY <2>1 DEF QuietCommits, SetsPool, Reduces
<1>3. credit \in QuietCommits /\ share \in QuietCommits
  <2>1. /\ amount - Fee(amount) \in Nat /\ PlatformFee(u, amount) \in Nat
        /\ CreatorFee(amount) \in Nat
    BY <1>1, FeesTyped
  <2>2. {"sell", "creator_fee"} \subseteq TxTypes \ {"payout"} /\ Creator \in Users
    BY DEF TxTypes, Users
  <2>3. credit \in Commits /\ share \in Commits
    BY <2>1, <2>2, PaysIsCommit
  <2>4. credit \in TradeCommits /\ share \in TradeCommits
    BY <2>1, <2>3 DEF TradeCommits, Pays
  <2> QED BY <2>4 DEF QuietCommits, Pays
<1> HIDE DEF a, b, credit, share
<1>4. FeeToCreator(u, amount) \in Seq(QuietCommits)
  BY <1>3 DEF FeeToCreator, share
<1>5. <<a, b>> \in Seq(QuietCommits)
  BY <1>2
<1>6. FeeToCreator(u, amount) \o <<a, b>> \in Seq(QuietCommits)
  BY <1>4, <1>5, ConcatProperties
<1> QED BY <1>3, <1>6, PlanWithHead DEF SaleCommits, a, b, m, credit

\* No trade starts or goes on with any other commit.
LEMMA NoTradeFromElsewhere ==
  ASSUME MarketInv, ~Trading, Commit
  PROVE  Trading' => todo' = <<>>
<1> SUFFICES ASSUME Trading', todo' # <<>> PROVE FALSE
  OBVIOUS
<1>1. /\ status' = "OPEN"
      /\ Head(todo').kind \in {"balance", "pool", "position", "reduce", "bet"}
  <2>1. CASE todo' \in Seq(TradeCommits)
    BY <2>1, HeadTailProperties DEF TradeCommits, Trading
  <2>2. ASSUME NEW u \in Users, NEW cost \in Nat, NEW fee \in Nat,
               NEW rest \in Seq(TradeCommits), Debits(u, cost, fee, "buy", rest)'
        PROVE  Head(todo').kind = "balance"
    BY <2>2, PlanWithHead DEF Debits, Pays
  <2> QED BY <2>1, <2>2 DEF Trading
<1>2. todo # <<>>
  BY KindsAreActions
<1>3. CASE Creating
  <2>1. CASE todo = <<Inserts>>
    <3>1. InsertMarket
      BY <2>1, KindsAreActions DEF Inserts
    <3> QED BY <2>1, <3>1 DEF InsertMarket, Rest
  <2>2. ASSUME Debits(Creator, Liquidity, 0, "market_creation", <<Inserts>>)
        PROVE  FALSE
    <3>1. Head(todo) = Pays(Creator, "market_creation", -Liquidity, 0)
      BY <2>2, InsertsIsAPlan, PlanWithHead DEF Debits
    <3>2. status' = status
      BY <3>1, MoneyMoves DEF Unjudged, Pays
    <3> QED BY <1>1, <1>3, <3>2 DEF Creating
  <2> QED BY <1>3, <2>1, <2>2 DEF Creating
<1>4. CASE Settling
  BY <1>1, <1>4, ResolvedStays DEF Settling
<1>5. CASE Convening
  <2>1. Head(todo).kind = "committee"
    BY <1>5 DEF Convening, SetsCommittee
  <2>2. UpdateMarketCommittee
    BY <2>1, KindsAreActions
  <2>3. status = "OPEN" => Head(todo').kind = "status"
    BY <1>1, <2>2, CommitteeIsChosen
  <2> QED BY <1>1, <2>2, <2>3, CommitteeIsChosen
<1>6. CASE Marking
  <2>1. Head(todo).kind = "status"
    BY <1>6 DEF Marking, SetsResolving
  <2> QED BY <1>1, <2>1, KindsAreActions DEF UpdateMarketStatus
<1>7. CASE Voting
  <2>1. Head(todo).kind = "vote"
    BY <1>7 DEF Voting, Votes
  <2>2. UpsertCommitteeVote
    BY <2>1, KindsAreActions
  <2>3. status' = status
    BY <2>2 DEF UpsertCommitteeVote, row
  <2> QED BY <1>1, <1>7, <2>3 DEF Voting
<1>8. CASE Deciding
  <2>1. Head(todo).kind = "resolve"
    BY <1>8 DEF Deciding, Resolves
  <2> QED BY <1>1, <2>1, KindsAreActions DEF ResolveMarket
<1> QED BY <1>2, <1>3, <1>4, <1>5, <1>6, <1>7, <1>8 DEF MarketInv, Planned

\* What a commit outside a trade can be.
LEMMA OthersAreQuiet ==
  ASSUME MarketInv, ~Trading, todo # <<>>
  PROVE  /\ Head(todo).kind \notin {"position", "reduce", "bet"}
         /\ Head(todo).kind = "balance" =>
              Head(todo).type \in {"market_creation", "creator_recovery"}
         /\ Head(todo).kind = "pool" => Head(todo).volume = 0
<1>1. CASE Creating
  <2>1. CASE todo = <<Inserts>>
    BY <2>1 DEF Inserts
  <2>2. ASSUME Debits(Creator, Liquidity, 0, "market_creation", <<Inserts>>)
        PROVE  Head(todo).kind = "balance" /\ Head(todo).type = "market_creation"
    BY <2>2, InsertsIsAPlan, PlanWithHead DEF Debits, Pays
  <2> QED BY <1>1, <2>1, <2>2 DEF Creating
<1>2. CASE Settling
  <2>1. CASE todo \in Seq(SettleCommits)
    BY <2>1, HeadTailProperties DEF SettleCommits
  <2>2. ASSUME NEW outcome \in Outcome, NEW left \in SUBSET Users,
               NEW rest \in Seq(SettleCommits), left # {},
               todo = PaysWinners(outcome, left) \o rest
        PROVE  Head(todo).kind = "winners"
    BY <2>2, PlanWithHead DEF PaysWinners
  <2> QED BY <1>2, <2>1, <2>2 DEF Settling
<1>3. CASE Convening \/ Marking \/ Voting \/ Deciding
  BY <1>3 DEF Convening, Marking, Voting, Deciding, SetsCommittee, SetsResolving,
     Votes, Resolves
<1> QED BY <1>1, <1>2, <1>3 DEF MarketInv, Planned

\* What starts a trade, and what does not.
LEMMA TradesStart ==
  ASSUME MarketInv, Next, ~Commit, Trading', todo' # <<>>, todo' # todo
  PROVE  \E u \in Users, side \in Outcome :
           \/ \E amount \in BetAmounts : PlaceBet(u, side, amount)
           \/ \E n \in SaleSizes(shares[u][side]) : SellShares(u, side, n)
<1>1. Head(todo').kind \in {"balance", "pool", "position", "reduce", "bet"}
      /\ status' = "OPEN"
  <2>1. CASE todo' \in Seq(TradeCommits)
    BY <2>1, HeadTailProperties DEF TradeCommits, Trading
  <2>2. ASSUME NEW u \in Users, NEW cost \in Nat, NEW fee \in Nat,
               NEW rest \in Seq(TradeCommits), Debits(u, cost, fee, "buy", rest)'
        PROVE  Head(todo').kind = "balance"
    BY <2>2, PlanWithHead DEF Debits, Pays
  <2> QED BY <2>1, <2>2 DEF Trading
<1>2. status = "OPEN"
  BY <1>1, OthersKeepRows
<1>3. ~RequestFails /\ ~ProcessRestarts /\ ~CloseTimePasses /\ ~WindowPasses
  BY DEF RequestFails, ProcessRestarts, CloseTimePasses, WindowPasses
<1>4. ~CreateMarket /\ ~FixResolutions /\ ~RequestResolution
      /\ \A outcome \in Outcome : ~ResolveResolving(outcome)
  BY <1>2 DEF CreateMarket, FixResolutions, RequestResolution, Starts,
     ResolveResolving
<1>5. ~AdminTransition /\ \A answer \in Outcome \cup {None} : ~ResolverAnswers(answer)
  BY <1>1 DEF AdminTransition, ResolverAnswers, Starts, SetsResolving, Resolves
<1>6. ~Sweep /\ \A outcome \in Outcome : ~ResolveOpen(outcome)
  <2>1. ASSUME NEW members, NEW q, Starts(<<SetsCommittee(members), SetsResolving>> \o q),
               q = <<>> \/ \E outcome : q = <<Resolves(outcome, "creator")>>
        PROVE  FALSE
    <3>1. Head(todo') = SetsCommittee(members)
      <4>1. CASE q = <<>>
        BY <2>1, <4>1 DEF Starts
      <4>2. ASSUME NEW outcome, q = <<Resolves(outcome, "creator")>>
            PROVE  Head(todo') = SetsCommittee(members)
        BY <2>1, <4>2, ShortPlans DEF Starts
      <4> QED BY <2>1, <4>1, <4>2
    <3> QED BY <1>1, <3>1 DEF SetsCommittee
  <2>2. \A members : <<SetsCommittee(members), SetsResolving>> \o <<>>
                       = <<SetsCommittee(members), SetsResolving>>
    OBVIOUS
  <2>3. ~Sweep
    BY <2>1, <2>2 DEF Sweep
  <2>4. ASSUME NEW outcome \in Outcome, ResolveOpen(outcome) PROVE FALSE
    BY <2>1, <2>4 DEF ResolveOpen
  <2> QED BY <2>3, <2>4
<1>7. Request
  BY <1>3, <1>6 DEF Next
<1>8. \/ CreateMarket
      \/ \E u \in Users, side \in Outcome :
           \/ \E amount \in BetAmounts : PlaceBet(u, side, amount)
           \/ \E n \in SaleSizes(shares[u][side]) : SellShares(u, side, n)
      \/ \E outcome \in Outcome : ResolveOpen(outcome) \/ ResolveResolving(outcome)
      \/ \E u \in Users, choice \in VoteChoices : CastCommitteeVote(u, choice)
      \/ RequestResolution
      \/ \E answer \in Outcome \cup {None} : ResolverAnswers(answer)
      \/ AdminTransition
      \/ FixResolutions
  BY <1>7 DEF Request
<1>9. ~\E outcome \in Outcome : ResolveOpen(outcome) \/ ResolveResolving(outcome)
  BY <1>4, <1>6
<1>10. ~\E u \in Users, choice \in VoteChoices : CastCommitteeVote(u, choice)
  BY <1>2 DEF CastCommitteeVote
<1>11. ~\E answer \in Outcome \cup {None} : ResolverAnswers(answer)
  BY <1>5
<1> QED BY <1>4, <1>5, <1>8, <1>9, <1>10, <1>11

\* The books stay one-sided, and whatever trade runs says what it owes them.
LEMMA NextKeepsBookInv ==
  ASSUME MarketInv, MarketInv', BookInv, Next
  PROVE  BookInv'
<1>1. CASE Commit
  <2>1. CASE Trading /\ Betting
    <3>1. BooksAgree' /\ (todo' = <<>> \/ Betting')
      BY <1>1, <2>1, BettingKeepsBooks DEF BookInv
    <3>2. <<>> \in Seq(QuietCommits)
      OBVIOUS
    <3> QED BY <3>1, <3>2 DEF BookInv
  <2>2. CASE Trading /\ todo \in Seq(QuietCommits)
    <3>1. todo # <<>>
      BY <1>1, KindsAreActions
    <3>2. Head(todo) \in QuietCommits /\ Tail(todo) \in Seq(QuietCommits)
      BY <2>2, <3>1, HeadTailProperties
    <3>3. UNCHANGED <<bets, volume, invested>> /\ Spent' = Spent
      BY <1>1, <3>2, QuietCommitKeepsBooks DEF QuietCommits
    <3>4. todo' = Tail(todo)
      BY <1>1, <3>2, MoneyMoves DEF QuietCommits
    <3> QED BY <3>2, <3>3, <3>4 DEF BookInv, BooksAgree, Spent, Purchases
  <2>3. CASE ~Trading
    <3>1. todo # <<>>
      BY <1>1, KindsAreActions
    <3>2. UNCHANGED <<bets, volume, invested>> /\ Spent' = Spent
      BY <1>1, <2>3, <3>1, OthersAreQuiet, QuietCommitKeepsBooks
    <3>3. Trading' => todo' \in Seq(QuietCommits)
      <4>1. <<>> \in Seq(QuietCommits)
        OBVIOUS
      <4> QED BY <1>1, <2>3, <4>1, NoTradeFromElsewhere
    <3> QED BY <3>2, <3>3 DEF BookInv, BooksAgree, Spent, Purchases
  <2> QED BY <2>1, <2>2, <2>3 DEF BookInv
<1>2. CASE ~Commit
  <2>1. UNCHANGED <<status, holdings, money>> /\ volume' = volume
    <3>1. ASSUME Request \/ Sweep PROVE volume' = volume
      BY <3>1 DEF Request, Sweep, CreateMarket, PlaceBet, SellShares, ResolveOpen,
         ResolveResolving, CastCommitteeVote, RequestResolution, ResolverAnswers,
         AdminTransition, FixResolutions, Starts, row
    <3> QED
      BY <1>2, <3>1, OthersKeepRows DEF Next, RequestFails, ProcessRestarts,
         CloseTimePasses, WindowPasses, row
  <2>2. BooksAgree' /\ Spent' = Spent /\ Invested' = Invested
    BY <2>1 DEF BookInv, BooksAgree, holdings, money, Spent, Purchases, Invested
  <2>3. CASE ~Trading' \/ todo' = <<>>
    <3>1. <<>> \in Seq(QuietCommits)
      OBVIOUS
    <3> QED BY <2>2, <2>3, <3>1 DEF BookInv
  <2>4. CASE Trading' /\ todo' # <<>> /\ todo' = todo
    <3>1. Trading
      <4>1. UNCHANGED <<status, balance, todo>>
        BY <2>1, <2>4 DEF money
      <4> QED BY <2>4, <4>1 DEF Trading, Debits
    <3>2. Betting => Betting'
      BY <2>1, <2>2, <2>4 DEF Betting, Debiting, Sharing, Moving, Placing, Listing, holdings
    <3> QED BY <2>2, <2>4, <3>1, <3>2 DEF BookInv
  <2>5. CASE Trading' /\ todo' # <<>> /\ todo' # todo
    <3>1. ASSUME NEW u \in Users, NEW side \in Outcome, NEW amount \in BetAmounts,
                 PlaceBet(u, side, amount)
          PROVE  Betting'
      BY <3>1, BetStarts DEF Betting
    <3>2. ASSUME NEW u \in Users, NEW side \in Outcome, NEW n \in SaleSizes(shares[u][side]),
                 SellShares(u, side, n)
          PROVE  todo' \in Seq(QuietCommits)
      <4>1. n \in Nat
        <5>1. shares[u][side] \in Nat
          BY DEF MarketInv, TypeOK, Pool
        <5> QED BY <5>1 DEF SaleSizes
      <4>2. PICK amount \in SaleAmounts(pool, side, n) :
              Starts(SaleCommits(u, side, n, amount))
        BY <3>2 DEF SellShares
      <4>3. SaleCommits(u, side, n, amount) \in Seq(QuietCommits)
        BY <4>1, SaleIsQuiet
      <4> QED BY <4>2, <4>3 DEF Starts
    <3>3. todo' \in Seq(QuietCommits) \/ Betting'
      BY <1>2, <2>5, <3>1, <3>2, TradesStart
    <3> QED BY <2>2, <3>3 DEF BookInv
  <2> QED BY <2>3, <2>4, <2>5
<1> QED BY <1>1, <1>2

LEMMA NothingAddsUp == SumFunction([u \in Users |-> 0]) = 0
<1>1. \A c \in Int : SumFunction([u \in Users |-> c]) = Cardinality(Users) * c
  BY UsersAreFinite, SumOfConstant
<1>2. 0 \in Int
  OBVIOUS
<1>3. SumFunction([u \in Users |-> 0]) = Cardinality(Users) * 0
  BY <1>1, <1>2, Zenon
<1> QED BY <1>3, UsersAreFinite, FS_CardinalityType

LEMMA InitEstablishesBookInv == Init => BookInv
<1> SUFFICES ASSUME Init PROVE BookInv
  OBVIOUS
<1>1. todo \in Seq(QuietCommits)
  BY DEF Init
<1>2. SumFunction([u \in Users |-> 0]) = 0
  BY NothingAddsUp
<1>3. [u \in Users |-> ledger[u]["buy"]] = [u \in Users |-> 0]
  BY DEF Init, TxTypes
<1>4. BooksAgree
  <2>1. SumFunction(invested) = 0 /\ bets = 0 /\ volume = 0
    BY <1>2 DEF Init
  <2>2. SumFunction([u \in Users |-> ledger[u]["buy"]]) = 0
    BY <1>2, <1>3
  <2> QED BY <2>1, <2>2 DEF BooksAgree
<1> QED BY <1>1, <1>4 DEF BookInv

\* Every bet listed has its position, every position its collateral in the
\* pool, and every purchase of a pool its payment, at every instant and after
\* any failure: however many bets, sales, failures and restarts there are.
THEOREM BooksAreOneSided == Spec => []BooksAgree
<1>1. MarketInv /\ MarketInv' /\ BookInv /\ [Next]_vars => BookInv'
  <2>1. MarketInv /\ BookInv /\ UNCHANGED vars => BookInv'
    BY DEF vars, row, holdings, money, BookInv, BooksAgree, Trading, Debits, Betting,
       Debiting, Sharing, Moving, Placing, Listing, Spent, Purchases, Invested
  <2> QED BY <2>1, NextKeepsBookInv
<1>2. BookInv => BooksAgree
  BY DEF BookInv
<1> QED BY <1>1, <1>2, InitEstablishesBookInv, SpecKeepsInv, PTL DEF Spec

-----------------------------------------------------------------------------
(* Where the money is.                                                     *)

\* The points a running sale can be at.
Credit(b)   == Pays(b.user, "sell", b.amount - Fee(b.amount),
                    PlatformFee(b.user, b.amount))
Takes(b)    == <<Reduces(b.user, b.side, b.shares)>>
Returns(b)  == <<SetsPool(b.pool, 0)>> \o Takes(b)
Crediting(b) == todo = <<Credit(b)>> \o (FeeToCreator(b.user, b.amount) \o Returns(b))
Rewarding(b) == b.user # Creator /\ todo = <<Share(b)>> \o Returns(b)
Returning(b) == todo = Returns(b)
Taking(b)    == todo = Takes(b)

LEMMA SaleIsPlanned ==
  ASSUME NEW b \in Deals
  PROVE  /\ {Takes(b), Returns(b), <<Share(b)>> \o Returns(b)} \subseteq Seq(Commits)
         /\ FeeToCreator(b.user, b.amount) \o Returns(b)
              = IF b.user = Creator THEN Returns(b) ELSE <<Share(b)>> \o Returns(b)
<1>1. /\ b.user \in Users /\ b.side \in Outcome /\ b.amount \in Nat /\ b.shares \in Nat
      /\ b.pool \in Pool
  BY DEF Deals
<1>2. SetsPool(b.pool, 0) \in Commits /\ Reduces(b.user, b.side, b.shares) \in Commits
  <2>1. 0 \in Nat
    OBVIOUS
  <2> QED BY <1>1, <2>1, TradesAreCommits
<1>3. Share(b) \in Commits
  BY WagerIsPlanned
<1>4. Takes(b) \in Seq(Commits)
  BY <1>2 DEF Takes
<1>5. Returns(b) \in Seq(Commits)
  BY <1>2, <1>4, PlanWithHead DEF Returns
<1>6. <<Share(b)>> \o Returns(b) \in Seq(Commits)
  BY <1>3, <1>5, PlanWithHead
<1>7. FeeToCreator(b.user, b.amount) \o Returns(b)
         = IF b.user = Creator THEN Returns(b) ELSE <<Share(b)>> \o Returns(b)
  BY <1>5, ConcatEmptySeq DEF FeeToCreator, Share
<1> QED BY <1>4, <1>5, <1>6, <1>7

\* From each of these points a sale goes on to the next.
LEMMA SaleGoesOn ==
  ASSUME MarketInv, Commit, NEW b \in Deals
  PROVE  /\ Crediting(b) =>
              /\ IF b.user = Creator THEN Returning(b)' ELSE Rewarding(b)'
              /\ Credits(b.user, "sell", b.amount - Fee(b.amount))
              /\ burned' = burned + PlatformFee(b.user, b.amount)
              /\ UNCHANGED <<pool, holdings>>
         /\ Rewarding(b) =>
              /\ Returning(b)'
              /\ Credits(Creator, "creator_fee", CreatorFee(b.amount))
              /\ burned' = burned + 0
              /\ UNCHANGED <<pool, holdings>>
         /\ Returning(b) =>
              Taking(b)' /\ pool' = b.pool /\ UNCHANGED <<holdings, money, burned>>
         /\ Taking(b) =>
              /\ todo' = <<>>
              /\ shares' = [shares EXCEPT ![b.user][b.side] = Max({0, @ - b.shares})]
              /\ UNCHANGED <<pool, money, burned>>
         /\ Crediting(b) \/ Rewarding(b) \/ Returning(b) \/ Taking(b) =>
              UNCHANGED <<status, history, used>>
<1>1. ASSUME Crediting(b)
      PROVE  /\ IF b.user = Creator THEN Returning(b)' ELSE Rewarding(b)'
             /\ Credits(b.user, "sell", b.amount - Fee(b.amount))
             /\ burned' = burned + PlatformFee(b.user, b.amount)
             /\ UNCHANGED <<pool, holdings>> /\ UNCHANGED <<status, history, used>>
  <2> DEFINE c == Credit(b)
             q == FeeToCreator(b.user, b.amount) \o Returns(b)
  <2>1. /\ c.kind = "balance" /\ c.user = b.user /\ c.type = "sell"
        /\ c.amount = b.amount - Fee(b.amount) /\ c.fee = PlatformFee(b.user, b.amount)
    BY DEF Credit, Pays
  <2>2. q \in Seq(Commits) /\ q = IF b.user = Creator THEN Returns(b) ELSE <<Share(b)>> \o Returns(b)
    BY SaleIsPlanned
  <2>3. todo = <<c>> \o q
    BY <1>1 DEF Crediting
  <2> HIDE DEF c, q
  <2>4. /\ todo' = q /\ UNCHANGED <<status, history, used>>
        /\ Credits(c.user, c.type, c.amount) /\ burned' = burned + c.fee
        /\ UNCHANGED <<pool, holdings>>
    BY <2>1, <2>2, <2>3, TradeWrites
  <2> QED BY <2>1, <2>2, <2>4 DEF Returning, Rewarding
<1>2. ASSUME Rewarding(b)
      PROVE  /\ Returning(b)'
             /\ Credits(Creator, "creator_fee", CreatorFee(b.amount))
             /\ burned' = burned + 0
             /\ UNCHANGED <<pool, holdings>> /\ UNCHANGED <<status, history, used>>
  <2> DEFINE c == Share(b)
  <2>1. /\ c.kind = "balance" /\ c.user = Creator /\ c.type = "creator_fee"
        /\ c.amount = CreatorFee(b.amount) /\ c.fee = 0
    BY DEF Share, Pays
  <2>2. todo = <<c>> \o Returns(b) /\ Returns(b) \in Seq(Commits)
    BY <1>2, SaleIsPlanned DEF Rewarding
  <2> HIDE DEF c
  <2>3. /\ todo' = Returns(b) /\ UNCHANGED <<status, history, used>>
        /\ Credits(c.user, c.type, c.amount) /\ burned' = burned + c.fee
        /\ UNCHANGED <<pool, holdings>>
    BY <2>1, <2>2, TradeWrites
  <2> QED BY <2>1, <2>3 DEF Returning
<1>3. ASSUME Returning(b)
      PROVE  /\ Taking(b)'
             /\ pool' = b.pool
             /\ UNCHANGED <<holdings, money, burned>> /\ UNCHANGED <<status, history, used>>
  <2> DEFINE c == SetsPool(b.pool, 0)
  <2>1. c.kind = "pool" /\ c.pool = b.pool
    BY DEF SetsPool
  <2>2. todo = <<c>> \o Takes(b) /\ Takes(b) \in Seq(Commits)
    BY <1>3, SaleIsPlanned DEF Returning, Returns
  <2> HIDE DEF c
  <2> QED BY <2>1, <2>2, TradeWrites DEF Taking
<1>4. ASSUME Taking(b)
      PROVE  /\ todo' = <<>>
             /\ shares' = [shares EXCEPT ![b.user][b.side] = Max({0, @ - b.shares})]
             /\ UNCHANGED <<pool, money, burned>> /\ UNCHANGED <<status, history, used>>
  <2> DEFINE c == Reduces(b.user, b.side, b.shares)
  <2>1. /\ c.kind = "reduce" /\ c.user = b.user /\ c.side = b.side /\ c.shares = b.shares
    BY DEF Reduces
  <2>2. todo = <<c>> \o <<>>
    BY <1>4 DEF Taking, Takes
  <2> HIDE DEF c
  <2>3. <<>> \in Seq(Commits)
    OBVIOUS
  <2> QED BY <2>1, <2>2, <2>3, TradeWrites
<1> QED BY <1>1, <1>2, <1>3, <1>4

\* A sale starts with its credit, of no more shares than its seller has.
LEMMA SaleStarts ==
  ASSUME MarketInv, NEW u \in Users, NEW side \in Outcome,
         NEW n \in SaleSizes(shares[u][side]), SellShares(u, side, n)
  PROVE  \E b \in Deals :
           /\ Crediting(b)'
           /\ b.user = u /\ b.side = side /\ b.shares = n /\ n <= shares[u][side]
           /\ b.pool = PoolAfterSale(pool, side, n, b.amount)
<1>1. PICK amount \in SaleAmounts(pool, side, n) :
        Starts(SaleCommits(u, side, n, amount))
  BY DEF SellShares
<1> DEFINE m == PoolAfterSale(pool, side, n, amount)
           b == [user |-> u, side |-> side, amount |-> amount, shares |-> n, pool |-> m]
<1>2. n \in Nat
  <2>1. shares[u][side] \in Nat
    BY DEF MarketInv, TypeOK, Pool
  <2> QED BY <2>1 DEF SaleSizes
<1>3. amount \in Nat /\ m \in Pool
  BY <1>2, SaleKeepsPool DEF MarketInv, TypeOK
<1>4. todo' = <<Pays(u, "sell", amount - Fee(amount), PlatformFee(u, amount))>>
              \o (FeeToCreator(u, amount) \o <<SetsPool(m, 0), Reduces(u, side, n)>>)
  BY <1>1 DEF SaleCommits, Starts
<1> HIDE DEF m
<1>5. b \in Deals
  BY <1>2, <1>3 DEF Deals
<1>6. Returns(b) = <<SetsPool(m, 0), Reduces(u, side, n)>>
  BY ShortPlans DEF Returns, Takes
<1>7. PICK w \in Deals : w = b
  BY <1>5
<1>8. todo' = <<Credit(w)>> \o (FeeToCreator(w.user, w.amount) \o Returns(w))
  BY <1>4, <1>6, <1>7 DEF Credit
<1>9. Crediting(w)'
  BY <1>8 DEF Crediting
<1>10. n <= shares[u][side]
  BY DEF SellShares
<1> QED BY <1>7, <1>9, <1>10 DEF m

\* What users and the platform hold, and what there was at first.
Cash  == Balances + burned
Total == Cardinality(Users) * StartBalance

Held(side) == [u \in Users |-> shares[u][side]]
OnSide(b, side) == IF side = b.side THEN b.shares ELSE 0

\* The sums of a typed state.
LEMMA CashSums ==
  ASSUME TypeOK
  PROVE  /\ Balances \in Int /\ Cash \in Int /\ Total \in Int
         /\ \A s \in Outcome : /\ Held(s) \in [Users -> Int]
                               /\ SumFunction(Held(s)) \in Int
                               /\ pool[s] \in Nat
                               /\ InExistence(s) = pool[s] + SumFunction(Held(s))
                               /\ InExistence(s) \in Int
<1>1. Creator \in Users /\ 0 \in Int
  BY DEF Users
<1>2. Balances \in Int
  BY <1>1, UsersAreFinite, SumUpdate DEF TypeOK, Balances
<1>3. Total \in Int
  BY UsersAreFinite, FS_CardinalityType, AmountsAssumption DEF Total
<1>4. burned \in Int
  BY DEF TypeOK
<1>5. ASSUME NEW s \in Outcome
      PROVE  /\ Held(s) \in [Users -> Int] /\ SumFunction(Held(s)) \in Int
             /\ pool[s] \in Nat
             /\ InExistence(s) = pool[s] + SumFunction(Held(s))
             /\ InExistence(s) \in Int
  <2>1. Held(s) \in [Users -> Int] /\ pool[s] \in Nat
    BY DEF Held, TypeOK, Pool
  <2>2. SumFunction(Held(s)) \in Int
    BY <1>1, <2>1, UsersAreFinite, SumUpdate
  <2>3. InExistence(s) = pool[s] + SumFunction(Held(s))
    BY DEF InExistence, Held
  <2> QED BY <2>1, <2>2, <2>3
<1> QED BY <1>2, <1>3, <1>4, <1>5 DEF Cash

LEMMA HeldIsNumber ==
  ASSUME TypeOK, NEW u \in Users, NEW side \in Outcome
  PROVE  shares[u][side] \in Nat
BY DEF TypeOK, Pool

\* A credit changes the sum of the balances by as much.
LEMMA BalancesSum ==
  ASSUME TypeOK, NEW u \in Users, NEW type, NEW amount \in Int,
         Credits(u, type, amount)
  PROVE  Balances' = Balances + amount
<1>1. PICK n \in Int : n = balance[u] + amount
  BY DEF TypeOK
<1>2. balance \in [Users -> Int] /\ balance[u] \in Int /\ Balances \in Int
  BY CashSums DEF TypeOK
<1>3. balance' = [balance EXCEPT ![u] = n]
  BY <1>1 DEF Credits
<1>4. SumFunction([balance EXCEPT ![u] = n]) = SumFunction(balance) - balance[u] + n
  BY <1>2, UsersAreFinite, SumUpdate
<1> QED BY <1>1, <1>2, <1>3, <1>4 DEF Balances

\* A holder's shares of one side change what exists of that side by as much.
LEMMA SharesSum ==
  ASSUME TypeOK, NEW u \in Users, NEW side \in Outcome, NEW n \in Int,
         shares' = [shares EXCEPT ![u][side] = n], pool' = pool, NEW s \in Outcome
  PROVE  InExistence(s)'
           = InExistence(s) + IF s = side THEN n - shares[u][side] ELSE 0
<1>1. /\ Held(s) \in [Users -> Int] /\ SumFunction(Held(s)) \in Int /\ pool[s] \in Nat
      /\ InExistence(s) = pool[s] + SumFunction(Held(s))
  BY CashSums
<1>2. InExistence(s)' = pool[s] + SumFunction(Held(s))'
  BY DEF InExistence, Held
<1>3. CASE s = side
  <2>1. Held(s)' = [Held(s) EXCEPT ![u] = n]
    BY <1>3 DEF Held, TypeOK, Pool
  <2>2. SumFunction([Held(s) EXCEPT ![u] = n]) = SumFunction(Held(s)) - Held(s)[u] + n
    BY <1>1, UsersAreFinite, SumUpdate
  <2>3. Held(s)[u] = shares[u][side] /\ shares[u][side] \in Int
    BY <1>3 DEF Held, TypeOK, Pool
  <2> QED BY <1>1, <1>2, <1>3, <2>1, <2>2, <2>3
<1>4. CASE s # side
  <2>1. Held(s)' = Held(s)
    BY <1>4 DEF Held, TypeOK, Pool
  <2> QED BY <1>1, <1>2, <1>4, <2>1
<1> QED BY <1>3, <1>4

\* What the pool takes in or gives out changes what exists by as much.
LEMMA PoolSum ==
  ASSUME TypeOK, UNCHANGED shares, NEW s \in Outcome, pool'[s] \in Int
  PROVE  InExistence(s)' = InExistence(s) - pool[s] + pool'[s]
<1>1. /\ SumFunction(Held(s)) \in Int /\ pool[s] \in Nat
      /\ InExistence(s) = pool[s] + SumFunction(Held(s))
  BY CashSums
<1>2. InExistence(s)' = pool'[s] + SumFunction(Held(s))
  BY DEF InExistence, Held
<1> QED BY <1>1, <1>2

\* The money is all there, with c of it still to come.
Missing(s, c) == Cash + InExistence(s) + c = Total
Whole == \A s \in Outcome : Missing(s, 0)

\* What the pool after a bet, or a sale, makes up for.
Backs(b) ==
  \A s \in Outcome : b.pool[s] + OnSide(b, s) = pool[s] + b.amount
Covers(b) ==
  /\ \A s \in Outcome : b.pool[s] + b.amount = pool[s] + OnSide(b, s)
  /\ b.shares <= shares[b.user][b.side]

\* A running trade says what of its amount and shares is still to come.
BetOwes ==
  \E b \in Deals :
    \/ Debiting(b) /\ Backs(b) /\ Whole
    \/ /\ Sharing(b) /\ Backs(b)
       /\ \A s \in Outcome : Missing(s, b.amount + CreatorFee(b.amount))
    \/ Moving(b) /\ Backs(b) /\ \A s \in Outcome : Missing(s, b.amount)
    \/ Placing(b) /\ \A s \in Outcome : Missing(s, OnSide(b, s))
    \/ Listing(b) /\ Whole

SaleOwes ==
  \E b \in Deals :
    \/ Crediting(b) /\ Covers(b) /\ Whole
    \/ /\ Rewarding(b) /\ Covers(b)
       /\ \A s \in Outcome : Missing(s, CreatorFee(b.amount) - b.amount)
    \/ Returning(b) /\ Covers(b) /\ \A s \in Outcome : Missing(s, -b.amount)
    \/ /\ Taking(b) /\ b.shares <= shares[b.user][b.side]
       /\ \A s \in Outcome : Missing(s, -OnSide(b, s))

\* The fees of a trade, whoever they go to, are what it takes besides its amount.
LEMMA FeesAddUp ==
  ASSUME NEW u, NEW amount \in Nat
  PROVE  PlatformFee(u, amount)
           = Fee(amount) - IF u = Creator THEN 0 ELSE CreatorFee(amount)
<1>1. Fee(amount) \in Nat /\ CreatorFee(amount) \in Nat
  BY FeesTyped
<1> QED BY <1>1 DEF PlatformFee

\* A bet keeps account of the money with each of its commits.
LEMMA BetKeepsAccount ==
  ASSUME MarketInv, BetOwes, Commit
  PROVE  BetOwes' \/ (todo' = <<>> /\ Whole')
<1>1. PICK b \in Deals :
        \/ Debiting(b) /\ Backs(b) /\ Whole
        \/ /\ Sharing(b) /\ Backs(b)
           /\ \A s \in Outcome : Missing(s, b.amount + CreatorFee(b.amount))
        \/ Moving(b) /\ Backs(b) /\ \A s \in Outcome : Missing(s, b.amount)
        \/ Placing(b) /\ \A s \in Outcome : Missing(s, OnSide(b, s))
        \/ Listing(b) /\ Whole
  BY DEF BetOwes
<1>2. /\ TypeOK /\ b.user \in Users /\ b.side \in Outcome /\ b.amount \in Nat
      /\ b.shares \in Nat /\ b.pool \in Pool /\ burned \in Nat
      /\ Creator \in Users
  BY DEF Deals, MarketInv, TypeOK, Users
<1>3. /\ Fee(b.amount) \in Nat /\ CreatorFee(b.amount) \in Nat
      /\ PlatformFee(b.user, b.amount) \in Nat
      /\ PlatformFee(b.user, b.amount)
           = Fee(b.amount) - IF b.user = Creator THEN 0 ELSE CreatorFee(b.amount)
  BY <1>2, FeesTyped, FeesAddUp
<1>4. /\ Balances \in Int /\ Cash \in Int /\ Total \in Int
      /\ \A s \in Outcome : InExistence(s) \in Int /\ pool[s] \in Nat
  BY <1>2, CashSums
<1>5. CASE Debiting(b) /\ Backs(b) /\ Whole
  <2>1. /\ IF b.user = Creator THEN Moving(b)' ELSE Sharing(b)'
        /\ Credits(b.user, "buy", -(b.amount + Fee(b.amount)))
        /\ burned' = burned + PlatformFee(b.user, b.amount)
        /\ UNCHANGED <<pool, shares>>
    BY <1>5, WagerGoesOn DEF holdings
  <2>2. -(b.amount + Fee(b.amount)) \in Int
    BY <1>2, <1>3
  <2>3. Balances' = Balances + (-(b.amount + Fee(b.amount)))
    BY <1>2, <2>1, <2>2, BalancesSum
  <2>4. Cash' = Cash - b.amount - (IF b.user = Creator THEN 0 ELSE CreatorFee(b.amount))
    BY <1>2, <1>3, <1>4, <2>1, <2>3 DEF Cash
  <2>5. Backs(b)'
    BY <1>5, <2>1 DEF Backs, OnSide
  <2>6. \A s \in Outcome : InExistence(s)' = InExistence(s) /\ Cash + InExistence(s) = Total
    BY <1>4, <1>5, <2>1 DEF InExistence, Whole, Missing
  <2>7. CASE b.user = Creator
    <3>1. \A s \in Outcome : Missing(s, b.amount)'
      BY <1>2, <1>4, <2>4, <2>6, <2>7 DEF Missing, Total
    <3> QED BY <2>1, <2>5, <2>7, <3>1 DEF BetOwes
  <2>8. CASE b.user # Creator
    <3>1. \A s \in Outcome : Missing(s, b.amount + CreatorFee(b.amount))'
      BY <1>2, <1>3, <1>4, <2>4, <2>6, <2>8 DEF Missing, Total
    <3> QED BY <2>1, <2>5, <2>8, <3>1 DEF BetOwes
  <2> QED BY <2>7, <2>8
<1>6. CASE /\ Sharing(b) /\ Backs(b)
           /\ \A s \in Outcome : Missing(s, b.amount + CreatorFee(b.amount))
  <2>1. /\ Moving(b)' /\ Credits(Creator, "creator_fee", CreatorFee(b.amount))
        /\ burned' = burned + 0 /\ UNCHANGED <<pool, shares>>
    BY <1>6, WagerGoesOn DEF holdings
  <2>2. Balances' = Balances + CreatorFee(b.amount)
    BY <1>2, <1>3, <2>1, BalancesSum
  <2>3. Cash' = Cash + CreatorFee(b.amount)
    BY <1>2, <1>3, <1>4, <2>1, <2>2 DEF Cash
  <2>4. Backs(b)'
    BY <1>6, <2>1 DEF Backs, OnSide
  <2>5. \A s \in Outcome : InExistence(s)' = InExistence(s)
    BY <2>1 DEF InExistence
  <2>6. \A s \in Outcome : Missing(s, b.amount)'
    BY <1>2, <1>3, <1>4, <1>6, <2>3, <2>5 DEF Missing, Total
  <2> QED BY <2>1, <2>4, <2>6 DEF BetOwes
<1>7. CASE Moving(b) /\ Backs(b) /\ \A s \in Outcome : Missing(s, b.amount)
  <2>1. Placing(b)' /\ pool' = b.pool /\ UNCHANGED <<shares, balance, burned>>
    BY <1>7, WagerGoesOn DEF holdings, money
  <2>2. Cash' = Cash
    BY <2>1 DEF Cash, Balances
  <2>3. ASSUME NEW s \in Outcome PROVE Missing(s, OnSide(b, s))'
    <3>1. b.pool[s] \in Int /\ pool'[s] = b.pool[s] /\ OnSide(b, s) \in Int
      BY <1>2, <2>1 DEF Pool, OnSide
    <3>2. InExistence(s)' = InExistence(s) - pool[s] + b.pool[s]
      BY <1>2, <2>1, <3>1, PoolSum
    <3>3. b.pool[s] + OnSide(b, s) = pool[s] + b.amount
      BY <1>7 DEF Backs
    <3>4. Cash + InExistence(s) + b.amount = Total
      BY <1>7 DEF Missing
    <3>5. Cash' + InExistence(s)' + OnSide(b, s) = Total
      BY <1>2, <1>4, <2>2, <3>1, <3>2, <3>3, <3>4
    <3> QED BY <3>5 DEF Missing, Total, OnSide
  <2> QED BY <2>1, <2>3 DEF BetOwes
<1>8. CASE Placing(b) /\ \A s \in Outcome : Missing(s, OnSide(b, s))
  <2>1. /\ Listing(b)' /\ shares' = [shares EXCEPT ![b.user][b.side] = @ + b.shares]
        /\ UNCHANGED <<pool, balance, burned>>
    BY <1>8, WagerGoesOn DEF money
  <2>2. Cash' = Cash
    BY <2>1 DEF Cash, Balances
  <2>3. PICK u \in Users, side \in Outcome : u = b.user /\ side = b.side
    BY <1>2
  <2>4. PICK n \in Int : n = shares[u][side] + b.shares
    BY <1>2, HeldIsNumber
  <2>5. ASSUME NEW s \in Outcome PROVE Missing(s, 0)'
    <3>1. InExistence(s)' = InExistence(s)
             + IF s = side THEN n - shares[u][side] ELSE 0
      <4>1. shares' = [shares EXCEPT ![u][side] = n] /\ pool' = pool
        BY <2>1, <2>3, <2>4
      <4> QED BY <1>2, <4>1, SharesSum
    <3>2. shares[u][side] \in Nat
      BY <1>2, HeldIsNumber
    <3>3. InExistence(s)' = InExistence(s) + OnSide(b, s) /\ OnSide(b, s) \in Int
      BY <1>2, <1>4, <2>3, <2>4, <3>1, <3>2 DEF OnSide
    <3>4. Cash + InExistence(s) + OnSide(b, s) = Total
      BY <1>8 DEF Missing
    <3>5. Cash' + InExistence(s)' + 0 = Total
      BY <1>2, <1>4, <2>2, <3>3, <3>4
    <3> QED BY <3>5 DEF Missing, Total
  <2> QED BY <2>1, <2>5 DEF BetOwes, Whole
<1>9. CASE Listing(b) /\ Whole
  <2>1. todo' = <<>> /\ UNCHANGED <<pool, shares, balance, burned>>
    BY <1>9, WagerGoesOn DEF money
  <2>2. Whole'
    BY <1>9, <2>1 DEF Whole, Missing, Cash, Balances, InExistence, Total
  <2> QED BY <2>1, <2>2
<1> QED BY <1>1, <1>5, <1>6, <1>7, <1>8, <1>9

\* So does a sale.
LEMMA SaleKeepsAccount ==
  ASSUME MarketInv, SaleOwes, Commit
  PROVE  SaleOwes' \/ (todo' = <<>> /\ Whole')
<1>1. PICK b \in Deals :
        \/ Crediting(b) /\ Covers(b) /\ Whole
        \/ /\ Rewarding(b) /\ Covers(b)
           /\ \A s \in Outcome : Missing(s, CreatorFee(b.amount) - b.amount)
        \/ Returning(b) /\ Covers(b) /\ \A s \in Outcome : Missing(s, -b.amount)
        \/ /\ Taking(b) /\ b.shares <= shares[b.user][b.side]
           /\ \A s \in Outcome : Missing(s, -OnSide(b, s))
  BY DEF SaleOwes
<1>2. /\ TypeOK /\ b.user \in Users /\ b.side \in Outcome /\ b.amount \in Nat
      /\ b.shares \in Nat /\ b.pool \in Pool /\ burned \in Nat
      /\ Creator \in Users
  BY DEF Deals, MarketInv, TypeOK, Users
<1>3. /\ Fee(b.amount) \in Nat /\ CreatorFee(b.amount) \in Nat
      /\ PlatformFee(b.user, b.amount) \in Nat
      /\ PlatformFee(b.user, b.amount)
           = Fee(b.amount) - IF b.user = Creator THEN 0 ELSE CreatorFee(b.amount)
  BY <1>2, FeesTyped, FeesAddUp
<1>4. /\ Balances \in Int /\ Cash \in Int /\ Total \in Int
      /\ \A s \in Outcome : InExistence(s) \in Int /\ pool[s] \in Nat
  BY <1>2, CashSums
<1>5. CASE Crediting(b) /\ Covers(b) /\ Whole
  <2>1. /\ IF b.user = Creator THEN Returning(b)' ELSE Rewarding(b)'
        /\ Credits(b.user, "sell", b.amount - Fee(b.amount))
        /\ burned' = burned + PlatformFee(b.user, b.amount)
        /\ UNCHANGED <<pool, shares>>
    BY <1>5, SaleGoesOn DEF holdings
  <2>2. b.amount - Fee(b.amount) \in Int
    BY <1>2, <1>3
  <2>3. Balances' = Balances + (b.amount - Fee(b.amount))
    BY <1>2, <2>1, <2>2, BalancesSum
  <2>4. Cash' = Cash + b.amount - (IF b.user = Creator THEN 0 ELSE CreatorFee(b.amount))
    BY <1>2, <1>3, <1>4, <2>1, <2>3 DEF Cash
  <2>5. Covers(b)'
    BY <1>5, <2>1 DEF Covers, OnSide
  <2>6. \A s \in Outcome : InExistence(s)' = InExistence(s) /\ Cash + InExistence(s) = Total
    BY <1>4, <1>5, <2>1 DEF InExistence, Whole, Missing
  <2>7. CASE b.user = Creator
    <3>1. \A s \in Outcome : Missing(s, -b.amount)'
      BY <1>2, <1>4, <2>4, <2>6, <2>7 DEF Missing, Total
    <3> QED BY <2>1, <2>5, <2>7, <3>1 DEF SaleOwes
  <2>8. CASE b.user # Creator
    <3>1. \A s \in Outcome : Missing(s, CreatorFee(b.amount) - b.amount)'
      BY <1>2, <1>3, <1>4, <2>4, <2>6, <2>8 DEF Missing, Total
    <3> QED BY <2>1, <2>5, <2>8, <3>1 DEF SaleOwes
  <2> QED BY <2>7, <2>8
<1>6. CASE /\ Rewarding(b) /\ Covers(b)
           /\ \A s \in Outcome : Missing(s, CreatorFee(b.amount) - b.amount)
  <2>1. /\ Returning(b)' /\ Credits(Creator, "creator_fee", CreatorFee(b.amount))
        /\ burned' = burned + 0 /\ UNCHANGED <<pool, shares>>
    BY <1>6, SaleGoesOn DEF holdings
  <2>2. Balances' = Balances + CreatorFee(b.amount)
    BY <1>2, <1>3, <2>1, BalancesSum
  <2>3. Cash' = Cash + CreatorFee(b.amount)
    BY <1>2, <1>3, <1>4, <2>1, <2>2 DEF Cash
  <2>4. Covers(b)'
    BY <1>6, <2>1 DEF Covers, OnSide
  <2>5. \A s \in Outcome : InExistence(s)' = InExistence(s)
    BY <2>1 DEF InExistence
  <2>6. \A s \in Outcome : Missing(s, -b.amount)'
    BY <1>2, <1>3, <1>4, <1>6, <2>3, <2>5 DEF Missing, Total
  <2> QED BY <2>1, <2>4, <2>6 DEF SaleOwes
<1>7. CASE Returning(b) /\ Covers(b) /\ \A s \in Outcome : Missing(s, -b.amount)
  <2>1. Taking(b)' /\ pool' = b.pool /\ UNCHANGED <<shares, balance, burned>>
    BY <1>7, SaleGoesOn DEF holdings, money
  <2>2. Cash' = Cash
    BY <2>1 DEF Cash, Balances
  <2>3. ASSUME NEW s \in Outcome PROVE Missing(s, -OnSide(b, s))'
    <3>1. b.pool[s] \in Int /\ pool'[s] = b.pool[s] /\ OnSide(b, s) \in Int
      BY <1>2, <2>1 DEF Pool, OnSide
    <3>2. InExistence(s)' = InExistence(s) - pool[s] + b.pool[s]
      BY <1>2, <2>1, <3>1, PoolSum
    <3>3. b.pool[s] + b.amount = pool[s] + OnSide(b, s)
      BY <1>7 DEF Covers
    <3>4. Cash + InExistence(s) + (-b.amount) = Total
      BY <1>7 DEF Missing
    <3>5. Cash' + InExistence(s)' + (-OnSide(b, s)) = Total
      BY <1>2, <1>4, <2>2, <3>1, <3>2, <3>3, <3>4
    <3> QED BY <3>5 DEF Missing, Total, OnSide
  <2>4. b.shares <= shares'[b.user][b.side]
    BY <1>7, <2>1 DEF Covers
  <2> QED BY <2>1, <2>3, <2>4 DEF SaleOwes
<1>8. CASE /\ Taking(b) /\ b.shares <= shares[b.user][b.side]
           /\ \A s \in Outcome : Missing(s, -OnSide(b, s))
  <2>1. /\ todo' = <<>> /\ shares' = [shares EXCEPT ![b.user][b.side] = Max({0, @ - b.shares})]
        /\ UNCHANGED <<pool, balance, burned>>
    BY <1>8, SaleGoesOn DEF money
  <2>2. Cash' = Cash
    BY <2>1 DEF Cash, Balances
  <2>3. PICK u \in Users, side \in Outcome : u = b.user /\ side = b.side
    BY <1>2
  <2>4. shares[u][side] \in Nat
    BY <1>2, HeldIsNumber
  <2>5. PICK n \in Int : n = shares[u][side] - b.shares /\ n = Max({0, n})
    <3>1. PICK n \in Int : n = shares[u][side] - b.shares
      BY <1>2, <2>4
    <3>2. n >= 0
      BY <1>2, <1>8, <2>3, <2>4, <3>1
    <3>3. Max({0, n}) = n
      BY <3>2 DEF Max
    <3> QED BY <3>1, <3>3
  <2>6. ASSUME NEW s \in Outcome PROVE Missing(s, 0)'
    <3>1. InExistence(s)' = InExistence(s)
             + IF s = side THEN n - shares[u][side] ELSE 0
      <4>1. shares' = [shares EXCEPT ![u][side] = n] /\ pool' = pool
        BY <2>1, <2>3, <2>5
      <4> QED BY <1>2, <4>1, SharesSum
    <3>2. InExistence(s)' = InExistence(s) - OnSide(b, s) /\ OnSide(b, s) \in Int
      BY <1>2, <1>4, <2>3, <2>4, <2>5, <3>1 DEF OnSide
    <3>3. Cash + InExistence(s) + (-OnSide(b, s)) = Total
      BY <1>8 DEF Missing
    <3>4. Cash' + InExistence(s)' + 0 = Total
      BY <1>2, <1>4, <2>2, <3>2, <3>3
    <3> QED BY <3>4 DEF Missing, Total
  <2> QED BY <2>1, <2>6 DEF Whole
<1> QED BY <1>1, <1>5, <1>6, <1>7, <1>8

\* Before there is a market, nothing but the creator's liquidity is on its way.
Unborn ==
  /\ pool = Empty /\ shares = [u \in Users |-> Empty] /\ asked = 0
  /\ \/ todo = <<>> /\ Cash = Total
     \/ /\ todo = <<Pays(Creator, "market_creation", -Liquidity, 0)>> \o <<Inserts>>
        /\ Cash = Total
     \/ todo = <<Inserts>> /\ Cash + Liquidity = Total

\* While there is one, a trade says what is on its way.
Alive ==
  IF Trading THEN (todo = <<>> /\ Whole) \/ BetOwes \/ SaleOwes ELSE Whole

\* Afterwards, what the first resolution left due is paid or on its way.
Payouts == [u \in Users |-> ledger[u]["payout"]]
Settles ==
  Cash + SumFunction(due) + residual = Total + SumFunction(Payouts) + Recovered

CashInv ==
  Unfailing =>
    /\ status = "NONE" => Unborn
    /\ status \in {"OPEN", "RESOLVING"} => Alive
    /\ status = "RESOLVED" => Settles

\* An empty plan is no part of a trade.
LEMMA TradesHavePlans ==
  ASSUME BetOwes \/ SaleOwes PROVE todo # <<>>
<1>1. ASSUME NEW b \in Deals,
             Debiting(b) \/ Sharing(b) \/ Moving(b) \/ Placing(b) \/ Listing(b)
      PROVE  todo # <<>>
  <2>1. Debiting(b) => todo # <<>>
    BY WagerIsPlanned, PlanWithHead DEF Debiting
  <2>2. Sharing(b) => todo # <<>>
    BY WagerIsPlanned, PlanWithHead DEF Sharing
  <2>3. Moving(b) => todo # <<>>
    BY WagerIsPlanned, PlanWithHead DEF Moving, Moves
  <2>4. Placing(b) => todo # <<>>
    BY WagerIsPlanned, PlanWithHead DEF Placing, Places
  <2>5. Listing(b) => todo # <<>>
    BY DEF Listing, Lists
  <2> QED BY <1>1, <2>1, <2>2, <2>3, <2>4, <2>5
<1>2. ASSUME NEW b \in Deals,
             Crediting(b) \/ Rewarding(b) \/ Returning(b) \/ Taking(b)
      PROVE  todo # <<>>
  <2>1. Crediting(b) => todo # <<>>
    BY SaleIsPlanned, PlanWithHead DEF Crediting
  <2>2. Rewarding(b) => todo # <<>>
    BY SaleIsPlanned, PlanWithHead DEF Rewarding
  <2>3. Returning(b) => todo # <<>>
    BY SaleIsPlanned, PlanWithHead DEF Returning, Returns
  <2>4. Taking(b) => todo # <<>>
    BY DEF Taking, Takes
  <2> QED BY <1>2, <2>1, <2>2, <2>3, <2>4
<1> QED BY <1>1, <1>2 DEF BetOwes, SaleOwes

\* The sums of what is due and what is paid.
LEMMA DueSums ==
  ASSUME TypeOK
  PROVE  /\ SumFunction(due) \in Int /\ residual \in Int /\ Recovered \in Int
         /\ Payouts \in [Users -> Int] /\ SumFunction(Payouts) \in Int
<1>1. Creator \in Users /\ 0 \in Int
  BY DEF Users
<1>2. due \in [Users -> Int] /\ Payouts \in [Users -> Int] /\ residual \in Int
      /\ Recovered \in Int
  BY DEF TypeOK, Payouts, TxTypes, Recovered, Users
<1> QED BY <1>1, <1>2, UsersAreFinite, SumUpdate

\* A payment to a winner or to the creator moves money and its account alike.
LEMMA PaymentSettles ==
  ASSUME TypeOK, Settles, NEW u \in Users, NEW type \in TxTypes, NEW amount \in Int,
         Credits(u, type, amount), UNCHANGED <<burned, due, residual>>,
         type = "payout" \/ (type = "creator_recovery" /\ u = Creator)
  PROVE  Settles'
<1>1. /\ SumFunction(due) \in Int /\ residual \in Int /\ Recovered \in Int
      /\ Payouts \in [Users -> Int] /\ SumFunction(Payouts) \in Int
      /\ Balances \in Int /\ Total \in Int /\ burned \in Int
  <2>1. burned \in Int
    BY DEF TypeOK
  <2> QED BY <2>1, DueSums, CashSums
<1>2. Balances' = Balances + amount
  BY BalancesSum
<1>3. ledger' = [ledger EXCEPT ![u][type] = @ + amount]
  BY DEF Credits
<1>4. CASE type = "payout"
  <2>1. Recovered' = Recovered
    BY <1>3, <1>4 DEF Recovered, TypeOK, TxTypes, Users
  <2>2. PICK n \in Int : n = Payouts[u] + amount
    BY <1>1
  <2>3. Payouts' = [Payouts EXCEPT ![u] = n] /\ Payouts[u] \in Int
    BY <1>1, <1>3, <1>4, <2>2 DEF Payouts, TypeOK, TxTypes
  <2>4. SumFunction([Payouts EXCEPT ![u] = n]) = SumFunction(Payouts) - Payouts[u] + n
    <3>1. Payouts \in [Users -> Int]
      BY <1>1
    <3> QED BY <3>1, UsersAreFinite, SumUpdate
  <2>5. SumFunction(Payouts)' = SumFunction(Payouts) + amount
    BY <1>1, <2>2, <2>3, <2>4
  <2> QED BY <1>1, <1>2, <2>1, <2>5 DEF Settles, Cash, Total
<1>5. CASE type = "creator_recovery" /\ u = Creator
  <2>1. Payouts' = Payouts
    BY <1>3, <1>5 DEF Payouts, TypeOK, TxTypes
  <2>2. Recovered' = Recovered + amount
    BY <1>3, <1>5 DEF Recovered, TypeOK, TxTypes, Users
  <2> QED BY <1>1, <1>2, <2>1, <2>2 DEF Settles, Cash, Total
<1> QED BY <1>4, <1>5

\* The commits of a settlement, and of a second one, keep account.
LEMMA SettlementKeepsAccount ==
  ASSUME MarketInv, FullInv, Settles, status = "RESOLVED", Commit
  PROVE  Settles'
<1>1. /\ todo # <<>> /\ Head(todo) \in Commits /\ TypeOK
  BY KindsAreActions, HeadAndTail DEF MarketInv
<1>2. ~Trading
  BY DEF Trading
<1>3. CASE UpdateUserBalance
  <2> DEFINE c == Head(todo)
  <2>1. c.kind = "balance"
    BY <1>3 DEF UpdateUserBalance, Committing
  <2>2. Settling
    <3>1. ~Deciding
      BY <2>1 DEF Deciding, Resolves
    <3> QED BY <3>1, ResolvedStays
  <2>3. todo \in Seq(SettleCommits)
    <3>1. ASSUME NEW outcome \in Outcome, NEW left \in SUBSET Users,
                 NEW rest \in Seq(SettleCommits), left # {},
                 todo = PaysWinners(outcome, left) \o rest
          PROVE  FALSE
      BY <2>1, <3>1, PlanWithHead DEF PaysWinners
    <3> QED BY <2>2, <3>1 DEF Settling
  <2>4. c \in SettleCommits
    BY <1>1, <2>3, HeadTailProperties
  <2>5. /\ c.user = Creator /\ c.type = "creator_recovery" /\ c.fee = 0 /\ c.amount \in Int
    BY <1>1, <2>1, <2>4, CommitFields DEF SettleCommits
  <2>6. /\ Credits(c.user, c.type, c.amount) /\ burned' = burned + c.fee
        /\ UNCHANGED <<due, residual>>
    BY <1>3 DEF UpdateUserBalance, history
  <2> HIDE DEF c
  <2>7. burned' = burned /\ Creator \in Users /\ "creator_recovery" \in TxTypes
    BY <1>1, <2>5, <2>6 DEF TypeOK, Users, TxTypes
  <2> QED BY <1>1, <2>5, <2>6, <2>7, PaymentSettles
<1>4. CASE PayWinner
  <2> DEFINE c == Head(todo)
  <2>1. c.left \subseteq Users /\ c.outcome \in Outcome
    BY <1>1, <1>4, CommitFields DEF PayWinner, Committing
  <2>2. PICK u \in c.left : Credits(u, "payout", shares[u][c.outcome])
    BY <1>4 DEF PayWinner
  <2>3. u \in Users /\ "payout" \in TxTypes /\ shares[u][c.outcome] \in Int
    BY <1>1, <2>1, HeldIsNumber DEF TxTypes
  <2>4. UNCHANGED <<burned, due, residual>>
    BY <1>4 DEF PayWinner, history
  <2> HIDE DEF c
  <2> QED BY <1>1, <2>2, <2>3, <2>4, PaymentSettles
<1>5. CASE ResolveMarket
  <2>1. outcomes # {}
    BY DEF FullInv
  <2>2. UNCHANGED <<money, burned, due, residual>>
    BY <1>5, <2>1 DEF ResolveMarket
  <2> QED BY <2>2 DEF Settles, Cash, Balances, Payouts, Recovered, money, Total
<1>6. CASE ~UpdateUserBalance /\ ~PayWinner /\ ~ResolveMarket
  <2>1. UNCHANGED <<money, burned, due, residual>>
    BY <1>6 DEF Commit, InsertMarket, UpdateMarketPool, UpdatePosition,
       ReducePosition, ClearPosition, CreateBet, UpdateMarketCommittee,
       UpdateMarketStatus, UpsertCommitteeVote, history
  <2> QED BY <2>1 DEF Settles, Cash, Balances, Payouts, Recovered, money, Total
<1> QED BY <1>3, <1>4, <1>5, <1>6

\* The first resolution leaves due what the market holds.
LEMMA ResolutionSettles ==
  ASSUME MarketInv, SettleInv, Whole, ResolveMarket, status # "RESOLVED"
  PROVE  Settles'
<1>1. PICK outcome \in Outcome : outcome = Head(todo).outcome
  BY HeadAndTail, CommitFields DEF ResolveMarket, Committing, MarketInv
<1>2. BeforeSettlement
  BY DEF SettleInv
<1>3. /\ due' = [u \in Users |-> shares[u][outcome]] /\ residual' = pool[outcome]
      /\ UNCHANGED <<money, burned>>
  BY <1>1, <1>2 DEF ResolveMarket, BeforeSettlement
<1>4. due' = Held(outcome)
  BY <1>3 DEF Held
<1>5. SumFunction(due)' + residual' = InExistence(outcome)
  <2>1. SumFunction(due') + residual' = SumFunction(Held(outcome)) + pool[outcome]
    BY <1>3, <1>4
  <2> QED BY <2>1, CashSums DEF MarketInv
<1>6. /\ Cash' = Cash /\ Payouts' = Payouts /\ Recovered' = Recovered
  BY <1>3 DEF money, Cash, Balances, Payouts, Recovered
<1>7. SumFunction(Payouts) = 0
  <2>1. Payouts = [u \in Users |-> 0]
    BY <1>2 DEF Payouts, BeforeSettlement, Paid
  <2> QED BY <2>1, NothingAddsUp
<1>8. Recovered = 0 /\ Cash + InExistence(outcome) + 0 = Total
  BY <1>2 DEF BeforeSettlement, Whole, Missing
<1>9. Cash \in Int /\ Total \in Int /\ InExistence(outcome) \in Int /\ TypeOK
  BY CashSums DEF MarketInv
<1>10. TypeOK'
  BY <1>9, ResolveTyped
<1>11. SumFunction(due)' \in Int /\ residual' \in Int
  <2>1. SumFunction(due') \in Int
    BY <1>4, <1>9, CashSums
  <2> QED BY <1>10, <2>1 DEF TypeOK
<1> QED BY <1>5, <1>6, <1>7, <1>8, <1>9, <1>11 DEF Settles, Total

\* Creating a market takes its liquidity on the way, and gives it to the pool.
LEMMA CreationKeepsAccount ==
  ASSUME MarketInv, Unborn, status = "NONE", Commit
  PROVE  IF status' = "NONE" THEN Unborn' ELSE status' = "OPEN" /\ todo' = <<>> /\ Whole'
<1>1. TypeOK /\ Creator \in Users /\ Liquidity \in Int /\ -Liquidity \in Int /\ todo # <<>>
  BY AmountsAssumption, KindsAreActions DEF MarketInv, Users
<1>2. Balances \in Int /\ Cash \in Int /\ Total \in Int /\ burned \in Int
  BY <1>1, CashSums DEF TypeOK
<1>3. CASE /\ todo = <<Pays(Creator, "market_creation", -Liquidity, 0)>> \o <<Inserts>>
           /\ Cash = Total
  <2> DEFINE c == Pays(Creator, "market_creation", -Liquidity, 0)
  <2>1. /\ c.kind = "balance" /\ c.user = Creator /\ c.type = "market_creation"
        /\ c.amount = -Liquidity /\ c.fee = 0
    BY DEF Pays
  <2>2. todo = <<c>> \o <<Inserts>>
    BY <1>3
  <2> HIDE DEF c
  <2>3. /\ todo' = <<Inserts>> /\ UNCHANGED <<status, pool, holdings>>
        /\ Credits(Creator, "market_creation", -Liquidity) /\ burned' = burned + 0
    BY <2>1, <2>2, InsertsIsAPlan, TradeWrites
  <2>4. asked' = asked
    BY <2>1, <2>2, InsertsIsAPlan, PlanWithHead, MoneyMoves
  <2>5. Balances' = Balances + (-Liquidity)
    BY <1>1, <2>3, BalancesSum
  <2>6. Cash' + Liquidity = Total
    BY <1>1, <1>2, <1>3, <2>3, <2>5 DEF Cash
  <2> QED BY <2>3, <2>4, <2>6 DEF Unborn, holdings, Total
<1>4. CASE todo = <<Inserts>> /\ Cash + Liquidity = Total
  <2>1. InsertMarket
    BY <1>4, KindsAreActions DEF Inserts
  <2>2. /\ status' = "OPEN" /\ todo' = <<>> /\ pool' = [s \in Outcome |-> Liquidity]
        /\ UNCHANGED <<shares, balance, burned>>
    BY <1>4, <2>1 DEF InsertMarket, Rest, holdings, money
  <2>3. ASSUME NEW s \in Outcome PROVE Missing(s, 0)'
    <3>1. InExistence(s) = 0
      <4>1. [u \in Users |-> shares[u][s]] = [u \in Users |-> 0]
        BY DEF Unborn, Empty
      <4>2. SumFunction([u \in Users |-> shares[u][s]]) = 0
        BY <4>1, NothingAddsUp
      <4>3. pool[s] = 0
        BY DEF Unborn, Empty
      <4> QED BY <4>2, <4>3 DEF InExistence
    <3>2. pool'[s] = Liquidity /\ pool[s] = 0
      BY <2>2 DEF Unborn, Empty
    <3>3. InExistence(s)' = Liquidity
      BY <1>1, <2>2, <3>1, <3>2, PoolSum
    <3>4. Cash' = Cash
      BY <2>2 DEF Cash, Balances
    <3> QED BY <1>1, <1>2, <1>4, <3>3, <3>4 DEF Missing, Total
  <2> QED BY <2>2, <2>3 DEF Whole
<1> QED BY <1>1, <1>3, <1>4 DEF Unborn

\* A commit of an open market that no trade makes moves no money.
LEMMA JudgingMovesNoMoney ==
  ASSUME MarketInv, ~Trading, status \in {"OPEN", "RESOLVING"}, Commit
  PROVE  UNCHANGED <<pool, shares, money, burned>>
<1>1. Convening \/ Marking \/ Voting \/ Deciding
  BY KindsAreActions DEF MarketInv, Planned, Creating, Settling
<1>2. Head(todo).kind \in {"committee", "status", "vote", "resolve"}
  BY <1>1 DEF Convening, Marking, Voting, Deciding, SetsCommittee, SetsResolving, Votes,
     Resolves
<1> QED
  BY <1>2 DEF Commit, Committing, UpdateUserBalance, PayWinner, InsertMarket,
       UpdateMarketPool, UpdatePosition, ReducePosition, ClearPosition, CreateBet,
       UpdateMarketCommittee, UpdateMarketStatus, UpsertCommitteeVote, ResolveMarket,
       row, holdings

LEMMA WholeStays ==
  ASSUME UNCHANGED <<pool, shares, balance, burned>>
  PROVE  Whole' = Whole /\ Cash' = Cash
BY DEF Whole, Missing, Cash, Balances, InExistence, Total

LEMMA CommitKeepsCashInv ==
  ASSUME MarketInv, MarketInv', SettleInv, FullInv, CashInv, Commit
  PROVE  CashInv'
<1> SUFFICES ASSUME Unfailing'
             PROVE  /\ status' = "NONE" => Unborn'
                    /\ status' \in {"OPEN", "RESOLVING"} => Alive'
                    /\ status' = "RESOLVED" => Settles'
  BY DEF CashInv
<1>1. Unfailing
  BY UsedGrows DEF Unfailing, Next
<1>2. todo # <<>> /\ status \in {"NONE", "OPEN", "RESOLVING", "RESOLVED"}
  BY KindsAreActions DEF MarketInv, TypeOK
<1>3. CASE status = "NONE"
  <2>1. IF status' = "NONE" THEN Unborn' ELSE status' = "OPEN" /\ todo' = <<>> /\ Whole'
    BY <1>1, <1>3, CreationKeepsAccount DEF CashInv
  <2> QED BY <2>1 DEF Alive
<1>4. CASE status = "RESOLVED"
  <2>1. status' = "RESOLVED" /\ Settles'
    BY <1>1, <1>4, ResolvedStays, SettlementKeepsAccount DEF CashInv
  <2> QED BY <2>1
<1>5. CASE status \in {"OPEN", "RESOLVING"} /\ Trading
  <2>1. BetOwes \/ SaleOwes
    BY <1>1, <1>2, <1>5 DEF CashInv, Alive
  <2>2. BetOwes' \/ SaleOwes' \/ (todo' = <<>> /\ Whole')
    BY <2>1, BetKeepsAccount, SaleKeepsAccount
  <2>3. Trading' /\ status' = "OPEN"
    <3>1. /\ Head(todo).kind \in {"balance", "pool", "position", "reduce", "bet"}
          /\ Tail(todo) \in Seq(TradeCommits)
      BY <1>2, <1>5, TradingHead
    <3>2. todo' \in Seq(TradeCommits) /\ status' = status
      BY <3>1, MoneyMoves DEF Unjudged
    <3> QED BY <1>5, <3>2 DEF Trading
  <2> QED BY <2>2, <2>3 DEF Alive
<1>6. CASE status \in {"OPEN", "RESOLVING"} /\ ~Trading
  <2>1. Whole
    BY <1>1, <1>6 DEF CashInv, Alive
  <2>2. Whole'
    BY <1>6, <2>1, JudgingMovesNoMoney, WholeStays DEF money
  <2>3. CASE ResolveMarket
    <3>1. status' = "RESOLVED"
      BY <2>3 DEF ResolveMarket
    <3> QED BY <1>6, <2>1, <2>3, <3>1, ResolutionSettles
  <2>4. CASE ~ResolveMarket
    <3>1. status' \in {"OPEN", "RESOLVING"}
      BY <1>6, <2>4 DEF Commit, UpdateUserBalance, PayWinner, InsertMarket,
       UpdateMarketPool, UpdatePosition, ReducePosition, ClearPosition, CreateBet,
       UpdateMarketCommittee, UpdateMarketStatus, UpsertCommitteeVote, row
    <3>2. Trading' => todo' = <<>>
      BY <1>6, NoTradeFromElsewhere
    <3> QED BY <2>2, <3>1, <3>2 DEF Alive
  <2> QED BY <2>3, <2>4
<1> QED BY <1>2, <1>3, <1>4, <1>5, <1>6

\* What a request, a failure or the time leaves alone.
LEMMA OthersKeepCash ==
  ASSUME Next, ~Commit
  PROVE  /\ UNCHANGED <<pool, shares, money, burned, due, residual, status>>
         /\ RequestFails \/ ProcessRestarts \/ todo = <<>> \/ UNCHANGED <<todo, asked>>
<1>1. CASE Request \/ Sweep
  BY <1>1 DEF Request, Sweep, CreateMarket, PlaceBet, SellShares, ResolveOpen,
         ResolveResolving, CastCommitteeVote, RequestResolution, ResolverAnswers,
         AdminTransition, FixResolutions, Starts, row, holdings, history
<1> QED
  BY <1>1 DEF Next, RequestFails, ProcessRestarts, CloseTimePasses, WindowPasses,
     row, holdings, history

\* A trade starts with nothing missing, and its pool makes up for its shares.
LEMMA TradeStartsWhole ==
  ASSUME MarketInv, Whole', UNCHANGED <<pool, shares>>,
         NEW u \in Users, NEW side \in Outcome,
         \/ \E amount \in BetAmounts : PlaceBet(u, side, amount)
         \/ \E n \in SaleSizes(shares[u][side]) : SellShares(u, side, n)
  PROVE  BetOwes' \/ SaleOwes'
<1>1. ASSUME NEW amount \in BetAmounts, PlaceBet(u, side, amount) PROVE BetOwes'
  <2>1. PICK b \in Deals :
          /\ Debiting(b)' /\ b.side = side /\ b.amount = amount
          /\ b.shares = SharesBought(pool, side, amount)
          /\ b.pool = PoolAfterPurchase(pool, side, amount)
    BY <1>1, BetStarts
  <2>2. ASSUME NEW s \in Outcome PROVE b.pool[s] + OnSide(b, s) = pool[s] + b.amount
    <3>1. b.pool \in Pool /\ pool \in Pool /\ b.amount \in Nat /\ b.shares \in Nat
      BY DEF Deals, MarketInv, TypeOK
    <3>2. CASE s = side
      <4>1. b.shares = pool[side] + amount - b.pool[side]
        BY <2>1 DEF SharesBought
      <4>2. b.pool[s] \in Int /\ pool[s] \in Int
        BY <3>1 DEF Pool
      <4> QED BY <2>1, <3>1, <3>2, <4>1, <4>2 DEF OnSide
    <3>3. CASE s # side
      <4>1. s = Opposite(side)
        BY <3>3 DEF Outcome, Opposite
      <4>2. b.pool[s] = pool[s] + amount
        BY <2>1, <3>3, <4>1 DEF PoolAfterPurchase
      <4>3. b.pool[s] \in Int
        BY <3>1 DEF Pool
      <4> QED BY <2>1, <3>3, <4>2, <4>3 DEF OnSide
    <3> QED BY <3>2, <3>3
  <2>3. Backs(b)'
    BY <2>2 DEF Backs, OnSide
  <2> QED BY <2>1, <2>3 DEF BetOwes
<1>2. ASSUME NEW n \in SaleSizes(shares[u][side]), SellShares(u, side, n) PROVE SaleOwes'
  <2>1. PICK b \in Deals :
          /\ Crediting(b)'
          /\ b.user = u /\ b.side = side /\ b.shares = n /\ n <= shares[u][side]
          /\ b.pool = PoolAfterSale(pool, side, n, b.amount)
    BY <1>2, SaleStarts
  <2>2. ASSUME NEW s \in Outcome PROVE b.pool[s] + b.amount = pool[s] + OnSide(b, s)
    <3>1. pool[s] \in Int /\ b.amount \in Int /\ b.shares \in Int
      BY DEF Deals, MarketInv, TypeOK, Pool
    <3>2. b.pool[s] = pool[s] - b.amount + (IF s = side THEN n ELSE 0)
      BY <2>1 DEF PoolAfterSale
    <3> QED BY <2>1, <3>1, <3>2 DEF OnSide
  <2>3. b.shares <= shares'[b.user][b.side]
    BY <2>1
  <2>4. Covers(b)'
    BY <2>2, <2>3 DEF Covers, OnSide
  <2> QED BY <2>1, <2>4 DEF SaleOwes
<1> QED BY <1>1, <1>2

\* A running trade that waits owes the same.
LEMMA OwedStays ==
  ASSUME UNCHANGED <<todo, pool, shares, balance, burned>>
  PROVE  BetOwes' = BetOwes /\ SaleOwes' = SaleOwes
BY DEF BetOwes, SaleOwes, Debiting, Sharing, Moving, Placing, Listing, Crediting,
   Rewarding, Returning, Taking, Backs, Covers, OnSide, Whole, Missing, Cash, Balances,
   InExistence, Total

LEMMA OthersKeepCashInv ==
  ASSUME MarketInv, CashInv, Next, ~Commit
  PROVE  CashInv'
<1> SUFFICES ASSUME Unfailing'
             PROVE  /\ status' = "NONE" => Unborn'
                    /\ status' \in {"OPEN", "RESOLVING"} => Alive'
                    /\ status' = "RESOLVED" => Settles'
  BY DEF CashInv
<1>1. Unfailing /\ ~RequestFails /\ ~ProcessRestarts
  BY UsedGrows DEF Unfailing
<1>2. UNCHANGED <<pool, shares, money, burned, due, residual, status>>
  BY OthersKeepCash
<1>3. todo = <<>> \/ UNCHANGED <<todo, asked>>
  BY <1>1, OthersKeepCash
<1>4. UNCHANGED balance /\ Whole' = Whole /\ Cash' = Cash
  BY <1>2, WholeStays DEF money
<1>5. ASSUME status = "NONE" PROVE Unborn'
  <2>1. Unborn
    BY <1>1, <1>5 DEF CashInv
  <2>2. CASE UNCHANGED <<todo, asked>>
    BY <1>2, <1>4, <2>1, <2>2 DEF Unborn, Total
  <2>3. CASE todo = <<>> /\ ~UNCHANGED <<todo, asked>>
    <3>1. CreateMarket
      <4>1. Request
        BY <1>1, <1>5, <2>3 DEF Next, Sweep, CloseTimePasses, WindowPasses
      <4>2. asked = 0 /\ asked \in Int
        BY <2>1 DEF Unborn
      <4> QED
        BY <1>5, <4>1, <4>2 DEF Request, PlaceBet, SellShares, ResolveOpen,
           ResolveResolving, CastCommitteeVote, RequestResolution, ResolverAnswers,
           AdminTransition, FixResolutions
    <3>2. todo' = <<Pays(Creator, "market_creation", -Liquidity, 0)>> \o <<Inserts>>
          /\ asked' = asked
      BY <3>1, ShortPlans DEF CreateMarket, Starts
    <3>3. Cash = Total
      <4>1. todo # <<Inserts>>
        BY <2>3
      <4>2. todo # <<Pays(Creator, "market_creation", -Liquidity, 0)>> \o <<Inserts>>
        BY <2>3, InsertsIsAPlan, PlanWithHead
      <4> QED BY <2>1, <4>1, <4>2 DEF Unborn
    <3> QED BY <1>2, <1>4, <2>1, <3>2, <3>3 DEF Unborn, Total
  <2> QED BY <1>3, <2>2, <2>3
<1>6. ASSUME status \in {"OPEN", "RESOLVING"} PROVE Alive'
  <2>1. Alive
    BY <1>1, <1>6 DEF CashInv
  <2>2. CASE UNCHANGED <<todo, asked>>
    <3>1. Trading' = Trading
      BY <1>2, <1>4, <2>2 DEF Trading, Debits
    <3>2. BetOwes' = BetOwes /\ SaleOwes' = SaleOwes
      BY <1>2, <1>4, <2>2, OwedStays
    <3> QED BY <1>4, <2>1, <2>2, <3>1, <3>2 DEF Alive
  <2>3. CASE todo = <<>>
    <3>1. Whole'
      BY <1>4, <2>1, <2>3, TradesHavePlans DEF Alive
    <3>2. ASSUME Trading', todo' # <<>> PROVE BetOwes' \/ SaleOwes'
      <4>1. PICK u \in Users, side \in Outcome :
              \/ \E amount \in BetAmounts : PlaceBet(u, side, amount)
              \/ \E n \in SaleSizes(shares[u][side]) : SellShares(u, side, n)
        BY <2>3, <3>2, TradesStart
      <4> QED BY <1>2, <3>1, <4>1, TradeStartsWhole
    <3> QED BY <3>1, <3>2 DEF Alive
  <2> QED BY <1>3, <2>2, <2>3
<1>7. ASSUME status = "RESOLVED" PROVE Settles'
  BY <1>1, <1>2, <1>4, <1>7 DEF CashInv, Settles, Payouts, Recovered, money, Total
<1> QED BY <1>2, <1>5, <1>6, <1>7

LEMMA InitEstablishesCashInv == Init => CashInv
<1> SUFFICES ASSUME Init PROVE Unborn
  BY DEF Init, CashInv
<1>1. Balances = Total
  <2>1. \A c \in Int : SumFunction([u \in Users |-> c]) = Cardinality(Users) * c
    BY UsersAreFinite, SumOfConstant
  <2>2. StartBalance \in Int
    BY AmountsAssumption
  <2>3. SumFunction([u \in Users |-> StartBalance]) = Cardinality(Users) * StartBalance
    BY <2>1, <2>2, Zenon
  <2> QED BY <2>3 DEF Init, Balances, Total
<1>2. Balances \in Int
  BY <1>1, UsersAreFinite, FS_CardinalityType, AmountsAssumption DEF Total
<1> QED BY <1>1, <1>2 DEF Init, Unborn, Cash

LEMMA SpecKeepsCashInv == Spec => []CashInv
<1>1. CashInv /\ UNCHANGED vars => CashInv'
  <2> SUFFICES ASSUME CashInv, UNCHANGED vars PROVE CashInv'
    OBVIOUS
  <2>1. UNCHANGED <<todo, asked, status, pool, shares, balance, ledger, burned, due, residual, used>>
    BY DEF vars, row, holdings, money, history
  <2>2. Whole' = Whole /\ Cash' = Cash /\ BetOwes' = BetOwes /\ SaleOwes' = SaleOwes
    BY <2>1, WholeStays, OwedStays
  <2>3. Trading' = Trading
    BY <2>1 DEF Trading, Debits
  <2>4. Alive' = Alive
    BY <2>1, <2>2, <2>3 DEF Alive
  <2>5. Unborn' = Unborn /\ Settles' = Settles
    BY <2>1, <2>2 DEF Unborn, Settles, Payouts, Recovered, Total
  <2> QED BY <2>1, <2>4, <2>5 DEF CashInv, Unfailing
<1>2. MarketInv /\ MarketInv' /\ SettleInv /\ FullInv /\ CashInv /\ [Next]_vars => CashInv'
  BY <1>1, CommitKeepsCashInv, OthersKeepCashInv
<1> QED
  BY <1>2, InitEstablishesCashInv, SpecKeepsInv, SpecKeepsSettleInv, SpecKeepsFullInv, PTL
     DEF Spec

\* No money appears or is lost: between requests none of which failed, what the
\* users hold, the fees the platform kept and the collateral behind the shares
\* add up to what the users began with, for any number of users, any amounts,
\* and any number of trades, committees and answers of the resolver.
THEOREM MoneyIsConserved == Spec => []Conservation
<1>1. MarketInv /\ CashInv /\ FullInv /\ SettledInFull => Conservation
  <2> SUFFICES ASSUME MarketInv, CashInv, FullInv, SettledInFull, Idle, Unfailing,
                      Cardinality(outcomes) <= 1, NEW side \in Outcome
               PROVE  Cash + (IF status = "RESOLVED" THEN 0 ELSE InExistence(side)) = Total
    BY DEF Conservation, Cash, Total
  <2>1. TypeOK /\ status \in {"NONE", "OPEN", "RESOLVING", "RESOLVED"}
    BY DEF MarketInv, TypeOK
  <2>2. /\ Cash \in Int /\ Total \in Int /\ InExistence(side) \in Int
        /\ SumFunction(due) \in Int /\ residual \in Int /\ Recovered \in Int
        /\ SumFunction(Payouts) \in Int
    BY <2>1, CashSums, DueSums
  <2>3. CASE status = "NONE"
    <3>1. Unborn /\ todo = <<>>
      BY <2>3 DEF CashInv, Idle
    <3>2. Cash = Total
      <4>1. <<Pays(Creator, "market_creation", -Liquidity, 0)>> \o <<Inserts>> # <<>>
        BY InsertsIsAPlan, PlanWithHead
      <4> QED BY <3>1, <4>1 DEF Unborn
    <3>3. InExistence(side) = 0
      <4>1. [u \in Users |-> shares[u][side]] = [u \in Users |-> 0]
        BY <3>1 DEF Unborn, Empty
      <4>2. SumFunction([u \in Users |-> shares[u][side]]) = 0
        BY <4>1, NothingAddsUp
      <4>3. pool[side] = 0
        BY <3>1 DEF Unborn, Empty
      <4> QED BY <4>2, <4>3 DEF InExistence
    <3> QED BY <2>2, <2>3, <3>2, <3>3
  <2>4. CASE status \in {"OPEN", "RESOLVING"}
    <3>1. Whole
      BY <2>4, TradesHavePlans DEF CashInv, Alive, Idle
    <3> QED BY <2>2, <2>4, <3>1 DEF Whole, Missing
  <2>5. CASE status = "RESOLVED"
    <3>1. Settles
      BY <2>5 DEF CashInv
    <3>2. Cardinality(outcomes) = 1
      <4>1. outcomes # {} /\ outcomes \subseteq {"YES", "NO"}
        BY <2>1, <2>5 DEF FullInv, TypeOK, Outcome
      <4>2. IsFiniteSet({"YES", "NO"})
        <5>1. IsFiniteSet({"YES"}) /\ {"YES", "NO"} = {"YES"} \cup {"NO"}
          BY FS_Singleton
        <5> QED BY <5>1, FS_AddElement
      <4>3. IsFiniteSet(outcomes)
        BY <4>1, <4>2, FS_Subset
      <4> QED BY <4>1, <4>3, FS_EmptySet, FS_CardinalityType
    <3>3. /\ \A u \in Users : ledger[u]["payout"] = due[u]
          /\ Recovered = residual
      BY <2>5, <3>2 DEF SettledInFull, Recovered
    <3>4. Payouts = due
      BY <2>1, <3>3 DEF Payouts, TypeOK
    <3> QED BY <2>2, <2>5, <3>1, <3>3, <3>4 DEF Settles
  <2> QED BY <2>1, <2>3, <2>4, <2>5
<1> QED
  BY <1>1, SpecKeepsInv, SpecKeepsCashInv, SpecKeepsFullInv, SettlementIsFull, PTL

-----------------------------------------------------------------------------
(* What stays when a market is resolved.                                   *)

\* What trading and judging made of the market.
judged == <<volume, invested, bets, committee, votes>>

\* A settlement writes the volume with the terminal pool, and adds nothing.
LEMMA SettlementAddsNoVolume ==
  ASSUME Settling, todo # <<>>, Head(todo).kind = "pool"
  PROVE  Head(todo).volume = 0
<1>1. CASE todo \in Seq(SettleCommits)
  BY <1>1, HeadTailProperties DEF SettleCommits
<1>2. ASSUME NEW outcome \in Outcome, NEW left \in SUBSET Users,
             NEW rest \in Seq(SettleCommits), left # {},
             todo = PaysWinners(outcome, left) \o rest
      PROVE  Head(todo).kind = "winners"
  BY <1>2, PlanWithHead DEF PaysWinners
<1> QED BY <1>1, <1>2 DEF Settling

\* A resolved market has no commit under way but those of a settlement, or an
\* answer of the resolver: no request that checked the status before the
\* resolution is still waiting.  Only the resolver is asked and awaited.
LEMMA SettlingKeepsJudgement ==
  ASSUME MarketInv, status = "RESOLVED", Commit
  PROVE  /\ resolution' # resolution => Head(todo).by = "resolver"
         /\ UNCHANGED judged
<1>1. Settling \/ Deciding
  BY ResolvedStays
<1>2. CASE Settling
  <2>1. todo # <<>> /\ Head(todo).kind \in {"balance", "pool", "clear", "winners"}
    BY <1>2, SettlingHead, KindsAreActions
  <2>2. UpdateUserBalance \/ UpdateMarketPool \/ ClearPosition \/ PayWinner
    BY <2>1 DEF Commit, Committing, UpdateUserBalance, PayWinner, InsertMarket,
       UpdateMarketPool, UpdatePosition, ReducePosition, ClearPosition, CreateBet,
       UpdateMarketCommittee, UpdateMarketStatus, UpsertCommitteeVote, ResolveMarket
  <2>3. CASE UpdateMarketPool
    <3>1. Head(todo).volume = 0 /\ volume \in Nat
      BY <1>2, <2>1, <2>3, SettlementAddsNoVolume
      DEF UpdateMarketPool, Committing, MarketInv, TypeOK
    <3> QED BY <2>3, <3>1 DEF UpdateMarketPool, judged, holdings
  <2>4. CASE UpdateUserBalance \/ ClearPosition \/ PayWinner
    BY <2>4 DEF UpdateUserBalance, ClearPosition, PayWinner, judged, row, holdings
  <2> QED BY <2>2, <2>3, <2>4
<1>3. CASE Deciding
  <2>1. PICK outcome \in Outcome, by \in {"creator", "committee", "resolver"} :
          todo = <<Resolves(outcome, by)>> /\ by = "resolver"
    BY <1>3 DEF Deciding
  <2>2. Head(todo).by = "resolver" /\ Head(todo).kind = "resolve"
    BY <2>1 DEF Resolves
  <2> QED BY <2>2, KindsAreActions DEF ResolveMarket, judged, holdings
<1> QED BY <1>1, <1>2, <1>3

\* A resolved market stays resolved and keeps what its traders and committee
\* made of it, whatever failed, whoever votes, trades or repairs, and only an
\* answer the resolver was asked for before rewrites its outcome.
THEOREM OnlyAnswersRewrite == Spec => OnlyTheResolverRewrites
<1> DEFINE Kept == /\ status' = "RESOLVED"
                   /\ resolution' # resolution => Head(todo).by = "resolver"
                   /\ UNCHANGED <<volume, invested, bets, committee, votes>>
<1>1. MarketInv /\ [Next]_vars => [status = "RESOLVED" => Kept]_vars
  <2> SUFFICES ASSUME MarketInv, Next, status = "RESOLVED" PROVE Kept
    OBVIOUS
  <2>1. CASE Commit
    BY <2>1, ResolvedStays, SettlingKeepsJudgement DEF judged
  <2>2. CASE Request \/ Sweep
    BY <2>2 DEF Request, Sweep, CreateMarket, PlaceBet, SellShares, ResolveOpen,
       ResolveResolving, CastCommitteeVote, RequestResolution, ResolverAnswers,
       AdminTransition, FixResolutions, Starts, row, holdings
  <2>3. CASE RequestFails \/ ProcessRestarts \/ CloseTimePasses \/ WindowPasses
    BY <2>3 DEF RequestFails, ProcessRestarts, CloseTimePasses, WindowPasses, row,
       holdings
  <2> QED BY <2>1, <2>2, <2>3 DEF Next
<1> QED BY <1>1, SpecKeepsInv, PTL DEF Spec, OnlyTheResolverRewrites
=============================================================================
