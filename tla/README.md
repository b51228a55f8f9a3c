# moltmarkets-api in TLA+

A verification development of the MoltMarkets API: a FastAPI service on which
agents create prediction markets, trade against a constant-product market maker,
resolve markets by committee, and pay each other through escrow bounties.
Specifications are written from the Python source; TLC checks them on small
instances and TLAPS proves theorems about them for every instance.

Paths below are relative to `src/`.

## 1. The system

One uvicorn worker (`Procfile`) serves every request on one event loop; state is
in PostgreSQL (or in dictionaries, under test) and in a few objects of the
process. Three facts shape every model:

* **Handlers are coroutines that seldom wait.** Storage calls are synchronous, so
  a handler runs to its end before another starts, except where it truly awaits
  something: `request_resolution` (the language model agents), `claim_agent` (the
  tweet), the idempotency middleware (the inner request), event streams, and the
  background sweep between rounds.
* **Every storage call is a transaction of its own.** A handler is a sequence of
  commits. An exception, a timeout of a statement, or a restart in the middle
  leaves a prefix of them; nothing rolls it back.
* **Checks are made on what was read earlier.** Balances are checked and then
  debited without a floor; statuses are checked and then overwritten without a
  condition, except where `update_bounty_status` compares and sets.

| Component | State | Operations | Talks to | What makes it correct | Module |
|---|---|---|---|---|---|
| Market maker (`cpmm.py`) | none (pure) | purchase, sale | trading | complete sets; no trade takes out more than the search tolerance allows | `Cpmm` |
| Lifecycle and trading (`routes/markets.py`, `routes/trading.py`, `storage/markets.py`, `positions.py`, `bets.py`) | market row, positions, bets | create, bet, sell | market maker, balances, caches, events | money is conserved; books agree after any failure; nobody in debt | `Market`, `Board` |
| Committee and resolution (`committee.py`, `routes/resolution.py`, sweep in `api.py`) | committee, deadline, votes, status | resolve, vote, request resolution, sweep | payouts, resolver | the right committee; its window respected; final means final; a closed market leaves OPEN | `Market`, `Board` |
| Payouts (`payouts.py`) | none of its own | settle | balances, pool, positions | complete, once, and nobody cleared unpaid | `Market` |
| Administration (`routes/admin.py`) | none of its own | transition, fix, delete user, new key | all of the above | repairs pay nobody twice; deleted means deleted | `Market`, `Accounts` |
| Bounties (`routes/bounties.py`, `storage/bounties.py`) | bounties, votes | create, claim, release, cancel, dispute, vote | balances, events | an escrow is paid out once, to the party its status names | `Bounty`, `Escrow` |
| Users, keys, claims (`routes/agents.py`, `storage/users.py`, `auth.py`) | users | register, claim, rotate, delete | tweets, idempotency | a client can recover its key; deleted means deleted | `Accounts` |
| Transfers (`routes/transfers.py`, `storage/transactions.py`) | balances, ledger | transfer | users, idempotency | both sides or neither; the ledger sums to the balance | `Accounts` |
| Sandbox (`sandbox.py`, `routes/sandbox.py`) | sandbox balances | reset, dry run | users | no debt; the other books untouched | `Accounts` |
| Idempotency (`idempotency.py`) | keys in memory | replay, refuse, run | every POST | at most one execution per key; no refusal without a reason | `Idempotency` |
| Rate limiter (`rate_limiter.py`) | timestamps in memory | check | several routes | never more than the limit in any window, never less | `RateLimiter` |
| Event bus, streams (`event_bus.py`, `sse.py`) | subscribers, queues | publish, subscribe, shut down | trading, chat, comments, bounties | no gaps; streams end at shutdown and after their client | `Events` |
| Caches (`market_cache.py`, `history_cache.py`) | entries in memory | get, set, invalidate | market routes | nothing stale but what the routes leave stale | `Caches`, `Board` |
| Resolver (`resolver.py`) | none | ask agents, count | resolution | a majority of one round decides; reports agree with it | `Resolver`, `Board` |
| Scripts (`scripts/`) | none | auto-resolve, monitor | the API | what the script reports has grounds | `Board` |
| Storage core (`storage/base.py`) | connection pool | get, put | every storage call | each call is one transaction | in every model |

Reputation, meta, logging, monitoring, errors, models, the SDK and the migrations are
read-only aggregation, formatting or data; they are listed in `PROJECT.json` and not
modelled.

The hard behaviours, each at its line with the properties that watch it, are the
`hazards` of `PROJECT.json`.

## 2. The modules

### Cpmm, CpmmWalk, Lemmas, CpmmProofs: the market maker

`Cpmm` holds the arithmetic as pure operators. The service creates every pool with
`p = 1/2`, and its liquidity fee is zero, so the invariant `k` of the code is the
square root of the product of the two sides. Amounts are integers; a fraction of a unit is
rounded in the pool's favour.

The payout of a sale has no formula in the code: `calculate_cpmm_sale_amount` halves an
interval until `k` is within 0.0001 of its value before the sale, on either side of it
(`cpmm.py:256`). `Near` is that test, exactly, on the products whose roots are compared
(`Tolerance` is the 0.0001 in units, a constant); `SaleAmounts` is every payout the search may
answer with: one within the tolerance, or, where it runs into its upper end (`SaleCap`, 99% of the
smaller side) or no whole payout is within the tolerance, the last one that keeps the product.

`CpmmWalk` is one trader making any sequence of trades, without fees. The trades of
several traders are such a sequence, too: the pool does not know who trades. A sale is the search
itself, one step for each turn of the loop (`Sell`, `Halve`), and then the commit or the refusal
of its answer (`Pay`, `Refuse`). `Market` takes any of `SaleAmounts`, which `AnswersArePromised`
justifies.

`Lemmas` is what several of the proof modules share: sums over finite sets, and the arithmetic of one
trade.

### Market, MarketProofs: one market from creation to settlement

Modelled at the grain of commits. `todo` is the plan of the running request: the
commits it still has to make, computed when it starts from what it reads then. An
action that starts a request (`PlaceBet`, `SellShares`, `ResolveOpen`,
`CastCommitteeVote`, `Sweep`, `FixResolutions`, ...) carries the guards of the
handler; a commit action (`UpdateUserBalance`, `UpdateMarketPool`,
`ReducePosition`, ...) is one storage call. `RequestFails` drops the plan after any
commit; `ProcessRestarts` also forgets the requests that await the resolver.
`RequestResolution` and `ResolverAnswers` are the two halves of
`request_resolution`, around its `await`. Two loops of `payouts.py`, over the winners and over
the holders, are one plan entry each, `winners` and `clear`: `PayWinner` and `ClearPosition` commit
for one of the users that are left, in any order, and leave the others in the plan, because the
order of the rows is the database's.

| Variable | Code |
|---|---|
| `status`, `resolution`, `pool`, `volume`, `committee`, `window` | the `markets` row; `window` stands for `resolution_deadline` compared with now |
| `shares`, `invested` | `positions` |
| `bets` | sum of `bets.amount` |
| `balance` | `users.balance` |
| `ledger` | `transactions`, summed by user and type; `update_user_balance` writes it with the balance in one transaction, so one commit moves both |
| `votes` | `committee_votes` |
| `todo`, `asked` | the coroutine that runs, and those that await the resolver |
| `closed` | `closes_at` has passed |
| `burned`, `due`, `residual`, `outcomes` | history, for the properties only |

Left out: dry runs (no state), rejected requests, the profit and counter columns,
the creation cooldown, the rate limit of bets, events and cache invalidation.
A user's sandbox flag does not change any guard modelled here.

### Escrow, Bounty, BountyProofs: bounties

`Bounty` has several workers, because `update_bounty_status` compares and sets for
their sake; the deployed service has one. A worker's `req` is the next commit of its
handler with what the handler read before. `Begin*` actions are the checks of the
endpoints, `Debit`, `Insert`, `AddVote`, `Tally`, `Cas`, `Pay` their commits, `Fail`
an exception or a restart. Where the code ignores the result of the compare-and-set
(a late claim, and the settlement of a dispute) the request has `checked = FALSE`.

`Escrow` states what the endpoints are for: points locked once, and then released
to the claimant or refunded to the creator, in one step. `Bounty` refines it
(`ImplementsEscrow`): a creation counts from its debit, a settlement from its
compare-and-set, and a payment still to be made counts as made.

### Idempotency, Accounts, IdempotencyProofs, AccountsProofs: accounts behind the middleware

`Idempotency` is the middleware of `idempotency.py`, between the attempts of clients and
any handler. Its `dispatch` is cut at its two awaits: the handler, and the body of the
response. An attempt looks its key up and begins, is answered with a stored response,
or is refused; begun, it responds with some status or raises, and concludes. Markers time
out, responses expire, a lookup may clean up others, a restart forgets everything.
`excused` is a history variable: the keys for which an attempt ran longer than the
timeout of its marker, or whose store was lost. For these the code promises nothing.

`Accounts` composes it with the handlers that create and move accounts and points.
A client has orders and sends attempts for them, again and again if it likes; a reply
that carries an API key may get lost on the way. A handler is one step, but for
`claim_agent`, whose wait for the tweet is `ClaimFetches`, and the steps that end in
`Cut`, where a handler raises between its commits.

| Variable | Code |
|---|---|
| `store`, `now` | `IdempotencyStore._store`, `time.time()` in coarse ticks |
| `phase`, `key`, `began`, `ended`, `status`, `reply` | one `dispatch`; `by` in an entry stands for the body |
| `account`, `balance`, `secret`, `handle` | the `users` row; API keys are numbered, and the row has the last one |
| `ledger` | `transactions`, summed by user and type |
| `escrow` | sum of the bounties inserted |
| `waits`, `issued` | `claim_agent` at its await; the API key in a response |
| `order`, `token`, `got`, `known` | the clients, external |

### RateLimiter

`check` with its pruning and the cleanup at every hundredth call, for any number of keys,
each with its limit and window. A request is a stamp, its time and a serial number,
because two requests may come at one time. `allowed` is the history of all of them.

### Events, EventsProofs: the bus and the streams

Handlers publish without giving way, so what one of them publishes is one step: an event
(`Publish`), or the two of a bet (`PublishTwo`), where a queue may be full in between; handlers of
bounties and the signal handler create tasks instead (`tasks`, `Shutdown`). `Published` is what one
call of `publish` makes of the bus. A stream is cut at its awaits: `Loop` asks whether the client is still there,
`Take` and `Keepalive` are the two ends of the wait. Chat and bets go through the rate
limiter first. `log`, `since`, `received` and `told` are history.

### Caches, Resolver, Board, BoardProofs: what readers see

`Caches` and `Resolver` are the small modules: get, set, tag and invalidate; the verdict of a
round of agents and the report over all rounds. A list is cached under its filter alone, with
whatever limit and offset the first reader asked for, and its tag says neither. A row of a list has the
derived stage of a market under resolution (`Stage`), which moves with the deadline of the committee
(`WindowPasses`). `Board` puts them to work: the routes that
change what a list shows, each with the invalidations it makes and those it does
not, readers with `If-None-Match`, and `scripts/auto_resolve.py` as a process of its
own whose requests interleave with everything else. Money and trades are `Market`'s
business; here they change the `revision` of a row. `claims` is what the script prints and counts
as resolved: it does so after whatever `resolve_market_api` returns (`ScriptVotes`). Handlers are one step, but for
the wait for the agents, and `PlaceBetCut` and `ResolverAnswersCut`, which raise between
commits. `quiet` is the history of the markets changed since the last
invalidation, `unheard` of those whose bet the history cache has not been told of.

## 3. What TLC checks

| Run | Bounds | Properties | What it shows |
|---|---|---|---|
| `MCCpmmWalk` | pool of 100 units of half a point, bets of 1, 10 and 1000, a tolerance of 3, 6 trades | `CompleteSets`, `AnswersArePromised`, `GainIsBounded` | every sequence of tiny, small and huge trades, sales of all, half or a single unit, and every turn of their searches |
| `MCMarketTrading` | 3 traders; 2 trades of any kind, or 3 bets on YES; 1 question, 1 transition | `TypeOK`, `Conservation`, `SettledInFull`, `Solvent`, `CommitteeRepresents` | money through trades of both sides and every way to resolve; who is in a committee, with ties and with late formation |
| `MCMarketFailures` | 2 traders; 2 trades, or a trade and a question; 1 failure, 1 transition, 1 fix | `BooksAgree`, `PaidAtMostOnce`, `SettlementPaysFirst`, `CommitteeWindow`, `OnlyTheResolverRewrites`, `ClosedLeavesOpen` | a failure after any commit, or a restart, and the repair; votes, changes of votes and the deadline around it; the sweep eventually closes a market |
| `MCBountySingle` | 2 bounties, 5 users, 1 worker, 1 failure | `TypeOK`, `SettledOnce`, `SettlementMatches`, `ImplementsEscrow` | the deployed service, and that it refines the escrow |
| `MCBountyWorkers` | 1 bounty, 5 users, 2 workers, 1 failure | `SettledOnceIfChecked`, `VotedIsSettled`, `SettledIsPaid` | overlapping deployments |
| `MCAccounts` | 3 users, 3 attempts, an order of every kind, lifetime 1, timeout 0, 2 ticks, 1 mishap | `TypeOK`, `BooksAgree`, `KeyRecoverable`, `SingleFlight`, `AtMostOnce`, `NoOrphanMarker`, `ReplaysItsOwn`, `RetriesSpendOnce`, `DeletedIsFinal` | retries before, during and after an attempt, with a cut handler, a restart or an administrator in between |
| `MCEvents` | 2 streams, queues of 2, 3 events, 1 shutdown; windows of 1 and 2 | `LimitIsExact`, `NoGaps`, `ShutdownEnds`, `NoLeak` | full queues beside empty ones, late subscribers, clients that leave, limits over time |
| `MCBoard` | 2 markets, 2 filters, 2 page sizes, 2 offsets, 1 reader, 3 agents, 3 operations in all | `TypeOK`, `ListFresh`, `TagsTellFromOneOffset`, `HistoryComplete`, `ReportTruthful`, `ClaimsHaveGrounds` | caches against rows under every mix of three trades, reads, rounds, script runs and mishaps |

Why these bounds are enough to meet the interesting cases. In `MCCpmmWalk` the tolerance is large
beside the pool, so that single units are sold far above their value and sums of such gains occur
within six trades: walks that gain more than one tolerance are among them. Against the pool of 50
points the 0.0001 of the code is smaller; the theorems hold for any proportion. The runs of `Market`
have the smallest tolerance, one unit. Two traders and a
creator fill a committee exactly; the third trader of `MCMarketTrading` is the one
who is left out. Two trades allow a bet and its sale, or bets on both sides, so that
a settlement has winners and losers; the start balance is such that after the larger
bet the smaller one can be paid but not its fee. One failure anywhere already produces every prefix of one
request; a repair after it is a second request. Three arbiters are `VOTES_NEEDED`.
Traders, users, workers and bounties are symmetric, and the runs use it, except
`MCMarketFailures`, whose liveness property forbids it, and the short runs that end in a
violation. The state constraint of `MCMarketTrading` limits inputs: a third trade only
where all are bets on YES, which is all that committees look at. That of `MCMarketFailures`
lets a question to the resolver take the place of a trade; one trade is enough for a
settlement to repeat after a late answer.

Three attempts are an order, its retry, and a third that meets what the two left; or two
orders of which one is retried. The lifetime and the timeout are the smallest that
differ, so that markers time out before responses expire, and both happen. The
constraint of `MCAccounts` allows one mishap (a cut, an administrator or a restart) and lets
time pass between two attempts only. A queue of two is filled by one bet, which
publishes two events, and overflows in the middle of the next. `MCEvents` keeps the clock
still while there are streams, because they have nothing in common with it, and has the second
stream only listen. None of what its fairness forces is cut off by the constraint. In
`MCBoard` three operations of any kind suffice to change a row between two reads; the second
market is there to be listed, expire and be resolved beside the first, which alone is traded
and voted on, and a page that begins with the second market of a list is cached once there is
one. The histories, which share nothing with the lists but the bet that changes them, are read
where no list, script or resolver is at work. A reader that keeps no copy comes after one that
does; a run of the script that comes to nothing is left to such a reader; and the script finds
YES, as the two outcomes are alike. Three agents with a majority of two stand for nine with five.
Without its condition on the offsets `TagsTellFromOneOffset` is refuted within these bounds, and
so is `ClaimsHaveGrounds` without its second case.

`CHECK_DEADLOCK FALSE` everywhere: all trades, questions and failures are bounded, and
a resolved market, or a bounty settled, really has nothing left to do.

### Fairness

`Market!FairSpec` assumes weak fairness of `Commit`: the running handler goes on, which
is what the event loop does with a coroutine that does not await. It assumes strong
fairness of `Sweep`: requests may start again and again, so the sweep is not
continuously able to run, but the event loop serves ready tasks first come, first
served, and the timer of `_expired_market_sweep_loop` makes the sweep ready every 60
seconds; a round that raises is logged and the loop goes on. Traders, resolvers and
administrators are not assumed to do anything.

`Events!Fairness` is weak fairness of each stream's next step, since its wait has a timeout and
the event loop runs what is ready, and of the tasks that wait to publish. Clients,
handlers and signals are not assumed to act. `ShutdownEnds` speaks of the streams whose queue had
room for the sentinel.

### What is found

The type invariants of `CpmmWalk` and `Events` are theorems and in no run.

Properties that fail are written down as such, each a text of the repository against
its code, in a run that TLC must end with a violation:

| Run | Text | What the code does |
|---|---|---|
| `MCMarketFinal` | `models.py:77`: RESOLVED is final | a resolver answer after its await rewrites the outcome |
| `MCBountyRelease` | `docs/bounties-api.md:116`: atomically | a failure between status and payment leaves a completed bounty unpaid |
| `MCAccountsSpend` | `idempotency.py:4`: "Prevents double-spending from network retries" | a handler that raises after its debit is forgotten, and its retry debits again |
| `MCEventsDropped` | `event_bus.py:102`: "Slow consumer — drop them" | a dropped subscriber's stream lives on with keepalives and without events |

More follows from the same models. After a resolver answer rewrote the outcome, the
payouts run again and credit the creator with the one share of the terminal pool
(`routes/resolution.py:334`), so `payouts.py` is not idempotent across outcomes. And
after admin transition-markets a market is RESOLVING without a committee, which
`resolve_market` takes for an elapsed window, so its creator may resolve at once. The
properties say where they stop for these: `Conservation` and `SettledInFull` speak of
one outcome, `CommitteeWindow` of a committee that exists, `PaidAtMostOnce` and
`SettlementPaysFirst` of a market whose resolver was not asked.

What else the properties had to make room for, in the order of the modules. For the search of a
sale, the tags and the script, the property without its exception is what a text of the repository
says, and TLC refutes it on the instance of the run:

* The search for the payout of a sale takes the first midpoint within 0.0001 of k, on either side
  (`cpmm.py:256`), against "k = constant invariant that must be maintained" (`cpmm.py:14`) and "Must
  maintain" (`cpmm.py:214`): sales lower the product, and one much smaller than the tolerance is
  paid many times its value, as often as it is made. A walk can take out more than it put in.
  `GainIsBounded` says how much: one tolerance a sale, and no more over any number of trades.
* The payout of a sale is searched below 99% of the smaller side of the pool
  (`cpmm.py:238`), though the side that receives the shares grows by them first: a large holder is
  paid less than what "must maintain" k (`cpmm.py:214`) would give.
* `fix-resolutions` tells from the pool alone whether the residual was credited, and credits it twice
  after a failure between credit and terminal pool (`routes/admin.py:117` against `:207`); and it
  clears the positions of winners a failed settlement never paid (`:115` against `:222`).
  `SettlementPaysFirst` therefore speaks of markets without a repair.
* The docstring of `payouts.py:27` says that nothing but the payments is done when the winning side of the
  pool is empty already; the code leaves out the creator's credit only. Nothing is lost by it:
  `SettledInFull` holds.
* A response with a 4xx, a rate limit included, is stored for the whole lifetime of its key, 24 hours,
  and answered to every retry (`idempotency.py:257`).
* The scope of an idempotency key is the API key it is sent with, not the user (`idempotency.py:143`), against "keys are
  scoped per-user" (`idempotency.py:15`): an order that is sent again after its client changed the API key
  is carried out again. `RetriesSpendOnce` and `KeyRecoverable` speak of attempts with the same API key.
* Two claims that wait for their tweets at once both succeed, and the last handle stays
  (`routes/agents.py:510`). A registration that raises after `create_user` leaves an account
  whose API key nobody has, which `KeyRecoverable` excuses.
* `delete_user` says "Delete a user and all their data" (`storage/users.py:284`), but foreign keys
  (`migrations/009_transactions_ledger.sql:6`, `storage/base.py:321`) make it fail for who has ledger
  rows or bounties; that is the guard of `AdminDeleteUser`.
* A reset of a sandbox balance writes no ledger row, so `BooksAgree` leaves sandboxes out of its first
  line.
* A stream that subscribes after the sentinel was sent is not told of the shutdown; nor is one whose
  queue is full.
* The list cache has one entry per filter, whatever the page asked for (`routes/markets.py:114`), so
  readers, and the script, may get a page of another size or from another place. `ListFresh` compares
  with the page that was asked for when the entry was made.
* Initiating a committee, votes short of unanimity, refused votes and `request_resolution` do
  not invalidate the lists (`routes/resolution.py:85`, `:177`, `:168`, `:333`), against "Called on any market mutation"
  (`market_cache.py:106`). The lists stay stale for their lifetime at most, 5 seconds in the code; `ListFresh`
  says which markets (`quiet`). The stage of a listed market moves with the deadline of its committee
  (`routes/markets.py:70`), which no handler hears of: it is one of them, too.
* The tag of a list hashes the generation, the filter and the length (`market_cache.py:127`), against "ETag = md5
  of serialized response" (`market_cache.py:11`): two offsets share a tag, and a client that has one page is
  answered with 304 when another reader cached the other. After a silent change, or a restart,
  which sets the generation back, it may also be told that its old copy is good.
  `TagsTellFromOneOffset` is what is left: pages with one beginning, in a process without
  either. It speaks of the rows; the `pagination` of the answer repeats the limit that was asked for first.
* The report of the votes adds all rounds up (`routes/resolution.py:384`), so two undecided rounds can
  read as a resolution; `ReportTruthful` speaks of one round.
* `scripts/auto_resolve.py:485` prints "Resolved!" of a market, and `:515` counts it under "Auto-resolved", whatever
  `resolve_market_api` returned, also after a vote that leaves the market "Waiting for other
  committee members or deadline" (`:418`); the others may yet resolve it the other way.
  `ClaimsHaveGrounds` is what is left: the market has been given the outcome, or the vote of the script
  for it was counted. The script cannot claim what it had no part in, though its list may be old.

## 4. What is proved

`CpmmProofs`, for any liquidity, bet amounts, tolerance and number of trades, from the ASSUMEs of
`Cpmm` and `CpmmWalk`:

* `WalkTypeCorrect` and `SharesAreBacked` (`CompleteSets`). The inductive invariant `WalkInv` is the type
  invariant, `CompleteSets`, and the two parts below. That no side of the pool goes below zero rests
  on the cap of the search (`CapBelowSides`).
* `SearchFindsPromised` (`AnswersArePromised`), from `SearchInv`: the lower end of the interval keeps the product,
  and the upper end loses it or is beyond the cap. So when nothing is left between them, the lower end
  is the last payout that keeps it.
* `OneToleranceASale` (`GainIsBounded`), from `ProductInv`: after so many sales the product is at least the
  square of the liquidity less so many tolerances. A purchase keeps it (`PurchaseKeepsProduct`, which
  rests on rounding up, `DivUpCovers`); a sale costs its root one tolerance at most
  (`SaleLosesOneTolerance`), because `Near`, which has no roots, bounds the roots all the same
  (`NearLosesOneTolerance`). A walk that ends without shares has both sides of the pool equal to the
  liquidity plus what it spent, and a square that is no smaller has a root that is no smaller.

`Lemmas`. The books of `Market` and `Accounts` are sums over users, and a sum is a fold, a recursive
function. What a recursive function computes needs an induction, and the library's induction theorems take
the hypothesis as an operator, which the provers cannot instantiate. Each induction here is the choice of
a smallest counterexample from a set of subsets (`SmallestSubset`, from the theorem that the
strict subsets of a finite set are well-founded): there is a function that satisfies the equation of
the fold (`SumEquation`), and so a sum has the type of its terms (`SumType`), is one term and the
sum of the others whichever term is taken out (`SumTakesOut`), and changes with an update of its
function by what the update changes (`SumUpdate`). This is why `Market` and `Accounts` assume that
there are finitely many users.

`MarketProofs`, for any finite set of traders, any amounts, liquidity and start balance, and any number of
trades, questions, transitions, repairs and failures, from the ASSUMEs of `Market`:

* `MarketTypeCorrect` (`TypeOK`), `NobodyInDebt` (`Solvent`) and `WindowIsRespected` (`CommitteeWindow`). The
  inductive invariant `MarketInv` says what the plan of the running request can be (`Planned`: `Creating`,
  `Trading`, `Settling`, `Convening`, `Marking`, `Voting` or `Deciding`) and what each relies on from the
  time it was made: a debit is at the head of its plan only, and the balance still covers it; a
  resolution by the creator is planned outside a window only, and one by the committee has the
  votes of all; an answer of the resolver was asked for. `VotesAreOfMembers` is what makes the count
  of `check_committee_unanimity`, which compares the votes of all with the size of the committee, a
  count of the committee's.
* `OnlyAnswersRewrite` (`OnlyTheResolverRewrites`), from `MarketInv`: in a resolved market the plan is a
  settlement's, a repair's or that of a resolver's answer, and only the last writes the outcome; none touches
  volume, bets, investments, committee or votes. It is what remains of "RESOLVED is final", which
  `MCMarketFinal` refutes, whatever failed.
* `WinnersPaidAtMostOnce` (`PaidAtMostOnce`) and `WinnersPaidFirst` (`SettlementPaysFirst`), from `SettleInv`:
  everybody is paid nothing or what is due, those a running settlement still has to pay were not
  paid, and who is not paid still has the shares.
* `CommitteeIsRepresentative` (`CommitteeRepresents`), from `ChosenInv`: a committee remains one that
  `form_committee` could choose now, because a market with a committee trades no more; in between its two
  commits the market is OPEN, and the status is written next.
* `SettlementIsFull` (`SettledInFull`), from `FullInv`: a settlement nothing cut short is in one of five
  forms (`Paying`, `Recovering`, `Ending`, `Clearing`, and `Reconsidering` after a late answer), each of
  which says what is done by then; the only idle one is `Clearing` with nobody left.
* `BooksAreOneSided` (`BooksAgree`), from `BookInv`: while a market trades, the plan is either no part of
  a bet that touches these books, or that of a bet that has got to a certain commit (`Betting`), and then
  the book written last is ahead of the next one by at least the amount of the bet. A failure may
  stop it there; what it leaves is ahead in the same direction. This is the order of the commits of
  `place_bet`, and no other order of these four keeps it.
* `MoneyIsConserved` (`Conservation`), from `CashInv`, `FullInv` and `SettledInFull`. `Conservation`
  speaks of the time between requests; `CashInv` says what is on its way within them. For a bet
  (`BetOwes`) or a sale (`SaleOwes`) that is the amount that is `Missing` from either side after each
  commit: what was paid and is not in the pool yet, the fee of the creator, the shares that left the pool and
  have no holder yet. The sides differ in the middle of a trade, where the shares of one have moved on;
  that nothing is missing from either when it is over (`Whole`) is that a trade moves complete sets. After the resolution `Settles` adds what is still to be paid to what was paid, and
  `SettledInFull` says that in the end nothing is. It speaks of no number of trades, so
  rounding, fees and prices of any trades in any order never make or lose a unit.

`BountyProofs`, for any finite set of users and any bounties, amounts, votes needed
and number of failures, from the ASSUMEs of `Bounty`:

* `TypeCorrect`: `Spec => []TypeOK`, for any number of workers. The inductive invariant
  `TypeInv` adds that the parties of a bounty are known once its status implies them
  (`PartiesKnown`), and that every pending commit has the fields it uses (`Fits`):
  without them a payment could go to nobody.
* `PaidOutOnce` and `PaidToTheRightParty`: `SettledOnce` and `SettlementMatches` with one
  worker (`SingleProcess`). `OnceInv` adds that what the only pending request has read is
  still so (`Steady`): a compare-and-set will succeed, and a payment is still due. This
  is the whole reason the ignored results of the compare-and-set do no harm today.
* `CheckedPaidOutOnce`: `SettledOnceIfChecked` for any number of workers. `CheckedInv` says
  that, unless a bounty expired or has all its votes, all its pending
  compare-and-sets are checked, at most one worker is about to pay, and only after a
  final status; new ids are new (`NewIds`).
* `BountyImplementsEscrow` (`ImplementsEscrow`): with one worker, every step but a failure is a step of
  the escrow or leaves it alone. `EscrowInv` adds to `OnceInv` that a bounty has no parties before its
  status says so, that the debit of the creator is still covered and that a claim is of an open
  bounty and by somebody else (`Ready`). The escrow sees the one request that runs (`OneView`).
* `LastVoteSettles` (`VotedIsSettled`), for any number of workers. `VotedInv` adds to `CheckedInv` that
  votes come to disputed bounties only (`NoEarlyVotes`), so that a bounty is not disputed with all
  its votes at once; that a dispute with its votes has a worker that counts or settles
  (`SomeoneSettles`), which whoever adds the last vote becomes; and that its move ends the dispute
  (`InOrder`).
* `SettlementIsPaid` (`SettledIsPaid`), for any number of workers, from `VotedInv`: only the
  compare-and-set of a request with a payee reaches a final status (`Fits`), its worker pays next and is the
  only one that moves its request on (`PayerPays`). It is what remains of "atomically", which
  `MCBountyRelease` refutes, when nothing is cut short.

`EventsProofs`, for any callers, limits and windows no longer than what the cleanup keeps, and any streams,
markets, queue capacities, number of events and of shutdowns:

* `LimiterIsExact` (`LimitIsExact`), from `LimitIsKept` (`WindowBound`) and `RefusalsAreDue` (`RefusedOnlyWhenFull`),
  and `LimiterTypeCorrect`, of the rate limiter.
  `WindowBound` speaks of every request ever allowed, the limiter only sees the stamps it kept; the
  invariant `LimiterInv` links them by `YoungAreKept`: a stamp young enough to be in a window that
  ends now has not been forgotten, by the pruning or by the cleanup.
* `EventsImplementLimiter`: `Spec => LimiterSpec`. No step of the event system touches the limiter but
  by its own operations, so these theorems hold of the composed system.
* `EventsTypeCorrect` (`TypeOK`) and `StreamsHaveNoGaps` (`NoGaps`), from `EventInv`: rows of their types, the
  place of an event in the log is its id (`LogGrows`), queues fit (`QueuesFit`), and of each
  stream, `Complete`: what it was sent followed by what it has in its queue has no gaps, and only who
  is no subscriber misses anything. `FitsLog` says the same of a bus in the middle of
  a step, so that one lemma about `Published` covers one event and two. The sentinel is in these sequences
  too, and takes no place among the ids.

`IdempotencyProofs`, for any attempts, keys, lifetimes and timeouts:

* `IdempotencyIsKept`: `SingleFlight`, `AtMostOnce`, `NoOrphanMarker`, `ReplaysItsOwn`. The invariant
  `IdemInv` says that whoever is inside the handler holds the marker of its key, which has not timed out
  (`FlightsAreMarked`), and that every marker is held (`MarkersAreHeld`); that a stored response is
  that of an attempt with that key (`ResponsesAreTrue`), and stays until it expires (`StoredUntilExpiry`);
  and that who is inside began after the responses before it had expired (`BeganAfterExpiry`), which is
  what `AtMostOnce` needs one step early.
* `ConflictsAreReal` (`NoOrphanMarker`) and `ReplaysAreTrueAnswers` (`ReplaysItsOwn`), from the same invariant:
  the two that say what a client may conclude from an answer.

`AccountsProofs`, for any users, orders and amounts, from `AccountsAssumption`:

* `AccountsImplementIdempotency`: `Spec => IdemSpec`. Every step of the composed system is a step of the
  middleware or leaves it alone, so its guarantees carry over (`AccountsRunAtMostOnce`).
* `AccountsTypeCorrect` (`TypeOK`) and `DeletedAccountsStay` (`DeletedIsFinal`). `AccInv` adds to `IdemInv` that an
  attempt's key is that of its order (`LettersMatch`), and that API keys in letters were issued to
  their user (`KeysWereIssued`): without it a delivered reply could teach a client a key that does not exist.
* `AccountBooksAgree` (`BooksAgree`), for a finite set of users. `BookInv` says of every row that it adds up by itself
  (`RowsAddUp`), an account that does not exist having an empty one, and of the columns that they add up over
  all accounts (`TotalsAgree`). A transfer is two updates of two rows, and each of the two sums needs
  the lemmas of `Lemmas` once.
* `KeysAreRecoverable` (`KeyRecoverable`). `KeyInv` says that every valid API key that its user does not know is in some
  response (`SecretsAreIssued`), that such a response is one that is stored (`IssuedIsStored`), and that it is
  stored under the key that the same order would be sent with again (`KeysAreScoped`). With `StoredUntilExpiry` of
  `IdemInv` it is there until it expires.
* `OrdersArePaidOnce` (`RetriesSpendOnce`): what remains true of the text that `MCAccountsSpend` refutes. `SpendInv` says
  that an attempt that took points answers so unless something broke off (`SpentIsStored`), and that a keyed
  order never passes the middleware by (`OrdersAreKeyed`); the rest is the store's (`BeganAfterExpiry`).

`BoardProofs`, for any finite set of markets, any committee, clients, offsets, page sizes with a largest
one, agents, lifetimes and restarts, from the ASSUMEs of `Board`, `Caches` and `Resolver`:

* `ListsAreFresh` (`ListFresh`), `HistoriesAreComplete` (`HistoryComplete`), `ReportsAreTruthful`
  (`ReportTruthful`), `ScriptClaimsGrounded` (`ClaimsHaveGrounds`) and `BoardTypeCorrect` (`TypeOK`), all from `BoardInv`.
  Its parts say of every entry, expired or not, what the properties say of those that hit; and of a
  script that votes that it has an outcome to vote for (`ScriptTyped`). Reports rest on
  `ReportIsVerdict`: what is reported of one round is its verdict, as both ask for the same majority,
  and no round has two. The claims of the script rest on votes and committees that stay (`VotesStay`), as
  committees are formed when a market is closed or after and not again (`RowsAgree`).
* `TagsTellTruthFromOneOffset` (`TagsTellFromOneOffset`), from `BoardInv` and `TagsTold`: a client's copy was a page
  when its generation was current, so that a copy and an entry of one generation are pages of the same
  rows, maybe of different sizes and from different places. Of two with one beginning, one is a part
  of the other, so that those of one length are equal (`PagesAlike`). This is where the proof needs the
  offset, and where the tag does not have it.

Each invariant is proved in the same shape: initial states, one lemma for each kind of step, and
`PTL` to close.

Every invariant of the runs that pass, and every action property but the liveness ones, is
a theorem. Only model-checked are `ClosedLeavesOpen`, `ShutdownEnds` and `NoLeak`: they rest on fairness, and the
prover handles neither fairness nor `ENABLED`. The properties of the runs that end in a violation are
false, and have no theorem.

## 5. What is not modelled, and what is left

* The connection pool of `storage/base.py`. Handlers and dependencies are coroutines and storage calls
  do not wait, so one thread uses it and two connections at most are out at a time. That a call may
  raise is in every model.
* The versioned updates of `storage/markets.py`, which no route calls.
* The cooldown between the creations of one user's markets; dry runs; profiles and avatars.
* Reputation, leaderboard, listings of users, positions and bounties: they read and aggregate.
* Monitoring, logging, errors, middleware for headers, the SDK, the migrations.
* What the agents, the oracles of the script and Twitter answer: any answer, or none.
* Floating-point error below a unit, SQL itself, HTTP and JSON.

Left to do: properties of what a failure may leave of a sale, where the order of the commits of
`sell_shares` favours the seller and nothing in the repository says what should hold.
