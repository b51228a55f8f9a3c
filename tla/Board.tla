------------------------------- MODULE Board -------------------------------
(***************************************************************************)
(* What readers see of the markets: the listing and the histories with     *)
(* their caches (routes/markets.py, routes/trading.py), the routes that    *)
(* change what they show, the resolver with its reports                    *)
(* (routes/resolution.py) and scripts/auto_resolve.py, which finds the     *)
(* expired markets in the listing and resolves them through the API.       *)
(*                                                                         *)
(* A handler runs to its end in one step, but for request_resolution,      *)
(* which waits for the agents.  The script is a process of its own: every  *)
(* request it makes is a step.  How trades and payouts move money is       *)
(* module Market's business; here they change the revision of a row, which *)
(* stands for its probability, volume and last trade.                      *)
(*                                                                         *)
(* Markets are numbered in the order of their creation.  INVALID votes,    *)
(* and sparklines, which are never cached, are left out.                   *)
(***************************************************************************)
EXTENDS Caches, Resolver

CONSTANTS
  Members,      \* the committee of a market with traders
  Creator,      \* the creator, one of them
  ScriptUser,   \* whose API key the script uses
  Clients,      \* readers that send If-None-Match
  Limits,       \* page sizes asked for; the script asks for the largest
  Offsets,      \* where pages begin; the script reads from the first market
  MaxTrades, MaxRounds, MaxReads, MaxCuts, MaxRuns, MaxTransitions,
  MaxRestarts   \* bounds

Outcome  == {"YES", "NO"}
Statuses == {"NONE", "OPEN", "RESOLVING", "RESOLVED"}

ASSUME BoardAssumption ==
  /\ None \notin Outcome
  /\ Creator \in Members
  /\ IsFiniteSet(Markets) /\ Markets = 1..Cardinality(Markets)
  /\ Filters \subseteq {"ACTIVE", "ALL", "RESOLVED", "RESOLVING"}
  /\ {"ACTIVE", "ALL"} \subseteq Filters
  /\ Limits \subseteq Nat \ {0} /\ \E n \in Limits : \A k \in Limits : k <= n
  /\ Offsets \subseteq Nat /\ 0 \in Offsets

VARIABLES
  \* rows: of markets, and the bets and votes that go with them
  status, resolution, revision, closed, committee, window, bets, ballots, saved,
  asked,    \* requests awaiting the resolver
  copy,     \* the page each client has, with its tag
  script,   \* the script: what it does, markets left, the market at hand
  claims,   \* history: what the script said is resolved, and how
  outcomes, \* history: the outcomes written for each market
  rounds,   \* history: how often the agents' votes were saved
  quiet,    \* history: markets changed since the cache was last invalidated
  unheard,  \* history: bets placed but not made known to the history cache
  halted,   \* history: markets whose handler ended after it saved the votes
  used      \* bounds only

rows      == <<status, resolution, revision, committee, window, bets, ballots,
               outcomes>>
resolving == <<saved, asked, rounds, halted>>
scripts   == <<script, claims>>
vars == <<cacheVars, rows, closed, resolving, copy, scripts, quiet, unheard, used>>

NoScript == [pc |-> "idle", todo |-> {}, outcome |-> None]

Init ==
  /\ CachesInit
  /\ status     = [m \in Markets |-> "NONE"]
  /\ resolution = [m \in Markets |-> None]
  /\ revision   = [m \in Markets |-> 0]
  /\ closed     = [m \in Markets |-> FALSE]
  /\ committee  = [m \in Markets |-> {}]
  /\ window     = [m \in Markets |-> "unset"]
  /\ bets       = [m \in Markets |-> 0]
  /\ ballots    = [m \in Markets |-> [u \in Members |-> None]]
  /\ saved      = [m \in Markets |-> [yes |-> 0, no |-> 0]]
  /\ asked      = [m \in Markets |-> 0]
  /\ copy = [c \in Clients |-> None]
  /\ script = NoScript /\ claims = {}
  /\ outcomes = [m \in Markets |-> {}]
  /\ rounds   = [m \in Markets |-> 0]
  /\ quiet = {} /\ unheard = {} /\ halted = {}
  /\ used = [trades |-> 0, rounds |-> 0, reads |-> 0, cuts |-> 0, runs |-> 0,
             transitions |-> 0, restarts |-> 0]

Use(what, bound) == used[what] < bound /\ used' = [used EXCEPT ![what] = @ + 1]

\* The cache of lists is invalidated, or m changes without that.
Invalidates == Invalidated /\ quiet' = {} /\ UNCHANGED <<clock, histories>>
Quietly(m)  == quiet' = quiet \cup {m} /\ UNCHANGED cacheVars

-----------------------------------------------------------------------------
(* Creating and trading.                                                   *)

CreateMarket(m) ==
  /\ status[m] = "NONE" /\ \A k \in 1..(m - 1) : status[k] # "NONE"
  /\ status' = [status EXCEPT ![m] = "OPEN"]
  /\ Invalidates
  /\ UNCHANGED <<resolution, revision, committee, window, bets, ballots,
                 outcomes, closed, resolving, copy, scripts, unheard, used>>

Trades(m, newBets) ==
  /\ status[m] = "OPEN"
  /\ revision' = [revision EXCEPT ![m] = @ + 1]
  /\ bets' = [bets EXCEPT ![m] = @ + newBets]
  /\ Use("trades", MaxTrades)
  /\ UNCHANGED <<status, resolution, committee, window, ballots, outcomes,
                 closed, resolving, copy, scripts>>

\* place_bet: pool and position, the list cache, the bet, the history cache.
PlaceBet(m) ==
  /\ Trades(m, 1)
  /\ Invalidated /\ quiet' = {}
  /\ Forgotten(m) /\ unheard' = unheard \ {m}
  /\ UNCHANGED clock

\* It raises once the pool is committed, or once the bet is.
PlaceBetCut(m) ==
  /\ status[m] = "OPEN"
  /\ revision' = [revision EXCEPT ![m] = @ + 1]
  /\ Use("cuts", MaxCuts)
  /\ \/ Quietly(m) /\ UNCHANGED <<bets, unheard>>
     \/ /\ bets' = [bets EXCEPT ![m] = @ + 1]
        /\ unheard' = unheard \cup {m}
        /\ Invalidates
  /\ UNCHANGED <<status, resolution, committee, window, ballots, outcomes,
                 closed, resolving, copy, scripts>>

\* Bug form: the list is not invalidated.
BugSellShares(m) ==
  /\ bets[m] > 0
  /\ Trades(m, 0)
  /\ UNCHANGED <<cacheVars, quiet, unheard>>

SellShares(m) ==
  /\ bets[m] > 0
  /\ Trades(m, 0)
  /\ Invalidates
  /\ UNCHANGED unheard

-----------------------------------------------------------------------------
(* Resolution.                                                             *)

\* Bug form: the deadline is not set.
BugForms(m) ==
  /\ committee' = [committee EXCEPT ![m] =
                     IF bets[m] > 0 THEN Members ELSE {Creator}]
  /\ UNCHANGED window

\* form_committee; its members need not have voted.
Forms(m) ==
  /\ committee' = [committee EXCEPT ![m] =
                     IF bets[m] > 0 THEN Members ELSE {Creator}]
  /\ window' = [window EXCEPT ![m] = "ahead"]

WindowActive(m) == committee[m] = Members /\ Members # {Creator} /\ window[m] = "ahead"

Settles(m, o) ==
  /\ status'     = [status EXCEPT ![m] = "RESOLVED"]
  /\ resolution' = [resolution EXCEPT ![m] = o]
  /\ revision'   = [revision EXCEPT ![m] = @ + 1]
  /\ outcomes'   = [outcomes EXCEPT ![m] = @ \cup {o}]

Resolution == UNCHANGED <<bets, closed, resolving, copy, unheard, used>>

\* resolve_market: a market with traders gets its committee, and a 403.
Initiates(m) ==
  /\ status[m] = "OPEN" /\ bets[m] > 0 /\ Members # {Creator}
  /\ Forms(m)
  /\ status' = [status EXCEPT ![m] = "RESOLVING"]
  /\ Quietly(m)
  /\ UNCHANGED <<resolution, revision, ballots, outcomes>>
  /\ Resolution

\* resolve_market: the creator is alone, or the window is over.
ResolvesNow(m, o) ==
  /\ \/ status[m] = "OPEN" /\ (bets[m] = 0 \/ Members = {Creator}) /\ Forms(m)
     \/ status[m] = "RESOLVING" /\ ~WindowActive(m)
        /\ UNCHANGED <<committee, window>>
  /\ Settles(m, o)
  /\ Invalidates
  /\ UNCHANGED ballots
  /\ Resolution

Unanimous(vs, members, o) == \A u \in members : vs[u] = o

\* cast_committee_vote; who is in the committee that may have to be formed.
Committee(m) ==
  IF committee[m] # {} THEN committee[m]
  ELSE IF bets[m] > 0 THEN Members ELSE {Creator}

Convenes(m) ==
  IF committee[m] = {} THEN Forms(m) ELSE UNCHANGED <<committee, window>>

WithVote(m, u, o) == [ballots EXCEPT ![m][u] = o]

\* The vote that makes it unanimous resolves the market.
LastVote(m, u, o) ==
  /\ status[m] = "RESOLVING" /\ u \in Committee(m)
  /\ ballots' = WithVote(m, u, o)
  /\ Unanimous(ballots'[m], Committee(m), o)
  /\ Convenes(m)
  /\ Settles(m, o)
  /\ Invalidates
  /\ Resolution

\* Any other vote, which changes the votes_cast of the list.
Vote(m, u, o) ==
  /\ status[m] = "RESOLVING" /\ u \in Committee(m)
  /\ ballots' = WithVote(m, u, o)
  /\ ~Unanimous(ballots'[m], Committee(m), o)
  /\ Convenes(m)
  /\ Quietly(m)
  /\ UNCHANGED <<status, resolution, revision, outcomes>>
  /\ Resolution

\* A 403 for who is not a member, but the committee is formed.
NonMemberVote(m) ==
  /\ status[m] = "RESOLVING"
  /\ Convenes(m)
  /\ Quietly(m)
  /\ UNCHANGED <<status, resolution, revision, ballots, outcomes>>
  /\ Resolution

RequestResolution(m) ==
  /\ status[m] \in {"OPEN", "RESOLVING"}
  /\ Use("rounds", MaxRounds)
  /\ asked' = [asked EXCEPT ![m] = @ + 1]
  /\ UNCHANGED <<cacheVars, rows, closed, saved, rounds, halted, copy, scripts,
                 quiet, unheard>>

SavesRound(m, round) ==
  /\ asked[m] > 0
  /\ asked'  = [asked EXCEPT ![m] = @ - 1]
  /\ saved'  = [saved EXCEPT ![m] = Saved(@, round)]
  /\ rounds' = [rounds EXCEPT ![m] = @ + 1]
  /\ UNCHANGED <<bets, committee, window, ballots, closed, copy, scripts, unheard>>

\* The agents have answered: the votes are saved and, if they decide, the
\* market is resolved, whatever its status is by now.
ResolverAnswers(m, round) ==
  /\ SavesRound(m, round)
  /\ IF Verdict(round) \in Outcome
     THEN Settles(m, Verdict(round)) /\ Quietly(m)
     ELSE UNCHANGED <<status, resolution, revision, outcomes, cacheVars, quiet>>
  /\ UNCHANGED <<halted, used>>

\* It raises after the votes were saved.
ResolverAnswersCut(m, round) ==
  /\ SavesRound(m, round)
  /\ Use("cuts", MaxCuts)
  /\ halted' = halted \cup {m}
  /\ UNCHANGED <<status, resolution, revision, outcomes, cacheVars, quiet>>

\* The sweep and admin transition-markets; only the former forms committees.
Expired == {m \in Markets : status[m] = "OPEN" /\ closed[m]}

ToResolving ==
  /\ status' = [m \in Markets |-> IF m \in Expired THEN "RESOLVING" ELSE status[m]]
  /\ Invalidates
  /\ UNCHANGED <<resolution, revision, ballots, outcomes, bets, closed,
                 resolving, copy, scripts, unheard>>

Sweep ==
  /\ Expired # {}
  /\ ToResolving
  /\ UNCHANGED used
  /\ committee' = [m \in Markets |->
       IF m \notin Expired THEN committee[m]
       ELSE IF bets[m] > 0 THEN Members ELSE {Creator}]
  /\ window' = [m \in Markets |-> IF m \in Expired THEN "ahead" ELSE window[m]]

AdminTransition ==
  /\ ToResolving
  /\ Use("transitions", MaxTransitions)
  /\ UNCHANGED <<committee, window>>

-----------------------------------------------------------------------------
(* Reading.                                                                *)

VotesCast(m) == Cardinality({u \in Members : ballots[m][u] # None})

\* _compute_resolution_stage
Stage(m) ==
  CASE status[m] # "RESOLVING" -> None
    [] status[m] = "RESOLVING" /\ Cardinality(committee[m]) <= 1 -> "CREATOR_PENDING"
    [] status[m] = "RESOLVING" /\ Cardinality(committee[m]) > 1 ->
         IF window[m] = "ahead" /\ VotesCast(m) < Cardinality(committee[m])
           THEN "COMMITTEE_VOTING" ELSE "COMMITTEE_COMPLETE"

\* What a list shows of m.  Once the deadline is over the stage is another one,
\* without any request.
Row(m) ==
  [status |-> status[m], revision |-> revision[m], stage |-> Stage(m),
   committee |-> IF status[m] = "RESOLVING" THEN committee[m] ELSE {},
   votes_cast |-> IF status[m] = "RESOLVING" /\ Cardinality(committee[m]) > 1
                  THEN VotesCast(m) ELSE 0]

Passes(f, m) ==
  CASE f = "ALL" -> status[m] # "NONE"
    [] f = "ACTIVE" -> status[m] = "OPEN"
    [] OTHER -> status[m] = f

\* How many of the list come before m: it is listed newest first.
Place(f, m) == Cardinality({k \in Markets : k > m /\ Passes(f, k)})

\* markets[offset : offset + limit]
Page(f, limit, offset) ==
  [m \in {k \in Markets : Passes(f, k) /\ Place(f, k) >= offset
                                       /\ Place(f, k) < offset + limit} |-> Row(m)]

\* The answer of list_markets, from the cache if f is there, whatever the
\* limit and the offset were then.
Answer(f, limit, offset) ==
  IF ListHit(f) THEN lists[f]
  ELSE ListEntry(f, Page(f, limit, offset), limit, offset)

Lists(f, limit, offset) ==
  /\ lists' = [lists EXCEPT ![f] = Answer(f, limit, offset)]
  /\ UNCHANGED <<clock, generation, histories, rows, closed, resolving, quiet,
                 unheard>>

\* A 304 leaves the client with the page it has.  Which page it asked for is
\* known by whoever cached it.
ReadList(c, f, limit, offset) ==
  /\ Lists(f, limit, offset)
  /\ copy' = [copy EXCEPT ![c] =
       IF ListHit(f) /\ copy[c] # None /\ copy[c].tag = lists[f].tag THEN @
       ELSE LET page == Answer(f, limit, offset) IN
            [tag |-> page.tag, rows |-> page.rows, offset |-> page.offset]]
  /\ Use("reads", MaxReads)
  /\ UNCHANGED scripts

\* A reader that has nothing, and sends no If-None-Match.
ReadListAnew(f, limit, offset) ==
  /\ Lists(f, limit, offset)
  /\ Use("reads", MaxReads)
  /\ UNCHANGED <<copy, scripts>>

\* get_market_history and the first page of get_market_bets
ReadHistory(e, m) ==
  /\ status[m] # "NONE" /\ ~HistoryHit(e, m)
  /\ histories' = [histories EXCEPT ![e][m] = HistoryEntry(bets[m])]
  /\ Use("reads", MaxReads)
  /\ UNCHANGED <<clock, lists, generation, rows, closed, resolving, copy,
                 scripts, quiet, unheard>>

-----------------------------------------------------------------------------
(* The script.                                                             *)

Largest == CHOOSE n \in Limits : \A k \in Limits : k <= n

\* get_expired_open_markets
ScriptReads ==
  /\ script.pc = "idle"
  /\ Use("runs", MaxRuns)
  /\ Lists("ACTIVE", Largest, 0)
  /\ LET found == {m \in DOMAIN Answer("ACTIVE", Largest, 0).rows : closed[m]} IN
     script' = IF found = {} THEN NoScript
               ELSE [NoScript EXCEPT !.pc = "resolving", !.todo = found]
  /\ UNCHANGED <<copy, claims>>

\* It goes through them as listed, newest first.
Newest(m) == m \in script.todo /\ \A k \in script.todo : k <= m

Onward(m) ==
  script' = IF script.todo \subseteq {m} THEN NoScript
            ELSE [NoScript EXCEPT !.pc = "resolving", !.todo = script.todo \ {m}]

\* No outcome could be found, or a request failed.
ScriptSkips(m) ==
  /\ script.pc # "idle"
  /\ Newest(m) /\ Onward(m)
  /\ UNCHANGED <<cacheVars, rows, closed, resolving, copy, claims, quiet,
                 unheard, used>>

\* resolve_market_api asks for a resolution, with the admin secret; a 403 for
\* the window of the committee makes it vote.
ScriptResolves(m, o) ==
  /\ script.pc = "resolving" /\ Newest(m)
  /\ \/ ResolvesNow(m, o) /\ Onward(m) /\ claims' = claims \cup {<<m, o>>}
     \/ /\ \/ Initiates(m)
           \/ /\ status[m] = "RESOLVING" /\ WindowActive(m)
              /\ UNCHANGED <<cacheVars, rows, quiet>> /\ Resolution
        /\ script' = [script EXCEPT !.pc = "voting", !.outcome = o]
        /\ UNCHANGED claims

\* Bug form: what the API answers to the vote is not looked at.
BugScriptVotes(m) ==
  LET o == script.outcome IN
  /\ script.pc = "voting" /\ Newest(m)
  /\ \/ /\ ScriptUser \in Members
        /\ LastVote(m, ScriptUser, o) \/ Vote(m, ScriptUser, o)
     \/ status[m] = "RESOLVED" /\ UNCHANGED <<cacheVars, rows, quiet>> /\ Resolution
  /\ claims' = claims \cup {<<m, o>>}
  /\ Onward(m)

\* resolve_market_api after the 403, and main: a vote that was counted ends it
\* without an exception, and main says of whatever returns that it is resolved.
\* A refused vote raises; one for a market no longer RESOLVING changes nothing
\* and is a ScriptSkips.
ScriptVotes(m) ==
  LET o == script.outcome IN
  /\ script.pc = "voting" /\ Newest(m)
  /\ \/ /\ ScriptUser \in Members
        /\ LastVote(m, ScriptUser, o) \/ Vote(m, ScriptUser, o)
        /\ claims' = claims \cup {<<m, o>>}
     \/ /\ ScriptUser \notin Committee(m)
        /\ NonMemberVote(m) /\ UNCHANGED claims
  /\ Onward(m)

-----------------------------------------------------------------------------
(* Time and restarts.                                                      *)

TimePasses ==
  /\ Tick
  /\ UNCHANGED <<lists, generation, histories, rows, closed, resolving, copy,
                 scripts, quiet, unheard, used>>

Closes(m) ==
  /\ status[m] # "NONE" /\ ~closed[m]
  /\ closed' = [closed EXCEPT ![m] = TRUE]
  /\ UNCHANGED <<cacheVars, rows, resolving, copy, scripts, quiet, unheard, used>>

\* The deadline of the committee; nothing tells the cache.
WindowPasses(m) ==
  /\ window[m] = "ahead"
  /\ window' = [window EXCEPT ![m] = "passed"]
  /\ quiet' = IF status[m] = "RESOLVING" THEN quiet \cup {m} ELSE quiet
  /\ UNCHANGED <<cacheVars, status, resolution, revision, committee, bets,
                 ballots, outcomes, closed, resolving, copy, scripts, unheard,
                 used>>

\* The caches, and the requests that wait, are gone.
Restart ==
  /\ Use("restarts", MaxRestarts)
  /\ CachesRestart
  /\ asked' = [m \in Markets |-> 0]
  /\ quiet' = {} /\ unheard' = {}
  /\ UNCHANGED <<clock, rows, closed, saved, rounds, halted, copy, scripts>>

Requests(m) ==
  \/ CreateMarket(m) \/ PlaceBet(m) \/ PlaceBetCut(m) \/ SellShares(m)
  \/ RequestResolution(m)
  \/ \E round \in Rounds : ResolverAnswers(m, round) \/ ResolverAnswersCut(m, round)
  \/ /\ \/ Initiates(m) \/ NonMemberVote(m)
        \/ \E o \in Outcome :
             \/ ResolvesNow(m, o)
             \/ \E u \in Members : LastVote(m, u, o) \/ Vote(m, u, o)
     /\ UNCHANGED scripts

Next ==
  \/ \E m \in Markets : Requests(m) \/ Closes(m) \/ WindowPasses(m)
  \/ Sweep \/ AdminTransition
  \/ \E f \in Filters, limit \in Limits, offset \in Offsets :
       \/ \E c \in Clients : ReadList(c, f, limit, offset)
       \/ ReadListAnew(f, limit, offset)
  \/ \E e \in Endpoints, m \in Markets : ReadHistory(e, m)
  \/ ScriptReads
  \/ \E m \in Markets :
       \/ ScriptSkips(m) \/ ScriptVotes(m)
       \/ \E o \in Outcome : ScriptResolves(m, o)
  \/ TimePasses \/ Restart

Spec == Init /\ [][Next]_vars

-----------------------------------------------------------------------------
(* Correctness.                                                            *)

TypeOK ==
  /\ clock \in 0..MaxTime /\ generation \in Nat
  /\ status \in [Markets -> Statuses]
  /\ \A m \in Markets :
       /\ resolution[m] \in outcomes[m] \cup {None}
       /\ resolution[m] # None <=> status[m] = "RESOLVED"
       /\ committee[m] \in {{}, {Creator}, Members}
       /\ window[m] = "unset" <=> committee[m] = {}
  /\ script.todo \subseteq Markets /\ script.pc \in {"idle", "resolving", "voting"}
  /\ quiet \subseteq Markets /\ unheard \subseteq Markets

\* A cached list is what the rows say now.  Only a market changed by one of the
\* routes that do not invalidate the cache, by its deadline, or by a handler that
\* raised, may be shown as it was.
ListFresh ==
  \A f \in Filters : ListHit(f) =>
    /\ quiet = {} => lists[f].rows = Page(f, lists[f].limit, lists[f].offset)
    /\ \A m \in DOMAIN lists[f].rows \ quiet : lists[f].rows[m] = Row(m)

\* A client whose tag is that of the cache is told that its page is still good.
Told304(c, f) == copy[c] # None /\ ListHit(f) /\ copy[c].tag = lists[f].tag

\* Every market change of this life of the process invalidated the cache.
NothingMissed == quiet = {} /\ used.restarts = 0

\* market_cache.py:11 calls the tag the md5 of the serialized response: who is
\* answered with 304 has what the cache would have sent.  In the code that is so
\* of pages with one beginning only, within the life of the process: the
\* generation in the tag says what the length cannot, and for two pages with
\* one beginning and of one length the page size makes no difference.
TagsTellFromOneOffset ==
  \A c \in Clients, f \in Filters :
    Told304(c, f) /\ NothingMissed /\ copy[c].offset = lists[f].offset
      => copy[c].rows = lists[f].rows

\* Every answer about the bets of a market has them all, although place_bet
\* forgets the old answer last.
HistoryComplete ==
  \A e \in Endpoints, m \in Markets \ unheard :
    HistoryHit(e, m) => histories[e][m].data = bets[m]

\* The report of the votes is what became of the market: it says resolved of
\* a market that is not only if votes of several rounds add up to a majority
\* no round had, or if the handler ended between the votes and the outcome.
ReportTruthful ==
  \A m \in Markets :
    Reported(saved[m]) \in Outcome /\ rounds[m] = 1 /\ m \notin halted =>
      Reported(saved[m]) \in outcomes[m]

\* auto_resolve.py:485 prints "Resolved!" of a market, and its summary counts it
\* as resolved.  What is true of those markets, though the script works from a
\* list that may be old and others resolve in between: they were given the
\* outcome of the script, or its vote for it was counted, as that of a member.
ClaimsHaveGrounds ==
  \A c \in claims :
    \/ c[2] \in outcomes[c[1]]
    \/ ScriptUser \in committee[c[1]] /\ ballots[c[1]][ScriptUser] # None
=============================================================================
