---------------------------- MODULE BoardProofs ----------------------------
(***************************************************************************)
(* What readers, reports and the script tell is true of the rows, for any  *)
(* number of markets, members, agents and requests.                        *)
(*                                                                         *)
(* BoardInv has a part for each of those who tell: the cached lists, the   *)
(* cached histories, the reports of the agents' votes, and the script.  A  *)
(* step disturbs a part in a few ways only, and these are what the steps   *)
(* are sorted by: ListsEffect, HistoriesEffect and ReportsEffect below.    *)
(* The tags, at the end, rest on BoardInv and a part of their own.         *)
(***************************************************************************)
EXTENDS Board, FiniteSetTheorems, TLAPS

Windows == {"unset", "ahead", "passed"}

\* Types, with those of the fields that readers never see.
RowsTyped ==
  /\ clock \in 0..MaxTime /\ generation \in Nat
  /\ status \in [Markets -> Statuses]
  /\ resolution \in [Markets -> Outcome \cup {None}]
  /\ committee \in [Markets -> {{}, {Creator}, Members}]
  /\ window \in [Markets -> Windows]
  /\ bets \in [Markets -> Nat]
  /\ outcomes \in [Markets -> SUBSET Outcome]
  /\ saved \in [Markets -> [yes : Nat, no : Nat]]
  /\ rounds \in [Markets -> Nat]
  /\ ballots \in [Markets -> [Members -> Outcome \cup {None}]]
  /\ DOMAIN revision = Markets
  /\ DOMAIN lists = Filters
  /\ DOMAIN histories = Endpoints
  /\ \A e \in Endpoints : DOMAIN histories[e] = Markets
  /\ quiet \subseteq Markets /\ unheard \subseteq Markets

\* Who resolved a market left an outcome, who formed a committee a deadline, and
\* nobody forms one without closing the market.
RowsAgree ==
  \A m \in Markets :
    /\ resolution[m] \in outcomes[m] \cup {None}
    /\ resolution[m] # None <=> status[m] = "RESOLVED"
    /\ window[m] = "unset" <=> committee[m] = {}
    /\ status[m] \in {"NONE", "OPEN"} => committee[m] = {}

\* Every entry of the list cache, expired or not, is as good as ListFresh says.
ListTold(f) ==
  /\ DOMAIN lists[f].rows \subseteq Markets
  /\ quiet = {} => lists[f].rows = Page(f, lists[f].limit, lists[f].offset)
  /\ \A m \in DOMAIN lists[f].rows \ quiet : lists[f].rows[m] = Row(m)

ListsTold == \A f \in Filters : lists[f] # None => ListTold(f)

HistoriesTold ==
  \A e \in Endpoints, m \in Markets \ unheard :
    histories[e][m] # None => histories[e][m].data = bets[m]

\* The votes saved of a market with one round are those of that round, and
\* decided it if they could.
ReportsTold ==
  \A m \in Markets :
    /\ rounds[m] = 0 => saved[m].yes = 0 /\ saved[m].no = 0
    /\ rounds[m] = 1 /\ m \notin halted /\ Reported(saved[m]) \in Outcome =>
         Reported(saved[m]) \in outcomes[m]

\* The script works on markets, with an outcome once it votes.
ScriptTyped ==
  /\ script \in [pc : {"idle", "resolving", "voting"}, todo : SUBSET Markets,
                 outcome : Outcome \cup {None}]
  /\ script.pc = "voting" => script.outcome \in Outcome

\* The claim c of the script is one that ClaimsHaveGrounds allows.
Grounded(c) ==
  \/ c[2] \in outcomes[c[1]]
  \/ ScriptUser \in committee[c[1]] /\ ballots[c[1]][ScriptUser] # None

ScriptTold ==
  /\ ScriptTyped
  /\ \A c \in claims : c[1] \in Markets /\ Grounded(c)

BoardInv ==
  RowsTyped /\ RowsAgree /\ ListsTold /\ HistoriesTold /\ ReportsTold /\ ScriptTold

-----------------------------------------------------------------------------
LEMMA InitEstablishesInv == Init => BoardInv
<1> SUFFICES ASSUME Init PROVE BoardInv
  OBVIOUS
<1> USE DEF Init, CachesInit
<1>1. RowsTyped
  BY TtlAssumption DEF RowsTyped, Statuses, Windows
<1>2. RowsAgree
  BY DEF RowsAgree
<1>3. ListsTold /\ HistoriesTold
  BY DEF ListsTold, HistoriesTold
<1>4. ReportsTold
  BY DEF ReportsTold
<1>5. ScriptTold
  BY DEF ScriptTold, ScriptTyped, NoScript
<1> QED
  BY <1>1, <1>2, <1>3, <1>4, <1>5 DEF BoardInv

-----------------------------------------------------------------------------
(* The cached lists.                                                       *)

\* What a list shows of m does not change.
SameRow(m) ==
  /\ status'[m] = status[m] /\ revision'[m] = revision[m]
  /\ committee'[m] = committee[m] /\ ballots'[m] = ballots[m]
  /\ status[m] = "RESOLVING" => window'[m] = window[m]

SameRows ==
  /\ UNCHANGED <<status, revision, committee, ballots>>
  /\ \A m \in Markets : status[m] = "RESOLVING" => window'[m] = window[m]

ListsGone == lists' = [f \in Filters |-> None]
ListsQuiet(k) ==
  /\ UNCHANGED lists
  /\ quiet' = quiet \cup {k}
  /\ \A m \in Markets \ {k} : SameRow(m)
ListsKept == UNCHANGED <<lists, quiet>> /\ SameRows
ListsRead(f, limit, offset) ==
  /\ lists' = [lists EXCEPT ![f] = Answer(f, limit, offset)]
  /\ UNCHANGED quiet /\ SameRows

LEMMA RowStays ==
  ASSUME NEW m \in Markets, SameRow(m)
  PROVE  Row(m)' = Row(m)
BY DEF SameRow, Row, Stage, VotesCast

\* A page shows markets, each as it is.
LEMMA PageOf ==
  ASSUME NEW f, NEW limit, NEW offset
  PROVE  /\ DOMAIN Page(f, limit, offset) \subseteq Markets
         /\ \A m \in DOMAIN Page(f, limit, offset) :
              Page(f, limit, offset)[m] = Row(m)
BY DEF Page

\* A page of the same rows is the same.
LEMMA PageStays ==
  ASSUME SameRows, NEW f, NEW limit, NEW offset
  PROVE  Page(f, limit, offset)' = Page(f, limit, offset)
<1>1. \A m \in Markets : Row(m)' = Row(m)
  BY RowStays DEF SameRows, SameRow
<1>2. \A m : Passes(f, m)' = Passes(f, m)
  BY DEF SameRows, Passes
<1>3. \A m : Place(f, m)' = Place(f, m)
  BY <1>2 DEF Place
<1> HIDE DEF SameRows
<1> QED
  BY <1>1, <1>2, <1>3 DEF Page

ListsEffect ==
  \/ ListsGone
  \/ \E k \in Markets : ListsQuiet(k)
  \/ ListsKept
  \/ \E f \in Filters : \E limit, offset : ListsRead(f, limit, offset)

LEMMA ListsStayTold ==
  ASSUME BoardInv, ListsEffect
  PROVE  ListsTold'
<1>1. CASE ListsGone
  BY <1>1 DEF ListsGone, ListsTold
<1>2. ASSUME NEW k \in Markets, ListsQuiet(k) PROVE ListsTold'
  <2> SUFFICES ASSUME NEW f \in Filters, lists[f] # None PROVE ListTold(f)'
    BY <1>2 DEF ListsTold, ListsQuiet
  <2>1. DOMAIN lists[f].rows \subseteq Markets
    BY DEF BoardInv, ListsTold, ListTold
  <2>2. quiet' # {}
    BY <1>2 DEF ListsQuiet
  <2>3. ASSUME NEW m \in DOMAIN lists[f].rows \ quiet'
        PROVE  lists[f].rows[m] = Row(m)'
    <3>1. m \in Markets \ {k} /\ m \notin quiet
      BY <1>2, <2>1, <2>3 DEF ListsQuiet
    <3>2. Row(m)' = Row(m)
      BY <1>2, <3>1, RowStays DEF ListsQuiet
    <3> QED
      BY <3>1, <3>2, <2>3 DEF BoardInv, ListsTold, ListTold
  <2> QED
    BY <1>2, <2>1, <2>2, <2>3 DEF ListTold, ListsQuiet
<1>3. ASSUME SameRows, UNCHANGED quiet, NEW f \in Filters, lists'[f] = lists[f],
             lists[f] # None
      PROVE  ListTold(f)'
  <2>1. \A m \in Markets : Row(m)' = Row(m)
    BY <1>3, RowStays DEF SameRows, SameRow
  <2>2. Page(f, lists[f].limit, lists[f].offset)'
          = Page(f, lists[f].limit, lists[f].offset)
    <3>1. \A limit, offset : Page(f, limit, offset)' = Page(f, limit, offset)
      BY <1>3, PageStays
    <3> QED
      BY <1>3, <3>1 DEF Page
  <2> QED
    BY <1>3, <2>1, <2>2 DEF BoardInv, ListsTold, ListTold
<1>4. CASE ListsKept
  BY <1>3, <1>4 DEF ListsKept, ListsTold
<1>5. ASSUME NEW g \in Filters, NEW limit, NEW offset, ListsRead(g, limit, offset)
      PROVE  ListsTold'
  <2>1. lists' = [lists EXCEPT ![g] = Answer(g, limit, offset)]
        /\ UNCHANGED quiet /\ SameRows
    BY <1>5 DEF ListsRead
  <2>2. DOMAIN lists = Filters
    BY DEF BoardInv, RowsTyped
  <2> SUFFICES ASSUME NEW f \in Filters, lists'[f] # None PROVE ListTold(f)'
    BY DEF ListsTold
  <2>3. CASE f # g \/ ListHit(g)
    <3>1. lists'[f] = lists[f]
      BY <2>1, <2>2, <2>3 DEF Answer
    <3> QED
      BY <1>3, <2>1, <3>1
  <2>4. CASE f = g /\ ~ListHit(g)
    <3>1. lists'[f] = ListEntry(f, Page(f, limit, offset), limit, offset)
      BY <2>1, <2>2, <2>4 DEF Answer
    <3>2. /\ lists'[f].rows = Page(f, limit, offset)
          /\ lists'[f].limit = limit /\ lists'[f].offset = offset
      BY <3>1 DEF ListEntry
    <3>3. Page(f, lists[f].limit, lists[f].offset)' = Page(f, limit, offset)
      <4>1. Page(f, limit, offset)' = Page(f, limit, offset)
        BY <2>1, PageStays
      <4> QED
        BY <3>2, <4>1 DEF Page
    <3>4. \A m \in Markets : Row(m)' = Row(m)
      BY <2>1, RowStays DEF SameRows, SameRow
    <3> QED
      BY <3>2, <3>3, <3>4, PageOf DEF ListTold
  <2> QED
    BY <2>3, <2>4
<1> QED
  BY <1>1, <1>2, <1>4, <1>5 DEF ListsEffect

-----------------------------------------------------------------------------
(* The cached histories.                                                   *)

OtherBets(k) == \A m \in Markets \ {k} : bets'[m] = bets[m]

HistoriesGone == histories' = [e \in Endpoints |-> [m \in Markets |-> None]]
HistoriesForget(k) == Forgotten(k) /\ unheard' = unheard \ {k} /\ OtherBets(k)
HistoriesUnheard(k) ==
  UNCHANGED histories /\ unheard' = unheard \cup {k} /\ OtherBets(k)
HistoriesRead(e, k) ==
  /\ histories' = [histories EXCEPT ![e][k] = HistoryEntry(bets[k])]
  /\ UNCHANGED <<bets, unheard>>
HistoriesKept == UNCHANGED <<histories, bets, unheard>>

HistoriesEffect ==
  \/ HistoriesGone
  \/ \E k \in Markets : HistoriesForget(k) \/ HistoriesUnheard(k)
  \/ \E e \in Endpoints, k \in Markets : HistoriesRead(e, k)
  \/ HistoriesKept

LEMMA HistoriesStayTold ==
  ASSUME BoardInv, HistoriesEffect
  PROVE  HistoriesTold'
<1> USE DEF BoardInv, HistoriesTold
<1>1. CASE HistoriesGone
  BY <1>1 DEF HistoriesGone
<1>2. ASSUME NEW k \in Markets, HistoriesForget(k) PROVE HistoriesTold'
  <2> SUFFICES ASSUME NEW e \in Endpoints, NEW m \in Markets \ unheard',
                      histories'[e][m] # None
               PROVE  histories'[e][m].data = bets'[m]
    OBVIOUS
  <2>1. histories'[e] = [histories[e] EXCEPT ![k] = None]
        /\ DOMAIN histories[e] = Markets
    BY <1>2 DEF HistoriesForget, Forgotten, RowsTyped
  <2>2. m # k /\ histories'[e][m] = histories[e][m]
    BY <2>1
  <2>3. m \in Markets \ unheard /\ bets'[m] = bets[m]
    BY <1>2, <2>2 DEF HistoriesForget, OtherBets
  <2> QED
    BY <2>2, <2>3
<1>3. ASSUME NEW k \in Markets, HistoriesUnheard(k) PROVE HistoriesTold'
  BY <1>3 DEF HistoriesUnheard, OtherBets
<1>4. ASSUME NEW d \in Endpoints, NEW k \in Markets, HistoriesRead(d, k)
      PROVE  HistoriesTold'
  <2> SUFFICES ASSUME NEW e \in Endpoints, NEW m \in Markets \ unheard',
                      histories'[e][m] # None
               PROVE  histories'[e][m].data = bets'[m]
    OBVIOUS
  <2>1. histories' = [histories EXCEPT ![d][k] = HistoryEntry(bets[k])]
        /\ UNCHANGED <<bets, unheard>>
    BY <1>4 DEF HistoriesRead
  <2>2. DOMAIN histories = Endpoints /\ DOMAIN histories[e] = Markets
    BY DEF RowsTyped
  <2>3. CASE e = d /\ m = k
    BY <2>1, <2>2, <2>3 DEF HistoryEntry
  <2>4. CASE e # d \/ m # k
    <3>1. histories'[e][m] = histories[e][m]
      BY <2>1, <2>2, <2>4
    <3> QED
      BY <2>1, <3>1
  <2> QED
    BY <2>3, <2>4
<1>5. CASE HistoriesKept
  BY <1>5 DEF HistoriesKept
<1> QED
  BY <1>1, <1>2, <1>3, <1>4, <1>5 DEF HistoriesEffect

-----------------------------------------------------------------------------
(* The reports and the script.                                             *)

OutcomesGrow == \A m \in Markets : outcomes[m] \subseteq outcomes'[m]

\* A committee stays the one it is, and a vote stays a vote.
VotesStay ==
  \A m \in Markets :
    /\ committee[m] # {} => committee'[m] = committee[m]
    /\ \A u \in Members : ballots[m][u] # None => ballots'[m][u] # None

\* The votes of a round are saved, and it decides m or its handler ends.
ReportsSaved(m, round) ==
  /\ SavesRound(m, round) /\ round \in Rounds
  /\ halted \subseteq halted'
  /\ Verdict(round) \in Outcome => Verdict(round) \in outcomes'[m] \/ m \in halted'
ReportsKept == UNCHANGED <<saved, rounds, halted>>

ReportsEffect ==
  /\ OutcomesGrow /\ VotesStay
  /\ \/ ReportsKept
     \/ \E m \in Markets, round \in Rounds : ReportsSaved(m, round)

\* What is reported of the votes of one round is the verdict of that round.
LEMMA ReportIsVerdict ==
  ASSUME NEW round \in Rounds, NEW v, v.yes = 0, v.no = 0,
         Reported(Saved(v, round)) \in Outcome
  PROVE  Reported(Saved(v, round)) = Verdict(round)
<1>1. round.yes \in Int /\ round.no \in Int
  BY ResolverAssumption DEF Rounds
<1>2. Saved(v, round).yes = round.yes /\ Saved(v, round).no = round.no
  BY <1>1 DEF Saved
<1>3. Reported(Saved(v, round)) # "disputed"
  BY DEF Outcome
<1> QED
  BY <1>1, <1>2, <1>3, ResolverAssumption DEF Reported, Verdict

LEMMA ReportsStayTold ==
  ASSUME BoardInv, ReportsEffect
  PROVE  ReportsTold'
<1> USE DEF BoardInv, ReportsTold
<1>1. CASE ReportsKept
  BY <1>1 DEF ReportsEffect, ReportsKept, OutcomesGrow
<1>2. ASSUME NEW k \in Markets, NEW round \in Rounds, ReportsSaved(k, round)
      PROVE  ReportsTold'
  <2> SUFFICES ASSUME NEW m \in Markets
      PROVE  /\ rounds'[m] = 0 => saved'[m].yes = 0 /\ saved'[m].no = 0
             /\ rounds'[m] = 1 /\ m \notin halted'
                  /\ Reported(saved'[m]) \in Outcome =>
                  Reported(saved'[m]) \in outcomes'[m]
    BY DEF ReportsTold
  <2>1. /\ saved' = [saved EXCEPT ![k] = Saved(saved[k], round)]
        /\ rounds' = [rounds EXCEPT ![k] = rounds[k] + 1]
        /\ halted \subseteq halted'
    BY <1>2 DEF ReportsSaved, SavesRound
  <2>2. saved \in [Markets -> [yes : Nat, no : Nat]] /\ rounds \in [Markets -> Nat]
    BY DEF RowsTyped
  <2>3. CASE m # k
    BY <2>1, <2>2, <2>3 DEF ReportsEffect, OutcomesGrow
  <2>4. CASE m = k
    <3>1. saved'[m] = Saved(saved[m], round) /\ rounds'[m] = rounds[m] + 1
          /\ rounds[m] \in Nat
      BY <2>1, <2>2, <2>4
    <3>2. rounds'[m] # 0
      BY <3>1
    <3>3. ASSUME rounds'[m] = 1, m \notin halted', Reported(saved'[m]) \in Outcome
          PROVE  Reported(saved'[m]) \in outcomes'[m]
      <4>1. saved[m].yes = 0 /\ saved[m].no = 0
        BY <3>1, <3>3
      <4>2. Reported(saved'[m]) = Verdict(round)
        BY <3>1, <3>3, <4>1, ReportIsVerdict
      <4> QED
        BY <1>2, <2>4, <3>3, <4>2 DEF ReportsSaved
    <3> QED
      BY <3>2, <3>3
  <2> QED
    BY <2>3, <2>4
<1> QED
  BY <1>1, <1>2 DEF ReportsEffect

LEMMA CommitteesAreMembers ==
  ASSUME BoardInv, NEW m \in Markets
  PROVE  committee[m] \subseteq Members /\ Committee(m) \subseteq Members
<1>1. committee[m] \in {{}, {Creator}, Members}
  BY DEF BoardInv, RowsTyped
<1>2. Creator \in Members
  BY BoardAssumption
<1>3. committee[m] \subseteq Members
  BY <1>1, <1>2
<1> QED
  BY <1>2, <1>3 DEF Committee

\* What a claim rests on is not taken away.
LEMMA GroundsStay ==
  ASSUME BoardInv, OutcomesGrow, VotesStay, NEW c, c[1] \in Markets, Grounded(c)
  PROVE  Grounded(c)'
<1>1. CASE c[2] \in outcomes[c[1]]
  BY <1>1 DEF OutcomesGrow, Grounded
<1>2. CASE ScriptUser \in committee[c[1]] /\ ballots[c[1]][ScriptUser] # None
  <2>1. ScriptUser \in Members
    BY <1>2, CommitteesAreMembers
  <2> QED
    BY <1>2, <2>1 DEF VotesStay, Grounded
<1> QED
  BY <1>1, <1>2 DEF Grounded

LEMMA ScriptStaysTold ==
  ASSUME BoardInv, OutcomesGrow, VotesStay, UNCHANGED scripts
  PROVE  ScriptTold'
<1>1. ScriptTyped'
  BY DEF BoardInv, ScriptTold, ScriptTyped, scripts
<1>2. \A c \in claims : c[1] \in Markets /\ Grounded(c)'
  BY GroundsStay DEF BoardInv, ScriptTold
<1> QED
  BY <1>1, <1>2 DEF ScriptTold, scripts

-----------------------------------------------------------------------------
(* The steps.                                                              *)

\* What a step has to do to leave BoardInv in force.
Harmless ==
  /\ RowsTyped' /\ RowsAgree'
  /\ ListsEffect /\ HistoriesEffect /\ ReportsEffect /\ ScriptTold'

LEMMA HarmlessKeepsInv ==
  ASSUME BoardInv, Harmless PROVE BoardInv'
BY ListsStayTold, HistoriesStayTold, ReportsStayTold DEF Harmless, BoardInv

\* What a step does to the script is left open: the script takes some itself.
HarmlessRows ==
  /\ RowsTyped' /\ RowsAgree'
  /\ ListsEffect /\ HistoriesEffect /\ ReportsEffect

LEMMA HarmlessRequest ==
  ASSUME BoardInv, HarmlessRows, UNCHANGED scripts PROVE Harmless
BY ScriptStaysTold DEF Harmless, HarmlessRows, ReportsEffect

LEMMA CreateIsHarmless ==
  ASSUME BoardInv, NEW m \in Markets, CreateMarket(m) PROVE Harmless
<1> USE DEF CreateMarket, Invalidates, Invalidated, resolving
<1>0. RowsTyped /\ RowsAgree
  BY DEF BoardInv
<1>1. RowsTyped'
  <2>1. /\ status' \in [Markets -> Statuses] /\ quiet' \subseteq Markets
        /\ generation' \in Nat /\ DOMAIN lists' = Filters
    BY <1>0 DEF RowsTyped, Statuses
  <2>2. /\ UNCHANGED <<resolution, revision, committee, window, bets, ballots>>
        /\ UNCHANGED <<outcomes, saved, rounds, unheard, clock, histories>>
    OBVIOUS
  <2> HIDE DEF CreateMarket
  <2> QED
    BY <1>0, <2>1, <2>2 DEF RowsTyped
<1>2. RowsAgree'
  BY <1>0 DEF RowsAgree, RowsTyped, Statuses
<1>3. ListsEffect /\ HistoriesEffect
  BY DEF ListsEffect, ListsGone, HistoriesEffect, HistoriesKept
<1>4. ReportsEffect
  BY DEF ReportsEffect, OutcomesGrow, VotesStay, ReportsKept
<1>5. ScriptTold'
  BY <1>4, ScriptStaysTold DEF ReportsEffect
<1> QED
  BY <1>1, <1>2, <1>3, <1>4, <1>5 DEF Harmless

LEMMA BetIsHarmless ==
  ASSUME BoardInv, NEW m \in Markets, PlaceBet(m) PROVE Harmless
<1> USE DEF PlaceBet, Trades, Invalidated, resolving
<1>0. RowsTyped /\ RowsAgree
  BY DEF BoardInv
<1>1. RowsTyped'
  <2>1. DOMAIN histories' = Endpoints
        /\ \A e \in Endpoints : DOMAIN histories'[e] = Markets
    BY <1>0 DEF RowsTyped, Forgotten
  <2> QED
    BY <1>0, <2>1 DEF RowsTyped
<1>2. RowsAgree'
  BY <1>0 DEF RowsAgree, RowsTyped
<1>3. ListsEffect
  BY DEF ListsEffect, ListsGone
<1>4. HistoriesForget(m)
  BY <1>0 DEF HistoriesForget, OtherBets, RowsTyped
<1>5. ReportsEffect
  BY DEF ReportsEffect, OutcomesGrow, VotesStay, ReportsKept
<1>6. ScriptTold'
  BY <1>5, ScriptStaysTold DEF ReportsEffect
<1> QED
  BY <1>1, <1>2, <1>3, <1>4, <1>5, <1>6 DEF Harmless, HistoriesEffect

LEMMA BetCutIsHarmless ==
  ASSUME BoardInv, NEW m \in Markets, PlaceBetCut(m) PROVE Harmless
<1> USE DEF PlaceBetCut, resolving
<1>0. RowsTyped /\ RowsAgree
  BY DEF BoardInv
<1>1. RowsTyped'
  <2>1. /\ bets' \in [Markets -> Nat] /\ DOMAIN revision' = Markets
        /\ quiet' \subseteq Markets /\ unheard' \subseteq Markets
        /\ generation' \in Nat /\ DOMAIN lists' = Filters
        /\ UNCHANGED <<clock, histories>>
    BY <1>0 DEF RowsTyped, Quietly, Invalidates, Invalidated, cacheVars
  <2>2. /\ UNCHANGED <<status, resolution, committee, window, ballots, outcomes>>
        /\ UNCHANGED <<saved, rounds>>
    OBVIOUS
  <2> HIDE DEF PlaceBetCut
  <2> QED
    BY <1>0, <2>1, <2>2 DEF RowsTyped
<1>2. RowsAgree'
  BY <1>0 DEF RowsAgree, RowsTyped
<1>3. ListsEffect
  <2>1. CASE Quietly(m)
    BY <1>0, <2>1 DEF Quietly, cacheVars, ListsEffect, ListsQuiet, SameRow, RowsTyped
  <2>2. CASE Invalidates
    BY <2>2 DEF Invalidates, Invalidated, ListsEffect, ListsGone
  <2> QED
    BY <2>1, <2>2
<1>4. HistoriesEffect
  BY <1>0 DEF Quietly, Invalidates, cacheVars, HistoriesEffect, HistoriesUnheard,
              HistoriesKept, OtherBets, RowsTyped
<1>5. ReportsEffect
  BY DEF ReportsEffect, OutcomesGrow, VotesStay, ReportsKept
<1>6. ScriptTold'
  BY <1>5, ScriptStaysTold DEF ReportsEffect
<1> QED
  BY <1>1, <1>2, <1>3, <1>4, <1>5, <1>6 DEF Harmless

LEMMA SaleIsHarmless ==
  ASSUME BoardInv, NEW m \in Markets, SellShares(m) PROVE Harmless
<1> USE DEF SellShares, Trades, Invalidates, Invalidated, resolving
<1>0. RowsTyped /\ RowsAgree
  BY DEF BoardInv
<1>1. RowsTyped'
  BY <1>0 DEF RowsTyped
<1>2. RowsAgree'
  BY <1>0 DEF RowsAgree, RowsTyped
<1>3. ListsEffect
  BY DEF ListsEffect, ListsGone
<1>4. bets' = bets
  BY <1>0 DEF RowsTyped
<1>5. HistoriesEffect
  BY <1>4 DEF HistoriesEffect, HistoriesKept
<1>6. ReportsEffect
  BY DEF ReportsEffect, OutcomesGrow, VotesStay, ReportsKept
<1>7. ScriptTold'
  BY <1>6, ScriptStaysTold DEF ReportsEffect
<1> QED
  BY <1>1, <1>2, <1>3, <1>5, <1>6, <1>7 DEF Harmless

\* Who forms, or not, the committee of m.
CommitteeOf(m) ==
  \/ status[m] = "OPEN" /\ Forms(m)
  \/ Convenes(m)
  \/ UNCHANGED <<committee, window>>

\* The other markets keep theirs, and m the one it has.
LEMMA CommitteeAfter ==
  ASSUME BoardInv, NEW m \in Markets, CommitteeOf(m)
  PROVE  /\ committee' \in [Markets -> {{}, {Creator}, Members}]
         /\ window' \in [Markets -> Windows]
         /\ \A k \in Markets \ {m} :
              committee'[k] = committee[k] /\ window'[k] = window[k]
         /\ committee[m] # {} => committee'[m] = committee[m]
         /\ \A k \in Markets : window'[k] = "unset" <=> committee'[k] = {}
<1>0. /\ committee \in [Markets -> {{}, {Creator}, Members}]
      /\ window \in [Markets -> Windows]
      /\ \A k \in Markets : window[k] = "unset" <=> committee[k] = {}
      /\ status[m] = "OPEN" => committee[m] = {}
      /\ Members # {}
  BY BoardAssumption DEF BoardInv, RowsTyped, RowsAgree
<1>1. CASE Forms(m) /\ committee[m] = {}
  BY <1>0, <1>1 DEF Forms, Windows
<1>2. CASE UNCHANGED <<committee, window>>
  BY <1>0, <1>2
<1> QED
  BY <1>0, <1>1, <1>2 DEF Convenes, CommitteeOf

\* So do the votes: one more may be there.
BallotsOf(m) ==
  \/ UNCHANGED ballots
  \/ \E u \in Members, o \in Outcome : ballots' = WithVote(m, u, o)

LEMMA BallotsAfter ==
  ASSUME BoardInv, NEW m \in Markets, BallotsOf(m)
  PROVE  /\ ballots' \in [Markets -> [Members -> Outcome \cup {None}]]
         /\ \A k \in Markets \ {m} : ballots'[k] = ballots[k]
         /\ \A k \in Markets, u \in Members :
              ballots[k][u] # None => ballots'[k][u] # None
<1>0. ballots \in [Markets -> [Members -> Outcome \cup {None}]] /\ None \notin Outcome
  BY BoardAssumption DEF BoardInv, RowsTyped
<1>1. CASE UNCHANGED ballots
  BY <1>0, <1>1
<1>2. ASSUME NEW u \in Members, NEW o \in Outcome, ballots' = WithVote(m, u, o)
      PROVE  /\ ballots' \in [Markets -> [Members -> Outcome \cup {None}]]
             /\ \A k \in Markets \ {m} : ballots'[k] = ballots[k]
             /\ \A k \in Markets, v \in Members :
                  ballots[k][v] # None => ballots'[k][v] # None
  <2>1. ballots' = [ballots EXCEPT ![m] = [ballots[m] EXCEPT ![u] = o]]
    BY <1>2 DEF WithVote
  <2> QED
    BY <1>0, <2>1
<1> QED
  BY <1>1, <1>2 DEF BallotsOf

\* A step that settles m, or none, and leaves the trades alone.
LEMMA ResolutionIsHarmless ==
  ASSUME BoardInv, NEW m \in Markets,
         CommitteeOf(m), BallotsOf(m),
         \/ \E o \in Outcome : Settles(m, o)
         \/ /\ UNCHANGED <<resolution, revision, outcomes>>
            /\ \/ status[m] = "RESOLVING" /\ UNCHANGED status
               \/ /\ status[m] = "OPEN"
                  /\ status' = [status EXCEPT ![m] = "RESOLVING"],
         Invalidates \/ Quietly(m),
         UNCHANGED <<bets, unheard>>,
         saved' \in [Markets -> [yes : Nat, no : Nat]],
         rounds' \in [Markets -> Nat]
  PROVE  /\ RowsTyped' /\ RowsAgree' /\ ListsEffect /\ HistoriesKept
         /\ OutcomesGrow /\ VotesStay
<1>0. RowsTyped /\ RowsAgree
  BY DEF BoardInv
<1>1. /\ committee' \in [Markets -> {{}, {Creator}, Members}]
      /\ window' \in [Markets -> Windows]
      /\ \A k \in Markets \ {m} :
           committee'[k] = committee[k] /\ window'[k] = window[k]
      /\ committee[m] # {} => committee'[m] = committee[m]
      /\ \A k \in Markets : window'[k] = "unset" <=> committee'[k] = {}
  BY CommitteeAfter
<1>b. /\ ballots' \in [Markets -> [Members -> Outcome \cup {None}]]
      /\ \A k \in Markets \ {m} : ballots'[k] = ballots[k]
  BY BallotsAfter
<1> DEFINE Settled ==
      /\ status' \in [Markets -> Statuses]
      /\ resolution' \in [Markets -> Outcome \cup {None}]
      /\ outcomes' \in [Markets -> SUBSET Outcome]
      /\ DOMAIN revision' = Markets
      /\ \A k \in Markets \ {m} : status'[k] = status[k] /\ revision'[k] = revision[k]
      /\ OutcomesGrow
      /\ \A k \in Markets :
           /\ resolution'[k] \in outcomes'[k] \cup {None}
           /\ resolution'[k] # None <=> status'[k] = "RESOLVED"
      /\ status'[m] \notin {"NONE", "OPEN"}
<1>2. Settled
  <2>1. ASSUME NEW o \in Outcome, Settles(m, o) PROVE Settled
    BY <1>0, <2>1, BoardAssumption
       DEF Settles, OutcomesGrow, RowsTyped, RowsAgree, Statuses
  <2>2. CASE /\ UNCHANGED <<resolution, revision, outcomes>>
             /\ status[m] = "RESOLVING" /\ UNCHANGED status
    BY <1>0, <2>2 DEF OutcomesGrow, RowsTyped, RowsAgree
  <2>3. CASE /\ UNCHANGED <<resolution, revision, outcomes>>
             /\ status[m] = "OPEN"
             /\ status' = [status EXCEPT ![m] = "RESOLVING"]
    BY <1>0, <2>3 DEF OutcomesGrow, RowsTyped, RowsAgree, Statuses
  <2> QED
    BY <2>1, <2>2, <2>3
<1>3. RowsTyped'
  <2>1. CASE Invalidates
    <3>1. /\ generation' \in Nat /\ DOMAIN lists' = Filters /\ quiet' = {}
          /\ UNCHANGED <<clock, histories>>
      BY <1>0, <2>1 DEF RowsTyped, Invalidates, Invalidated
    <3> QED
      BY <1>0, <1>1, <1>b, <1>2, <3>1 DEF RowsTyped
  <2>2. CASE Quietly(m)
    BY <1>0, <1>1, <1>b, <1>2, <2>2 DEF RowsTyped, Quietly, cacheVars
  <2> QED
    BY <2>1, <2>2
<1>4. RowsAgree'
  BY <1>0, <1>1, <1>2 DEF RowsAgree
<1>5. ListsEffect
  <2>1. CASE Invalidates
    BY <2>1 DEF Invalidates, Invalidated, ListsEffect, ListsGone
  <2>2. CASE Quietly(m)
    BY <1>1, <1>b, <1>2, <2>2 DEF Quietly, cacheVars, ListsEffect, ListsQuiet, SameRow
  <2> QED
    BY <2>1, <2>2
<1>6. HistoriesKept
  BY DEF Invalidates, Quietly, cacheVars, HistoriesKept
<1>7. VotesStay
  BY <1>1, BallotsAfter DEF VotesStay
<1> QED
  BY <1>2, <1>3, <1>4, <1>5, <1>6, <1>7

LEMMA InitiationIsHarmless ==
  ASSUME BoardInv, NEW m \in Markets, Initiates(m) PROVE HarmlessRows
<1>1. /\ saved \in [Markets -> [yes : Nat, no : Nat]]
      /\ rounds \in [Markets -> Nat]
  BY DEF BoardInv, RowsTyped
<1>2. /\ RowsTyped' /\ RowsAgree' /\ ListsEffect /\ HistoriesKept
      /\ OutcomesGrow /\ VotesStay
  BY <1>1, ResolutionIsHarmless
     DEF Initiates, Resolution, resolving, CommitteeOf, BallotsOf
<1> QED
  BY <1>2 DEF Initiates, Resolution, resolving, HarmlessRows, HistoriesEffect,
              ReportsEffect, ReportsKept

LEMMA ResolvingIsHarmless ==
  ASSUME BoardInv, NEW m \in Markets, NEW o \in Outcome, ResolvesNow(m, o)
  PROVE  HarmlessRows
<1>1. /\ saved \in [Markets -> [yes : Nat, no : Nat]]
      /\ rounds \in [Markets -> Nat]
  BY DEF BoardInv, RowsTyped
<1>2. /\ RowsTyped' /\ RowsAgree' /\ ListsEffect /\ HistoriesKept
      /\ OutcomesGrow /\ VotesStay
  BY <1>1, ResolutionIsHarmless
     DEF ResolvesNow, Resolution, resolving, CommitteeOf, BallotsOf
<1> QED
  BY <1>2 DEF ResolvesNow, Resolution, resolving, HarmlessRows, HistoriesEffect,
              ReportsEffect, ReportsKept

LEMMA VotesAreHarmless ==
  ASSUME BoardInv, NEW m \in Markets, NEW u, NEW o \in Outcome,
         LastVote(m, u, o) \/ Vote(m, u, o) \/ NonMemberVote(m)
  PROVE  HarmlessRows
<1>1. /\ saved \in [Markets -> [yes : Nat, no : Nat]]
      /\ rounds \in [Markets -> Nat]
  BY DEF BoardInv, RowsTyped
<1>2. CommitteeOf(m) /\ BallotsOf(m)
  <2> QED
    BY CommitteesAreMembers DEF LastVote, Vote, NonMemberVote, CommitteeOf, BallotsOf
<1>3. /\ RowsTyped' /\ RowsAgree' /\ ListsEffect /\ HistoriesKept
      /\ OutcomesGrow /\ VotesStay
  BY <1>1, <1>2, ResolutionIsHarmless
     DEF LastVote, Vote, NonMemberVote, Resolution, resolving
<1> QED
  BY <1>3 DEF LastVote, Vote, NonMemberVote, Resolution, resolving, HarmlessRows,
              HistoriesEffect, ReportsEffect, ReportsKept

-----------------------------------------------------------------------------
\* The agents of a market.
LEMMA RequestIsHarmless ==
  ASSUME BoardInv, NEW m \in Markets, RequestResolution(m) PROVE Harmless
<1> USE DEF RequestResolution, cacheVars, rows
<1>0. RowsTyped /\ RowsAgree
  BY DEF BoardInv
<1>1. RowsTyped' /\ RowsAgree'
  BY <1>0 DEF RowsTyped, RowsAgree
<1>2. ListsEffect /\ HistoriesEffect
  BY DEF ListsEffect, ListsKept, SameRows, HistoriesEffect, HistoriesKept
<1>3. ReportsEffect
  BY DEF ReportsEffect, OutcomesGrow, VotesStay, ReportsKept
<1> QED
  BY <1>1, <1>2, <1>3, HarmlessRequest DEF HarmlessRows

\* The votes that are saved are numbers.
LEMMA RoundIsTyped ==
  ASSUME BoardInv, NEW m \in Markets, NEW round \in Rounds, SavesRound(m, round)
  PROVE  /\ saved' \in [Markets -> [yes : Nat, no : Nat]]
         /\ rounds' \in [Markets -> Nat]
<1>1. round.yes \in Nat /\ round.no \in Nat
  BY ResolverAssumption DEF Rounds
<1>2. saved \in [Markets -> [yes : Nat, no : Nat]] /\ rounds \in [Markets -> Nat]
  BY DEF BoardInv, RowsTyped
<1>3. Saved(saved[m], round) \in [yes : Nat, no : Nat]
  BY <1>1, <1>2 DEF Saved
<1> QED
  BY <1>2, <1>3 DEF SavesRound

LEMMA AnswersAreHarmless ==
  ASSUME BoardInv, NEW m \in Markets, NEW round \in Rounds, ResolverAnswers(m, round)
  PROVE  Harmless
<1>0. RowsTyped /\ RowsAgree
  BY DEF BoardInv
<1>1. /\ saved' \in [Markets -> [yes : Nat, no : Nat]]
      /\ rounds' \in [Markets -> Nat]
      /\ UNCHANGED <<committee, window, ballots, bets, unheard, halted, scripts>>
  BY RoundIsTyped DEF ResolverAnswers, SavesRound
<1>2. CASE Verdict(round) \in Outcome
  <2>1. Settles(m, Verdict(round)) /\ Quietly(m)
    BY <1>2 DEF ResolverAnswers
  <2>2. RowsTyped' /\ RowsAgree' /\ ListsEffect /\ HistoriesKept
      /\ OutcomesGrow /\ VotesStay
    BY <1>1, <1>2, <2>1, ResolutionIsHarmless DEF CommitteeOf, BallotsOf
  <2>3. Verdict(round) \in outcomes'[m]
    BY <1>0, <2>1 DEF Settles, RowsTyped
  <2>4. ReportsEffect
    BY <1>1, <2>2, <2>3 DEF ReportsEffect, ReportsSaved, ResolverAnswers
  <2> QED
    BY <1>1, <2>2, <2>4, HarmlessRequest DEF HarmlessRows, HistoriesEffect
<1>3. CASE Verdict(round) \notin Outcome
  <2>1. UNCHANGED <<status, resolution, revision, outcomes, cacheVars, quiet>>
    BY <1>3 DEF ResolverAnswers
  <2>2. RowsTyped' /\ RowsAgree'
    BY <1>0, <1>1, <2>1 DEF RowsTyped, RowsAgree, cacheVars
  <2>3. ListsEffect /\ HistoriesEffect
    BY <1>1, <2>1 DEF ListsEffect, ListsKept, SameRows, HistoriesEffect,
                      HistoriesKept, cacheVars
  <2>4. ReportsEffect
    BY <1>1, <1>3, <2>1 DEF ReportsEffect, ReportsSaved, ResolverAnswers, OutcomesGrow,
                              VotesStay
  <2> QED
    BY <1>1, <2>2, <2>3, <2>4, HarmlessRequest DEF HarmlessRows
<1> QED
  BY <1>2, <1>3

LEMMA CutAnswersAreHarmless ==
  ASSUME BoardInv, NEW m \in Markets, NEW round \in Rounds,
         ResolverAnswersCut(m, round)
  PROVE  Harmless
<1>0. RowsTyped /\ RowsAgree
  BY DEF BoardInv
<1>1. /\ saved' \in [Markets -> [yes : Nat, no : Nat]]
      /\ rounds' \in [Markets -> Nat]
      /\ UNCHANGED <<committee, window, ballots, bets, unheard, scripts>>
      /\ UNCHANGED <<status, resolution, revision, outcomes, cacheVars, quiet>>
  BY RoundIsTyped DEF ResolverAnswersCut, SavesRound
<1>2. RowsTyped' /\ RowsAgree'
  BY <1>0, <1>1 DEF RowsTyped, RowsAgree, cacheVars
<1>3. ListsEffect /\ HistoriesEffect
  BY <1>1 DEF ListsEffect, ListsKept, SameRows, HistoriesEffect, HistoriesKept,
              cacheVars
<1>4. ReportsEffect
  BY <1>1 DEF ReportsEffect, ReportsSaved, ResolverAnswersCut, OutcomesGrow,
                    VotesStay
<1> QED
  BY <1>1, <1>2, <1>3, <1>4, HarmlessRequest DEF HarmlessRows

\* The sweep and the transition change no outcome.
LEMMA ToResolvingIsHarmless ==
  ASSUME BoardInv, Sweep \/ AdminTransition PROVE Harmless
<1>0. RowsTyped /\ RowsAgree
  BY DEF BoardInv
<1>1. ToResolving
  BY DEF Sweep, AdminTransition
<1>2. /\ committee' \in [Markets -> {{}, {Creator}, Members}]
      /\ window' \in [Markets -> Windows]
      /\ \A k \in Markets : window'[k] = "unset" <=> committee'[k] = {}
      /\ \A k \in Markets \ Expired : committee'[k] = committee[k]
      /\ \A k \in Expired : committee[k] = {}
  <2>1. CASE Sweep
    BY <1>0, <2>1, BoardAssumption DEF Sweep, RowsTyped, RowsAgree, Windows, Expired
  <2>2. CASE AdminTransition
    BY <1>0, <2>2 DEF AdminTransition, RowsTyped, RowsAgree, Expired
  <2> QED
    BY <2>1, <2>2
<1>3. /\ status' \in [Markets -> Statuses]
      /\ \A k \in Markets : status'[k] = "RESOLVED" <=> status[k] = "RESOLVED"
      /\ \A k \in Markets \ Expired : status'[k] = status[k]
      /\ \A k \in Expired : status'[k] = "RESOLVING"
  BY <1>0, <1>1 DEF ToResolving, Expired, RowsTyped, Statuses
<1> USE DEF ToResolving, Invalidates, Invalidated, resolving
<1>4. RowsTyped'
  <2>1. /\ generation' \in Nat /\ DOMAIN lists' = Filters /\ quiet' = {}
        /\ UNCHANGED <<clock, histories>>
    BY <1>0, <1>1 DEF RowsTyped
  <2> QED
    BY <1>0, <1>1, <1>2, <1>3, <2>1 DEF RowsTyped
<1>5. RowsAgree'
  BY <1>0, <1>1, <1>2, <1>3 DEF RowsAgree
<1>6. ListsEffect /\ HistoriesEffect
  BY <1>1 DEF ListsEffect, ListsGone, HistoriesEffect, HistoriesKept
<1>7. ReportsEffect
  BY <1>1, <1>2 DEF ReportsEffect, OutcomesGrow, VotesStay, ReportsKept
<1> QED
  BY <1>1, <1>4, <1>5, <1>6, <1>7, HarmlessRequest DEF HarmlessRows

-----------------------------------------------------------------------------
\* Reading: nothing changes but the caches.
LEMMA AnswerIsOfMarkets ==
  ASSUME BoardInv, NEW f \in Filters, NEW limit, NEW offset
  PROVE  DOMAIN Answer(f, limit, offset).rows \subseteq Markets
<1>1. CASE ListHit(f)
  BY <1>1 DEF Answer, ListHit, BoardInv, ListsTold, ListTold
<1>2. CASE ~ListHit(f)
  <2>1. Answer(f, limit, offset).rows = Page(f, limit, offset)
    BY <1>2 DEF Answer, ListEntry
  <2> QED
    BY <2>1, PageOf
<1> QED
  BY <1>1, <1>2

LEMMA ListingIsHarmless ==
  ASSUME BoardInv, NEW f \in Filters, NEW limit, NEW offset,
         Lists(f, limit, offset)
  PROVE  HarmlessRows
<1> USE DEF Lists, rows, resolving
<1>0. RowsTyped /\ RowsAgree
  BY DEF BoardInv
<1>1. DOMAIN lists' = Filters
  BY <1>0 DEF RowsTyped
<1>2. RowsTyped'
  BY <1>0, <1>1 DEF RowsTyped
<1>3. RowsAgree'
  BY <1>0 DEF RowsAgree
<1>4. ListsEffect /\ HistoriesEffect
  BY DEF ListsEffect, ListsRead, SameRows, HistoriesEffect, HistoriesKept
<1>5. ReportsEffect
  BY DEF ReportsEffect, OutcomesGrow, VotesStay, ReportsKept
<1> QED
  BY <1>2, <1>3, <1>4, <1>5 DEF HarmlessRows

LEMMA HistoryReadIsHarmless ==
  ASSUME BoardInv, NEW e \in Endpoints, NEW m \in Markets, ReadHistory(e, m)
  PROVE  Harmless
<1> USE DEF ReadHistory, rows, resolving
<1>0. RowsTyped /\ RowsAgree
  BY DEF BoardInv
<1>1. DOMAIN histories' = Endpoints
      /\ \A d \in Endpoints : DOMAIN histories'[d] = Markets
  BY <1>0 DEF RowsTyped
<1>2. RowsTyped'
  BY <1>0, <1>1 DEF RowsTyped
<1>3. RowsAgree'
  BY <1>0 DEF RowsAgree
<1>4. ListsEffect /\ HistoriesEffect
  BY DEF ListsEffect, ListsKept, SameRows, HistoriesEffect, HistoriesRead
<1>5. ReportsEffect
  BY DEF ReportsEffect, OutcomesGrow, VotesStay, ReportsKept
<1> QED
  BY <1>2, <1>3, <1>4, <1>5, HarmlessRequest DEF HarmlessRows

-----------------------------------------------------------------------------
\* The script.  It goes on with what is left, or is done.
LEMMA OnwardIsTyped ==
  ASSUME BoardInv, NEW m, Onward(m) PROVE ScriptTyped'
BY DEF BoardInv, ScriptTold, ScriptTyped, Onward, NoScript

LEMMA HarmlessScript ==
  ASSUME BoardInv, HarmlessRows, ScriptTyped',
         \A c \in claims' \ claims : c[1] \in Markets /\ Grounded(c)'
  PROVE  Harmless
<1>1. \A c \in claims : c[1] \in Markets /\ Grounded(c)'
  BY GroundsStay DEF HarmlessRows, ReportsEffect, BoardInv, ScriptTold
<1> QED
  BY <1>1 DEF Harmless, HarmlessRows, ScriptTold

LEMMA ScriptReadIsHarmless ==
  ASSUME BoardInv, ScriptReads PROVE Harmless
<1>1. HarmlessRows
  BY ListingIsHarmless, BoardAssumption DEF ScriptReads
<1>2. ScriptTyped'
  <2>1. {m \in DOMAIN Answer("ACTIVE", Largest, 0).rows : closed[m]} \subseteq Markets
    BY AnswerIsOfMarkets, BoardAssumption
  <2> QED
    BY <2>1 DEF ScriptReads, NoScript, ScriptTyped
<1> QED
  BY <1>1, <1>2, HarmlessScript DEF ScriptReads

LEMMA SkipIsHarmless ==
  ASSUME BoardInv, NEW m \in Markets, ScriptSkips(m) PROVE Harmless
<1> USE DEF ScriptSkips, cacheVars, rows, resolving
<1>0. RowsTyped /\ RowsAgree
  BY DEF BoardInv
<1>1. RowsTyped' /\ RowsAgree'
  BY <1>0 DEF RowsTyped, RowsAgree
<1>2. ListsEffect /\ HistoriesEffect
  BY DEF ListsEffect, ListsKept, SameRows, HistoriesEffect, HistoriesKept
<1>3. ReportsEffect
  BY DEF ReportsEffect, OutcomesGrow, VotesStay, ReportsKept
<1> QED
  BY <1>1, <1>2, <1>3, OnwardIsTyped, HarmlessScript DEF HarmlessRows

LEMMA SettledOutcome ==
  ASSUME BoardInv, NEW m \in Markets, NEW o, Settles(m, o)
  PROVE  o \in outcomes'[m]
BY DEF BoardInv, RowsTyped, Settles

\* A vote that is counted is that of a member.
LEMMA VoteIsGround ==
  ASSUME BoardInv, NEW m \in Markets, NEW u, NEW o \in Outcome,
         LastVote(m, u, o) \/ Vote(m, u, o)
  PROVE  u \in committee'[m] /\ ballots'[m][u] # None
<1>1. u \in Committee(m) /\ Convenes(m) /\ ballots' = WithVote(m, u, o)
  BY DEF LastVote, Vote
<1>2. /\ committee \in [Markets -> {{}, {Creator}, Members}]
      /\ ballots \in [Markets -> [Members -> Outcome \cup {None}]]
      /\ None \notin Outcome /\ Creator \in Members
  BY BoardAssumption DEF BoardInv, RowsTyped
<1>3. u \in committee'[m]
  BY <1>1, <1>2 DEF Committee, Convenes, Forms
<1>4. u \in Members
  BY <1>1, <1>2 DEF Committee
<1>5. ballots'[m][u] = o
  BY <1>1, <1>2, <1>4 DEF WithVote
<1> QED
  BY <1>2, <1>3, <1>5

LEMMA ScriptVoteIsHarmless ==
  ASSUME BoardInv, NEW m \in Markets, ScriptVotes(m) PROVE Harmless
<1>0. script.outcome \in Outcome /\ Onward(m)
  BY DEF ScriptVotes, BoardInv, ScriptTold, ScriptTyped
<1>1. PICK o \in Outcome : o = script.outcome
  BY <1>0
<1>2. /\ LastVote(m, ScriptUser, o) \/ Vote(m, ScriptUser, o) \/ NonMemberVote(m)
      /\ \/ /\ LastVote(m, ScriptUser, o) \/ Vote(m, ScriptUser, o)
            /\ claims' = claims \cup {<<m, o>>}
         \/ UNCHANGED claims
  BY <1>1 DEF ScriptVotes
<1>3. HarmlessRows
  BY <1>1, <1>2, VotesAreHarmless
<1>4. LastVote(m, ScriptUser, o) \/ Vote(m, ScriptUser, o) => Grounded(<<m, o>>)'
  BY <1>1, VoteIsGround DEF Grounded
<1>5. \A c \in claims' \ claims : c[1] \in Markets /\ Grounded(c)'
  BY <1>2, <1>4
<1>6. ScriptTyped'
  BY <1>0, OnwardIsTyped
<1> QED
  BY <1>3, <1>5, <1>6, HarmlessScript

LEMMA ScriptResolvingIsHarmless ==
  ASSUME BoardInv, NEW m \in Markets, NEW o \in Outcome, ScriptResolves(m, o)
  PROVE  Harmless
<1>1. CASE ResolvesNow(m, o) /\ Onward(m) /\ claims' = claims \cup {<<m, o>>}
  <2>1. o \in outcomes'[m]
    BY <1>1, SettledOutcome DEF ResolvesNow
  <2>2. \A c \in claims' \ claims : c[1] \in Markets /\ Grounded(c)'
    BY <1>1, <2>1 DEF Grounded
  <2> QED
    BY <1>1, <2>2, ResolvingIsHarmless, OnwardIsTyped, HarmlessScript
<1>2. CASE /\ \/ Initiates(m)
              \/ UNCHANGED <<cacheVars, rows, quiet>> /\ Resolution
           /\ script' = [script EXCEPT !.pc = "voting", !.outcome = o]
           /\ UNCHANGED claims
  <2>1. ScriptTyped'
    BY <1>2 DEF BoardInv, ScriptTold, ScriptTyped
  <2>2. CASE Initiates(m)
    BY <1>2, <2>1, <2>2, InitiationIsHarmless, HarmlessScript
  <2>3. CASE UNCHANGED <<cacheVars, rows, quiet>> /\ Resolution
    <3> USE DEF cacheVars, rows, Resolution, resolving
    <3>0. RowsTyped /\ RowsAgree
      BY DEF BoardInv
    <3>1. RowsTyped' /\ RowsAgree'
      BY <2>3, <3>0 DEF RowsTyped, RowsAgree
    <3>2. ListsEffect /\ HistoriesEffect
      BY <2>3 DEF ListsEffect, ListsKept, SameRows, HistoriesEffect, HistoriesKept
    <3>3. ReportsEffect
      BY <2>3 DEF ReportsEffect, OutcomesGrow, VotesStay, ReportsKept
    <3> QED
      BY <1>2, <2>1, <3>1, <3>2, <3>3, HarmlessScript DEF HarmlessRows
  <2> QED
    BY <1>2, <2>2, <2>3
<1> QED
  BY <1>1, <1>2 DEF ScriptResolves

-----------------------------------------------------------------------------
(* Time, restarts, and all steps.                                          *)

LEMMA TimeIsHarmless ==
  ASSUME BoardInv, TimePasses \/ (\E m \in Markets : Closes(m))
  PROVE  Harmless
<1> USE DEF TimePasses, Tick, Closes, cacheVars, rows, resolving
<1>0. RowsTyped /\ RowsAgree
  BY DEF BoardInv
<1>1. clock' \in 0..MaxTime
  BY <1>0, TtlAssumption DEF RowsTyped
<1>2. RowsTyped' /\ RowsAgree'
  BY <1>0, <1>1 DEF RowsTyped, RowsAgree
<1>3. ListsEffect /\ HistoriesEffect
  BY DEF ListsEffect, ListsKept, SameRows, HistoriesEffect, HistoriesKept
<1>4. ReportsEffect
  BY DEF ReportsEffect, OutcomesGrow, VotesStay, ReportsKept
<1> QED
  BY <1>2, <1>3, <1>4, HarmlessRequest DEF HarmlessRows

LEMMA WindowIsHarmless ==
  ASSUME BoardInv, NEW m \in Markets, WindowPasses(m) PROVE Harmless
<1>0. RowsTyped /\ RowsAgree
  BY DEF BoardInv
<1>1. /\ UNCHANGED <<cacheVars, status, resolution, revision, committee, bets,
                     ballots, outcomes, resolving, scripts, unheard>>
      /\ window' = [window EXCEPT ![m] = "passed"]
      /\ window[m] = "ahead"
      /\ quiet' = IF status[m] = "RESOLVING" THEN quiet \cup {m} ELSE quiet
  BY DEF WindowPasses
<1>2. /\ window' \in [Markets -> Windows]
      /\ \A k \in Markets : window'[k] = "unset" <=> window[k] = "unset"
      /\ \A k \in Markets \ {m} : window'[k] = window[k]
  BY <1>0, <1>1 DEF RowsTyped, Windows
<1> USE DEF cacheVars, resolving
<1>3. RowsTyped' /\ RowsAgree'
  BY <1>0, <1>1, <1>2 DEF RowsTyped, RowsAgree
<1>4. ListsEffect
  <2>1. CASE status[m] = "RESOLVING"
    BY <1>1, <1>2, <2>1 DEF ListsEffect, ListsQuiet, SameRow
  <2>2. CASE status[m] # "RESOLVING"
    BY <1>1, <1>2, <2>2 DEF ListsEffect, ListsKept, SameRows
  <2> QED
    BY <2>1, <2>2
<1>5. HistoriesEffect
  BY <1>1 DEF HistoriesEffect, HistoriesKept
<1>6. ReportsEffect
  BY <1>1 DEF ReportsEffect, OutcomesGrow, VotesStay, ReportsKept
<1> QED
  BY <1>1, <1>3, <1>4, <1>5, <1>6, HarmlessRequest DEF HarmlessRows

LEMMA RestartIsHarmless ==
  ASSUME BoardInv, Restart PROVE Harmless
<1> USE DEF Restart, CachesRestart, rows
<1>0. RowsTyped /\ RowsAgree
  BY DEF BoardInv
<1>1. RowsTyped' /\ RowsAgree'
  BY <1>0 DEF RowsTyped, RowsAgree
<1>2. ListsEffect /\ HistoriesEffect
  BY DEF ListsEffect, ListsGone, HistoriesEffect, HistoriesGone
<1>3. ReportsEffect
  BY DEF ReportsEffect, OutcomesGrow, VotesStay, ReportsKept
<1> QED
  BY <1>1, <1>2, <1>3, HarmlessRequest DEF HarmlessRows

LEMMA RequestsAreHarmless ==
  ASSUME BoardInv, NEW m \in Markets, Requests(m) PROVE Harmless
<1>1. CASE CreateMarket(m) \/ PlaceBet(m) \/ PlaceBetCut(m) \/ SellShares(m)
  BY <1>1, CreateIsHarmless, BetIsHarmless, BetCutIsHarmless, SaleIsHarmless
<1>2. CASE RequestResolution(m)
  BY <1>2, RequestIsHarmless
<1>3. CASE \E round \in Rounds :
             ResolverAnswers(m, round) \/ ResolverAnswersCut(m, round)
  BY <1>3, AnswersAreHarmless, CutAnswersAreHarmless
<1>4. CASE (Initiates(m) \/ NonMemberVote(m)) /\ UNCHANGED scripts
  <2>1. \E o : o \in Outcome
    BY DEF Outcome
  <2> QED
    BY <1>4, <2>1, InitiationIsHarmless, VotesAreHarmless, HarmlessRequest
<1>5. ASSUME NEW o \in Outcome, UNCHANGED scripts,
             \/ ResolvesNow(m, o)
             \/ \E u \in Members : LastVote(m, u, o) \/ Vote(m, u, o)
      PROVE  Harmless
  BY <1>5, ResolvingIsHarmless, VotesAreHarmless, HarmlessRequest
<1> QED
  BY <1>1, <1>2, <1>3, <1>4, <1>5 DEF Requests

LEMMA StutterIsHarmless ==
  ASSUME BoardInv, UNCHANGED vars PROVE Harmless
<1> USE DEF vars, cacheVars, rows, resolving
<1>0. RowsTyped /\ RowsAgree
  BY DEF BoardInv
<1>1. RowsTyped' /\ RowsAgree'
  BY <1>0 DEF RowsTyped, RowsAgree
<1>2. ListsEffect /\ HistoriesEffect
  BY DEF ListsEffect, ListsKept, SameRows, HistoriesEffect, HistoriesKept
<1>3. ReportsEffect
  BY DEF ReportsEffect, OutcomesGrow, VotesStay, ReportsKept
<1> QED
  BY <1>1, <1>2, <1>3, HarmlessRequest DEF HarmlessRows

LEMMA NextKeepsInv ==
  ASSUME BoardInv, [Next]_vars PROVE BoardInv'
<1> SUFFICES Harmless
  BY HarmlessKeepsInv
<1>1. ASSUME NEW m \in Markets, Requests(m) \/ Closes(m) \/ WindowPasses(m)
      PROVE  Harmless
  BY <1>1, RequestsAreHarmless, TimeIsHarmless, WindowIsHarmless
<1>2. CASE Sweep \/ AdminTransition
  BY <1>2, ToResolvingIsHarmless
<1>3. ASSUME NEW c \in Clients, NEW f \in Filters, NEW limit \in Limits,
             NEW offset \in Offsets, ReadList(c, f, limit, offset)
      PROVE  Harmless
  BY <1>3, ListingIsHarmless, HarmlessRequest DEF ReadList
<1>r. ASSUME NEW f \in Filters, NEW limit \in Limits, NEW offset \in Offsets,
             ReadListAnew(f, limit, offset)
      PROVE  Harmless
  BY <1>r, ListingIsHarmless, HarmlessRequest DEF ReadListAnew
<1>4. ASSUME NEW e \in Endpoints, NEW m \in Markets, ReadHistory(e, m)
      PROVE  Harmless
  BY <1>4, HistoryReadIsHarmless
<1>5. CASE ScriptReads
  BY <1>5, ScriptReadIsHarmless
<1>6. ASSUME NEW m \in Markets,
             \/ ScriptSkips(m) \/ ScriptVotes(m)
             \/ \E o \in Outcome : ScriptResolves(m, o)
      PROVE  Harmless
  BY <1>6, SkipIsHarmless, ScriptVoteIsHarmless, ScriptResolvingIsHarmless
<1>7. CASE TimePasses \/ Restart
  BY <1>7, TimeIsHarmless, RestartIsHarmless
<1>8. CASE UNCHANGED vars
  BY <1>8, StutterIsHarmless
<1> QED
  BY <1>1, <1>2, <1>3, <1>r, <1>4, <1>5, <1>6, <1>7, <1>8 DEF Next

-----------------------------------------------------------------------------
\* BoardInv holds of every reachable state.
THEOREM BoardInvariant == Spec => []BoardInv
<1>1. Init => BoardInv
  BY InitEstablishesInv
<1>2. BoardInv /\ [Next]_vars => BoardInv'
  BY NextKeepsInv
<1> QED
  BY <1>1, <1>2, PTL DEF Spec

\* The types, and that who resolves leaves an outcome and who forms a committee
\* a deadline.
THEOREM BoardTypeCorrect == Spec => []TypeOK
<1>1. BoardInv => TypeOK
  BY DEF BoardInv, RowsTyped, RowsAgree, ScriptTold, ScriptTyped, TypeOK
<1> QED
  BY <1>1, BoardInvariant, PTL

\* A list answered from the cache of list_markets is what the rows say now, but
\* for the markets changed by a route that does not invalidate it.
THEOREM ListsAreFresh == Spec => []ListFresh
<1>1. BoardInv => ListFresh
  BY DEF BoardInv, ListsTold, ListTold, ListFresh, ListHit
<1> QED
  BY <1>1, BoardInvariant, PTL

\* A cached answer about the bets of a market has them all, unless place_bet
\* raised before it could forget the old one.
THEOREM HistoriesAreComplete == Spec => []HistoryComplete
<1>1. BoardInv => HistoryComplete
  BY DEF BoardInv, HistoriesTold, HistoryComplete, HistoryHit
<1> QED
  BY <1>1, BoardInvariant, PTL

\* What get_resolution_votes reports after one round of votes is an outcome the
\* market was given.
THEOREM ReportsAreTruthful == Spec => []ReportTruthful
<1>1. BoardInv => ReportTruthful
  BY DEF BoardInv, ReportsTold, ReportTruthful
<1> QED
  BY <1>1, BoardInvariant, PTL

\* What auto_resolve.py counts as resolved was given the outcome of the script,
\* or has its vote for it, cast as a member of the committee.
THEOREM ScriptClaimsGrounded == Spec => []ClaimsHaveGrounds
<1>1. BoardInv => ClaimsHaveGrounds
  BY DEF BoardInv, ScriptTold, Grounded, ClaimsHaveGrounds
<1> QED
  BY <1>1, BoardInvariant, PTL

-----------------------------------------------------------------------------
(* The tags.  A copy and a list with one tag are pages of the same rows,   *)
(* though maybe of different size; those of one length that begin at one   *)
(* place are the same.                                                     *)

Usage == [trades : Nat, rounds : Nat, reads : Nat, cuts : Nat, runs : Nat,
          transitions : Nat, restarts : Nat]

\* The client's copy was a page when its generation was current.
CopyTold(c) ==
  \E g \in Nat, f \in Filters, limit \in Limits :
    /\ copy[c].tag = <<g, f, Cardinality(DOMAIN copy[c].rows)>>
    /\ g <= generation
    /\ g = generation /\ quiet = {} => copy[c].rows = Page(f, limit, copy[c].offset)

ListTagged(f) ==
  /\ lists[f].tag = Tag(f, lists[f].rows)
  /\ lists[f].limit \in Limits /\ lists[f].offset \in Offsets

TagsTold ==
  /\ used \in Usage /\ DOMAIN copy = Clients
  /\ \A f \in Filters : lists[f] # None => ListTagged(f)
  /\ used.restarts = 0 => \A c \in Clients : copy[c] # None => CopyTold(c)

\* No restart; the generation is over, or a market changes without that, or
\* none does, and the lists are as they were or read.
NoRestart == used' \in Usage /\ used'.restarts = used.restarts

TagsKept ==
  /\ NoRestart /\ UNCHANGED copy
  /\ \/ ListsGone /\ generation' = generation + 1
     \/ UNCHANGED <<lists, generation>> /\ quiet' # {}
     \/ UNCHANGED <<lists, generation, quiet>> /\ SameRows
     \/ \E f \in Filters, limit \in Limits, offset \in Offsets :
          ListsRead(f, limit, offset) /\ UNCHANGED generation

TagsEffect ==
  \/ TagsKept
  \/ ListsGone /\ used' \in Usage /\ used'.restarts # 0 /\ UNCHANGED copy
  \/ \E c \in Clients, f \in Filters, limit \in Limits, offset \in Offsets :
       ReadList(c, f, limit, offset) /\ NoRestart

LEMMA PagesAlike ==
  ASSUME NEW f, NEW a \in Nat, NEW b \in Nat, NEW offset \in Nat,
         Cardinality(DOMAIN Page(f, a, offset)) = Cardinality(DOMAIN Page(f, b, offset))
  PROVE  Page(f, a, offset) = Page(f, b, offset)
<1> DEFINE Shown(n) == {k \in Markets : Passes(f, k) /\ Place(f, k) >= offset
                                                     /\ Place(f, k) < offset + n}
<1>1. \A n : Page(f, n, offset) = [m \in Shown(n) |-> Row(m)]
             /\ DOMAIN Page(f, n, offset) = Shown(n)
  BY DEF Page
<1>2. \A k : Place(f, k) \in Nat
  BY BoardAssumption, FS_Subset, FS_CardinalityType DEF Place
<1>3. \A n : IsFiniteSet(Shown(n))
  BY BoardAssumption, FS_Subset
<1>4. Shown(a) \subseteq Shown(b) \/ Shown(b) \subseteq Shown(a)
  <2>1. CASE a <= b
    BY <1>2, <2>1
  <2>2. CASE b <= a
    BY <1>2, <2>2
  <2> QED
    BY <2>1, <2>2
<1>5. Cardinality(Shown(a)) = Cardinality(Shown(b))
  BY <1>1
<1> HIDE DEF Shown
<1>6. Shown(a) = Shown(b)
  BY <1>3, <1>4, <1>5, FS_Subset
<1> QED
  BY <1>1, <1>6

LEMMA InitTagsTold == Init => TagsTold
BY DEF Init, CachesInit, TagsTold, Usage

\* The answer of list_markets carries the tag of its rows.
LEMMA AnswerTold ==
  ASSUME BoardInv, TagsTold,
         NEW f \in Filters, NEW limit \in Limits, NEW offset \in Offsets
  PROVE  LET page == Answer(f, limit, offset) IN
         /\ page.tag = Tag(f, page.rows)
         /\ page.limit \in Limits /\ page.offset \in Offsets
         /\ quiet = {} => page.rows = Page(f, page.limit, page.offset)
<1>1. CASE ListHit(f)
  BY <1>1 DEF Answer, ListHit, TagsTold, ListTagged, BoardInv, ListsTold, ListTold
<1>2. CASE ~ListHit(f)
  BY <1>2 DEF Answer, ListEntry
<1> QED
  BY <1>1, <1>2

LEMMA ListTagsStay ==
  ASSUME BoardInv, TagsTold,
         NEW f \in Filters, NEW limit \in Limits, NEW offset \in Offsets,
         ListsRead(f, limit, offset), UNCHANGED generation
  PROVE  \A g \in Filters : lists'[g] # None => ListTagged(g)'
<1> SUFFICES ASSUME NEW g \in Filters, lists'[g] # None PROVE ListTagged(g)'
  OBVIOUS
<1>1. CASE g = f
  <2>1. lists'[g] = Answer(f, limit, offset)
    BY <1>1 DEF ListsRead, BoardInv, RowsTyped
  <2> QED
    BY <1>1, <2>1, AnswerTold DEF ListTagged, Tag
<1>2. CASE g # f
  <2>1. lists'[g] = lists[g]
    BY <1>2 DEF ListsRead, BoardInv, RowsTyped
  <2> QED
    BY <2>1 DEF TagsTold, ListTagged, Tag
<1> QED
  BY <1>1, <1>2

\* A copy nobody touches stays what it was.
LEMMA CopyStaysTold ==
  ASSUME NEW c, CopyTold(c), copy'[c] = copy[c], generation \in Nat,
         \/ generation' = generation + 1
         \/ generation' = generation /\ quiet' # {}
         \/ UNCHANGED <<generation, quiet>> /\ SameRows
  PROVE  CopyTold(c)'
<1>1. PICK g \in Nat, f \in Filters, limit \in Limits :
        /\ copy[c].tag = <<g, f, Cardinality(DOMAIN copy[c].rows)>>
        /\ g <= generation
        /\ g = generation /\ quiet = {} =>
             copy[c].rows = Page(f, limit, copy[c].offset)
  BY DEF CopyTold
<1>2. g <= generation'
  BY <1>1
<1>3. g = generation' /\ quiet' = {} =>
        copy'[c].rows = Page(f, limit, copy[c].offset)'
  <2>1. CASE generation' = generation + 1
    BY <1>1, <2>1
  <2>2. CASE generation' = generation /\ quiet' # {}
    BY <2>2
  <2>3. CASE UNCHANGED <<generation, quiet>> /\ SameRows
    <3>1. \A n, offset : Page(f, n, offset)' = Page(f, n, offset)
      BY <2>3, PageStays
    <3>2. Page(f, limit, copy[c].offset)' = Page(f, limit, copy[c].offset)
      BY <3>1 DEF Page
    <3> QED
      BY <1>1, <2>3, <3>2
  <2> QED
    BY <2>1, <2>2, <2>3
<1> QED
  BY <1>1, <1>2, <1>3 DEF CopyTold

LEMMA TagsStayTold ==
  ASSUME BoardInv, TagsTold, TagsEffect
  PROVE  TagsTold'
<1>0. generation \in Nat
  BY DEF BoardInv, RowsTyped
<1>1. CASE TagsKept
  <2>1. \A f \in Filters : lists'[f] # None => ListTagged(f)'
    <3>1. CASE ListsGone
      BY <3>1 DEF ListsGone
    <3>2. CASE UNCHANGED <<lists, generation>>
      BY <3>2 DEF TagsTold, ListTagged, Tag
    <3>3. CASE \E f \in Filters, limit \in Limits, offset \in Offsets :
                 ListsRead(f, limit, offset) /\ UNCHANGED generation
      BY <3>3, ListTagsStay
    <3> QED
      BY <1>1, <3>1, <3>2, <3>3 DEF TagsKept
  <2>2. ASSUME NEW c \in Clients, CopyTold(c) PROVE CopyTold(c)'
    BY <1>0, <1>1, <2>2, CopyStaysTold DEF TagsKept, ListsRead
  <2> QED
    BY <1>1, <2>1, <2>2 DEF TagsTold, TagsKept, NoRestart
<1>2. CASE ListsGone /\ used' \in Usage /\ used'.restarts # 0 /\ UNCHANGED copy
  BY <1>2 DEF TagsTold, ListsGone
<1>3. ASSUME NEW c \in Clients, NEW f \in Filters, NEW limit \in Limits,
             NEW offset \in Offsets, ReadList(c, f, limit, offset), NoRestart
      PROVE  TagsTold'
  <2>1. /\ ListsRead(f, limit, offset) /\ UNCHANGED <<generation, quiet>> /\ SameRows
    BY <1>3 DEF ReadList, Lists, ListsRead, SameRows, rows
  <2>2. DOMAIN copy' = Clients
    BY <1>3 DEF ReadList, TagsTold
  <2>3. ASSUME NEW d \in Clients, used'.restarts = 0, copy'[d] # None
        PROVE  CopyTold(d)'
    <3>1. CASE copy'[d] = copy[d]
      BY <1>0, <1>3, <2>1, <2>3, <3>1, CopyStaysTold DEF TagsTold, NoRestart
    <3>2. CASE copy'[d] # copy[d]
      <4> DEFINE page == Answer(f, limit, offset)
      <4>1. /\ copy'[d].tag = page.tag /\ copy'[d].rows = page.rows
            /\ copy'[d].offset = page.offset
        BY <1>3, <3>2 DEF ReadList, TagsTold
      <4>2. copy'[d].tag = <<generation, f, Cardinality(DOMAIN copy'[d].rows)>>
        BY <4>1, AnswerTold DEF Tag
      <4>3. PICK size \in Limits :
              quiet = {} => copy'[d].rows = Page(f, size, page.offset)
        BY <4>1, AnswerTold
      <4>4. Page(f, size, copy[d].offset)' = Page(f, size, page.offset)
        <5> HIDE DEF page
        <5>1. \A k : Page(f, size, k)' = Page(f, size, k)
          BY <2>1, PageStays
        <5> QED
          BY <4>1, <5>1 DEF Page
      <4> QED
        BY <1>0, <2>1, <4>2, <4>3, <4>4 DEF CopyTold
    <3> QED
      BY <3>1, <3>2
  <2> QED
    BY <1>3, <2>1, <2>2, <2>3, ListTagsStay DEF TagsTold, NoRestart
<1> QED
  BY <1>1, <1>2, <1>3 DEF TagsEffect

LEMMA UsingIsNoRestart ==
  ASSUME TagsTold, NEW bound,
         \/ UNCHANGED used
         \/ Use("trades", bound) \/ Use("rounds", bound) \/ Use("reads", bound)
         \/ Use("cuts", bound) \/ Use("runs", bound) \/ Use("transitions", bound)
  PROVE  NoRestart
BY DEF TagsTold, Usage, Use, NoRestart

LEMMA RequestsKeepTags ==
  ASSUME BoardInv, TagsTold, NEW m \in Markets, Requests(m)
  PROVE  TagsKept
<1> USE DEF TagsKept, Invalidates, Invalidated, Quietly, cacheVars, ListsGone
<1>1. CASE CreateMarket(m) \/ PlaceBet(m) \/ SellShares(m)
  BY <1>1, UsingIsNoRestart DEF CreateMarket, PlaceBet, SellShares, Trades
<1>2. CASE PlaceBetCut(m)
  BY <1>2, UsingIsNoRestart DEF PlaceBetCut
<1>3. CASE RequestResolution(m)
  BY <1>3, UsingIsNoRestart DEF RequestResolution, rows, SameRows
<1>4. ASSUME NEW round \in Rounds,
             ResolverAnswers(m, round) \/ ResolverAnswersCut(m, round)
      PROVE  TagsKept
  BY <1>4, UsingIsNoRestart DEF ResolverAnswers, ResolverAnswersCut, SavesRound,
                                      SameRows
<1>5. CASE Initiates(m) \/ NonMemberVote(m)
  BY <1>5, UsingIsNoRestart DEF Initiates, NonMemberVote, Resolution
<1>6. ASSUME NEW o \in Outcome,
             \/ ResolvesNow(m, o)
             \/ \E u \in Members : LastVote(m, u, o) \/ Vote(m, u, o)
      PROVE  TagsKept
  BY <1>6, UsingIsNoRestart DEF ResolvesNow, LastVote, Vote, Resolution
<1> QED
  BY <1>1, <1>2, <1>3, <1>4, <1>5, <1>6 DEF Requests

LEMMA ScriptKeepsTags ==
  ASSUME BoardInv, TagsTold, NEW m \in Markets, NEW o \in Outcome,
         ScriptSkips(m) \/ ScriptVotes(m) \/ ScriptResolves(m, o)
  PROVE  TagsKept
<1> USE DEF TagsKept, Invalidates, Invalidated, Quietly, cacheVars, ListsGone
<1>1. CASE ScriptSkips(m)
  BY <1>1, UsingIsNoRestart DEF ScriptSkips, rows, SameRows
<1>2. CASE ScriptVotes(m)
  BY <1>2, UsingIsNoRestart DEF ScriptVotes, LastVote, Vote, NonMemberVote, Resolution
<1>3. CASE ScriptResolves(m, o)
  BY <1>3, UsingIsNoRestart
     DEF ScriptResolves, ResolvesNow, Initiates, Resolution, rows, SameRows
<1> QED
  BY <1>1, <1>2, <1>3

LEMMA LargestIsALimit == Largest \in Limits
BY BoardAssumption DEF Largest

LEMMA NextKeepsTags ==
  ASSUME BoardInv, TagsTold, [Next]_vars PROVE TagsTold'
<1> SUFFICES TagsEffect
  BY TagsStayTold
<1> USE DEF TagsEffect
<1>1. ASSUME NEW m \in Markets, Requests(m)
      PROVE  TagsEffect
  BY <1>1, RequestsKeepTags
<1>2. CASE Sweep \/ AdminTransition
  BY <1>2, UsingIsNoRestart
     DEF Sweep, AdminTransition, ToResolving, Invalidates, Invalidated, TagsKept,
         ListsGone
<1>3. ASSUME NEW c \in Clients, NEW f \in Filters, NEW limit \in Limits,
             NEW offset \in Offsets, ReadList(c, f, limit, offset)
      PROVE  TagsEffect
  BY <1>3, UsingIsNoRestart DEF ReadList
<1>r. ASSUME NEW f \in Filters, NEW limit \in Limits, NEW offset \in Offsets,
             ReadListAnew(f, limit, offset)
      PROVE  TagsEffect
  BY <1>r, UsingIsNoRestart
     DEF ReadListAnew, Lists, TagsKept, ListsRead, rows, SameRows
<1>4. ASSUME NEW e \in Endpoints, NEW m \in Markets, ReadHistory(e, m)
      PROVE  TagsEffect
  BY <1>4, UsingIsNoRestart DEF ReadHistory, TagsKept, rows, SameRows
<1>5. CASE ScriptReads
  BY <1>5, UsingIsNoRestart, LargestIsALimit, BoardAssumption
     DEF ScriptReads, Lists, TagsKept, ListsRead, rows, SameRows
<1>6. ASSUME NEW m \in Markets,
             \/ ScriptSkips(m) \/ ScriptVotes(m)
             \/ \E o \in Outcome : ScriptResolves(m, o)
      PROVE  TagsEffect
  <2>1. \E o : o \in Outcome
    BY DEF Outcome
  <2> QED
    BY <1>6, <2>1, ScriptKeepsTags
<1>7. ASSUME TimePasses \/ UNCHANGED vars
             \/ (\E m \in Markets : Closes(m))
      PROVE  TagsEffect
  BY <1>7, UsingIsNoRestart
     DEF TimePasses, Closes, vars, cacheVars, rows, TagsKept, SameRows
<1>w. ASSUME NEW m \in Markets, WindowPasses(m) PROVE TagsEffect
  <2>1. CASE status[m] = "RESOLVING"
    BY <1>w, <2>1, UsingIsNoRestart DEF WindowPasses, cacheVars, TagsKept
  <2>2. CASE status[m] # "RESOLVING"
    <3>1. SameRows
      BY <1>w, <2>2 DEF WindowPasses, SameRows, BoardInv, RowsTyped
    <3> QED
      BY <1>w, <2>2, <3>1, UsingIsNoRestart DEF WindowPasses, cacheVars, TagsKept
  <2> QED
    BY <2>1, <2>2
<1>8. CASE Restart
  BY <1>8 DEF Restart, CachesRestart, Use, TagsTold, Usage, ListsGone
<1> QED
  BY <1>1, <1>2, <1>3, <1>4, <1>5, <1>6, <1>7, <1>w, <1>r, <1>8 DEF Next

\* A client that list_markets answers with 304 has in its copy what the cache
\* would have sent, if the two begin at one offset, as long as the process lives
\* and every change invalidates.
THEOREM TagsTellTruthFromOneOffset == Spec => []TagsTellFromOneOffset
<1>1. ASSUME BoardInv, TagsTold PROVE TagsTellFromOneOffset
  <2> SUFFICES ASSUME NEW c \in Clients, NEW f \in Filters,
                      copy[c] # None, ListHit(f), copy[c].tag = lists[f].tag,
                      quiet = {}, used.restarts = 0,
                      copy[c].offset = lists[f].offset
               PROVE  copy[c].rows = lists[f].rows
    BY DEF TagsTellFromOneOffset, Told304, NothingMissed
  <2> DEFINE offset == lists[f].offset
  <2>1. /\ lists[f].tag = <<generation, f, Cardinality(DOMAIN lists[f].rows)>>
        /\ lists[f].limit \in Limits /\ offset \in Offsets
        /\ lists[f].rows = Page(f, lists[f].limit, offset)
    BY <1>1 DEF ListHit, TagsTold, ListTagged, Tag, BoardInv, ListsTold, ListTold
  <2>2. PICK g \in Nat, h \in Filters, limit \in Limits :
          /\ copy[c].tag = <<g, h, Cardinality(DOMAIN copy[c].rows)>>
          /\ g = generation /\ quiet = {} => copy[c].rows = Page(h, limit, offset)
    BY <1>1 DEF TagsTold, CopyTold
  <2>3. g = generation /\ h = f
        /\ Cardinality(DOMAIN copy[c].rows) = Cardinality(DOMAIN lists[f].rows)
    BY <2>1, <2>2
  <2>4. copy[c].rows = Page(f, limit, offset)
    BY <2>2, <2>3
  <2>5. lists[f].limit \in Nat /\ limit \in Nat /\ offset \in Nat
    BY <2>1, BoardAssumption
  <2>6. PICK n \in Nat : n = lists[f].limit
    BY <2>5
  <2>7. Cardinality(DOMAIN Page(f, limit, offset))
          = Cardinality(DOMAIN Page(f, n, offset))
    BY <2>1, <2>3, <2>4, <2>6
  <2> HIDE DEF offset
  <2>8. Page(f, limit, offset) = Page(f, n, offset)
    BY <2>5, <2>7, PagesAlike
  <2> QED
    BY <2>1, <2>4, <2>6, <2>8
<1>2. Init => BoardInv /\ TagsTold
  BY InitEstablishesInv, InitTagsTold
<1>3. BoardInv /\ TagsTold /\ [Next]_vars => (BoardInv /\ TagsTold)'
  BY NextKeepsInv, NextKeepsTags
<1> QED
  BY <1>1, <1>2, <1>3, PTL DEF Spec
=============================================================================
