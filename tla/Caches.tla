------------------------------- MODULE Caches -------------------------------
(***************************************************************************)
(* market_cache.py, the lists of markets by status filter, and             *)
(* history_cache.py, two answers by market: the history and the bets.      *)
(*                                                                         *)
(* What is cached is whatever the routes put there; a list is a function   *)
(* whose domain are the markets listed, and its length their number.  A    *)
(* tag is the fingerprint the code hashes.  Entries that are too old are   *)
(* also dropped when they are looked up, which nobody can tell.            *)
(***************************************************************************)
EXTENDS Integers, FiniteSets

CONSTANTS
  Filters,    \* the status filters
  Endpoints,  \* what the history cache keeps of a market
  Markets,
  None,       \* no entry
  ListTtl, HistoryTtl, \* DEFAULT_TTL_SECONDS of each
  MaxTime     \* bound: the clock stops there

ASSUME TtlAssumption == {ListTtl, HistoryTtl, MaxTime} \subseteq Nat

VARIABLES
  clock,      \* time.monotonic()
  lists,      \* MarketListCache._entries
  generation, \* MarketListCache._generation
  histories   \* HistoryCache._entries

cacheVars == <<clock, lists, generation, histories>>

CachesInit ==
  /\ clock = 0
  /\ lists = [f \in Filters |-> None]
  /\ generation = 0
  /\ histories = [e \in Endpoints |-> [m \in Markets |-> None]]

\* MarketListCache.get finds an entry.
ListHit(f) == lists[f] # None /\ clock - lists[f].at <= ListTtl

Tag(f, rows) == <<generation, f, Cardinality(DOMAIN rows)>>

\* What MarketListCache.set stores for f; which page it is, neither the key nor
\* the tag says.
ListEntry(f, rows, limit, offset) ==
  [rows |-> rows, limit |-> limit, offset |-> offset, tag |-> Tag(f, rows),
   at |-> clock]

\* Bug form: the generation stays.
BugInvalidated ==
  lists' = [f \in Filters |-> None] /\ UNCHANGED generation

\* MarketListCache.invalidate
Invalidated ==
  lists' = [f \in Filters |-> None] /\ generation' = generation + 1

HistoryHit(e, m) ==
  histories[e][m] # None /\ clock - histories[e][m].at <= HistoryTtl

HistoryEntry(data) == [data |-> data, at |-> clock]

\* Bug form: only the history is forgotten, and not the bets.
BugForgotten(m) ==
  histories' = [histories EXCEPT !["history"][m] = None]

\* HistoryCache.invalidate: all that is kept of m.
Forgotten(m) ==
  histories' = [e \in Endpoints |-> [histories[e] EXCEPT ![m] = None]]

Tick == clock < MaxTime /\ clock' = clock + 1

\* Both live in the memory of the process.
CachesRestart ==
  /\ lists' = [f \in Filters |-> None]
  /\ generation' = 0
  /\ histories' = [e \in Endpoints |-> [m \in Markets |-> None]]
=============================================================================
