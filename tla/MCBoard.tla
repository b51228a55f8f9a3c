------------------------------ MODULE MCBoard ------------------------------
(* Instances of Board for TLC: a committee of two, of whom the script is    *)
(* one, and three agents.                                                    *)
EXTENDS Board

CONSTANTS u1, u2, c1

\* Input bounds.  Three trades, reads, rounds, runs of the script or mishaps,
\* in any mix and order.  While there is a second market, it is there to be
\* listed, expire and be resolved next to the first, which is the one traded.
MaxUse == 3
Spent == used.trades + used.rounds + used.reads + used.cuts + used.runs
           + used.transitions + used.restarts
SecondIsListed ==
  status[2] # "NONE" =>
    /\ window[1] = "unset" /\ bets[2] = 0
    /\ \A e \in Endpoints : histories[e][2] = None
    /\ used.rounds + used.cuts + used.transitions + used.restarts = 0
\* A page that begins with the second market is cached once there is one, of
\* one of the filters, of one size, as it ends with that market whatever the
\* size, and while there are no histories beside it.
OffsetHasMarkets ==
  \A f \in Filters :
    lists[f] # None /\ lists[f].offset > 0 =>
      /\ status[2] # "NONE" /\ f = "ALL" /\ lists[f].limit = 1
      /\ \A e \in Endpoints : histories[e][1] = None
\* Who caches a list first is a client, or the script: a reader that keeps
\* nothing matters to who has a copy.
ClientsFirst ==
  (\E f \in Filters : lists[f] # None) =>
    used.runs > 0 \/ \E c \in Clients : copy[c] # None
\* Nothing ages before anything is read.
ReadBeforeTime == clock = 0 \/ used.reads + used.runs > 0
\* The histories share nothing with the lists, the script and the resolver but
\* the bet that changes them: they are read where none of these is at work.
HistoriesApart ==
  (\E e \in Endpoints, m \in Markets : histories[e][m] # None) =>
    /\ \A f \in Filters : lists[f] = None
    /\ \A c \in Clients : copy[c] = None
    /\ used.runs + used.rounds + used.transitions = 0
\* A run of the script that came to nothing was a reader of the list.
ScriptCounts == used.runs > 0 /\ script.pc = "idle" => claims # {}
\* The two outcomes are alike, market by market: the script finds YES.
ScriptFindsYes == script.outcome # "NO" /\ \A c \in claims : c[2] = "YES"
Bounds ==
  /\ Spent <= MaxUse /\ SecondIsListed /\ OffsetHasMarkets /\ ClientsFirst
  /\ ReadBeforeTime /\ HistoriesApart /\ ScriptCounts /\ ScriptFindsYes
=============================================================================
