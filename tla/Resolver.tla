------------------------------ MODULE Resolver ------------------------------
(***************************************************************************)
(* The agents of resolver.py and what is made of their votes, in           *)
(* resolve_market and in the report of get_resolution_votes.               *)
(*                                                                         *)
(* An agent searches the web and asks a model, both external; it votes YES *)
(* or NO, or has no vote to give: an error, an answer of another form, a   *)
(* timeout.  All agents are asked at once and share nothing, so a round is *)
(* just how many voted what.                                               *)
(***************************************************************************)
EXTENDS Integers

CONSTANTS
  NumResolvers,     \* NUM_RESOLVERS
  RequiredMajority  \* REQUIRED_MAJORITY, and the 5 of the report

ASSUME ResolverAssumption ==
  /\ NumResolvers \in Nat /\ RequiredMajority \in Nat
  /\ 2 * RequiredMajority > NumResolvers

\* What asyncio.gather may return.
Rounds ==
  {round \in [yes : 0..NumResolvers, no : 0..NumResolvers] :
     round.yes + round.no <= NumResolvers}

\* Bug form: more than the required majority is asked for.
BugVerdict(round) ==
  CASE round.yes > RequiredMajority -> "YES"
    [] round.no > RequiredMajority -> "NO"
    [] round.yes + round.no < RequiredMajority -> "failed"
    [] OTHER -> "disputed"

Verdict(round) ==
  CASE round.yes >= RequiredMajority -> "YES"
    [] round.yes < RequiredMajority /\ round.no >= RequiredMajority -> "NO"
    [] round.yes + round.no < RequiredMajority -> "failed"
    [] OTHER -> "disputed"

\* What the report says of an unresolved market with these votes saved.
Reported(saved) ==
  CASE saved.yes >= RequiredMajority -> "YES"
    [] saved.yes < RequiredMajority /\ saved.no >= RequiredMajority -> "NO"
    [] OTHER -> "disputed"

\* save_resolution_votes adds a round to those saved before.
Saved(saved, round) ==
  [yes |-> saved.yes + round.yes, no |-> saved.no + round.no]
=============================================================================
