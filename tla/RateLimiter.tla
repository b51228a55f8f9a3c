---------------------------- MODULE RateLimiter ----------------------------
(***************************************************************************)
(* The sliding-window limiter of rate_limiter.py, one for the process.  A  *)
(* caller is a key such as "chat:<user>" or "register:<ip>"; every key is  *)
(* always checked with the same limit and window.                          *)
(*                                                                         *)
(* The limiter keeps the times of the requests it allowed.  Two requests   *)
(* may have the same time, so a request is a stamp: its time and a serial  *)
(* number, which the code does not keep.  The clock does not run backwards.*)
(***************************************************************************)
EXTENDS Integers, FiniteSets

CONSTANTS
  Callers,   \* the keys
  Limit,     \* max_requests of each
  Window,    \* window_seconds of each
  MaxWindow, \* max_window of _cleanup
  MaxTime    \* bound: the clock stops there

ASSUME LimitsAssumption ==
  /\ Limit \in [Callers -> Nat]
  /\ MaxWindow \in Nat /\ MaxTime \in Nat
  /\ Window \in [Callers -> 0..MaxWindow]

VARIABLES
  now,      \* time.time()
  requests, \* _requests: the stamps kept for each key
  allowed   \* history: the stamps of all requests that were allowed

limiterVars == <<now, requests, allowed>>

Stamps == [at : Nat, serial : Nat]

LimiterInit ==
  /\ now = 0
  /\ requests = [c \in Callers |-> {}]
  /\ allowed  = [c \in Callers |-> {}]

\* Bug form: a request is forgotten a moment before it leaves the window.
BugRecent(c) == {s \in requests[c] : s.at > now - Window[c] + 1}

\* What is left of a key's stamps after pruning.
Recent(c) == {s \in requests[c] : s.at > now - Window[c]}

\* _cleanup forgets the keys of which all stamps are older than any window.
Stale(c) == \A s \in requests[c] : s.at <= now - MaxWindow

Full(c) == Cardinality(Recent(c)) >= Limit[c]

NewStamp(c) == [at |-> now, serial |-> Cardinality(allowed[c])]

\* check returns True.  After every hundredth request allowed it also cleans up.
Allow(c) ==
  /\ ~Full(c)
  /\ LET kept == [requests EXCEPT ![c] = Recent(c) \cup {NewStamp(c)}] IN
     \/ requests' = kept
     \/ requests' = [d \in Callers |->
          IF d # c /\ Stale(d) THEN {} ELSE kept[d]]
  /\ allowed' = [allowed EXCEPT ![c] = @ \cup {NewStamp(c)}]
  /\ UNCHANGED now

\* check returns False: a refused request is not recorded.
Refuse(c) ==
  /\ Full(c)
  /\ requests' = [requests EXCEPT ![c] = Recent(c)]
  /\ UNCHANGED <<now, allowed>>

Tick ==
  /\ now < MaxTime
  /\ now' = now + 1
  /\ UNCHANGED <<requests, allowed>>

LimiterNext == (\E c \in Callers : Allow(c) \/ Refuse(c)) \/ Tick

LimiterSpec == LimiterInit /\ [][LimiterNext]_limiterVars

-----------------------------------------------------------------------------
(* Correctness.                                                            *)

LimiterTypeOK ==
  /\ now \in Nat
  /\ requests \in [Callers -> SUBSET Stamps]
  /\ allowed \in [Callers -> SUBSET Stamps]

\* The requests of c allowed in the window that ends at time t.
InWindow(c, t) == {s \in allowed[c] : t - Window[c] < s.at /\ s.at <= t}

\* In no window of its length, wherever it begins, is a caller allowed more
\* than its limit, although the limiter forgets stamps in every check.
WindowBound ==
  \A c \in Callers : \A t \in 0..now : Cardinality(InWindow(c, t)) <= Limit[c]

\* A caller is refused only when it really used up the window that ends now.
RefusedOnlyWhenFull ==
  \A c \in Callers : Full(c) => Cardinality(InWindow(c, now)) >= Limit[c]

\* The limit is neither exceeded nor applied too early.
LimitIsExact == WindowBound /\ RefusedOnlyWhenFull
=============================================================================
