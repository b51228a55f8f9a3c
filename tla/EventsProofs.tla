---------------------------- MODULE EventsProofs ----------------------------
(***************************************************************************)
(* The rate limiter and the streams of events, for any callers, limits,    *)
(* windows, streams, filters and sizes of the queues.                      *)
(*                                                                         *)
(* WindowBound speaks of all requests ever allowed, the limiter only looks *)
(* at the stamps it kept.  What links the two is that every stamp young    *)
(* enough to be in a window that ends now, or later, has been kept, by the *)
(* pruning in check and by _cleanup alike.                                 *)
(*                                                                         *)
(* NoGaps speaks of what was sent to a stream and what waits in its queue, *)
(* as one sequence.  The proof follows that sequence through each way it   *)
(* can change: an event or the sentinel joins it, the sentinel leaves it,  *)
(* and an event moves from one part of it to the other.                    *)
(***************************************************************************)
EXTENDS Events, FiniteSetTheorems, SequenceTheorems, TLAPS

\* Every stamp that may still matter is kept.
YoungAreKept ==
  \A c \in Callers : \A s \in allowed[c] :
    s.at > now - Window[c] => s \in requests[c]

\* The limiter keeps only stamps of requests it allowed, all of the past, and
\* finitely many.
KeptWereAllowed ==
  \A c \in Callers :
    /\ requests[c] \subseteq allowed[c]
    /\ IsFiniteSet(allowed[c])
    /\ \A s \in allowed[c] : s.at <= now

LimiterInv == LimiterTypeOK /\ YoungAreKept /\ KeptWereAllowed /\ WindowBound

-----------------------------------------------------------------------------
LEMMA InitEstablishesLimiterInv == LimiterInit => LimiterInv
<1> SUFFICES ASSUME LimiterInit PROVE LimiterInv
  OBVIOUS
<1>1. LimiterTypeOK
  BY DEF LimiterInit, LimiterTypeOK
<1>2. YoungAreKept
  BY DEF LimiterInit, YoungAreKept
<1>3. KeptWereAllowed
  BY FS_EmptySet DEF LimiterInit, KeptWereAllowed
<1>4. WindowBound
  <2> SUFFICES ASSUME NEW c \in Callers, NEW t \in 0..now
               PROVE  Cardinality(InWindow(c, t)) <= Limit[c]
    BY DEF WindowBound
  <2>1. InWindow(c, t) = {}
    BY DEF LimiterInit, InWindow
  <2> QED
    BY <2>1, FS_EmptySet, LimitsAssumption
<1> QED
  BY <1>1, <1>2, <1>3, <1>4 DEF LimiterInv

\* Limits are numbers, and no window is longer than what _cleanup keeps.
LEMMA ConstantTypes ==
  ASSUME NEW c \in Callers
  PROVE  Limit[c] \in Nat /\ Window[c] \in Nat /\ Window[c] <= MaxWindow
         /\ MaxWindow \in Nat
BY LimitsAssumption

\* A request in a window that ends now is among the stamps pruning leaves.
LEMMA WindowIsRecent ==
  ASSUME LimiterInv, NEW c \in Callers
  PROVE  InWindow(c, now) \subseteq Recent(c)
<1> SUFFICES ASSUME NEW s \in InWindow(c, now) PROVE s \in Recent(c)
  OBVIOUS
<1>1. s \in allowed[c] /\ now - Window[c] < s.at
  BY DEF InWindow
<1>2. s.at \in Nat /\ now \in Nat
  BY <1>1 DEF LimiterInv, LimiterTypeOK, Stamps
<1>3. s.at > now - Window[c]
  BY <1>1, <1>2, ConstantTypes
<1> QED
  BY <1>1, <1>3 DEF LimiterInv, YoungAreKept, Recent

\* Windows are finite sets of stamps.
LEMMA WindowIsFinite ==
  ASSUME LimiterInv, NEW c \in Callers, NEW t
  PROVE  IsFiniteSet(InWindow(c, t)) /\ Cardinality(InWindow(c, t)) \in Nat
<1>1. InWindow(c, t) \subseteq allowed[c] /\ IsFiniteSet(allowed[c])
  BY DEF InWindow, LimiterInv, KeptWereAllowed
<1> QED
  BY <1>1, FS_Subset, FS_CardinalityType

\* What pruning leaves is a finite set too.
LEMMA RecentIsFinite ==
  ASSUME LimiterInv, NEW c \in Callers
  PROVE  IsFiniteSet(Recent(c)) /\ Cardinality(Recent(c)) \in Nat
<1>1. Recent(c) \subseteq allowed[c] /\ IsFiniteSet(allowed[c])
  BY DEF Recent, LimiterInv, KeptWereAllowed
<1> QED
  BY <1>1, FS_Subset, FS_CardinalityType

-----------------------------------------------------------------------------
\* A request is allowed, with or without a cleanup.
LEMMA AllowKeepsInv ==
  ASSUME LimiterInv, NEW c \in Callers, Allow(c)
  PROVE  LimiterInv'
<1> DEFINE new == NewStamp(c)
<1>1. now \in Nat /\ now' = now
  BY DEF LimiterInv, LimiterTypeOK, Allow
<1>2. new \in Stamps /\ new.at = now
  <2>1. Cardinality(allowed[c]) \in Nat
    BY FS_CardinalityType DEF LimiterInv, KeptWereAllowed
  <2> QED
    BY <1>1, <2>1 DEF NewStamp, Stamps
<1>3. /\ allowed' = [allowed EXCEPT ![c] = @ \cup {new}]
      /\ allowed \in [Callers -> SUBSET Stamps]
      /\ requests \in [Callers -> SUBSET Stamps]
  BY DEF Allow, LimiterInv, LimiterTypeOK
<1>4. \A d \in Callers :
        \/ requests'[d] = IF d = c THEN Recent(c) \cup {new} ELSE requests[d]
        \/ d # c /\ Stale(d) /\ requests'[d] = {}
  BY <1>3 DEF Allow
<1>5. requests' \in [Callers -> SUBSET Stamps]
  <2>1. Recent(c) \cup {new} \in SUBSET Stamps
    BY <1>2, <1>3 DEF Recent
  <2> QED
    BY <1>3, <2>1 DEF Allow
<1>6. LimiterTypeOK'
  BY <1>1, <1>2, <1>3, <1>5 DEF LimiterTypeOK
<1>7. YoungAreKept'
  <2> SUFFICES ASSUME NEW d \in Callers, NEW s \in allowed'[d],
                      s.at > now - Window[d]
               PROVE  s \in requests'[d]
    BY <1>1 DEF YoungAreKept
  <2>1. CASE d = c
    <3>1. s = new \/ s \in allowed[c]
      BY <1>3, <2>1
    <3>2. s \in allowed[c] => s \in Recent(c)
      BY <2>1 DEF LimiterInv, YoungAreKept, Recent
    <3> QED
      BY <1>4, <2>1, <3>1, <3>2
  <2>2. CASE d # c
    <3>1. s \in allowed[d] /\ s \in requests[d]
      BY <1>3, <2>2 DEF LimiterInv, YoungAreKept
    <3>2. ~Stale(d)
      <4>1. s.at \in Nat
        BY <1>3, <3>1 DEF Stamps
      <4> QED
        BY <1>1, <3>1, <4>1, ConstantTypes DEF Stale
    <3> QED
      BY <1>4, <2>2, <3>1, <3>2
  <2> QED
    BY <2>1, <2>2
<1>8. KeptWereAllowed'
  <2> SUFFICES ASSUME NEW d \in Callers
               PROVE  /\ requests'[d] \subseteq allowed'[d]
                      /\ IsFiniteSet(allowed'[d])
                      /\ \A s \in allowed'[d] : s.at <= now
    BY <1>1 DEF KeptWereAllowed
  <2>1. /\ requests[d] \subseteq allowed[d] /\ IsFiniteSet(allowed[d])
        /\ \A s \in allowed[d] : s.at <= now
    BY DEF LimiterInv, KeptWereAllowed
  <2>2. allowed'[d] = IF d = c THEN allowed[d] \cup {new} ELSE allowed[d]
    BY <1>3
  <2>3. IsFiniteSet(allowed[d] \cup {new})
    BY <2>1, FS_AddElement
  <2>4. \A s \in allowed'[d] : s.at <= now
    BY <1>1, <1>2, <2>1, <2>2
  <2>5. Recent(c) \subseteq requests[c]
    BY DEF Recent
  <2>6. requests'[d] \subseteq allowed'[d]
    BY <1>4, <2>1, <2>2, <2>5
  <2> QED
    BY <2>1, <2>2, <2>3, <2>4, <2>6
<1>9. WindowBound'
  <2> SUFFICES ASSUME NEW d \in Callers, NEW t \in 0..now
               PROVE  Cardinality(InWindow(d, t)') <= Limit[d]
    BY <1>1 DEF WindowBound, InWindow
  <2>1. Cardinality(InWindow(d, t)) <= Limit[d]
    BY DEF LimiterInv, WindowBound
  <2>2. CASE d # c \/ t < now
    <3>1. InWindow(d, t)' = InWindow(d, t)
      BY <1>1, <1>2, <1>3, <2>2 DEF InWindow
    <3> QED
      BY <2>1, <3>1
  <2>3. CASE d = c /\ t = now
    <3>1. InWindow(d, t)' \subseteq InWindow(c, now) \cup {new}
      BY <1>1, <1>3, <2>3 DEF InWindow
    <3>2. Cardinality(InWindow(c, now)) <= Cardinality(Recent(c))
      BY WindowIsRecent, RecentIsFinite, FS_Subset
    <3>3. Cardinality(Recent(c)) < Limit[c]
      BY RecentIsFinite, ConstantTypes DEF Allow, Full
    <3>4. /\ IsFiniteSet(InWindow(c, now) \cup {new})
          /\ Cardinality(InWindow(c, now) \cup {new})
               <= Cardinality(InWindow(c, now)) + 1
      BY WindowIsFinite, FS_AddElement
    <3>5. Cardinality(InWindow(d, t)') <= Cardinality(InWindow(c, now) \cup {new})
      BY <3>1, <3>4, FS_Subset
    <3>6. /\ Cardinality(InWindow(d, t)') \in Nat
          /\ Cardinality(InWindow(c, now) \cup {new}) \in Nat
      BY <3>1, <3>4, FS_Subset, FS_CardinalityType
    <3> QED
      BY <2>3, <3>2, <3>3, <3>4, <3>5, <3>6, WindowIsFinite, RecentIsFinite,
         ConstantTypes
  <2> QED
    BY <1>1, <2>2, <2>3
<1> QED
  BY <1>6, <1>7, <1>8, <1>9 DEF LimiterInv

\* A request is refused: stamps too old for any window are forgotten.
LEMMA RefuseKeepsInv ==
  ASSUME LimiterInv, NEW c \in Callers, Refuse(c)
  PROVE  LimiterInv'
<1>1. /\ now' = now /\ allowed' = allowed
      /\ requests' = [requests EXCEPT ![c] = Recent(c)]
      /\ requests \in [Callers -> SUBSET Stamps]
  BY DEF Refuse, LimiterInv, LimiterTypeOK
<1>2. Recent(c) \subseteq requests[c]
  BY DEF Recent
<1>3. LimiterTypeOK'
  BY <1>1, <1>2 DEF LimiterInv, LimiterTypeOK
<1>4. YoungAreKept'
  BY <1>1 DEF LimiterInv, YoungAreKept, Recent
<1>5. KeptWereAllowed'
  BY <1>1, <1>2 DEF LimiterInv, KeptWereAllowed
<1>6. WindowBound'
  BY <1>1 DEF LimiterInv, WindowBound, InWindow
<1> QED
  BY <1>3, <1>4, <1>5, <1>6 DEF LimiterInv

\* The clock ticks: a window that ends at the new time contains no more than
\* the one that ended a tick before.
LEMMA TickKeepsInv ==
  ASSUME LimiterInv, Tick
  PROVE  LimiterInv'
<1>1. /\ now \in Nat /\ now' = now + 1
      /\ allowed' = allowed /\ requests' = requests
      /\ allowed \in [Callers -> SUBSET Stamps]
  BY DEF Tick, LimiterInv, LimiterTypeOK
<1>2. \A c \in Callers : \A s \in allowed[c] : s.at \in Nat /\ s.at <= now
  BY <1>1 DEF LimiterInv, KeptWereAllowed, Stamps
<1>3. LimiterTypeOK'
  BY <1>1 DEF LimiterInv, LimiterTypeOK
<1>4. YoungAreKept'
  <2> SUFFICES ASSUME NEW c \in Callers, NEW s \in allowed'[c],
                      s.at > now' - Window[c]
               PROVE  s \in requests'[c]
    BY DEF YoungAreKept
  <2>1. s \in allowed[c] /\ s.at \in Nat
    BY <1>1, <1>2
  <2>2. s.at > now - Window[c]
    BY <1>1, <2>1, ConstantTypes
  <2> QED
    BY <1>1, <2>1, <2>2 DEF LimiterInv, YoungAreKept
<1>5. KeptWereAllowed'
  <2>1. \A c \in Callers : \A s \in allowed[c] : s.at <= now + 1
    BY <1>1, <1>2
  <2> QED
    BY <1>1, <2>1 DEF LimiterInv, KeptWereAllowed
<1>6. WindowBound'
  <2> SUFFICES ASSUME NEW c \in Callers, NEW t \in 0..(now + 1)
               PROVE  Cardinality(InWindow(c, t)) <= Limit[c]
    BY <1>1 DEF WindowBound, InWindow
  <2>1. CASE t \in 0..now
    BY <2>1 DEF LimiterInv, WindowBound
  <2>2. CASE t = now + 1
    <3>1. InWindow(c, t) \subseteq InWindow(c, now)
      BY <1>1, <1>2, <2>2, ConstantTypes DEF InWindow
    <3>2. Cardinality(InWindow(c, now)) <= Limit[c]
      BY <1>1 DEF LimiterInv, WindowBound
    <3>3. Cardinality(InWindow(c, t)) <= Cardinality(InWindow(c, now))
      BY <3>1, WindowIsFinite, FS_Subset
    <3> QED
      BY <3>2, <3>3, WindowIsFinite, ConstantTypes
  <2> QED
    BY <1>1, <2>1, <2>2
<1> QED
  BY <1>3, <1>4, <1>5, <1>6 DEF LimiterInv

LEMMA StepKeepsLimiterInv == LimiterInv /\ [LimiterNext]_limiterVars => LimiterInv'
<1> SUFFICES ASSUME LimiterInv, [LimiterNext]_limiterVars PROVE LimiterInv'
  OBVIOUS
<1>1. CASE UNCHANGED limiterVars
  BY <1>1 DEF limiterVars, LimiterInv, LimiterTypeOK, YoungAreKept,
              KeptWereAllowed, WindowBound, InWindow
<1>2. ASSUME NEW c \in Callers, Allow(c) PROVE LimiterInv'
  BY <1>2, AllowKeepsInv
<1>3. ASSUME NEW c \in Callers, Refuse(c) PROVE LimiterInv'
  BY <1>3, RefuseKeepsInv
<1>4. CASE Tick
  BY <1>4, TickKeepsInv
<1> QED
  BY <1>1, <1>2, <1>3, <1>4 DEF LimiterNext

\* The invariant that all of the following rest on.
THEOREM LimiterInvariant == LimiterSpec => []LimiterInv
<1>1. LimiterInit => LimiterInv
  BY InitEstablishesLimiterInv
<1>2. LimiterInv /\ [LimiterNext]_limiterVars => LimiterInv'
  BY StepKeepsLimiterInv
<1> QED
  BY <1>1, <1>2, PTL DEF LimiterSpec

-----------------------------------------------------------------------------
\* The clock and the stamps keep their types.
THEOREM LimiterTypeCorrect == LimiterSpec => []LimiterTypeOK
<1>1. LimiterInv => LimiterTypeOK
  BY DEF LimiterInv
<1> QED
  BY <1>1, LimiterInvariant, PTL

\* Whatever the callers, limits and windows, check allows no caller more than
\* its limit in any window of its length, wherever it begins.
THEOREM LimitIsKept == LimiterSpec => []WindowBound
<1>1. LimiterInv => WindowBound
  BY DEF LimiterInv
<1> QED
  BY <1>1, LimiterInvariant, PTL

\* And it refuses nobody that has not used its limit up.
THEOREM RefusalsAreDue == LimiterSpec => []RefusedOnlyWhenFull
<1>1. LimiterInv => RefusedOnlyWhenFull
  <2> SUFFICES ASSUME LimiterInv, NEW c \in Callers, Full(c)
               PROVE  Cardinality(InWindow(c, now)) >= Limit[c]
    BY DEF RefusedOnlyWhenFull
  <2>1. now \in Nat
    BY DEF LimiterInv, LimiterTypeOK
  <2>2. \A s \in requests[c] : s \in allowed[c] /\ s.at <= now /\ s.at \in Nat
    BY DEF LimiterInv, LimiterTypeOK, KeptWereAllowed, Stamps
  <2>3. Recent(c) \subseteq InWindow(c, now)
    BY <2>1, <2>2, ConstantTypes DEF Recent, InWindow
  <2>4. Cardinality(Recent(c)) <= Cardinality(InWindow(c, now))
    BY <2>3, WindowIsFinite, FS_Subset
  <2> QED
    BY <2>4, WindowIsFinite, RecentIsFinite, ConstantTypes DEF Full
<1> QED
  BY <1>1, LimiterInvariant, PTL

\* The limiter of any callers, limits and windows is exact: it neither allows
\* more than the limit nor refuses before the limit is used up.
THEOREM LimiterIsExact == LimiterSpec => []LimitIsExact
<1>1. WindowBound /\ RefusedOnlyWhenFull => LimitIsExact
  BY DEF LimitIsExact
<1> QED
  BY <1>1, LimitIsKept, RefusalsAreDue, PTL

-----------------------------------------------------------------------------
(* What has been sent and what waits, of a stream.                         *)

BusEvents == [id : Nat \ {0}, market : Markets \cup {None}]
Items == BusEvents \cup {Sentinel}

\* The events among them, and their ids.
EventsIn(sent) == {i \in DOMAIN sent : sent[i] # Sentinel}
IdsIn(sent) == {sent[i].id : i \in EventsIn(sent)}

\* The ids of the events of L after the first n that pass the filter f.
DueOf(L, f, n) ==
  {i \in (n + 1)..Len(L) : f = None \/ L[i].market \in {None, f}}

\* What NoGaps says of one stream; held is whether it has its place.
Gapless(sent, L, f, n, held) ==
  /\ \A i, j \in EventsIn(sent) : i < j => sent[i].id < sent[j].id
  /\ \A i \in EventsIn(sent) :
       sent[i].id \in DueOf(L, f, n) /\ sent[i] = L[sent[i].id]
  /\ \A d \in DueOf(L, f, n) \ IdsIn(sent) : ~held /\ \A i \in IdsIn(sent) : i < d

\* The log numbers its events.
IsLog(L) == L \in Seq(BusEvents) /\ \A i \in DOMAIN L : L[i].id = i

\* The next event joins the log, and those that are due if it passes the filter.
LEMMA NextEvent ==
  ASSUME NEW L, IsLog(L), NEW e \in BusEvents, e.id = Len(L) + 1,
         NEW f, NEW n \in Nat, n <= Len(L)
  PROVE  /\ IsLog(Append(L, e)) /\ Len(Append(L, e)) = Len(L) + 1
         /\ \A i \in 1..Len(L) : Append(L, e)[i] = L[i]
         /\ Append(L, e)[Len(L) + 1] = e
         /\ DueOf(Append(L, e), f, n) =
              DueOf(L, f, n) \cup (IF Matches(e.market, f) THEN {e.id} ELSE {})
         /\ \A d \in DueOf(L, f, n) : d \in 1..Len(L)
<1>1. L \in Seq(BusEvents) /\ Len(L) \in Nat /\ DOMAIN L = 1..Len(L)
  BY DEF IsLog
<1>2. /\ Append(L, e) \in Seq(BusEvents) /\ Len(Append(L, e)) = Len(L) + 1
      /\ \A i \in 1..Len(L) : Append(L, e)[i] = L[i]
      /\ Append(L, e)[Len(L) + 1] = e
  BY <1>1, AppendProperties
<1>3. PICK M : M = Append(L, e)
  OBVIOUS
<1>4. IsLog(M)
  BY <1>1, <1>2, <1>3 DEF IsLog
<1>5. \A d \in DueOf(L, f, n) : d \in 1..Len(L)
  BY <1>1 DEF DueOf
<1>6. DueOf(M, f, n) = DueOf(L, f, n) \cup (IF Matches(e.market, f) THEN {e.id} ELSE {})
  <2>1. ASSUME NEW i
        PROVE  i \in (n + 1)..Len(M) <=> i \in (n + 1)..Len(L) \/ i = Len(L) + 1
    BY <1>1, <1>2, <1>3
  <2>2. \A i \in (n + 1)..Len(L) : M[i] = L[i]
    BY <1>1, <1>2, <1>3
  <2>3. M[Len(L) + 1] = e /\ e.id = Len(L) + 1
    BY <1>2, <1>3
  <2> QED
    BY <2>1, <2>2, <2>3 DEF DueOf, Matches
<1> QED
  BY <1>2, <1>3, <1>4, <1>5, <1>6

\* An event that a subscriber has no part in.
LEMMA EventPasses ==
  ASSUME NEW L, IsLog(L), NEW e \in BusEvents, e.id = Len(L) + 1,
         NEW f, NEW n \in Nat, n <= Len(L), NEW sent, NEW held,
         Gapless(sent, L, f, n, held), NEW kept, kept => held,
         Matches(e.market, f) => ~kept
  PROVE  Gapless(sent, Append(L, e), f, n, kept)
<1>1. PICK M : M = Append(L, e)
  OBVIOUS
<1>2. /\ \A d \in DueOf(L, f, n) : d \in 1..Len(L) /\ M[d] = L[d]
      /\ DueOf(M, f, n) =
           DueOf(L, f, n) \cup (IF Matches(e.market, f) THEN {e.id} ELSE {})
      /\ Len(L) \in Nat
  BY <1>1, NextEvent DEF IsLog
<1>3. \A i \in EventsIn(sent) :
        /\ sent[i].id \in DueOf(L, f, n) /\ sent[i] = L[sent[i].id]
  BY DEF Gapless
<1>4. \A i \in EventsIn(sent) : sent[i].id \in DueOf(M, f, n) /\ sent[i] = M[sent[i].id]
  BY <1>2, <1>3
<1>5. \A x \in IdsIn(sent) : x < e.id
  BY <1>2, <1>3 DEF IdsIn
<1>6. ASSUME NEW d \in DueOf(M, f, n) \ IdsIn(sent)
      PROVE  ~kept /\ \A x \in IdsIn(sent) : x < d
  <2>1. CASE d \in DueOf(L, f, n)
    BY <1>6, <2>1 DEF Gapless
  <2>2. CASE d = e.id /\ Matches(e.market, f)
    BY <1>5, <2>2
  <2> QED
    BY <1>2, <1>6, <2>1, <2>2
<1> QED
  BY <1>1, <1>4, <1>6 DEF Gapless

\* An event that reaches a subscriber.
LEMMA EventArrives ==
  ASSUME NEW L, IsLog(L), NEW e \in BusEvents, e.id = Len(L) + 1,
         NEW f, NEW n \in Nat, n <= Len(L), NEW sent \in Seq(Items),
         Gapless(sent, L, f, n, TRUE), Matches(e.market, f)
  PROVE  Gapless(Append(sent, e), Append(L, e), f, n, TRUE)
<1>1. PICK M, s : M = Append(L, e) /\ s = Append(sent, e)
  OBVIOUS
<1>0. e \in Items
  BY DEF Items
<1>2. /\ \A d \in DueOf(L, f, n) : d \in 1..Len(L) /\ M[d] = L[d]
      /\ DueOf(M, f, n) = DueOf(L, f, n) \cup {e.id}
      /\ Len(L) \in Nat /\ M[e.id] = e
  BY <1>1, NextEvent DEF IsLog
<1>3. /\ Len(sent) \in Nat /\ DOMAIN sent = 1..Len(sent)
      /\ DOMAIN s = 1..(Len(sent) + 1) /\ s[Len(sent) + 1] = e
      /\ \A i \in 1..Len(sent) : s[i] = sent[i]
  BY <1>0, <1>1, AppendProperties
<1>4. e # Sentinel
  BY DEF BusEvents, Sentinel
<1>5. EventsIn(s) = EventsIn(sent) \cup {Len(sent) + 1}
  BY <1>3, <1>4 DEF EventsIn
<1>6. IdsIn(s) = IdsIn(sent) \cup {e.id}
  <2>1. \A i \in EventsIn(sent) : s[i] = sent[i]
    BY <1>3 DEF EventsIn
  <2> QED
    BY <1>3, <1>5, <2>1 DEF IdsIn
<1>7. \A i \in EventsIn(sent) :
        /\ sent[i].id \in DueOf(L, f, n) /\ sent[i] = L[sent[i].id]
        /\ s[i] = sent[i] /\ i \in 1..Len(sent) /\ sent[i].id < e.id
  BY <1>2, <1>3 DEF Gapless, EventsIn
<1>8. ASSUME NEW i \in EventsIn(s), NEW j \in EventsIn(s), i < j
      PROVE  s[i].id < s[j].id
  <2>1. i \in EventsIn(sent)
    BY <1>3, <1>5, <1>7, <1>8
  <2>2. CASE j \in EventsIn(sent)
    BY <1>7, <1>8, <2>1, <2>2 DEF Gapless
  <2>3. CASE j = Len(sent) + 1
    BY <1>3, <1>7, <2>1, <2>3
  <2> QED
    BY <1>5, <2>2, <2>3
<1>9. \A i \in EventsIn(s) : s[i].id \in DueOf(M, f, n) /\ s[i] = M[s[i].id]
  BY <1>2, <1>3, <1>5, <1>7
<1>10. DueOf(M, f, n) \ IdsIn(s) = {}
  BY <1>2, <1>6 DEF Gapless
<1> QED
  BY <1>1, <1>8, <1>9, <1>10 DEF Gapless

\* The sentinel is no event.
LEMMA SentinelArrives ==
  ASSUME NEW sent \in Seq(Items), NEW L, NEW f, NEW n, NEW held,
         Gapless(sent, L, f, n, held)
  PROVE  Gapless(Append(sent, Sentinel), L, f, n, held)
<1>1. PICK s : s = Append(sent, Sentinel)
  OBVIOUS
<1>2. Sentinel \in Items
  BY DEF Items
<1>3. /\ Len(sent) \in Nat /\ DOMAIN sent = 1..Len(sent)
      /\ DOMAIN s = 1..(Len(sent) + 1) /\ s[Len(sent) + 1] = Sentinel
      /\ \A i \in 1..Len(sent) : s[i] = sent[i]
  BY <1>1, <1>2, AppendProperties
<1>4. EventsIn(s) = EventsIn(sent) /\ \A i \in EventsIn(sent) : s[i] = sent[i]
  BY <1>3 DEF EventsIn
<1>5. IdsIn(s) = IdsIn(sent)
  BY <1>4 DEF IdsIn
<1> QED
  BY <1>1, <1>4, <1>5 DEF Gapless

\* Nor is it missed when it is taken out of the queue.
LEMMA SentinelTaken ==
  ASSUME NEW r \in Seq(Items), NEW q \in Seq(Items), q # <<>>, Head(q) = Sentinel,
         NEW L, NEW f, NEW n, NEW held, Gapless(r \o q, L, f, n, held)
  PROVE  Gapless(r \o Tail(q), L, f, n, held)
<1>1. PICK a, b : a = r \o q /\ b = r \o Tail(q)
  OBVIOUS
<1>2. /\ Len(r) \in Nat /\ Len(q) \in Nat \ {0} /\ Tail(q) \in Seq(Items)
      /\ Len(Tail(q)) = Len(q) - 1 /\ q[1] = Sentinel
      /\ \A i \in 1..(Len(q) - 1) : Tail(q)[i] = q[i + 1]
  BY HeadTailProperties, EmptySeq, LenProperties
<1>3. /\ DOMAIN a = 1..(Len(r) + Len(q)) /\ DOMAIN b = 1..(Len(r) + Len(q) - 1)
      /\ \A i \in 1..Len(r) : a[i] = r[i] /\ b[i] = r[i]
      /\ \A i \in 1..Len(q) : a[Len(r) + i] = q[i]
      /\ \A i \in 1..(Len(q) - 1) : b[Len(r) + i] = q[i + 1]
  BY <1>1, <1>2, ConcatProperties
<1> DEFINE up(i) == IF i <= Len(r) THEN i ELSE i + 1
<1>4. \A i \in DOMAIN b : b[i] = a[up(i)] /\ up(i) \in DOMAIN a
  <2> SUFFICES ASSUME NEW i \in DOMAIN b PROVE b[i] = a[up(i)] /\ up(i) \in DOMAIN a
    OBVIOUS
  <2>1. CASE i <= Len(r)
    BY <1>2, <1>3, <2>1
  <2>2. CASE ~(i <= Len(r))
    <3>1. i - Len(r) \in 1..(Len(q) - 1) /\ i - Len(r) + 1 \in 1..Len(q)
      BY <1>2, <1>3, <2>2
    <3>2. /\ b[Len(r) + (i - Len(r))] = q[(i - Len(r)) + 1]
          /\ a[Len(r) + (i - Len(r) + 1)] = q[i - Len(r) + 1]
      BY <1>3, <3>1
    <3>3. Len(r) + (i - Len(r)) = i /\ Len(r) + (i - Len(r) + 1) = i + 1
      BY <1>2, <1>3
    <3> QED
      BY <1>2, <1>3, <2>2, <3>2, <3>3
  <2> QED
    BY <2>1, <2>2
<1>5. a[Len(r) + 1] = Sentinel
  BY <1>2, <1>3
<1>6. \A i \in EventsIn(b) : up(i) \in EventsIn(a) /\ b[i] = a[up(i)]
  BY <1>4 DEF EventsIn
<1>7. \A k \in EventsIn(a) : \E i \in EventsIn(b) : up(i) = k
  <2> SUFFICES ASSUME NEW k \in EventsIn(a) PROVE \E i \in EventsIn(b) : up(i) = k
    OBVIOUS
  <2>1. k \in DOMAIN a /\ a[k] # Sentinel /\ k # Len(r) + 1
    BY <1>5 DEF EventsIn
  <2>2. PICK i : i = IF k <= Len(r) THEN k ELSE k - 1
    OBVIOUS
  <2>3. i \in DOMAIN b /\ up(i) = k
    BY <1>2, <1>3, <2>1, <2>2
  <2> QED
    BY <1>4, <2>1, <2>3 DEF EventsIn
<1>8. \A i, j \in EventsIn(b) : i < j => up(i) < up(j)
  BY <1>2, <1>3 DEF EventsIn
<1> HIDE DEF up
<1>9. IdsIn(b) = IdsIn(a)
  BY <1>6, <1>7 DEF IdsIn
<1> QED
  BY <1>1, <1>6, <1>8, <1>9 DEF Gapless

\* What is taken out of the queue is sent.
LEMMA EventTaken ==
  ASSUME NEW r \in Seq(Items), NEW q \in Seq(Items), q # <<>>
  PROVE  /\ Append(r, Head(q)) \o Tail(q) = r \o q
         /\ Append(r, Head(q)) \in Seq(Items) /\ Tail(q) \in Seq(Items)
         /\ Len(Tail(q)) <= Len(q)
<1>1. /\ Len(r) \in Nat /\ Len(q) \in Nat \ {0} /\ Tail(q) \in Seq(Items)
      /\ Head(q) \in Items /\ Head(q) = q[1]
      /\ Len(Tail(q)) = Len(q) - 1
      /\ \A i \in 1..(Len(q) - 1) : Tail(q)[i] = q[i + 1]
  BY HeadTailProperties, EmptySeq, LenProperties
<1> QED
  BY <1>1
-----------------------------------------------------------------------------
(* The bus.                                                                *)

RowsOfStreams ==
  /\ queue \in [Streams -> Seq(Items)]
  /\ received \in [Streams -> Seq(Items)]
  /\ filter \in [Streams -> Markets \cup {None}]
  /\ pc \in [Streams -> {"new", "looping", "waiting", "ended"}]
  /\ since \in [Streams -> Nat]
  /\ told \subseteq Streams
  /\ subscribers \subseteq {s \in Streams : pc[s] \in {"looping", "waiting"}}

\* The log, and what tasks will publish.
LogGrows ==
  /\ IsLog(log) /\ tasks \in Seq({None})
  /\ \A s \in Streams : since[s] <= Len(log)

\* No stream has more waiting than fits, and a new one has nothing.
QueuesFit ==
  \A s \in Streams :
    /\ Len(queue[s]) <= Capacity
    /\ pc[s] = "new" => queue[s] = <<>> /\ received[s] = <<>>

\* The invariant of one stream, and of all.
Complete(s) ==
  pc[s] # "new" =>
    Gapless(received[s] \o queue[s], log, filter[s], since[s], s \in subscribers)

EventInv ==
  /\ RowsOfStreams /\ LogGrows /\ QueuesFit
  /\ \A s \in Streams : Complete(s)

LEMMA CompleteIsNoGaps ==
  ASSUME RowsOfStreams, \A s \in Streams : Complete(s)
  PROVE  NoGaps
<1> SUFFICES ASSUME NEW s \in Streams, pc[s] # "new"
    PROVE
    LET sent   == received[s] \o queue[s]
        events == {i \in DOMAIN sent : sent[i] # Sentinel}
        ids    == {sent[i].id : i \in events} IN
    /\ \A i, j \in events : i < j => sent[i].id < sent[j].id
    /\ \A i \in events : sent[i].id \in Due(s) /\ sent[i] = log[sent[i].id]
    /\ \A d \in Due(s) \ ids : s \notin subscribers /\ \A i \in ids : i < d
  BY DEF NoGaps
<1>1. Gapless(received[s] \o queue[s], log, filter[s], since[s], s \in subscribers)
  BY DEF Complete
<1> QED
  BY <1>1 DEF Gapless, EventsIn, IdsIn, DueOf, Due

-----------------------------------------------------------------------------
(* Publishing.                                                             *)

\* A bus is fit for a log when every stream that is not new has no gaps in it.
FitsLog(bus, L) ==
  /\ IsLog(L)
  /\ bus.subscribers \subseteq subscribers
  /\ bus.queue \in [Streams -> Seq(Items)]
  /\ \A s \in Streams :
       /\ since[s] <= Len(L) /\ Len(bus.queue[s]) <= Capacity
       /\ pc[s] = "new" => bus.queue[s] = <<>>
       /\ pc[s] # "new" =>
            Gapless(received[s] \o bus.queue[s], L, filter[s], since[s],
                    s \in bus.subscribers)

LEMMA PublishedFits ==
  ASSUME EventInv, NEW bus, NEW L, FitsLog(bus, L),
         NEW e \in BusEvents, e.id = Len(L) + 1
  PROVE  FitsLog(Published(bus, e), Append(L, e))
<1>1. PICK new, M : new = Published(bus, e) /\ M = Append(L, e)
  OBVIOUS
<1>2. /\ IsLog(M) /\ Len(M) = Len(L) + 1 /\ Len(L) \in Nat
      /\ \A s \in Streams : since[s] \in Nat /\ since[s] <= Len(L)
  <2>1. \A s \in Streams : since[s] \in Nat /\ since[s] <= Len(L)
    BY DEF EventInv, RowsOfStreams, FitsLog
  <2>2. IsLog(L) /\ L \in Seq(BusEvents) /\ Len(L) \in Nat
    BY DEF FitsLog, IsLog
  <2>3. IsLog(M) /\ Len(M) = Len(L) + 1
    <3>1. 0 \in Nat /\ 0 <= Len(L)
      BY <2>2
    <3> QED
      BY <1>1, <2>2, <3>1, NextEvent
  <2> QED
    BY <2>1, <2>2, <2>3
<1>3. new.subscribers = bus.subscribers \ Dropped(bus, e)
  BY <1>1 DEF Published
<1>4. ASSUME NEW s \in Streams
      PROVE  /\ new.queue[s] \in Seq(Items) /\ Len(new.queue[s]) <= Capacity
             /\ pc[s] = "new" => new.queue[s] = <<>>
             /\ pc[s] # "new" =>
                  Gapless(received[s] \o new.queue[s], M, filter[s], since[s],
                          s \in new.subscribers)
  <2>1. PICK q, r, f, n : /\ q = bus.queue[s] /\ r = received[s]
                          /\ f = filter[s] /\ n = since[s]
    OBVIOUS
  <2>2. /\ q \in Seq(Items) /\ r \in Seq(Items) /\ Len(q) \in Nat /\ Len(q) <= Capacity
        /\ n \in Nat /\ n <= Len(L) /\ IsLog(L) /\ Capacity \in Nat
    BY <1>2, <2>1, EventsAssumption DEF FitsLog, EventInv, RowsOfStreams
  <2>3. pc[s] # "new" => Gapless(r \o q, L, f, n, s \in bus.subscribers)
    BY <2>1 DEF FitsLog
  <2>4. pc[s] = "new" => q = <<>> /\ s \notin bus.subscribers
    BY <2>1 DEF FitsLog, EventInv, RowsOfStreams
  <2>5. CASE s \in bus.subscribers /\ Matches(e.market, f) /\ Len(q) < Capacity
    <3>1. new.queue[s] = Append(q, e) /\ s \in new.subscribers
      BY <1>1, <2>1, <2>2, <2>5 DEF Published, Dropped
    <3>2. e \in Items /\ Append(q, e) \in Seq(Items) /\ Len(Append(q, e)) = Len(q) + 1
      BY <2>2, AppendProperties DEF Items
    <3>3. r \o Append(q, e) = Append(r \o q, e) /\ r \o q \in Seq(Items)
      BY <2>2, <3>2
    <3>4. Gapless(r \o q, L, f, n, TRUE)
      BY <2>3, <2>4, <2>5 DEF Gapless
    <3>5. Gapless(Append(r \o q, e), M, f, n, TRUE)
      BY <1>1, <2>2, <2>5, <3>3, <3>4, EventArrives
    <3>6. Gapless(r \o new.queue[s], M, f, n, s \in new.subscribers)
      BY <3>1, <3>3, <3>5 DEF Gapless
    <3> QED
      BY <2>1, <2>2, <2>4, <2>5, <3>1, <3>2, <3>6
  <2>6. CASE ~(s \in bus.subscribers /\ Matches(e.market, f) /\ Len(q) < Capacity)
    <3>1. new.queue[s] = q
      BY <1>1, <2>1, <2>6 DEF Published
    <3>2. /\ s \in new.subscribers => s \in bus.subscribers
          /\ Matches(e.market, f) => s \notin new.subscribers
      BY <1>3, <2>1, <2>2, <2>6 DEF Dropped
    <3>3. pc[s] # "new" => Gapless(r \o q, M, f, n, s \in new.subscribers)
      BY <1>1, <2>2, <2>3, <3>2, EventPasses
    <3> QED
      BY <2>1, <2>2, <2>4, <3>1, <3>3
  <2> QED
    BY <2>5, <2>6
<1>5. new.queue \in [Streams -> Seq(Items)]
  <2>1. new.queue = [s \in Streams |-> new.queue[s]]
    BY <1>1 DEF Published
  <2> QED
    BY <1>4, <2>1
<1>6. \A s \in Streams : since[s] <= Len(M)
  BY <1>2
<1> QED
  BY <1>1, <1>2, <1>3, <1>4, <1>5, <1>6 DEF FitsLog

LEMMA BusFits == EventInv => FitsLog(Bus, log)
BY DEF EventInv, FitsLog, Bus, RowsOfStreams, LogGrows, QueuesFit, Complete

\* What Logs makes of a bus that is fit.
LEMMA LogsKeepsInv ==
  ASSUME EventInv, NEW bus, NEW events, FitsLog(bus, log \o events),
         Logs(events, bus), tasks' \in Seq({None})
  PROVE  EventInv'
<1>1. /\ log' = log \o events /\ subscribers' = bus.subscribers
      /\ queue' = bus.queue
      /\ UNCHANGED <<filter, pc, since, received, told>>
  BY DEF Logs
<1>2. RowsOfStreams'
  BY <1>1 DEF EventInv, RowsOfStreams, FitsLog
<1>3. LogGrows'
  BY <1>1 DEF LogGrows, FitsLog
<1>4. QueuesFit'
  BY <1>1 DEF EventInv, QueuesFit, FitsLog
<1>5. \A s \in Streams : Complete(s)'
  BY <1>1 DEF Complete, FitsLog
<1> QED
  BY <1>2, <1>3, <1>4, <1>5 DEF EventInv

LEMMA PublishKeepsInv ==
  ASSUME EventInv, NEW m \in Markets \cup {None}, Publish(m) \/ PublishTwo(m),
         tasks' \in Seq({None})
  PROVE  EventInv'
<1>1. PICK L : L = log
  OBVIOUS
<1>2. L \in Seq(BusEvents) /\ Len(L) \in Nat
  BY <1>1 DEF EventInv, LogGrows, IsLog
<1>3. PICK e : e = Event(Len(L) + 1, m)
  OBVIOUS
<1>4. e \in BusEvents /\ e.id = Len(L) + 1
  BY <1>2, <1>3 DEF Event, BusEvents
<1>5. PICK b : b = Published(Bus, e)
  OBVIOUS
<1>6. FitsLog(b, Append(L, e)) /\ Append(L, e) = L \o <<e>>
  <2>1. PICK a : a = Bus
    OBVIOUS
  <2>2. FitsLog(a, L)
    BY <1>1, <2>1, BusFits
  <2>3. FitsLog(Published(a, e), Append(L, e))
    BY <1>4, <2>2, PublishedFits
  <2> QED
    BY <1>2, <1>4, <1>5, <2>1, <2>3
<1>7. CASE Publish(m)
  <2>1. Logs(<<e>>, b)
    BY <1>1, <1>3, <1>5, <1>7 DEF Publish
  <2> QED
    BY <1>1, <1>6, <2>1, LogsKeepsInv
<1>8. CASE PublishTwo(m)
  <2>1. PICK f, c : f = Event(Len(L) + 2, m) /\ c = Published(b, f)
    OBVIOUS
  <2>2. /\ Append(L, e) \in Seq(BusEvents) /\ Len(Append(L, e)) = Len(L) + 1
        /\ f \in BusEvents /\ f.id = Len(Append(L, e)) + 1
    BY <1>2, <1>4, <2>1 DEF Event, BusEvents
  <2>3. FitsLog(c, Append(Append(L, e), f))
    BY <1>6, <2>1, <2>2, PublishedFits
  <2>4. Append(Append(L, e), f) = L \o <<e, f>>
    BY <1>2, <1>4, <2>2
  <2>5. Logs(<<e, f>>, c)
    BY <1>1, <1>3, <1>5, <1>8, <2>1 DEF PublishTwo
  <2> QED
    BY <1>1, <2>3, <2>4, <2>5, LogsKeepsInv
<1> QED
  BY <1>7, <1>8
-----------------------------------------------------------------------------
(* The streams.                                                            *)

LEMMA OneStream ==
  ASSUME EventInv, NEW s \in Streams, RowsOfStreams', UNCHANGED <<log, tasks>>,
         \A v \in Streams : v # s =>
           /\ pc'[v] = pc[v] /\ queue'[v] = queue[v] /\ received'[v] = received[v]
           /\ since'[v] = since[v] /\ filter'[v] = filter[v]
           /\ v \in subscribers' <=> v \in subscribers,
         since'[s] <= Len(log),
         Len(queue'[s]) <= Capacity,
         pc'[s] = "new" => queue'[s] = <<>> /\ received'[s] = <<>>,
         Complete(s)'
  PROVE  EventInv'
<1>1. LogGrows'
  BY DEF EventInv, LogGrows
<1>2. QueuesFit'
  BY DEF EventInv, QueuesFit
<1>3. ASSUME NEW v \in Streams, v # s PROVE Complete(v)'
  <2>1. (v \in subscribers') = (v \in subscribers)
    BY <1>3
  <2>2. Complete(v)
    BY DEF EventInv
  <2> QED
    BY <1>3, <2>1, <2>2 DEF Complete
<1> QED
  BY <1>1, <1>2, <1>3 DEF EventInv

LEMMA SubscribeKeepsInv ==
  ASSUME EventInv, NEW s \in Streams, NEW m \in Markets \cup {None}, Subscribe(s, m)
  PROVE  EventInv'
<1>1. /\ pc[s] = "new" /\ UNCHANGED <<log, tasks, queue, received, told>>
      /\ pc' = [pc EXCEPT ![s] = "looping"] /\ subscribers' = subscribers \cup {s}
      /\ filter' = [filter EXCEPT ![s] = m] /\ since' = [since EXCEPT ![s] = Len(log)]
  BY DEF Subscribe
<1>2. RowsOfStreams /\ LogGrows /\ Len(log) \in Nat
  BY DEF EventInv, LogGrows, IsLog
<1>3. RowsOfStreams'
  BY <1>1, <1>2 DEF RowsOfStreams
<1>4. /\ queue[s] = <<>> /\ received[s] = <<>> /\ since'[s] = Len(log)
      /\ pc'[s] = "looping" /\ Len(queue[s]) <= Capacity
  BY <1>1, <1>2 DEF RowsOfStreams, EventInv, QueuesFit
<1>5. Complete(s)'
  <2>1. received[s] \o queue[s] = <<>>
    BY <1>4
  <2>2. PICK n, f, held : n = Len(log) /\ f = filter'[s] /\ held = (s \in subscribers')
    OBVIOUS
  <2>3. PICK L : L = log
    OBVIOUS
  <2>4. EventsIn(<<>>) = {} /\ IdsIn(<<>>) = {}
    BY DEF EventsIn, IdsIn
  <2>5. DueOf(L, f, n) = {}
    BY <1>2, <2>2, <2>3 DEF DueOf
  <2>6. Gapless(<<>>, L, f, n, held)
    BY <2>4, <2>5 DEF Gapless
  <2> QED
    BY <1>1, <1>4, <2>1, <2>2, <2>3, <2>6 DEF Complete
<1>6. \A v \in Streams : v # s =>
        /\ pc'[v] = pc[v] /\ queue'[v] = queue[v] /\ received'[v] = received[v]
        /\ since'[v] = since[v] /\ filter'[v] = filter[v]
        /\ v \in subscribers' <=> v \in subscribers
  BY <1>1, <1>2 DEF RowsOfStreams
<1>7. since'[s] <= Len(log) /\ Len(queue'[s]) <= Capacity /\ pc'[s] # "new"
  BY <1>1, <1>2, <1>4
<1> QED
  BY <1>1, <1>3, <1>5, <1>6, <1>7, OneStream

\* A loop, a keepalive, and a client that goes.
LEMMA IdleKeepsInv ==
  ASSUME EventInv, NEW s \in Streams, Loop(s) \/ Keepalive(s) \/ Disconnect(s)
  PROVE  EventInv'
<1>1. /\ UNCHANGED <<log, tasks, queue, received, filter, since, told>>
      /\ subscribers' \subseteq subscribers /\ pc[s] # "new"
      /\ \/ UNCHANGED <<pc, subscribers>>
         \/ \E p \in {"looping", "waiting"} : pc' = [pc EXCEPT ![s] = p]
                                              /\ UNCHANGED subscribers
         \/ pc' = [pc EXCEPT ![s] = "ended"] /\ subscribers' = subscribers \ {s}
  BY DEF Loop, Keepalive, Disconnect, StreamStep, Ends
<1>2. RowsOfStreams
  BY DEF EventInv
<1>3. RowsOfStreams' /\ pc'[s] # "new"
  BY <1>1, <1>2 DEF RowsOfStreams
<1>4. /\ Complete(s) /\ Len(queue[s]) <= Capacity /\ since[s] <= Len(log)
  BY DEF EventInv, QueuesFit, LogGrows
<1>5. Complete(s)'
  BY <1>1, <1>4 DEF Complete, Gapless
<1>6. \A v \in Streams : v # s =>
        /\ pc'[v] = pc[v] /\ queue'[v] = queue[v] /\ received'[v] = received[v]
        /\ since'[v] = since[v] /\ filter'[v] = filter[v]
        /\ v \in subscribers' <=> v \in subscribers
  BY <1>1, <1>2 DEF RowsOfStreams
<1>7. since'[s] <= Len(log) /\ Len(queue'[s]) <= Capacity
  BY <1>1, <1>4
<1> QED
  BY <1>1, <1>3, <1>5, <1>6, <1>7, OneStream

LEMMA TakeKeepsInv ==
  ASSUME EventInv, NEW s \in Streams, Take(s)
  PROVE  EventInv'
<1>1. /\ pc[s] = "waiting" /\ queue[s] # <<>>
      /\ queue' = [queue EXCEPT ![s] = Tail(@)]
      /\ UNCHANGED <<log, tasks, filter, since, told>>
  BY DEF Take, StreamStep
<1>2. PICK q, r : q = queue[s] /\ r = received[s]
  OBVIOUS
<1>3. RowsOfStreams /\ q \in Seq(Items) /\ r \in Seq(Items) /\ q # <<>>
  BY <1>1, <1>2 DEF EventInv, RowsOfStreams
<1>4. /\ Append(r, Head(q)) \o Tail(q) = r \o q
      /\ Append(r, Head(q)) \in Seq(Items) /\ Tail(q) \in Seq(Items)
      /\ Len(Tail(q)) <= Len(q)
  BY <1>3, EventTaken
<1>5. queue'[s] = Tail(q) /\ queue' \in [Streams -> Seq(Items)]
      /\ \A v \in Streams : v # s => queue'[v] = queue[v]
  BY <1>1, <1>2, <1>3, <1>4 DEF RowsOfStreams
<1>6. /\ Gapless(r \o q, log, filter[s], since[s], s \in subscribers)
      /\ since[s] <= Len(log) /\ Len(q) <= Capacity
  BY <1>1, <1>2 DEF EventInv, Complete, LogGrows, QueuesFit
<1>7. Len(q) \in Nat /\ Len(Tail(q)) \in Nat /\ Capacity \in Nat
  BY <1>3, <1>4, EventsAssumption
<1>8. CASE Head(q) = Sentinel
  <2>1. /\ pc' = [pc EXCEPT ![s] = "ended"] /\ subscribers' = subscribers \ {s}
        /\ received' = received
    BY <1>2, <1>8 DEF Take, Ends
  <2>2. RowsOfStreams' /\ pc'[s] = "ended"
    BY <1>1, <1>3, <1>5, <2>1 DEF RowsOfStreams
  <2>3. Gapless(r \o Tail(q), log, filter[s], since[s], FALSE)
    <3>1. PICK L, f, n, held :
            L = log /\ f = filter[s] /\ n = since[s] /\ held = (s \in subscribers)
      OBVIOUS
    <3>2. Gapless(r \o Tail(q), L, f, n, held)
      BY <1>3, <1>6, <1>8, <3>1, SentinelTaken
    <3> QED
      BY <3>1, <3>2 DEF Gapless
  <2>4. Complete(s)'
    <3>1. received'[s] = r /\ queue'[s] = Tail(q) /\ (s \in subscribers') = FALSE
      BY <1>2, <1>5, <2>1
    <3> QED
      BY <1>1, <2>3, <3>1 DEF Complete
  <2>5. \A v \in Streams : v # s =>
          /\ pc'[v] = pc[v] /\ v \in subscribers' <=> v \in subscribers
    BY <1>3, <2>1 DEF RowsOfStreams
  <2>6. Len(queue'[s]) <= Capacity /\ since'[s] <= Len(log)
    BY <1>1, <1>4, <1>5, <1>6, <1>7
  <2> QED
    BY <1>1, <1>5, <2>1, <2>2, <2>4, <2>5, <2>6, OneStream
<1>9. CASE Head(q) # Sentinel
  <2>1. /\ pc' = [pc EXCEPT ![s] = "looping"] /\ subscribers' = subscribers
        /\ received' = [received EXCEPT ![s] = Append(@, Head(q))]
    BY <1>2, <1>9 DEF Take
  <2>2. received'[s] = Append(r, Head(q)) /\ received' \in [Streams -> Seq(Items)]
        /\ \A v \in Streams : v # s => received'[v] = received[v]
    BY <1>2, <1>3, <1>4, <2>1 DEF RowsOfStreams
  <2>3. RowsOfStreams' /\ pc'[s] = "looping"
    BY <1>1, <1>3, <1>5, <2>1, <2>2 DEF RowsOfStreams
  <2>4. Complete(s)'
    <3>1. received'[s] \o queue'[s] = r \o q
      BY <1>4, <1>5, <2>2
    <3>2. Gapless(received'[s] \o queue'[s], log, filter[s], since[s],
                  s \in subscribers)
      BY <1>6, <3>1
    <3> QED
      BY <1>1, <2>1, <3>2 DEF Complete
  <2>5. \A v \in Streams : v # s => pc'[v] = pc[v]
    BY <1>3, <2>1 DEF RowsOfStreams
  <2>6. Len(queue'[s]) <= Capacity /\ since'[s] <= Len(log)
    BY <1>1, <1>4, <1>5, <1>6, <1>7
  <2> QED
    BY <1>1, <1>5, <2>1, <2>2, <2>3, <2>4, <2>5, <2>6, OneStream
<1> QED
  BY <1>8, <1>9

LEMMA ShutdownKeepsInv ==
  ASSUME EventInv, Shutdown
  PROVE  EventInv'
<1>1. /\ UNCHANGED <<tasks, log, subscribers, filter, pc, since, received>>
      /\ queue' = [s \in Streams |->
           IF s \in Reached THEN Append(queue[s], Sentinel) ELSE queue[s]]
      /\ told' \subseteq Streams
  BY DEF Shutdown, EventInv, RowsOfStreams
<1>2. RowsOfStreams /\ Capacity \in Nat
  BY EventsAssumption DEF EventInv
<1>3. ASSUME NEW s \in Streams
      PROVE  /\ queue'[s] \in Seq(Items) /\ Len(queue'[s]) <= Capacity
             /\ pc[s] = "new" => queue'[s] = queue[s]
             /\ Complete(s)'
  <2>1. PICK q, r : q = queue[s] /\ r = received[s]
    OBVIOUS
  <2>2. q \in Seq(Items) /\ r \in Seq(Items) /\ Len(q) \in Nat /\ Len(q) <= Capacity
        /\ Complete(s)
    BY <1>2, <2>1 DEF EventInv, RowsOfStreams, QueuesFit
  <2>3. CASE s \in Reached
    <3>1. /\ queue'[s] = Append(q, Sentinel) /\ Len(q) < Capacity
          /\ pc[s] # "new"
      BY <1>1, <1>2, <2>1, <2>3 DEF Reached, RowsOfStreams
    <3>2. Sentinel \in Items
      BY DEF Items
    <3>3. /\ Append(q, Sentinel) \in Seq(Items)
          /\ Len(Append(q, Sentinel)) = Len(q) + 1
          /\ r \o Append(q, Sentinel) = Append(r \o q, Sentinel)
          /\ r \o q \in Seq(Items)
      BY <2>2, <3>2
    <3>4. PICK L, f, n, held :
            L = log /\ f = filter[s] /\ n = since[s] /\ held = (s \in subscribers)
      OBVIOUS
    <3>5. Gapless(r \o q, L, f, n, held)
      BY <2>1, <2>2, <3>1, <3>4 DEF Complete
    <3>6. Gapless(Append(r \o q, Sentinel), L, f, n, held)
      BY <3>3, <3>5, SentinelArrives
    <3>7. Complete(s)'
      BY <1>1, <2>1, <3>1, <3>3, <3>4, <3>6 DEF Complete
    <3> QED
      BY <1>2, <2>2, <3>1, <3>3, <3>7
  <2>4. CASE s \notin Reached
    <3>1. queue'[s] = q
      BY <1>1, <2>1, <2>4
    <3>2. Complete(s)'
      BY <1>1, <2>1, <2>2, <3>1 DEF Complete
    <3> QED
      BY <2>1, <2>2, <3>1, <3>2
  <2> QED
    BY <2>3, <2>4
<1>4. RowsOfStreams'
  BY <1>1, <1>2, <1>3 DEF RowsOfStreams
<1>5. LogGrows'
  BY <1>1 DEF EventInv, LogGrows
<1>6. QueuesFit'
  BY <1>1, <1>3 DEF EventInv, QueuesFit
<1> QED
  BY <1>3, <1>4, <1>5, <1>6 DEF EventInv

\* Steps that publish nothing and concern no stream.
LEMMA QuietKeepsInv ==
  ASSUME EventInv, UNCHANGED <<log, busVars>>, tasks' \in Seq({None})
  PROVE  EventInv'
<1>1. UNCHANGED <<subscribers, queue, filter, pc, since, received, told>>
  BY DEF busVars
<1>2. LogGrows' /\ RowsOfStreams' /\ QueuesFit'
  BY <1>1 DEF EventInv, LogGrows, RowsOfStreams, QueuesFit
<1>3. \A s \in Streams : Complete(s)'
  BY <1>1 DEF EventInv, Complete
<1> QED
  BY <1>2, <1>3 DEF EventInv

LEMMA StepKeepsEventInv == EventInv /\ [Next]_vars => EventInv'
<1> SUFFICES ASSUME EventInv, [Next]_vars PROVE EventInv'
  OBVIOUS
<1>1. tasks \in Seq({None})
  BY DEF EventInv, LogGrows
<1>2. CASE UNCHANGED vars
  BY <1>1, <1>2, QuietKeepsInv DEF vars
<1>3. ASSUME NEW u \in Users, Chat(u) PROVE EventInv'
  BY <1>1, <1>3, QuietKeepsInv, PublishKeepsInv DEF Chat
<1>4. ASSUME NEW u \in Users, NEW m \in Markets, Bet(u, m) PROVE EventInv'
  BY <1>1, <1>4, QuietKeepsInv, PublishKeepsInv DEF Bet
<1>5. ASSUME NEW m \in Markets, Comment(m) PROVE EventInv'
  BY <1>1, <1>5, PublishKeepsInv DEF Comment
<1>6. CASE BountyStep
  <2>1. Append(tasks, None) \in Seq({None})
    BY <1>1
  <2> QED
    BY <1>6, <2>1, QuietKeepsInv DEF BountyStep
<1>7. CASE RunTask
  <2>1. Head(tasks) = None /\ Tail(tasks) \in Seq({None})
    BY <1>1, <1>7, HeadTailProperties DEF RunTask
  <2> QED
    BY <1>7, <2>1, PublishKeepsInv DEF RunTask
<1>8. CASE Shutdown
  BY <1>8, ShutdownKeepsInv
<1>9. CASE Advance
  BY <1>1, <1>9, QuietKeepsInv DEF Advance
<1>10. ASSUME NEW s \in Streams, NEW m \in Markets \cup {None}, Subscribe(s, m)
       PROVE  EventInv'
  BY <1>10, SubscribeKeepsInv
<1>11. ASSUME NEW s \in Streams, StreamNext(s) \/ Disconnect(s) PROVE EventInv'
  BY <1>11, IdleKeepsInv, TakeKeepsInv DEF StreamNext
<1> QED
  BY <1>2, <1>3, <1>4, <1>5, <1>6, <1>7, <1>8, <1>9, <1>10, <1>11 DEF Next

LEMMA InitEstablishesEventInv == Init => EventInv
<1> SUFFICES ASSUME Init PROVE EventInv
  OBVIOUS
<1>1. RowsOfStreams
  BY DEF Init, RowsOfStreams
<1>2. LogGrows
  <2>1. log = <<>> /\ tasks = <<>> /\ \A s \in Streams : since[s] = 0
    BY DEF Init
  <2>2. Len(log) = 0 /\ DOMAIN log = {}
    BY <2>1
  <2> QED
    BY <2>1, <2>2 DEF LogGrows, IsLog
<1>3. QueuesFit
  <2>1. \A s \in Streams : queue[s] = <<>> /\ received[s] = <<>>
    BY DEF Init
  <2>2. Capacity \in Nat
    BY EventsAssumption
  <2> QED
    BY <2>1, <2>2 DEF QueuesFit
<1>4. \A s \in Streams : Complete(s)
  BY DEF Init, Complete
<1> QED
  BY <1>1, <1>2, <1>3, <1>4 DEF EventInv

-----------------------------------------------------------------------------
(* The limiter, as chat and bets use it.                                   *)

LEMMA StepIsLimiterStep == [Next]_vars => [LimiterNext]_limiterVars
<1> SUFFICES ASSUME [Next]_vars PROVE [LimiterNext]_limiterVars
  OBVIOUS
<1>1. \A u \in Users : <<"chat", u>> \in Callers /\ <<"bet", u>> \in Callers
  BY EventsAssumption
<1>2. CASE UNCHANGED vars
  BY <1>2 DEF vars
<1>3. ASSUME NEW u \in Users, Chat(u) PROVE LimiterNext
  BY <1>1, <1>3 DEF Chat, LimiterNext
<1>4. ASSUME NEW u \in Users, NEW m \in Markets, Bet(u, m) PROVE LimiterNext
  BY <1>1, <1>4 DEF Bet, LimiterNext
<1>5. CASE Advance
  BY <1>5 DEF Advance, LimiterNext
<1>6. ASSUME \/ \E m \in Markets : Comment(m)
             \/ BountyStep \/ RunTask \/ Shutdown
             \/ \E s \in Streams :
                  \/ \E m \in Markets \cup {None} : Subscribe(s, m)
                  \/ StreamNext(s) \/ Disconnect(s)
      PROVE  UNCHANGED limiterVars
  BY <1>6 DEF Comment, BountyStep, RunTask, Shutdown, Subscribe, StreamNext, Loop,
              Take, Keepalive, StreamStep, Disconnect
<1> QED
  BY <1>2, <1>3, <1>4, <1>5, <1>6 DEF Next

\* Chat and bets use the limiter as its specification says.
THEOREM EventsImplementLimiter == Spec => LimiterSpec
<1>1. Init => LimiterInit
  BY DEF Init
<1>2. [Next]_vars => [LimiterNext]_limiterVars
  BY StepIsLimiterStep
<1> QED
  BY <1>1, <1>2, PTL DEF Spec, LimiterSpec

\* The invariant that the following rest on.
THEOREM EventsInvariant == Spec => []EventInv
<1>1. Init => EventInv
  BY InitEstablishesEventInv
<1>2. EventInv /\ [Next]_vars => EventInv'
  BY StepKeepsEventInv
<1> QED
  BY <1>1, <1>2, PTL DEF Spec

\* Streams, queues and filters keep their types, only streams that run hold a
\* subscription, and no queue grows beyond its size.
THEOREM EventsTypeCorrect == Spec => []TypeOK
<1>1. LimiterTypeOK /\ EventInv => TypeOK
  BY DEF EventInv, RowsOfStreams, QueuesFit, TypeOK
<1> QED
  BY <1>1, EventsInvariant, EventsImplementLimiter, LimiterTypeCorrect, PTL

\* For any streams, filters and sizes of the queues, whoever publishes, leaves or
\* is dropped: a client gets the events it is due once each and in order, and
\* misses none but the last ones, when it has lost its place.
THEOREM StreamsHaveNoGaps == Spec => []NoGaps
<1>1. EventInv => NoGaps
  BY CompleteIsNoGaps DEF EventInv
<1> QED
  BY <1>1, EventsInvariant, PTL
=============================================================================
