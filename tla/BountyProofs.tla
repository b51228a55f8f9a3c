---------------------------- MODULE BountyProofs ----------------------------
(***************************************************************************)
(* Theorems of Bounty, for every number of bounties, users and failures.   *)
(***************************************************************************)
EXTENDS Bounty, FiniteSetTheorems, TLAPS

-----------------------------------------------------------------------------
(* What a pending commit knows of its bounty, whatever other workers do.    *)

\* The parties of a bounty are there once its status implies them.
PartiesKnown ==
  \A b \in Bounties :
    /\ status[b] # "none" => creator[b] \in Users
    /\ status[b] \in {"claimed", "disputed", "completed"} => claimant[b] \in Users

\* Every kind of commit has the fields it uses.
Fits(r) ==
  /\ r.pc # "idle" => r.bounty \in Bounties
  /\ r.pc \in {"debit", "insert", "vote"} => r.user \in Users
  /\ r.pc \in {"vote", "tally"} =>
       creator[r.bounty] \in Users /\ claimant[r.bounty] \in Users
  /\ r.pc = "cas" =>
       /\ r.expected \in Live
       /\ \/ r.to = "claimed" /\ r.user \in Users /\ r.payee = None
          \/ r.to = "disputed" /\ r.expected = "claimed" /\ r.payee = None
          \/ /\ r.to = "completed" /\ r.payee \in Users
             /\ r.expected \in {"claimed", "disputed"}
          \/ r.to = "cancelled" /\ r.payee \in Users
  /\ r.pc = "pay" => r.payee \in Users

TypeInv == TypeOK /\ PartiesKnown /\ \A w \in Workers : Fits(req[w])

\* None is neither a user nor a bounty.
LEMMA NoneIsNoOne == None \notin Users /\ None \notin Bounties
BY NoneAssumption

\* The numeric constants, as the arithmetic of the proofs needs them.
LEMMA AmountsAreNumbers ==
  /\ Amount \in Nat /\ VotesNeeded \in Nat /\ VotesNeeded > 0
  /\ MaxFailures \in Nat
BY AmountsAssumption

\* The requests that handlers make are of the type of requests.
LEMMA IdleType == Idle \in Requests
BY DEF Idle, Requests, Statuses

\* A creation about to debit is a request.
LEMMA CreatingType ==
  ASSUME NEW b \in Bounties, NEW u \in Users
  PROVE  Creating(b, u) \in Requests
BY DEF Creating, Idle, Requests, Statuses

\* A vote about to be recorded is a request.
LEMMA VotingType ==
  ASSUME NEW b \in Bounties, NEW u \in Users, NEW choice \in Verdicts
  PROVE  Voting(b, u, choice) \in Requests
BY DEF Voting, Idle, Requests, Statuses

\* A compare-and-set about to be made is a request.
LEMMA MovingType ==
  ASSUME NEW b \in Bounties, NEW u \in Users \cup {None}, NEW from \in Statuses,
         NEW to \in Statuses, NEW payee \in Users \cup {None},
         NEW checked \in BOOLEAN
  PROVE  Moving(b, u, from, to, payee, checked) \in Requests
BY DEF Moving, Idle, Requests, Statuses

\* Before the first request the type invariant holds.
LEMMA InitTypeInv == Init => TypeInv
<1> SUFFICES ASSUME Init PROVE TypeInv
  OBVIOUS
<1>1. TypeOK
  BY IdleType, AmountsAssumption DEF Init, TypeOK, Statuses
<1>2. PartiesKnown
  BY DEF Init, PartiesKnown
<1>3. \A w \in Workers : Fits(req[w])
  BY DEF Init, Fits, Idle
<1> QED BY <1>1, <1>2, <1>3 DEF TypeInv

\* Parties that stay known keep a pending commit fit.
PartiesStay ==
  \A b \in Bounties :
    /\ creator[b] \in Users => creator'[b] \in Users
    /\ claimant[b] \in Users => claimant'[b] \in Users

\* A worker that begins or commits leaves the requests of the others alone.
LEMMA AllFit ==
  ASSUME TypeInv, PartiesStay, NEW w \in Workers, NEW request \in Requests,
         Continues(w, request), Fits(request)'
  PROVE  \A v \in Workers : Fits(req[v])'
<1> SUFFICES ASSUME NEW v \in Workers PROVE Fits(req[v])'
  OBVIOUS
<1>1. CASE v = w
  <2>1. req'[v] = request
    BY <1>1 DEF Continues, TypeInv, TypeOK
  <2> QED BY <2>1 DEF Fits
<1>2. CASE v # w
  <2>1. req'[v] = req[v] /\ Fits(req[v])
    BY <1>2 DEF Continues, TypeInv, TypeOK
  <2> QED BY <2>1 DEF Fits, PartiesStay
<1> QED BY <1>1, <1>2

\* A handler that begins with a fitting request keeps the type invariant.
LEMMA BeginsTypeInv ==
  ASSUME TypeInv, NEW w \in Workers, NEW request \in Requests,
         Begins(w, request), Fits(request)
  PROVE  TypeInv'
<1>1. Continues(w, request) /\ UNCHANGED <<rows, expired, votes, money, failures>>
  BY DEF Begins, Continues
<1>2. TypeOK'
  BY <1>1 DEF TypeInv, TypeOK, rows, money, Continues
<1>3. PartiesKnown' /\ PartiesStay /\ Fits(request)'
  BY <1>1 DEF TypeInv, PartiesKnown, PartiesStay, Fits, rows
<1> QED BY <1>1, <1>2, <1>3, AllFit DEF TypeInv

\* Every handler begins with a request that fits what it has just read.
LEMMA BeginTypeInv ==
  ASSUME TypeInv, NEW w \in Workers, NEW b \in Bounties, Begin(w, b)
  PROVE  TypeInv'
<1> USE DEF TypeInv, TypeOK, PartiesKnown
<1>1. ASSUME NEW u \in Users, BeginCreate(w, b, u) PROVE TypeInv'
  <2>1. Fits(Creating(b, u)) BY DEF Creating, Idle, Fits
  <2> QED BY <1>1, <2>1, BeginsTypeInv, CreatingType DEF BeginCreate
<1>2. ASSUME NEW u \in Users, BeginClaim(w, b, u) PROVE TypeInv'
  <2> DEFINE r == Moving(b, u, "open", "claimed", None, TRUE)
  <2>1. r \in Requests BY MovingType DEF Statuses, Live
  <2>2. Fits(r) BY DEF Moving, Idle, Fits, Live
  <2> QED BY <1>2, <2>1, <2>2, BeginsTypeInv DEF BeginClaim
<1>3. ASSUME NEW u \in Users, BeginClaimExpired(w, b, u) PROVE TypeInv'
  <2> DEFINE r == Moving(b, u, "open", "cancelled", creator[b], FALSE)
  <2>1. creator[b] \in Users BY <1>3 DEF BeginClaimExpired
  <2>2. r \in Requests BY <2>1, MovingType DEF Statuses, Live, Final
  <2>3. Fits(r) BY <2>1 DEF Moving, Idle, Fits, Live
  <2> QED BY <1>3, <2>2, <2>3, BeginsTypeInv DEF BeginClaimExpired
<1>4. ASSUME NEW u \in Users, NEW choice \in Verdicts, BeginVote(w, b, u, choice)
      PROVE  TypeInv'
  <2>1. Fits(Voting(b, u, choice)) BY <1>4 DEF BeginVote, Voting, Idle, Fits
  <2> QED BY <1>4, <2>1, BeginsTypeInv, VotingType DEF BeginVote
<1>5. ASSUME BeginRelease(w, b) PROVE TypeInv'
  <2> DEFINE r == Moving(b, creator[b], "claimed", "completed", claimant[b], TRUE)
  <2>1. creator[b] \in Users /\ claimant[b] \in Users BY <1>5 DEF BeginRelease
  <2>2. r \in Requests BY <2>1, MovingType DEF Statuses, Live, Final
  <2>3. Fits(r) BY <2>1 DEF Moving, Idle, Fits, Live
  <2> QED BY <1>5, <2>2, <2>3, BeginsTypeInv DEF BeginRelease
<1>6. ASSUME BeginCancel(w, b) PROVE TypeInv'
  <2> DEFINE r == Moving(b, creator[b], status[b], "cancelled", creator[b], TRUE)
  <2>1. creator[b] \in Users /\ status[b] \in Live
    BY <1>6 DEF BeginCancel, Cancellable, Live
  <2>2. r \in Requests BY <2>1, MovingType DEF Statuses, Live, Final
  <2>3. Fits(r) BY <2>1 DEF Moving, Idle, Fits
  <2> QED BY <1>6, <2>2, <2>3, BeginsTypeInv DEF BeginCancel
<1>7. ASSUME BeginDispute(w, b) PROVE TypeInv'
  <2> DEFINE r == Moving(b, creator[b], "claimed", "disputed", None, TRUE)
  <2>1. r \in Requests BY MovingType DEF Statuses, Live
  <2>2. Fits(r) BY DEF Moving, Idle, Fits, Live
  <2> QED BY <1>7, <2>1, <2>2, BeginsTypeInv DEF BeginDispute
<1> QED BY <1>1, <1>2, <1>3, <1>4, <1>5, <1>6, <1>7 DEF Begin

\* Every commit of a handler keeps the type invariant.
LEMMA StepTypeInv ==
  ASSUME TypeInv, NEW w \in Workers, Step(w)
  PROVE  TypeInv'
<1>0. PICK r \in Requests : r = req[w] /\ Fits(r)
  BY DEF TypeInv, TypeOK
<1>1. ASSUME Debit(w) PROVE TypeInv'
  <2>1. PICK next \in Requests : next = [r EXCEPT !.pc = "insert"]
    BY <1>0 DEF Requests
  <2>2. Continues(w, next) /\ r.user \in Users
    BY <1>0, <1>1, <2>1 DEF Debit, Fits
  <2>3. balance' \in [Users -> Int]
    BY <1>0, <1>1, <2>2, AmountsAreNumbers DEF TypeInv, TypeOK, Debit
  <2>4. TypeOK'
    BY <1>1, <2>1, <2>2, <2>3 DEF TypeInv, TypeOK, Debit, Continues, rows
  <2>5. PartiesKnown' /\ PartiesStay
    BY <1>1 DEF TypeInv, PartiesKnown, PartiesStay, Debit, rows
  <2>6. /\ next.pc = "insert"
        /\ next.bounty = r.bounty /\ next.user = r.user
    BY <2>1 DEF Requests
  <2>7. Fits(next)'
    BY <1>0, <1>1, <2>6 DEF Fits, Debit
  <2> QED BY <2>1, <2>2, <2>4, <2>5, <2>7, AllFit DEF TypeInv
<1>2. ASSUME Insert(w) PROVE TypeInv'
  <2>1. Continues(w, Idle) /\ Fits(Idle)' BY <1>2 DEF Insert, Fits, Idle
  <2>2. r.bounty \in Bounties /\ r.user \in Users
    BY <1>0, <1>2 DEF Insert, Fits
  <2>3. TypeOK'
    BY <1>0, <1>2, <2>1, <2>2, IdleType
    DEF TypeInv, TypeOK, Insert, Continues, money, Statuses, Live
  <2>4. PartiesKnown' /\ PartiesStay
    BY <1>0, <1>2, <2>2 DEF TypeInv, TypeOK, PartiesKnown, PartiesStay, Insert
  <2> QED BY <2>1, <2>3, <2>4, IdleType, AllFit DEF TypeInv
<1>3. ASSUME AddVote(w) PROVE TypeInv'
  <2>1. PICK next \in Requests :
          /\ Continues(w, next)
          /\ next = Idle \/ next = [r EXCEPT !.pc = "tally"]
    BY <1>0, <1>3, IdleType DEF AddVote, Requests
  <2>2. votes' = votes \/ votes' = [votes EXCEPT ![r.bounty][r.user] = r.choice]
    BY <1>0, <1>3 DEF AddVote
  <2>3. votes' \in [Bounties -> [Users -> Verdicts \cup {None}]]
    <3>1. r.choice \in Verdicts \cup {None} BY DEF Requests
    <3> QED BY <2>2, <3>1 DEF TypeInv, TypeOK
  <2>4. TypeOK'
    BY <1>3, <2>1, <2>3 DEF TypeInv, TypeOK, AddVote, Continues, rows, money
  <2>5. PartiesKnown' /\ PartiesStay
    BY <1>3 DEF TypeInv, PartiesKnown, PartiesStay, AddVote, rows
  <2>6. Fits(next)'
    <3>1. CASE next = Idle BY <3>1 DEF Fits, Idle
    <3>2. CASE next = [r EXCEPT !.pc = "tally"]
      <4>1. next.pc = "tally" /\ next.bounty = r.bounty BY <3>2 DEF Requests
      <4> QED BY <1>0, <1>3, <4>1 DEF Fits, AddVote, rows
    <3> QED BY <2>1, <3>1, <3>2
  <2> QED BY <2>1, <2>4, <2>5, <2>6, AllFit DEF TypeInv
<1>4. ASSUME Tally(w) PROVE TypeInv'
  <2>1. PICK verdict \in Verdicts :
          Continues(w, IF EnoughVotes(r.bounty)
                       THEN Moving(r.bounty, r.user, "disputed",
                                   VerdictStatus(verdict),
                                   VerdictPayee(r.bounty, verdict), FALSE)
                       ELSE Idle)
    BY <1>0, <1>4 DEF Tally, Verdicts
  <2>2. /\ r.bounty \in Bounties /\ r.user \in Users \cup {None}
        /\ VerdictPayee(r.bounty, verdict) \in Users
        /\ VerdictStatus(verdict) \in Final
    BY <1>0, <1>4 DEF Tally, Fits, VerdictPayee, VerdictStatus, Final, Requests
  <2>3. Moving(r.bounty, r.user, "disputed", VerdictStatus(verdict),
               VerdictPayee(r.bounty, verdict), FALSE) \in Requests
    BY <2>2, MovingType DEF Statuses, Live
  <2>4. PICK next \in Requests :
          /\ Continues(w, next)
          /\ \/ next = Idle
             \/ next = Moving(r.bounty, r.user, "disputed",
                              VerdictStatus(verdict),
                              VerdictPayee(r.bounty, verdict), FALSE)
    BY <2>1, <2>3, IdleType
  <2>5. Fits(next)
    <3>1. CASE next = Idle BY <3>1 DEF Fits, Idle
    <3>2. CASE next # Idle
      <4>1. /\ next.pc = "cas" /\ next.bounty = r.bounty
            /\ next.expected = "disputed" /\ next.to = VerdictStatus(verdict)
            /\ next.payee = VerdictPayee(r.bounty, verdict)
        BY <2>4, <3>2 DEF Moving, Idle
      <4> QED BY <2>2, <4>1 DEF Fits, Live, Final
    <3> QED BY <3>1, <3>2
  <2>6. TypeOK'
    BY <1>4, <2>4 DEF TypeInv, TypeOK, Tally, Continues, rows, money
  <2>7. PartiesKnown' /\ PartiesStay
    BY <1>4 DEF TypeInv, PartiesKnown, PartiesStay, Tally, rows
  <2>8. Fits(next)'
    BY <1>4, <2>5 DEF Fits, Tally, rows
  <2> QED BY <2>4, <2>6, <2>7, <2>8, AllFit DEF TypeInv
<1>5. ASSUME Cas(w) PROVE TypeInv'
  <2>1. PICK next \in Requests :
          /\ Continues(w, next)
          /\ \/ next = Idle
             \/ r.payee # None /\ next = [r EXCEPT !.pc = "pay"]
    BY <1>0, <1>5, IdleType DEF Cas, Requests
  <2>2. /\ r.pc = "cas" /\ r.bounty \in Bounties /\ r.to \in Statuses
        /\ r.to = "claimed" => r.user \in Users
    BY <1>0, <1>5, NoneIsNoOne DEF Cas, Fits, Requests
  <2>3. \/ UNCHANGED <<status, claimant>>
        \/ /\ status[r.bounty] = r.expected
           /\ status' = [status EXCEPT ![r.bounty] = r.to]
           /\ claimant' = [claimant EXCEPT ![r.bounty] =
                             IF r.to = "claimed" THEN r.user ELSE @]
    BY <1>0, <1>5 DEF Cas, Matches
  <2>4. /\ status' \in [Bounties -> Statuses]
        /\ claimant' \in [Bounties -> Users \cup {None}]
    BY <2>2, <2>3 DEF TypeInv, TypeOK
  <2>5. UNCHANGED <<creator, expired, votes, money, failures>>
    BY <1>5 DEF Cas
  <2>6. TypeOK'
    BY <2>1, <2>4, <2>5 DEF TypeInv, TypeOK, Continues, money
  <2>7. PartiesStay
    BY <2>2, <2>3, <2>5 DEF TypeInv, TypeOK, PartiesStay
  <2>8. PartiesKnown'
    <3> SUFFICES ASSUME NEW b \in Bounties
                 PROVE  /\ status'[b] # "none" => creator'[b] \in Users
                        /\ status'[b] \in {"claimed", "disputed", "completed"}
                             => claimant'[b] \in Users
      BY DEF PartiesKnown
    <3>1. CASE UNCHANGED <<status, claimant>> \/ b # r.bounty
      BY <2>3, <2>5, <3>1 DEF TypeInv, TypeOK, PartiesKnown
    <3>2. CASE ~UNCHANGED <<status, claimant>> /\ b = r.bounty
      <4>1. /\ status[b] = r.expected /\ status'[b] = r.to
            /\ claimant'[b] = IF r.to = "claimed" THEN r.user ELSE claimant[b]
        BY <2>3, <3>2 DEF TypeInv, TypeOK
      <4> QED BY <1>0, <2>2, <2>5, <4>1, NoneIsNoOne
              DEF TypeInv, PartiesKnown, Fits, Live
    <3> QED BY <3>1, <3>2
  <2>9. Fits(next)'
    <3>1. CASE next = Idle BY <3>1 DEF Fits, Idle
    <3>2. CASE r.payee # None /\ next = [r EXCEPT !.pc = "pay"]
      <4>1. next.pc = "pay" /\ next.bounty = r.bounty /\ next.payee = r.payee
        BY <3>2 DEF Requests
      <4> QED BY <1>0, <2>2, <3>2, <4>1 DEF Fits
    <3> QED BY <2>1, <3>1, <3>2
  <2> QED BY <2>1, <2>6, <2>7, <2>8, <2>9, AllFit DEF TypeInv
<1>6. ASSUME Pay(w) PROVE TypeInv'
  <2>1. Continues(w, Idle) /\ Fits(Idle)' BY <1>6 DEF Pay, Fits, Idle
  <2>2. r.payee \in Users /\ r.bounty \in Bounties
    BY <1>0, <1>6 DEF Pay, Fits
  <2>3. balance' \in [Users -> Int] /\ credits' \in [Bounties -> Nat]
    BY <1>0, <1>6, <2>2, AmountsAreNumbers DEF TypeInv, TypeOK, Pay
  <2>4. TypeOK'
    BY <1>0, <1>6, <2>1, <2>2, <2>3, IdleType
    DEF TypeInv, TypeOK, Pay, Continues, rows
  <2>5. PartiesKnown' /\ PartiesStay
    BY <1>6 DEF TypeInv, PartiesKnown, PartiesStay, Pay, rows
  <2> QED BY <2>1, <2>4, <2>5, IdleType, AllFit DEF TypeInv
<1> QED BY <1>1, <1>2, <1>3, <1>4, <1>5, <1>6 DEF Step

\* The type invariant is inductive.
LEMMA NextTypeInv == TypeInv /\ [Next]_vars => TypeInv'
<1> SUFFICES ASSUME TypeInv, [Next]_vars PROVE TypeInv'
  OBVIOUS
<1>1. ASSUME NEW w \in Workers, Fail(w) PROVE TypeInv'
  <2>1. Continues(w, Idle) /\ Fits(Idle)' BY <1>1 DEF Fail, Fits, Idle
  <2>2. TypeOK'
    BY <1>1, <2>1, IdleType, AmountsAreNumbers
    DEF TypeInv, TypeOK, Fail, Continues, rows, money
  <2>3. PartiesKnown' /\ PartiesStay
    BY <1>1 DEF TypeInv, PartiesKnown, PartiesStay, Fail, rows
  <2> QED BY <2>1, <2>2, <2>3, IdleType, AllFit DEF TypeInv
<1>2. ASSUME NEW b \in Bounties, Expire(b) PROVE TypeInv'
  BY <1>2 DEF Expire, TypeInv, TypeOK, PartiesKnown, Fits, rows, money
<1>3. CASE UNCHANGED vars
  BY <1>3 DEF vars, TypeInv, TypeOK, PartiesKnown, Fits, rows, money
<1> QED BY <1>1, <1>2, <1>3, BeginTypeInv, StepTypeInv DEF Next

\* Every value of every variable is of its type, however many workers serve.
THEOREM TypeCorrect == Spec => []TypeOK
<1>1. TypeInv => TypeOK BY DEF TypeInv
<1> QED BY <1>1, InitTypeInv, NextTypeInv, PTL DEF Spec

-----------------------------------------------------------------------------
(* One worker.  Between its commits nobody else moves the bounty, so what   *)
(* the handler read still holds; an escrow is owed or paid only when its    *)
(* status is final, and no compare-and-set leaves a final status.           *)

\* p is who the points of b go to when its status is s.
Right(s, p, b) ==
  \/ s = "completed" /\ p = claimant[b]
  \/ s = "cancelled" /\ p = creator[b]

Steady(r) ==
  /\ r.pc \in {"debit", "insert"} => status[r.bounty] = "none"
  /\ r.pc \in {"vote", "tally"} => status[r.bounty] = "disputed"
  /\ r.pc = "cas" =>
       /\ status[r.bounty] = r.expected
       /\ r.payee # None => Right(r.to, r.payee, r.bounty)
  /\ r.pc = "pay" =>
       credits[r.bounty] = 0 /\ Right(status[r.bounty], r.payee, r.bounty)

PaidRight ==
  \A b \in Bounties :
    \/ credits[b] = 0
    \/ credits[b] = 1 /\ Right(status[b], paidTo[b], b)

OnceInv == TypeInv /\ PaidRight /\ \A w \in Workers : Steady(req[w])

\* Before the first request no escrow has been paid out.
LEMMA InitOnceInv == Init => OnceInv
BY InitTypeInv DEF Init, OnceInv, PaidRight, Steady, Idle

\* With one worker the request it goes on with is the only one to be steady.
LEMMA OneSteady ==
  ASSUME SingleProcess, TypeInv, NEW w \in Workers, NEW request \in Requests,
         Continues(w, request), Steady(request)'
  PROVE  \A v \in Workers : Steady(req[v])'
<1> SUFFICES ASSUME NEW v \in Workers PROVE Steady(req[v])'
  OBVIOUS
<1>1. v = w
  BY DEF SingleProcess
<1>2. req'[v] = request
  BY <1>1 DEF Continues, TypeInv, TypeOK
<1> QED BY <1>2 DEF Steady

\* A handler that begins with a steady request pays nothing yet.
LEMMA BeginsOnceInv ==
  ASSUME SingleProcess, OnceInv, TypeInv', NEW w \in Workers,
         NEW request \in Requests, Begins(w, request), Steady(request)
  PROVE  OnceInv'
<1>1. Continues(w, request) /\ UNCHANGED <<status, creator, claimant, credits, paidTo>>
  BY DEF Begins, Continues, rows, money
<1>2. PaidRight' /\ Steady(request)'
  BY <1>1 DEF OnceInv, PaidRight, Steady, Right
<1> QED BY <1>1, <1>2, OneSteady DEF OnceInv

\* Every handler begins with a request its bounty is steady for.
LEMMA BeginOnceInv ==
  ASSUME SingleProcess, OnceInv, TypeInv', NEW w \in Workers,
         NEW b \in Bounties, Begin(w, b)
  PROVE  OnceInv'
<1>0. TypeInv BY DEF OnceInv
<1> USE <1>0 DEF TypeInv, TypeOK, PartiesKnown
<1>1. ASSUME NEW u \in Users, BeginCreate(w, b, u) PROVE OnceInv'
  <2>1. Steady(Creating(b, u)) BY <1>1 DEF BeginCreate, Creating, Idle, Steady
  <2> QED BY <1>1, <2>1, BeginsOnceInv, CreatingType DEF BeginCreate
<1>2. ASSUME NEW u \in Users, BeginClaim(w, b, u) PROVE OnceInv'
  <2> DEFINE r == Moving(b, u, "open", "claimed", None, TRUE)
  <2>1. r \in Requests BY MovingType DEF Statuses, Live
  <2>2. Steady(r) BY <1>2 DEF Moving, Idle, BeginClaim, Steady
  <2> QED BY <1>2, <2>1, <2>2, BeginsOnceInv DEF BeginClaim
<1>3. ASSUME NEW u \in Users, BeginClaimExpired(w, b, u) PROVE OnceInv'
  <2>1. PICK c \in Users : c = creator[b] BY <1>3 DEF BeginClaimExpired
  <2> DEFINE r == Moving(b, u, "open", "cancelled", c, FALSE)
  <2>2. r \in Requests BY MovingType DEF Statuses, Live, Final
  <2>3. Steady(r)
    BY <1>3, <2>1 DEF Moving, Idle, BeginClaimExpired, Steady, Right
  <2> QED BY <1>3, <2>1, <2>2, <2>3, BeginsOnceInv DEF BeginClaimExpired
<1>4. ASSUME NEW u \in Users, NEW choice \in Verdicts, BeginVote(w, b, u, choice)
      PROVE  OnceInv'
  <2>1. Steady(Voting(b, u, choice)) BY <1>4 DEF BeginVote, Voting, Idle, Steady
  <2> QED BY <1>4, <2>1, BeginsOnceInv, VotingType DEF BeginVote
<1>5. ASSUME BeginRelease(w, b) PROVE OnceInv'
  <2>1. PICK c \in Users, p \in Users : c = creator[b] /\ p = claimant[b]
    BY <1>5 DEF BeginRelease
  <2> DEFINE r == Moving(b, c, "claimed", "completed", p, TRUE)
  <2>2. r \in Requests BY MovingType DEF Statuses, Live, Final
  <2>3. Steady(r) BY <1>5, <2>1 DEF Moving, Idle, BeginRelease, Steady, Right
  <2> QED BY <1>5, <2>1, <2>2, <2>3, BeginsOnceInv DEF BeginRelease
<1>6. ASSUME BeginCancel(w, b) PROVE OnceInv'
  <2>1. PICK c \in Users, s \in Live : c = creator[b] /\ s = status[b]
    BY <1>6 DEF BeginCancel, Cancellable, Live
  <2> DEFINE r == Moving(b, c, s, "cancelled", c, TRUE)
  <2>2. r \in Requests BY MovingType DEF Statuses, Live, Final
  <2>3. Steady(r) BY <1>6, <2>1 DEF Moving, Idle, BeginCancel, Steady, Right
  <2> QED BY <1>6, <2>1, <2>2, <2>3, BeginsOnceInv DEF BeginCancel
<1>7. ASSUME BeginDispute(w, b) PROVE OnceInv'
  <2>1. PICK c \in Users : c = creator[b] BY <1>7 DEF BeginDispute
  <2> DEFINE r == Moving(b, c, "claimed", "disputed", None, TRUE)
  <2>2. r \in Requests BY MovingType DEF Statuses, Live
  <2>3. Steady(r) BY <1>7 DEF Moving, Idle, BeginDispute, Steady
  <2> QED BY <1>7, <2>1, <2>2, <2>3, BeginsOnceInv DEF BeginDispute
<1> QED BY <1>1, <1>2, <1>3, <1>4, <1>5, <1>6, <1>7 DEF Begin

\* Every commit of a handler keeps escrows paid out once and rightly.
LEMMA StepOnceInv ==
  ASSUME SingleProcess, OnceInv, TypeInv', NEW w \in Workers, Step(w)
  PROVE  OnceInv'
<1>0. PICK r \in Requests : r = req[w] /\ Fits(r) /\ Steady(r)
  BY DEF OnceInv, TypeInv, TypeOK
<1>1. TypeInv BY DEF OnceInv
<1>2. Steady(Idle)' BY DEF Steady, Idle
<1>3. ASSUME Debit(w) PROVE OnceInv'
  <2>1. PICK next \in Requests : next = [r EXCEPT !.pc = "insert"]
    BY DEF Requests
  <2>2. next.pc = "insert" /\ next.bounty = r.bounty /\ Continues(w, next)
    BY <1>0, <1>3, <2>1 DEF Debit, Requests
  <2>3. UNCHANGED <<rows, credits, paidTo>> /\ r.pc = "debit"
    BY <1>0, <1>3 DEF Debit
  <2>4. PaidRight' BY <2>3 DEF OnceInv, PaidRight, Right, rows
  <2>5. Steady(next)' BY <1>0, <2>2, <2>3 DEF Steady, rows
  <2> QED BY <1>1, <2>2, <2>4, <2>5, OneSteady DEF OnceInv
<1>4. ASSUME Insert(w) PROVE OnceInv'
  <2>1. /\ r.pc = "insert" /\ status[r.bounty] = "none"
        /\ r.bounty \in Bounties
    BY <1>0, <1>4 DEF Insert, Steady, Fits
  <2>2. PaidRight'
    <3> SUFFICES ASSUME NEW b \in Bounties
                 PROVE  \/ credits'[b] = 0
                        \/ credits'[b] = 1 /\ Right(status[b], paidTo[b], b)'
      BY DEF PaidRight
    <3>1. CASE b = r.bounty
      BY <1>4, <2>1, <3>1 DEF OnceInv, PaidRight, Right, Insert, money
    <3>2. CASE b # r.bounty
      <4>1. /\ status'[b] = status[b] /\ creator'[b] = creator[b]
            /\ UNCHANGED <<claimant, credits, paidTo>>
        BY <1>0, <1>1, <1>4, <3>2 DEF TypeInv, TypeOK, Insert, money
      <4> QED BY <4>1 DEF OnceInv, PaidRight, Right
    <3> QED BY <3>1, <3>2
  <2> QED BY <1>1, <1>2, <1>4, <2>2, IdleType, OneSteady DEF OnceInv, Insert
<1>5. ASSUME AddVote(w) PROVE OnceInv'
  <2>1. PICK next \in Requests :
          /\ Continues(w, next)
          /\ next = Idle \/ next = [r EXCEPT !.pc = "tally"]
    BY <1>0, <1>5, IdleType DEF AddVote, Requests
  <2>2. UNCHANGED <<rows, credits, paidTo>> /\ r.pc = "vote"
    BY <1>0, <1>5 DEF AddVote, money
  <2>3. PaidRight' BY <2>2 DEF OnceInv, PaidRight, Right, rows
  <2>4. Steady(next)'
    <3>1. CASE next # Idle
      <4>1. next.pc = "tally" /\ next.bounty = r.bounty
        BY <2>1, <3>1 DEF Requests
      <4> QED BY <1>0, <2>2, <4>1 DEF Steady, rows
    <3> QED BY <1>2, <3>1
  <2> QED BY <1>1, <2>1, <2>3, <2>4, OneSteady DEF OnceInv
<1>6. ASSUME Tally(w) PROVE OnceInv'
  <2>1. PICK verdict \in Verdicts :
          Continues(w, IF EnoughVotes(r.bounty)
                       THEN Moving(r.bounty, r.user, "disputed",
                                   VerdictStatus(verdict),
                                   VerdictPayee(r.bounty, verdict), FALSE)
                       ELSE Idle)
    BY <1>0, <1>6 DEF Tally, Verdicts
  <2>2. /\ r.pc = "tally" /\ r.bounty \in Bounties
        /\ creator[r.bounty] \in Users /\ claimant[r.bounty] \in Users
    BY <1>0, <1>6 DEF Tally, Fits
  <2>3. PICK p \in Users : p = VerdictPayee(r.bounty, verdict)
    BY <2>2 DEF VerdictPayee
  <2>4. VerdictStatus(verdict) \in Statuses /\ r.user \in Users \cup {None}
    BY DEF VerdictStatus, Statuses, Final, Requests
  <2>5. Moving(r.bounty, r.user, "disputed", VerdictStatus(verdict), p, FALSE)
          \in Requests
    BY <2>2, <2>4, MovingType DEF Statuses, Live
  <2>6. PICK next \in Requests :
          /\ Continues(w, next)
          /\ \/ next = Idle
             \/ next = Moving(r.bounty, r.user, "disputed",
                              VerdictStatus(verdict), p, FALSE)
    BY <2>1, <2>3, <2>5, IdleType
  <2>7. UNCHANGED <<rows, credits, paidTo>>
    BY <1>6 DEF Tally, money
  <2>8. PaidRight' BY <2>7 DEF OnceInv, PaidRight, Right, rows
  <2>9. Steady(next)'
    <3>1. CASE next # Idle
      <4>1. /\ next.pc = "cas" /\ next.bounty = r.bounty
            /\ next.expected = "disputed" /\ next.payee = p
            /\ next.to = VerdictStatus(verdict)
        BY <2>6, <3>1 DEF Moving, Idle
      <4>2. Right(VerdictStatus(verdict), p, r.bounty)
        BY <2>3 DEF Right, VerdictStatus, VerdictPayee, Verdicts
      <4> QED BY <1>0, <2>2, <2>7, <4>1, <4>2 DEF Steady, Right, rows
    <3> QED BY <1>2, <3>1
  <2> QED BY <1>1, <2>6, <2>8, <2>9, OneSteady DEF OnceInv
<1>7. ASSUME Cas(w) PROVE OnceInv'
  <2>1. PICK next \in Requests :
          /\ Continues(w, next)
          /\ \/ next = Idle
             \/ r.payee # None /\ next = [r EXCEPT !.pc = "pay"]
    BY <1>0, <1>7, IdleType DEF Cas, Requests
  <2>2. /\ r.pc = "cas" /\ r.bounty \in Bounties
        /\ status[r.bounty] = r.expected /\ r.expected \in Live
    BY <1>0, <1>7 DEF Cas, Fits, Steady
  <2>3. /\ status' = [status EXCEPT ![r.bounty] = r.to]
        /\ claimant' = [claimant EXCEPT ![r.bounty] =
                          IF r.to = "claimed" THEN r.user ELSE @]
        /\ UNCHANGED <<creator, credits, paidTo>>
    BY <1>0, <1>7, <2>2 DEF Cas, Matches, money
  <2>4. credits[r.bounty] = 0
    BY <2>2 DEF OnceInv, PaidRight, Right, Live
  <2>5. PaidRight'
    <3> SUFFICES ASSUME NEW b \in Bounties, b # r.bounty
                 PROVE  \/ credits'[b] = 0
                        \/ credits'[b] = 1 /\ Right(status[b], paidTo[b], b)'
      BY <2>3, <2>4 DEF PaidRight
    <3>1. status'[b] = status[b] /\ claimant'[b] = claimant[b]
      BY <1>1, <2>3 DEF TypeInv, TypeOK
    <3> QED BY <2>3, <3>1 DEF OnceInv, PaidRight, Right
  <2>6. Steady(next)'
    <3>1. CASE next # Idle
      <4>1. /\ r.payee # None /\ next.pc = "pay"
            /\ next.bounty = r.bounty /\ next.payee = r.payee
        BY <2>1, <3>1 DEF Requests
      <4>2. Right(r.to, r.payee, r.bounty)
        BY <1>0, <2>2, <4>1 DEF Steady
      <4>3. /\ status'[r.bounty] = r.to
            /\ claimant'[r.bounty] = claimant[r.bounty]
        BY <1>1, <2>2, <2>3, <4>2 DEF TypeInv, TypeOK, Right
      <4> QED BY <2>3, <2>4, <4>1, <4>2, <4>3 DEF Steady, Right
    <3> QED BY <1>2, <3>1
  <2> QED BY <1>1, <2>1, <2>5, <2>6, OneSteady DEF OnceInv
<1>8. ASSUME Pay(w) PROVE OnceInv'
  <2>1. /\ credits[r.bounty] = 0 /\ Right(status[r.bounty], r.payee, r.bounty)
        /\ r.bounty \in Bounties
    BY <1>0, <1>8 DEF Pay, Steady, Fits
  <2>2. /\ credits' = [credits EXCEPT ![r.bounty] = @ + 1]
        /\ paidTo' = [paidTo EXCEPT ![r.bounty] = r.payee]
        /\ UNCHANGED <<status, creator, claimant>>
    BY <1>0, <1>8 DEF Pay, rows
  <2>3. PaidRight'
    <3> SUFFICES ASSUME NEW b \in Bounties
                 PROVE  \/ credits'[b] = 0
                        \/ credits'[b] = 1 /\ Right(status[b], paidTo[b], b)'
      BY DEF PaidRight
    <3>1. CASE b = r.bounty
      <4>1. credits'[b] = 1 /\ paidTo'[b] = r.payee
        BY <1>1, <2>1, <2>2, <3>1 DEF TypeInv, TypeOK
      <4> QED BY <2>1, <2>2, <3>1, <4>1 DEF Right
    <3>2. CASE b # r.bounty
      <4>1. credits'[b] = credits[b] /\ paidTo'[b] = paidTo[b]
        BY <1>1, <2>2, <3>2 DEF TypeInv, TypeOK
      <4> QED BY <2>2, <4>1 DEF OnceInv, PaidRight, Right
    <3> QED BY <3>1, <3>2
  <2> QED BY <1>1, <1>2, <1>8, <2>3, IdleType, OneSteady DEF OnceInv, Pay
<1> QED BY <1>3, <1>4, <1>5, <1>6, <1>7, <1>8 DEF Step

\* With one worker the invariant of single payment is inductive.
LEMMA NextOnceInv ==
  ASSUME SingleProcess
  PROVE  OnceInv /\ [Next]_vars => OnceInv'
<1> SUFFICES ASSUME OnceInv, [Next]_vars PROVE OnceInv'
  OBVIOUS
<1>1. TypeInv /\ TypeInv' BY NextTypeInv DEF OnceInv
<1>2. ASSUME NEW w \in Workers, Fail(w) PROVE OnceInv'
  <2>1. PaidRight' /\ Steady(Idle)'
    BY <1>2 DEF Fail, OnceInv, PaidRight, Right, Steady, Idle, rows, money
  <2> QED BY <1>1, <1>2, <2>1, IdleType, OneSteady DEF Fail, OnceInv
<1>3. ASSUME NEW b \in Bounties, Expire(b) PROVE OnceInv'
  BY <1>1, <1>3 DEF Expire, OnceInv, PaidRight, Steady, Right, rows, money
<1>4. CASE UNCHANGED vars
  BY <1>1, <1>4 DEF vars, OnceInv, PaidRight, Steady, Right, rows, money
<1> QED BY <1>1, <1>2, <1>3, <1>4, BeginOnceInv, StepOnceInv DEF Next

\* With one worker the invariant of single payment always holds.
LEMMA OnceInvHolds ==
  ASSUME SingleProcess
  PROVE  Spec => []OnceInv
BY InitOnceInv, NextOnceInv, PTL DEF Spec

\* With one worker an escrow is paid out at most once, whatever fails.
THEOREM PaidOutOnce ==
  ASSUME SingleProcess
  PROVE  Spec => []SettledOnce
<1>1. OnceInv => SettledOnce
  BY DEF OnceInv, PaidRight, SettledOnce
<1> QED BY <1>1, OnceInvHolds, PTL

\* With one worker the money goes where the status of the bounty says.
THEOREM PaidToTheRightParty ==
  ASSUME SingleProcess
  PROVE  Spec => []SettlementMatches
<1>1. OnceInv => SettlementMatches
  BY DEF OnceInv, PaidRight, Right, SettlementMatches
<1> QED BY <1>1, OnceInvHolds, PTL

-----------------------------------------------------------------------------
(* Any number of workers.  A bounty that is neither late nor fully voted on *)
(* is settled by a compare-and-set whose loser goes home, so one worker at  *)
(* most owes its escrow.                                                    *)

Paying(w, b) == req[w].pc = "pay" /\ req[w].bounty = b

Guarded(b) ==
  /\ \A w \in Workers :
       req[w].pc = "cas" /\ req[w].bounty = b => req[w].checked = TRUE
  /\ \A w \in Workers : Paying(w, b) => status[b] \in Final /\ credits[b] = 0
  /\ \A v, w \in Workers : Paying(v, b) /\ Paying(w, b) => v = w
  /\ \/ credits[b] = 0
     \/ credits[b] = 1 /\ status[b] \in Final

\* A bounty being created has no row yet, and one worker creates it.
NewIds ==
  \A v \in Workers : req[v].pc \in {"debit", "insert"} =>
    /\ status[req[v].bounty] = "none"
    /\ \A w \in Workers \ {v} : req[w].bounty # req[v].bounty

CheckedInv ==
  TypeInv /\ NewIds /\ \A b \in Bounties : Guarded(b) \/ Unchecked(b)

\* Before the first request every bounty is guarded.
LEMMA InitCheckedInv == Init => CheckedInv
<1> SUFFICES ASSUME Init PROVE CheckedInv
  OBVIOUS
<1>1. NewIds BY DEF Init, NewIds, Idle
<1>2. ASSUME NEW b \in Bounties PROVE Guarded(b)
  <2>1. \A w \in Workers : req[w].pc = "idle" BY DEF Init, Idle
  <2>2. credits[b] = 0 BY DEF Init
  <2>3. \A w \in Workers : ~Paying(w, b) BY <2>1 DEF Paying
  <2>4. \A w \in Workers : req[w].pc # "cas" BY <2>1
  <2> QED BY <2>2, <2>3, <2>4 DEF Guarded
<1> QED BY <1>1, <1>2, InitTypeInv DEF CheckedInv

\* The two tables outside the rows each have one action that writes them.
LEMMA WhoWrites ==
  ASSUME [Next]_vars
  PROVE  /\ UNCHANGED votes \/ \E w \in Workers : AddVote(w)
         /\ UNCHANGED expired \/ \E b \in Bounties : Expire(b)
<1>1. ASSUME NEW w \in Workers, NEW b \in Bounties, Begin(w, b)
      PROVE  UNCHANGED <<votes, expired>>
  BY <1>1 DEF Begin, BeginCreate, BeginClaim, BeginClaimExpired, BeginVote,
              BeginRelease, BeginCancel, BeginDispute, Begins
<1>2. ASSUME NEW w \in Workers, Step(w), ~AddVote(w)
      PROVE  UNCHANGED <<votes, expired>>
  BY <1>2 DEF Step, Debit, Insert, Tally, Cas, Pay
<1>3. ASSUME NEW w \in Workers, AddVote(w) PROVE UNCHANGED expired
  BY <1>3 DEF AddVote
<1>4. ASSUME NEW w \in Workers, Fail(w) PROVE UNCHANGED <<votes, expired>>
  BY <1>4 DEF Fail
<1>5. ASSUME NEW b \in Bounties, Expire(b) PROVE UNCHANGED votes
  BY <1>5 DEF Expire
<1>6. CASE UNCHANGED vars
  BY <1>6 DEF vars
<1> QED BY <1>1, <1>2, <1>3, <1>4, <1>5, <1>6 DEF Next

\* Votes are only ever added.
LEMMA VotesGrow ==
  ASSUME TypeInv, [Next]_vars, NEW b \in Bounties, NEW u \in Users,
         votes[b][u] # None
  PROVE  votes'[b][u] # None
<1>1. CASE UNCHANGED votes
  BY <1>1
<1>2. ASSUME NEW w \in Workers, AddVote(w) PROVE votes'[b][u] # None
  <2>1. PICK r \in Requests : r = req[w]
    BY DEF TypeInv, TypeOK
  <2>2. \/ votes' = votes
        \/ /\ votes[r.bounty][r.user] = None
           /\ votes' = [votes EXCEPT ![r.bounty][r.user] = r.choice]
    BY <1>2, <2>1 DEF AddVote
  <2> QED BY <2>2 DEF TypeInv, TypeOK
<1> QED BY <1>1, <1>2, WhoWrites

\* A bounty that is late or fully voted on stays so.
LEMMA UncheckedStays ==
  ASSUME TypeInv, TypeInv', [Next]_vars, NEW b \in Bounties, Unchecked(b)
  PROVE  Unchecked(b)'
<1>1. expired[b] => expired'[b]
  BY WhoWrites DEF TypeInv, TypeOK, Expire
<1>2. Total(b)' >= Total(b)
  <2> DEFINE before == {u \in Users : votes[b][u] # None}
             after  == {u \in Users : votes'[b][u] # None}
  <2>1. before \subseteq after BY VotesGrow
  <2>2. IsFiniteSet(before) /\ IsFiniteSet(after)
    BY FS_Subset, UsersAssumption
  <2>3. Cardinality(before) <= Cardinality(after)
    BY <2>1, <2>2, FS_Subset
  <2> QED BY <2>3 DEF Total
<1>3. Total(b) \in Nat /\ Total(b)' \in Nat
  BY FS_Subset, FS_CardinalityType, UsersAssumption DEF Total
<1> QED BY <1>1, <1>2, <1>3, AmountsAreNumbers DEF Unchecked

\* A step that moves one request of bounty b and neither the status of b out of
\* a final one nor its credits, and makes nobody owe b, keeps b guarded.
LEMMA GuardedKept ==
  ASSUME TypeInv, NEW b \in Bounties, Guarded(b),
         NEW w \in Workers, NEW request \in Requests, Continues(w, request),
         request.pc # "pay" \/ request.bounty # b,
         request.pc = "cas" /\ request.bounty = b => request.checked = TRUE,
         status[b] \in Final => status'[b] \in Final,
         credits'[b] = credits[b]
  PROVE  Guarded(b)'
<1>1. \A v \in Workers : req'[v] = IF v = w THEN request ELSE req[v]
  BY DEF Continues, TypeInv, TypeOK
<1>2. \A v \in Workers : Paying(v, b)' => Paying(v, b)
  BY <1>1 DEF Paying
<1>3. \A v \in Workers :
        req'[v].pc = "cas" /\ req'[v].bounty = b => req'[v].checked = TRUE
  BY <1>1 DEF Guarded
<1> QED BY <1>2, <1>3 DEF Guarded

\* A worker that begins no creation leaves the new ids new, as long as no other
\* action gives one of them a row.
LEMMA NewIdsKept ==
  ASSUME TypeInv, NewIds, NEW w \in Workers, NEW request \in Requests,
         Continues(w, request),
         request.pc \in {"debit", "insert"} =>
           /\ request.bounty = req[w].bounty /\ req[w].pc \in {"debit", "insert"},
         request.bounty = req[w].bounty \/ request.bounty = None
           \/ (request.bounty \in Bounties /\ status[request.bounty] # "none"),
         \A b \in Bounties :
           status[b] = "none" /\ b # req[w].bounty => status'[b] = "none",
         request.pc \in {"debit", "insert"} =>
           status'[request.bounty] = status[request.bounty]
  PROVE  NewIds'
<1>1. \A v \in Workers : req'[v] = IF v = w THEN request ELSE req[v]
  BY DEF Continues, TypeInv, TypeOK
<1>2. \A v \in Workers :
        req[v].pc \in {"debit", "insert"} => req[v].bounty \in Bounties
  BY DEF TypeInv, Fits
<1> SUFFICES ASSUME NEW v \in Workers, req'[v].pc \in {"debit", "insert"}
             PROVE  /\ status'[req'[v].bounty] = "none"
                    /\ \A x \in Workers \ {v} : req'[x].bounty # req'[v].bounty
  BY DEF NewIds
<1>3. CASE v = w
  BY <1>1, <1>3 DEF NewIds
<1>4. CASE v # w
  <2>1. req'[v] = req[v] /\ req[v].bounty \in Bounties
    BY <1>1, <1>2, <1>4
  <2>2. status[req[v].bounty] = "none" /\ req[w].bounty # req[v].bounty
    BY <1>4, <2>1 DEF NewIds
  <2>3. request.bounty # req[v].bounty
    BY <2>1, <2>2, NoneIsNoOne
  <2> QED BY <1>1, <2>1, <2>2, <2>3 DEF NewIds
<1> QED BY <1>3, <1>4

\* What every step keeps, given to the lemmas on actions.
StepContext ==
  CheckedInv /\ TypeInv' /\ \A b \in Bounties : Unchecked(b) => Unchecked(b)'

\* A handler that begins with a checked request keeps bounties guarded.
LEMMA BeginsChecked ==
  ASSUME StepContext, NEW w \in Workers, NEW request \in Requests,
         Begins(w, request), request.pc \in {"vote", "cas"},
         request.bounty \in Bounties, status[request.bounty] # "none",
         request.pc = "cas" =>
           request.checked = TRUE \/ Unchecked(request.bounty)
  PROVE  CheckedInv'
<1>1. Continues(w, request) /\ UNCHANGED <<status, credits>>
  BY DEF Begins, Continues, rows, money
<1>2. NewIds'
  BY <1>1, NewIdsKept DEF StepContext, CheckedInv
<1>3. ASSUME NEW b \in Bounties PROVE Guarded(b)' \/ Unchecked(b)'
  <2>1. CASE Unchecked(b) BY <2>1 DEF StepContext
  <2>2. CASE ~Unchecked(b)
    <3>1. Guarded(b) BY <2>2 DEF StepContext, CheckedInv
    <3>2. request.pc = "cas" /\ request.bounty = b => request.checked = TRUE
      BY <2>2
    <3> QED BY <1>1, <3>1, <3>2, GuardedKept DEF StepContext, CheckedInv
  <2> QED BY <2>1, <2>2
<1> QED BY <1>2, <1>3 DEF StepContext, CheckedInv

\* Every handler but a late claim begins with a checked request.
LEMMA BeginChecked ==
  ASSUME StepContext, NEW w \in Workers, NEW b \in Bounties, Begin(w, b)
  PROVE  CheckedInv'
<1>0. TypeInv BY DEF StepContext, CheckedInv
<1> USE <1>0 DEF TypeInv, TypeOK, PartiesKnown
<1>1. ASSUME NEW u \in Users, BeginCreate(w, b, u) PROVE CheckedInv'
  <2>1. PICK r \in Requests : r = Creating(b, u)
    BY CreatingType
  <2>2. r.pc = "debit" /\ r.bounty = b
    BY <2>1 DEF Creating, Idle
  <2>3. /\ Continues(w, r) /\ UNCHANGED <<status, credits>>
        /\ status[b] = "none" /\ \A v \in Workers : req[v].bounty # b
    BY <1>1, <2>1 DEF BeginCreate, Begins, Continues, rows, money
  <2>4. \A v \in Workers : req'[v] = IF v = w THEN r ELSE req[v]
    BY <2>3 DEF Continues
  <2>5. NewIds'
    BY <2>2, <2>3, <2>4 DEF StepContext, CheckedInv, NewIds
  <2>6. ASSUME NEW c \in Bounties, Guarded(c) PROVE Guarded(c)'
    BY <2>2, <2>3, <2>6, GuardedKept
  <2> QED BY <2>5, <2>6 DEF StepContext, CheckedInv
<1>2. ASSUME NEW u \in Users, BeginClaim(w, b, u) PROVE CheckedInv'
  <2> DEFINE r == Moving(b, u, "open", "claimed", None, TRUE)
  <2>1. r \in Requests BY MovingType DEF Statuses, Live
  <2>2. r.pc = "cas" /\ r.bounty = b /\ r.checked = TRUE BY DEF Moving, Idle
  <2>3. Begins(w, r) /\ status[b] # "none" BY <1>2 DEF BeginClaim
  <2> QED BY <2>1, <2>2, <2>3, BeginsChecked
<1>3. ASSUME NEW u \in Users, BeginClaimExpired(w, b, u) PROVE CheckedInv'
  <2>1. PICK c \in Users : c = creator[b] BY <1>3 DEF BeginClaimExpired
  <2> DEFINE r == Moving(b, u, "open", "cancelled", c, FALSE)
  <2>2. r \in Requests BY MovingType DEF Statuses, Live, Final
  <2>3. r.pc = "cas" /\ r.bounty = b BY DEF Moving, Idle
  <2>4. Begins(w, r) /\ status[b] # "none" /\ Unchecked(b)
    BY <1>3, <2>1 DEF BeginClaimExpired, Unchecked
  <2> QED BY <2>2, <2>3, <2>4, BeginsChecked
<1>4. ASSUME NEW u \in Users, NEW choice \in Verdicts, BeginVote(w, b, u, choice)
      PROVE  CheckedInv'
  <2> DEFINE r == Voting(b, u, choice)
  <2>1. r.pc = "vote" /\ r.bounty = b BY DEF Voting, Idle
  <2>2. Begins(w, r) /\ status[b] # "none" BY <1>4 DEF BeginVote
  <2> QED BY <2>1, <2>2, VotingType, BeginsChecked
<1>5. ASSUME BeginRelease(w, b) PROVE CheckedInv'
  <2>1. PICK c \in Users, p \in Users : c = creator[b] /\ p = claimant[b]
    BY <1>5 DEF BeginRelease
  <2> DEFINE r == Moving(b, c, "claimed", "completed", p, TRUE)
  <2>2. r \in Requests BY MovingType DEF Statuses, Live, Final
  <2>3. r.pc = "cas" /\ r.bounty = b /\ r.checked = TRUE BY DEF Moving, Idle
  <2>4. Begins(w, r) /\ status[b] # "none" BY <1>5, <2>1 DEF BeginRelease
  <2> QED BY <2>2, <2>3, <2>4, BeginsChecked
<1>6. ASSUME BeginCancel(w, b) PROVE CheckedInv'
  <2>1. PICK c \in Users, s \in Live : c = creator[b] /\ s = status[b]
    BY <1>6 DEF BeginCancel, Cancellable, Live
  <2> DEFINE r == Moving(b, c, s, "cancelled", c, TRUE)
  <2>2. r \in Requests BY MovingType DEF Statuses, Live, Final
  <2>3. r.pc = "cas" /\ r.bounty = b /\ r.checked = TRUE BY DEF Moving, Idle
  <2>4. Begins(w, r) /\ status[b] # "none" BY <1>6, <2>1 DEF BeginCancel, Live
  <2> QED BY <2>2, <2>3, <2>4, BeginsChecked
<1>7. ASSUME BeginDispute(w, b) PROVE CheckedInv'
  <2>1. PICK c \in Users : c = creator[b] BY <1>7 DEF BeginDispute
  <2> DEFINE r == Moving(b, c, "claimed", "disputed", None, TRUE)
  <2>2. r \in Requests BY MovingType DEF Statuses, Live
  <2>3. r.pc = "cas" /\ r.bounty = b /\ r.checked = TRUE BY DEF Moving, Idle
  <2>4. Begins(w, r) /\ status[b] # "none" BY <1>7, <2>1 DEF BeginDispute
  <2> QED BY <2>2, <2>3, <2>4, BeginsChecked
<1> QED BY <1>1, <1>2, <1>3, <1>4, <1>5, <1>6, <1>7 DEF Begin

\* Every commit of a handler keeps bounties guarded or unchecked.
LEMMA StepChecked ==
  ASSUME StepContext, NEW w \in Workers, Step(w)
  PROVE  CheckedInv'
<1>0. PICK r \in Requests : r = req[w] /\ Fits(r)
  BY DEF StepContext, CheckedInv, TypeInv, TypeOK
<1>1. TypeInv /\ NewIds BY DEF StepContext, CheckedInv
<1>2. Idle.pc = "idle" /\ Idle.bounty = None BY DEF Idle
<1>3. ASSUME Debit(w) PROVE CheckedInv'
  <2>1. PICK next \in Requests : next = [r EXCEPT !.pc = "insert"]
    BY DEF Requests
  <2>2. /\ next.pc = "insert" /\ next.bounty = r.bounty /\ r.pc = "debit"
        /\ Continues(w, next) /\ UNCHANGED <<status, credits>>
    BY <1>0, <1>3, <2>1 DEF Debit, Requests, rows
  <2>3. NewIds' BY <1>0, <1>1, <2>2, NewIdsKept
  <2>4. ASSUME NEW c \in Bounties, Guarded(c) PROVE Guarded(c)'
    BY <1>1, <2>2, <2>4, GuardedKept
  <2> QED BY <2>3, <2>4 DEF StepContext, CheckedInv
<1>4. ASSUME Insert(w) PROVE CheckedInv'
  <2>1. /\ r.pc = "insert" /\ r.bounty \in Bounties
        /\ status' = [status EXCEPT ![r.bounty] = "open"]
        /\ Continues(w, Idle) /\ UNCHANGED credits
    BY <1>0, <1>4 DEF Insert, Fits, money
  <2>2. status[r.bounty] = "none" BY <1>0, <1>1, <2>1 DEF NewIds
  <2>3. \A b \in Bounties : status'[b] = IF b = r.bounty THEN "open" ELSE status[b]
    BY <1>1, <2>1 DEF TypeInv, TypeOK
  <2>4. NewIds' BY <1>0, <1>1, <1>2, <2>1, <2>3, IdleType, NewIdsKept
  <2>5. ASSUME NEW c \in Bounties, Guarded(c) PROVE Guarded(c)'
    <3>1. status[c] \in Final => status'[c] \in Final
      BY <2>2, <2>3 DEF Final
    <3> QED BY <1>1, <1>2, <2>1, <2>5, <3>1, IdleType, GuardedKept
  <2> QED BY <2>4, <2>5 DEF StepContext, CheckedInv
<1>5. ASSUME AddVote(w) PROVE CheckedInv'
  <2>1. PICK next \in Requests :
          /\ Continues(w, next)
          /\ next = Idle \/ next = [r EXCEPT !.pc = "tally"]
    BY <1>0, <1>5, IdleType DEF AddVote, Requests
  <2>2. /\ next.pc \in {"idle", "tally"}
        /\ next.bounty = None \/ next.bounty = r.bounty
        /\ UNCHANGED <<status, credits>>
    BY <1>2, <1>5, <2>1 DEF AddVote, Requests, rows, money
  <2>3. NewIds' BY <1>0, <1>1, <2>1, <2>2, NewIdsKept
  <2>4. ASSUME NEW c \in Bounties, Guarded(c) PROVE Guarded(c)'
    BY <1>1, <2>1, <2>2, <2>4, GuardedKept
  <2> QED BY <2>3, <2>4 DEF StepContext, CheckedInv
<1>6. ASSUME Tally(w) PROVE CheckedInv'
  <2>1. PICK verdict \in Verdicts :
          Continues(w, IF EnoughVotes(r.bounty)
                       THEN Moving(r.bounty, r.user, "disputed",
                                   VerdictStatus(verdict),
                                   VerdictPayee(r.bounty, verdict), FALSE)
                       ELSE Idle)
    BY <1>0, <1>6 DEF Tally, Verdicts
  <2>2. /\ r.pc = "tally" /\ r.bounty \in Bounties
        /\ creator[r.bounty] \in Users /\ claimant[r.bounty] \in Users
    BY <1>0, <1>6 DEF Tally, Fits
  <2>3. PICK p \in Users : p = VerdictPayee(r.bounty, verdict)
    BY <2>2 DEF VerdictPayee
  <2>4. VerdictStatus(verdict) \in Statuses /\ r.user \in Users \cup {None}
    BY DEF VerdictStatus, Statuses, Final, Requests
  <2>5. PICK settle \in Requests :
          settle = Moving(r.bounty, r.user, "disputed", VerdictStatus(verdict), p,
                          FALSE)
    BY <2>2, <2>4, MovingType DEF Statuses, Live
  <2>6. settle.pc = "cas" /\ settle.bounty = r.bounty
    BY <2>5 DEF Moving, Idle
  <2>7. PICK next \in Requests :
          /\ Continues(w, next)
          /\ \/ next = Idle
             \/ next = settle /\ EnoughVotes(r.bounty)
    BY <2>1, <2>3, <2>5, IdleType
  <2>8. UNCHANGED <<status, credits>> BY <1>6 DEF Tally, rows, money
  <2>9. NewIds' BY <1>0, <1>1, <1>2, <2>6, <2>7, <2>8, NewIdsKept
  <2>10. ASSUME NEW c \in Bounties, Guarded(c), ~Unchecked(c) PROVE Guarded(c)'
    <3>1. next.pc = "cas" => next.bounty # c
      BY <1>2, <2>6, <2>7, <2>10 DEF Unchecked, EnoughVotes
    <3>2. next.pc # "pay" BY <1>2, <2>6, <2>7
    <3> QED BY <1>1, <2>7, <2>8, <2>10, <3>1, <3>2, GuardedKept
  <2> QED BY <2>9, <2>10 DEF StepContext, CheckedInv
<1>7. ASSUME Cas(w) PROVE CheckedInv'
  <2>1. PICK next \in Requests :
          /\ Continues(w, next)
          /\ \/ next = Idle
             \/ /\ r.payee # None /\ next = [r EXCEPT !.pc = "pay"]
                /\ Matches(r.bounty, r.expected) \/ r.checked # TRUE
    BY <1>0, <1>7, IdleType DEF Cas, Requests
  <2>2. /\ r.pc = "cas" /\ r.bounty \in Bounties /\ r.expected \in Live
        /\ r.payee # None => r.to \in Final
    BY <1>0, <1>7, NoneIsNoOne DEF Cas, Fits, Final
  <2>3. /\ status' = IF Matches(r.bounty, r.expected)
                     THEN [status EXCEPT ![r.bounty] = r.to] ELSE status
        /\ UNCHANGED credits
    BY <1>0, <1>7 DEF Cas, money
  <2>4. \A c \in Bounties : c # r.bounty => status'[c] = status[c]
    BY <1>1, <2>3 DEF TypeInv, TypeOK
  <2>5. \/ next.pc = "idle" /\ next.bounty = None
        \/ /\ next.pc = "pay" /\ next.bounty = r.bounty /\ r.payee # None
           /\ Matches(r.bounty, r.expected) \/ r.checked # TRUE
    BY <1>2, <2>1 DEF Requests
  <2>6. NewIds' BY <1>0, <1>1, <2>1, <2>4, <2>5, NewIdsKept
  <2>7. ASSUME NEW c \in Bounties, Guarded(c) PROVE Guarded(c)'
    <3>1. CASE c # r.bounty
      BY <1>1, <2>1, <2>3, <2>4, <2>5, <2>7, <3>1, GuardedKept
    <3>2. CASE c = r.bounty /\ ~Matches(c, r.expected)
      <4>1. r.checked = TRUE BY <1>0, <2>2, <2>7, <3>2 DEF Guarded
      <4> QED BY <1>1, <2>1, <2>3, <2>5, <2>7, <3>2, <4>1, GuardedKept
    <3>3. CASE c = r.bounty /\ Matches(c, r.expected)
      <4>1. status[c] \notin Final BY <2>2, <3>3 DEF Matches, Live, Final
      <4>2. credits'[c] = 0 /\ \A v \in Workers : ~Paying(v, c)
        BY <2>3, <2>7, <4>1 DEF Guarded
      <4>3. \A v \in Workers : req'[v] = IF v = w THEN next ELSE req[v]
        BY <1>1, <2>1 DEF Continues, TypeInv, TypeOK
      <4>4. \A v \in Workers : Paying(v, c)' => v = w /\ next.pc = "pay"
        BY <4>2, <4>3 DEF Paying
      <4>5. status'[c] = r.to
        BY <1>1, <2>3, <3>3 DEF TypeInv, TypeOK
      <4>6. \A v \in Workers : req'[v].pc = "cas" /\ req'[v].bounty = c
                                 => req'[v].checked = TRUE
        BY <2>5, <2>7, <4>3 DEF Guarded
      <4> QED BY <2>2, <2>5, <4>2, <4>4, <4>5, <4>6 DEF Guarded
    <3> QED BY <3>1, <3>2, <3>3
  <2> QED BY <2>6, <2>7 DEF StepContext, CheckedInv
<1>8. ASSUME Pay(w) PROVE CheckedInv'
  <2>1. /\ r.pc = "pay" /\ r.bounty \in Bounties
        /\ credits' = [credits EXCEPT ![r.bounty] = @ + 1]
        /\ Continues(w, Idle) /\ UNCHANGED status
    BY <1>0, <1>8 DEF Pay, Fits, rows
  <2>2. NewIds' BY <1>0, <1>1, <1>2, <2>1, IdleType, NewIdsKept
  <2>3. ASSUME NEW c \in Bounties, Guarded(c) PROVE Guarded(c)'
    <3>1. CASE c # r.bounty
      <4>1. credits'[c] = credits[c] BY <1>1, <2>1, <3>1 DEF TypeInv, TypeOK
      <4> QED BY <1>1, <1>2, <2>1, <2>3, <4>1, IdleType, GuardedKept
    <3>2. CASE c = r.bounty
      <4>1. Paying(w, c) BY <1>0, <2>1, <3>2 DEF Paying
      <4>2. status'[c] \in Final /\ credits'[c] = 1
        BY <1>1, <2>1, <2>3, <3>2, <4>1 DEF Guarded, TypeInv, TypeOK
      <4>3. \A v \in Workers : req'[v] = IF v = w THEN Idle ELSE req[v]
        BY <1>1, <2>1 DEF Continues, TypeInv, TypeOK
      <4>4. \A v \in Workers : ~Paying(v, c)'
        BY <1>2, <2>3, <4>1, <4>3 DEF Guarded, Paying
      <4>5. \A v \in Workers : req'[v].pc = "cas" /\ req'[v].bounty = c
                                 => req'[v].checked = TRUE
        BY <1>2, <2>3, <4>3 DEF Guarded
      <4> QED BY <4>2, <4>4, <4>5 DEF Guarded
    <3> QED BY <3>1, <3>2
  <2> QED BY <2>2, <2>3 DEF StepContext, CheckedInv
<1> QED BY <1>3, <1>4, <1>5, <1>6, <1>7, <1>8 DEF Step

\* The invariant of the compare-and-set is inductive for any workers.
LEMMA NextCheckedInv == CheckedInv /\ [Next]_vars => CheckedInv'
<1> SUFFICES ASSUME CheckedInv, [Next]_vars PROVE CheckedInv'
  OBVIOUS
<1>1. TypeInv /\ TypeInv' BY NextTypeInv DEF CheckedInv
<1>2. StepContext BY <1>1, UncheckedStays DEF StepContext
<1>3. ASSUME NEW w \in Workers, Fail(w) PROVE CheckedInv'
  <2>1. /\ Idle.pc = "idle" /\ Idle.bounty = None /\ Continues(w, Idle)
        /\ UNCHANGED <<status, credits>>
    BY <1>3 DEF Idle, Fail, rows, money
  <2>2. NewIds' BY <1>1, <2>1, IdleType, NewIdsKept DEF CheckedInv
  <2>3. ASSUME NEW c \in Bounties, Guarded(c) PROVE Guarded(c)'
    BY <1>1, <2>1, <2>3, IdleType, GuardedKept
  <2> QED BY <1>2, <2>2, <2>3 DEF StepContext, CheckedInv
<1>4. CASE UNCHANGED <<status, credits, req>>
  <2>1. NewIds' BY <1>4 DEF CheckedInv, NewIds
  <2>2. ASSUME NEW c \in Bounties, Guarded(c) PROVE Guarded(c)'
    BY <1>4, <2>2 DEF Guarded, Paying
  <2> QED BY <1>2, <2>1, <2>2 DEF StepContext, CheckedInv
<1>5. ASSUME NEW b \in Bounties, Expire(b) PROVE CheckedInv'
  BY <1>4, <1>5 DEF Expire, rows, money
<1>6. CASE UNCHANGED vars
  BY <1>4, <1>6 DEF vars, rows, money
<1> QED BY <1>2, <1>3, <1>5, <1>6, BeginChecked, StepChecked DEF Next

\* With any number of workers an escrow is paid out at most once, unless its
\* bounty is late or fully voted on.
THEOREM CheckedPaidOutOnce == Spec => []SettledOnceIfChecked
<1>1. CheckedInv => SettledOnceIfChecked
  BY DEF CheckedInv, Guarded, SettledOnceIfChecked, TypeInv, TypeOK
<1> QED BY <1>1, InitCheckedInv, NextCheckedInv, PTL DEF Spec

-----------------------------------------------------------------------------
(* With one worker the bounties implement an escrow.                        *)

\* Nobody is a party to a bounty before it is inserted, or claimed.
NoPartyYet ==
  \A b \in Bounties :
    /\ status[b] = "none" => creator[b] = None
    /\ status[b] \in {"none", "open"} => claimant[b] = None

\* A debit is still covered, and a claim is by somebody else.
Ready(r) ==
  /\ r.pc = "debit" => balance[r.user] >= Amount
  /\ r.pc = "cas" /\ r.to = "claimed" =>
       r.expected = "open" /\ creator[r.bounty] # r.user

EscrowInv == OnceInv /\ NoPartyYet /\ \A w \in Workers : Ready(req[w])

\* Before the first request there are no parties and no requests.
LEMMA InitEscrowInv == Init => EscrowInv
BY InitOnceInv DEF Init, EscrowInv, NoPartyYet, Ready, Idle

\* With one worker the request it goes on with is the only one to be ready.
LEMMA OneReady ==
  ASSUME SingleProcess, TypeInv, NEW w \in Workers, NEW request \in Requests,
         Continues(w, request), Ready(request)'
  PROVE  \A v \in Workers : Ready(req[v])'
<1> SUFFICES ASSUME NEW v \in Workers PROVE Ready(req[v])'
  OBVIOUS
<1>1. v = w
  BY DEF SingleProcess
<1>2. req'[v] = request
  BY <1>1 DEF Continues, TypeInv, TypeOK
<1> QED BY <1>2 DEF Ready

\* A handler that begins with a ready request moves neither rows nor money.
LEMMA BeginsEscrowInv ==
  ASSUME SingleProcess, EscrowInv, OnceInv', NEW w \in Workers,
         NEW request \in Requests, Begins(w, request), Ready(request)
  PROVE  EscrowInv'
<1>1. Continues(w, request) /\ UNCHANGED <<status, creator, claimant, balance>>
  BY DEF Begins, Continues, rows, money
<1>2. NoPartyYet' /\ Ready(request)'
  BY <1>1 DEF EscrowInv, NoPartyYet, Ready
<1> QED BY <1>1, <1>2, OneReady DEF EscrowInv, OnceInv

\* Every handler begins with a request that is ready.
LEMMA BeginEscrowInv ==
  ASSUME SingleProcess, EscrowInv, OnceInv', NEW w \in Workers,
         NEW b \in Bounties, Begin(w, b)
  PROVE  EscrowInv'
<1>0. TypeInv BY DEF EscrowInv, OnceInv
<1> USE <1>0 DEF TypeInv, TypeOK, PartiesKnown
<1>1. ASSUME NEW u \in Users, BeginCreate(w, b, u) PROVE EscrowInv'
  <2>1. Ready(Creating(b, u)) BY <1>1 DEF BeginCreate, Creating, Idle, Ready
  <2> QED BY <1>1, <2>1, BeginsEscrowInv, CreatingType DEF BeginCreate
<1>2. ASSUME NEW u \in Users, BeginClaim(w, b, u) PROVE EscrowInv'
  <2> DEFINE r == Moving(b, u, "open", "claimed", None, TRUE)
  <2>1. r \in Requests BY MovingType DEF Statuses, Live
  <2>2. Ready(r) BY <1>2 DEF Moving, Idle, BeginClaim, Ready
  <2> QED BY <1>2, <2>1, <2>2, BeginsEscrowInv DEF BeginClaim
<1>3. ASSUME NEW u \in Users, NEW choice \in Verdicts, BeginVote(w, b, u, choice)
      PROVE  EscrowInv'
  <2>1. Ready(Voting(b, u, choice)) BY DEF Voting, Idle, Ready
  <2> QED BY <1>3, <2>1, BeginsEscrowInv, VotingType DEF BeginVote
<1>4. ASSUME NEW u \in Users \cup {None}, NEW from \in Statuses, NEW to \in Statuses,
             NEW payee \in Users \cup {None}, NEW checked \in BOOLEAN, to # "claimed",
             Begins(w, Moving(b, u, from, to, payee, checked))
      PROVE  EscrowInv'
  <2>1. Moving(b, u, from, to, payee, checked) \in Requests BY MovingType
  <2>2. Ready(Moving(b, u, from, to, payee, checked))
    BY <1>4 DEF Moving, Idle, Ready
  <2> QED BY <1>4, <2>1, <2>2, BeginsEscrowInv
<1>5. {"open", "claimed", "disputed", "cancelled", "completed"} \subseteq Statuses
  BY DEF Statuses, Live, Final
<1>6. ASSUME NEW u \in Users, BeginClaimExpired(w, b, u) PROVE EscrowInv'
  BY <1>4, <1>5, <1>6 DEF BeginClaimExpired
<1>7. ASSUME BeginRelease(w, b) PROVE EscrowInv'
  BY <1>4, <1>5, <1>7 DEF BeginRelease
<1>8. ASSUME BeginCancel(w, b) PROVE EscrowInv'
  BY <1>4, <1>5, <1>8 DEF BeginCancel
<1>9. ASSUME BeginDispute(w, b) PROVE EscrowInv'
  BY <1>4, <1>5, <1>9 DEF BeginDispute
<1> QED BY <1>1, <1>2, <1>3, <1>6, <1>7, <1>8, <1>9 DEF Begin

\* Every commit keeps parties in order, and leaves nothing to be ready for.
LEMMA StepEscrowInv ==
  ASSUME SingleProcess, EscrowInv, OnceInv', NEW w \in Workers, Step(w)
  PROVE  EscrowInv'
<1>0. PICK r \in Requests : r = req[w] /\ Fits(r) /\ Steady(r)
  BY DEF EscrowInv, OnceInv, TypeInv, TypeOK
<1>1. PICK next \in Requests : Continues(w, next)
  <2>1. req'[w] \in Requests /\ req' = [req EXCEPT ![w] = req'[w]]
    BY DEF EscrowInv, OnceInv, TypeInv, TypeOK, Step, Debit, Insert, AddVote, Tally,
           Cas, Pay, Continues
  <2> QED BY <2>1 DEF Continues
<1>2. next.pc # "debit" /\ (next.pc = "cas" => next.to # "claimed")
  <2>1. req'[w] = next
    BY <1>1 DEF Continues, EscrowInv, OnceInv, TypeInv, TypeOK
  <2>2. Idle.pc = "idle" /\ \A b, u, verdict, payee :
          Moving(b, u, "disputed", VerdictStatus(verdict), payee, FALSE).to # "claimed"
    BY DEF Idle, Moving, VerdictStatus
  <2>3. \A b, u, to, payee :
          Moving(b, u, "disputed", to, payee, FALSE).pc = "cas"
    BY DEF Idle, Moving
  <2>4. \A pc \in {"insert", "tally", "pay"} : [r EXCEPT !.pc = pc].pc = pc
    BY DEF Requests
  <2> USE DEF EscrowInv, OnceInv, TypeInv, TypeOK, Continues
  <2>5. CASE Debit(w) \/ Insert(w) \/ AddVote(w) \/ Cas(w) \/ Pay(w)
    <3>1. next = Idle \/ \E pc \in {"insert", "tally", "pay"} : next = [r EXCEPT !.pc = pc]
      BY <1>0, <2>1, <2>5 DEF Debit, Insert, AddVote, Cas, Pay
    <3> HIDE DEF EscrowInv
    <3> QED BY <2>2, <2>4, <3>1
  <2>6. CASE Tally(w)
    <3>1. \/ next = Idle
          \/ \E b, u, verdict, payee :
               next = Moving(b, u, "disputed", VerdictStatus(verdict), payee, FALSE)
      BY <1>0, <2>1, <2>6 DEF Tally
    <3> HIDE DEF EscrowInv
    <3> QED BY <2>2, <2>3, <3>1
  <2> QED BY <2>5, <2>6 DEF Step
<1>3. Ready(next)'
  BY <1>2 DEF Ready
<1>4. NoPartyYet'
  <2> SUFFICES ASSUME NEW b \in Bounties
               PROVE  /\ status'[b] = "none" => creator'[b] = None
                      /\ status'[b] \in {"none", "open"} => claimant'[b] = None
    BY DEF NoPartyYet
  <2> USE DEF EscrowInv, OnceInv, TypeInv, TypeOK, NoPartyYet
  <2>1. CASE Insert(w)
    <3>1. r.bounty \in Bounties /\ status[r.bounty] = "none"
      BY <1>0, <2>1 DEF Insert, Fits, Steady
    <3> QED BY <1>0, <2>1, <3>1 DEF Insert
  <2>2. CASE Cas(w)
    <3>1. /\ r.bounty \in Bounties /\ status[r.bounty] = r.expected
          /\ r.to \notin {"none", "open"}
      BY <1>0, <2>2 DEF Cas, Fits, Steady
    <3>2. /\ status' = [status EXCEPT ![r.bounty] = r.to]
          /\ claimant' = [claimant EXCEPT ![r.bounty] =
                            IF r.to = "claimed" THEN r.user ELSE @]
          /\ UNCHANGED creator
      BY <1>0, <2>2, <3>1 DEF Cas, Matches
    <3> QED BY <3>1, <3>2
  <2>3. CASE UNCHANGED rows
    BY <2>3 DEF rows
  <2> QED BY <2>1, <2>2, <2>3 DEF Step, Debit, AddVote, Tally, Pay
<1> QED BY <1>1, <1>3, <1>4, OneReady DEF EscrowInv, OnceInv

\* With one worker the invariant of the refinement is inductive.
LEMMA NextEscrowInv ==
  ASSUME SingleProcess
  PROVE  EscrowInv /\ OnceInv' /\ [Next]_vars => EscrowInv'
<1> SUFFICES ASSUME EscrowInv, OnceInv', [Next]_vars PROVE EscrowInv'
  OBVIOUS
<1>1. ASSUME NEW w \in Workers, Fail(w) PROVE EscrowInv'
  <2>1. NoPartyYet' /\ Ready(Idle)' /\ Continues(w, Idle)
    BY <1>1 DEF Fail, EscrowInv, NoPartyYet, Ready, Idle, rows
  <2> QED BY <2>1, IdleType, OneReady DEF EscrowInv, OnceInv
<1>2. ASSUME NEW b \in Bounties, Expire(b) PROVE EscrowInv'
  BY <1>2 DEF Expire, EscrowInv, NoPartyYet, Ready, rows, money
<1>3. CASE UNCHANGED vars
  BY <1>3 DEF vars, EscrowInv, NoPartyYet, Ready, rows, money
<1> QED BY <1>1, <1>2, <1>3, BeginEscrowInv, StepEscrowInv DEF Next

\* With one worker the invariant of the refinement always holds.
LEMMA EscrowInvHolds ==
  ASSUME SingleProcess
  PROVE  Spec => []EscrowInv
BY InitEscrowInv, NextEscrowInv, OnceInvHolds, PTL DEF Spec


\* A creation that has paid and has not inserted its bounty yet.
Inserting(w, b) == req[w].pc = "insert" /\ req[w].bounty = b

\* A payment that is still to be made.
Owes(w, u) == req[w].pc = "pay" /\ req[w].payee = u

\* With one worker the refinement mapping looks at one request.
OneViewed(w) ==
  /\ \A b \in Bounties :
       /\ EscrowState(b) = IF status[b] \in Live \/ Inserting(w, b) THEN "held"
                           ELSE IF status[b] = "completed" THEN "released"
                           ELSE IF status[b] = "cancelled" THEN "refunded" ELSE "none"
       /\ status[b] = "none" /\ Inserting(w, b) => EscrowOwner(b) = req[w].user
       /\ status[b] # "none" \/ ~Inserting(w, b) => EscrowOwner(b) = creator[b]
  /\ \A u \in Users : Owed(u) = IF Owes(w, u) THEN Amount ELSE 0

LEMMA OneView ==
  ASSUME SingleProcess, NEW w \in Workers
  PROVE  OneViewed(w) /\ OneViewed(w)'
<1>1. Workers = {w}
  BY DEF SingleProcess
<1>2. Amount * Cardinality({}) = 0 /\ Amount * Cardinality({w}) = Amount
  <2>1. Cardinality({}) = 0 /\ Cardinality({w}) = 1
    BY FS_EmptySet, FS_Singleton
  <2> QED BY <2>1, AmountsAreNumbers
<1>3. OneViewed(w)
  <2>1. \A u \in Users : Owed(u) = IF Owes(w, u) THEN Amount ELSE 0
    <3> SUFFICES ASSUME NEW u \in Users PROVE Owed(u) = IF Owes(w, u) THEN Amount ELSE 0
      OBVIOUS
    <3>1. {v \in Workers : req[v].pc = "pay" /\ req[v].payee = u}
            = IF Owes(w, u) THEN {w} ELSE {}
      BY <1>1 DEF Owes
    <3> QED BY <1>2, <3>1 DEF Owed
  <2>2. \A b \in Bounties : Holding(b) <=> status[b] \in Live \/ Inserting(w, b)
    BY <1>1 DEF Holding, Inserting
  <2>3. \A b \in Bounties :
          Inserting(w, b) => (CHOOSE v \in Workers : req[v].bounty = b) = w
    BY <1>1 DEF Inserting
  <2> QED BY <2>1, <2>2, <2>3
          DEF OneViewed, EscrowState, EscrowOwner, Live
<1>4. OneViewed(w)'
  <2>1. \A u \in Users : Owed(u)' = IF Owes(w, u)' THEN Amount ELSE 0
    <3> SUFFICES ASSUME NEW u \in Users
                 PROVE  Owed(u)' = IF Owes(w, u)' THEN Amount ELSE 0
      OBVIOUS
    <3>1. {v \in Workers : req'[v].pc = "pay" /\ req'[v].payee = u}
            = IF Owes(w, u)' THEN {w} ELSE {}
      BY <1>1 DEF Owes
    <3> QED BY <1>2, <3>1 DEF Owed
  <2>2. \A b \in Bounties : Holding(b)' <=> status'[b] \in Live \/ Inserting(w, b)'
    BY <1>1 DEF Holding, Inserting
  <2>3. \A b \in Bounties :
          Inserting(w, b)' => (CHOOSE v \in Workers : req'[v].bounty = b) = w
    BY <1>1 DEF Inserting
  <2> QED BY <2>1, <2>2, <2>3
          DEF OneViewed, EscrowState, EscrowOwner, Live
<1> QED BY <1>3, <1>4

\* A step that changes nothing the escrow sees.
LEMMA EscrowStutters ==
  ASSUME SingleProcess, NEW w \in Workers, UNCHANGED claimant,
         \A b \in Bounties : /\ status'[b] = status[b] /\ creator'[b] = creator[b]
                             /\ Inserting(w, b)' = Inserting(w, b)
                             /\ Inserting(w, b) => req'[w].user = req[w].user,
         \A u \in Users : /\ balance'[u] = balance[u]
                          /\ Owes(w, u)' = Owes(w, u)
  PROVE  UNCHANGED E!vars
<1>1. OneViewed(w) /\ OneViewed(w)'
  BY OneView
<1>2. \A b \in Bounties : /\ EscrowState(b)' = EscrowState(b)
                          /\ EscrowOwner(b)' = EscrowOwner(b)
  BY <1>1 DEF OneViewed
<1>3. \A u \in Users : Owed(u)' = Owed(u)
  BY <1>1 DEF OneViewed
<1> QED BY <1>2, <1>3 DEF E!vars

\* No handler locks, releases or refunds anything by beginning.
LEMMA BeginImplements ==
  ASSUME SingleProcess, EscrowInv, NEW w \in Workers, NEW b \in Bounties, Begin(w, b)
  PROVE  UNCHANGED E!vars
<1>1. PICK request : Begins(w, request) /\ request.pc \notin {"insert", "pay"}
  <2>1. \A c, u, choice : /\ Creating(c, u).pc = "debit"
                          /\ Voting(c, u, choice).pc = "vote"
    BY DEF Creating, Voting, Idle
  <2>2. \A c, u, from, to, payee, checked :
          Moving(c, u, from, to, payee, checked).pc = "cas"
    BY DEF Moving, Idle
  <2>3. \E request : /\ Begins(w, request)
                     /\ \/ \E u : request = Creating(b, u)
                        \/ \E u, choice : request = Voting(b, u, choice)
                        \/ \E u, from, to, payee, checked :
                             request = Moving(b, u, from, to, payee, checked)
    BY DEF Begin, BeginCreate, BeginClaim, BeginClaimExpired, BeginVote, BeginRelease,
           BeginCancel, BeginDispute
  <2>4. PICK request :
          /\ Begins(w, request)
          /\ \/ \E u : request = Creating(b, u)
             \/ \E u, choice : request = Voting(b, u, choice)
             \/ \E u, from, to, payee, checked :
                  request = Moving(b, u, from, to, payee, checked)
    BY <2>3
  <2>5. request.pc \in {"debit", "vote", "cas"}
    BY <2>1, <2>2, <2>4
  <2> QED BY <2>4, <2>5
<1>2. req[w] = Idle /\ req'[w] = request /\ UNCHANGED <<rows, balance>>
  BY <1>1 DEF Begins, money, EscrowInv, OnceInv, TypeInv, TypeOK
<1>3. req[w].pc = "idle" /\ req'[w].pc \notin {"insert", "pay"}
  BY <1>1, <1>2 DEF Idle
<1> QED BY <1>2, <1>3, EscrowStutters DEF Inserting, Owes, rows

\* The debit of a creation locks its points.
LEMMA DebitImplements ==
  ASSUME SingleProcess, EscrowInv, NEW w \in Workers, Debit(w)
  PROVE  E!Next
<1> USE DEF EscrowInv, OnceInv, TypeInv, TypeOK
<1>1. PICK b \in Bounties, u \in Users :
        /\ req[w].bounty = b /\ req[w].user = u
        /\ status[b] = "none" /\ balance[u] >= Amount
  BY DEF Debit, Fits, Steady, Ready
<1>2. /\ balance' = [balance EXCEPT ![u] = @ - Amount]
      /\ UNCHANGED <<status, creator, claimant>>
  BY <1>1 DEF Debit, rows
<1>3. /\ req[w].pc = "debit" /\ req'[w].pc = "insert"
      /\ req'[w].bounty = b /\ req'[w].user = u
  BY <1>1 DEF Debit, Continues, Requests
<1>4. OneViewed(w) /\ OneViewed(w)'
  BY OneView
<1>5. /\ EscrowState(b) = "none" /\ EscrowState(b)' = "held" /\ EscrowOwner(b)' = u
      /\ \A c \in Bounties \ {b} : /\ EscrowState(c)' = EscrowState(c)
                                   /\ EscrowOwner(c)' = EscrowOwner(c)
  BY <1>1, <1>2, <1>3, <1>4 DEF OneViewed, Inserting, Live
<1>6. \A v \in Users : Owed(v) = 0 /\ Owed(v)' = 0
  BY <1>3, <1>4 DEF OneViewed, Owes
<1>7. /\ balance[u] + Owed(u) >= Amount
      /\ balance'[u] + Owed(u)' = balance[u] + Owed(u) - Amount
      /\ \A v \in Users \ {u} : balance'[v] + Owed(v)' = balance[v] + Owed(v)
  BY <1>1, <1>2, <1>6, AmountsAreNumbers
<1> HIDE DEF EscrowInv, OnceInv, TypeInv, TypeOK
<1>8. E!Lock(b, u)
  <2>1. [c \in Bounties |-> EscrowState(c)']
          = [[c \in Bounties |-> EscrowState(c)] EXCEPT ![b] = "held"]
    BY <1>5
  <2>2. [c \in Bounties |-> EscrowOwner(c)']
          = [[c \in Bounties |-> EscrowOwner(c)] EXCEPT ![b] = u]
    BY <1>5
  <2>3. [v \in Users |-> balance'[v] + Owed(v)']
          = [[v \in Users |-> balance[v] + Owed(v)] EXCEPT ![u] = @ - Amount]
    <3> DEFINE before == [v \in Users |-> balance[v] + Owed(v)]
               after  == [v \in Users |-> balance'[v] + Owed(v)']
    <3>1. after[u] = before[u] - Amount /\ \A v \in Users \ {u} : after[v] = before[v]
      <4>1. \A v \in Users : balance[v] \in Int
        BY DEF EscrowInv, OnceInv, TypeInv, TypeOK
      <4>2. balance'[u] = balance[u] - Amount
            /\ \A v \in Users \ {u} : balance'[v] = balance[v]
        BY <1>2 DEF EscrowInv, OnceInv, TypeInv, TypeOK
      <4> QED BY <1>6, <4>1, <4>2, AmountsAreNumbers
    <3>2. before = [v \in Users |-> before[v]] /\ after = [v \in Users |-> after[v]]
      OBVIOUS
    <3> HIDE DEF before, after
    <3>3. after = [before EXCEPT ![u] = @ - Amount]
      BY <3>1, <3>2
    <3> QED BY <3>3 DEF before, after
  <2> QED BY <1>2, <1>5, <1>7, <2>1, <2>2, <2>3 DEF E!Lock
<1> QED BY <1>8 DEF E!Next

\* A compare-and-set claims, releases, refunds, or opens a dispute.
LEMMA CasImplements ==
  ASSUME SingleProcess, EscrowInv, EscrowInv', NEW w \in Workers, Cas(w)
  PROVE  E!Next \/ UNCHANGED E!vars
<1> USE DEF EscrowInv, OnceInv, TypeInv, TypeOK
<1>1. PICK r \in Requests : r = req[w] /\ Fits(r) /\ Steady(r) /\ Ready(r)
  OBVIOUS
<1>2. PICK b \in Bounties :
        /\ r.bounty = b /\ r.pc = "cas" /\ status[b] = r.expected /\ r.expected \in Live
  BY <1>1 DEF Cas, Fits, Steady
<1>3. /\ status' = [status EXCEPT ![b] = r.to]
      /\ claimant' = [claimant EXCEPT ![b] = IF r.to = "claimed" THEN r.user ELSE @]
      /\ UNCHANGED <<creator, balance>>
  BY <1>1, <1>2 DEF Cas, Matches, money
<1>4. /\ r.payee = None => req'[w] = Idle
      /\ r.payee # None => req'[w].pc = "pay" /\ req'[w].payee = r.payee
  BY <1>1, <1>2 DEF Cas, Matches, Continues, Requests
<1>5. req'[w].pc \in {"idle", "pay"}
  BY <1>4 DEF Idle
<1>6. OneViewed(w) /\ OneViewed(w)'
  BY OneView
<1>7. status[b] \in Live /\ status'[b] = r.to
  BY <1>2, <1>3
<1>8. /\ ~Inserting(w, b) /\ \A c \in Bounties : ~Inserting(w, c) /\ ~Inserting(w, c)'
  BY <1>1, <1>2, <1>5 DEF Inserting
<1>9. /\ EscrowState(b) = "held" /\ EscrowOwner(b) = creator[b]
      /\ EscrowOwner(b)' = creator[b]
      /\ \A c \in Bounties \ {b} : EscrowState(c)' = EscrowState(c)
      /\ \A c \in Bounties : EscrowOwner(c)' = EscrowOwner(c)
  BY <1>3, <1>6, <1>7, <1>8 DEF OneViewed
<1>10. EscrowState(b)' = IF r.to \in Live THEN "held"
                         ELSE IF r.to = "completed" THEN "released"
                         ELSE IF r.to = "cancelled" THEN "refunded" ELSE "none"
  BY <1>6, <1>7, <1>8 DEF OneViewed
<1>11. [c \in Bounties |-> EscrowOwner(c)'] = [c \in Bounties |-> EscrowOwner(c)]
  BY <1>9
<1>12. \A u \in Users : Owed(u) = 0
  BY <1>1, <1>2, <1>6 DEF OneViewed, Owes
<1> HIDE DEF EscrowInv, OnceInv, TypeInv, TypeOK
<1>13. ASSUME r.payee = None PROVE UNCHANGED [u \in Users |-> balance[u] + Owed(u)]
  <2>1. \A u \in Users : Owed(u)' = 0
    BY <1>4, <1>6, <1>13 DEF OneViewed, Owes, Idle
  <2> QED BY <1>3, <1>12, <2>1
<1>14. ASSUME NEW u \in Users, r.payee = u
       PROVE  [v \in Users |-> balance'[v] + Owed(v)']
                = [[v \in Users |-> balance[v] + Owed(v)] EXCEPT ![u] = @ + Amount]
  <2> DEFINE before == [v \in Users |-> balance[v] + Owed(v)]
             after  == [v \in Users |-> balance'[v] + Owed(v)']
  <2>1. \A v \in Users : Owed(v)' = IF v = u THEN Amount ELSE 0
    BY <1>4, <1>6, <1>14, NoneIsNoOne DEF OneViewed, Owes
  <2>2. \A v \in Users : balance[v] \in Int
    BY DEF EscrowInv, OnceInv, TypeInv, TypeOK
  <2>3. after[u] = before[u] + Amount /\ \A v \in Users \ {u} : after[v] = before[v]
    BY <1>3, <1>12, <2>1, <2>2, AmountsAreNumbers
  <2>4. before = [v \in Users |-> before[v]] /\ after = [v \in Users |-> after[v]]
    OBVIOUS
  <2> HIDE DEF before, after
  <2>5. after = [before EXCEPT ![u] = @ + Amount]
    BY <2>3, <2>4
  <2> QED BY <2>5 DEF before, after
<1>15. ASSUME NEW s, EscrowState(b)' = s
       PROVE  [c \in Bounties |-> EscrowState(c)']
                = [[c \in Bounties |-> EscrowState(c)] EXCEPT ![b] = s]
  BY <1>9, <1>15
<1>16. creator[b] \in Users /\ claimant \in [Bounties -> Users \cup {None}]
  BY <1>7 DEF EscrowInv, OnceInv, TypeInv, TypeOK, PartiesKnown, Live
<1>17. CASE r.to = "claimed"
  <2>1. r.user \in Users /\ r.payee = None /\ status[b] = "open" /\ creator[b] # r.user
    BY <1>1, <1>2, <1>17 DEF Fits, Ready
  <2>2. claimant[b] = None /\ claimant' = [claimant EXCEPT ![b] = r.user]
    BY <1>3, <1>17, <2>1 DEF EscrowInv, NoPartyYet
  <2>3. [c \in Bounties |-> EscrowState(c)'] = [c \in Bounties |-> EscrowState(c)]
    BY <1>9, <1>10, <1>17 DEF Live
  <2>4. UNCHANGED [u \in Users |-> balance[u] + Owed(u)]
    BY <1>13, <2>1
  <2>5. E!Claim(b, r.user)
    BY <1>9, <1>11, <2>1, <2>2, <2>3, <2>4 DEF E!Claim
  <2> QED BY <2>1, <2>5 DEF E!Next
<1>18. CASE r.to = "disputed"
  <2>1. r.payee = None
    BY <1>1, <1>2, <1>18 DEF Fits
  <2>2. claimant' = claimant
    BY <1>3, <1>16, <1>18
  <2>3. [c \in Bounties |-> EscrowState(c)'] = [c \in Bounties |-> EscrowState(c)]
    BY <1>9, <1>10, <1>18 DEF Live
  <2>4. UNCHANGED [u \in Users |-> balance[u] + Owed(u)]
    BY <1>13, <2>1
  <2> QED BY <1>11, <2>2, <2>3, <2>4 DEF E!vars
<1>19. CASE r.to = "completed"
  <2>1. r.payee \in Users /\ r.payee = claimant[b] /\ claimant[b] # None
    BY <1>1, <1>2, <1>19, NoneIsNoOne DEF Fits, Steady, Right
  <2>2. claimant' = claimant
    BY <1>3, <1>16, <1>19
  <2>3. EscrowState(b)' = "released"
    BY <1>10, <1>19 DEF Live
  <2>4. E!Release(b)
    BY <1>9, <1>11, <1>14, <1>15, <2>1, <2>2, <2>3 DEF E!Release
  <2> QED BY <2>4 DEF E!Next
<1>20. CASE r.to = "cancelled"
  <2>1. r.payee \in Users /\ r.payee = creator[b]
    BY <1>1, <1>2, <1>20, NoneIsNoOne DEF Fits, Steady, Right
  <2>2. claimant' = claimant
    BY <1>3, <1>16, <1>20
  <2>3. EscrowState(b)' = "refunded"
    BY <1>10, <1>20 DEF Live
  <2>4. E!Refund(b)
    BY <1>9, <1>11, <1>14, <1>15, <2>1, <2>2, <2>3 DEF E!Refund
  <2> QED BY <2>4 DEF E!Next
<1> QED BY <1>1, <1>2, <1>17, <1>18, <1>19, <1>20 DEF Fits

\* A payment was counted as made already.
LEMMA PayImplements ==
  ASSUME SingleProcess, EscrowInv, NEW w \in Workers, Pay(w)
  PROVE  UNCHANGED E!vars
<1> USE DEF EscrowInv, OnceInv, TypeInv, TypeOK
<1>1. PICK p \in Users : req[w].pc = "pay" /\ req[w].payee = p
  BY DEF Pay, Fits
<1>2. /\ balance' = [balance EXCEPT ![p] = @ + Amount]
      /\ UNCHANGED <<status, creator, claimant>> /\ req'[w] = Idle
  BY <1>1 DEF Pay, rows, Continues
<1>3. OneViewed(w) /\ OneViewed(w)'
  BY OneView
<1>4. \A b \in Bounties : ~Inserting(w, b) /\ ~Inserting(w, b)'
  BY <1>1, <1>2 DEF Inserting, Idle
<1>5. \A b \in Bounties : /\ EscrowState(b)' = EscrowState(b)
                          /\ EscrowOwner(b)' = EscrowOwner(b)
  BY <1>2, <1>3, <1>4 DEF OneViewed
<1>6. \A u \in Users : Owed(u) = (IF u = p THEN Amount ELSE 0) /\ Owed(u)' = 0
  BY <1>1, <1>2, <1>3 DEF OneViewed, Owes, Idle
<1>7. \A u \in Users : balance'[u] + Owed(u)' = balance[u] + Owed(u)
  BY <1>2, <1>6, AmountsAreNumbers
<1> QED BY <1>2, <1>5, <1>7 DEF E!vars

\* An inserted bounty was counted as held since its debit.
LEMMA InsertImplements ==
  ASSUME SingleProcess, EscrowInv, NEW w \in Workers, Insert(w)
  PROVE  UNCHANGED E!vars
<1> USE DEF EscrowInv, OnceInv, TypeInv, TypeOK
<1>1. PICK b \in Bounties, u \in Users :
        /\ req[w].pc = "insert" /\ req[w].bounty = b /\ req[w].user = u
        /\ status[b] = "none"
  BY DEF Insert, Fits, Steady
<1>2. /\ status' = [status EXCEPT ![b] = "open"]
      /\ creator' = [creator EXCEPT ![b] = u]
      /\ UNCHANGED <<claimant, balance>> /\ req'[w] = Idle
  BY <1>1 DEF Insert, money, Continues
<1>3. OneViewed(w) /\ OneViewed(w)'
  BY OneView
<1>4. \A c \in Bounties : (Inserting(w, c) <=> c = b) /\ ~Inserting(w, c)'
  BY <1>1, <1>2 DEF Inserting, Idle
<1>5. \A c \in Bounties : /\ EscrowState(c)' = EscrowState(c)
                          /\ EscrowOwner(c)' = EscrowOwner(c)
  BY <1>1, <1>2, <1>3, <1>4 DEF OneViewed, Live
<1>6. \A v \in Users : Owed(v)' = Owed(v)
  BY <1>1, <1>2, <1>3 DEF OneViewed, Owes, Idle
<1> QED BY <1>2, <1>5, <1>6 DEF E!vars

\* Votes move no points.
LEMMA VotingImplements ==
  ASSUME SingleProcess, EscrowInv, NEW w \in Workers, AddVote(w) \/ Tally(w)
  PROVE  UNCHANGED E!vars
<1>1. /\ req[w].pc \notin {"insert", "pay"} /\ UNCHANGED <<rows, balance>>
  BY DEF AddVote, Tally, money
<1>2. req'[w].pc \notin {"insert", "pay"}
  <2> USE DEF EscrowInv, OnceInv, TypeInv, TypeOK
  <2>1. Idle.pc = "idle" /\ \A b, u, to, payee :
          Moving(b, u, "disputed", to, payee, FALSE).pc = "cas"
    BY DEF Idle, Moving
  <2>2. CASE AddVote(w)
    <3>1. req'[w] = Idle \/ req'[w] = [req[w] EXCEPT !.pc = "tally"]
      BY <2>2 DEF AddVote, Continues
    <3>2. [req[w] EXCEPT !.pc = "tally"].pc = "tally"
      BY DEF Requests
    <3> QED BY <2>1, <3>1, <3>2
  <2>3. CASE Tally(w)
    <3>1. \/ req'[w] = Idle
          \/ \E b, u, to, payee : req'[w] = Moving(b, u, "disputed", to, payee, FALSE)
      BY <2>3 DEF Tally, Continues
    <3> HIDE DEF EscrowInv
    <3> QED BY <2>1, <3>1
  <2> QED BY <2>2, <2>3
<1> QED BY <1>1, <1>2, EscrowStutters DEF Inserting, Owes, rows

\* Every step but a failure is a step of the escrow, or none.
LEMMA NextImplements ==
  ASSUME SingleProcess, EscrowInv, EscrowInv', [Next]_vars, failures' = failures
  PROVE  [E!Next]_(E!vars)
<1>1. ASSUME NEW w \in Workers, Step(w) PROVE [E!Next]_(E!vars)
  BY <1>1, DebitImplements, InsertImplements, VotingImplements, CasImplements,
     PayImplements DEF Step
<1>2. ASSUME NEW w \in Workers, Fail(w) PROVE FALSE
  BY <1>2 DEF Fail, EscrowInv, OnceInv, TypeInv, TypeOK
<1>3. CASE (\E b \in Bounties : Expire(b)) \/ UNCHANGED vars
  <2>1. UNCHANGED <<rows, balance, req>>
    BY <1>3 DEF Expire, vars, money
  <2>2. \A b \in Bounties : /\ EscrowState(b)' = EscrowState(b)
                            /\ EscrowOwner(b)' = EscrowOwner(b)
    BY <2>1 DEF EscrowState, EscrowOwner, Holding, rows
  <2>3. \A u \in Users : balance'[u] + Owed(u)' = balance[u] + Owed(u)
    BY <2>1 DEF Owed
  <2> QED BY <2>1, <2>2, <2>3 DEF E!vars, rows
<1> QED BY <1>1, <1>2, <1>3, BeginImplements DEF Next

\* Before the first request no escrow is held.
LEMMA InitImplements == Init => E!Init
<1> SUFFICES ASSUME Init PROVE E!Init
  OBVIOUS
<1>1. \A b \in Bounties : ~Holding(b)
  BY DEF Init, Holding, Live, Idle
<1>2. \A b \in Bounties : EscrowState(b) = "none" /\ EscrowOwner(b) = None
  BY <1>1 DEF Init, EscrowState, EscrowOwner
<1>3. \A u \in Users : balance[u] + Owed(u) = StartBalance
  <2> SUFFICES ASSUME NEW u \in Users PROVE balance[u] + Owed(u) = StartBalance
    OBVIOUS
  <2>1. {w \in Workers : req[w].pc = "pay" /\ req[w].payee = u} = {}
    BY DEF Init, Idle
  <2>2. Cardinality({}) = 0
    BY FS_EmptySet
  <2>3. Owed(u) = 0
    BY <2>1, <2>2, AmountsAreNumbers DEF Owed
  <2> QED BY <2>3, AmountsAssumption DEF Init
<1> QED BY <1>2, <1>3 DEF Init, E!Init

\* With one worker the bounties do to the points of any users what an escrow
\* does: they lock them once, and release or refund them in one step; only a
\* failure that drops a handler between two commits does something else.
THEOREM BountyImplementsEscrow ==
  ASSUME SingleProcess
  PROVE  Spec => ImplementsEscrow
<1>1. EscrowInv /\ EscrowInv' /\ [Next]_vars
        => [failures' # failures \/ [E!Next]_(E!vars)]_vars
  BY NextImplements
<1> QED BY <1>1, InitImplements, EscrowInvHolds, PTL DEF Spec, ImplementsEscrow


-----------------------------------------------------------------------------
(* Any number of workers: who settles a dispute.                            *)

\* A status that follows a dispute, or is one.
Judged == {"disputed"} \cup Final

NoEarlyVotes ==
  \A b \in Bounties : status[b] \notin Judged => \A u \in Users : votes[b][u] = None

\* A vote is for a bounty that was disputed, and a claim is of an open one.
InOrder(r) ==
  /\ r.pc \in {"vote", "tally"} => status[r.bounty] \in Judged
  /\ r.pc = "cas" /\ r.to = "claimed" => r.expected = "open"

\* The worker will count the votes of b, or settles it.
Settles(r, b) ==
  r.bounty = b /\ (r.pc = "tally" \/ (r.pc = "cas" /\ r.expected = "disputed"))

SomeoneSettles ==
  \A b \in Bounties :
    status[b] = "disputed" /\ Total(b) >= VotesNeeded /\ failures = 0 =>
      \E w \in Workers : Settles(req[w], b)

VotedInv ==
  /\ CheckedInv /\ NoEarlyVotes /\ SomeoneSettles
  /\ \A w \in Workers : InOrder(req[w])

\* Before the first request there are no votes.
LEMMA InitVotedInv == Init => VotedInv
BY InitCheckedInv DEF Init, VotedInv, NoEarlyVotes, SomeoneSettles, InOrder, Idle

\* What a compare-and-set does to the status of a bounty, and an insertion.
LEMMA StatusMoves ==
  ASSUME VotedInv, [Next]_vars, NEW b \in Bounties, status'[b] # status[b]
  PROVE  \/ status[b] = "none"
         \/ \E w \in Workers :
              /\ Cas(w) /\ req[w].bounty = b
              /\ status[b] = req[w].expected /\ status'[b] = req[w].to
<1> USE DEF VotedInv, CheckedInv, TypeInv, TypeOK
<1>1. PICK w \in Workers : Insert(w) \/ Cas(w)
  <2>1. status' # status
    OBVIOUS
  <2>2. ASSUME NEW w \in Workers, NEW c \in Bounties PROVE ~Begin(w, c)
    BY <2>1 DEF Begin, BeginCreate, BeginClaim, BeginClaimExpired, BeginVote,
       BeginRelease, BeginCancel, BeginDispute, Begins, rows
  <2>3. ASSUME NEW w \in Workers
        PROVE  ~Debit(w) /\ ~AddVote(w) /\ ~Tally(w) /\ ~Pay(w) /\ ~Fail(w)
    BY <2>1 DEF Debit, AddVote, Tally, Pay, Fail, rows
  <2>4. ~(\E c \in Bounties : Expire(c)) /\ ~UNCHANGED vars
    BY <2>1 DEF Expire, vars, rows
  <2> HIDE DEF VotedInv
  <2> QED BY <2>2, <2>3, <2>4 DEF Next, Step
<1>2. CASE Insert(w)
  <2>1. req[w].pc = "insert" /\ status' = [status EXCEPT ![req[w].bounty] = "open"]
    BY <1>2 DEF Insert
  <2>2. req[w].bounty = b
    BY <2>1
  <2> QED BY <2>1, <2>2 DEF NewIds
<1>3. CASE Cas(w)
  <2>1. PICK c \in Bounties : req[w].bounty = c
    BY <1>3 DEF Cas, Fits
  <2>2. /\ status[c] = req[w].expected
        /\ status' = [status EXCEPT ![c] = req[w].to]
    BY <1>3, <2>1 DEF Cas, Matches
  <2>3. c = b
    BY <2>2
  <2> QED BY <1>3, <2>1, <2>2, <2>3
<1> QED BY <1>1, <1>2, <1>3

\* A disputed bounty stays so or is settled.
LEMMA JudgedStays ==
  ASSUME VotedInv, [Next]_vars, NEW b \in Bounties, status[b] \in Judged
  PROVE  status'[b] \in Judged
<1> SUFFICES ASSUME status'[b] # status[b] PROVE status'[b] \in Judged
  OBVIOUS
<1>1. PICK w \in Workers : /\ Cas(w) /\ req[w].bounty = b
                           /\ status[b] = req[w].expected /\ status'[b] = req[w].to
  BY StatusMoves DEF Judged, Final
<1>2. Fits(req[w]) /\ InOrder(req[w]) /\ req[w].pc = "cas"
  BY <1>1 DEF VotedInv, CheckedInv, TypeInv, Cas
<1> QED BY <1>1, <1>2 DEF Fits, InOrder, Judged, Final, Live

\* Who begins or goes on with a request in order keeps all of them in order.
LEMMA AllInOrder ==
  ASSUME VotedInv, [Next]_vars, NEW w \in Workers, NEW request,
         Continues(w, request), InOrder(request)'
  PROVE  \A v \in Workers : InOrder(req[v])'
<1> SUFFICES ASSUME NEW v \in Workers PROVE InOrder(req[v])'
  OBVIOUS
<1>1. CASE v = w
  <2>1. req'[v] = request
    BY <1>1 DEF Continues, VotedInv, CheckedInv, TypeInv, TypeOK
  <2> QED BY <2>1 DEF InOrder
<1>2. CASE v # w
  <2>1. req'[v] = req[v] /\ InOrder(req[v]) /\ Fits(req[v])
    BY <1>2 DEF Continues, VotedInv, CheckedInv, TypeInv, TypeOK
  <2> QED BY <2>1, JudgedStays DEF InOrder, Fits
<1> QED BY <1>1, <1>2

\* Every request is in order.
LEMMA OrderKept ==
  ASSUME VotedInv, [Next]_vars
  PROVE  \A v \in Workers : InOrder(req[v])'
<1> USE DEF VotedInv, CheckedInv, TypeInv, TypeOK
<1>1. InOrder(Idle)'
  BY DEF InOrder, Idle
<1>2. \A b, u, from, to, payee, checked :
        LET r == Moving(b, u, from, to, payee, checked)
        IN  r.pc = "cas" /\ r.to = to /\ r.expected = from
  BY DEF Moving, Idle
<1>3. ASSUME NEW b, NEW u, NEW from, NEW to, NEW payee, NEW checked,
             to = "claimed" => from = "open"
      PROVE  InOrder(Moving(b, u, from, to, payee, checked))'
  BY <1>2, <1>3 DEF InOrder
<1>4. ASSUME NEW w \in Workers, NEW b \in Bounties, Begin(w, b)
      PROVE  \E request : Continues(w, request) /\ InOrder(request)'
  <2>1. ASSUME NEW u \in Users, BeginCreate(w, b, u)
        PROVE  \E request : Continues(w, request) /\ InOrder(request)'
    <3>1. InOrder(Creating(b, u))'
      BY DEF Creating, Idle, InOrder
    <3> QED BY <2>1, <3>1 DEF BeginCreate, Begins, Continues
  <2>2. ASSUME NEW u \in Users, NEW choice \in Verdicts, BeginVote(w, b, u, choice)
        PROVE  \E request : Continues(w, request) /\ InOrder(request)'
    <3>1. InOrder(Voting(b, u, choice))'
      BY <2>2 DEF BeginVote, Begins, rows, Voting, Idle, InOrder, Judged
    <3> QED BY <2>2, <3>1 DEF BeginVote, Begins, Continues
  <2>3. ASSUME NEW u, NEW from, NEW to, NEW payee, NEW checked,
               Begins(w, Moving(b, u, from, to, payee, checked)),
               to = "claimed" => from = "open"
        PROVE  \E request : Continues(w, request) /\ InOrder(request)'
    <3>1. InOrder(Moving(b, u, from, to, payee, checked))'
      BY <1>3, <2>3
    <3> QED BY <2>3, <3>1 DEF Begins, Continues
  <2>4. ASSUME NEW u \in Users, BeginClaim(w, b, u) \/ BeginClaimExpired(w, b, u)
        PROVE  \E request : Continues(w, request) /\ InOrder(request)'
    BY <2>3, <2>4 DEF BeginClaim, BeginClaimExpired
  <2>5. CASE BeginRelease(w, b)
    <3>1. PICK u, from, payee : u = creator[b] /\ from = status[b] /\ payee = claimant[b]
      OBVIOUS
    <3>2. Begins(w, Moving(b, u, "claimed", "completed", payee, TRUE))
      BY <2>5, <3>1 DEF BeginRelease
    <3>3. InOrder(Moving(b, u, "claimed", "completed", payee, TRUE))'
      BY <1>3
    <3> QED BY <3>2, <3>3 DEF Begins, Continues
  <2>6. CASE BeginCancel(w, b)
    <3>1. PICK u, from, payee : u = creator[b] /\ from = status[b] /\ payee = claimant[b]
      OBVIOUS
    <3>2. Begins(w, Moving(b, u, from, "cancelled", u, TRUE))
      BY <2>6, <3>1 DEF BeginCancel
    <3>3. InOrder(Moving(b, u, from, "cancelled", u, TRUE))'
      BY <1>3
    <3> QED BY <3>2, <3>3 DEF Begins, Continues
  <2>7. CASE BeginDispute(w, b)
    <3>1. PICK u, from, payee : u = creator[b] /\ from = status[b] /\ payee = claimant[b]
      OBVIOUS
    <3>2. Begins(w, Moving(b, u, "claimed", "disputed", None, TRUE))
      BY <2>7, <3>1 DEF BeginDispute
    <3>3. InOrder(Moving(b, u, "claimed", "disputed", None, TRUE))'
      BY <1>3
    <3> QED BY <3>2, <3>3 DEF Begins, Continues
  <2> HIDE DEF VotedInv
  <2> QED BY <1>4, <2>1, <2>2, <2>4, <2>5, <2>6, <2>7 DEF Begin
<1>5. ASSUME NEW w \in Workers, Step(w)
      PROVE  \E request : Continues(w, request) /\ InOrder(request)'
  <2>1. PICK r \in Requests : r = req[w] /\ InOrder(r) /\ Fits(r)
    OBVIOUS
  <2>2. \A pc : [r EXCEPT !.pc = pc].pc = pc /\ [r EXCEPT !.pc = pc].bounty = r.bounty
    BY DEF Requests
  <2>3. \A pc \in {"insert", "pay"} : InOrder([r EXCEPT !.pc = pc])'
    BY <2>2 DEF InOrder
  <2>4. CASE Debit(w) \/ Insert(w) \/ Cas(w) \/ Pay(w)
    BY <1>1, <2>1, <2>3, <2>4 DEF Debit, Insert, Cas, Pay
  <2>5. CASE AddVote(w)
    <3>1. InOrder([r EXCEPT !.pc = "tally"])'
      BY <2>1, <2>2, <2>5 DEF AddVote, InOrder, rows
    <3>2. Continues(w, Idle) \/ Continues(w, [r EXCEPT !.pc = "tally"])
      BY <2>1, <2>5 DEF AddVote
    <3> QED BY <1>1, <3>1, <3>2
  <2>6. CASE Tally(w)
    <3>1. \E request : /\ Continues(w, request)
                       /\ \/ request = Idle
                          \/ \E b, u, verdict, payee :
                               request = Moving(b, u, "disputed",
                                                VerdictStatus(verdict), payee, FALSE)
      BY <2>6 DEF Tally
    <3>2. \A verdict : VerdictStatus(verdict) # "claimed"
      BY DEF VerdictStatus
    <3> QED BY <1>1, <1>3, <3>1, <3>2
  <2> QED BY <1>5, <2>4, <2>5, <2>6 DEF Step
<1>6. ASSUME NEW w \in Workers, Fail(w)
      PROVE  \E request : Continues(w, request) /\ InOrder(request)'
  BY <1>1, <1>6 DEF Fail
<1>7. CASE UNCHANGED <<status, req>>
  BY <1>7 DEF InOrder
<1>8. CASE (\E b \in Bounties : Expire(b)) \/ UNCHANGED vars
  BY <1>7, <1>8 DEF Expire, vars, rows
<1> HIDE DEF VotedInv
<1> QED BY <1>4, <1>5, <1>6, <1>8, AllInOrder DEF Next

\* Votes come to a disputed bounty only.
LEMMA EarlyVotesKept ==
  ASSUME VotedInv, [Next]_vars
  PROVE  NoEarlyVotes'
<1> SUFFICES ASSUME NEW b \in Bounties, status'[b] \notin Judged, NEW u \in Users
             PROVE  votes'[b][u] = None
  BY DEF NoEarlyVotes
<1>1. status[b] \notin Judged
  BY JudgedStays
<1>2. votes[b][u] = None
  BY <1>1 DEF VotedInv, NoEarlyVotes
<1>3. ASSUME NEW w \in Workers, AddVote(w) PROVE votes'[b] = votes[b]
  <2>1. req[w].bounty # b
    BY <1>1, <1>3 DEF AddVote, VotedInv, InOrder
  <2> QED BY <1>3, <2>1 DEF AddVote, VotedInv, CheckedInv, TypeInv, TypeOK
<1> QED BY <1>2, <1>3, WhoWrites

\* Only a failure counts as one.
LEMMA FailuresStay ==
  ASSUME VotedInv, [Next]_vars, failures' = 0
  PROVE  failures = 0 /\ \A w \in Workers : ~Fail(w)
<1>1. ASSUME NEW w \in Workers PROVE ~Fail(w)
  BY DEF Fail, VotedInv, CheckedInv, TypeInv, TypeOK
<1>2. ASSUME NEW w \in Workers, NEW b \in Bounties, Begin(w, b)
      PROVE  failures' = failures
  BY <1>2 DEF Begin, BeginCreate, BeginClaim, BeginClaimExpired, BeginVote,
     BeginRelease, BeginCancel, BeginDispute, Begins
<1>3. ASSUME NEW w \in Workers, Step(w) PROVE failures' = failures
  BY <1>3 DEF Step, Debit, Insert, AddVote, Tally, Cas, Pay
<1>4. (\E b \in Bounties : Expire(b)) \/ UNCHANGED vars => failures' = failures
  BY DEF Expire, vars
<1> QED BY <1>1, <1>2, <1>3, <1>4 DEF Next

\* Who adds the last vote settles, and who settles ends the dispute.
LEMMA SettlersKept ==
  ASSUME VotedInv, [Next]_vars, TypeInv'
  PROVE  SomeoneSettles'
<1> SUFFICES ASSUME NEW b \in Bounties, status'[b] = "disputed",
                    Total(b)' >= VotesNeeded, failures' = 0
             PROVE  \E w \in Workers : Settles(req'[w], b)
  BY DEF SomeoneSettles, Settles
<1>0. /\ TypeInv /\ TypeOK /\ \A w \in Workers : Fits(req[w]) /\ InOrder(req[w])
  BY DEF VotedInv, CheckedInv, TypeInv
<1>1. failures = 0 /\ \A w \in Workers : ~Fail(w)
  BY FailuresStay
<1>3. ASSUME NEW w \in Workers, AddVote(w), req[w].bounty = b, votes' # votes
      PROVE  Settles(req'[w], b)
  <2>1. req'[w] = [req[w] EXCEPT !.pc = "tally"] /\ req[w] \in Requests
    BY <1>0, <1>3 DEF AddVote, Continues, TypeOK
  <2>2. req'[w].pc = "tally" /\ req'[w].bounty = req[w].bounty
    BY <2>1 DEF Requests
  <2> QED BY <1>3, <2>2 DEF Settles
<1>4. CASE votes'[b] = votes[b]
  <2>1. Total(b) >= VotesNeeded
    BY <1>4 DEF Total
  <2>2. status[b] = "disputed"
    <3> SUFFICES ASSUME status'[b] # status[b] PROVE FALSE
      OBVIOUS
    <3>1. status[b] \notin Judged
      <4>1. CASE status[b] = "none"
        BY <4>1 DEF Judged, Final
      <4>2. ASSUME NEW w \in Workers, Cas(w), status[b] = req[w].expected,
                   status'[b] = req[w].to
            PROVE  status[b] \notin Judged
        BY <1>0, <4>2 DEF Cas, Fits, Judged, Final
      <4> QED BY <4>1, <4>2, StatusMoves
    <3>2. {u \in Users : votes[b][u] # None} = {}
      BY <3>1 DEF VotedInv, NoEarlyVotes
    <3>3. Total(b) = 0
      BY <3>2, FS_EmptySet DEF Total
    <3> QED BY <2>1, <3>3, AmountsAreNumbers
  <2>3. PICK v \in Workers : Settles(req[v], b)
    BY <1>1, <2>1, <2>2 DEF VotedInv, SomeoneSettles
  <2>4. CASE req'[v] = req[v]
    BY <2>3, <2>4
  <2>5. CASE req'[v] # req[v]
    <3>1. req[v].bounty = b /\ req[v].pc \in {"tally", "cas"}
      BY <2>3 DEF Settles
    <3>2. Step(v)
      <4>1. req[v] # Idle
        BY <3>1 DEF Idle
      <4>2. ASSUME NEW w \in Workers, NEW c \in Bounties PROVE ~Begin(w, c)
        BY <1>0, <2>5, <4>1 DEF Begin, BeginCreate, BeginClaim, BeginClaimExpired,
           BeginVote, BeginRelease, BeginCancel, BeginDispute, Begins, TypeOK
      <4>3. ASSUME NEW w \in Workers, Step(w) PROVE w = v
        BY <1>0, <2>5, <4>3 DEF Step, Debit, Insert, AddVote, Tally, Cas, Pay,
           Continues, TypeOK
      <4>4. ~(\E c \in Bounties : Expire(c)) /\ ~UNCHANGED vars
        BY <2>5 DEF Expire, vars
      <4> QED BY <1>1, <4>2, <4>3, <4>4 DEF Next
    <3>3. CASE req[v].pc = "tally"
      <4>1. Tally(v)
        BY <3>2, <3>3 DEF Step, Debit, Insert, AddVote, Cas, Pay
      <4>2. EnoughVotes(b)
        BY <2>1 DEF EnoughVotes
      <4>3. \E u, to, payee : req'[v] = Moving(b, u, "disputed", to, payee, FALSE)
        BY <1>0, <3>1, <4>1, <4>2 DEF Tally, Continues, TypeOK
      <4>4. \A u, to, payee : LET r == Moving(b, u, "disputed", to, payee, FALSE)
                              IN r.pc = "cas" /\ r.expected = "disputed" /\ r.bounty = b
        BY DEF Moving, Idle
      <4> QED BY <4>3, <4>4 DEF Settles
    <3>4. CASE req[v].pc = "cas"
      <4>1. Cas(v)
        BY <3>2, <3>4 DEF Step, Debit, Insert, AddVote, Tally, Pay
      <4>2. req[v].expected = "disputed"
        BY <2>3, <3>4 DEF Settles
      <4>3. req[v].to \in Final
        BY <1>0, <3>4, <4>2 DEF Fits, InOrder, Final
      <4>4. status'[b] = req[v].to
        BY <1>0, <2>2, <3>1, <4>1, <4>2 DEF Cas, Matches, TypeOK
      <4> QED BY <4>3, <4>4 DEF Final
    <3> QED BY <3>1, <3>3, <3>4
  <2> QED BY <2>4, <2>5
<1>5. CASE votes'[b] # votes[b]
  <2>1. PICK w \in Workers : AddVote(w)
    BY <1>5, WhoWrites
  <2>2. req[w].bounty = b
    BY <1>0, <1>5, <2>1 DEF AddVote, TypeOK
  <2> QED BY <1>3, <1>5, <2>1, <2>2
<1> QED BY <1>4, <1>5

\* With any number of workers, as long as no handler was cut short, a dispute
\* with all its votes has a worker that counts them or settles it: the last
\* voter does, however the votes overlap.
THEOREM LastVoteSettles == Spec => []VotedIsSettled
<1>1. VotedInv => VotedIsSettled
  BY DEF VotedInv, SomeoneSettles, Settles, VotedIsSettled
<1>2. VotedInv /\ [Next]_vars => VotedInv'
  BY NextCheckedInv, EarlyVotesKept, OrderKept, SettlersKept
     DEF VotedInv, CheckedInv
<1> QED BY <1>1, <1>2, InitVotedInv, PTL DEF Spec

-----------------------------------------------------------------------------
(* Paid or about to be.                                                     *)

Pays(r, b) == r.pc = "pay" /\ r.bounty = b

\* A worker that is about to pay is left alone until it pays, or fails.
LEMMA PayerPays ==
  ASSUME VotedInv, [Next]_vars, NEW w \in Workers, req[w].pc = "pay", ~Fail(w)
  PROVE  req'[w] = req[w] \/ Pay(w)
<1> USE DEF VotedInv, CheckedInv, TypeInv, TypeOK
<1>1. req[w] # Idle
  BY DEF Idle
<1>2. ASSUME NEW v \in Workers, NEW b \in Bounties, Begin(v, b)
      PROVE  req'[w] = req[w]
  BY <1>1, <1>2 DEF Begin, BeginCreate, BeginClaim, BeginClaimExpired, BeginVote,
     BeginRelease, BeginCancel, BeginDispute, Begins
<1>3. ASSUME NEW v \in Workers, v # w, Step(v) \/ Fail(v) PROVE req'[w] = req[w]
  BY <1>3 DEF Step, Debit, Insert, AddVote, Tally, Cas, Pay, Fail, Continues
<1>4. Step(w) => Pay(w)
  BY DEF Step, Debit, Insert, AddVote, Tally, Cas
<1>5. (\E b \in Bounties : Expire(b)) \/ UNCHANGED vars => req' = req
  BY DEF Expire, vars
<1> HIDE DEF VotedInv
<1> QED BY <1>2, <1>3, <1>4, <1>5 DEF Next

\* No step takes back a payment.
LEMMA CreditsStay ==
  ASSUME VotedInv, [Next]_vars, NEW b \in Bounties, credits[b] > 0
  PROVE  credits'[b] > 0
<1> USE DEF VotedInv, CheckedInv, TypeInv, TypeOK
<1>1. ASSUME NEW w \in Workers, Pay(w) PROVE credits'[b] > 0
  <2>1. credits' = [credits EXCEPT ![req[w].bounty] = @ + 1] /\ credits[b] \in Nat
    BY <1>1 DEF Pay
  <2> QED BY <2>1
<1>2. ASSUME NEW w \in Workers, NEW c \in Bounties, Begin(w, c)
      PROVE  credits' = credits
  BY <1>2 DEF Begin, BeginCreate, BeginClaim, BeginClaimExpired, BeginVote,
     BeginRelease, BeginCancel, BeginDispute, Begins, money
<1>3. ASSUME NEW w \in Workers, Step(w) \/ Fail(w), ~Pay(w)
      PROVE  credits' = credits
  BY <1>3 DEF Step, Debit, Insert, AddVote, Tally, Cas, Fail, money
<1>4. (\E c \in Bounties : Expire(c)) \/ UNCHANGED vars => credits' = credits
  BY DEF Expire, vars, money
<1> HIDE DEF VotedInv
<1> QED BY <1>1, <1>2, <1>3, <1>4 DEF Next

\* Whoever settles a bounty goes on to pay it, and whoever is to pay does.
LEMMA PaidKept ==
  ASSUME VotedInv, SettledIsPaid, [Next]_vars
  PROVE  SettledIsPaid'
<1> SUFFICES ASSUME NEW b \in Bounties, status'[b] \in Final, failures' = 0
             PROVE  credits'[b] > 0 \/ \E w \in Workers : Pays(req'[w], b)
  BY DEF SettledIsPaid, Pays
<1>0. /\ TypeOK /\ \A w \in Workers : Fits(req[w])
  BY DEF VotedInv, CheckedInv, TypeInv
<1>1. failures = 0 /\ \A w \in Workers : ~Fail(w)
  BY FailuresStay
<1>2. CASE status[b] \in Final
  <2>1. CASE credits[b] > 0
    BY <2>1, CreditsStay
  <2>2. CASE ~(credits[b] > 0)
    <3>1. PICK w \in Workers : Pays(req[w], b)
      BY <1>1, <1>2, <2>2 DEF SettledIsPaid, Pays
    <3>2. CASE req'[w] = req[w]
      BY <3>1, <3>2
    <3>3. CASE Pay(w)
      <4>1. credits' = [credits EXCEPT ![b] = @ + 1] /\ credits[b] \in Nat
        BY <1>0, <3>1, <3>3 DEF Pay, Pays, TypeOK
      <4>2. credits'[b] = credits[b] + 1
        BY <1>0, <4>1 DEF TypeOK
      <4> QED BY <4>1, <4>2
    <3> QED BY <1>1, <3>1, <3>2, <3>3, PayerPays DEF Pays
  <2> QED BY <2>1, <2>2
<1>3. CASE status[b] \notin Final
  <2>1. status'[b] # status[b]
    BY <1>3
  <2>2. CASE \E w \in Workers :
               /\ Cas(w) /\ req[w].bounty = b
               /\ status[b] = req[w].expected /\ status'[b] = req[w].to
    <3>1. PICK w \in Workers :
            /\ Cas(w) /\ req[w].bounty = b
            /\ status[b] = req[w].expected /\ status'[b] = req[w].to
      BY <2>2
    <3>2. req[w].payee # None
      BY <1>0, <3>1, NoneIsNoOne DEF Cas, Fits, Final
    <3>3. req'[w] = [req[w] EXCEPT !.pc = "pay"] /\ req[w] \in Requests
      BY <1>0, <3>1, <3>2 DEF Cas, Matches, Continues, TypeOK
    <3>4. Pays(req'[w], b)
      BY <3>1, <3>3 DEF Pays, Requests
    <3> QED BY <3>4
  <2>3. CASE status[b] = "none"
    <3>1. CASE \E w \in Workers : Insert(w)
      BY <1>0, <1>3, <3>1 DEF Insert, TypeOK, Final
    <3>2. CASE ~\E w \in Workers : Insert(w)
      <4>1. ASSUME NEW w \in Workers, Cas(w) PROVE status'[b] = status[b]
        <5>1. status[req[w].bounty] = req[w].expected => req[w].bounty # b
          BY <1>0, <2>3, <4>1 DEF Cas, Fits, Live
        <5> QED BY <1>0, <4>1, <5>1 DEF Cas, Matches, TypeOK
      <4>2. ASSUME NEW w \in Workers, NEW c \in Bounties, Begin(w, c)
            PROVE  status' = status
        BY <4>2 DEF Begin, BeginCreate, BeginClaim, BeginClaimExpired, BeginVote,
           BeginRelease, BeginCancel, BeginDispute, Begins, rows
      <4>3. ASSUME NEW w \in Workers, Debit(w) \/ AddVote(w) \/ Tally(w) \/ Pay(w)
            PROVE  status' = status
        BY <4>3 DEF Debit, AddVote, Tally, Pay, rows
      <4>4. (\E c \in Bounties : Expire(c)) \/ UNCHANGED vars => status' = status
        BY DEF Expire, vars, rows
      <4> QED BY <1>1, <2>1, <3>2, <4>1, <4>2, <4>3, <4>4 DEF Next, Step
    <3> QED BY <3>1, <3>2
  <2> QED BY <2>1, <2>2, <2>3, StatusMoves
<1> QED BY <1>2, <1>3

\* With any number of workers, a settled bounty that no failure cut short is
\* paid or about to be paid: the checked and the unchecked compare-and-set,
\* late claims and the last vote alike leave no settlement without its payment.
THEOREM SettlementIsPaid == Spec => []SettledIsPaid
<1>1. VotedInv /\ [Next]_vars => VotedInv'
  BY NextCheckedInv, EarlyVotesKept, OrderKept, SettlersKept
     DEF VotedInv, CheckedInv
<1>2. Init => SettledIsPaid
  BY DEF Init, SettledIsPaid, Final
<1> QED BY <1>1, <1>2, InitVotedInv, PaidKept, PTL DEF Spec

=============================================================================
