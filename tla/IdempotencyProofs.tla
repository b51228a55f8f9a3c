------------------------- MODULE IdempotencyProofs -------------------------
(***************************************************************************)
(* At-most-once execution by the store of Idempotency, for any attempts,   *)
(* keys and lifetimes.                                                     *)
(*                                                                         *)
(* The store forgets: markers time out, responses expire, failures delete. *)
(* The proof keeps account of what an entry that is still there, or not    *)
(* there any more, says about the attempts with its key.                   *)
(***************************************************************************)
EXTENDS Idempotency, TLAPS

Marker(r)   == [in_progress |-> TRUE,  at |-> began[r], by |-> r]
Response(r) == [in_progress |-> FALSE, at |-> ended[r], by |-> r]

\* An attempt has a key from its dispatch on.
IdleHaveNoKey == \A r \in Attempts : phase[r] = "idle" => key[r] = None

\* Who is inside the handler holds a marker that has not timed out.
FlightsAreMarked ==
  \A r \in Attempts :
    InFlight(r) /\ key[r] \in Keys \ excused =>
      store[key[r]] = Marker(r) /\ now - began[r] <= Timeout

\* Every marker is held by an attempt inside the handler.
MarkersAreHeld ==
  \A k \in Keys \ excused, r \in Attempts :
    store[k] # None /\ store[k].in_progress /\ store[k].by = r =>
      InFlight(r) /\ key[r] = k

\* Every stored response is the one to an attempt with that key.
ResponsesAreTrue ==
  \A k \in Keys, r \in Attempts :
    store[k] # None /\ ~store[k].in_progress /\ store[k].by = r =>
      Succeeded(r) /\ key[r] = k /\ store[k].at = ended[r]

\* A response is there until it expires.
StoredUntilExpiry ==
  \A r \in Attempts :
    Succeeded(r) /\ key[r] \in Keys \ excused =>
      store[key[r]] = Response(r) \/ now > ended[r] + Ttl

\* Who is inside the handler began when the earlier responses had expired.
BeganAfterExpiry ==
  \A r, q \in Attempts :
    Succeeded(r) /\ InFlight(q) /\ key[q] = key[r] /\ key[r] \in Keys \ excused =>
      began[q] > ended[r] + Ttl

\* Every replayed response is the stored one to an attempt with that key.
ReplaysAreTrue ==
  \A r \in Attempts : phase[r] = "replayed" =>
    /\ reply[r] \in Attempts
    /\ \A q \in Attempts : reply[r] = q => Succeeded(q) /\ key[q] = key[r]

IdemInv ==
  /\ IdemTypeOK /\ IdleHaveNoKey
  /\ FlightsAreMarked /\ MarkersAreHeld
  /\ ResponsesAreTrue /\ StoredUntilExpiry /\ BeganAfterExpiry
  /\ AtMostOnce /\ ReplaysAreTrue

-----------------------------------------------------------------------------
(* What the invariant says of the store.                                   *)

LEMMA TypesOfIdem ==
  ASSUME IdemInv
  PROVE  /\ now \in Nat /\ Ttl \in Nat /\ Timeout \in Nat
         /\ \A r \in Attempts : began[r] \in Nat /\ ended[r] \in Nat
         /\ \A k \in Keys : store[k] # None =>
              /\ store[k].in_progress \in BOOLEAN /\ store[k].at \in Nat
              /\ store[k].by \in Attempts
BY TimesAssumption DEF IdemInv, IdemTypeOK, Entries

\* Markers and responses are entries.
LEMMA EntriesOf ==
  ASSUME IdemInv, NEW r \in Attempts
  PROVE  /\ Marker(r) \in Entries /\ Marker(r) # None
         /\ Response(r) \in Entries /\ Response(r) # None
<1>1. began[r] \in Nat /\ ended[r] \in Nat
  BY TypesOfIdem
<1>2. Marker(r) \in Entries
  BY <1>1 DEF Marker, Entries
<1>3. Response(r) \in Entries
  BY <1>1 DEF Response, Entries
<1> QED
  BY <1>2, <1>3, NoneAssumption

\* Whatever get drops is expired.
LEMMA LookedDropsExpired ==
  ASSUME NEW k \in Keys, NEW s \in Looked(k)
  PROVE  /\ s = [j \in Keys |-> s[j]]
         /\ \A j \in Keys : s[j] = store[j] \/ (Expired(j) /\ s[j] = None)
BY DEF Looked

\* The marker of an attempt inside the handler is found.
LEMMA FlightsAreFound ==
  ASSUME IdemInv, NEW r \in Attempts, InFlight(r), key[r] \in Keys \ excused
  PROVE  Found(key[r]) /\ ~Expired(key[r]) /\ store[key[r]] = Marker(r)
<1>1. store[key[r]] = Marker(r) /\ now - began[r] <= Timeout
  BY DEF IdemInv, FlightsAreMarked
<1>2. Marker(r).in_progress = TRUE /\ Marker(r).at = began[r]
  BY DEF Marker
<1>3. ~Expired(key[r])
  BY <1>1, <1>2, TypesOfIdem DEF Expired, Lifetime
<1> QED
  BY <1>1, <1>3, EntriesOf DEF Found

\* No two attempts with one key are inside the handler.
LEMMA FlightsAreSingle ==
  ASSUME IdemInv, NEW r \in Attempts, NEW q \in Attempts,
         InFlight(r), InFlight(q), key[r] = key[q], key[r] \in Keys \ excused
  PROVE  r = q
<1>1. Marker(r) = Marker(q)
  BY FlightsAreFound
<1> QED
  BY <1>1 DEF Marker

\* A response that is not found has expired.
LEMMA ResponsesAreFound ==
  ASSUME IdemInv, NEW r \in Attempts, Succeeded(r), key[r] \in Keys \ excused,
         Expired(key[r]) \/ ~Found(key[r])
  PROVE  now > ended[r] + Ttl
<1>1. store[key[r]] = Response(r) \/ now > ended[r] + Ttl
  BY DEF IdemInv, StoredUntilExpiry
<1>2. CASE store[key[r]] = Response(r)
  <2>1. Response(r).in_progress = FALSE /\ Response(r).at = ended[r]
    BY DEF Response
  <2>2. Expired(key[r])
    BY <1>2, EntriesOf DEF Found
  <2> QED
    BY <1>2, <2>1, <2>2, TypesOfIdem DEF Expired, Lifetime
<1> QED
  BY <1>1, <1>2

-----------------------------------------------------------------------------
(* Every step keeps it.                                                    *)

LEMMA IdemInitEstablishesInv == IdemInit => IdemInv
<1> SUFFICES ASSUME IdemInit PROVE IdemInv
  OBVIOUS
<1>1. IdemTypeOK
  BY DEF IdemInit, IdemTypeOK, Phases, Statuses
<1>2. \A r \in Attempts : key[r] = None /\ ~InFlight(r) /\ ~Succeeded(r)
                          /\ phase[r] # "replayed"
  BY DEF IdemInit, InFlight, Succeeded
<1>3. \A k \in Keys : store[k] = None
  BY DEF IdemInit
<1> QED
  BY <1>1, <1>2, <1>3
  DEF IdemInv, IdleHaveNoKey, FlightsAreMarked, MarkersAreHeld, ResponsesAreTrue,
      StoredUntilExpiry, BeganAfterExpiry, AtMostOnce, ReplaysAreTrue

\* A request without a key touches no entry.
LEMMA PassThroughKeepsInv ==
  ASSUME IdemInv, NEW r \in Attempts, PassThrough(r)
  PROVE  IdemInv'
<1>1. /\ key[r] = None /\ None \notin Keys
      /\ phase[r] = "idle"
      /\ UNCHANGED <<store, now, key, ended, status, reply, excused>>
  BY NoneAssumption DEF PassThrough, IdemInv, IdleHaveNoKey
<1>2. \A q \in Attempts :
        /\ phase'[q] = IF q = r THEN "running" ELSE phase[q]
        /\ began'[q] = IF q = r THEN now ELSE began[q]
  BY DEF PassThrough, IdemInv, IdemTypeOK
<1>3. IdemTypeOK'
  BY DEF PassThrough, IdemInv, IdemTypeOK, Phases
<1>4. \A q \in Attempts : Succeeded(q)' <=> Succeeded(q)
  BY <1>1, <1>2 DEF Succeeded
<1>5. \A q \in Attempts :
        key[q] \in Keys => (InFlight(q)' <=> InFlight(q)) /\ began'[q] = began[q]
  BY <1>1, <1>2 DEF InFlight
<1>6. IdleHaveNoKey'
  BY <1>1, <1>2 DEF IdemInv, IdleHaveNoKey
<1>7. FlightsAreMarked'
  BY <1>1, <1>5 DEF IdemInv, FlightsAreMarked, Marker
<1>8. MarkersAreHeld'
  BY <1>1, <1>5, TypesOfIdem DEF IdemInv, MarkersAreHeld
<1>9. ResponsesAreTrue'
  BY <1>1, <1>4, TypesOfIdem DEF IdemInv, ResponsesAreTrue
<1>10. StoredUntilExpiry'
  BY <1>1, <1>4 DEF IdemInv, StoredUntilExpiry, Response
<1>11. BeganAfterExpiry'
  BY <1>1, <1>4, <1>5 DEF IdemInv, BeganAfterExpiry
<1>12. AtMostOnce'
  BY <1>1, <1>4, <1>5 DEF IdemInv, AtMostOnce
<1>13. ReplaysAreTrue'
  BY <1>1, <1>2, <1>4 DEF IdemInv, ReplaysAreTrue
<1> QED
  BY <1>3, <1>6, <1>7, <1>8, <1>9, <1>10, <1>11, <1>12, <1>13 DEF IdemInv

\* A new key, or one whose entry has expired, is marked.
LEMMA BeginKeepsInv ==
  ASSUME IdemInv, NEW r \in Attempts, NEW k \in Keys, Begin(r, k)
  PROVE  IdemInv'
<1>1. /\ phase[r] = "idle" /\ key[r] = None /\ None \notin Keys /\ ~Found(k)
      /\ UNCHANGED <<now, ended, status, reply, excused>>
  BY NoneAssumption DEF Begin, IdemInv, IdleHaveNoKey
<1>2. \A q \in Attempts :
        /\ phase'[q] = IF q = r THEN "running" ELSE phase[q]
        /\ key'[q]   = IF q = r THEN k ELSE key[q]
        /\ began'[q] = IF q = r THEN now ELSE began[q]
  BY DEF Begin, IdemInv, IdemTypeOK
<1>3. Marker(r)' = [in_progress |-> TRUE, at |-> now, by |-> r]
  BY <1>2 DEF Marker
<1>4. PICK s \in Looked(k) : store' = [s EXCEPT ![k] = Marker(r)']
  BY <1>3 DEF Begin
<1>5. /\ store' = [j \in Keys |-> store'[j]]
      /\ store'[k] = Marker(r)'
      /\ \A j \in Keys \ {k} :
           store'[j] = store[j] \/ (Expired(j) /\ store'[j] = None)
  BY <1>4, LookedDropsExpired
<1>6. Marker(r)' \in Entries /\ Marker(r)' # None
  <2>1. Marker(r)' \in Entries
    BY <1>3, TypesOfIdem DEF Entries
  <2> QED
    BY <2>1, NoneAssumption
<1>7. IdemTypeOK'
  <2>1. \A j \in Keys : store'[j] \in Entries \cup {None}
    BY <1>5, <1>6 DEF IdemInv, IdemTypeOK
  <2>2. store' \in [Keys -> Entries \cup {None}]
    BY <1>5, <2>1
  <2> QED
    BY <2>2 DEF Begin, IdemInv, IdemTypeOK, Phases
<1>8. \A q \in Attempts : Succeeded(q)' <=> Succeeded(q)
  BY <1>1, <1>2 DEF Succeeded
<1>9. \A q \in Attempts \ {r} : InFlight(q)' <=> InFlight(q)
  BY <1>2 DEF InFlight
<1>10. InFlight(r)' /\ ~Succeeded(r)
  BY <1>1, <1>2 DEF InFlight, Succeeded
<1>11. \A q \in Attempts \ {r} :
         InFlight(q) /\ key[q] \in Keys \ excused => key[q] # k
  BY <1>1, FlightsAreFound
<1>12. IdleHaveNoKey'
  BY <1>1, <1>2 DEF IdemInv, IdleHaveNoKey
<1>13. FlightsAreMarked'
  <2> SUFFICES ASSUME NEW q \in Attempts, InFlight(q)', key'[q] \in Keys \ excused
               PROVE  store'[key'[q]] = Marker(q)' /\ now - began'[q] <= Timeout
    BY <1>1 DEF FlightsAreMarked
  <2>1. CASE q = r
    BY <1>2, <1>5, <2>1, TypesOfIdem
  <2>2. CASE q # r
    <3>1. /\ InFlight(q) /\ key'[q] = key[q] /\ key[q] # k
          /\ Marker(q)' = Marker(q) /\ began'[q] = began[q]
      BY <1>1, <1>2, <1>9, <1>11, <2>2 DEF Marker
    <3>2. store[key[q]] = Marker(q) /\ ~Expired(key[q])
      BY <3>1, FlightsAreFound
    <3>3. now - began[q] <= Timeout
      BY <3>1 DEF IdemInv, FlightsAreMarked
    <3> QED
      BY <1>5, <3>1, <3>2, <3>3
  <2> QED
    BY <2>1, <2>2
<1>14. MarkersAreHeld'
  <2> SUFFICES ASSUME NEW j \in Keys \ excused, NEW q \in Attempts,
                      store'[j] # None, store'[j].in_progress, store'[j].by = q
               PROVE  InFlight(q)' /\ key'[q] = j
    BY <1>1 DEF MarkersAreHeld
  <2>1. CASE j = k
    <3>1. q = r
      BY <1>3, <1>5, <2>1
    <3> QED
      BY <1>2, <1>10, <2>1, <3>1
  <2>2. CASE j # k
    <3>1. InFlight(q) /\ key[q] = j
      BY <1>5, <2>2 DEF IdemInv, MarkersAreHeld
    <3> QED
      BY <1>1, <1>2, <1>9, <3>1
  <2> QED
    BY <2>1, <2>2
<1>15. ResponsesAreTrue'
  <2> SUFFICES ASSUME NEW j \in Keys, NEW q \in Attempts,
                      store'[j] # None, ~store'[j].in_progress, store'[j].by = q
               PROVE  Succeeded(q) /\ key'[q] = j /\ store'[j].at = ended[q]
    BY <1>1, <1>8 DEF ResponsesAreTrue
  <2>1. j # k
    BY <1>3, <1>5
  <2>2. store'[j] = store[j]
    BY <1>5, <2>1
  <2>3. Succeeded(q) /\ key[q] = j /\ store[j].at = ended[q]
    BY <2>2 DEF IdemInv, ResponsesAreTrue
  <2> QED
    BY <1>2, <1>10, <2>2, <2>3
<1>16. StoredUntilExpiry'
  <2> SUFFICES ASSUME NEW q \in Attempts, Succeeded(q), key'[q] \in Keys \ excused
               PROVE  store'[key'[q]] = Response(q)' \/ now > ended[q] + Ttl
    BY <1>1, <1>8 DEF StoredUntilExpiry
  <2>1. key'[q] = key[q] /\ Response(q)' = Response(q)
    BY <1>1, <1>2, <1>10 DEF Response
  <2>2. CASE key[q] = k \/ Expired(key[q])
    BY <1>1, <2>1, <2>2, ResponsesAreFound
  <2>3. CASE key[q] # k /\ ~Expired(key[q])
    BY <1>5, <2>1, <2>3 DEF IdemInv, StoredUntilExpiry
  <2> QED
    BY <2>2, <2>3
<1>17. BeganAfterExpiry'
  <2> SUFFICES ASSUME NEW q \in Attempts, NEW p \in Attempts, Succeeded(q),
                      InFlight(p)', key'[p] = key'[q], key'[q] \in Keys \ excused
               PROVE  began'[p] > ended[q] + Ttl
    BY <1>1, <1>8 DEF BeganAfterExpiry
  <2>1. q # r /\ key'[q] = key[q]
    BY <1>2, <1>10
  <2>2. CASE p = r
    BY <1>1, <1>2, <2>1, <2>2, ResponsesAreFound
  <2>3. CASE p # r
    BY <1>2, <1>9, <2>1, <2>3 DEF IdemInv, BeganAfterExpiry
  <2> QED
    BY <2>2, <2>3
<1>18. AtMostOnce'
  BY <1>1, <1>2, <1>8, <1>10 DEF IdemInv, AtMostOnce
<1>19. ReplaysAreTrue'
  BY <1>1, <1>2, <1>8, <1>10 DEF IdemInv, ReplaysAreTrue
<1> QED
  BY <1>7, <1>12, <1>13, <1>14, <1>15, <1>16, <1>17, <1>18, <1>19 DEF IdemInv

\* A request whose key is found is replayed or refused, and leaves what it found.
LEMMA LookupKeepsInv ==
  ASSUME IdemInv, NEW r \in Attempts, NEW k \in Keys, Replay(r, k) \/ Refuse(r, k)
  PROVE  IdemInv'
<1>1. /\ phase[r] = "idle" /\ key[r] = None /\ None \notin Keys /\ Found(k)
      /\ store' \in Looked(k)
      /\ UNCHANGED <<now, began, ended, status, excused>>
  BY NoneAssumption DEF Replay, Refuse, IdemInv, IdleHaveNoKey
<1>2. \A q \in Attempts :
        /\ q = r => phase'[q] \in {"replayed", "refused"}
        /\ q # r => phase'[q] = phase[q] /\ reply'[q] = reply[q]
        /\ key'[q] = IF q = r THEN k ELSE key[q]
  BY DEF Replay, Refuse, IdemInv, IdemTypeOK
<1>3. phase'[r] = "replayed" => ~store[k].in_progress /\ reply'[r] = store[k].by
  BY DEF Replay, Refuse, IdemInv, IdemTypeOK
<1>4. /\ store' = [j \in Keys |-> store'[j]]
      /\ \A j \in Keys : store'[j] = store[j] \/ (Expired(j) /\ store'[j] = None)
  BY <1>1, LookedDropsExpired
<1>5. store[k] # None /\ store[k].by \in Attempts
  BY <1>1, TypesOfIdem DEF Found
<1>6. IdemTypeOK'
  <2>1. \A j \in Keys : store'[j] \in Entries \cup {None}
    BY <1>4 DEF IdemInv, IdemTypeOK
  <2>2. store' \in [Keys -> Entries \cup {None}]
    BY <1>4, <2>1
  <2> QED
    BY <1>1, <1>5, <2>2 DEF Replay, Refuse, IdemInv, IdemTypeOK, Phases
<1>7. \A q \in Attempts : Succeeded(q)' <=> Succeeded(q)
  BY <1>1, <1>2 DEF Succeeded
<1>8. \A q \in Attempts : InFlight(q)' <=> InFlight(q)
  BY <1>1, <1>2 DEF InFlight
<1>9. ~InFlight(r) /\ ~Succeeded(r)
  BY <1>1 DEF InFlight, Succeeded
<1>10. \A q \in Attempts : q # r => key'[q] = key[q]
  BY <1>2
<1>11. IdleHaveNoKey'
  BY <1>1, <1>2 DEF IdemInv, IdleHaveNoKey
<1>12. FlightsAreMarked'
  <2> SUFFICES ASSUME NEW q \in Attempts, InFlight(q), key[q] \in Keys \ excused
               PROVE  store'[key[q]] = Marker(q) /\ now - began[q] <= Timeout
    BY <1>1, <1>8, <1>9, <1>10 DEF FlightsAreMarked, Marker
  <2>1. store[key[q]] = Marker(q) /\ ~Expired(key[q])
    BY FlightsAreFound
  <2> QED
    BY <1>4, <2>1 DEF IdemInv, FlightsAreMarked
<1>13. MarkersAreHeld'
  BY <1>1, <1>4, <1>8, <1>9, <1>10 DEF IdemInv, MarkersAreHeld
<1>14. ResponsesAreTrue'
  BY <1>1, <1>4, <1>7, <1>9, <1>10 DEF IdemInv, ResponsesAreTrue
<1>15. StoredUntilExpiry'
  <2> SUFFICES ASSUME NEW q \in Attempts, Succeeded(q), key[q] \in Keys \ excused
               PROVE  store'[key[q]] = Response(q) \/ now > ended[q] + Ttl
    BY <1>1, <1>7, <1>9, <1>10 DEF StoredUntilExpiry, Response
  <2>1. CASE Expired(key[q])
    BY <2>1, ResponsesAreFound
  <2>2. CASE ~Expired(key[q])
    BY <1>4, <2>2 DEF IdemInv, StoredUntilExpiry
  <2> QED
    BY <2>1, <2>2
<1>16. BeganAfterExpiry'
  BY <1>1, <1>7, <1>8, <1>9, <1>10 DEF IdemInv, BeganAfterExpiry
<1>17. AtMostOnce'
  BY <1>1, <1>7, <1>9, <1>10 DEF IdemInv, AtMostOnce
<1>18. ReplaysAreTrue'
  <2>1. phase'[r] = "replayed" =>
          /\ reply'[r] \in Attempts
          /\ \A q \in Attempts : reply'[r] = q => Succeeded(q) /\ key[q] = k
    BY <1>3, <1>5 DEF IdemInv, ResponsesAreTrue
  <2>2. \A q \in Attempts \ {r} : phase'[q] = "replayed" =>
          /\ reply'[q] \in Attempts
          /\ \A p \in Attempts : reply'[q] = p => Succeeded(p) /\ key[p] = key[q]
    BY <1>2 DEF IdemInv, ReplaysAreTrue
  <2> QED
    BY <1>2, <1>7, <1>9, <1>10, <2>1, <2>2 DEF ReplaysAreTrue
<1> QED
  BY <1>6, <1>11, <1>12, <1>13, <1>14, <1>15, <1>16, <1>17, <1>18 DEF IdemInv

\* The handler responds: the attempt is still in flight.
LEMMA RespondKeepsInv ==
  ASSUME IdemInv, NEW r \in Attempts, NEW c \in Statuses, Respond(r, c)
  PROVE  IdemInv'
<1>1. /\ phase[r] = "running"
      /\ UNCHANGED <<store, now, key, began, ended, reply, excused>>
  BY DEF Respond
<1>2. \A q \in Attempts :
        /\ phase'[q] = IF q = r THEN "responded" ELSE phase[q]
        /\ q # r => status'[q] = status[q]
  BY DEF Respond, IdemInv, IdemTypeOK
<1>3. IdemTypeOK'
  BY DEF Respond, IdemInv, IdemTypeOK, Phases
<1>4. \A q \in Attempts : Succeeded(q)' <=> Succeeded(q)
  BY <1>1, <1>2 DEF Succeeded
<1>5. \A q \in Attempts : InFlight(q)' <=> InFlight(q)
  BY <1>1, <1>2 DEF InFlight
<1>6. IdleHaveNoKey'
  BY <1>1, <1>2 DEF IdemInv, IdleHaveNoKey
<1>7. FlightsAreMarked' /\ MarkersAreHeld' /\ ResponsesAreTrue'
  BY <1>1, <1>4, <1>5
  DEF IdemInv, FlightsAreMarked, Marker, MarkersAreHeld, ResponsesAreTrue
<1>8. StoredUntilExpiry' /\ BeganAfterExpiry' /\ AtMostOnce'
  BY <1>1, <1>4, <1>5
  DEF IdemInv, StoredUntilExpiry, Response, BeganAfterExpiry, AtMostOnce
<1>9. ReplaysAreTrue'
  BY <1>1, <1>2, <1>4 DEF IdemInv, ReplaysAreTrue
<1> QED
  BY <1>3, <1>6, <1>7, <1>8, <1>9 DEF IdemInv

\* The handler raises: its marker goes, and nothing else of its key was there.
LEMMA RaiseKeepsInv ==
  ASSUME IdemInv, NEW r \in Attempts, Raise(r)
  PROVE  IdemInv'
<1>1. /\ phase[r] = "running"
      /\ UNCHANGED <<now, key, began, ended, status, reply, excused>>
  BY DEF Raise
<1>2. \A q \in Attempts : phase'[q] = IF q = r THEN "failed" ELSE phase[q]
  BY DEF Raise, IdemInv, IdemTypeOK
<1>3. \A k \in Keys : store'[k] = IF k = key[r] THEN None ELSE store[k]
  BY DEF Raise
<1>4. IdemTypeOK'
  <2>1. store' \in [Keys -> Entries \cup {None}]
    BY DEF Raise, IdemInv, IdemTypeOK
  <2> QED
    BY <2>1 DEF Raise, IdemInv, IdemTypeOK, Phases
<1>5. \A q \in Attempts : Succeeded(q)' <=> Succeeded(q)
  BY <1>1, <1>2 DEF Succeeded
<1>6. InFlight(r) /\ \A q \in Attempts : InFlight(q)' <=> InFlight(q) /\ q # r
  BY <1>1, <1>2 DEF InFlight
<1>7. key[r] \in Keys \ excused => store[key[r]] = Marker(r)
  BY <1>6, FlightsAreFound
<1>8. IdleHaveNoKey'
  BY <1>1, <1>2 DEF IdemInv, IdleHaveNoKey
<1>9. FlightsAreMarked'
  <2> SUFFICES ASSUME NEW q \in Attempts, InFlight(q), q # r,
                      key[q] \in Keys \ excused
               PROVE  store'[key[q]] = Marker(q) /\ now - began[q] <= Timeout
    BY <1>1, <1>6 DEF FlightsAreMarked, Marker
  <2>1. key[q] # key[r]
    BY <1>6, FlightsAreSingle
  <2> QED
    BY <1>3, <2>1 DEF IdemInv, FlightsAreMarked
<1>10. MarkersAreHeld'
  <2> SUFFICES ASSUME NEW k \in Keys \ excused, NEW q \in Attempts,
                      store'[k] # None, store'[k].in_progress, store'[k].by = q
               PROVE  InFlight(q)' /\ key[q] = k
    BY <1>1 DEF MarkersAreHeld
  <2>1. k # key[r] /\ store'[k] = store[k]
    BY <1>3
  <2>2. InFlight(q) /\ key[q] = k
    BY <2>1 DEF IdemInv, MarkersAreHeld
  <2> QED
    BY <1>6, <2>1, <2>2
<1>11. ResponsesAreTrue'
  BY <1>1, <1>3, <1>5 DEF IdemInv, ResponsesAreTrue
<1>12. StoredUntilExpiry'
  <2> SUFFICES ASSUME NEW q \in Attempts, Succeeded(q), key[q] \in Keys \ excused
               PROVE  store'[key[q]] = Response(q) \/ now > ended[q] + Ttl
    BY <1>1, <1>5 DEF StoredUntilExpiry, Response
  <2>1. store[key[q]] = Response(q) \/ now > ended[q] + Ttl
    BY DEF IdemInv, StoredUntilExpiry
  <2>2. key[q] = key[r] => store[key[q]] # Response(q)
    BY <1>7 DEF Marker, Response
  <2> QED
    BY <1>3, <2>1, <2>2
<1>13. BeganAfterExpiry' /\ AtMostOnce'
  BY <1>1, <1>5, <1>6 DEF IdemInv, BeganAfterExpiry, AtMostOnce
<1>14. ReplaysAreTrue'
  BY <1>1, <1>2, <1>5 DEF IdemInv, ReplaysAreTrue
<1> QED
  BY <1>4, <1>8, <1>9, <1>10, <1>11, <1>12, <1>13, <1>14 DEF IdemInv

\* The response is stored, or its marker removed.
LEMMA ConcludeKeepsInv ==
  ASSUME IdemInv, NEW r \in Attempts, Conclude(r)
  PROVE  IdemInv'
<1>1. /\ phase[r] = "responded" /\ now \in Nat
      /\ UNCHANGED <<now, key, began, status, excused>>
  BY TypesOfIdem DEF Conclude
<1>2. \A q \in Attempts :
        /\ phase'[q] = IF q = r THEN "answered" ELSE phase[q]
        /\ ended'[q] = IF q = r THEN now ELSE ended[q]
        /\ reply'[q] = IF q = r THEN r ELSE reply[q]
  BY DEF Conclude, IdemInv, IdemTypeOK
<1>3. Response(r)' = [in_progress |-> FALSE, at |-> now, by |-> r]
  BY <1>2 DEF Response
<1>4. /\ store' = [k \in Keys |-> store'[k]]
      /\ \A k \in Keys : k # key[r] => store'[k] = store[k]
      /\ key[r] \in Keys =>
           store'[key[r]] = IF status[r] # "server_error" THEN Response(r)' ELSE None
  BY <1>3 DEF Conclude, Stored
<1>5. Response(r)' \in Entries /\ Response(r)' # None
  <2>1. Response(r)' \in Entries
    BY <1>1, <1>3 DEF Entries
  <2> QED
    BY <2>1, NoneAssumption
<1>6. IdemTypeOK'
  <2>1. \A k \in Keys : store'[k] \in Entries \cup {None}
    BY <1>4, <1>5 DEF IdemInv, IdemTypeOK
  <2>2. store' \in [Keys -> Entries \cup {None}]
    BY <1>4, <2>1
  <2> QED
    BY <1>1, <2>2 DEF Conclude, IdemInv, IdemTypeOK, Phases
<1>7. \A q \in Attempts \ {r} : Succeeded(q)' <=> Succeeded(q)
  BY <1>1, <1>2 DEF Succeeded
<1>8. ~Succeeded(r) /\ (Succeeded(r)' <=> status[r] # "server_error")
  BY <1>1, <1>2 DEF Succeeded
<1>9. InFlight(r) /\ \A q \in Attempts : InFlight(q)' <=> InFlight(q) /\ q # r
  BY <1>1, <1>2 DEF InFlight
<1>10. key[r] \in Keys \ excused => store[key[r]] = Marker(r)
  BY <1>9, FlightsAreFound
<1>11. IdleHaveNoKey'
  BY <1>1, <1>2 DEF IdemInv, IdleHaveNoKey
<1>12. FlightsAreMarked'
  <2> SUFFICES ASSUME NEW q \in Attempts, InFlight(q), q # r,
                      key[q] \in Keys \ excused
               PROVE  store'[key[q]] = Marker(q) /\ now - began[q] <= Timeout
    BY <1>1, <1>9 DEF FlightsAreMarked, Marker
  <2>1. key[q] # key[r]
    BY <1>9, FlightsAreSingle
  <2> QED
    BY <1>4, <2>1 DEF IdemInv, FlightsAreMarked
<1>13. MarkersAreHeld'
  <2> SUFFICES ASSUME NEW k \in Keys \ excused, NEW q \in Attempts,
                      store'[k] # None, store'[k].in_progress, store'[k].by = q
               PROVE  InFlight(q)' /\ key[q] = k
    BY <1>1 DEF MarkersAreHeld
  <2>1. k # key[r] /\ store'[k] = store[k]
    BY <1>3, <1>4
  <2>2. InFlight(q) /\ key[q] = k
    BY <2>1 DEF IdemInv, MarkersAreHeld
  <2> QED
    BY <1>9, <2>1, <2>2
<1>14. ResponsesAreTrue'
  <2> SUFFICES ASSUME NEW k \in Keys, NEW q \in Attempts,
                      store'[k] # None, ~store'[k].in_progress, store'[k].by = q
               PROVE  Succeeded(q)' /\ key[q] = k /\ store'[k].at = ended'[q]
    BY <1>1 DEF ResponsesAreTrue
  <2>1. CASE k = key[r]
    <3>1. q = r /\ store'[k].at = now /\ status[r] # "server_error"
      BY <1>3, <1>4, <2>1
    <3> QED
      BY <1>2, <1>8, <2>1, <3>1
  <2>2. CASE k # key[r]
    <3>1. Succeeded(q) /\ key[q] = k /\ store[k].at = ended[q]
      BY <1>4, <2>2 DEF IdemInv, ResponsesAreTrue
    <3> QED
      BY <1>2, <1>4, <1>7, <2>2, <3>1
  <2> QED
    BY <2>1, <2>2
<1>15. StoredUntilExpiry'
  <2> SUFFICES ASSUME NEW q \in Attempts, Succeeded(q)', key[q] \in Keys \ excused
               PROVE  store'[key[q]] = Response(q)' \/ now > ended'[q] + Ttl
    BY <1>1 DEF StoredUntilExpiry
  <2>1. CASE q = r
    BY <1>4, <1>8, <2>1
  <2>2. CASE q # r
    <3>1. /\ store[key[q]] = Response(q) \/ now > ended[q] + Ttl
          /\ Response(q)' = Response(q) /\ ended'[q] = ended[q]
      BY <1>2, <1>7, <2>2 DEF IdemInv, StoredUntilExpiry, Response
    <3>2. key[q] = key[r] => store[key[q]] # Response(q)
      BY <1>10 DEF Marker, Response
    <3> QED
      BY <1>4, <3>1, <3>2
  <2> QED
    BY <2>1, <2>2
<1>16. BeganAfterExpiry'
  <2> SUFFICES ASSUME NEW q \in Attempts, NEW p \in Attempts, Succeeded(q)',
                      InFlight(p), p # r, key[p] = key[q], key[q] \in Keys \ excused
               PROVE  began[p] > ended'[q] + Ttl
    BY <1>1, <1>9 DEF BeganAfterExpiry
  <2>1. q # r
    BY <1>9, FlightsAreSingle
  <2> QED
    BY <1>2, <1>7, <2>1 DEF IdemInv, BeganAfterExpiry
<1>17. AtMostOnce'
  <2> SUFFICES ASSUME NEW q \in Attempts, NEW p \in Attempts, q # p,
                      Succeeded(q)', Succeeded(p)',
                      key[q] = key[p], key[q] \in Keys \ excused
               PROVE  began[q] > ended'[p] + Ttl \/ began[p] > ended'[q] + Ttl
    BY <1>1 DEF AtMostOnce
  <2>1. CASE q = r
    BY <1>2, <1>7, <1>9, <2>1 DEF IdemInv, BeganAfterExpiry
  <2>2. CASE p = r
    BY <1>2, <1>7, <1>9, <2>2 DEF IdemInv, BeganAfterExpiry
  <2>3. CASE q # r /\ p # r
    BY <1>2, <1>7, <2>3 DEF IdemInv, AtMostOnce
  <2> QED
    BY <2>1, <2>2, <2>3
<1>18. ReplaysAreTrue'
  BY <1>1, <1>2, <1>7, <1>8 DEF IdemInv, ReplaysAreTrue
<1> QED
  BY <1>6, <1>11, <1>12, <1>13, <1>14, <1>15, <1>16, <1>17, <1>18 DEF IdemInv

\* Time passes: the keys of attempts that outran the timeout are excused.
LEMMA TickKeepsInv ==
  ASSUME IdemInv, Tick
  PROVE  IdemInv'
<1>1. /\ now' = now + 1 /\ excused \subseteq excused'
      /\ UNCHANGED <<store, phase, key, began, ended, status, reply>>
  BY DEF Tick, clients
<1>2. \A r \in Attempts :
        InFlight(r) /\ key[r] \in Keys \ excused' => now' - began[r] <= Timeout
  <2> SUFFICES ASSUME NEW r \in Attempts, InFlight(r), key[r] \in Keys \ excused'
               PROVE  now' - began[r] <= Timeout
    OBVIOUS
  <2>1. ~(now' - began[r] > Timeout)
    BY DEF Tick
  <2> QED
    BY <1>1, <2>1, TypesOfIdem
<1>3. IdemTypeOK'
  <2>1. excused' \subseteq Keys
    BY DEF Tick, IdemInv, IdemTypeOK
  <2> QED
    BY <1>1, <2>1, TypesOfIdem DEF IdemInv, IdemTypeOK
<1>4. \A r \in Attempts : /\ InFlight(r)' <=> InFlight(r)
                          /\ Succeeded(r)' <=> Succeeded(r)
  BY <1>1 DEF InFlight, Succeeded
<1>5. IdleHaveNoKey' /\ ResponsesAreTrue' /\ ReplaysAreTrue'
  BY <1>1, <1>4 DEF IdemInv, IdleHaveNoKey, ResponsesAreTrue, ReplaysAreTrue
<1>6. FlightsAreMarked'
  BY <1>1, <1>2, <1>4 DEF IdemInv, FlightsAreMarked, Marker
<1>7. MarkersAreHeld'
  BY <1>1, <1>4 DEF IdemInv, MarkersAreHeld
<1>8. StoredUntilExpiry'
  <2>1. \A r \in Attempts : now > ended[r] + Ttl => now' > ended[r] + Ttl
    BY <1>1, TypesOfIdem
  <2> QED
    BY <1>1, <1>4, <2>1 DEF IdemInv, StoredUntilExpiry, Response
<1>9. BeganAfterExpiry' /\ AtMostOnce'
  BY <1>1, <1>4 DEF IdemInv, BeganAfterExpiry, AtMostOnce
<1> QED
  BY <1>3, <1>5, <1>6, <1>7, <1>8, <1>9 DEF IdemInv

\* The process dies with its store: no promise is left but that of the replies.
LEMMA RestartKeepsInv ==
  ASSUME IdemInv, Restart
  PROVE  IdemInv'
<1>1. /\ excused' = Keys /\ \A k \in Keys : store'[k] = None
      /\ UNCHANGED <<now, key, began, ended, status, reply>>
  BY DEF Restart
<1>2. \A r \in Attempts :
        phase'[r] = IF InFlight(r) THEN "failed" ELSE phase[r]
  BY DEF Restart
<1>3. IdemTypeOK'
  <2>1. phase' \in [Attempts -> Phases]
    BY DEF Restart, IdemInv, IdemTypeOK, Phases
  <2>2. store' \in [Keys -> Entries \cup {None}]
    BY DEF Restart
  <2> QED
    BY <1>1, <2>1, <2>2 DEF IdemInv, IdemTypeOK
<1>4. \A r \in Attempts : Succeeded(r)' <=> Succeeded(r)
  BY <1>1, <1>2 DEF Succeeded, InFlight
<1>5. IdleHaveNoKey' /\ ReplaysAreTrue'
  BY <1>1, <1>2, <1>4 DEF IdemInv, IdleHaveNoKey, ReplaysAreTrue
<1>6. ResponsesAreTrue'
  BY <1>1 DEF ResponsesAreTrue
<1>7. FlightsAreMarked' /\ MarkersAreHeld' /\ StoredUntilExpiry'
      /\ BeganAfterExpiry' /\ AtMostOnce'
  BY <1>1
  DEF FlightsAreMarked, MarkersAreHeld, StoredUntilExpiry, BeganAfterExpiry, AtMostOnce
<1> QED
  BY <1>3, <1>5, <1>6, <1>7 DEF IdemInv

LEMMA IdemStepKeepsInv == IdemInv /\ [IdemNext]_idemVars => IdemInv'
<1> SUFFICES ASSUME IdemInv, [IdemNext]_idemVars PROVE IdemInv'
  OBVIOUS
<1>1. CASE UNCHANGED idemVars
  <2>1. UNCHANGED <<store, now, phase, key, began, ended, status, reply, excused>>
    BY <1>1 DEF idemVars, clients
  <2> QED
    BY <2>1
    DEF IdemInv, IdemTypeOK, IdleHaveNoKey, FlightsAreMarked, MarkersAreHeld,
        ResponsesAreTrue, StoredUntilExpiry, BeganAfterExpiry, AtMostOnce,
        ReplaysAreTrue, InFlight, Succeeded, Marker, Response
<1>2. ASSUME NEW r \in Attempts, Dispatch(r) PROVE IdemInv'
  <2>1. CASE PassThrough(r)
    BY <2>1, PassThroughKeepsInv
  <2>2. ASSUME NEW k \in Keys, Begin(r, k) PROVE IdemInv'
    BY <2>2, BeginKeepsInv
  <2>3. ASSUME NEW k \in Keys, Replay(r, k) \/ Refuse(r, k) PROVE IdemInv'
    BY <2>3, LookupKeepsInv
  <2>4. ASSUME NEW c \in Statuses, Respond(r, c) PROVE IdemInv'
    BY <2>4, RespondKeepsInv
  <2>5. CASE Raise(r)
    BY <2>5, RaiseKeepsInv
  <2>6. CASE Conclude(r)
    BY <2>6, ConcludeKeepsInv
  <2> QED
    BY <1>2, <2>1, <2>2, <2>3, <2>4, <2>5, <2>6 DEF Dispatch
<1>3. CASE Tick
  BY <1>3, TickKeepsInv
<1>4. CASE Restart
  BY <1>4, RestartKeepsInv
<1> QED
  BY <1>1, <1>2, <1>3, <1>4 DEF IdemNext

\* What the store knows of the attempts, at any time.
THEOREM IdemInvariant == IdemSpec => []IdemInv
<1>1. IdemInit => IdemInv
  BY IdemInitEstablishesInv
<1>2. IdemInv /\ [IdemNext]_idemVars => IdemInv'
  BY IdemStepKeepsInv
<1> QED
  BY <1>1, <1>2, PTL DEF IdemSpec

-----------------------------------------------------------------------------
\* What the invariant says to a client: attempts with its key run one at a
\* time and at most once per lifetime of a response, a 409 means that one is
\* running, and a replay is the answer to an attempt with that key.
LEMMA IdemInvPromises ==
  IdemInv => IdemTypeOK /\ SingleFlight /\ AtMostOnce /\ NoOrphanMarker
             /\ ReplaysItsOwn
<1> SUFFICES ASSUME IdemInv
             PROVE  IdemTypeOK /\ SingleFlight /\ AtMostOnce /\ NoOrphanMarker
                    /\ ReplaysItsOwn
  OBVIOUS
<1>1. IdemTypeOK /\ AtMostOnce
  BY DEF IdemInv
<1>2. SingleFlight
  BY FlightsAreSingle DEF SingleFlight
<1>3. NoOrphanMarker
  BY TypesOfIdem DEF IdemInv, MarkersAreHeld, NoOrphanMarker
<1>4. ReplaysItsOwn
  <2> SUFFICES ASSUME NEW r \in Attempts, phase[r] = "replayed"
               PROVE  Succeeded(reply[r]) /\ key[reply[r]] = key[r]
    BY DEF ReplaysItsOwn
  <2>1. PICK q \in Attempts : reply[r] = q
    BY DEF IdemInv, ReplaysAreTrue
  <2>2. Succeeded(q) /\ key[q] = key[r]
    BY <2>1 DEF IdemInv, ReplaysAreTrue
  <2> QED
    BY <2>1, <2>2
<1> QED
  BY <1>1, <1>2, <1>3, <1>4

\* For any attempts, keys, lifetimes and timeouts, the middleware keeps all its
\* promises at once.
THEOREM IdempotencyIsKept ==
  IdemSpec => [](SingleFlight /\ AtMostOnce /\ NoOrphanMarker /\ ReplaysItsOwn)
<1>1. IdemInv => SingleFlight /\ AtMostOnce /\ NoOrphanMarker /\ ReplaysItsOwn
  BY IdemInvPromises
<1> QED
  BY <1>1, IdemInvariant, PTL

\* A 409 is told only to those whose key is at work: no marker outlives its
\* attempt, whatever timed out, failed or was looked up meanwhile.
THEOREM ConflictsAreReal == IdemSpec => []NoOrphanMarker
BY IdempotencyIsKept, PTL

\* A client is answered from the store only with the response to an attempt of
\* its own key that succeeded, even after that entry has gone.
THEOREM ReplaysAreTrueAnswers == IdemSpec => []ReplaysItsOwn
BY IdempotencyIsKept, PTL
=============================================================================
