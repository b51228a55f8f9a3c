---------------------------- MODULE Idempotency ----------------------------
(***************************************************************************)
(* The middleware of idempotency.py, between the clients' POST requests    *)
(* and the handlers.                                                       *)
(*                                                                         *)
(* An attempt is one POST; attempts with the same key are retries of each  *)
(* other.  A key is already scoped, by the API key the client sent.  The   *)
(* dispatch of an attempt is cut at its two awaits: call_next, in which    *)
(* the handler runs, and the reading of the body of its response.  What    *)
(* the handler does is not this module's business: it responds, in a while,*)
(* with some status, or raises.                                            *)
(*                                                                         *)
(* Time is a counter of coarse ticks; Ttl and Timeout are in ticks.        *)
(***************************************************************************)
EXTENDS Integers, FiniteSets

CONSTANTS
  Attempts,  \* POST requests, retries included
  Keys,      \* scoped idempotency keys
  None,      \* no key, no entry, no attempt
  Ttl,       \* IDEMPOTENCY_TTL_SECONDS
  Timeout,   \* _IN_PROGRESS_TIMEOUT
  MaxTime    \* bound: the clock stops there

ASSUME TimesAssumption == {Ttl, Timeout, MaxTime} \subseteq Nat

VARIABLES
  store,   \* IdempotencyStore._store; None where there is no entry
  now,     \* time.time()
  phase,   \* where the dispatch of each attempt is
  key,     \* the key an attempt came with, or None
  began,   \* when it was marked in progress
  ended,   \* when its response was stored
  status,  \* the class of its response
  reply,   \* the attempt whose response it was answered with
  excused  \* history: keys that outran the timeout or were lost in a restart

clients == <<phase, key, began, ended, status, reply>>
idemVars == <<store, now, clients, excused>>

\* running: inside call_next; responded: its body is being read; answered:
\* with its own response; replayed: with a stored one; refused: with a 409;
\* failed: the handler raised, or the process died.
Phases   == {"idle", "running", "responded", "answered", "replayed",
             "refused", "failed"}
Statuses == {"none", "ok", "client_error", "server_error"}

\* A marker or a stored response.  The field `by` of a response stands for its
\* body and headers; of a marker, it is who set it, which the code does not keep.
Entries == [in_progress : BOOLEAN, at : Nat, by : Attempts]

ASSUME NoneAssumption == None \notin Keys \cup Attempts /\ None \notin Entries

InFlight(r) == phase[r] \in {"running", "responded"}

\* r ran to its end and its response is one that is stored.
Succeeded(r) == phase[r] = "answered" /\ status[r] # "server_error"

IdemInit ==
  /\ store  = [k \in Keys |-> None]
  /\ now    = 0
  /\ phase  = [r \in Attempts |-> "idle"]
  /\ key    = [r \in Attempts |-> None]
  /\ began  = [r \in Attempts |-> 0]
  /\ ended  = [r \in Attempts |-> 0]
  /\ status = [r \in Attempts |-> "none"]
  /\ reply  = [r \in Attempts |-> None]
  /\ excused = {}

-----------------------------------------------------------------------------
(* The store.                                                              *)

\* Bug form: responses expire as soon as markers do.
BugLifetime(e) == IF e.in_progress THEN Timeout ELSE Timeout

Lifetime(e) == IF e.in_progress THEN Timeout ELSE Ttl

Expired(k) == store[k] # None /\ now - store[k].at > Lifetime(store[k])

Found(k) == store[k] # None /\ ~Expired(k)

\* get drops an expired entry; every hundredth call drops all of them.
Looked(k) ==
  {[j \in Keys |-> IF j \in seen /\ Expired(j) THEN None ELSE store[j]] :
     seen \in {{k}, Keys}}

\* Bug form: what is stored are the responses that a retry should not repeat.
BugStored(s) == s # "client_error"

Stored(s) == s # "server_error"

-----------------------------------------------------------------------------
(* The dispatch of an attempt.                                             *)

\* Without a key the request goes straight to the handler.
PassThrough(r) ==
  /\ phase[r] = "idle"
  /\ phase' = [phase EXCEPT ![r] = "running"]
  /\ began' = [began EXCEPT ![r] = now]
  /\ UNCHANGED <<store, now, key, ended, status, reply, excused>>

\* Bug form: a marker set by an attempt that still runs is ignored.
BugBegin(r, k) ==
  /\ phase[r] = "idle"
  /\ ~(Found(k) /\ ~store[k].in_progress)
  /\ \E s \in Looked(k) :
       store' = [s EXCEPT ![k] = [in_progress |-> TRUE, at |-> now, by |-> r]]
  /\ phase' = [phase EXCEPT ![r] = "running"]
  /\ key'   = [key EXCEPT ![r] = k]
  /\ began' = [began EXCEPT ![r] = now]
  /\ UNCHANGED <<now, ended, status, reply, excused>>

\* A new key, or one whose entry has expired: mark it and run the handler.
Begin(r, k) ==
  /\ phase[r] = "idle"
  /\ ~Found(k)
  /\ \E s \in Looked(k) :
       store' = [s EXCEPT ![k] = [in_progress |-> TRUE, at |-> now, by |-> r]]
  /\ phase' = [phase EXCEPT ![r] = "running"]
  /\ key'   = [key EXCEPT ![r] = k]
  /\ began' = [began EXCEPT ![r] = now]
  /\ UNCHANGED <<now, ended, status, reply, excused>>

Replay(r, k) ==
  /\ phase[r] = "idle"
  /\ Found(k)
  /\ ~store[k].in_progress
  /\ store' \in Looked(k)
  /\ phase' = [phase EXCEPT ![r] = "replayed"]
  /\ key'   = [key EXCEPT ![r] = k]
  /\ reply' = [reply EXCEPT ![r] = store[k].by]
  /\ UNCHANGED <<now, began, ended, status, excused>>

\* mark_in_progress and the second get find the marker of another attempt: 409.
Refuse(r, k) ==
  /\ phase[r] = "idle"
  /\ Found(k)
  /\ store[k].in_progress
  /\ store' \in Looked(k)
  /\ phase' = [phase EXCEPT ![r] = "refused"]
  /\ key'   = [key EXCEPT ![r] = k]
  /\ UNCHANGED <<now, began, ended, status, reply, excused>>

Respond(r, s) ==
  /\ phase[r] = "running"
  /\ phase'  = [phase EXCEPT ![r] = "responded"]
  /\ status' = [status EXCEPT ![r] = s]
  /\ UNCHANGED <<store, now, key, began, ended, reply, excused>>

\* Bug form: the marker stays when the handler raised.
BugRaise(r) ==
  /\ phase[r] = "running"
  /\ phase' = [phase EXCEPT ![r] = "failed"]
  /\ UNCHANGED <<store, now, key, began, ended, status, reply, excused>>

\* An exception leaves call_next: the entry goes, whoever set it.
Raise(r) ==
  /\ phase[r] = "running"
  /\ phase' = [phase EXCEPT ![r] = "failed"]
  /\ store' = [k \in Keys |-> IF k = key[r] THEN None ELSE store[k]]
  /\ UNCHANGED <<now, key, began, ended, status, reply, excused>>

\* The body has been read: the response is stored, or its marker removed.
Conclude(r) ==
  /\ phase[r] = "responded"
  /\ phase' = [phase EXCEPT ![r] = "answered"]
  /\ ended' = [ended EXCEPT ![r] = now]
  /\ reply' = [reply EXCEPT ![r] = r]
  /\ store' = [k \in Keys |->
       CASE k # key[r] -> store[k]
         [] k = key[r] /\ Stored(status[r]) ->
              [in_progress |-> FALSE, at |-> now, by |-> r]
         [] OTHER -> None]
  /\ UNCHANGED <<now, key, began, status, excused>>

-----------------------------------------------------------------------------
(* Time, and the death of the process.                                     *)

Tick ==
  /\ now < MaxTime
  /\ now' = now + 1
  /\ excused' = excused \cup
       {key[r] : r \in {q \in Attempts :
          InFlight(q) /\ key[q] \in Keys /\ now' - began[q] > Timeout}}
  /\ UNCHANGED <<store, clients>>

\* The store is in memory.
Restart ==
  /\ \E r \in Attempts : InFlight(r)
  /\ store' = [k \in Keys |-> None]
  /\ phase' = [r \in Attempts |-> IF InFlight(r) THEN "failed" ELSE phase[r]]
  /\ excused' = Keys
  /\ UNCHANGED <<now, key, began, ended, status, reply>>

Dispatch(r) ==
  \/ PassThrough(r)
  \/ \E k \in Keys : Begin(r, k) \/ Replay(r, k) \/ Refuse(r, k)
  \/ \E s \in Statuses \ {"none"} : Respond(r, s)
  \/ Raise(r)
  \/ Conclude(r)

IdemNext == (\E r \in Attempts : Dispatch(r)) \/ Tick \/ Restart

IdemSpec == IdemInit /\ [][IdemNext]_idemVars

-----------------------------------------------------------------------------
(* Correctness.                                                            *)

IdemTypeOK ==
  /\ store \in [Keys -> Entries \cup {None}]
  /\ now \in Nat
  /\ phase \in [Attempts -> Phases]
  /\ key \in [Attempts -> Keys \cup {None}]
  /\ began \in [Attempts -> Nat]
  /\ ended \in [Attempts -> Nat]
  /\ status \in [Attempts -> Statuses]
  /\ reply \in [Attempts -> Attempts \cup {None}]
  /\ excused \subseteq Keys

\* Two attempts with one key are never inside the handler together, as long as
\* none of them ran longer than the timeout of the markers and the process
\* lived: the marker of an attempt is there until that attempt is over.
SingleFlight ==
  \A r, q \in Attempts :
    /\ InFlight(r) /\ InFlight(q)
    /\ key[r] = key[q] /\ key[r] \in Keys \ excused
    => r = q

\* At-most-once execution: of two attempts with one key that both ran and
\* whose responses were worth storing, one began after the response of the
\* other had expired.
AtMostOnce ==
  \A r, q \in Attempts :
    /\ r # q
    /\ Succeeded(r) /\ Succeeded(q)
    /\ key[r] = key[q] /\ key[r] \in Keys \ excused
    => began[r] > ended[q] + Ttl \/ began[q] > ended[r] + Ttl

\* A 409 always means that an attempt is running: a marker whose attempt is
\* over would make the client wait for nobody, until the timeout.
NoOrphanMarker ==
  \A k \in Keys \ excused :
    store[k] # None /\ store[k].in_progress =>
      \E r \in Attempts : InFlight(r) /\ key[r] = k

\* A client is never answered with the response to another key, or with one
\* that is not stored.
ReplaysItsOwn ==
  \A r \in Attempts :
    phase[r] = "replayed" =>
      Succeeded(reply[r]) /\ key[reply[r]] = key[r]
=============================================================================
