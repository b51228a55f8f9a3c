------------------------------- MODULE Events -------------------------------
(***************************************************************************)
(* The event bus of event_bus.py, its publishers and the streams of sse.py.*)
(*                                                                         *)
(* A handler that publishes does so without giving way to another: the     *)
(* lock of the bus is never contended.  Handlers of bounties only create   *)
(* a task that publishes later; so does the signal handler, for shutdown.  *)
(* A stream is cut at its awaits: whether the client is still there, the   *)
(* wait for its queue with a timeout, and the sending.                     *)
(*                                                                         *)
(* An event is its id and its market; the publishers other than the ones   *)
(* below (create_market, sell_shares, resolutions) publish as Comment      *)
(* does, one event of one market.                                          *)
(***************************************************************************)
EXTENDS RateLimiter, Sequences

CONSTANTS
  Users,        \* who chats and bets
  Markets,
  Streams,      \* connections to /events/markets
  None,         \* no market: of an event, all; of a stream, no filter
  Capacity,     \* maxsize of a subscriber's queue
  MaxEvents,    \* bound: events published
  MaxShutdowns  \* bound: calls of shutdown

ASSUME EventsAssumption ==
  /\ None \notin Markets
  /\ Capacity \in Nat \ {0}
  /\ Callers = {"chat", "bet"} \X Users

VARIABLES
  subscribers, queue, filter, \* the bus
  tasks,     \* publications that wait to be run
  pc,        \* where each stream is
  connected, \* its client is there
  log,       \* history: the events published; an event's place is its id
  since,     \* history: how many there were when a stream subscribed
  received,  \* history: the events sent to each client
  told,      \* history: the streams whose queue got the sentinel
  shutdowns

busVars == <<subscribers, queue, filter, pc, connected, since, received, told,
             shutdowns>>
vars == <<limiterVars, tasks, log, busVars>>

Sentinel == [id |-> 0, market |-> None]

Init ==
  /\ LimiterInit
  /\ subscribers = {}
  /\ queue  = [s \in Streams |-> <<>>]
  /\ filter = [s \in Streams |-> None]
  /\ tasks  = <<>>
  /\ pc     = [s \in Streams |-> "new"]
  /\ connected = [s \in Streams |-> TRUE]
  /\ log = <<>>
  /\ since = [s \in Streams |-> 0]
  /\ received = [s \in Streams |-> <<>>]
  /\ told = {}
  /\ shutdowns = 0

-----------------------------------------------------------------------------
(* Publishing.                                                             *)

\* An event of market m passes the filter f.
Matches(m, f) == f = None \/ m = None \/ m = f

Event(i, m) == [id |-> i, market |-> m]

Bus == [subscribers |-> subscribers, queue |-> queue]

\* Bug form: a subscriber that misses an event keeps its place.
BugDropped(bus, e) == {}

\* The subscribers whose queue has no room for an event that they want.
Dropped(bus, e) ==
  {s \in bus.subscribers :
     Matches(e.market, filter[s]) /\ Len(bus.queue[s]) >= Capacity}

\* publish: the others get it.
Published(bus, e) ==
  [subscribers |-> bus.subscribers \ Dropped(bus, e),
   queue |-> [s \in Streams |->
     IF /\ s \in bus.subscribers /\ Matches(e.market, filter[s])
        /\ Len(bus.queue[s]) < Capacity
     THEN Append(bus.queue[s], e) ELSE bus.queue[s]]]

Logs(events, bus) ==
  /\ Len(log) + Len(events) <= MaxEvents
  /\ log' = log \o events
  /\ subscribers' = bus.subscribers
  /\ queue' = bus.queue
  /\ UNCHANGED <<filter, pc, connected, since, received, told, shutdowns>>

Publish(m) ==
  LET e == Event(Len(log) + 1, m) IN Logs(<<e>>, Published(Bus, e))

\* Two events, one after the other.
PublishTwo(m) ==
  LET e == Event(Len(log) + 1, m)
      f == Event(Len(log) + 2, m) IN
  Logs(<<e, f>>, Published(Published(Bus, e), f))

\* send_chat_message: a rate limit, the message, an event of no market.
Chat(u) ==
  \/ Allow(<<"chat", u>>) /\ Publish(None) /\ UNCHANGED tasks
  \/ Refuse(<<"chat", u>>) /\ UNCHANGED <<tasks, log, busVars>>

\* place_bet is limited before it looks at the market or the balance, and
\* publishes the bet and the market; in between it reads the market again.
Bet(u, m) ==
  \/ /\ Allow(<<"bet", u>>)
     /\ \/ UNCHANGED <<log, busVars>>
        \/ Publish(m)
        \/ PublishTwo(m)
     /\ UNCHANGED tasks
  \/ Refuse(<<"bet", u>>) /\ UNCHANGED <<tasks, log, busVars>>

Comment(m) ==
  /\ Publish(m)
  /\ UNCHANGED <<limiterVars, tasks>>

\* The handlers of bounties leave the publication to a task.
BountyStep ==
  /\ Len(log) + Len(tasks) < MaxEvents
  /\ tasks' = Append(tasks, None)
  /\ UNCHANGED <<limiterVars, log, busVars>>

RunTask ==
  /\ tasks # <<>>
  /\ Publish(Head(tasks))
  /\ tasks' = Tail(tasks)
  /\ UNCHANGED limiterVars

\* Bug form: the sentinel goes to the streams that wait.
BugReached == {s \in subscribers : queue[s] = <<>> /\ pc[s] = "waiting"}

\* The streams whose queue has room for the sentinel; the others go without.
Reached == {s \in subscribers : Len(queue[s]) < Capacity}

Shutdown ==
  /\ shutdowns < MaxShutdowns
  /\ shutdowns' = shutdowns + 1
  /\ queue' = [s \in Streams |->
       IF s \in Reached THEN Append(queue[s], Sentinel) ELSE queue[s]]
  /\ told' = told \cup {s \in subscribers : Len(queue[s]) < Capacity}
  /\ UNCHANGED <<limiterVars, tasks, log, subscribers, filter, pc, connected,
                 since, received>>

-----------------------------------------------------------------------------
(* The streams.                                                            *)

StreamStep ==
  UNCHANGED <<limiterVars, tasks, log, filter, connected, since, told, shutdowns>>

Subscribe(s, m) ==
  /\ pc[s] = "new"
  /\ pc' = [pc EXCEPT ![s] = "looping"]
  /\ subscribers' = subscribers \cup {s}
  /\ filter' = [filter EXCEPT ![s] = m]
  /\ since' = [since EXCEPT ![s] = Len(log)]
  /\ UNCHANGED <<limiterVars, tasks, log, queue, connected, received, told,
                 shutdowns>>

Ends(s) ==
  /\ pc' = [pc EXCEPT ![s] = "ended"]
  /\ subscribers' = subscribers \ {s}

\* request.is_disconnected
Loop(s) ==
  /\ pc[s] = "looping"
  /\ IF connected[s]
     THEN pc' = [pc EXCEPT ![s] = "waiting"] /\ UNCHANGED subscribers
     ELSE Ends(s)
  /\ UNCHANGED <<queue, received>>
  /\ StreamStep

\* The event is sent, or the sentinel ends the stream.
Take(s) ==
  /\ pc[s] = "waiting"
  /\ queue[s] # <<>>
  /\ queue' = [queue EXCEPT ![s] = Tail(@)]
  /\ IF Head(queue[s]) = Sentinel
     THEN Ends(s) /\ UNCHANGED received
     ELSE /\ pc' = [pc EXCEPT ![s] = "looping"]
          /\ received' = [received EXCEPT ![s] = Append(@, Head(queue[s]))]
          /\ UNCHANGED subscribers
  /\ StreamStep

\* Bug form: after a keepalive the stream goes on waiting.
BugKeepalive(s) ==
  /\ pc[s] = "waiting"
  /\ queue[s] = <<>>
  /\ UNCHANGED <<pc, queue, received, subscribers>>
  /\ StreamStep

\* The wait times out.
Keepalive(s) ==
  /\ pc[s] = "waiting"
  /\ queue[s] = <<>>
  /\ pc' = [pc EXCEPT ![s] = "looping"]
  /\ UNCHANGED <<queue, received, subscribers>>
  /\ StreamStep

Disconnect(s) ==
  /\ pc[s] # "new" /\ connected[s]
  /\ connected' = [connected EXCEPT ![s] = FALSE]
  /\ UNCHANGED <<limiterVars, tasks, log, subscribers, queue, filter, pc, since,
                 received, told, shutdowns>>

Advance == Tick /\ UNCHANGED <<tasks, log, busVars>>

StreamNext(s) == Loop(s) \/ Take(s) \/ Keepalive(s)

Next ==
  \/ \E u \in Users : Chat(u) \/ \E m \in Markets : Bet(u, m)
  \/ \E m \in Markets : Comment(m)
  \/ BountyStep \/ RunTask \/ Shutdown \/ Advance
  \/ \E s \in Streams :
       \/ \E m \in Markets \cup {None} : Subscribe(s, m)
       \/ StreamNext(s) \/ Disconnect(s)

\* The event loop runs every task that is ready, timers fire, and sending to a
\* client that has not gone ends.  Nothing makes clients or handlers act.
Fairness ==
  /\ \A s \in Streams : WF_vars(StreamNext(s))
  /\ WF_vars(RunTask)

Spec == Init /\ [][Next]_vars /\ Fairness

-----------------------------------------------------------------------------
(* Correctness.                                                            *)

TypeOK ==
  /\ LimiterTypeOK
  /\ subscribers \subseteq {s \in Streams : pc[s] \in {"looping", "waiting"}}
  /\ \A s \in Streams : Len(queue[s]) <= Capacity
  /\ filter \in [Streams -> Markets \cup {None}]
  /\ pc \in [Streams -> {"new", "looping", "waiting", "ended"}]
  /\ told \subseteq Streams

\* What a stream is due: the events since it subscribed of no market or, if it
\* has a filter, of that one.
Due(s) ==
  {i \in (since[s] + 1)..Len(log) :
     filter[s] = None \/ log[i].market \in {None, filter[s]}}

\* Every client gets the events it is due, once each and in order.  What was
\* sent or waits to be are events it is due; those it will never get come after
\* all of these, and it has lost its place: a client may lose the end, never an
\* event in between, and a slow client never costs another one an event.
NoGaps ==
  \A s \in Streams : pc[s] # "new" =>
    LET sent   == received[s] \o queue[s]
        events == {i \in DOMAIN sent : sent[i] # Sentinel}
        ids    == {sent[i].id : i \in events} IN
    /\ \A i, j \in events : i < j => sent[i].id < sent[j].id
    /\ \A i \in events : sent[i].id \in Due(s) /\ sent[i] = log[sent[i].id]
    /\ \A d \in Due(s) \ ids : s \notin subscribers /\ \A i \in ids : i < d

\* After a shutdown every stream that had room for the sentinel ends.
ShutdownEnds == \A s \in Streams : s \in told ~> pc[s] = "ended"

\* A client that has gone does not leave its subscription behind.
NoLeak ==
  \A s \in Streams :
    pc[s] # "new" /\ ~connected[s] ~> s \notin subscribers /\ pc[s] = "ended"

\* What event_bus.py says of a subscriber whose queue is full: its connection is
\* dropped.
DroppedEnds ==
  \A s \in Streams :
    pc[s] # "new" /\ s \notin subscribers ~> pc[s] = "ended"
=============================================================================
