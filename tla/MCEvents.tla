------------------------------ MODULE MCEvents ------------------------------
(* Instances of Events for TLC: one poster, two streams with every pair of  *)
(* filters, and queues that two events fill.                                 *)
EXTENDS Events

CONSTANTS u1, m1, s1, s2

MCCallers == {"chat", "bet"} \X Users

\* One request in a window; the window of a bet is the longer one.
MCLimit  == [c \in MCCallers |-> 1]
MCWindow == [c \in MCCallers |-> IF c[1] = "chat" THEN 1 ELSE 2]

\* Input bounds.  Time, which only the limiter looks at, passes while there is
\* no stream; one stream does all there is to do; the second one is there to
\* see what a slow subscriber does to a fast one.
AtWork == {s \in Streams : pc[s] # "new"}
Bounds ==
  /\ AtWork # {} => now = 0
  /\ AtWork = Streams =>
       /\ shutdowns = 0 /\ tasks = <<>>
       /\ \A s \in Streams : since[s] = 0 /\ connected[s]
=============================================================================
