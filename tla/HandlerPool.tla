---------------------------- MODULE HandlerPool ----------------------------
(***************************************************************************)
(* What the PacketProcessor promises the sessions, with no threads, locks  *)
(* or wake-ups in it: who has won a session may queue it once; the queue   *)
(* is served in its order, by at most as many handlers as there are        *)
(* workers and each session by one at a time; and a session is dropped     *)
(* only when the server stops.                                             *)
(***************************************************************************)
EXTENDS Naturals, Sequences, FiniteSets

CONSTANTS Workers, Sessions

VARIABLES due,     \* sessions won and not yet queued
          order,   \* sessions to be served, the next one first
          serving, \* sessions whose handlers run
          lost,    \* sessions that stopping has thrown out of the queue
          open     \* nobody has begun to stop the server

vars == <<due, order, serving, lost, open>>

Queued == {order[i] : i \in 1..Len(order)}

Init == /\ due = {}
        /\ order = <<>>
        /\ serving = {}
        /\ lost = {}
        /\ open = TRUE

\* A packet of s is complete and nobody has s.
Win(s) == /\ s \notin due \cup Queued \cup serving \cup lost
          /\ due' = due \cup {s}
          /\ UNCHANGED <<order, serving, lost, open>>

Queue(s) == /\ s \in due
            /\ due' = due \ {s}
            /\ order' = Append(order, s)
            /\ UNCHANGED <<serving, lost, open>>

\* A free handler serves the session that has waited longest.
Serve == /\ order # <<>>
         /\ Cardinality(serving) < Cardinality(Workers)
         /\ serving' = serving \cup {Head(order)}
         /\ order' = Tail(order)
         /\ UNCHANGED <<due, lost, open>>

Finish(s) == /\ s \in serving
             /\ serving' = serving \ {s}
             /\ UNCHANGED <<due, order, lost, open>>

Close == /\ open
         /\ open' = FALSE
         /\ UNCHANGED <<due, order, serving, lost>>

Drop == /\ ~open
        /\ lost' = lost \cup Queued
        /\ order' = <<>>
        /\ UNCHANGED <<due, serving, open>>

Next == \/ \E s \in Sessions : Win(s) \/ Queue(s) \/ Finish(s)
        \/ Serve \/ Close \/ Drop

Spec == Init /\ [][Next]_vars
=============================================================================
