------------------------------ MODULE FifoPipe ------------------------------
(***************************************************************************)
(* What the send half of a Session promises the code that calls Send, with *)
(* no threads, locks or completions in it: a pipe to one peer that keeps   *)
(* the order of the messages and that loses one only if the connection is  *)
(* about to be torn down.                                                  *)
(***************************************************************************)
EXTENDS Naturals, Sequences

VARIABLES accepted,  \* number of messages accepted so far; message k is k
          pending,   \* accepted and not yet handed to the network, in order
          wire,      \* handed to the network on the current connection
          open,      \* the connection is up
          doomed     \* the connection is up and will not stay up

vars == <<accepted, pending, wire, open, doomed>>

Init == /\ accepted = 0
        /\ pending = <<>>
        /\ wire = <<>>
        /\ open = TRUE
        /\ doomed = FALSE

\* A caller hands over the next message.
Accept == /\ accepted' = accepted + 1
          /\ pending' = Append(pending, accepted')
          /\ UNCHANGED <<wire, open, doomed>>

\* The oldest pending message goes out.
Transmit == /\ pending # <<>>
            /\ wire' = Append(wire, Head(pending))
            /\ pending' = Tail(pending)
            /\ UNCHANGED <<accepted, open, doomed>>

\* The oldest pending message is lost: only together with the connection.
Lose == /\ pending # <<>>
        /\ pending' = Tail(pending)
        /\ doomed' = open
        /\ UNCHANGED <<accepted, wire, open>>

\* Somebody has decided to disconnect.
Doom == /\ open
        /\ doomed' = TRUE
        /\ UNCHANGED <<accepted, pending, wire, open>>

Close == /\ doomed
         /\ open' = FALSE
         /\ doomed' = FALSE
         /\ UNCHANGED <<accepted, pending, wire>>

\* The session object is recycled; a message already on its way out of the
\* queue is the only one that may survive it.
Discard == /\ ~open
           /\ pending # <<>>
           /\ pending' \in {<<>>, <<Head(pending)>>}
           /\ UNCHANGED <<accepted, wire, open, doomed>>

\* The session object serves its next connection.
Open == /\ ~open
        /\ Len(pending) <= 1
        /\ wire' = <<>>
        /\ open' = TRUE
        /\ doomed' \in BOOLEAN
        /\ UNCHANGED <<accepted, pending>>

Next == \/ Accept \/ Transmit \/ Lose \/ Doom \/ Close \/ Discard \/ Open

Spec == Init /\ [][Next]_vars
=============================================================================
