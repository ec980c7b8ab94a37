----------------------------- MODULE SendQueue -----------------------------
(***************************************************************************)
(* The send half of one Session object (ServerCore/Session.cpp): Send,     *)
(* RegisterSend, ProcessSend and Disconnect run by many threads at once,   *)
(* and the life of the object in its ObjectPool: Reset by the deleter of   *)
(* the last shared_ptr, and reuse for the next connection.                 *)
(*                                                                         *)
(* Senders are threads inside a handler: they own a shared_ptr to the      *)
(* session while they use it.  Workers are IOCP threads inside             *)
(* ProcessSend: IocpCore::Dispatch gave them the raw completion key, so    *)
(* once `delete sendEvent' has dropped the event's owner they own nothing. *)
(*                                                                         *)
(* A message is its position in the order of pushes.  One action is one    *)
(* lock region, one access to an atomic, or one Winsock call.              *)
(***************************************************************************)
EXTENDS Naturals, Sequences, FiniteSets

CONSTANTS Senders,     \* threads that call Send and Disconnect
          Workers,     \* IOCP worker threads
          MaxMsgs,     \* bound: messages pushed in a behaviour
          MaxConns     \* bound: connections the object serves

ASSUME ThreadsAssumption == Senders \cap Workers = {}
ASSUME BoundsAssumption == MaxMsgs \in Nat /\ MaxConns \in Nat

Threads == Senders \cup Workers

VARIABLES sendQueue,    \* std::queue of Session, front first
          isSending,    \* std::atomic<bool>
          isConnected,  \* std::atomic<bool>
          socket,       \* socket # INVALID_SOCKET
          posted,       \* messages of the SendEvents the kernel holds
          wire,         \* messages given to WSASend with success, per connection
          pc,           \* where each thread is
          sendData,     \* the local variable of RegisterSend, 0 when empty
          next,         \* messages pushed so far
          conn,         \* connections served so far
          held          \* recvEvent.owner, activeSessions or the packet queue
                        \* hold a shared_ptr

vars == <<sendQueue, isSending, isConnected, socket, posted, wire, pc,
          sendData, next, conn, held>>

\* idle      outside of the session
\* push      in Send, past the isConnected check
\* exchange  at the entry of RegisterSend
\* pop       isSending taken, before the lock region
\* post      sendData filled, before shared_from_this and WSASend
\* fail      WSASend failed and the event is deleted
\* disc      at the entry of Disconnect
\* close     in Disconnect, having found isConnected true
\* check     in ProcessSend, the event is deleted
\* clear     in ProcessSend, the queue was not empty
\* return    a Sender about to drop its shared_ptr
\* dead      std::terminate has ended the process
Labels == {"idle", "push", "exchange", "pop", "post", "fail", "disc",
           "close", "check", "clear", "return", "dead"}

\* A message is its position in the order of pushes; 0 is no message.
Message == Nat \ {0}

\* The types of the session's fields and of the threads' locals; sendData
\* holds a message exactly between the pop and WSASend.
TypeOK == /\ sendQueue \in Seq(Message)
          /\ isSending \in BOOLEAN
          /\ isConnected \in BOOLEAN
          /\ socket \in BOOLEAN
          /\ posted \in SUBSET Message
          /\ wire \in Seq(Message)
          /\ pc \in [Threads -> Labels]
          /\ sendData \in [Threads -> Nat]
          /\ \A t \in Threads : (pc[t] = "post") = (sendData[t] # 0)
          /\ next \in Nat
          /\ conn \in Nat
          /\ held \in BOOLEAN

At(t, label) == pc[t] = label
Goto(t, label) == pc' = [pc EXCEPT ![t] = label]

Alive == \A t \in Threads : pc[t] # "dead"

\* Some shared_ptr to the session exists: it is not in the pool.
Referenced == \/ held
              \/ posted # {}
              \/ \E s \in Senders : pc[s] # "idle"

\* Where a thread goes when the outermost call on the session returns.
Done(t) == IF t \in Senders THEN "return" ELSE "idle"

Init == /\ sendQueue = <<>>
        /\ isSending = FALSE
        /\ isConnected = TRUE
        /\ socket = TRUE
        /\ posted = {}
        /\ wire = <<>>
        /\ pc = [t \in Threads |-> "idle"]
        /\ sendData = [t \in Threads |-> 0]
        /\ next = 0
        /\ conn = 1
        /\ held = TRUE

-----------------------------------------------------------------------------
\* Session::Send, by a thread that has just obtained a shared_ptr.
Pushing == {s \in Senders : pc[s] = "push"}

Send(s) == /\ At(s, "idle")
           /\ Referenced
           /\ isConnected
           /\ next + Cardinality(Pushing) < MaxMsgs
           /\ Goto(s, "push")
           /\ UNCHANGED <<sendQueue, isSending, isConnected, socket, posted,
                          wire, sendData, next, conn, held>>

\* The lock region of Send.
Push(s) == /\ At(s, "push")
           /\ next' = next + 1
           /\ sendQueue' = Append(sendQueue, next')
           /\ Goto(s, "exchange")
           /\ UNCHANGED <<isSending, isConnected, socket, posted, wire,
                          sendData, conn, held>>

\* Mutant of Exchange: the old value of isSending is not looked at.
ExchangeBlindly(t) == /\ At(t, "exchange")
                      /\ isSending' = TRUE
                      /\ Goto(t, "pop")
                      /\ UNCHANGED <<sendQueue, isConnected, socket, posted,
                                     wire, sendData, next, conn, held>>

\* RegisterSend: isSending.exchange(true), and return if it was set.
Exchange(t) == /\ At(t, "exchange")
               /\ isSending' = TRUE
               /\ Goto(t, IF isSending THEN Done(t) ELSE "pop")
               /\ UNCHANGED <<sendQueue, isConnected, socket, posted, wire,
                              sendData, next, conn, held>>

\* Mutant of PopEmpty: returns with isSending set.
PopEmptyKeepsFlag(t) == /\ At(t, "pop")
                        /\ sendQueue = <<>>
                        /\ Goto(t, Done(t))
                        /\ UNCHANGED <<sendQueue, isSending, isConnected, socket,
                                       posted, wire, sendData, next, conn, held>>

\* RegisterSend: the lock region, which gives isSending back if the queue is
\* empty.
PopEmpty(t) == /\ At(t, "pop")
               /\ sendQueue = <<>>
               /\ isSending' = FALSE
               /\ Goto(t, Done(t))
               /\ UNCHANGED <<sendQueue, isConnected, socket, posted, wire,
                              sendData, next, conn, held>>

\* Mutant of PopFront: front() without pop().
PopFrontCopies(t) == /\ At(t, "pop")
                     /\ sendQueue # <<>>
                     /\ sendData' = [sendData EXCEPT ![t] = Head(sendQueue)]
                     /\ Goto(t, "post")
                     /\ UNCHANGED <<sendQueue, isSending, isConnected, socket,
                                    posted, wire, next, conn, held>>

PopFront(t) == /\ At(t, "pop")
               /\ sendQueue # <<>>
               /\ sendData' = [sendData EXCEPT ![t] = Head(sendQueue)]
               /\ sendQueue' = Tail(sendQueue)
               /\ Goto(t, "post")
               /\ UNCHANGED <<isSending, isConnected, socket, posted, wire,
                              next, conn, held>>

\* RegisterSend: shared_from_this succeeds and WSASend takes the buffer.
PostAccepted(t) == /\ At(t, "post")
                   /\ Referenced
                   /\ socket
                   /\ posted' = posted \cup {sendData[t]}
                   /\ wire' = Append(wire, sendData[t])
                   /\ sendData' = [sendData EXCEPT ![t] = 0]
                   /\ Goto(t, Done(t))
                   /\ UNCHANGED <<sendQueue, isSending, isConnected, socket,
                                  next, conn, held>>

\* RegisterSend: WSASend fails, because the socket is closed or for want of
\* resources; the event and the message in it are deleted.
PostRejected(t) == /\ At(t, "post")
                   /\ Referenced
                   /\ sendData' = [sendData EXCEPT ![t] = 0]
                   /\ Goto(t, "fail")
                   /\ UNCHANGED <<sendQueue, isSending, isConnected, socket,
                                  posted, wire, next, conn, held>>

\* RegisterSend: shared_from_this on an object in the pool throws
\* bad_weak_ptr; nothing catches it on an IOCP thread.
PostExpired(t) == /\ At(t, "post")
                  /\ ~Referenced
                  /\ pc' = [u \in Threads |-> "dead"]
                  /\ sendData' = [u \in Threads |-> 0]
                  /\ UNCHANGED <<sendQueue, isSending, isConnected, socket,
                                 posted, wire, next, conn, held>>

\* Mutant of Fail: a failed WSASend does not disconnect.
FailStaysOpen(t) == /\ At(t, "fail")
                    /\ isSending' = FALSE
                    /\ Goto(t, Done(t))
                    /\ UNCHANGED <<sendQueue, isConnected, socket, posted,
                                   wire, sendData, next, conn, held>>

Fail(t) == /\ At(t, "fail")
           /\ isSending' = FALSE
           /\ Goto(t, "disc")
           /\ UNCHANGED <<sendQueue, isConnected, socket, posted, wire,
                          sendData, next, conn, held>>

-----------------------------------------------------------------------------
\* Session::Disconnect is called from a handler, from End, or from the
\* completion of a recv, which recvEvent.owner keeps alive.
StartDisconnect(t) == /\ At(t, "idle")
                      /\ t \in Senders => Referenced
                      /\ t \in Workers => held
                      /\ isConnected
                      /\ Goto(t, "disc")
                      /\ UNCHANGED <<sendQueue, isSending, isConnected,
                                     socket, posted, wire, sendData, next,
                                     conn, held>>

\* Disconnect: isConnected.exchange(false).
Disc(t) == /\ At(t, "disc")
           /\ isConnected' = FALSE
           /\ Goto(t, IF isConnected THEN "close" ELSE Done(t))
           /\ UNCHANGED <<sendQueue, isSending, socket, posted, wire,
                          sendData, next, conn, held>>

\* Disconnect: closesocket and socket = INVALID_SOCKET.
Close(t) == /\ At(t, "close")
            /\ socket' = FALSE
            /\ Goto(t, Done(t))
            /\ UNCHANGED <<sendQueue, isSending, isConnected, posted, wire,
                           sendData, next, conn, held>>

-----------------------------------------------------------------------------
\* Mutant of ResetIf: sendQueue is not emptied.
ResetKeepsQueue(last) == /\ sendQueue' = sendQueue
                         /\ socket' = (socket /\ ~last)
                         /\ isConnected' = (isConnected /\ ~last)

\* Session::Reset as run by the deleter when `last' says that the shared_ptr
\* dropped in this step was the last one.  isSending is not among the fields
\* it assigns.
ResetIf(last) == /\ sendQueue' = IF last THEN <<>> ELSE sendQueue
                 /\ socket' = (socket /\ ~last)
                 /\ isConnected' = (isConnected /\ ~last)

\* ProcessSend: `delete sendEvent' drops the event's owner.
ProcessSend(w) ==
    \E m \in posted :
        /\ At(w, "idle")
        /\ posted' = posted \ {m}
        /\ ResetIf(/\ ~held
                   /\ posted' = {}
                   /\ \A s \in Senders : pc[s] = "idle")
        /\ Goto(w, "check")
        /\ UNCHANGED <<isSending, wire, sendData, next, conn, held>>

\* ProcessSend: the lock region.
CheckEmpty(w) == /\ At(w, "check")
                 /\ sendQueue = <<>>
                 /\ isSending' = FALSE
                 /\ Goto(w, "idle")
                 /\ UNCHANGED <<sendQueue, isConnected, socket, posted, wire,
                                sendData, next, conn, held>>

CheckMore(w) == /\ At(w, "check")
                /\ sendQueue # <<>>
                /\ Goto(w, "clear")
                /\ UNCHANGED <<sendQueue, isSending, isConnected, socket,
                               posted, wire, sendData, next, conn, held>>

\* Mutant of Clear: no call of RegisterSend.
ClearOnly(w) == /\ At(w, "clear")
                /\ isSending' = FALSE
                /\ Goto(w, "idle")
                /\ UNCHANGED <<sendQueue, isConnected, socket, posted, wire,
                               sendData, next, conn, held>>

\* ProcessSend: isSending = false and on to RegisterSend.
Clear(w) == /\ At(w, "clear")
            /\ isSending' = FALSE
            /\ Goto(w, "exchange")
            /\ UNCHANGED <<sendQueue, isConnected, socket, posted, wire,
                           sendData, next, conn, held>>

-----------------------------------------------------------------------------
\* A handler ends and its shared_ptr goes out of scope.
Return(s) == /\ At(s, "return")
             /\ ResetIf(/\ ~held
                        /\ posted = {}
                        /\ \A u \in Senders \ {s} : pc[u] = "idle")
             /\ Goto(s, "idle")
             /\ UNCHANGED <<isSending, posted, wire, sendData, next, conn, held>>

\* Some thread's TryRelease erases the session from activeSessions and drops
\* recvEvent.owner.
Detach == /\ Alive
          /\ held
          /\ ~isConnected
          /\ held' = FALSE
          /\ ResetIf(/\ posted = {}
                     /\ \A s \in Senders : pc[s] = "idle")
          /\ UNCHANGED <<isSending, posted, wire, pc, sendData, next, conn>>

\* ObjectPool::Acquire hands the object out again, CreateSocket gives it a
\* socket and the new connection is activated.
Reuse == /\ Alive
         /\ ~Referenced
         /\ conn < MaxConns
         /\ conn' = conn + 1
         /\ socket' = TRUE
         /\ isConnected' = TRUE
         /\ held' = TRUE
         /\ wire' = <<>>
         /\ UNCHANGED <<sendQueue, isSending, posted, pc, sendData, next>>

RegisterSend(t) == \/ Exchange(t) \/ PopEmpty(t) \/ PopFront(t)
                   \/ PostAccepted(t) \/ PostRejected(t) \/ PostExpired(t)
                   \/ Fail(t)

Disconnect(t) == Disc(t) \/ Close(t)

SenderStep(s) == Push(s) \/ Return(s)

WorkerStep(w) == ProcessSend(w) \/ CheckEmpty(w) \/ CheckMore(w) \/ Clear(w)

Next == \/ \E s \in Senders : Send(s) \/ SenderStep(s)
        \/ \E w \in Workers : WorkerStep(w)
        \/ \E t \in Threads : RegisterSend(t) \/ Disconnect(t) \/ StartDisconnect(t)
        \/ Detach
        \/ Reuse

Spec == Init /\ [][Next]_vars

\* The operating system runs every thread that can run, the kernel completes
\* every WSASend and an idle worker takes the completion, and the recv of a
\* closed socket completes, which releases the session.
Fairness == /\ \A s \in Senders : WF_vars(SenderStep(s))
            /\ \A w \in Workers : WF_vars(WorkerStep(w))
            /\ \A t \in Threads : WF_vars(RegisterSend(t) \/ Disconnect(t))
            /\ WF_vars(Detach)

FairSpec == Spec /\ Fairness

-----------------------------------------------------------------------------
\* A thread that has won isSending and must give it back or leave it to the
\* completion of a WSASend.
Token(t) == pc[t] \in {"pop", "post", "fail", "check", "clear"}

\* At most one WSASend of a session is outstanding, and while one is, no
\* thread is on its way to another: what isSending is for, also across
\* Disconnect, Reset and reuse, none of which touches it.
OneInFlight == /\ \A m, n \in posted : m = n
               /\ \A t, u \in Threads : Token(t) /\ Token(u) => t = u
               /\ posted # {} => \A t \in Threads : ~Token(t)

\* The elements of s go up.
Increasing(s) == \A i, j \in 1..Len(s) : i < j => s[i] < s[j]

\* WSASend is called in the order of the pushes, and never twice for one
\* message, whichever threads call it.
WireOrdered == Increasing(wire)

\* isSending is set exactly while some thread, or the completion of a WSASend,
\* is bound to clear it.
SendingClaimed ==
    /\ posted # {} \/ (\E t \in Threads : Token(t)) => isSending
    /\ Alive /\ isSending => posted # {} \/ \E t \in Threads : Token(t)

\* What is on the wire was pushed before what a thread carries, and that
\* before what is in the queue.
PushOrder ==
    /\ Increasing(sendQueue)
    /\ \A i \in 1..Len(wire) : wire[i] \in 1..next
    /\ \A j \in 1..Len(sendQueue) : sendQueue[j] \in 1..next
    /\ \A i \in 1..Len(wire), j \in 1..Len(sendQueue) : wire[i] < sendQueue[j]
    /\ \A t \in Threads : pc[t] = "post" =>
          /\ sendData[t] \in 1..next
          /\ \A i \in 1..Len(wire) : wire[i] < sendData[t]
          /\ \A j \in 1..Len(sendQueue) : sendData[t] < sendQueue[j]

\* A session that is not connected any more may be referenced; one that is in
\* the pool is not connected and has an empty queue.  (TypeOK gives the types.)
EmptyInPool == /\ isConnected => held
               /\ Alive /\ ~Referenced => sendQueue = <<>>
PooledEmpty == TypeOK /\ EmptyInPool

\* No lost wake-up: as long as the session is connected, a message in the
\* queue has somebody who will look at the queue again or disconnect.
NoStranded ==
    Alive /\ isConnected /\ sendQueue # <<>> =>
        \/ posted # {}
        \/ \E t \in Threads : Token(t) \/ pc[t] \in {"exchange", "disc"}

InQueue(m) == \E i \in 1..Len(sendQueue) : sendQueue[i] = m
OnWire(m) == \E i \in 1..Len(wire) : wire[i] = m

\* Every message that is pushed is handed to WSASend unless the session gets
\* disconnected.
Delivered == \A m \in 1..MaxMsgs : InQueue(m) ~> OnWire(m) \/ ~isConnected

\* The message a thread carries from the queue to WSASend, then the queue.
Carrying == {t \in Threads : pc[t] = "post"}

Pending == IF Carrying = {}
           THEN sendQueue
           ELSE <<sendData[CHOOSE t \in Carrying : TRUE]>> \o sendQueue

Pipe == INSTANCE FifoPipe
        WITH accepted <- next,
             pending  <- Pending,
             wire     <- wire,
             open     <- isConnected,
             doomed   <- isConnected /\ \E t \in Threads : pc[t] \in {"fail", "disc"}

\* The send half implements a pipe that keeps order and that drops a message
\* only when a disconnect is under way.
PipeSpec == Pipe!Spec
=============================================================================
