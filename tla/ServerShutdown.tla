--------------------------- MODULE ServerShutdown ---------------------------
(***************************************************************************)
(* A whole server from Start to End (GameServer/Server.cpp and its twin    *)
(* ChatServer/ChatServer.cpp): the accept chain of the Listener, the IOCP  *)
(* workers, the handlers of the PacketProcessor, the SessionManager, and   *)
(* the main thread that takes them down again.                             *)
(*                                                                         *)
(* Sessions are coarser here than in SessionLifecycle: Disconnect is the   *)
(* exchange of isConnected, the closing of the socket by the one that won  *)
(* it, and TryRelease, each a step of its own; an object is reset when it  *)
(* is acquired again.  A thread works off a list of labels; a call         *)
(* replaces its label by the labels of the callee's body.                  *)
(***************************************************************************)
EXTENDS Naturals, Sequences, FiniteSets

CONSTANTS Workers,     \* IOCP worker threads
          Handlers,    \* threads of the PacketProcessor
          Main,        \* the thread that calls Start and End
          Sessions,    \* the objects of the pool
          None,        \* no session
          MaxClients   \* bound: clients that connect

ASSUME RolesAssumption == /\ Workers \cap Handlers = {}
                          /\ Main \notin Workers \cup Handlers
ASSUME NoneAssumption == None \notin Sessions
ASSUME ClientsAssumption == MaxClients \in Nat

Threads == Workers \cup Handlers \cup {Main}

VARIABLES stage,         \* how far the main thread is
          running,       \* std::atomic<bool> of the server
          listening,     \* ListenSocket # INVALID_SOCKET
          processor,     \* the packetProcessor
          active,        \* activeSessions
          copy,          \* local `sessions' of End
          accept,        \* the AcceptEvent that holds a session
          isConnected,   \* per session, with disconnecting = ~isConnected
          open,          \* per session: its socket is not closed
          recvPendingCnt, \* per session
          recv,          \* the kernel has a WSARecv of the session
          queued,        \* sessions in the PacketProcessor
          todo,          \* labels each thread has yet to execute
          has,           \* the session a thread works on
          clients,       \* clients that have connected so far
          broken,        \* accepting went wrong while the server listened
          raced          \* a session was activated after End took its copy

server == <<stage, running, listening, processor, copy, clients>>
session == <<isConnected, open, recvPendingCnt, recv>>
history == <<broken, raced>>
vars == <<server, active, accept, session, queued, todo, has, history>>

\* The main thread: between Init and Start, serving, before the steps of End,
\* and after them; or the process has crashed.
Stages == {"ready", "serving", "close", "copy", "disconnect", "wait", "stop",
           "join handlers", "reset", "quit", "join workers", "drop", "ended",
           "crashed"}

\* The stages after the wait for the sessions.
PastWait == {"stop", "join handlers", "reset", "quit", "join workers", "drop",
             "ended"}

Labels == {"loop", "poll", "setopt", "activate", "check", "post", "accept",
           "uncount", "data", "find", "enqueue", "rearm", "hloop", "take",
           "handle", "disconnect", "close", "release"}

\* The types of the fields and locals.
TypeOK == /\ stage \in Stages
          /\ running \in BOOLEAN
          /\ listening \in BOOLEAN
          /\ processor \in {"up", "stopping", "null"}
          /\ active \subseteq Sessions /\ copy \subseteq Sessions
          /\ accept \in [Sessions -> {"none", "posted", "done", "failed"}]
          /\ isConnected \in [Sessions -> BOOLEAN]
          /\ open \in [Sessions -> BOOLEAN]
          /\ recvPendingCnt \in [Sessions -> 0..1]
          /\ recv \in [Sessions -> BOOLEAN]
          /\ queued \subseteq Sessions
          /\ todo \in [Threads -> Seq(Labels)]
          /\ has \in [Threads -> Sessions \cup {None}]
          /\ clients \in 0..MaxClients
          /\ broken \in BOOLEAN /\ raced \in BOOLEAN

At(t, label) == todo[t] # <<>> /\ Head(todo[t]) = label
Doing(t, labels) == \E i \in 1..Len(todo[t]) : todo[t][i] \in labels
Then(t, body) == todo' = [todo EXCEPT ![t] = body \o Tail(@)]

\* No shared_ptr to the session exists: it is in the pool.
Pooled(s) == /\ accept[s] = "none"
             /\ s \notin active \cup queued \cup copy
             /\ ~recv[s]
             /\ \A t \in Threads : has[t] # s

\* Listener::Init: the socket listens, and RegisterAccept has posted the first
\* AcceptEx.
ListenerInit ==
    /\ listening = TRUE
    /\ \E s \in Sessions :
          /\ accept = [u \in Sessions |-> IF u = s THEN "posted" ELSE "none"]
          /\ isConnected = [u \in Sessions |-> u = s]
          /\ open = isConnected

\* Init has run: the listener is up and the PacketProcessor has its threads.
Init == /\ stage = "ready"
        /\ running = FALSE
        /\ ListenerInit
        /\ processor = "up"
        /\ active = {} /\ copy = {} /\ queued = {}
        /\ recvPendingCnt = [s \in Sessions |-> 0]
        /\ recv = [s \in Sessions |-> FALSE]
        /\ todo = [t \in Threads |-> IF t \in Handlers THEN <<"hloop">> ELSE <<>>]
        /\ has = [t \in Threads |-> None]
        /\ clients = 0
        /\ broken = FALSE /\ raced = FALSE

-----------------------------------------------------------------------------
\* A client connects and AcceptEx completes.
ClientConnects == /\ clients < MaxClients
                  /\ clients' = clients + 1
                  /\ \E s \in Sessions :
                        /\ accept[s] = "posted"
                        /\ accept' = [accept EXCEPT ![s] = "done"]
                  /\ UNCHANGED <<stage, running, listening, processor, active,
                                 copy, session, queued, todo, has, history>>

-----------------------------------------------------------------------------
(* The IOCP workers                                                        *)

\* while (running), and the locals of the last round go out of scope.
Loop(w) == /\ At(w, "loop")
           /\ todo' = [todo EXCEPT ![w] = IF running THEN <<"poll", "loop">>
                                                     ELSE <<>>]
           /\ has' = [has EXCEPT ![w] = None]
           /\ UNCHANGED <<server, active, accept, session, queued, history>>

\* The completions that are certain: of AcceptEx, and of the recv of a socket
\* that is closed.
Accepted(s) == accept[s] \in {"done", "failed"}
Aborted(s) == recv[s] /\ ~open[s]

\* GetQueuedCompletionStatus times out.
Timeout(w) == /\ At(w, "poll")
              /\ \A s \in Sessions : ~Accepted(s) /\ ~Aborted(s)
              /\ Then(w, <<>>)
              /\ UNCHANGED <<server, active, accept, session, queued, has,
                             history>>

\* Mutants of AcceptBody: recv is registered before the session is activated,
\* and the next accept is not registered.
AcceptBodyLate == <<"setopt", "check", "activate", "accept">>
AcceptBodyOnce == <<"setopt", "activate", "check">>

AcceptBody == <<"setopt", "activate", "check", "accept">>

\* Dispatch to Listener::ProcessAccept.  An AcceptEx that was aborted fails
\* in setsockopt.
Dequeue(w) == /\ At(w, "poll")
              /\ \E s \in Sessions :
                    /\ Accepted(s)
                    /\ accept' = [accept EXCEPT ![s] = "none"]
                    /\ has' = [has EXCEPT ![w] = s]
                    /\ Then(w, IF accept[s] = "done" THEN AcceptBody ELSE <<>>)
              /\ UNCHANGED <<server, active, session, queued, history>>

\* Dispatch to PacketSession::ProcessRecv.
Complete(w) == /\ At(w, "poll")
               /\ \E s \in Sessions :
                     /\ recv[s]
                     /\ recv' = [recv EXCEPT ![s] = FALSE]
                     /\ has' = [has EXCEPT ![w] = s]
               /\ Then(w, <<"uncount", "data">>)
               /\ UNCHANGED <<server, active, accept, isConnected, open,
                              recvPendingCnt, queued, history>>

-----------------------------------------------------------------------------
(* Listener::ProcessAccept and RegisterAccept                              *)

\* setsockopt with ListenSocket; if it fails, the AcceptEvent is deleted and
\* nothing else is done.
SetOption(w) == /\ At(w, "setopt")
                /\ \/ /\ listening
                      /\ Then(w, <<>>)
                      /\ UNCHANGED <<isConnected, open, broken>>
                   \/ /\ isConnected' = [isConnected EXCEPT ![has[w]] = FALSE]
                      /\ open' = [open EXCEPT ![has[w]] = FALSE]
                      /\ broken' = (broken \/ listening)
                      /\ todo' = [todo EXCEPT ![w] = <<"loop">>]
                /\ UNCHANGED <<server, active, accept, recvPendingCnt, recv,
                               queued, has, raced>>

\* SessionManager::ActivateSession.
Activate(w) == /\ At(w, "activate")
               /\ active' = active \cup {has[w]}
               /\ raced' = (raced \/ stage \notin {"serving", "close", "copy"})
               /\ Then(w, <<>>)
               /\ UNCHANGED <<server, accept, session, queued, has, broken>>

\* AcquireSession, CreateSocket and AcceptEx; if that fails, the object goes
\* straight back to the pool.  (Bound: the pool makes a new object when it is
\* empty; here AcceptEx succeeds only for one of Sessions that is pooled.)
RegisterAccept(w) ==
    /\ At(w, "accept")
    /\ \/ \E s \in {u \in Sessions : Pooled(u)} :
             /\ listening
             /\ isConnected' = [isConnected EXCEPT ![s] = TRUE]
             /\ open' = [open EXCEPT ![s] = TRUE]
             /\ accept' = [accept EXCEPT ![s] = "posted"]
             /\ UNCHANGED broken
       \/ /\ broken' = (broken \/ listening)
          /\ UNCHANGED <<isConnected, open, accept>>
    /\ Then(w, <<>>)
    /\ UNCHANGED <<server, active, recvPendingCnt, recv, queued, has, raced>>

-----------------------------------------------------------------------------
(* PacketSession::ProcessRecv and Session::RegisterRecv                    *)

Uncount(w) == /\ At(w, "uncount")
              /\ recvPendingCnt' = [recvPendingCnt EXCEPT ![has[w]] = @ - 1]
              /\ Then(w, <<>>)
              /\ UNCHANGED <<server, active, accept, isConnected, open, recv,
                             queued, has, history>>

\* No data or no room for it ends the session; data, or the abort of the recv,
\* goes on.
Data(w) == /\ At(w, "data")
           /\ \E body \in {<<"disconnect", "release">>, <<"find", "rearm">>} :
                 Then(w, body)
           /\ UNCHANGED <<server, active, accept, session, queued, has, history>>

\* packetQueueProcessing.exchange and `if (packetProcessor)'.
Busy(s) == s \in queued \/ \E h \in Handlers : has[h] = s
Find(w) == /\ At(w, "find")
           /\ Then(w, IF processor # "null" /\ ~Busy(has[w]) THEN <<"enqueue">>
                                                             ELSE <<>>)
           /\ UNCHANGED <<server, active, accept, session, queued, has, history>>

\* PacketProcessor::Enqueue, by a worker or by a handler whose session has
\* another packet.  On the object that End has destroyed it may do anything.
Enqueue(t) == /\ At(t, "enqueue")
              /\ IF processor # "null"
                 THEN queued' = queued \cup {has[t]} /\ UNCHANGED stage
                 ELSE stage' \in {stage, "crashed"} /\ UNCHANGED queued
              /\ Then(t, <<>>)
              /\ UNCHANGED <<running, listening, processor, copy, clients,
                             active, accept, session, has, history>>

\* Mutant of Rearm: returns without TryRelease.
RearmOnly(w) == /\ At(w, "rearm")
                /\ Then(w, IF isConnected[has[w]] THEN <<"check">> ELSE <<>>)
                /\ UNCHANGED <<server, active, accept, session, queued, has,
                               history>>

Rearm(w) == /\ At(w, "rearm")
            /\ Then(w, IF isConnected[has[w]] THEN <<"check">> ELSE <<"release">>)
            /\ UNCHANGED <<server, active, accept, session, queued, has, history>>

\* RegisterRecv up to its first return.
Check(w) == /\ At(w, "check")
            /\ Then(w, IF isConnected[has[w]] THEN <<"post">> ELSE <<>>)
            /\ UNCHANGED <<server, active, accept, session, queued, has, history>>

\* recvPendingCnt and WSARecv, which fails on a socket that is closed.
Post(w) == /\ At(w, "post")
           /\ \/ /\ open[has[w]]
                 /\ recvPendingCnt' = [recvPendingCnt EXCEPT ![has[w]] = @ + 1]
                 /\ recv' = [recv EXCEPT ![has[w]] = TRUE]
                 /\ Then(w, <<>>)
              \/ /\ Then(w, <<"disconnect", "release">>)
                 /\ UNCHANGED <<recvPendingCnt, recv>>
           /\ UNCHANGED <<server, active, accept, isConnected, open, queued,
                          has, history>>

-----------------------------------------------------------------------------
(* Session::Disconnect and TryRelease, by any thread                       *)

\* Mutant of Disconnect: isConnected is read after it was cleared.
DisconnectBlindly(t) == /\ At(t, "disconnect")
                        /\ isConnected' = [isConnected EXCEPT ![has[t]] = FALSE]
                        /\ Then(t, <<>>)
                        /\ UNCHANGED <<server, active, accept, open,
                                       recvPendingCnt, recv, queued, has,
                                       history>>

\* isConnected.exchange(false) and disconnecting; the caller that found the
\* session connected closes it.
Disconnect(t) == /\ At(t, "disconnect")
                 /\ isConnected' = [isConnected EXCEPT ![has[t]] = FALSE]
                 /\ Then(t, IF isConnected[has[t]] THEN <<"close">> ELSE <<>>)
                 /\ UNCHANGED <<server, active, accept, open, recvPendingCnt,
                                recv, queued, has, history>>

\* shutdown and closesocket; a recv of the socket is aborted.
CloseSocket(t) == /\ At(t, "close")
                  /\ open' = [open EXCEPT ![has[t]] = FALSE]
                  /\ Then(t, <<>>)
                  /\ UNCHANGED <<server, active, accept, isConnected,
                                 recvPendingCnt, recv, queued, has, history>>

TryRelease(t) == /\ At(t, "release")
                 /\ active' = IF ~isConnected[has[t]] /\ recvPendingCnt[has[t]] = 0
                              THEN active \ {has[t]} ELSE active
                 /\ Then(t, <<>>)
                 /\ UNCHANGED <<server, accept, session, queued, has, history>>

-----------------------------------------------------------------------------
(* The handlers of the PacketProcessor                                     *)

HandlerLoop(h) == /\ At(h, "hloop")
                  /\ todo' = [todo EXCEPT ![h] = IF processor = "up"
                                                 THEN <<"take", "hloop">> ELSE <<>>]
                  /\ has' = [has EXCEPT ![h] = None]
                  /\ UNCHANGED <<server, active, accept, session, queued, history>>

\* cv.wait and the front of the queue.
Take(h) == /\ At(h, "take")
           /\ \/ \E s \in queued : /\ queued' = queued \ {s}
                                   /\ has' = [has EXCEPT ![h] = s]
                                   /\ Then(h, <<"handle">>)
              \/ /\ queued = {} /\ processor # "up"
                 /\ Then(h, <<>>)
                 /\ UNCHANGED <<queued, has>>
           /\ UNCHANGED <<server, active, accept, session, history>>

\* OnRecvPacket may disconnect, as GameSession does after its tenth packet,
\* and a packet that has come in meanwhile is enqueued again.
Handle(h) == /\ At(h, "handle")
             /\ \E body \in {<<>>, <<"disconnect", "release">>, <<"enqueue">>} :
                   Then(h, body)
             /\ UNCHANGED <<server, active, accept, session, queued, has, history>>

-----------------------------------------------------------------------------
(* Server::Start and Server::End                                           *)

Moves(from, to) == stage = from /\ stage' = to /\ todo[Main] = <<>>

Start == /\ Moves("ready", "serving")
         /\ running' = TRUE
         /\ todo' = [t \in Threads |-> IF t \in Workers THEN <<"loop">> ELSE todo[t]]
         /\ UNCHANGED <<listening, processor, copy, clients, active, accept,
                        session, queued, has, history>>

\* accepting.exchange(false).
End == /\ Moves("serving", "close")
       /\ UNCHANGED <<running, listening, processor, copy, clients, active,
                      accept, session, queued, todo, has, history>>

\* Listener::Close: the pending AcceptEx is aborted.
Close == /\ Moves("close", "copy")
         /\ listening' = FALSE
         /\ accept' = [s \in Sessions |-> IF accept[s] = "posted" THEN "failed"
                                                                  ELSE accept[s]]
         /\ UNCHANGED <<running, processor, copy, clients, active, session,
                        queued, todo, has, history>>

GetActiveSessionsCopy == /\ Moves("copy", "disconnect")
                         /\ copy' = active
                         /\ UNCHANGED <<running, listening, processor, clients,
                                        active, accept, session, queued, todo,
                                        has, history>>

\* The loop over the copy.
DisconnectNext == /\ stage = "disconnect"
                  /\ todo[Main] = <<>>
                  /\ \E s \in copy :
                        /\ has' = [has EXCEPT ![Main] = s]
                        /\ copy' = copy \ {s}
                  /\ todo' = [todo EXCEPT ![Main] = <<"disconnect", "release">>]
                  /\ UNCHANGED <<stage, running, listening, processor, clients,
                                 active, accept, session, queued, history>>

DisconnectDone == /\ Moves("disconnect", "wait")
                  /\ copy = {}
                  /\ has' = [has EXCEPT ![Main] = None]
                  /\ UNCHANGED <<running, listening, processor, copy, clients,
                                 active, accept, session, queued, todo, history>>

\* GetActiveSessionCnt() == 0.
Wait == /\ Moves("wait", "stop")
        /\ active = {}
        /\ UNCHANGED <<running, listening, processor, copy, clients, active,
                       accept, session, queued, todo, has, history>>

\* PacketProcessor::Stop, its joins, and reset.
Stop == /\ Moves("stop", "join handlers")
        /\ processor' = "stopping"
        /\ queued' = {}
        /\ UNCHANGED <<running, listening, copy, clients, active, accept,
                       session, todo, has, history>>

JoinHandlers == /\ Moves("join handlers", "reset")
                /\ \A h \in Handlers : todo[h] = <<>>
                /\ UNCHANGED <<running, listening, processor, copy, clients,
                               active, accept, session, queued, todo, has, history>>

ResetProcessor == /\ Moves("reset", "quit")
                  /\ processor' = "null"
                  /\ queued' = {}
                  /\ UNCHANGED <<running, listening, copy, clients, active,
                                 accept, session, todo, has, history>>

Quit == /\ Moves("quit", "join workers")
        /\ running' = FALSE
        /\ UNCHANGED <<listening, processor, copy, clients, active, accept,
                       session, queued, todo, has, history>>

JoinWorkers == /\ Moves("join workers", "drop")
               /\ \A w \in Workers : todo[w] = <<>>
               /\ UNCHANGED <<running, listening, processor, copy, clients,
                              active, accept, session, queued, todo, has, history>>

\* sessionManager.reset and the rest.
DropManager == /\ Moves("drop", "ended")
               /\ active' = {}
               /\ UNCHANGED <<running, listening, processor, copy, clients,
                              accept, session, queued, todo, has, history>>

-----------------------------------------------------------------------------
WorkerStep(w) ==
    /\ stage # "crashed"
    /\ \/ Loop(w) \/ Timeout(w) \/ Dequeue(w) \/ Complete(w)
       \/ SetOption(w) \/ Activate(w) \/ RegisterAccept(w)
       \/ Uncount(w) \/ Data(w) \/ Find(w) \/ Rearm(w) \/ Check(w) \/ Post(w)

HandlerStep(h) == /\ stage # "crashed"
                  /\ HandlerLoop(h) \/ Take(h) \/ Handle(h)

SessionStep(t) == /\ stage # "crashed"
                  /\ \/ Disconnect(t) \/ CloseSocket(t) \/ TryRelease(t)
                     \/ Enqueue(t)

EndStep == \/ Close \/ GetActiveSessionsCopy \/ DisconnectNext \/ DisconnectDone
           \/ Wait \/ Stop \/ JoinHandlers \/ ResetProcessor \/ Quit
           \/ JoinWorkers \/ DropManager

\* main: Start, and End when the command comes.
MainStep == Start \/ End \/ EndStep

Next == \/ ClientConnects
        \/ \E w \in Workers : WorkerStep(w)
        \/ \E h \in Handlers : HandlerStep(h)
        \/ \E t \in Threads : SessionStep(t)
        \/ MainStep

Spec == Init /\ [][Next]_vars

\* The threads run; nothing makes a client send or leave, or main call End.
Fairness == /\ \A w \in Workers : WF_vars(WorkerStep(w))
            /\ \A h \in Handlers : WF_vars(HandlerStep(h))
            /\ \A t \in Threads : WF_vars(SessionStep(t))
            /\ WF_vars(EndStep)

FairSpec == Spec /\ Fairness

-----------------------------------------------------------------------------
\* There is one AcceptEx at a time, from one ProcessAccept to the next, and
\* while the server listens there is one unless accepting has gone wrong.
Accepting == {s \in Sessions : accept[s] # "none"}
             \cup {w \in Workers : Doing(w, {"accept"})}
AcceptChain == /\ Cardinality(Accepting) <= 1
               /\ listening /\ ~broken => Accepting # {}

\* A session in activeSessions that is disconnected has somebody who will
\* still erase it: a recv that is aborted, or a thread on its way to
\* TryRelease.  The wait of End depends on it.  (TypeOK gives the types.)
Releasing == {"uncount", "data", "find", "enqueue", "rearm", "post",
              "disconnect", "close", "release"}
NoZombie == TypeOK /\ \A s \in active : ~isConnected[s] /\ stage # "crashed" =>
               recv[s] \/ \E t \in Threads : has[t] = s /\ Doing(t, Releasing)

\* Once End has left its loop no connection is left behind, unless one was
\* being accepted when End took its copy: no session is active, and a recv that
\* the kernel still has is of a socket that is closed, or that the thread that
\* won the exchange of isConnected has yet to close.
QuietKernel == stage \in PastWait /\ ~raced =>
                  /\ active = {}
                  /\ \A s \in Sessions : recv[s] /\ open[s] =>
                        \E t \in Threads : has[t] = s /\ At(t, "close")

\* Once End has left its loop, no IOCP thread handles a recv of a session.
QuietWorkers == stage \in PastWait =>
                   \A w \in Workers : ~Doing(w, {"data", "find", "enqueue", "rearm"})

\* End returns: nobody but a session that was being accepted when End took its
\* copy can keep it waiting.
EndReturns == stage = "close" ~> stage \in {"ended", "crashed"} \/ raced
=============================================================================
