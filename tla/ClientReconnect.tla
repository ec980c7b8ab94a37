--------------------------- MODULE ClientReconnect ---------------------------
(***************************************************************************)
(* The load client (Client) from Start to End: the connect threads, the    *)
(* IOCP workers, the send thread, which finds lost sessions and reconnects *)
(* them by Reset and Connect on the same object, and the main thread.      *)
(*                                                                         *)
(* Client creates no PacketProcessor, so nothing is handled: a recv fits   *)
(* into packetBuffer or it does not.  The ten messages of a round are one, *)
(* sendQueue and seqNum are left out: a completed send finds the queue     *)
(* empty or not.  Reset, ActivateSession, TryRelease and the calls of the  *)
(* socket library are one step each; Disconnect is cut at its two writes   *)
(* and at closesocket, RegisterRecv after its check.  A thread works off a *)
(* list of labels; a call replaces its label by those of the callee.       *)
(***************************************************************************)
EXTENDS Integers, Sequences, FiniteSets

CONSTANTS Connectors,  \* connectThreads
          Workers,     \* IOCP worker threads
          Sender,      \* sendThread
          Main,        \* the thread that calls End
          Sessions,    \* the objects of the pool
          None,        \* no session
          PerThread,   \* sessionCntPerThread
          MaxStale     \* bound: recvs in the kernel from before a Reset

ASSUME RolesAssumption == /\ Connectors \cap Workers = {}
                          /\ {Sender, Main} \cap (Connectors \cup Workers) = {}
                          /\ Sender # Main
ASSUME NoneAssumption == None \notin Sessions
ASSUME BoundsAssumption == PerThread \in Nat /\ MaxStale \in Nat
\* workers is a vector of threads.
ASSUME FiniteAssumption == IsFiniteSet(Workers)

Threads == Connectors \cup Workers \cup {Sender, Main}

VARIABLES stage,          \* how far the main thread is
          running,        \* std::atomic<bool> of the client
          pool,           \* sessions in the ObjectPool
          left,           \* sessions each connect thread has yet to connect
          local,          \* localSessions of each connect thread
          clientSessions, \* the vector of that name
          rest,           \* the sessions a loop over a vector has yet to visit
          ses,            \* the fields of each session, and its I/O
          todo,           \* labels each thread has yet to execute
          has,            \* the session a thread works on
          raced,          \* sessions that were in use when Reset ran on them
          visited         \* the sessions the loop of End goes over

lists == <<pool, left, local, clientSessions>>
process == <<stage, running, lists, rest, raced, visited>>
vars == <<process, ses, todo, has>>

\* Every worker may hold the register of a recv over a Reset.
MaxRecvs == MaxStale + Cardinality(Workers) + 1

\* The socket is INVALID_SOCKET, created, connected, or closed by the server;
\* recvs and stale count the WSARecvs in the kernel on this socket and on
\* earlier ones; listed: activeSessions has the session under its sessionId.
Fields == [isConnected : BOOLEAN, disconnecting : BOOLEAN, managed : BOOLEAN,
           socket : {"none", "new", "live", "dead"}, owner : BOOLEAN,
           recvPendingCnt : (-MaxStale)..MaxRecvs, recvs : 0..MaxRecvs,
           stale : 0..MaxRecvs, isSending : BOOLEAN,
           listed : BOOLEAN]

Fresh == [isConnected |-> FALSE, disconnecting |-> FALSE, managed |-> TRUE,
          socket |-> "none", owner |-> FALSE, recvPendingCnt |-> 0, recvs |-> 0,
          stale |-> 0, isSending |-> FALSE, listed |-> FALSE]

Labels == {"acquire", "socket", "connect", "register", "recv", "post", "activate",
           "keep", "each", "send", "reset", "poll", "end", "zero", "rearm",
           "disconnect", "mark", "close", "release"}
Stages == {"serving", "join sender", "disconnect", "join threads", "cleared"}

\* The types of the fields and locals; the count of recvs strays from 0 and 1
\* by no more than the recvs that Reset forgot.
TypeOK == /\ stage \in Stages /\ running \in BOOLEAN
          /\ pool \subseteq Sessions /\ left \in [Connectors -> 0..PerThread]
          /\ local \in [Connectors -> SUBSET Sessions]
          /\ clientSessions \subseteq Sessions
          /\ rest \subseteq clientSessions /\ visited \subseteq clientSessions
          /\ ses \in [Sessions -> Fields]
          /\ todo \in [Threads -> Seq(Labels)]
          /\ has \in [Threads -> Sessions \cup {None}]
          /\ raced \subseteq Sessions

At(t, label) == todo[t] # <<>> /\ Head(todo[t]) = label
\* The label replaced by the body, in a thread that works on s until it is back
\* at the label of its loop.
Go(t, s, body) == LET next == body \o Tail(todo[t]) IN
    /\ todo' = [todo EXCEPT ![t] = next]
    /\ has' = [has EXCEPT ![t] = IF Len(next) > 1 THEN s ELSE None]
Then(t, body) == Go(t, has[t], body)
Of(t) == ses[has[t]]

\* Init has filled the pool; nothing is connected yet.
Initialized == /\ pool = Sessions
               /\ left = [c \in Connectors |-> PerThread]
               /\ local = [c \in Connectors |-> {}]
               /\ clientSessions = {}
               /\ ses = [s \in Sessions |-> Fresh]

\* ConnectClients and Start have made the threads.
Started == /\ running = TRUE
           /\ todo = [t \in Threads |-> IF t \in Connectors THEN <<"acquire">>
                                        ELSE IF t \in Workers THEN <<"poll">>
                                        ELSE IF t = Sender THEN <<"each">>
                                        ELSE <<"end">>]
           /\ has = [t \in Threads |-> None]

Init == /\ stage = "serving" /\ rest = {} /\ visited = {} /\ raced = {}
        /\ Initialized /\ Started

-----------------------------------------------------------------------------
(* Client::ConnectThread                                                   *)

Acquire(c) == /\ At(c, "acquire") /\ left[c] > 0
              /\ left' = [left EXCEPT ![c] = @ - 1]
              /\ \E s \in pool : /\ pool' = pool \ {s}
                                 /\ Go(c, s, <<"socket", "connect", "acquire">>)
              /\ UNCHANGED <<stage, running, local, clientSessions, rest, raced,
                             visited, ses>>

\* localSessions.push_back.
Keep(c) == /\ At(c, "keep")
           /\ local' = [local EXCEPT ![c] = @ \cup {has[c]}]
           /\ Then(c, <<>>)
           /\ UNCHANGED <<stage, running, pool, left, clientSessions, rest, raced,
                          visited, ses>>

\* The vectors are joined under sessionLock.
Merge(c) == /\ At(c, "acquire") /\ left[c] = 0
            /\ clientSessions' = clientSessions \cup local[c]
            /\ local' = [local EXCEPT ![c] = {}]
            /\ Then(c, <<>>)
            /\ UNCHANGED <<stage, running, pool, left, rest, raced, visited, ses>>

-----------------------------------------------------------------------------
(* Connector::Connect, by a connect thread or by the send thread           *)

CreateSocket(t) == /\ At(t, "socket")
                   /\ ses' = [ses EXCEPT ![has[t]].socket = "new",
                                         ![has[t]].isConnected = TRUE]
                   /\ Then(t, <<>>)
                   /\ UNCHANGED process

ConnectOk(t) == /\ At(t, "connect") /\ Of(t).socket = "new"
                /\ ses' = [ses EXCEPT ![has[t]].socket = "live"]
                /\ Then(t, <<"register">>)
                /\ UNCHANGED process

\* connect fails, of itself or because a worker has closed the socket.  A new
\* session goes back to the pool, which resets it; one that is reconnected
\* stays as it is: isConnected, on a socket that is not.
ConnectFails(t) ==
    /\ At(t, "connect")
    /\ Then(t, <<>>)
    /\ IF t \in Connectors
       THEN /\ pool' = pool \cup {has[t]}
            /\ ses' = [ses EXCEPT ![has[t]] = Fresh]
       ELSE UNCHANGED <<pool, ses>>
    /\ UNCHANGED <<stage, running, left, local, clientSessions, rest, raced, visited>>

\* RegisterHandle fails on INVALID_SOCKET.
Register(t) ==
    /\ At(t, "register")
    /\ Then(t, IF Of(t).socket = "none" THEN <<>>
               ELSE IF t = Sender THEN <<"recv", "activate">>
               ELSE <<"recv", "activate", "keep">>)
    /\ UNCHANGED <<process, ses>>

\* SessionManager::ActivateSession.
Activate(t) == /\ At(t, "activate")
               /\ ses' = [ses EXCEPT ![has[t]].listed = TRUE]
               /\ Then(t, <<>>)
               /\ UNCHANGED process

-----------------------------------------------------------------------------
(* Session::RegisterRecv, Disconnect, TryRelease                           *)

RegisterRecv(t) ==
    /\ At(t, "recv")
    /\ Then(t, IF Of(t).isConnected /\ ~Of(t).disconnecting THEN <<"post">> ELSE <<>>)
    /\ UNCHANGED <<process, ses>>

PostOk(t) == /\ At(t, "post") /\ Of(t).socket \in {"live", "dead"}
             /\ ses' = [ses EXCEPT ![has[t]].owner = TRUE,
                                   ![has[t]].recvPendingCnt = @ + 1,
                                   ![has[t]].recvs = @ + 1]
             /\ Then(t, <<>>)
             /\ UNCHANGED process

PostFails(t) == /\ At(t, "post") /\ Of(t).socket # "live"
                /\ ses' = [ses EXCEPT ![has[t]].owner = FALSE]
                /\ Then(t, <<"disconnect", "release">>)
                /\ UNCHANGED process

\* isConnected.exchange(false).
Disconnect(t) == /\ At(t, "disconnect")
                 /\ ses' = [ses EXCEPT ![has[t]].isConnected = FALSE]
                 /\ Then(t, IF Of(t).isConnected THEN <<"mark", "close">>
                                                  ELSE <<"mark", "release">>)
                 /\ UNCHANGED process

Mark(t) == /\ At(t, "mark")
           /\ ses' = [ses EXCEPT ![has[t]].disconnecting = TRUE]
           /\ Then(t, <<>>)
           /\ UNCHANGED process

\* closesocket aborts the recvs on the socket; TryRelease follows.
Close(t) == /\ At(t, "close")
            /\ ses' = [ses EXCEPT ![has[t]].socket = "none", ![has[t]].recvs = 0,
                                  ![has[t]].stale = Of(t).stale + Of(t).recvs]
            /\ Then(t, <<"release">>)
            /\ UNCHANGED process

\* TryRelease on the fields f.
Released(f) == IF f.disconnecting /\ f.recvPendingCnt = 0
               THEN [f EXCEPT !.owner = FALSE, !.listed = @ /\ ~f.managed] ELSE f

TryRelease(t) == /\ At(t, "release")
                 /\ ses' = [ses EXCEPT ![has[t]] = Released(@)]
                 /\ Then(t, <<>>)
                 /\ UNCHANGED process

-----------------------------------------------------------------------------
(* The IOCP workers: PacketSession::ProcessRecv, Session::ProcessSend      *)

\* GetQueuedCompletionStatus has returned nothing and running is false.
Return(w) == /\ At(w, "poll") /\ ~running
             /\ Then(w, <<>>)
             /\ UNCHANGED <<process, ses>>

\* A recv completes with data, or without because the server or this client
\* closed the socket.  recvEvent.owner is moved out; without it ProcessRecv
\* returns after TryRelease.  The bytes fit into packetBuffer or they do not.
CompleteRecv(w) ==
    /\ At(w, "poll")
    /\ \E s \in Sessions, of \in {"recvs", "stale"}, what \in {"zero", "data"} :
          /\ ses[s][of] > 0
          /\ of = "recvs" => what = IF ses[s].socket = "dead" THEN "zero" ELSE "data"
          /\ ses' = [ses EXCEPT ![s][of] = @ - 1, ![s].owner = FALSE,
                                ![s].recvPendingCnt = @ - 1]
          /\ \E body \in IF ~ses[s].owner THEN {<<"release">>}
                          ELSE IF what = "zero" THEN {<<"zero">>}
                          ELSE {<<"rearm">>, <<"disconnect", "release">>} :
                Go(w, s, Append(body, "poll"))
    /\ UNCHANGED process

Zero(w) == /\ At(w, "zero")
           /\ Then(w, IF Of(w).socket # "none" THEN <<"disconnect", "release">>
                                               ELSE <<"rearm">>)
           /\ UNCHANGED <<process, ses>>

\* ProcessRecv checks and RegisterRecv checks again.
Rearm(w) == /\ At(w, "rearm")
            /\ \E body \in IF Of(w).isConnected /\ ~Of(w).disconnecting
                           THEN {<<"post">>} ELSE {<<>>, <<"release">>} : Then(w, body)
            /\ UNCHANGED <<process, ses>>

\* ProcessSend: the queue is empty, or the next WSASend fails (one that
\* succeeds changes nothing here).
CompleteSend(w) ==
    /\ At(w, "poll")
    /\ \E s \in Sessions :
          /\ ses[s].isSending
          /\ ses' = [ses EXCEPT ![s].isSending = FALSE]
          /\ \/ UNCHANGED <<todo, has>>
             \/ ses[s].socket # "live" /\ Go(w, s, <<"disconnect", "poll">>)
    /\ UNCHANGED process

-----------------------------------------------------------------------------
(* The send thread: Client::BroadcastChat, Client::ReconnectSession        *)

\* One round: the copy of clientSessions, made under sessionLock.
Pass == /\ At(Sender, "each") /\ rest = {}
        /\ rest' = IF running THEN clientSessions ELSE {}
        /\ Then(Sender, IF running THEN <<"each">> ELSE <<>>)
        /\ UNCHANGED <<stage, running, lists, raced, visited, ses>>

\* The order within the vector is left open.
Each == /\ At(Sender, "each")
        /\ \E s \in rest :
              /\ rest' = rest \ {s}
              /\ Go(Sender, s, IF ses[s].isConnected THEN <<"send", "each">>
                               ELSE <<"reset", "socket", "connect", "each">>)
        /\ UNCHANGED <<stage, running, lists, raced, visited, ses>>

\* Session::Send and RegisterSend: nothing without a connection, no WSASend
\* while one is out.
SendOk == /\ At(Sender, "send")
          /\ ses' = IF Of(Sender).isConnected /\ Of(Sender).socket \in {"live", "dead"}
                    THEN [ses EXCEPT ![has[Sender]].isSending = TRUE] ELSE ses
          /\ Of(Sender).isConnected /\ ~Of(Sender).isSending
                => Of(Sender).socket \in {"live", "dead"}
          /\ Then(Sender, <<>>)
          /\ UNCHANGED process

\* Mutant of SendFails: the failure is not followed by Disconnect.
SendFailsOnly == /\ At(Sender, "send")
                 /\ Of(Sender).isConnected /\ ~Of(Sender).isSending
                 /\ Of(Sender).socket # "live"
                 /\ Then(Sender, <<>>)
                 /\ UNCHANGED <<process, ses>>

\* WSASend fails; it may on a connection the server has closed.
SendFails == /\ At(Sender, "send")
             /\ Of(Sender).isConnected /\ ~Of(Sender).isSending
             /\ Of(Sender).socket # "live"
             /\ Then(Sender, <<"disconnect">>)
             /\ UNCHANGED <<process, ses>>

InUse(s) == \/ ses[s].recvs + ses[s].stale > 0 \/ ses[s].isSending
            \/ \E t \in Threads \ {Sender} : has[t] = s

\* Mutant of Cleared: disconnecting is not reset.
ClearedButMark(f) == [Fresh EXCEPT !.managed = FALSE, !.isSending = f.isSending,
                                   !.stale = f.stale + f.recvs,
                                   !.disconnecting = f.disconnecting]

\* What Reset makes of the fields f: it sets no sessionManager again, leaves
\* isSending alone, and the kernel keeps its recvs.
Cleared(f) == [Fresh EXCEPT !.managed = FALSE, !.isSending = f.isSending,
                            !.stale = f.stale + f.recvs]

\* The object is reset as it is, in use or not.
Reset == /\ At(Sender, "reset")
         /\ LET s == has[Sender] IN
               /\ ses[s].stale + ses[s].recvs <= MaxStale
               /\ ses' = [ses EXCEPT ![s] = Cleared(@)]
               /\ raced' = IF InUse(s) THEN raced \cup {s} ELSE raced \ {s}
         /\ Then(Sender, <<>>)
         /\ UNCHANGED <<stage, running, lists, rest, visited>>

-----------------------------------------------------------------------------
(* The server, and Client::End                                             *)

ServerCloses(s) == /\ ses[s].socket = "live"
                   /\ ses' = [ses EXCEPT ![s].socket = "dead"]
                   /\ UNCHANGED <<process, todo, has>>

Moves(from, to) == stage = from /\ stage' = to /\ todo[Main] = <<"end">>

End == /\ Moves("serving", "join sender")
       /\ running' = FALSE
       /\ UNCHANGED <<lists, rest, raced, visited, ses, todo, has>>

\* Mutant of JoinSender: the send thread is not waited for.
JoinNobody == /\ Moves("join sender", "disconnect")
              /\ rest' = clientSessions /\ visited' = clientSessions
              /\ UNCHANGED <<running, lists, raced, ses, todo, has>>

\* sendThread.join; the loop goes over clientSessions without sessionLock and
\* to the end it has now.
JoinSender == /\ Moves("join sender", "disconnect")
              /\ todo[Sender] = <<>>
              /\ rest' = clientSessions /\ visited' = clientSessions
              /\ UNCHANGED <<running, lists, raced, ses, todo, has>>

DisconnectNext == /\ stage = "disconnect" /\ At(Main, "end")
                  /\ \E s \in rest : /\ rest' = rest \ {s}
                                     /\ Go(Main, s, <<"disconnect", "end">>)
                  /\ UNCHANGED <<stage, running, lists, raced, visited, ses>>

DisconnectDone == /\ Moves("disconnect", "join threads") /\ rest = {}
                  /\ UNCHANGED <<running, lists, rest, raced, visited, ses, todo, has>>

\* The joins of connectThreads and workers, and the clears.
JoinThreads == /\ Moves("join threads", "cleared")
               /\ \A t \in Connectors \cup Workers : todo[t] = <<>>
               /\ UNCHANGED <<running, lists, rest, raced, visited, ses, todo, has>>

-----------------------------------------------------------------------------
ConnectStep(c) == Acquire(c) \/ Keep(c) \/ Merge(c)
SessionStep(t) == \/ CreateSocket(t) \/ ConnectOk(t) \/ ConnectFails(t)
                  \/ Register(t) \/ Activate(t) \/ RegisterRecv(t) \/ PostOk(t)
                  \/ PostFails(t) \/ Disconnect(t) \/ Mark(t) \/ Close(t)
                  \/ TryRelease(t)
WorkerStep(w) == \/ Return(w) \/ CompleteRecv(w) \/ CompleteSend(w)
                 \/ Zero(w) \/ Rearm(w)
SendStep == Pass \/ Each \/ SendOk \/ SendFails \/ Reset
EndStep == JoinSender \/ DisconnectNext \/ DisconnectDone \/ JoinThreads

Next == \/ \E c \in Connectors : ConnectStep(c)
        \/ \E t \in Threads : SessionStep(t)
        \/ \E w \in Workers : WorkerStep(w)
        \/ SendStep \/ End \/ EndStep
        \/ \E s \in Sessions : ServerCloses(s)

Spec == Init /\ [][Next]_vars

\* The send thread and the workers run; the server accepts a connection that is
\* tried for ever, and one it has closed does not take messages for ever.
Fairness == /\ WF_vars(SendStep \/ SessionStep(Sender))
            /\ \A w \in Workers : WF_vars(WorkerStep(w) \/ SessionStep(w))
            /\ SF_vars(ConnectOk(Sender)) /\ SF_vars(SendFails)
FairSpec == Spec /\ Fairness

-----------------------------------------------------------------------------
\* Reset on a session that nothing uses any more makes it as good as new: once
\* it is connected again it has one recv in the kernel, is counted and listed,
\* and no leftover of the connection it lost.  (TypeOK gives the types.)
Idle(s) == \A t \in Threads : has[t] # s
AsNew == TypeOK /\ \A s \in Sessions \ (raced \cup pool) :
            Idle(s) /\ ses[s].isConnected =>
               /\ ~ses[s].disconnecting /\ ses[s].socket # "none" /\ ses[s].stale = 0
               /\ ses[s].socket # "new" =>
                     /\ ses[s].recvs = 1 /\ ses[s].recvPendingCnt = 1
                     /\ ses[s].owner /\ ses[s].listed

\* When End has joined the threads, the sessions its loop went over are down and
\* without a socket: neither the send thread nor a worker has revived one.
EndsDown == stage = "cleared" => \A s \in visited : /\ ~ses[s].isConnected
                                                    /\ ses[s].socket = "none"

\* The send thread gets every session that loses its connection connected again
\* until End is called, whatever the workers do to it in the meantime.
Reconnected == \A s \in Sessions :
                  []<>(s \in clientSessions /\ running => ses[s].socket = "live")
=============================================================================
