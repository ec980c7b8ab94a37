----------------------------- MODULE DummyClient -----------------------------
(***************************************************************************)
(* The load generator from Start to End (ChatDummyClient): the threads     *)
(* that connect the sessions, the IOCP workers, the two loops that send    *)
(* and report, the metrics, and the main thread that ends it all.          *)
(*                                                                         *)
(* ChatDummyClient::packetProcessor hides the global of that name, which   *)
(* stays null here: ProcessRecv enqueues nothing, no packet reaches        *)
(* OnRecvPacket and a session never gets beyond Connected, so SendChatTick *)
(* finds no session that is ready to chat.                                 *)
(*                                                                         *)
(* RegisterRecv is cut after its check, Disconnect at OnDisconnected and   *)
(* closesocket, TryRelease is one step (SessionLifecycle cuts them finer). *)
(* A thread works off a list of labels; a call replaces its label by those *)
(* of the callee.                                                          *)
(***************************************************************************)
EXTENDS Integers, Sequences, FiniteSets

CONSTANTS Connectors,  \* connectThreads
          Workers,     \* IOCP worker threads
          Loops,       \* sendThread and metricsThread
          Main,        \* the thread that calls Start and End
          Sessions,    \* the objects of the pool
          None,        \* no session
          PerThread    \* sessionsPerThread

ASSUME RolesAssumption == /\ Connectors \cap Workers = {}
                          /\ Main \notin Connectors \cup Workers
ASSUME NoneAssumption == None \notin Sessions
ASSUME PerThreadAssumption == PerThread \in Nat

Threads == Connectors \cup Workers \cup {Main}

VARIABLES stage,       \* how far the main thread is
          running,     \* std::atomic<bool> of the client
          looping,     \* the loops that have not returned
          left,        \* sessions each connect thread has yet to connect
          sessions,    \* the sessions stored in the vector of that name
          rest,        \* the sessions End has yet to disconnect
          active,      \* activeSessions
          isConnected, \* per session, with disconnecting = ~isConnected
          socket,      \* per session: socket # INVALID_SOCKET
          recv,        \* the kernel has a WSARecv of the session
          send,        \* the kernel has a WSASend of the session
          recvPendingCnt,
          state,       \* DummySessionState
          connected,   \* DummyMetrics::connected
          todo,        \* labels each thread has yet to execute
          has,         \* the session a thread works on
          early         \* sessions disconnected before their OnConnected

process == <<stage, running, looping, left, rest>>
net == <<isConnected, socket, recv, send, recvPendingCnt>>
metrics == <<state, connected, early>>
vars == <<process, sessions, active, net, metrics, todo, has>>

Stages == {"connecting", "serving", "join loops", "disconnect", "join workers",
           "clear", "drop", "ended"}

Labels == {"connect", "check", "post", "activate", "connected", "count",
           "login", "send", "store", "loop", "poll", "uncount", "data", "rearm",
           "disconnect", "leave", "lost", "close", "release"}

\* The types of the fields and locals.
TypeOK == /\ stage \in Stages
          /\ running \in BOOLEAN
          /\ looping \subseteq Loops
          /\ left \in [Connectors -> 0..PerThread]
          /\ sessions \subseteq Sessions /\ rest \subseteq sessions
          /\ active \subseteq Sessions
          /\ \A f \in {isConnected, socket, recv, send} :
                f \in [Sessions -> BOOLEAN]
          /\ recvPendingCnt \in [Sessions -> 0..1]
          /\ state \in [Sessions -> {"Disconnected", "Connected"}]
          /\ connected \in Int
          /\ todo \in [Threads -> Seq(Labels)]
          /\ has \in [Threads -> Sessions \cup {None}]
          /\ early \subseteq Sessions

At(t, label) == todo[t] # <<>> /\ Head(todo[t]) = label
Doing(t, labels) == \E i \in 1..Len(todo[t]) : todo[t][i] \in labels
Then(t, body) == todo' = [todo EXCEPT ![t] = body \o Tail(@)]

\* No shared_ptr to the session exists: it is in the pool.
Pooled(s) == /\ s \notin sessions \cup active
             /\ ~recv[s] /\ ~send[s]
             /\ \A t \in Threads : has[t] # s

\* Init has passed, and Start has made the threads.
Init == /\ stage = "connecting"
        /\ running = TRUE
        /\ looping = {}
        /\ left = [c \in Connectors |-> PerThread]
        /\ sessions = {} /\ active = {} /\ rest = {}
        /\ isConnected = [s \in Sessions |-> FALSE]
        /\ socket = [s \in Sessions |-> FALSE]
        /\ recv = [s \in Sessions |-> FALSE]
        /\ send = [s \in Sessions |-> FALSE]
        /\ recvPendingCnt = [s \in Sessions |-> 0]
        /\ state = [s \in Sessions |-> "Disconnected"]
        /\ connected = 0
        /\ todo = [t \in Threads |-> IF t \in Connectors THEN <<"connect">>
                                     ELSE IF t \in Workers THEN <<"loop">> ELSE <<>>]
        /\ has = [t \in Threads |-> None]
        /\ early = {}

-----------------------------------------------------------------------------
(* ChatDummyClient::ConnectRange                                           *)

\* What follows when the socket is connected, and the next round.
ConnectedBody == <<"check", "activate", "connected", "count", "login", "store",
                   "connect">>

\* DummySession::Reset, by the pool.
Reset(s) == state' = [state EXCEPT ![s] = "Disconnected"]

\* A session is acquired and CreateSocket gives it a socket; connect succeeds,
\* or fails and the session, still `connected', goes back to the pool.
Connect(c) ==
    /\ At(c, "connect")
    /\ left[c] > 0
    /\ left' = [left EXCEPT ![c] = @ - 1]
    /\ \E s \in {u \in Sessions : Pooled(u)} :
          /\ isConnected' = [isConnected EXCEPT ![s] = TRUE]
          /\ socket' = [socket EXCEPT ![s] = TRUE]
          /\ Reset(s)
          /\ \/ /\ has' = [has EXCEPT ![c] = s]
                /\ Then(c, ConnectedBody)
             \/ UNCHANGED <<has, todo>>
    /\ UNCHANGED <<stage, running, looping, rest, sessions, active, recv, send,
                   recvPendingCnt, connected, early>>

ConnectDone(c) == /\ At(c, "connect")
                  /\ left[c] = 0
                  /\ Then(c, <<>>)
                  /\ UNCHANGED <<process, sessions, active, net, metrics, has>>

\* SessionManager::ActivateSession.
Activate(c) == /\ At(c, "activate")
               /\ active' = active \cup {has[c]}
               /\ Then(c, <<>>)
               /\ UNCHANGED <<process, sessions, net, metrics, has>>

\* DummySession::OnConnected: state.store, the metrics, and the login request.
OnConnected(c) == /\ At(c, "connected")
                  /\ state' = [state EXCEPT ![has[c]] = "Connected"]
                  /\ Then(c, <<>>)
                  /\ UNCHANGED <<process, sessions, active, net, connected,
                                 early, has>>

CountConnected(c) == /\ At(c, "count")
                     /\ connected' = connected + 1
                     /\ Then(c, <<>>)
                     /\ UNCHANGED <<process, sessions, active, net, state,
                                    early, has>>

\* SendPacket: Session::Send drops the request of a session that is gone.
SendLogin(c) == /\ At(c, "login")
                /\ Then(c, IF isConnected[has[c]] THEN <<"send">> ELSE <<>>)
                /\ UNCHANGED <<process, sessions, active, net, metrics, has>>

\* WSASend takes the request or rejects it.
RegisterSend(c) == /\ At(c, "send")
                   /\ \/ /\ socket[has[c]]
                         /\ send' = [send EXCEPT ![has[c]] = TRUE]
                         /\ Then(c, <<>>)
                      \/ /\ Then(c, <<"disconnect">>)
                         /\ UNCHANGED send
                   /\ UNCHANGED <<process, sessions, active, isConnected, socket,
                                  recv, recvPendingCnt, metrics, has>>

\* sessions[i] = dummySession.
Store(c) == /\ At(c, "store")
            /\ sessions' = sessions \cup {has[c]}
            /\ has' = [has EXCEPT ![c] = None]
            /\ Then(c, <<>>)
            /\ UNCHANGED <<process, active, net, metrics>>

ConnectRange(c) == \/ Connect(c) \/ ConnectDone(c) \/ Activate(c)
                   \/ OnConnected(c) \/ CountConnected(c)
                   \/ SendLogin(c) \/ RegisterSend(c) \/ Store(c)

-----------------------------------------------------------------------------
(* The IOCP workers, PacketSession::ProcessRecv and Session::RegisterRecv  *)

Loop(w) == /\ At(w, "loop")
           /\ todo' = [todo EXCEPT ![w] = IF running THEN <<"poll", "loop">>
                                                     ELSE <<>>]
           /\ has' = [has EXCEPT ![w] = None]
           /\ UNCHANGED <<process, sessions, active, net, metrics>>

\* GetQueuedCompletionStatus times out.
Timeout(w) == /\ At(w, "poll")
              /\ Then(w, <<>>)
              /\ UNCHANGED <<process, sessions, active, net, metrics, has>>

\* A recv completes, because of data, of the server's end or of closesocket.
CompleteRecv(w) == /\ At(w, "poll")
                   /\ \E s \in Sessions :
                         /\ recv[s]
                         /\ recv' = [recv EXCEPT ![s] = FALSE]
                         /\ has' = [has EXCEPT ![w] = s]
                   /\ Then(w, <<"uncount", "data">>)
                   /\ UNCHANGED <<process, sessions, active, isConnected, socket,
                                  send, recvPendingCnt, metrics>>

\* ProcessSend finds the queue empty: there is one request per session.
CompleteSend(w) == /\ At(w, "poll")
                   /\ \E s \in Sessions :
                         /\ send[s]
                         /\ send' = [send EXCEPT ![s] = FALSE]
                   /\ Then(w, <<>>)
                   /\ UNCHANGED <<process, sessions, active, isConnected, socket,
                                  recv, recvPendingCnt, metrics, has>>

Uncount(w) == /\ At(w, "uncount")
              /\ recvPendingCnt' = [recvPendingCnt EXCEPT ![has[w]] = @ - 1]
              /\ Then(w, <<>>)
              /\ UNCHANGED <<process, sessions, active, isConnected, socket,
                             recv, send, metrics, has>>

\* No data with a valid socket, or no room in the buffer that nobody empties;
\* otherwise there is data, or none because the socket was closed.
Data(w) == /\ At(w, "data")
           /\ \/ Then(w, <<"disconnect", "release">>)
              \/ Then(w, <<"rearm">>)
           /\ UNCHANGED <<process, sessions, active, net, metrics, has>>

\* Mutant of Rearm: returns without TryRelease.
RearmOnly(w) == /\ At(w, "rearm")
                /\ Then(w, IF isConnected[has[w]] THEN <<"check">> ELSE <<>>)
                /\ UNCHANGED <<process, sessions, active, net, metrics, has>>

Rearm(w) == /\ At(w, "rearm")
            /\ Then(w, IF isConnected[has[w]] THEN <<"check">> ELSE <<"release">>)
            /\ UNCHANGED <<process, sessions, active, net, metrics, has>>

\* RegisterRecv, by a connect thread or a worker, up to its first return.
Check(t) == /\ At(t, "check")
            /\ Then(t, IF isConnected[has[t]] THEN <<"post">> ELSE <<>>)
            /\ UNCHANGED <<process, sessions, active, net, metrics, has>>

\* recvPendingCnt and WSARecv.
Post(t) == /\ At(t, "post")
           /\ \/ /\ socket[has[t]]
                 /\ recvPendingCnt' = [recvPendingCnt EXCEPT ![has[t]] = @ + 1]
                 /\ recv' = [recv EXCEPT ![has[t]] = TRUE]
                 /\ Then(t, <<>>)
              \/ /\ Then(t, <<"disconnect", "release">>)
                 /\ UNCHANGED <<recvPendingCnt, recv>>
           /\ UNCHANGED <<process, sessions, active, isConnected, socket, send,
                          metrics, has>>

-----------------------------------------------------------------------------
(* Session::Disconnect, DummySession::OnDisconnected, Session::TryRelease  *)

Disconnect(t) ==
    /\ At(t, "disconnect")
    /\ isConnected' = [isConnected EXCEPT ![has[t]] = FALSE]
    /\ Then(t, IF isConnected[has[t]] THEN <<"leave", "close", "release">>
                                      ELSE <<"release">>)
    /\ UNCHANGED <<process, sessions, active, socket, recv, send,
                   recvPendingCnt, metrics, has>>

\* OnDisconnected: state.exchange.
Leave(t) == /\ At(t, "leave")
            /\ state' = [state EXCEPT ![has[t]] = "Disconnected"]
            /\ early' = IF state[has[t]] = "Disconnected"
                        THEN early \cup {has[t]} ELSE early
            /\ Then(t, IF state[has[t]] = "Disconnected" THEN <<>> ELSE <<"lost">>)
            /\ UNCHANGED <<process, sessions, active, net, connected, has>>

\* Mutant of CountLost: connected is left alone.
CountLostOnly(t) == /\ At(t, "lost")
                    /\ Then(t, <<>>)
                    /\ UNCHANGED <<process, sessions, active, net, metrics, has>>

\* DummyMetrics::OnDisconnected.
CountLost(t) == /\ At(t, "lost")
                /\ connected' = connected - 1
                /\ Then(t, <<>>)
                /\ UNCHANGED <<process, sessions, active, net, state, early, has>>

Close(t) == /\ At(t, "close")
            /\ socket' = [socket EXCEPT ![has[t]] = FALSE]
            /\ Then(t, <<>>)
            /\ UNCHANGED <<process, sessions, active, isConnected, recv, send,
                           recvPendingCnt, metrics, has>>

TryRelease(t) ==
    /\ At(t, "release")
    /\ active' = IF ~isConnected[has[t]] /\ recvPendingCnt[has[t]] = 0
                 THEN active \ {has[t]} ELSE active
    /\ Then(t, <<>>)
    /\ UNCHANGED <<process, sessions, net, metrics, has>>

-----------------------------------------------------------------------------
(* SendLoop and MetricsLoop                                                *)

\* A loop returns when running is false; MetricsLoop also after testSeconds.
LoopReturns(l) == /\ l \in looping
                  /\ looping' = looping \ {l}
                  /\ UNCHANGED <<stage, running, left, rest, sessions, active, net,
                                 metrics, todo, has>>

-----------------------------------------------------------------------------
(* ChatDummyClient::Start and End                                          *)

Moves(from, to) == stage = from /\ stage' = to /\ todo[Main] = <<>>

\* Start joins the connect threads and starts the loops.
Started == /\ Moves("connecting", "serving")
           /\ \A c \in Connectors : todo[c] = <<>>
           /\ looping' = Loops
           /\ UNCHANGED <<running, left, rest, sessions, active, net, metrics, todo, has>>

\* Run has slept for testSeconds; End: running = false.
End == /\ Moves("serving", "join loops")
       /\ running' = FALSE
       /\ UNCHANGED <<looping, left, rest, sessions, active, net, metrics, todo, has>>

JoinLoops == /\ Moves("join loops", "disconnect")
             /\ looping = {}
             /\ rest' = sessions
             /\ UNCHANGED <<running, looping, left, sessions, active, net,
                            metrics, todo, has>>

\* The loop over the sessions.
DisconnectNext == /\ stage = "disconnect"
                  /\ todo[Main] = <<>>
                  /\ \E s \in rest :
                        /\ rest' = rest \ {s}
                        /\ has' = [has EXCEPT ![Main] = s]
                  /\ todo' = [todo EXCEPT ![Main] = <<"disconnect">>]
                  /\ UNCHANGED <<stage, running, looping, left, sessions, active,
                                 net, metrics>>

DisconnectDone == /\ Moves("disconnect", "join workers")
                  /\ rest = {}
                  /\ has' = [has EXCEPT ![Main] = None]
                  /\ UNCHANGED <<running, looping, left, rest, sessions, active,
                                 net, metrics, todo>>

\* Mutant of JoinWorkers: the workers are not waited for.
JoinNobody == /\ Moves("join workers", "clear")
              /\ UNCHANGED <<running, looping, left, rest, sessions, active, net,
                             metrics, todo, has>>

\* The joins of the IOCP workers and of the idle PacketProcessor.
JoinWorkers == /\ Moves("join workers", "clear")
               /\ \A w \in Workers : todo[w] = <<>>
               /\ UNCHANGED <<running, looping, left, rest, sessions, active, net,
                              metrics, todo, has>>

ClearSessions == /\ Moves("clear", "drop")
                 /\ sessions' = {}
                 /\ UNCHANGED <<running, looping, left, rest, active, net, metrics,
                                todo, has>>

\* sessionManager.reset: activeSessions is destroyed, then the factory with
\* its pool (SessionManager.h:26).
DropManager == /\ Moves("drop", "ended")
               /\ active' = {}
               /\ UNCHANGED <<running, looping, left, rest, sessions, net, metrics,
                              todo, has>>

-----------------------------------------------------------------------------
WorkerStep(w) == \/ Loop(w) \/ Timeout(w) \/ CompleteRecv(w) \/ CompleteSend(w)
                 \/ Uncount(w) \/ Data(w) \/ Rearm(w)

SessionStep(t) == \/ Check(t) \/ Post(t) \/ Disconnect(t) \/ Leave(t)
                  \/ CountLost(t) \/ Close(t) \/ TryRelease(t)

EndStep == \/ JoinLoops \/ DisconnectNext \/ DisconnectDone \/ JoinWorkers
           \/ ClearSessions \/ DropManager

Next == \/ \E c \in Connectors : ConnectRange(c)
        \/ \E w \in Workers : WorkerStep(w)
        \/ \E t \in Threads : SessionStep(t)
        \/ \E l \in Loops : LoopReturns(l)
        \/ Started \/ End \/ EndStep

Spec == Init /\ [][Next]_vars

-----------------------------------------------------------------------------
\* A session in activeSessions that is disconnected has a recv in the kernel or
\* a thread on its way to TryRelease, although the first recv is registered
\* before the session is activated; but for one that is lost before its
\* OnConnected, which may have been erased before it was inserted.  (TypeOK
\* gives the types.)
Releasing == {"uncount", "data", "rearm", "post", "disconnect", "release"}
NoZombie == TypeOK /\ \A s \in active \ early : ~isConnected[s] =>
               recv[s] \/ \E t \in Threads : has[t] = s /\ Doing(t, Releasing)

\* Between the calls of OnConnected and OnDisconnected, the column `connected'
\* of the metrics is the number of sessions that are connected, plus those
\* lost before their OnConnected, which are counted for good.
Settled == \A t \in Threads :
              ~Doing(t, {"connected", "count", "leave", "lost"})
ConnectedCounted ==
    Settled => connected = Cardinality({s \in Sessions :
                                           ~Pooled(s) /\ isConnected[s]})
                           + Cardinality(early)

\* No deleter runs once End has destroyed the ObjectPool it would put the
\* session back into.
PoolOutlives ==
    [][stage = "ended" => \A s \in Sessions : Pooled(s)' = Pooled(s)]_vars
=============================================================================
