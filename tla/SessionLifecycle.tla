-------------------------- MODULE SessionLifecycle --------------------------
(***************************************************************************)
(* The life of one Session object (ServerCore/Session.cpp, SessionManager, *)
(* ObjectPool and the accept path of a Listener): the recv that keeps a    *)
(* connection going, Disconnect and TryRelease from several threads, the   *)
(* shared_ptrs that keep the object out of the pool and the Reset that     *)
(* puts it back.                                                           *)
(*                                                                         *)
(* A thread works off a list of labels; a call replaces the label of the   *)
(* call with the labels of the callee's body, and an early return is a     *)
(* body that ends there.  One label is one access to a shared field, or    *)
(* one system call.                                                        *)
(***************************************************************************)
EXTENDS Integers, Sequences, FiniteSets

CONSTANTS Iocp,      \* IOCP worker threads
          Callers,   \* threads that call Disconnect: handlers, Server::End
          MaxConns,  \* bound: connections the object serves
          MaxCalls   \* bound: calls of Disconnect by Callers

ASSUME RolesAssumption == Iocp \cap Callers = {}
ASSUME BoundsAssumption == MaxConns \in Nat /\ MaxCalls \in Nat

Threads == Iocp \cup Callers

VARIABLES isConnected, disconnecting, released,  \* std::atomic<bool>
          recvPendingCnt,                        \* std::atomic<int>
          owner,       \* recvEvent.owner is set
          socket,      \* socket # INVALID_SOCKET
          hasManager,  \* sessionManager # nullptr
          active,      \* activeSessions has the session
          pooled,      \* the object is in the pool
          kernel,      \* WSARecvs the kernel has and no thread has dequeued
          todo,        \* the labels a thread has yet to execute
          ref,         \* the thread holds a shared_ptr of its own
          bytes,       \* numOfBytes > 0 in the completion a thread handles
          told,        \* calls of OnDisconnected for the current connection
          conn,        \* connections served so far
          calls,       \* calls of Disconnect by Callers so far
          stale,       \* history: threads in TryRelease that have seen
                       \* recvPendingCnt zero before a recv was counted
          robbed       \* history: such a thread has dropped the owner of a recv

flags == <<isConnected, disconnecting, released>>
refs == <<owner, active, ref>>
history == <<stale, robbed>>  \* read by the properties alone
vars == <<flags, recvPendingCnt, refs, socket, hasManager, pooled, kernel,
          todo, bytes, told, conn, calls, history>>

\* The fields that Session::Reset assigns, but for recvEvent.owner.
resetFields == <<flags, recvPendingCnt, socket, hasManager, pooled>>

Labels == {"move", "sub", "dispatch", "rearm", "register", "own", "count",
           "recv", "uncount", "disown", "exchange", "flag", "notify", "close",
           "release", "pending", "reset", "erase", "activate"}

\* The types of the fields and locals.
TypeOK == /\ isConnected \in BOOLEAN /\ disconnecting \in BOOLEAN
          /\ released \in BOOLEAN
          /\ recvPendingCnt \in Int
          /\ owner \in BOOLEAN /\ active \in BOOLEAN /\ socket \in BOOLEAN
          /\ hasManager \in BOOLEAN /\ pooled \in BOOLEAN
          /\ kernel \in Nat
          /\ todo \in [Threads -> Seq(Labels)]
          /\ ref \in [Threads -> BOOLEAN]
          /\ bytes \in [Threads -> BOOLEAN]
          /\ told \in Nat /\ conn \in Nat /\ calls \in Nat
          /\ stale \subseteq Threads /\ robbed \in BOOLEAN

\* An object the ObjectPool has constructed.
Init == /\ isConnected = FALSE /\ disconnecting = FALSE /\ released = FALSE
        /\ recvPendingCnt = 0
        /\ owner = FALSE /\ active = FALSE /\ socket = FALSE
        /\ hasManager = FALSE /\ pooled = TRUE
        /\ kernel = 0
        /\ todo = [t \in Threads |-> <<>>]
        /\ ref = [t \in Threads |-> FALSE]
        /\ bytes = [t \in Threads |-> FALSE]
        /\ told = 0 /\ conn = 0 /\ calls = 0
        /\ stale = {} /\ robbed = FALSE

Free(t) == todo[t] = <<>> /\ ~ref[t]
At(t, label) == todo[t] # <<>> /\ Head(todo[t]) = label

\* Thread t executes its label and has `body' to do before it returns.
Then(t, body) == todo' = [todo EXCEPT ![t] = body \o Tail(@)]

\* The shared_ptrs change to those given; whoever drops the last one runs the
\* deleter, which is Session::Reset and ObjectPool::Release.
Hold(own, inMap, locals) ==
    /\ owner' = own
    /\ active' = inMap
    /\ ref' = locals
    /\ IF pooled \/ own \/ inMap \/ (\E t \in Threads : locals[t])
       THEN UNCHANGED resetFields
       ELSE /\ isConnected' = FALSE /\ disconnecting' = FALSE /\ released' = FALSE
            /\ recvPendingCnt' = 0
            /\ socket' = FALSE
            /\ hasManager' = FALSE
            /\ pooled' = TRUE

-----------------------------------------------------------------------------
\* A client connects: AcquireSession and CreateSocket have prepared the
\* object for AcceptEx, and the AcceptEvent of ProcessAccept holds it.
Accept(t) == /\ t \in Iocp
             /\ Free(t)
             /\ pooled
             /\ conn < MaxConns
             /\ pooled' = FALSE
             /\ hasManager' = TRUE
             /\ socket' = TRUE
             /\ isConnected' = TRUE
             /\ conn' = conn + 1
             /\ told' = 0
             /\ ref' = [ref EXCEPT ![t] = TRUE]
             /\ todo' = [todo EXCEPT ![t] = <<"activate", "register">>]
             /\ UNCHANGED <<disconnecting, released, recvPendingCnt, owner,
                            active, kernel, bytes, calls, history>>

\* SessionManager::ActivateSession.
Activate(t) == /\ At(t, "activate")
               /\ active' = TRUE
               /\ Then(t, <<>>)
               /\ UNCHANGED <<resetFields, owner, ref, kernel, bytes, told,
                              conn, calls, history>>

\* A thread obtains a shared_ptr, from activeSessions or from the queue of the
\* PacketProcessor that ProcessRecv has just put the session in, and will
\* call Disconnect with it.
CallDisconnect(t) == /\ t \in Callers
                     /\ Free(t)
                     /\ active \/ \E u \in Iocp : ref[u] /\ At(u, "rearm")
                     /\ calls < MaxCalls
                     /\ calls' = calls + 1
                     /\ ref' = [ref EXCEPT ![t] = TRUE]
                     /\ todo' = [todo EXCEPT ![t] = <<"exchange">>]
                     /\ UNCHANGED <<resetFields, owner, active, kernel, bytes,
                                    told, conn, history>>

\* The shared_ptr of a thread goes out of scope.
Drop(t) == /\ todo[t] = <<>>
           /\ ref[t]
           /\ Hold(owner, active, [ref EXCEPT ![t] = FALSE])
           /\ UNCHANGED <<kernel, todo, bytes, told, conn, calls, history>>

\* IocpCore::Dispatch hands a completed recv to the session behind the raw
\* completion key.
Complete(t) == /\ t \in Iocp
               /\ Free(t)
               /\ kernel > 0
               /\ kernel' = kernel - 1
               /\ \E b \in BOOLEAN : bytes' = [bytes EXCEPT ![t] = b]
               /\ todo' = [todo EXCEPT ![t] = <<"move">>]
               /\ UNCHANGED <<resetFields, refs, told, conn, calls, history>>

-----------------------------------------------------------------------------
(* PacketSession::ProcessRecv                                              *)

Move(t) == /\ At(t, "move")
           /\ ref' = [ref EXCEPT ![t] = owner]
           /\ owner' = FALSE
           /\ Then(t, <<"sub">>)
           /\ UNCHANGED <<resetFields, active, kernel, bytes, told, conn,
                          calls, history>>

Sub(t) == /\ At(t, "sub")
          /\ recvPendingCnt' = recvPendingCnt - 1
          /\ Then(t, IF ref[t] THEN <<"dispatch">> ELSE <<"release">>)
          /\ UNCHANGED <<flags, socket, hasManager, pooled, refs, kernel,
                         bytes, told, conn, calls, history>>

\* No data with a valid socket, or no room for the data: Disconnect and
\* TryRelease.  Otherwise the data is appended and the packets are enqueued.
ProcessRecv(t) == /\ At(t, "dispatch")
                  /\ \/ /\ bytes[t] \/ socket
                        /\ Then(t, <<"exchange", "release">>)
                     \/ /\ bytes[t] \/ ~socket
                        /\ Then(t, <<"rearm">>)
                  /\ UNCHANGED <<resetFields, refs, kernel, bytes, told, conn,
                                 calls, history>>

\* Mutant of Rearm: returns without TryRelease.
RearmOnly(t) == /\ At(t, "rearm")
                /\ Then(t, IF ~isConnected \/ disconnecting THEN <<>>
                                                            ELSE <<"register">>)
                /\ UNCHANGED <<resetFields, refs, kernel, bytes, told, conn,
                               calls, history>>

Rearm(t) == /\ At(t, "rearm")
            /\ Then(t, IF ~isConnected \/ disconnecting THEN <<"release">>
                                                        ELSE <<"register">>)
            /\ UNCHANGED <<resetFields, refs, kernel, bytes, told, conn, calls,
                           history>>

-----------------------------------------------------------------------------
(* Session::RegisterRecv                                                   *)

Register(t) == /\ At(t, "register")
               /\ Then(t, IF ~isConnected \/ disconnecting THEN <<>>
                                                           ELSE <<"own">>)
               /\ UNCHANGED <<resetFields, refs, kernel, bytes, told, conn,
                              calls, history>>

Own(t) == /\ At(t, "own")
          /\ owner' = TRUE
          /\ Then(t, <<"count">>)
          /\ UNCHANGED <<resetFields, active, ref, kernel, bytes, told, conn,
                         calls, history>>

Count(t) == /\ At(t, "count")
            /\ recvPendingCnt' = recvPendingCnt + 1
            /\ Then(t, <<"recv">>)
            /\ stale' = {u \in Threads : At(u, "reset")}
            /\ UNCHANGED <<flags, socket, hasManager, pooled, refs, kernel,
                           bytes, told, conn, calls, robbed>>

\* WSARecv is accepted, or fails: on a closed socket it always does.
Recv(t) == /\ At(t, "recv")
           /\ \/ /\ socket
                 /\ kernel' = kernel + 1
                 /\ Then(t, <<>>)
              \/ /\ kernel' = kernel
                 /\ Then(t, <<"uncount">>)
           /\ UNCHANGED <<resetFields, refs, bytes, told, conn, calls,
                          history>>

\* Mutant of Uncount: no fetch_sub after a WSARecv that failed.
UncountNothing(t) == /\ At(t, "uncount")
                     /\ Then(t, <<"disown">>)
                     /\ UNCHANGED <<resetFields, refs, kernel, bytes, told,
                                    conn, calls, history>>

Uncount(t) == /\ At(t, "uncount")
              /\ recvPendingCnt' = recvPendingCnt - 1
              /\ Then(t, <<"disown">>)
              /\ UNCHANGED <<flags, socket, hasManager, pooled, refs, kernel,
                             bytes, told, conn, calls, history>>

Disown(t) == /\ At(t, "disown")
             /\ Hold(FALSE, active, ref)
             /\ Then(t, <<"exchange", "release">>)
             /\ UNCHANGED <<kernel, bytes, told, conn, calls, history>>

-----------------------------------------------------------------------------
(* Session::Disconnect                                                     *)

\* Mutant of Exchange: the old value of isConnected is not looked at.
ExchangeBlindly(t) == /\ At(t, "exchange")
                      /\ isConnected' = FALSE
                      /\ Then(t, <<"flag", "notify", "close", "release">>)
                      /\ UNCHANGED <<disconnecting, released, recvPendingCnt,
                                     socket, hasManager, pooled, refs, kernel,
                                     bytes, told, conn, calls, history>>

Exchange(t) == /\ At(t, "exchange")
               /\ isConnected' = FALSE
               /\ Then(t, IF isConnected
                          THEN <<"flag", "notify", "close", "release">>
                          ELSE <<"flag", "release">>)
               /\ UNCHANGED <<disconnecting, released, recvPendingCnt, socket,
                              hasManager, pooled, refs, kernel, bytes, told,
                              conn, calls, history>>

Flag(t) == /\ At(t, "flag")
           /\ disconnecting' = TRUE
           /\ Then(t, <<>>)
           /\ UNCHANGED <<isConnected, released, recvPendingCnt, socket,
                          hasManager, pooled, refs, kernel, bytes, told, conn,
                          calls, history>>

\* OnDisconnected.
Notify(t) == /\ At(t, "notify")
             /\ told' = told + 1
             /\ Then(t, <<>>)
             /\ UNCHANGED <<resetFields, refs, kernel, bytes, conn, calls,
                            history>>

\* closesocket; from here on the outstanding recv is aborted.
Close(t) == /\ At(t, "close")
            /\ socket' = FALSE
            /\ Then(t, <<>>)
            /\ UNCHANGED <<flags, recvPendingCnt, hasManager, pooled, refs,
                           kernel, bytes, told, conn, calls, history>>

-----------------------------------------------------------------------------
(* Session::TryRelease                                                     *)

Release(t) == /\ At(t, "release")
              /\ Then(t, IF ~disconnecting \/ released THEN <<>>
                                                       ELSE <<"pending">>)
              /\ UNCHANGED <<resetFields, refs, kernel, bytes, told, conn,
                             calls, history>>

\* Mutant of CheckPending: recvPendingCnt is not looked at.
CheckNothing(t) == /\ At(t, "pending")
                   /\ Then(t, <<"reset", "erase">>)
                   /\ UNCHANGED <<resetFields, refs, kernel, bytes, told, conn,
                                  calls, history>>

CheckPending(t) == /\ At(t, "pending")
                   /\ Then(t, IF recvPendingCnt # 0 THEN <<>>
                                                    ELSE <<"reset", "erase">>)
                   /\ UNCHANGED <<resetFields, refs, kernel, bytes, told, conn,
                                  calls, history>>

\* Some recv needs its owner: the kernel has it or will get it, or its
\* completion is about to take the owner.
NeedsOwner == \/ kernel > 0
              \/ \E u \in Threads :
                    \/ At(u, "move")
                    \/ socket /\ (At(u, "count") \/ At(u, "recv"))

\* The owner that t drops is needed, by a recv that was not yet counted when t
\* saw no recv pending.
Robs(t) == /\ owner /\ NeedsOwner
           /\ t \in stale \/ \E u \in Threads : At(u, "count")

ResetOwner(t) == /\ At(t, "reset")
                 /\ Hold(FALSE, active, ref)
                 /\ Then(t, <<>>)
                 /\ stale' = stale \ {t}
                 /\ robbed' = (robbed \/ Robs(t))
                 /\ UNCHANGED <<kernel, bytes, told, conn, calls>>

\* SessionManager::ReleaseSession.
Erase(t) == /\ At(t, "erase")
            /\ Hold(owner, active /\ ~hasManager, ref)
            /\ Then(t, <<>>)
            /\ UNCHANGED <<kernel, bytes, told, conn, calls, history>>

-----------------------------------------------------------------------------
RecvStep(t) == \/ Move(t) \/ Sub(t) \/ ProcessRecv(t) \/ Rearm(t)
               \/ Register(t) \/ Own(t) \/ Count(t) \/ Recv(t) \/ Uncount(t)
               \/ Disown(t)

CloseStep(t) == \/ Exchange(t) \/ Flag(t) \/ Notify(t) \/ Close(t)
                \/ Release(t) \/ CheckPending(t) \/ ResetOwner(t) \/ Erase(t)

Step(t) == Activate(t) \/ RecvStep(t) \/ CloseStep(t) \/ Drop(t)

Next == \E t \in Threads : \/ Accept(t)
                           \/ CallDisconnect(t)
                           \/ Complete(t)
                           \/ Step(t)

Spec == Init /\ [][Next]_vars

\* Threads run, and a recv on a closed socket completes.
Fairness == /\ \A t \in Threads : WF_vars(Step(t))
            /\ WF_vars(~socket /\ \E t \in Iocp : Complete(t))

FairSpec == Spec /\ Fairness

-----------------------------------------------------------------------------
\* The only way for an object with a recv in the kernel into the pool is that
\* two calls of Disconnect overlap a RegisterRecv: the one that finds the
\* session disconnected already does not wait for closesocket, and drops in
\* TryRelease (Session.cpp:166) the owner of a recv that was counted after it
\* had seen none (:164).  Short of that, recvEvent.owner and recvPendingCnt
\* keep the object out of the pool while the kernel may write into its
\* recvEvent.
NoRecvInPool == pooled => kernel = 0 \/ robbed

\* recvPendingCnt counts the recvs that are registered (Session.h:65): those
\* the kernel has, and those a thread has counted but not yet passed to
\* WSARecv, or dequeued but not yet uncounted; so it is zero whenever Reset
\* looks at it (Session.cpp:201), unless an owner was dropped as above.
\* (TypeOK gives the types.)
CountsRecvs ==
    /\ TypeOK
    /\ \/ recvPendingCnt = kernel + Cardinality({t \in Threads :
                        \E l \in {"recv", "uncount", "move", "sub"} : At(t, l)})
       \/ robbed

\* OnDisconnected runs at most once per connection, however many threads
\* disconnect it; and once before the object goes back to the pool, unless an
\* owner was dropped as above.
ToldOnce == /\ told <= 1
            /\ pooled /\ conn > 0 => told = 1 \/ robbed

\* A session that disconnects goes back to its pool, whichever of the threads
\* finds recvPendingCnt zero, unless an owner was dropped as above: then
\* recvPendingCnt may never be zero again.
Recycled == disconnecting ~> pooled \/ robbed
=============================================================================
