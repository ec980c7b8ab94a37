-------------------------- MODULE PacketProcessor --------------------------
(***************************************************************************)
(* The thread pool that runs ProcessPacket2 (ServerCore/PacketProcessor):  *)
(* a queue of sessions under queueMutex, a condition variable, Enqueue by  *)
(* the IOCP threads and by the workers themselves, and Stop by the thread  *)
(* that ends the server.                                                   *)
(*                                                                         *)
(* One action is one lock region, one notification or one access to the    *)
(* atomic `running'.  Only the region of WorkerThread is cut in two: Stop  *)
(* stores running and notifies without the lock, so it may fall between a  *)
(* worker's test of the predicate and its wait.                            *)
(***************************************************************************)
EXTENDS HandlerThreads, Naturals, Sequences, FiniteSets

CONSTANTS Producers,  \* the IOCP worker threads
          Sessions,   \* the sessions that receive packets
          None,       \* no session
          MaxEnqueues \* bound: sessions pushed in a behaviour

ASSUME RolesAssumption == Workers \cap Producers = {}
ASSUME FiniteAssumption == IsFiniteSet(Workers) /\ IsFiniteSet(Producers)
ASSUME NoneAssumption == None \notin Sessions
ASSUME MaxEnqueuesAssumption == MaxEnqueues \in Nat

Threads == Workers \cup Producers

VARIABLES running,      \* std::atomic<bool>
          packetQueue,  \* sessions, front first
          pc,           \* where each thread is
          session,      \* the session a thread enqueues or processes
          claimed,      \* sessions whose packetQueueProcessing is set
          stopper,      \* where the thread that owns the pool is
          pushes        \* sessions pushed so far

poolVars == <<running, packetQueue, pc, session, claimed, stopper, pushes>>

\* idle     a producer between recvs
\* loop     at `while (running)'
\* take     about to evaluate the predicate of cv.wait under the lock
\* block    the predicate is false; queueMutex is still held
\* wait     blocked in cv.wait, which has released the lock
\* process  in the loop of ProcessPacket2
\* recheck  in ProcessPacket2, packetQueueProcessing is stored
\* push     in Enqueue, before its lock region
\* notify   in Enqueue, before notify_one
\* gone     WorkerThread has returned
Labels == {"idle", "loop", "take", "block", "wait", "process", "recheck",
           "push", "notify", "gone"}

\* starting  before Start        clearing  in Stop, running is false
\* started   Start has returned  notifying in Stop, the queue is cleared
\* joining   in Stop, all are notified       stopped  Stop has returned
Phases == {"starting", "started", "clearing", "notifying", "joining", "stopped"}

\* The types of the fields and locals.
PoolTypeOK == /\ running \in BOOLEAN
              /\ packetQueue \in Seq(Sessions)
              /\ pc \in [Threads -> Labels]
              /\ session \in [Threads -> Sessions \cup {None}]
              /\ \A t \in Threads :
                    pc[t] \in {"process", "recheck", "push"} => session[t] # None
              /\ claimed \subseteq Sessions
              /\ stopper \in Phases
              /\ pushes \in Nat

PoolInit == /\ running = FALSE
            /\ packetQueue = <<>>
            /\ pc = [t \in Threads |-> IF t \in Workers THEN "gone" ELSE "idle"]
            /\ session = [t \in Threads |-> None]
            /\ claimed = {}
            /\ stopper = "starting"
            /\ pushes = 0

ThreadAt(t, label) == pc[t] = label
ThreadTo(t, label) == pc' = [pc EXCEPT ![t] = label]

Waiting == {w \in Workers : ThreadAt(w, "wait")}

\* queueMutex is free; every other lock region is one step.
Unlocked == \A w \in Workers : ~ThreadAt(w, "block")

-----------------------------------------------------------------------------
Start == /\ stopper = "starting"
         /\ stopper' = "started"
         /\ running' = TRUE
         /\ pc' = [t \in Threads |-> IF t \in Workers THEN "loop" ELSE pc[t]]
         /\ UNCHANGED <<packetQueue, session, claimed, pushes>>

\* Stop: running = false.
StopRunning == /\ stopper = "started"
               /\ stopper' = "clearing"
               /\ running' = FALSE
               /\ UNCHANGED <<packetQueue, pc, session, claimed, pushes>>

\* Mutant of StopClear: the queue is emptied without the lock.
StopClearUnlocked == /\ stopper = "clearing"
                     /\ stopper' = "notifying"
                     /\ packetQueue' = <<>>
                     /\ UNCHANGED <<running, pc, session, claimed, pushes>>

\* Stop: the lock region that empties the queue.
StopClear == /\ stopper = "clearing"
             /\ Unlocked
             /\ stopper' = "notifying"
             /\ packetQueue' = <<>>
             /\ UNCHANGED <<running, pc, session, claimed, pushes>>

\* Stop: notify_all.
StopNotify == /\ stopper = "notifying"
              /\ stopper' = "joining"
              /\ pc' = [t \in Threads |-> IF t \in Waiting THEN "take" ELSE pc[t]]
              /\ UNCHANGED <<running, packetQueue, session, claimed, pushes>>

\* Stop: the joins and workers.clear.
StopJoin == /\ stopper = "joining"
            /\ \A w \in Workers : ThreadAt(w, "gone")
            /\ stopper' = "stopped"
            /\ UNCHANGED <<running, packetQueue, pc, session, claimed, pushes>>

Stop == StopRunning \/ StopClear \/ StopNotify \/ StopJoin

-----------------------------------------------------------------------------
\* The test of the loop.
Loop(w) == /\ ThreadAt(w, "loop")
           /\ ThreadTo(w, IF running THEN "take" ELSE "gone")
           /\ UNCHANGED <<running, packetQueue, session, claimed, stopper, pushes>>

\* The predicate is false.
Block(w) == /\ ThreadAt(w, "take")
            /\ Unlocked
            /\ packetQueue = <<>>
            /\ running
            /\ ThreadTo(w, "block")
            /\ UNCHANGED <<running, packetQueue, session, claimed, stopper, pushes>>

\* cv.wait releases the lock and blocks, whatever running has become.
Sleep(w) == /\ ThreadAt(w, "block")
            /\ ThreadTo(w, "wait")
            /\ UNCHANGED <<running, packetQueue, session, claimed, stopper, pushes>>

\* Stopping with an empty queue.
Leave(w) == /\ ThreadAt(w, "take")
            /\ Unlocked
            /\ packetQueue = <<>>
            /\ ~running
            /\ ThreadTo(w, "gone")
            /\ UNCHANGED <<running, packetQueue, session, claimed, stopper, pushes>>

\* Mutant of TakeFront: back and pop_back, the last pushed session.
TakeBack(w) == /\ ThreadAt(w, "take")
               /\ Unlocked
               /\ packetQueue # <<>>
               /\ session' = [session EXCEPT ![w] = packetQueue[Len(packetQueue)]]
               /\ packetQueue' = SubSeq(packetQueue, 1, Len(packetQueue) - 1)
               /\ ThreadTo(w, "process")
               /\ UNCHANGED <<running, claimed, stopper, pushes>>

TakeFront(w) == /\ ThreadAt(w, "take")
                /\ Unlocked
                /\ packetQueue # <<>>
                /\ session' = [session EXCEPT ![w] = Head(packetQueue)]
                /\ packetQueue' = Tail(packetQueue)
                /\ ThreadTo(w, "process")
                /\ UNCHANGED <<running, claimed, stopper, pushes>>

\* ProcessPacket2 leaves its loop: packetQueueProcessing.store(false).
Process(w) == /\ ThreadAt(w, "process")
              /\ claimed' = claimed \ {session[w]}
              /\ ThreadTo(w, "recheck")
              /\ UNCHANGED <<running, packetQueue, session, stopper, pushes>>

\* ProcessPacket2 ends: there is no complete packet or somebody else has won
\* packetQueueProcessing.
RecheckNone(w) == /\ ThreadAt(w, "recheck")
                  /\ session' = [session EXCEPT ![w] = None]
                  /\ ThreadTo(w, "loop")
                  /\ UNCHANGED <<running, packetQueue, claimed, stopper, pushes>>

\* A packet was completed in the meantime and the worker wins it.
RecheckMore(w) == /\ ThreadAt(w, "recheck")
                  /\ session[w] \notin claimed
                  /\ pushes < MaxEnqueues
                  /\ pushes' = pushes + 1
                  /\ claimed' = claimed \cup {session[w]}
                  /\ ThreadTo(w, "push")
                  /\ UNCHANGED <<running, packetQueue, session, stopper>>

\* cv.wait may return without a notification; the predicate is tested again.
WakeSpuriously(w) == /\ ThreadAt(w, "wait")
                     /\ ThreadTo(w, "take")
                     /\ UNCHANGED <<running, packetQueue, session, claimed,
                                    stopper, pushes>>

-----------------------------------------------------------------------------
\* Mutant of Receive: enqueues whatever packetQueueProcessing was.
ReceiveBlindly(p, s) == /\ ThreadAt(p, "idle")
                        /\ stopper # "starting"
                        /\ pushes < MaxEnqueues
                        /\ pushes' = pushes + 1
                        /\ claimed' = claimed \cup {s}
                        /\ session' = [session EXCEPT ![p] = s]
                        /\ ThreadTo(p, "push")
                        /\ UNCHANGED <<running, packetQueue, stopper>>

\* ProcessRecv on an IOCP thread wins packetQueueProcessing of s.
Receive(p, s) == /\ ThreadAt(p, "idle")
                 /\ stopper # "starting"
                 /\ s \notin claimed
                 /\ pushes < MaxEnqueues
                 /\ pushes' = pushes + 1
                 /\ claimed' = claimed \cup {s}
                 /\ session' = [session EXCEPT ![p] = s]
                 /\ ThreadTo(p, "push")
                 /\ UNCHANGED <<running, packetQueue, stopper>>

\* Enqueue: the lock region.
Push(t) == /\ ThreadAt(t, "push")
           /\ Unlocked
           /\ packetQueue' = Append(packetQueue, session[t])
           /\ session' = [session EXCEPT ![t] = None]
           /\ ThreadTo(t, "notify")
           /\ UNCHANGED <<running, claimed, stopper, pushes>>

\* Enqueue: notify_one wakes some waiting worker if there is one.
AfterEnqueue(t) == IF t \in Workers THEN "loop" ELSE "idle"

\* Mutant of NotifyOne: nobody is woken.
NotifyNobody(t) == /\ ThreadAt(t, "notify")
                   /\ ThreadTo(t, AfterEnqueue(t))
                   /\ UNCHANGED <<running, packetQueue, session, claimed,
                                  stopper, pushes>>

NotifyOne(t) ==
    /\ ThreadAt(t, "notify")
    /\ IF Waiting = {}
       THEN ThreadTo(t, AfterEnqueue(t))
       ELSE \E w \in Waiting :
               pc' = [pc EXCEPT ![t] = AfterEnqueue(t), ![w] = "take"]
    /\ UNCHANGED <<running, packetQueue, session, claimed, stopper, pushes>>

Enqueue(t) == Push(t) \/ NotifyOne(t)

WorkerThread(w) == Loop(w) \/ Block(w) \/ Sleep(w) \/ Leave(w) \/ TakeFront(w)
                   \/ Process(w) \/ RecheckNone(w) \/ RecheckMore(w)

PoolNext == \/ Start
            \/ Stop
            \/ \E w \in Workers : WorkerThread(w) \/ WakeSpuriously(w)
            \/ \E p \in Producers, s \in Sessions : Receive(p, s)
            \/ \E t \in Threads : Enqueue(t)

PoolSpec == PoolInit /\ [][PoolNext]_poolVars

\* Every thread that can run does; nothing makes a client send or the owner
\* call Stop, and no wake-up comes for nothing.
PoolFairness == /\ WF_poolVars(Start)
                /\ WF_poolVars(StopClear \/ StopNotify \/ StopJoin)
                /\ \A w \in Workers : WF_poolVars(WorkerThread(w))
                /\ \A t \in Threads : WF_poolVars(Enqueue(t))

PoolFairSpec == PoolSpec /\ PoolFairness

-----------------------------------------------------------------------------
\* Who has the session: its processing worker, a thread about to push it, the
\* queue.
Holders(s) == {t \in Threads : session[t] = s /\ pc[t] \in {"process", "push"}}
Places(s) == {i \in 1..Len(packetQueue) : packetQueue[i] = s}

\* A session is in one place at a time, and then packetQueueProcessing is set;
\* so no two workers run the handlers of one session.  (PoolTypeOK gives the types.)
HeldOnce == PoolTypeOK /\ \A s \in Sessions :
    /\ Cardinality(Holders(s)) + Cardinality(Places(s)) <= 1
    /\ Holders(s) # {} \/ Places(s) # {} => s \in claimed

\* No worker sleeps while a session is in the queue without a wake-up of its
\* own on the way: a notify_one still to come or a worker about to take it.
WorkConserving ==
    Waiting # {} =>
        Len(packetQueue) <= Cardinality({t \in Threads : ThreadAt(t, "notify")})
                          + Cardinality({w \in Workers : ThreadAt(w, "take")})

\* The sessions of the threads at a label.
HeldAt(label) == {session[t] : t \in {u \in Threads : pc[u] = label}}
InQueue == {packetQueue[i] : i \in 1..Len(packetQueue)}

Pool == INSTANCE HandlerPool
        WITH due     <- HeldAt("push"),
             order   <- packetQueue,
             serving <- HeldAt("process"),
             lost    <- claimed \ (HeldAt("push") \cup InQueue \cup HeldAt("process")),
             open    <- stopper \in {"starting", "started"}

\* The queue, the threads and packetQueueProcessing of the sessions implement a
\* pool that serves the sessions in the order of the queue, each by one handler
\* at a time, and that drops one only after Stop was called.
HandlersSpec == Pool!Spec

\* Stop returns: no worker sleeps through running = false, not even one that
\* found it true and blocks only after the store.
StopReturns == stopper = "clearing" ~> stopper = "stopped"
=============================================================================
