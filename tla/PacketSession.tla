--------------------------- MODULE PacketSession ---------------------------
(***************************************************************************)
(* The receive half of one PacketSession (ServerCore/PacketSession.cpp):   *)
(* the IOCP thread that runs ProcessRecv appends what a recv brought to    *)
(* packetBuffer, and the threads of the PacketProcessor cut packets off    *)
(* its front in ProcessPacket2.                                            *)
(*                                                                         *)
(* ProcessPacket2 touches the buffer under packetMutex; ProcessRecv does   *)
(* not take it.  So one action is a lock region of ProcessPacket2 cut at   *)
(* its writes to the shared fields, and one access of ProcessRecv.         *)
(*                                                                         *)
(* The client's byte stream is a sequence of units; unit p, if a header    *)
(* starts there, declares a packet of Declared[p] units.  The payload of   *)
(* packets declares something too, which matters only if framing is lost.  *)
(***************************************************************************)
EXTENDS HandlerThreads, Naturals, Sequences

CONSTANTS Cap,        \* sizeof(packetBuffer)
          HeaderSize, \* sizeof(PacketHeader)
          Chunk,      \* most that one recv brings
          Declared,   \* the stream of a client
          Pipelined,  \* the client does not wait for the answer to a packet
          MaxConns    \* bound: connections the object serves

ASSUME SizesAssumption ==
    /\ Cap \in Nat /\ HeaderSize \in Nat /\ Chunk \in Nat /\ MaxConns \in Nat
    /\ HeaderSize >= 1
    /\ HeaderSize <= Cap
ASSUME StreamAssumption == Declared \in Seq(Nat) /\ Pipelined \in BOOLEAN

StreamLen == Len(Declared)
Units == 0..StreamLen       \* 0 is a zeroed byte

\* The size field of a header that starts with unit u.
SizeField(u) == IF u = 0 THEN 0 ELSE Declared[u]

VARIABLES sent,       \* units the client has put on the wire
          arrived,    \* units that a recv has brought
          recvd,      \* numOfBytes of the recv in progress
          rpc,        \* where the IOCP thread is
          loaded,     \* its copy of packetBufferSize within +=
          buf,        \* packetBuffer
          size,       \* packetBufferSize
          processing, \* packetQueueProcessing
          queued,     \* entries of this session in the PacketProcessor
          wpc,        \* where each worker is
          packet,     \* the worker's local copy of a packet
          remain,     \* the worker's local remainSize
          handled,    \* units passed to OnRecvPacket, in order
          closed,     \* "no" while isConnected, else who closed it
          conn        \* connections served so far

recvVars == <<sent, arrived, recvd, rpc, loaded>>
vars == <<sent, arrived, recvd, rpc, loaded, buf, size, processing, queued,
          wpc, packet, remain, handled, closed, conn>>

\* wait      a recv is registered
\* check     ProcessRecv, before the test for room
\* copy load store  before memcpy, and in the two halves of packetBufferSize +=
\* exchange  before packetQueueProcessing.exchange
\* enqueue   packetQueueProcessing won
\* rearm     before the test that leads to RegisterRecv
\* off       no recv is registered and none will be
RecvLabels == {"wait", "check", "copy", "load", "store", "exchange",
               "enqueue", "rearm", "off"}

\* idle      waiting for the queue of the PacketProcessor
\* frame     at the head of the loop, without the lock
\* shift     lock held, the packet is copied out
\* resize    lock held, memmove is done
\* deliver   lock released
\* clear     out of the loop
\* recheck   packetQueueProcessing stored, without the lock
\* reflag    lock held, a complete packet was seen
\* requeue   lock held, packetQueueProcessing won
WorkLabels == {"idle", "frame", "shift", "resize", "deliver", "clear",
               "recheck", "reflag", "requeue"}

IsConnected == closed = "no"
Locked == \E w \in Workers : wpc[w] \in {"shift", "resize", "reflag", "requeue"}

\* The types of the fields and locals.
TypeOK == /\ sent \in Nat /\ arrived \in Nat /\ recvd \in Nat /\ loaded \in Nat
          /\ arrived <= sent /\ sent <= StreamLen
          /\ recvd <= arrived
          /\ rpc \in RecvLabels
          /\ buf \in [1..Cap -> Units]
          /\ size \in Nat
          /\ processing \in BOOLEAN
          /\ queued \in Nat
          /\ wpc \in [Workers -> WorkLabels]
          /\ packet \in [Workers -> Seq(Units)]
          /\ remain \in [Workers -> Nat]
          /\ handled \in Seq(Units)
          /\ closed \in {"no", "peer", "room", "frame"}
          /\ conn \in Nat

\* A new object after CreateSocket, ActivateSession and the first RegisterRecv.
Init == /\ sent = 0 /\ arrived = 0 /\ recvd = 0 /\ loaded = 0
        /\ rpc = "wait"
        /\ buf = [i \in 1..Cap |-> 0]
        /\ size = 0
        /\ processing = FALSE
        /\ queued = 0
        /\ wpc = [w \in Workers |-> "idle"]
        /\ packet = [w \in Workers |-> <<>>]
        /\ remain = [w \in Workers |-> 0]
        /\ handled = <<>>
        /\ closed = "no"
        /\ conn = 1

-----------------------------------------------------------------------------
\* The client sends its next packet; unless it pipelines, only after the
\* server has handled all it sent before.
ClientSend == /\ sent < StreamLen
              /\ IsConnected
              /\ Pipelined \/ Len(handled) = sent
              /\ LET n == sent + Declared[sent + 1]
                 IN  sent' = IF n <= StreamLen /\ n > sent THEN n ELSE StreamLen
              /\ UNCHANGED <<arrived, recvd, rpc, loaded, buf, size, processing,
                             queued, wpc, packet, remain, handled, closed, conn>>

\* Another thread disconnects the session.
Disconnect == /\ IsConnected
              /\ closed' = "peer"
              /\ UNCHANGED <<recvVars, buf, size, processing, queued, wpc,
                             packet, remain, handled, conn>>

-----------------------------------------------------------------------------
\* The recv completes with data.
RecvData == /\ rpc = "wait"
            /\ \E n \in 1..Chunk :
                  /\ arrived + n <= sent
                  /\ recvd' = n
                  /\ arrived' = arrived + n
            /\ rpc' = "check"
            /\ UNCHANGED <<sent, loaded, buf, size, processing, queued, wpc,
                           packet, remain, handled, closed, conn>>

\* It completes with 0 bytes while the socket is valid: Disconnect and out.
RecvEnd == /\ rpc = "wait"
           /\ recvd' = 0
           /\ closed' = IF IsConnected THEN "peer" ELSE closed
           /\ rpc' = "off"
           /\ UNCHANGED <<sent, arrived, loaded, buf, size, processing, queued,
                          wpc, packet, remain, handled, conn>>

\* It completes with 0 bytes after closesocket: ProcessRecv goes on.
RecvAborted == /\ rpc = "wait"
               /\ ~IsConnected
               /\ recvd' = 0
               /\ rpc' = "check"
               /\ UNCHANGED <<sent, arrived, loaded, buf, size, processing,
                              queued, wpc, packet, remain, handled, closed, conn>>

\* Mutant of HasRoom: what is already in the buffer is forgotten.
HasRoomWhenEmpty == recvd <= Cap

\* The test for room; without room, Disconnect.
HasRoom == size + recvd <= Cap

CheckRoom == /\ rpc = "check"
             /\ rpc' = IF HasRoom THEN "copy" ELSE "off"
             /\ closed' = IF IsConnected /\ ~HasRoom THEN "room" ELSE closed
             /\ UNCHANGED <<sent, arrived, recvd, loaded, buf, size, processing,
                            queued, wpc, packet, remain, handled, conn>>

\* Mutants of Copy: copies from one past the start of recvEvent.buffer, and to
\* the start of packetBuffer.
CopyShifted == /\ rpc = "copy"
               /\ buf' = [i \in 1..Cap |->
                             IF i \in size + 1 .. size + recvd
                             THEN (arrived - recvd) + (i - size) + 1
                             ELSE buf[i]]
               /\ rpc' = "load"
               /\ UNCHANGED <<sent, arrived, recvd, loaded, size, processing,
                              queued, wpc, packet, remain, handled, closed, conn>>

CopyToFront == /\ rpc = "copy"
               /\ buf' = [i \in 1..Cap |->
                             IF i \in 1..recvd THEN (arrived - recvd) + i
                                             ELSE buf[i]]
               /\ rpc' = "load"
               /\ UNCHANGED <<sent, arrived, recvd, loaded, size, processing,
                              queued, wpc, packet, remain, handled, closed, conn>>

\* memcpy to packetBuffer + packetBufferSize.
Copy == /\ rpc = "copy"
        /\ buf' = [i \in 1..Cap |->
                      IF i \in size + 1 .. size + recvd
                      THEN (arrived - recvd) + (i - size)
                      ELSE buf[i]]
        /\ rpc' = "load"
        /\ UNCHANGED <<sent, arrived, recvd, loaded, size, processing, queued,
                       wpc, packet, remain, handled, closed, conn>>

Load == /\ rpc = "load"
        /\ loaded' = size
        /\ rpc' = "store"
        /\ UNCHANGED <<sent, arrived, recvd, buf, size, processing, queued,
                       wpc, packet, remain, handled, closed, conn>>

Store == /\ rpc = "store"
         /\ size' = loaded + recvd
         /\ rpc' = "exchange"
         /\ UNCHANGED <<sent, arrived, recvd, loaded, buf, processing, queued,
                        wpc, packet, remain, handled, closed, conn>>

\* Mutant of Exchange: enqueues whatever the old value was.
ExchangeBlindly == /\ rpc = "exchange"
                   /\ processing' = TRUE
                   /\ rpc' = "enqueue"
                   /\ UNCHANGED <<sent, arrived, recvd, loaded, buf, size,
                                  queued, wpc, packet, remain, handled, closed,
                                  conn>>

Exchange == /\ rpc = "exchange"
            /\ processing' = TRUE
            /\ rpc' = IF processing THEN "rearm" ELSE "enqueue"
            /\ UNCHANGED <<sent, arrived, recvd, loaded, buf, size, queued,
                           wpc, packet, remain, handled, closed, conn>>

CallEnqueue == /\ rpc = "enqueue"
               /\ queued' = queued + 1
               /\ rpc' = "rearm"
               /\ UNCHANGED <<sent, arrived, recvd, loaded, buf, size, processing,
                              wpc, packet, remain, handled, closed, conn>>

\* RegisterRecv, unless the session got disconnected.
Rearm == /\ rpc = "rearm"
         /\ rpc' = IF IsConnected THEN "wait" ELSE "off"
         /\ UNCHANGED <<sent, arrived, recvd, loaded, buf, size, processing,
                        queued, wpc, packet, remain, handled, closed, conn>>

\* What happens without the client's closing its end.
RecvOn == \/ RecvData \/ RecvAborted \/ CheckRoom \/ Copy \/ Load \/ Store
          \/ Exchange \/ CallEnqueue \/ Rearm

ProcessRecv == RecvOn \/ RecvEnd

-----------------------------------------------------------------------------
At(w, label) == wpc[w] = label
Goto(w, label) == wpc' = [wpc EXCEPT ![w] = label]

\* WorkerThread takes the session off the queue and calls ProcessPacket2.
Take(w) == /\ At(w, "idle")
           /\ queued > 0
           /\ queued' = queued - 1
           /\ Goto(w, "frame")
           /\ UNCHANGED <<recvVars, buf, size, processing, packet, remain,
                          handled, closed, conn>>

\* The lock region up to `break': less than a packet, or a bad header.
NoPacket == \/ size < HeaderSize
            \/ SizeField(buf[1]) < HeaderSize
            \/ size < SizeField(buf[1])

\* Mutant of FrameNone: a bad header also empties the buffer.
FrameNoneEmpties(w) ==
    /\ At(w, "frame")
    /\ ~Locked
    /\ NoPacket
    /\ LET bad == size >= HeaderSize /\ SizeField(buf[1]) < HeaderSize
       IN  /\ closed' = IF IsConnected /\ bad THEN "frame" ELSE closed
           /\ size' = IF bad THEN 0 ELSE size
    /\ Goto(w, "clear")
    /\ UNCHANGED <<recvVars, buf, processing, queued, packet, remain, handled,
                   conn>>

FrameNone(w) ==
    /\ At(w, "frame")
    /\ ~Locked
    /\ NoPacket
    /\ closed' = IF /\ IsConnected
                    /\ size >= HeaderSize
                    /\ SizeField(buf[1]) < HeaderSize
                 THEN "frame" ELSE closed
    /\ Goto(w, "clear")
    /\ UNCHANGED <<recvVars, buf, size, processing, queued, packet, remain,
                   handled, conn>>

\* The lock region up to the copy of the packet.
FramePacket(w) ==
    /\ At(w, "frame")
    /\ ~Locked
    /\ ~NoPacket
    /\ packet' = [packet EXCEPT ![w] = [i \in 1..SizeField(buf[1]) |-> buf[i]]]
    /\ Goto(w, "shift")
    /\ UNCHANGED <<recvVars, buf, size, processing, queued, remain, handled,
                   closed, conn>>

\* remainSize and memmove.
Shift(w) ==
    /\ At(w, "shift")
    /\ remain' = [remain EXCEPT ![w] = size - Len(packet[w])]
    /\ buf' = [i \in 1..Cap |-> IF i <= remain'[w] THEN buf[i + Len(packet[w])]
                                                   ELSE buf[i]]
    /\ Goto(w, "resize")
    /\ UNCHANGED <<recvVars, size, processing, queued, packet, handled, closed,
                   conn>>

\* packetBufferSize = remainSize, and the lock is released.
Resize(w) ==
    /\ At(w, "resize")
    /\ size' = remain[w]
    /\ remain' = [remain EXCEPT ![w] = 0]
    /\ Goto(w, "deliver")
    /\ UNCHANGED <<recvVars, buf, processing, queued, packet, handled, closed,
                   conn>>

\* OnRecvPacket; the loop goes on while the session is connected.
Deliver(w) ==
    /\ At(w, "deliver")
    /\ handled' = handled \o packet[w]
    /\ packet' = [packet EXCEPT ![w] = <<>>]
    /\ Goto(w, IF IsConnected THEN "frame" ELSE "clear")
    /\ UNCHANGED <<recvVars, buf, size, processing, queued, remain, closed, conn>>

\* Mutant of Clear: packetQueueProcessing stays set.
ClearNothing(w) == /\ At(w, "clear")
                   /\ Goto(w, "recheck")
                   /\ UNCHANGED <<recvVars, buf, size, processing, queued,
                                  packet, remain, handled, closed, conn>>

\* packetQueueProcessing.store(false).
Clear(w) == /\ At(w, "clear")
            /\ processing' = FALSE
            /\ Goto(w, "recheck")
            /\ UNCHANGED <<recvVars, buf, size, queued, packet, remain, handled,
                           closed, conn>>

\* Mutant of Recheck: the buffer is not looked at again.
RecheckNever(w) == /\ At(w, "recheck")
                   /\ ~Locked
                   /\ Goto(w, "idle")
                   /\ UNCHANGED <<recvVars, buf, size, processing, queued,
                                  packet, remain, handled, closed, conn>>

CompletePacketLocked == /\ size >= HeaderSize
                        /\ SizeField(buf[1]) >= HeaderSize
                        /\ size >= SizeField(buf[1])

\* The second lock region.
Recheck(w) == /\ At(w, "recheck")
              /\ ~Locked
              /\ Goto(w, IF CompletePacketLocked THEN "reflag" ELSE "idle")
              /\ UNCHANGED <<recvVars, buf, size, processing, queued, packet,
                             remain, handled, closed, conn>>

Reflag(w) == /\ At(w, "reflag")
             /\ processing' = TRUE
             /\ Goto(w, IF processing THEN "idle" ELSE "requeue")
             /\ UNCHANGED <<recvVars, buf, size, queued, packet, remain,
                            handled, closed, conn>>

Requeue(w) == /\ At(w, "requeue")
              /\ queued' = queued + 1
              /\ Goto(w, "idle")
              /\ UNCHANGED <<recvVars, buf, size, processing, packet, remain,
                             handled, closed, conn>>

ProcessPacket2(w) == \/ FrameNone(w) \/ FramePacket(w) \/ Shift(w) \/ Resize(w)
                     \/ Deliver(w) \/ Clear(w) \/ Recheck(w) \/ Reflag(w)
                     \/ Requeue(w)

\* The last shared_ptr is gone: Reset, and the object serves a new client
\* whose stream starts over.
Recycle == /\ conn < MaxConns
           /\ ~IsConnected
           /\ rpc = "off"
           /\ queued = 0
           /\ \A w \in Workers : At(w, "idle")
           /\ buf' = [i \in 1..Cap |-> 0]
           /\ size' = 0
           /\ processing' = FALSE
           /\ rpc' = "wait"
           /\ closed' = "no"
           /\ conn' = conn + 1
           /\ sent' = 0 /\ arrived' = 0 /\ recvd' = 0 /\ loaded' = 0
           /\ handled' = <<>>
           /\ UNCHANGED <<queued, wpc, packet, remain>>

Next == \/ ClientSend
        \/ Disconnect
        \/ ProcessRecv
        \/ \E w \in Workers : Take(w) \/ ProcessPacket2(w)
        \/ Recycle

Spec == Init /\ [][Next]_vars

\* Every thread that can run does, the data of a connection arrives and the
\* recv of a closed socket is aborted; nothing makes a client leave.
Fairness == /\ WF_vars(RecvOn)
            /\ \A w \in Workers : WF_vars(Take(w) \/ ProcessPacket2(w))

FairSpec == Spec /\ Fairness

-----------------------------------------------------------------------------
\* The threads that owe the session a look at its buffer: the entry in the
\* queue, the worker between Take and packetQueueProcessing.store(false), and
\* whoever has won packetQueueProcessing and is about to enqueue.
Working(w) == wpc[w] \in {"frame", "shift", "resize", "deliver", "clear", "requeue"}

\* The session is in the PacketProcessor once or is processed by one worker,
\* never both and never twice, so OnRecvPacket of a session is never entered
\* by two workers: what packetQueueProcessing is for (PacketSession.h:29).
OneWorker == /\ \A v, w \in Workers : Working(v) /\ Working(w) => v = w
             /\ queued <= 1
             /\ queued = 1 \/ rpc = "enqueue" => \A w \in Workers : ~Working(w)
             /\ queued = 1 => rpc # "enqueue"

\* packetQueueProcessing is set exactly while one of them exists.
Claimed == LET owed == \/ queued > 0
                       \/ rpc = "enqueue"
                       \/ \E w \in Workers : Working(w)
           IN  (processing => owed) /\ (owed => processing)

\* memcpy, memmove and the copy of a packet stay within packetBuffer, even
\* though ProcessRecv works on the size without the lock: a stale size is
\* never below the true one, and the room that was checked is still there.
InBounds == /\ size <= Cap
            /\ rpc \in {"copy", "load"} => size + recvd <= Cap
            /\ rpc = "store" => size <= loaded /\ loaded + recvd <= Cap
            /\ \A w \in Workers :
                  /\ wpc[w] = "shift" => Len(packet[w]) <= size
                  /\ wpc[w] = "resize" => remain[w] <= size

\* No lost wake-up: a complete packet in the buffer has a thread that will
\* still look at the buffer.
NoStranded == IsConnected /\ ~NoPacket =>
                 \/ processing
                 \/ rpc \in {"store", "exchange"}
                 \/ \E w \in Workers : wpc[w] \in {"recheck", "reflag"}

\* As long as the session is connected, the packets reach OnRecvPacket whole,
\* once and in order: together they are a prefix of the client's stream.  (Once
\* it is not, the aborted recv's `packetBufferSize += 0' can bring a packet
\* back that a worker has just removed.)
InStreamOrder == IsConnected => \A i \in 1..Len(handled) : handled[i] = i

\* A header that declares less than its own size ends the stream: after the
\* Disconnect of ProcessPacket2 nothing that a recv still in progress appends
\* reaches OnRecvPacket.
NothingAfterBadHeader ==
    [][closed = "frame" /\ closed' = "frame" => handled' = handled]_vars

\* Every packet the client sends is handled, unless the client or somebody
\* else closes the session: want of room or a bad header is no excuse.
Handled == \A n \in 1..StreamLen :
              sent >= n ~> (Len(handled) >= n \/ closed = "peer")
=============================================================================
