------------------------- MODULE ReceivePath_proofs -------------------------
(***************************************************************************)
(* Proofs about what becomes of the bytes of a recv: PacketSession for any *)
(* number of workers, any buffer, and any stream, of a client that         *)
(* pipelines or not; then PacketProcessor for any number of workers, IOCP  *)
(* threads and sessions, and any number of enqueues.                       *)
(***************************************************************************)
EXTENDS PacketSession, PacketProcessor, FiniteSetTheorems, SequenceTheorems,
        TLAPS

\* The constants are what the comments on them say.
LEMMA Constants == /\ StreamLen \in Nat
                   /\ \A u \in Units : SizeField(u) \in Nat
                   /\ \A p \in 1..StreamLen : Declared[p] \in Nat
                   /\ 1 \in 1..Cap
<1>1. StreamLen \in Nat
  BY StreamAssumption, LenProperties DEF StreamLen
<1>2. \A p \in 1..StreamLen : Declared[p] \in Nat
  BY StreamAssumption, ElementOfSeq DEF StreamLen
<1>3. \A u \in Units : u = 0 \/ u \in 1..StreamLen
  BY <1>1 DEF Units
<1> QED
  BY <1>1, <1>2, <1>3, SizesAssumption DEF SizeField

\* What a worker copies out of the buffer is a packet of the size it declares.
LEMMA PacketIsSeq ==
    ASSUME NEW n \in Nat, NEW f, \A i \in 1..n : f[i] \in Units
    PROVE  /\ [i \in 1..n |-> f[i]] \in Seq(Units)
           /\ Len([i \in 1..n |-> f[i]]) = n
  OBVIOUS

-----------------------------------------------------------------------------
(* packetQueueProcessing is a lock handed from the IOCP thread through the  *)
(* queue to a worker.                                                       *)

ClaimInv == OneWorker /\ Claimed

LEMMA ClaimInductive == TypeOK /\ ClaimInv /\ [Next]_vars => ClaimInv'
<1> SUFFICES ASSUME TypeOK, ClaimInv, [Next]_vars
             PROVE  ClaimInv'
  OBVIOUS
<1> USE DEF TypeOK, ClaimInv, OneWorker, Claimed, Working, At, Goto,
            WorkLabels, RecvLabels, recvVars
<1>1. ASSUME ClientSend
      PROVE  ClaimInv'
  BY <1>1 DEF ClientSend
<1>2. ASSUME Disconnect
      PROVE  ClaimInv'
  BY <1>2 DEF Disconnect
<1>3. ASSUME RecvData
      PROVE  ClaimInv'
  BY <1>3 DEF RecvData
<1>4. ASSUME RecvEnd
      PROVE  ClaimInv'
  BY <1>4 DEF RecvEnd
<1>5. ASSUME RecvAborted
      PROVE  ClaimInv'
  BY <1>5 DEF RecvAborted
<1>6. ASSUME CheckRoom
      PROVE  ClaimInv'
  BY <1>6 DEF CheckRoom
<1>7. ASSUME Copy
      PROVE  ClaimInv'
  BY <1>7 DEF Copy
<1>8. ASSUME Load
      PROVE  ClaimInv'
  BY <1>8 DEF Load
<1>9. ASSUME Store
      PROVE  ClaimInv'
  BY <1>9 DEF Store
<1>10. ASSUME Exchange
       PROVE  ClaimInv'
  BY <1>10 DEF Exchange
<1>11. ASSUME CallEnqueue
       PROVE  ClaimInv'
  BY <1>11 DEF CallEnqueue
<1>12. ASSUME Rearm
       PROVE  ClaimInv'
  BY <1>12 DEF Rearm
<1>13. ASSUME NEW w \in Workers, Take(w)
       PROVE  ClaimInv'
  BY <1>13 DEF Take
<1>14. ASSUME NEW w \in Workers, FrameNone(w)
       PROVE  ClaimInv'
  BY <1>14 DEF FrameNone
<1>15. ASSUME NEW w \in Workers, FramePacket(w)
       PROVE  ClaimInv'
  BY <1>15 DEF FramePacket
<1>16. ASSUME NEW w \in Workers, Shift(w)
       PROVE  ClaimInv'
  BY <1>16 DEF Shift
<1>17. ASSUME NEW w \in Workers, Resize(w)
       PROVE  ClaimInv'
  BY <1>17 DEF Resize
<1>18. ASSUME NEW w \in Workers, Deliver(w)
       PROVE  ClaimInv'
  BY <1>18 DEF Deliver
<1>19. ASSUME NEW w \in Workers, Clear(w)
       PROVE  ClaimInv'
  BY <1>19 DEF Clear
<1>20. ASSUME NEW w \in Workers, Recheck(w)
       PROVE  ClaimInv'
  BY <1>20 DEF Recheck
<1>21. ASSUME NEW w \in Workers, Reflag(w)
       PROVE  ClaimInv'
  BY <1>21 DEF Reflag
<1>22. ASSUME NEW w \in Workers, Requeue(w)
       PROVE  ClaimInv'
  BY <1>22 DEF Requeue
<1>23. ASSUME Recycle
       PROVE  ClaimInv'
  BY <1>23 DEF Recycle
<1>24. ASSUME UNCHANGED vars
       PROVE  ClaimInv'
  BY <1>24 DEF vars
<1> QED
  BY <1>1, <1>2, <1>3, <1>4, <1>5, <1>6, <1>7, <1>8, <1>9, <1>10, <1>11,
     <1>12, <1>13, <1>14, <1>15, <1>16, <1>17, <1>18, <1>19, <1>20, <1>21, <1>22, <1>23, <1>24
  DEF Next, ProcessRecv, RecvOn, ProcessPacket2

-----------------------------------------------------------------------------
(* The buffer is never written or read beyond its end.                      *)

LEMMA BoundsInductive ==
    TypeOK /\ ClaimInv /\ InBounds /\ [Next]_vars => InBounds'
<1> SUFFICES ASSUME TypeOK, ClaimInv, InBounds, [Next]_vars
             PROVE  InBounds'
  OBVIOUS
<1> USE SizesAssumption
    DEF TypeOK, InBounds, At, Goto, WorkLabels, RecvLabels, recvVars
<1>unique. \A v, w \in Workers :
              wpc[v] \in {"shift", "resize"} /\ wpc[w] \in {"shift", "resize"} => v = w
  BY DEF ClaimInv, OneWorker, Working
<1>len. \A w \in Workers : Len(packet[w]) \in Nat
  BY LenProperties
<1>1. ASSUME ClientSend
      PROVE  InBounds'
  BY <1>1 DEF ClientSend
<1>2. ASSUME Disconnect
      PROVE  InBounds'
  BY <1>2 DEF Disconnect
<1>3. ASSUME RecvData
      PROVE  InBounds'
  BY <1>3 DEF RecvData
<1>4. ASSUME RecvEnd
      PROVE  InBounds'
  BY <1>4 DEF RecvEnd
<1>5. ASSUME RecvAborted
      PROVE  InBounds'
  BY <1>5 DEF RecvAborted
<1>6. ASSUME CheckRoom
      PROVE  InBounds'
  BY <1>6 DEF CheckRoom, HasRoom
<1>7. ASSUME Copy
      PROVE  InBounds'
  BY <1>7 DEF Copy
<1>8. ASSUME Load
      PROVE  InBounds'
  BY <1>8 DEF Load
<1>9. ASSUME Store
      PROVE  InBounds'
  BY <1>9 DEF Store
<1>10. ASSUME Exchange
       PROVE  InBounds'
  BY <1>10 DEF Exchange
<1>11. ASSUME CallEnqueue
       PROVE  InBounds'
  BY <1>11 DEF CallEnqueue
<1>12. ASSUME Rearm
       PROVE  InBounds'
  BY <1>12 DEF Rearm
<1>13. ASSUME NEW w \in Workers, Take(w)
       PROVE  InBounds'
  BY <1>13 DEF Take
<1>14. ASSUME NEW w \in Workers, FrameNone(w)
       PROVE  InBounds'
  BY <1>14 DEF FrameNone
<1>15. ASSUME NEW w \in Workers, FramePacket(w)
       PROVE  InBounds'
  <2>1. /\ SizeField(buf[1]) \in Nat
        /\ SizeField(buf[1]) <= size
        /\ \A i \in 1..SizeField(buf[1]) : buf[i] \in Units
    BY <1>15, Constants DEF FramePacket, NoPacket
  <2>2. Len(packet'[w]) = SizeField(buf[1])
    BY <1>15, <2>1, PacketIsSeq DEF FramePacket
  <2> QED BY <1>15, <2>1, <2>2, <1>unique DEF FramePacket
<1>16. ASSUME NEW w \in Workers, Shift(w)
       PROVE  InBounds'
  BY <1>16, <1>unique, <1>len DEF Shift
<1>17. ASSUME NEW w \in Workers, Resize(w)
       PROVE  InBounds'
  BY <1>17, <1>unique DEF Resize
<1>18. ASSUME NEW w \in Workers, Deliver(w)
       PROVE  InBounds'
  <2>1. \A v \in Workers : wpc'[v] = "shift" => packet'[v] = packet[v] /\ wpc[v] = "shift"
    BY <1>18 DEF Deliver
  <2> QED BY <1>18, <2>1 DEF Deliver
<1>19. ASSUME NEW w \in Workers, Clear(w)
       PROVE  InBounds'
  BY <1>19 DEF Clear
<1>20. ASSUME NEW w \in Workers, Recheck(w)
       PROVE  InBounds'
  BY <1>20 DEF Recheck
<1>21. ASSUME NEW w \in Workers, Reflag(w)
       PROVE  InBounds'
  BY <1>21 DEF Reflag
<1>22. ASSUME NEW w \in Workers, Requeue(w)
       PROVE  InBounds'
  BY <1>22 DEF Requeue
<1>23. ASSUME Recycle
       PROVE  InBounds'
  BY <1>23 DEF Recycle
<1>24. ASSUME UNCHANGED vars
       PROVE  InBounds'
  BY <1>24 DEF vars
<1> QED
  BY <1>1, <1>2, <1>3, <1>4, <1>5, <1>6, <1>7, <1>8, <1>9, <1>10, <1>11,
     <1>12, <1>13, <1>14, <1>15, <1>16, <1>17, <1>18, <1>19, <1>20, <1>21, <1>22, <1>23, <1>24
  DEF Next, ProcessRecv, RecvOn, ProcessPacket2

-----------------------------------------------------------------------------
(* Types.                                                                   *)

LEMMA TypeInit == Init => TypeOK
<1> SUFFICES ASSUME Init
             PROVE  TypeOK
  OBVIOUS
<1>1. handled \in Seq(Units) /\ packet \in [Workers -> Seq(Units)]
  BY EmptySeq DEF Init
<1>2. 0 \in Units
  BY Constants DEF Units
<1>3. buf \in [1..Cap -> Units] /\ size \in Nat /\ remain \in [Workers -> Nat]
  BY <1>2 DEF Init
<1>4. wpc \in [Workers -> WorkLabels] /\ rpc \in RecvLabels
  BY DEF Init, RecvLabels, WorkLabels
<1>5. /\ sent \in Nat /\ arrived \in Nat /\ recvd \in Nat /\ loaded \in Nat
      /\ arrived <= sent /\ sent <= StreamLen /\ recvd <= arrived
  BY Constants DEF Init
<1> QED
  BY <1>1, <1>3, <1>4, <1>5 DEF Init, TypeOK

LEMMA TypeInductive == TypeOK /\ InBounds /\ [Next]_vars => TypeOK'
<1> SUFFICES ASSUME TypeOK, InBounds, [Next]_vars
             PROVE  TypeOK'
  OBVIOUS
<1> USE SizesAssumption DEF TypeOK, At, Goto, WorkLabels, RecvLabels, recvVars
<1>1. ASSUME ClientSend
      PROVE  TypeOK'
  BY <1>1, Constants DEF ClientSend
<1>2. ASSUME Disconnect
      PROVE  TypeOK'
  BY <1>2 DEF Disconnect
<1>3. ASSUME RecvData
      PROVE  TypeOK'
  BY <1>3 DEF RecvData
<1>4. ASSUME RecvEnd
      PROVE  TypeOK'
  BY <1>4 DEF RecvEnd
<1>5. ASSUME RecvAborted
      PROVE  TypeOK'
  BY <1>5 DEF RecvAborted
<1>6. ASSUME CheckRoom
      PROVE  TypeOK'
  BY <1>6 DEF CheckRoom
<1>7. ASSUME Copy
      PROVE  TypeOK'
  <2>1. \A i \in size + 1 .. size + recvd : (arrived - recvd) + (i - size) \in Units
    BY Constants DEF Units
  <2> QED BY <1>7, <2>1 DEF Copy
<1>8. ASSUME Load
      PROVE  TypeOK'
  BY <1>8 DEF Load
<1>9. ASSUME Store
      PROVE  TypeOK'
  BY <1>9 DEF Store
<1>10. ASSUME Exchange
       PROVE  TypeOK'
  BY <1>10 DEF Exchange
<1>11. ASSUME CallEnqueue
       PROVE  TypeOK'
  BY <1>11 DEF CallEnqueue
<1>12. ASSUME Rearm
       PROVE  TypeOK'
  BY <1>12 DEF Rearm
<1>13. ASSUME NEW w \in Workers, Take(w)
       PROVE  TypeOK'
  BY <1>13 DEF Take
<1>14. ASSUME NEW w \in Workers, FrameNone(w)
       PROVE  TypeOK'
  BY <1>14 DEF FrameNone
<1>15. ASSUME NEW w \in Workers, FramePacket(w)
       PROVE  TypeOK'
  <2>1. /\ SizeField(buf[1]) \in Nat
        /\ \A i \in 1..SizeField(buf[1]) : buf[i] \in Units
    BY <1>15, Constants DEF FramePacket, NoPacket, InBounds
  <2>2. [i \in 1..SizeField(buf[1]) |-> buf[i]] \in Seq(Units)
    BY <2>1, PacketIsSeq
  <2> QED BY <1>15, <2>2 DEF FramePacket
<1>16. ASSUME NEW w \in Workers, Shift(w)
       PROVE  TypeOK'
  <2>1. Len(packet[w]) \in Nat /\ Len(packet[w]) <= size /\ size <= Cap
    BY <1>16, LenProperties DEF Shift, InBounds
  <2>2. size - Len(packet[w]) \in Nat
    BY <2>1
  <2>3. \A i \in 1..Cap : i <= size - Len(packet[w]) => i + Len(packet[w]) \in 1..Cap
    BY <2>1
  <2> QED BY <1>16, <2>2, <2>3 DEF Shift
<1>17. ASSUME NEW w \in Workers, Resize(w)
       PROVE  TypeOK'
  BY <1>17 DEF Resize
<1>18. ASSUME NEW w \in Workers, Deliver(w)
       PROVE  TypeOK'
  <2>1. handled \o packet[w] \in Seq(Units)
    BY ConcatProperties
  <2>2. <<>> \in Seq(Units)
    BY EmptySeq
  <2> QED BY <1>18, <2>1, <2>2 DEF Deliver
<1>19. ASSUME NEW w \in Workers, Clear(w)
       PROVE  TypeOK'
  BY <1>19 DEF Clear
<1>20. ASSUME NEW w \in Workers, Recheck(w)
       PROVE  TypeOK'
  BY <1>20 DEF Recheck
<1>21. ASSUME NEW w \in Workers, Reflag(w)
       PROVE  TypeOK'
  BY <1>21 DEF Reflag
<1>22. ASSUME NEW w \in Workers, Requeue(w)
       PROVE  TypeOK'
  BY <1>22 DEF Requeue
<1>23. ASSUME Recycle
       PROVE  TypeOK'
  <2>1. <<>> \in Seq(Units) /\ 0 \in Units
    BY EmptySeq, Constants DEF Units
  <2>2. /\ buf' \in [1..Cap -> Units] /\ size' \in Nat
        /\ handled' \in Seq(Units)
    BY <1>23, <2>1 DEF Recycle
  <2>3. /\ sent' \in Nat /\ arrived' \in Nat /\ recvd' \in Nat /\ loaded' \in Nat
        /\ arrived' <= sent' /\ sent' <= StreamLen /\ recvd' <= arrived'
    BY <1>23, Constants DEF Recycle
  <2>4. rpc' \in RecvLabels /\ closed' \in {"no", "peer", "room", "frame"}
    BY <1>23 DEF Recycle
  <2>5. conn' \in Nat
    BY <1>23 DEF Recycle
  <2>6. processing' \in BOOLEAN
    BY <1>23 DEF Recycle
  <2>7. UNCHANGED <<queued, wpc, packet, remain>>
    BY <1>23 DEF Recycle
  <2> QED BY <2>2, <2>3, <2>4, <2>5, <2>6, <2>7
<1>24. ASSUME UNCHANGED vars
       PROVE  TypeOK'
  BY <1>24 DEF vars
<1> QED
  BY <1>1, <1>2, <1>3, <1>4, <1>5, <1>6, <1>7, <1>8, <1>9, <1>10, <1>11,
     <1>12, <1>13, <1>14, <1>15, <1>16, <1>17, <1>18, <1>19, <1>20, <1>21, <1>22, <1>23, <1>24
  DEF Next, ProcessRecv, RecvOn, ProcessPacket2

-----------------------------------------------------------------------------
(* A complete packet always has somebody who will look at it.               *)

LEMMA StrandedInductive ==
    TypeOK /\ ClaimInv /\ NoStranded /\ [Next]_vars => NoStranded'
<1> SUFFICES ASSUME TypeOK, ClaimInv, NoStranded, [Next]_vars
             PROVE  NoStranded'
  OBVIOUS
<1> USE SizesAssumption
    DEF TypeOK, NoStranded, IsConnected, NoPacket, At, Goto, WorkLabels,
        RecvLabels, recvVars
<1>work. \A w \in Workers : Working(w) => processing
  BY DEF ClaimInv, Claimed
<1>1. ASSUME ClientSend
      PROVE  NoStranded'
  BY <1>1 DEF ClientSend
<1>2. ASSUME Disconnect
      PROVE  NoStranded'
  BY <1>2 DEF Disconnect
<1>3. ASSUME RecvData
      PROVE  NoStranded'
  BY <1>3 DEF RecvData
<1>4. ASSUME RecvEnd
      PROVE  NoStranded'
  BY <1>4 DEF RecvEnd
<1>5. ASSUME RecvAborted
      PROVE  NoStranded'
  BY <1>5 DEF RecvAborted
<1>6. ASSUME CheckRoom
      PROVE  NoStranded'
  BY <1>6 DEF CheckRoom
<1>7. ASSUME Copy
      PROVE  NoStranded'
  <2>1. size >= HeaderSize => buf'[1] = buf[1]
    BY <1>7, Constants DEF Copy
  <2> QED BY <1>7, <2>1 DEF Copy
<1>8. ASSUME Load
      PROVE  NoStranded'
  BY <1>8 DEF Load
<1>9. ASSUME Store
      PROVE  NoStranded'
  BY <1>9 DEF Store
<1>10. ASSUME Exchange
       PROVE  NoStranded'
  BY <1>10 DEF Exchange
<1>11. ASSUME CallEnqueue
       PROVE  NoStranded'
  BY <1>11 DEF CallEnqueue
<1>12. ASSUME Rearm
       PROVE  NoStranded'
  BY <1>12 DEF Rearm
<1>13. ASSUME NEW w \in Workers, Take(w)
       PROVE  NoStranded'
  BY <1>13 DEF Take
<1>14. ASSUME NEW w \in Workers, FrameNone(w)
       PROVE  NoStranded'
  BY <1>14 DEF FrameNone
<1>15. ASSUME NEW w \in Workers, FramePacket(w)
       PROVE  NoStranded'
  BY <1>15 DEF FramePacket
<1>16. ASSUME NEW w \in Workers, Shift(w)
       PROVE  NoStranded'
  BY <1>16, <1>work DEF Shift, Working
<1>17. ASSUME NEW w \in Workers, Resize(w)
       PROVE  NoStranded'
  BY <1>17, <1>work DEF Resize, Working
<1>18. ASSUME NEW w \in Workers, Deliver(w)
       PROVE  NoStranded'
  BY <1>18 DEF Deliver
<1>19. ASSUME NEW w \in Workers, Clear(w)
       PROVE  NoStranded'
  BY <1>19 DEF Clear
<1>20. ASSUME NEW w \in Workers, Recheck(w)
       PROVE  NoStranded'
  <2>1. HeaderSize \in Nat /\ size \in Nat /\ SizeField(buf[1]) \in Nat
    BY Constants
  <2>2. CompletePacketLocked <=> ~NoPacket
    BY <2>1 DEF CompletePacketLocked
  <2> QED
    BY <1>20, <2>2 DEF Recheck
<1>21. ASSUME NEW w \in Workers, Reflag(w)
       PROVE  NoStranded'
  BY <1>21 DEF Reflag
<1>22. ASSUME NEW w \in Workers, Requeue(w)
       PROVE  NoStranded'
  BY <1>22 DEF Requeue
<1>23. ASSUME Recycle
       PROVE  NoStranded'
  BY <1>23 DEF Recycle
<1>24. ASSUME UNCHANGED vars
       PROVE  NoStranded'
  BY <1>24 DEF vars
<1> QED
  BY <1>1, <1>2, <1>3, <1>4, <1>5, <1>6, <1>7, <1>8, <1>9, <1>10, <1>11,
     <1>12, <1>13, <1>14, <1>15, <1>16, <1>17, <1>18, <1>19, <1>20, <1>21, <1>22, <1>23, <1>24
  DEF Next, ProcessRecv, RecvOn, ProcessPacket2

-----------------------------------------------------------------------------
(* A bad header stays at the front of the buffer, so that no worker cuts    *)
(* another packet off it before the object is recycled.                     *)

BadHeader == size >= HeaderSize /\ SizeField(buf[1]) < HeaderSize

BadInv ==
    closed = "frame" =>
       /\ BadHeader
       /\ \A w \in Workers : wpc[w] \notin {"shift", "resize", "deliver"}

LEMMA BadInductive ==
    TypeOK /\ ClaimInv /\ InBounds /\ BadInv /\ [Next]_vars => BadInv'
<1> SUFFICES ASSUME TypeOK, ClaimInv, InBounds, BadInv, [Next]_vars,
                    closed' = "frame"
             PROVE  BadInv'
  BY DEF BadInv
<1> USE SizesAssumption
    DEF TypeOK, BadInv, BadHeader, At, Goto, WorkLabels, RecvLabels, recvVars
<1>one. \A v, w \in Workers : Working(v) /\ Working(w) => v = w
  BY DEF ClaimInv, OneWorker
<1>1. ASSUME ClientSend
      PROVE  BadInv'
  BY <1>1 DEF ClientSend
<1>2. ASSUME Disconnect
      PROVE  BadInv'
  BY <1>2 DEF Disconnect
<1>3. ASSUME RecvData
      PROVE  BadInv'
  BY <1>3 DEF RecvData
<1>4. ASSUME RecvEnd
      PROVE  BadInv'
  BY <1>4 DEF RecvEnd
<1>5. ASSUME RecvAborted
      PROVE  BadInv'
  BY <1>5 DEF RecvAborted
<1>6. ASSUME CheckRoom
      PROVE  BadInv'
  BY <1>6 DEF CheckRoom
<1>7. ASSUME Copy
      PROVE  BadInv'
  <2>1. size >= HeaderSize => buf'[1] = buf[1]
    BY <1>7, Constants DEF Copy
  <2> QED BY <1>7, <2>1 DEF Copy
<1>8. ASSUME Load
      PROVE  BadInv'
  BY <1>8 DEF Load
<1>9. ASSUME Store
      PROVE  BadInv'
  BY <1>9 DEF Store, InBounds
<1>10. ASSUME Exchange
       PROVE  BadInv'
  BY <1>10 DEF Exchange
<1>11. ASSUME CallEnqueue
       PROVE  BadInv'
  BY <1>11 DEF CallEnqueue
<1>12. ASSUME Rearm
       PROVE  BadInv'
  BY <1>12 DEF Rearm
<1>13. ASSUME NEW w \in Workers, Take(w)
       PROVE  BadInv'
  BY <1>13 DEF Take
<1>14. ASSUME NEW w \in Workers, FrameNone(w)
       PROVE  BadInv'
  <2>1. \A v \in Workers : wpc[v] \notin {"shift", "resize", "deliver"}
    BY <1>14, <1>one DEF FrameNone, Working
  <2> QED BY <1>14, <2>1 DEF FrameNone
<1>15. ASSUME NEW w \in Workers, FramePacket(w)
       PROVE  BadInv'
  BY <1>15, Constants DEF FramePacket, NoPacket
<1>16. ASSUME NEW w \in Workers, Shift(w)
       PROVE  BadInv'
  BY <1>16 DEF Shift
<1>17. ASSUME NEW w \in Workers, Resize(w)
       PROVE  BadInv'
  BY <1>17 DEF Resize
<1>18. ASSUME NEW w \in Workers, Deliver(w)
       PROVE  BadInv'
  BY <1>18 DEF Deliver
<1>19. ASSUME NEW w \in Workers, Clear(w)
       PROVE  BadInv'
  BY <1>19 DEF Clear
<1>20. ASSUME NEW w \in Workers, Recheck(w)
       PROVE  BadInv'
  BY <1>20 DEF Recheck
<1>21. ASSUME NEW w \in Workers, Reflag(w)
       PROVE  BadInv'
  BY <1>21 DEF Reflag
<1>22. ASSUME NEW w \in Workers, Requeue(w)
       PROVE  BadInv'
  BY <1>22 DEF Requeue
<1>23. ASSUME Recycle
       PROVE  BadInv'
  BY <1>23 DEF Recycle
<1>24. ASSUME UNCHANGED vars
       PROVE  BadInv'
  BY <1>24 DEF vars
<1> QED
  BY <1>1, <1>2, <1>3, <1>4, <1>5, <1>6, <1>7, <1>8, <1>9, <1>10, <1>11,
     <1>12, <1>13, <1>14, <1>15, <1>16, <1>17, <1>18, <1>19, <1>20, <1>21, <1>22, <1>23, <1>24
  DEF Next, ProcessRecv, RecvOn, ProcessPacket2

-----------------------------------------------------------------------------
(* A client that waits for the answer to a packet finds its packets handled *)
(* whole and in order.  (One that does not wait can lose the order: a       *)
(* worker shifts the buffer under a recv that is being appended.)           *)

Cutting(w) == wpc[w] \in {"shift", "resize", "deliver"}
Appending == rpc \in {"check", "copy", "load", "store"}

\* Where the client stops after a packet that starts after unit h.
PacketEnd(h) == LET n == h + Declared[h + 1]
                IN  IF n <= StreamLen /\ n > h THEN n ELSE StreamLen

\* No packet is being cut off: the buffer has what has arrived and is not
\* handled, but for what the IOCP thread is appending.
BufferInv(h) ==
    /\ Appending => recvd >= 1 /\ arrived = h + size + recvd
    /\ ~Appending => arrived = h + size
    /\ \A i \in 1..size : buf[i] = h + i
    /\ rpc \in {"load", "store"} =>
          \A i \in size + 1 .. size + recvd : buf[i] = h + i
    /\ rpc = "store" => loaded = size

\* The packet a worker cuts off is all that was in the buffer, and nothing
\* comes before its answer.
CuttingInv(w, h) ==
    /\ ~Appending
    /\ Len(packet[w]) >= 1
    /\ \A i \in 1..Len(packet[w]) : packet[w][i] = h + i
    /\ arrived = h + Len(packet[w]) /\ sent = arrived
    /\ wpc[w] \in {"shift", "resize"} => size = Len(packet[w])
    /\ wpc[w] = "resize" => remain[w] = 0
    /\ wpc[w] = "deliver" => size = 0

\* The client has sent no more than one packet beyond those handled.
OneAhead ==
    \/ sent = Len(handled)
    \/ Len(handled) < StreamLen /\ sent = PacketEnd(Len(handled))
CutInv == \A w \in Workers : Cutting(w) => CuttingInv(w, Len(handled))
NoCutInv == (\A w \in Workers : ~Cutting(w)) => BufferInv(Len(handled))

StreamInv ==
    IsConnected => InStreamOrder /\ OneAhead /\ CutInv /\ NoCutInv

LEMMA StreamInductive ==
    TypeOK /\ ClaimInv /\ InBounds /\ StreamInv /\ ~Pipelined /\ [Next]_vars
       => StreamInv'
<1> SUFFICES ASSUME TypeOK, ClaimInv, InBounds, StreamInv, ~Pipelined,
                    [Next]_vars, IsConnected'
             PROVE  StreamInv'
  BY DEF StreamInv
<1> DEFINE h == Len(handled)
<1>h. h \in Nat /\ \A w \in Workers : Len(packet[w]) \in Nat
  BY LenProperties DEF TypeOK
<1>one. \A v, w \in Workers : Cutting(v) /\ Cutting(w) => v = w
  BY DEF ClaimInv, OneWorker, Working, Cutting
<1>len. StreamLen \in Nat
  BY Constants
<1> USE SizesAssumption
    DEF TypeOK, At, Goto, WorkLabels, RecvLabels, recvVars, IsConnected, Cutting,
        Appending
<1>1. ASSUME ClientSend
      PROVE  StreamInv'
  <2>1. IsConnected /\ sent = h /\ h < StreamLen /\ sent' = PacketEnd(h)
    BY <1>1 DEF ClientSend, PacketEnd
  <2>2. \A w \in Workers : ~Cutting(w)
    BY <2>1, <1>h DEF StreamInv, OneAhead, CutInv, NoCutInv, CuttingInv
  <2>3. BufferInv(h) /\ InStreamOrder
    BY <2>1, <2>2 DEF StreamInv, OneAhead, CutInv, NoCutInv
  <2>4. UNCHANGED <<arrived, recvd, rpc, loaded, buf, size, wpc, handled, closed>>
    BY <1>1 DEF ClientSend
  <2>5. BufferInv(Len(handled))' /\ InStreamOrder'
    BY <2>3, <2>4 DEF BufferInv, InStreamOrder
  <2>6. Len(handled') < StreamLen /\ sent' = PacketEnd(Len(handled'))
    BY <2>1, <2>4
  <2>7. \A w \in Workers : ~Cutting(w)'
    BY <2>2, <2>4
  <2> HIDE DEF TypeOK, Appending
  <2>8. OneAhead'
    BY <2>6 DEF OneAhead
  <2>9. CutInv'
    BY <2>7 DEF CutInv
  <2>10. NoCutInv'
    BY <2>5 DEF NoCutInv
  <2> HIDE DEF IsConnected
  <2> QED
    BY <2>5, <2>8, <2>9, <2>10 DEF StreamInv
<1>2. ASSUME Disconnect
      PROVE  StreamInv'
  BY <1>2 DEF Disconnect
<1>3. ASSUME RecvData
      PROVE  StreamInv'
  <2>1. \A w \in Workers : ~Cutting(w)
    BY <1>3 DEF RecvData, StreamInv, OneAhead, CutInv, NoCutInv, CuttingInv
  <2>2. BufferInv(h) /\ InStreamOrder /\ OneAhead
    BY <1>3, <2>1 DEF RecvData, StreamInv, NoCutInv
  <2>3. UNCHANGED <<sent, handled, buf, size, wpc, closed>>
    BY <1>3 DEF RecvData
  <2>4. BufferInv(Len(handled))'
    BY <1>3, <1>h, <2>2, <2>3 DEF RecvData, BufferInv
  <2>5. InStreamOrder' /\ \A w \in Workers : ~Cutting(w)'
    BY <2>1, <2>2, <2>3 DEF InStreamOrder
  <2>6. OneAhead'
    BY <2>2, <2>3 DEF OneAhead, PacketEnd
  <2>7. CutInv'
    BY <2>5 DEF CutInv
  <2>8. NoCutInv'
    BY <2>4 DEF NoCutInv
  <2> HIDE DEF IsConnected
  <2> QED
    BY <2>5, <2>6, <2>7, <2>8 DEF StreamInv
<1>4. ASSUME RecvEnd
      PROVE  StreamInv'
  BY <1>4 DEF RecvEnd
<1>5. ASSUME RecvAborted
      PROVE  StreamInv'
  BY <1>5 DEF RecvAborted
<1>6. ASSUME CheckRoom
      PROVE  StreamInv'
  <2>1. \A w \in Workers : ~Cutting(w)
    BY <1>6 DEF CheckRoom, StreamInv, OneAhead, CutInv, NoCutInv, CuttingInv
  <2> QED
    BY <1>6, <2>1
      DEF CheckRoom, StreamInv, OneAhead, CutInv, NoCutInv, InStreamOrder, BufferInv
<1>7. ASSUME Copy
      PROVE  StreamInv'
  <2>1. IsConnected /\ \A w \in Workers : ~Cutting(w)
    BY <1>7 DEF Copy, StreamInv, OneAhead, CutInv, NoCutInv, CuttingInv
  <2>2. BufferInv(h) /\ size + recvd <= Cap
    BY <1>7, <2>1 DEF Copy, StreamInv, OneAhead, CutInv, NoCutInv, InBounds
  <2>3. /\ arrived = h + size + recvd /\ recvd >= 1
        /\ \A i \in 1..size : buf[i] = h + i
    BY <1>7, <2>2 DEF Copy, BufferInv
  <2>4. \A i \in 1..size : buf'[i] = h + i
    <3> SUFFICES ASSUME NEW i \in 1..size PROVE buf'[i] = h + i
      OBVIOUS
    <3>1. i \in 1..Cap /\ i \notin size + 1 .. size + recvd
      BY <2>2
    <3>2. buf'[i] = buf[i]
      BY <1>7, <3>1 DEF Copy
    <3> QED
      BY <2>3, <3>2
  <2>5. \A i \in size + 1 .. size + recvd : buf'[i] = h + i
    BY <1>7, <1>h, <2>2, <2>3 DEF Copy
  <2>6. rpc' = "load" /\ UNCHANGED <<sent, arrived, recvd, loaded, size, wpc,
                                     handled, closed>>
    BY <1>7 DEF Copy
  <2>7. BufferInv(h)'
    BY <2>3, <2>4, <2>5, <2>6 DEF BufferInv
  <2> QED
    BY <2>1, <2>6, <2>7
      DEF StreamInv, OneAhead, CutInv, NoCutInv, InStreamOrder, PacketEnd
<1>8. ASSUME Load
      PROVE  StreamInv'
  <2>1. \A w \in Workers : ~Cutting(w)
    BY <1>8 DEF Load, StreamInv, OneAhead, CutInv, NoCutInv, CuttingInv
  <2> QED
    BY <1>8, <2>1
      DEF Load, StreamInv, OneAhead, CutInv, NoCutInv, InStreamOrder, BufferInv
<1>9. ASSUME Store
      PROVE  StreamInv'
  <2>1. IsConnected /\ \A w \in Workers : ~Cutting(w)
    BY <1>9 DEF Store, StreamInv, OneAhead, CutInv, NoCutInv, CuttingInv
  <2>2. BufferInv(h) /\ rpc = "store"
    BY <1>9, <2>1 DEF Store, StreamInv, OneAhead, CutInv, NoCutInv
  <2>3. size' = size + recvd /\ rpc' = "exchange"
    BY <1>9, <2>2 DEF Store, BufferInv
  <2>4. UNCHANGED <<sent, arrived, recvd, buf, wpc, handled, closed>>
    BY <1>9 DEF Store
  <2>5. \A i \in 1..size' : i \in 1..size \/ i \in size + 1 .. size + recvd
    BY <2>3
  <2>6. BufferInv(h)'
    BY <1>h, <2>2, <2>3, <2>4, <2>5 DEF BufferInv
  <2> QED
    BY <2>1, <2>4, <2>6
      DEF StreamInv, OneAhead, CutInv, NoCutInv, InStreamOrder, PacketEnd
<1>10. ASSUME Exchange
       PROVE  StreamInv'
  BY <1>10
    DEF Exchange, StreamInv, OneAhead, CutInv, NoCutInv, InStreamOrder, BufferInv, CuttingInv
<1>11. ASSUME CallEnqueue
       PROVE  StreamInv'
  BY <1>11
    DEF CallEnqueue, StreamInv, OneAhead, CutInv, NoCutInv, InStreamOrder, BufferInv, CuttingInv
<1>12. ASSUME Rearm
       PROVE  StreamInv'
  BY <1>12
    DEF Rearm, StreamInv, OneAhead, CutInv, NoCutInv, InStreamOrder, BufferInv, CuttingInv
<1>13. ASSUME NEW w \in Workers, Take(w)
       PROVE  StreamInv'
  BY <1>13
    DEF Take, StreamInv, OneAhead, CutInv, NoCutInv, InStreamOrder, BufferInv, CuttingInv
<1>14. ASSUME NEW w \in Workers, FrameNone(w)
       PROVE  StreamInv'
  BY <1>14
    DEF FrameNone, StreamInv, OneAhead, CutInv, NoCutInv, InStreamOrder, BufferInv, CuttingInv
<1>15. ASSUME NEW w \in Workers, FramePacket(w)
       PROVE  StreamInv'
  <2> DEFINE n == SizeField(buf[1])
  <2>1. /\ n \in Nat /\ n >= 1 /\ n <= size /\ size <= Cap
        /\ packet' = [packet EXCEPT ![w] = [i \in 1..n |-> buf[i]]]
        /\ wpc' = [wpc EXCEPT ![w] = "shift"] /\ wpc[w] = "frame"
        /\ UNCHANGED <<recvVars, buf, size, remain, handled, closed>>
    BY <1>15, Constants DEF FramePacket, NoPacket, InBounds
  <2>2. \A v \in Workers : ~Cutting(v)
    BY <2>1 DEF ClaimInv, OneWorker, Working
  <2>3. BufferInv(h) /\ InStreamOrder
    BY <2>1, <2>2 DEF StreamInv, OneAhead, CutInv, NoCutInv
  <2>4. buf[1] = h + 1 /\ h + size <= arrived /\ h < StreamLen
    BY <1>h, <1>len, <2>1, <2>3 DEF BufferInv
  <2>5. n = Declared[h + 1]
    BY <1>h, <2>4 DEF SizeField
  <2>6. sent = h + n
    BY <1>h, <1>len, <2>1, <2>4, <2>5
      DEF StreamInv, OneAhead, CutInv, NoCutInv, PacketEnd
  <2>7. ~Appending /\ arrived = h + n /\ size = n
    BY <1>h, <2>1, <2>3, <2>4, <2>6 DEF BufferInv
  <2>8. \A i \in 1..n : buf[i] \in Units /\ buf[i] = h + i
    BY <2>1, <2>3, <2>7 DEF BufferInv
  <2> HIDE DEF n
  <2>9. packet'[w] = [i \in 1..n |-> buf[i]]
    BY <2>1
  <2>10. Len(packet'[w]) = n /\ \A i \in 1..n : packet'[w][i] = h + i
    BY <2>1, <2>8, <2>9, PacketIsSeq
  <2>11. CuttingInv(w, h)'
    BY <2>1, <2>6, <2>7, <2>10 DEF CuttingInv
  <2>12. \A v \in Workers : Cutting(v)' => v = w
    BY <2>1, <2>2
  <2> QED
    BY <2>1, <2>3, <2>6, <2>11, <2>12
      DEF StreamInv, OneAhead, CutInv, NoCutInv, InStreamOrder, PacketEnd
<1>16. ASSUME NEW w \in Workers, Shift(w)
       PROVE  StreamInv'
  <2>1. /\ remain' = [remain EXCEPT ![w] = size - Len(packet[w])]
        /\ wpc' = [wpc EXCEPT ![w] = "resize"] /\ wpc[w] = "shift"
        /\ UNCHANGED <<recvVars, size, packet, handled, closed>>
    BY <1>16 DEF Shift
  <2>2. CuttingInv(w, h) /\ InStreamOrder
    BY <2>1 DEF StreamInv, OneAhead, CutInv, NoCutInv
  <2>3. remain'[w] = 0
    BY <1>h, <2>1, <2>2 DEF CuttingInv
  <2>4. CuttingInv(w, h)'
    BY <2>1, <2>2, <2>3 DEF CuttingInv
  <2>5. \A v \in Workers : Cutting(v)' => v = w
    BY <2>1, <1>one
  <2> QED
    BY <2>1, <2>2, <2>4, <2>5
      DEF StreamInv, OneAhead, CutInv, NoCutInv, InStreamOrder, PacketEnd
<1>17. ASSUME NEW w \in Workers, Resize(w)
       PROVE  StreamInv'
  <2>1. /\ size' = remain[w]
        /\ wpc' = [wpc EXCEPT ![w] = "deliver"] /\ wpc[w] = "resize"
        /\ UNCHANGED <<recvVars, buf, packet, handled, closed>>
    BY <1>17 DEF Resize
  <2>2. CuttingInv(w, h) /\ InStreamOrder
    BY <2>1 DEF StreamInv, OneAhead, CutInv, NoCutInv
  <2>3. CuttingInv(w, h)'
    BY <2>1, <2>2 DEF CuttingInv
  <2>4. \A v \in Workers : Cutting(v)' => v = w
    BY <2>1, <1>one
  <2> QED
    BY <2>1, <2>2, <2>3, <2>4
      DEF StreamInv, OneAhead, CutInv, NoCutInv, InStreamOrder, PacketEnd
<1>18. ASSUME NEW w \in Workers, Deliver(w)
       PROVE  StreamInv'
  <2>1. /\ handled' = handled \o packet[w] /\ wpc[w] = "deliver"
        /\ wpc' = [wpc EXCEPT ![w] = "frame"]
        /\ UNCHANGED <<recvVars, buf, size, closed>>
    BY <1>18 DEF Deliver
  <2>2. CuttingInv(w, h) /\ InStreamOrder
    BY <2>1 DEF StreamInv, OneAhead, CutInv, NoCutInv
  <2>3. /\ Len(handled') = h + Len(packet[w])
        /\ \A i \in 1..h + Len(packet[w]) :
              handled'[i] = IF i <= h THEN handled[i] ELSE packet[w][i - h]
    BY <2>1, ConcatProperties
  <2>4. \A i \in 1..Len(handled') : handled'[i] = i
    <3> SUFFICES ASSUME NEW i \in 1..h + Len(packet[w])
                 PROVE  handled'[i] = i
      BY <2>3
    <3>1. CASE i <= h
      <4>1. i \in 1..Len(handled)
        BY <1>h, <3>1
      <4>2. handled'[i] = handled[i]
        BY <2>3, <3>1
      <4>3. IsConnected
        BY <2>1
      <4> QED
        BY <2>2, <4>1, <4>2, <4>3 DEF InStreamOrder
    <3>2. CASE ~(i <= h)
      <4>1. i - h \in 1..Len(packet[w])
        BY <1>h, <3>2
      <4>2. handled'[i] = packet[w][i - h]
        BY <2>3, <3>2
      <4>3. packet[w][i - h] = h + (i - h)
        BY <2>2, <4>1 DEF CuttingInv
      <4> QED
        BY <1>h, <4>2, <4>3
    <3> QED
      BY <3>1, <3>2
  <2>5. ~Appending /\ size = 0 /\ arrived = Len(handled') /\ sent = Len(handled')
    BY <2>1, <2>2, <2>3 DEF CuttingInv
  <2>6. BufferInv(Len(handled))'
    BY <1>h, <2>1, <2>3, <2>5 DEF BufferInv
  <2>7. \A v \in Workers : ~Cutting(v)'
    BY <2>1, <1>one
  <2>8. sent' = Len(handled')
    BY <2>1, <2>5
  <2>9. InStreamOrder'
    BY <2>4 DEF InStreamOrder
  <2> HIDE DEF TypeOK, Appending
  <2> QED
    BY <2>6, <2>7, <2>8, <2>9 DEF StreamInv, OneAhead, CutInv, NoCutInv
<1>19. ASSUME NEW w \in Workers, Clear(w)
       PROVE  StreamInv'
  BY <1>19
    DEF Clear, StreamInv, OneAhead, CutInv, NoCutInv, InStreamOrder, BufferInv, CuttingInv
<1>20. ASSUME NEW w \in Workers, Recheck(w)
       PROVE  StreamInv'
  BY <1>20
    DEF Recheck, StreamInv, OneAhead, CutInv, NoCutInv, InStreamOrder, BufferInv, CuttingInv
<1>21. ASSUME NEW w \in Workers, Reflag(w)
       PROVE  StreamInv'
  BY <1>21
    DEF Reflag, StreamInv, OneAhead, CutInv, NoCutInv, InStreamOrder, BufferInv, CuttingInv
<1>22. ASSUME NEW w \in Workers, Requeue(w)
       PROVE  StreamInv'
  BY <1>22
    DEF Requeue, StreamInv, OneAhead, CutInv, NoCutInv, InStreamOrder, BufferInv, CuttingInv
<1>23. ASSUME Recycle
       PROVE  StreamInv'
  <2>1. /\ handled' = <<>> /\ size' = 0 /\ sent' = 0 /\ arrived' = 0
        /\ rpc' = "wait" /\ wpc' = wpc /\ \A w \in Workers : wpc[w] = "idle"
    BY <1>23 DEF Recycle
  <2>2. Len(handled') = 0
    BY <2>1
  <2>3. BufferInv(Len(handled))'
    BY <2>1, <2>2 DEF BufferInv
  <2>4. InStreamOrder' /\ sent' = Len(handled')
    BY <2>1, <2>2 DEF InStreamOrder
  <2>5. \A w \in Workers : ~Cutting(w)'
    BY <2>1
  <2> HIDE DEF TypeOK, Appending
  <2> QED
    BY <2>3, <2>4, <2>5 DEF StreamInv, OneAhead, CutInv, NoCutInv
<1>24. ASSUME UNCHANGED vars
       PROVE  StreamInv'
  BY <1>24
    DEF vars, StreamInv, OneAhead, CutInv, NoCutInv, InStreamOrder, BufferInv, CuttingInv, PacketEnd
<1> QED
  BY <1>1, <1>2, <1>3, <1>4, <1>5, <1>6, <1>7, <1>8, <1>9, <1>10, <1>11,
     <1>12, <1>13, <1>14, <1>15, <1>16, <1>17, <1>18, <1>19, <1>20, <1>21, <1>22, <1>23, <1>24
  DEF Next, ProcessRecv, RecvOn, ProcessPacket2

-----------------------------------------------------------------------------
(* The theorems.                                                            *)

IInv == TypeOK /\ ClaimInv /\ InBounds /\ NoStranded

LEMMA Inductive == Spec => []IInv
<1>1. Init => IInv
  <2> SUFFICES ASSUME Init
               PROVE  IInv
    OBVIOUS
  <2>1. TypeOK
    BY TypeInit
  <2>2. ClaimInv
    BY DEF Init, ClaimInv, OneWorker, Claimed, Working
  <2>3. InBounds /\ NoStranded
    BY SizesAssumption DEF Init, InBounds, NoStranded, NoPacket
  <2> QED BY <2>1, <2>2, <2>3 DEF IInv
<1>2. IInv /\ [Next]_vars => IInv'
  BY ClaimInductive, BoundsInductive, TypeInductive, StrandedInductive DEF IInv
<1> QED
  BY <1>1, <1>2, PTL DEF Spec

\* The fields and locals keep their types.
THEOREM TypeCorrect == Spec => []TypeOK
<1>1. IInv => TypeOK
  BY DEF IInv
<1> QED
  BY <1>1, Inductive, PTL

\* packetQueueProcessing keeps a session out of the hands of a second worker
\* and out of a second place in the queue.
THEOREM OneWorkerHolds == Spec => []OneWorker
<1>1. IInv => OneWorker
  BY DEF IInv, ClaimInv
<1> QED
  BY <1>1, Inductive, PTL

\* packetQueueProcessing is set exactly while somebody owes the buffer a look.
THEOREM ClaimedHolds == Spec => []Claimed
<1>1. IInv => Claimed
  BY DEF IInv, ClaimInv
<1> QED
  BY <1>1, Inductive, PTL

\* ProcessRecv and ProcessPacket2 stay within packetBuffer, in spite of the
\* unlocked accesses to packetBufferSize.
THEOREM InBoundsHolds == Spec => []InBounds
<1>1. IInv => InBounds
  BY DEF IInv
<1> QED
  BY <1>1, Inductive, PTL

\* A complete packet in the buffer of a connected session is not forgotten.
THEOREM NoStrandedHolds == Spec => []NoStranded
<1>1. IInv => NoStranded
  BY DEF IInv
<1> QED
  BY <1>1, Inductive, PTL

\* The packets of a client that waits for each answer reach OnRecvPacket whole,
\* once and in order, however the recvs cut the stream and whichever worker
\* takes them.
THEOREM InStreamOrderHolds ==
    ASSUME ~Pipelined
    PROVE  Spec => []InStreamOrder
<1>1. Init => StreamInv
  <2> SUFFICES ASSUME Init PROVE StreamInv
    OBVIOUS
  <2>1. Len(handled) = 0
    BY DEF Init
  <2>2. BufferInv(Len(handled))
    BY <2>1 DEF Init, BufferInv, Appending
  <2>3. InStreamOrder /\ sent = Len(handled)
    BY <2>1 DEF Init, InStreamOrder
  <2>4. \A w \in Workers : ~Cutting(w)
    BY DEF Init, Cutting
  <2> QED
    BY <2>2, <2>3, <2>4
    DEF StreamInv, OneAhead, CutInv, NoCutInv, Cutting
<1>2. IInv /\ StreamInv /\ [Next]_vars => StreamInv'
  BY StreamInductive DEF IInv
<1>3. StreamInv => InStreamOrder
  BY DEF StreamInv, InStreamOrder
<1> QED
  BY <1>1, <1>2, <1>3, Inductive, PTL DEF Spec

\* Once ProcessPacket2 has disconnected the session for a bad header, no unit
\* reaches OnRecvPacket any more, whatever a recv still in progress appends and
\* whichever worker looks at the buffer again.
THEOREM NothingAfterBadHeaderHolds == Spec => NothingAfterBadHeader
<1>1. Init => BadInv
  BY DEF Init, BadInv
<1>2. IInv /\ BadInv /\ [Next]_vars => BadInv'
  BY BadInductive DEF IInv
<1>3. IInv /\ BadInv /\ [Next]_vars
         => [closed = "frame" /\ closed' = "frame" => handled' = handled]_vars
  <2> SUFFICES ASSUME BadInv, Next, closed = "frame", closed' = "frame"
               PROVE  handled' = handled
    OBVIOUS
  <2>1. ASSUME NEW w \in Workers
        PROVE  ~Deliver(w)
    BY DEF BadInv, Deliver, At
  <2>2. ~Recycle
    BY DEF Recycle
  <2>3. CASE ClientSend \/ Disconnect \/ ProcessRecv
    BY <2>3 DEF ClientSend, Disconnect, ProcessRecv, RecvOn, RecvEnd, RecvData,
                RecvAborted, CheckRoom, Copy, Load, Store, Exchange, CallEnqueue, Rearm
  <2>4. CASE \E w \in Workers : Take(w) \/ ProcessPacket2(w)
    BY <2>4, <2>1 DEF Take, ProcessPacket2, FrameNone, FramePacket, Shift, Resize,
                      Clear, Recheck, Reflag, Requeue
  <2> QED
    BY <2>2, <2>3, <2>4 DEF Next
<1> QED
  BY <1>1, <1>2, <1>3, Inductive, PTL DEF Spec, NothingAfterBadHeader

-----------------------------------------------------------------------------
(* PacketProcessor: a session is never handled twice at once.               *)

Holds(t, s) == session[t] = s /\ pc[t] \in {"process", "push"}

\* HeldOnce without its cardinalities: nobody shares a session that is being
\* processed, pushed or queued.
Unique(s) ==
    /\ \A t, u \in Threads : Holds(t, s) /\ Holds(u, s) => t = u
    /\ \A i, j \in 1..Len(packetQueue) :
          packetQueue[i] = s /\ packetQueue[j] = s => i = j
    /\ \A t \in Threads, i \in 1..Len(packetQueue) :
          ~(Holds(t, s) /\ packetQueue[i] = s)

ClaimedWhenHeld(s) ==
    /\ \A t \in Threads : Holds(t, s) => s \in claimed
    /\ \A i \in 1..Len(packetQueue) : packetQueue[i] = s => s \in claimed

HeldInv == \A s \in Sessions : Unique(s) /\ ClaimedWhenHeld(s)

-----------------------------------------------------------------------------
(* Sequences                                                               *)

\* The elements of a queue after an Append.
LEMMA AppendElements ==
    ASSUME NEW S, NEW q \in Seq(S), NEW e \in S
    PROVE  /\ Append(q, e) \in Seq(S)
           /\ Len(Append(q, e)) = Len(q) + 1
           /\ \A i \in 1..Len(q) : Append(q, e)[i] = q[i]
           /\ Append(q, e)[Len(q) + 1] = e
  BY AppendProperties

\* The elements of a queue after its front is taken.
LEMMA TailElements ==
    ASSUME NEW S, NEW q \in Seq(S), q # <<>>
    PROVE  /\ Head(q) \in S
           /\ Head(q) = q[1]
           /\ Tail(q) \in Seq(S)
           /\ Len(q) \in Nat \ {0}
           /\ Len(Tail(q)) = Len(q) - 1
           /\ \A i \in 1..Len(Tail(q)) : Tail(q)[i] = q[i + 1]
  BY HeadTailProperties, EmptySeq, LenProperties, ElementOfSeq

-----------------------------------------------------------------------------
(* The types                                                               *)

LEMMA PoolTypeInit == PoolInit => PoolTypeOK
<1> SUFFICES ASSUME PoolInit
             PROVE  PoolTypeOK
  OBVIOUS
<1> USE DEF PoolInit, Labels, Phases, Threads
<1>1. <<>> \in Seq(Sessions)
  BY EmptySeq
<1> QED
  BY <1>1, MaxEnqueuesAssumption DEF PoolTypeOK

LEMMA PoolTypeInductive == PoolTypeOK /\ [PoolNext]_poolVars => PoolTypeOK'
<1> SUFFICES ASSUME PoolTypeOK, [PoolNext]_poolVars
             PROVE  PoolTypeOK'
  OBVIOUS
<1> USE NoneAssumption DEF PoolTypeOK, ThreadAt, ThreadTo, Labels, Phases, Threads, Waiting
<1>1. ASSUME Start
      PROVE  PoolTypeOK'
  BY <1>1 DEF Start
<1>2. ASSUME StopRunning
      PROVE  PoolTypeOK'
  BY <1>2 DEF StopRunning
<1>3. ASSUME StopClear
      PROVE  PoolTypeOK'
  BY <1>3, EmptySeq DEF StopClear
<1>4. ASSUME StopNotify
      PROVE  PoolTypeOK'
  BY <1>4 DEF StopNotify
<1>5. ASSUME StopJoin
      PROVE  PoolTypeOK'
  BY <1>5 DEF StopJoin
<1>6. ASSUME NEW w \in Workers, Loop(w)
      PROVE  PoolTypeOK'
  BY <1>6 DEF Loop
<1>7. ASSUME NEW w \in Workers, Block(w) \/ Sleep(w)
      PROVE  PoolTypeOK'
  BY <1>7 DEF Block, Sleep
<1>8. ASSUME NEW w \in Workers, Leave(w)
      PROVE  PoolTypeOK'
  BY <1>8 DEF Leave
<1>9. ASSUME NEW w \in Workers, TakeFront(w)
      PROVE  PoolTypeOK'
  <2>1. Head(packetQueue) \in Sessions /\ Tail(packetQueue) \in Seq(Sessions)
    BY <1>9, TailElements DEF TakeFront
  <2> QED
    BY <1>9, <2>1 DEF TakeFront
<1>10. ASSUME NEW w \in Workers, Process(w)
       PROVE  PoolTypeOK'
  BY <1>10 DEF Process
<1>11. ASSUME NEW w \in Workers, RecheckNone(w)
       PROVE  PoolTypeOK'
  BY <1>11 DEF RecheckNone
<1>12. ASSUME NEW w \in Workers, RecheckMore(w)
       PROVE  PoolTypeOK'
  BY <1>12, MaxEnqueuesAssumption DEF RecheckMore
<1>13. ASSUME NEW w \in Workers, WakeSpuriously(w)
       PROVE  PoolTypeOK'
  BY <1>13 DEF WakeSpuriously
<1>14. ASSUME NEW p \in Producers, NEW s \in Sessions, Receive(p, s)
       PROVE  PoolTypeOK'
  BY <1>14, MaxEnqueuesAssumption DEF Receive
<1>15. ASSUME NEW t \in Threads, Push(t)
       PROVE  PoolTypeOK'
  <2>1. Append(packetQueue, session[t]) \in Seq(Sessions)
    BY <1>15, AppendElements DEF Push
  <2> QED
    BY <1>15, <2>1 DEF Push
<1>16. ASSUME NEW t \in Threads, NotifyOne(t)
       PROVE  PoolTypeOK'
  BY <1>16 DEF NotifyOne, AfterEnqueue
<1>17. ASSUME UNCHANGED poolVars
       PROVE  PoolTypeOK'
  BY <1>17 DEF poolVars
<1> QED
  BY <1>1, <1>2, <1>3, <1>4, <1>5, <1>6, <1>7, <1>8, <1>9, <1>10, <1>11,
     <1>12, <1>13, <1>14, <1>15, <1>16, <1>17
  DEF PoolNext, Stop, WorkerThread, Enqueue

-----------------------------------------------------------------------------
(* A session is held once                                                  *)

LEMMA HeldInductive == PoolTypeOK /\ HeldInv /\ [PoolNext]_poolVars => HeldInv'
<1> SUFFICES ASSUME PoolTypeOK, HeldInv, [PoolNext]_poolVars,
                    NEW s \in Sessions
             PROVE  (Unique(s) /\ ClaimedWhenHeld(s))'
  BY DEF HeldInv
<1>old. Unique(s) /\ ClaimedWhenHeld(s)
  BY DEF HeldInv
<1> USE NoneAssumption DEF PoolTypeOK, ThreadAt, ThreadTo, Labels, Phases, Threads, Waiting,
                           Unique, ClaimedWhenHeld, Holds
<1> DEFINE Q == (Unique(s) /\ ClaimedWhenHeld(s))'
<1>1. ASSUME Start
      PROVE  Q
  BY <1>1, <1>old DEF Start
<1>2. ASSUME StopRunning
      PROVE  Q
  BY <1>2, <1>old DEF StopRunning
<1>3. ASSUME StopClear
      PROVE  Q
  BY <1>3, <1>old DEF StopClear
<1>4. ASSUME StopNotify
      PROVE  Q
  BY <1>4, <1>old DEF StopNotify
<1>5. ASSUME StopJoin
      PROVE  Q
  BY <1>5, <1>old DEF StopJoin
<1>6. ASSUME NEW w \in Workers, Loop(w)
      PROVE  Q
  BY <1>6, <1>old DEF Loop
<1>7. ASSUME NEW w \in Workers, Block(w) \/ Sleep(w)
      PROVE  Q
  BY <1>7, <1>old DEF Block, Sleep
<1>8. ASSUME NEW w \in Workers, Leave(w)
      PROVE  Q
  BY <1>8, <1>old DEF Leave
<1>9. ASSUME NEW w \in Workers, TakeFront(w)
      PROVE  Q
  <2>1. /\ session'[w] = packetQueue[1]
        /\ packetQueue' = Tail(packetQueue)
        /\ Len(packetQueue) \in Nat \ {0}
        /\ Len(packetQueue') = Len(packetQueue) - 1
        /\ \A i \in 1..Len(packetQueue') : packetQueue'[i] = packetQueue[i + 1]
    BY <1>9, TailElements DEF TakeFront
  <2>2. \A t \in Threads : t # w => session'[t] = session[t] /\ pc'[t] = pc[t]
    BY <1>9 DEF TakeFront
  <2> QED
    BY <1>9, <1>old, <2>1, <2>2 DEF TakeFront
<1>10. ASSUME NEW w \in Workers, Process(w)
       PROVE  Q
  BY <1>10, <1>old DEF Process
<1>11. ASSUME NEW w \in Workers, RecheckNone(w)
       PROVE  Q
  BY <1>11, <1>old DEF RecheckNone
<1>12. ASSUME NEW w \in Workers, RecheckMore(w)
       PROVE  Q
  BY <1>12, <1>old DEF RecheckMore
<1>13. ASSUME NEW w \in Workers, WakeSpuriously(w)
       PROVE  Q
  BY <1>13, <1>old DEF WakeSpuriously
<1>14. ASSUME NEW p \in Producers, NEW r \in Sessions, Receive(p, r)
       PROVE  Q
  BY <1>14, <1>old DEF Receive
<1>15. ASSUME NEW t \in Threads, Push(t)
       PROVE  Q
  <2>1. /\ session[t] \in Sessions
        /\ Len(packetQueue) \in Nat
        /\ Len(packetQueue') = Len(packetQueue) + 1
        /\ \A i \in 1..Len(packetQueue) : packetQueue'[i] = packetQueue[i]
        /\ packetQueue'[Len(packetQueue) + 1] = session[t]
    BY <1>15, AppendElements, LenProperties DEF Push
  <2>2. \A i \in 1..Len(packetQueue') :
           i \in 1..Len(packetQueue) \/ i = Len(packetQueue) + 1
    BY <2>1
  <2>3. \A u \in Threads :
           /\ u # t => session'[u] = session[u] /\ pc'[u] = pc[u]
           /\ u = t => ~Holds(u, s)'
    BY <1>15 DEF Push
  <2> QED
    BY <1>15, <1>old, <2>1, <2>2, <2>3 DEF Push
<1>16. ASSUME NEW t \in Threads, NotifyOne(t)
       PROVE  Q
  BY <1>16, <1>old DEF NotifyOne, AfterEnqueue
<1>17. ASSUME UNCHANGED poolVars
       PROVE  Q
  BY <1>17, <1>old DEF poolVars
<1> QED
  BY <1>1, <1>2, <1>3, <1>4, <1>5, <1>6, <1>7, <1>8, <1>9, <1>10, <1>11,
     <1>12, <1>13, <1>14, <1>15, <1>16, <1>17
  DEF PoolNext, Stop, WorkerThread, Enqueue

-----------------------------------------------------------------------------
(* No worker sleeps on a queue that nobody will wake it for                *)

Notifying == {t \in Threads : ThreadAt(t, "notify")}
Taking == {w \in Workers : ThreadAt(w, "take")}

LEMMA ThreadSetFinite ==
    ASSUME NEW S \in SUBSET Threads
    PROVE  IsFiniteSet(S) /\ Cardinality(S) \in Nat
<1>1. IsFiniteSet(Threads)
  BY FiniteAssumption, FS_Union DEF Threads
<1> QED
  BY <1>1, FS_Subset, FS_CardinalityType

LEMMA WakersFinite == /\ IsFiniteSet(Notifying) /\ IsFiniteSet(Taking)
                      /\ Cardinality(Notifying) \in Nat
                      /\ Cardinality(Taking) \in Nat
<1>1. Notifying \in SUBSET Threads /\ Taking \in SUBSET Threads
  BY DEF Notifying, Taking, Threads
<1> QED
  BY <1>1, ThreadSetFinite

LEMMA OneMore == ASSUME NEW S, NEW x, IsFiniteSet(S), x \notin S
                 PROVE  Cardinality(S \cup {x}) = Cardinality(S) + 1
  BY FS_AddElement

LEMMA OneLess == ASSUME NEW S, NEW x, IsFiniteSet(S), x \in S
                 PROVE  Cardinality(S \ {x}) = Cardinality(S) - 1
  BY FS_RemoveElement

\* A step that lets nobody sleep, or that leaves who sleeps, the queue and the
\* wakers alone.
LEMMA WorkFrame ==
    ASSUME WorkConserving,
           \/ Waiting' = {}
           \/ /\ Waiting' = {} \/ Waiting # {}
              /\ Len(packetQueue') = Len(packetQueue)
              /\ Notifying' = Notifying /\ Taking' = Taking
    PROVE  WorkConserving'
  BY DEF WorkConserving, Notifying, Taking

\* Under the lock of a worker that is about to block nobody fills the queue.
BlockInv == ~Unlocked => packetQueue = <<>>

LEMMA BlockInductive == PoolTypeOK /\ BlockInv /\ [PoolNext]_poolVars => BlockInv'
<1> SUFFICES ASSUME PoolTypeOK, BlockInv, [PoolNext]_poolVars
             PROVE  BlockInv'
  OBVIOUS
<1> USE DEF PoolTypeOK, BlockInv, Unlocked, ThreadAt, ThreadTo, Threads, Waiting
<1>1. CASE Start \/ Stop
  BY <1>1 DEF Start, Stop, StopRunning, StopClear, StopNotify, StopJoin
<1>2. ASSUME NEW w \in Workers, WorkerThread(w) \/ WakeSpuriously(w)
      PROVE  BlockInv'
  BY <1>2 DEF WorkerThread, Loop, Block, Sleep, Leave, TakeFront, Process,
              RecheckNone, RecheckMore, WakeSpuriously
<1>3. ASSUME NEW p \in Producers, NEW s \in Sessions, Receive(p, s)
      PROVE  BlockInv'
  BY <1>3 DEF Receive
<1>4. ASSUME NEW t \in Threads, Enqueue(t)
      PROVE  BlockInv'
  BY <1>4 DEF Enqueue, Push, NotifyOne, AfterEnqueue
<1>5. CASE UNCHANGED poolVars
  BY <1>5 DEF poolVars
<1> QED
  BY <1>1, <1>2, <1>3, <1>4, <1>5 DEF PoolNext

LEMMA WorkInductive ==
    PoolTypeOK /\ BlockInv /\ WorkConserving /\ [PoolNext]_poolVars => WorkConserving'
<1> SUFFICES ASSUME PoolTypeOK, BlockInv, WorkConserving, [PoolNext]_poolVars
             PROVE  WorkConserving'
  OBVIOUS
<1> USE DEF PoolTypeOK, ThreadAt, ThreadTo, Labels, Threads
<1> DEFINE q == Len(packetQueue)
           n == Cardinality(Notifying)
           k == Cardinality(Taking)
<1>nat. q \in Nat /\ n \in Nat /\ k \in Nat
  BY WakersFinite, LenProperties
<1>nat2. n' \in Nat /\ k' \in Nat
  BY ThreadSetFinite DEF Notifying, Taking
<1>old. Waiting # {} => q <= n + k
  BY DEF WorkConserving, Notifying, Taking
<1>goal. ASSUME Waiting' # {} => q' <= n' + k'
         PROVE  WorkConserving'
  BY <1>goal DEF WorkConserving, Notifying, Taking
<1>1. ASSUME Start
      PROVE  WorkConserving'
  BY <1>1, WorkFrame DEF Start, Waiting, Notifying, Taking
<1>2. ASSUME StopRunning
      PROVE  WorkConserving'
  BY <1>2, WorkFrame DEF StopRunning, Waiting, Notifying, Taking
<1>3. ASSUME StopClear
      PROVE  WorkConserving'
  <2>1. q' = 0 /\ n' = n /\ k' = k
    BY <1>3, EmptySeq DEF StopClear, Waiting, Notifying, Taking
  <2> QED
    BY <2>1, <1>nat, <1>goal
<1>4. ASSUME StopNotify
      PROVE  WorkConserving'
  <2>1. Waiting' = {}
    BY <1>4 DEF StopNotify, Waiting, Notifying, Taking
  <2> QED
    BY <2>1, WorkFrame
<1>5. ASSUME StopJoin
      PROVE  WorkConserving'
  BY <1>5, WorkFrame DEF StopJoin, Waiting, Notifying, Taking
<1>6. ASSUME NEW w \in Workers, Loop(w)
      PROVE  WorkConserving'
  <2>1. Waiting' = Waiting /\ Notifying' = Notifying
    BY <1>6 DEF Loop, Waiting, Notifying, Taking
  <2>2. q' = q
    BY <1>6 DEF Loop, Waiting, Notifying, Taking
  <2>3. Taking' = Taking \/ Taking' = Taking \cup {w}
    BY <1>6 DEF Loop, Waiting, Notifying, Taking
  <2>4. k' = k \/ k' = k + 1
    BY <2>3, WakersFinite, FS_AddElement
  <2> QED
    BY <2>1, <2>2, <2>4, <1>nat, <1>old, <1>goal
<1>7. ASSUME NEW w \in Workers, Block(w) \/ Sleep(w)
      PROVE  WorkConserving'
  <2>1. q' = 0
    BY <1>7, EmptySeq DEF Block, Sleep, BlockInv, Unlocked
  <2> QED
    BY <2>1, <1>nat2, <1>goal
<1>8. ASSUME NEW w \in Workers, Leave(w)
      PROVE  WorkConserving'
  <2>1. q' = 0
    BY <1>8, EmptySeq DEF Leave, Waiting, Notifying, Taking
  <2> QED
    BY <2>1, <1>nat2, <1>goal
<1>9. ASSUME NEW w \in Workers, TakeFront(w)
      PROVE  WorkConserving'
  <2>1. Waiting' = Waiting /\ Notifying' = Notifying
    BY <1>9 DEF TakeFront, Waiting, Notifying, Taking
  <2>2. q' = q - 1
    BY <1>9, TailElements DEF TakeFront, Waiting, Notifying, Taking
  <2>3. Taking' = Taking \ {w} /\ w \in Taking
    BY <1>9 DEF TakeFront, Waiting, Notifying, Taking
  <2>4. k' = k - 1
    BY <2>3, WakersFinite, OneLess
  <2> QED
    BY <2>1, <2>2, <2>4, <1>nat, <1>old, <1>goal
<1>10. ASSUME NEW w \in Workers, Process(w)
       PROVE  WorkConserving'
  BY <1>10, WorkFrame DEF Process, Waiting, Notifying, Taking
<1>11. ASSUME NEW w \in Workers, RecheckNone(w)
       PROVE  WorkConserving'
  BY <1>11, WorkFrame DEF RecheckNone, Waiting, Notifying, Taking
<1>12. ASSUME NEW w \in Workers, RecheckMore(w)
       PROVE  WorkConserving'
  BY <1>12, WorkFrame DEF RecheckMore, Waiting, Notifying, Taking
<1>13. ASSUME NEW w \in Workers, WakeSpuriously(w)
       PROVE  WorkConserving'
  <2>1. Waiting # {} /\ Notifying' = Notifying /\ q' = q
    BY <1>13 DEF WakeSpuriously, Waiting, Notifying, Taking
  <2>2. Taking' = Taking \cup {w} /\ w \notin Taking
    BY <1>13 DEF WakeSpuriously, Waiting, Notifying, Taking
  <2>3. k' = k + 1
    BY <2>2, WakersFinite, OneMore
  <2> QED
    BY <2>1, <2>3, <1>nat, <1>old, <1>goal
<1>14. ASSUME NEW p \in Producers, NEW s \in Sessions, Receive(p, s)
       PROVE  WorkConserving'
  BY <1>14, WorkFrame DEF Receive, Waiting, Notifying, Taking
<1>15. ASSUME NEW t \in Threads, Push(t)
       PROVE  WorkConserving'
  <2>1. Waiting' = Waiting /\ Taking' = Taking
    BY <1>15 DEF Push, Waiting, Notifying, Taking
  <2>2. q' = q + 1
    BY <1>15, AppendElements DEF Push, Waiting, Notifying, Taking
  <2>3. Notifying' = Notifying \cup {t} /\ t \notin Notifying
    BY <1>15 DEF Push, Waiting, Notifying, Taking
  <2>4. n' = n + 1
    BY <2>3, WakersFinite, OneMore
  <2> QED
    BY <2>1, <2>2, <2>4, <1>nat, <1>old, <1>goal
<1>16. ASSUME NEW t \in Threads, NotifyOne(t)
       PROVE  WorkConserving'
  <2>1. CASE Waiting = {}
    <3>1. Waiting' = {}
      BY <1>16, <2>1 DEF NotifyOne, AfterEnqueue, Waiting, Notifying, Taking
    <3> QED
      BY <3>1, WorkFrame
  <2>2. CASE Waiting # {}
    <3>1. PICK w \in Waiting :
             pc' = [pc EXCEPT ![t] = AfterEnqueue(t), ![w] = "take"]
      BY <1>16, <2>2 DEF NotifyOne, Waiting, Notifying, Taking
    <3>2. t # w /\ AfterEnqueue(t) \in {"loop", "idle"}
      BY <1>16, <3>1 DEF NotifyOne, AfterEnqueue, Waiting, Notifying, Taking
    <3>3. Notifying' = Notifying \ {t} /\ t \in Notifying
      BY <1>16, <3>1, <3>2 DEF NotifyOne, Waiting, Notifying, Taking
    <3>4. Taking' = Taking \cup {w} /\ w \notin Taking
      BY <1>16, <3>1, <3>2 DEF NotifyOne, Waiting, Notifying, Taking
    <3>5. n' = n - 1 /\ k' = k + 1
      BY <3>3, <3>4, WakersFinite, OneMore, OneLess
    <3>6. q' = q
      BY <1>16 DEF NotifyOne, Waiting, Notifying, Taking
    <3> QED
      BY <2>2, <3>5, <3>6, <1>nat, <1>old, <1>goal
  <2> QED
    BY <2>1, <2>2
<1>17. ASSUME UNCHANGED poolVars
       PROVE  WorkConserving'
  BY <1>17, WorkFrame DEF poolVars, Waiting, Notifying, Taking
<1> QED
  BY <1>1, <1>2, <1>3, <1>4, <1>5, <1>6, <1>7, <1>8, <1>9, <1>10, <1>11,
     <1>12, <1>13, <1>14, <1>15, <1>16, <1>17
  DEF PoolNext, Stop, WorkerThread, Enqueue

-----------------------------------------------------------------------------
(* The invariant and what follows from it                                  *)

PoolIInv == PoolTypeOK /\ HeldInv /\ BlockInv /\ WorkConserving

LEMMA PoolInductive == PoolSpec => []PoolIInv
<1>1. PoolInit => PoolIInv
  <2> SUFFICES ASSUME PoolInit
               PROVE  PoolIInv
    OBVIOUS
  <2>1. Len(packetQueue) = 0 /\ Waiting = {}
    BY EmptySeq DEF PoolInit, Waiting, ThreadAt, Threads
  <2>2. \A t \in Threads, s \in Sessions : ~Holds(t, s)
    BY DEF PoolInit, Holds
  <2>3. BlockInv
    BY DEF PoolInit, BlockInv
  <2> QED
    BY <2>1, <2>2, <2>3, PoolTypeInit
    DEF PoolIInv, HeldInv, Unique, ClaimedWhenHeld, WorkConserving
<1>2. PoolIInv /\ [PoolNext]_poolVars => PoolIInv'
  BY PoolTypeInductive, HeldInductive, BlockInductive, WorkInductive DEF PoolIInv
<1> QED
  BY <1>1, <1>2, PTL DEF PoolSpec

\* What is unique is counted at most once.
LEMMA HeldOnceFromInv == PoolTypeOK /\ HeldInv => HeldOnce
<1> SUFFICES ASSUME PoolTypeOK, HeldInv, NEW s \in Sessions
             PROVE  /\ Cardinality(Holders(s)) + Cardinality(Places(s)) <= 1
                    /\ Holders(s) # {} \/ Places(s) # {} => s \in claimed
  BY DEF HeldOnce
<1>1. Unique(s) /\ ClaimedWhenHeld(s)
  BY DEF HeldInv
<1>2. Holders(s) = {} \/ \E t \in Threads : Holders(s) = {t}
  BY <1>1 DEF Unique, Holders, Holds
<1>3. Places(s) = {} \/ \E i \in 1..Len(packetQueue) : Places(s) = {i}
  BY <1>1 DEF Unique, Places
<1>4. Holders(s) = {} \/ Places(s) = {}
  BY <1>1 DEF Unique, Holders, Holds, Places
<1>5. \A S : (S = {} => Cardinality(S) = 0) /\ (\A x : S = {x} => Cardinality(S) = 1)
  BY FS_EmptySet, FS_Singleton
<1>6. /\ Holders(s) = {} => Cardinality(Holders(s)) = 0
      /\ Holders(s) # {} => Cardinality(Holders(s)) = 1
      /\ Places(s) = {} => Cardinality(Places(s)) = 0
      /\ Places(s) # {} => Cardinality(Places(s)) = 1
  BY <1>2, <1>3, <1>5
<1>7. Holders(s) # {} \/ Places(s) # {} => s \in claimed
  BY <1>1 DEF ClaimedWhenHeld, Holders, Holds, Places
<1> QED
  BY <1>4, <1>6, <1>7

\* A session is with one worker, on its way into the queue or in the queue once,
\* and then packetQueueProcessing is set (PacketProcessor.cpp, ProcessPacket2):
\* the handlers of one session never run on two threads.
THEOREM HeldOnceHolds == PoolSpec => []HeldOnce
<1>1. PoolIInv => HeldOnce
  BY HeldOnceFromInv DEF PoolIInv
<1> QED
  BY <1>1, PoolInductive, PTL

\* While a worker is blocked in cv.wait, every session in the queue has a
\* notify_one to come or an awake worker before the lock (PacketProcessor.cpp).
THEOREM WorkConservingHolds == PoolSpec => []WorkConserving
<1>1. PoolIInv => WorkConserving
  BY DEF PoolIInv
<1> QED
  BY <1>1, PoolInductive, PTL

-----------------------------------------------------------------------------
(* The queue and the threads implement HandlerPool                         *)

Due == HeldAt("push")
Serving == HeldAt("process")
Lost == claimed \ (Due \cup InQueue \cup Serving)
Open == stopper \in {"starting", "started"}

\* What a session in somebody's hands or in the queue is not.
LEMMA HeldApart ==
    ASSUME PoolTypeOK, HeldInv
    PROVE  /\ Due \cup InQueue \cup Serving \subseteq claimed
           /\ Due \cup Serving \subseteq Sessions /\ InQueue \subseteq Sessions
           /\ Due \cap InQueue = {} /\ Due \cap Serving = {}
           /\ InQueue \cap Serving = {}
           /\ \A t, u \in Threads :
                 pc[t] \in {"push", "process"} /\ pc[u] \in {"push", "process"}
                    /\ session[t] = session[u] => t = u
           /\ \A i, j \in 1..Len(packetQueue) :
                 packetQueue[i] = packetQueue[j] => i = j
<1>1. \A t \in Threads : pc[t] \in {"push", "process"} =>
         session[t] \in Sessions /\ Holds(t, session[t])
  BY DEF PoolTypeOK, Holds
<1>2. \A i \in 1..Len(packetQueue) : packetQueue[i] \in Sessions
  BY ElementOfSeq DEF PoolTypeOK
<1>3. \A s \in Sessions : Unique(s) /\ ClaimedWhenHeld(s)
  BY DEF HeldInv
<1>4. /\ \A s \in Due \cup Serving : s \in Sessions /\ \E t \in Threads : Holds(t, s)
      /\ \A s \in InQueue : s \in Sessions
                            /\ \E i \in 1..Len(packetQueue) : packetQueue[i] = s
  BY <1>1, <1>2 DEF Due, Serving, HeldAt, InQueue
<1>5. \A s \in Due \cup Serving \cup InQueue : s \in claimed
  BY <1>3, <1>4 DEF ClaimedWhenHeld
<1>6. \A s \in InQueue : s \notin Due \cup Serving
  BY <1>3, <1>4 DEF Unique
<1>7. \A t, u \in Threads :
         pc[t] \in {"push", "process"} /\ pc[u] \in {"push", "process"}
         /\ session[t] = session[u] => t = u
  BY <1>1, <1>3 DEF Unique
<1>8. Due \cap Serving = {}
  BY <1>7 DEF Due, Serving, HeldAt
<1>9. \A i, j \in 1..Len(packetQueue) : packetQueue[i] = packetQueue[j] => i = j
  BY <1>2, <1>3 DEF Unique
<1> QED
  BY <1>4, <1>5, <1>6, <1>7, <1>8, <1>9

\* The sessions at a label when one thread reaches it, leaves it, or none does.
LEMMA HeldAtSame ==
    ASSUME NEW label,
           \A t \in Threads : pc'[t] = label <=> pc[t] = label,
           \A t \in Threads : pc[t] = label => session'[t] = session[t]
    PROVE  HeldAt(label)' = HeldAt(label)
  BY DEF HeldAt

LEMMA HeldAtMore ==
    ASSUME NEW label, NEW t \in Threads, pc[t] # label, pc'[t] = label,
           \A u \in Threads \ {t} : pc'[u] = pc[u] /\ session'[u] = session[u]
    PROVE  HeldAt(label)' = HeldAt(label) \cup {session'[t]}
  BY DEF HeldAt

LEMMA HeldAtLess ==
    ASSUME NEW label, NEW t \in Threads, pc[t] = label, pc'[t] # label,
           \A u \in Threads \ {t} : pc'[u] = pc[u] /\ session'[u] = session[u],
           \A u \in Threads : pc[u] = label /\ session[u] = session[t] => u = t
    PROVE  HeldAt(label)' = HeldAt(label) \ {session[t]}
  BY DEF HeldAt

\* A step that no session notices.
LEMMA Unnoticed ==
    ASSUME UNCHANGED <<packetQueue, claimed>>, Open' <=> Open,
           Due' = Due, Serving' = Serving
    PROVE  UNCHANGED Pool!vars
<1>1. InQueue' = InQueue /\ Lost' = Lost
  BY DEF Lost, InQueue
<1>2. (stopper \in {"starting", "started"})' = (stopper \in {"starting", "started"})
  BY DEF Open
<1> QED
  BY <1>1, <1>2 DEF Pool!vars, Lost, Due, Serving

\* A worker that is about to take a session serves none: one handler is free.
LEMMA HandlerFree ==
    ASSUME PoolTypeOK, NEW w \in Workers, pc[w] = "take",
           \A t \in Producers : pc[t] # "process"
    PROVE  Cardinality(Serving) < Cardinality(Workers)
<1> DEFINE W == {v \in Workers : pc[v] = "process"}
           f == [v \in W |-> session[v]]
<1>1. IsFiniteSet(W) /\ Cardinality(W) < Cardinality(Workers)
  <2>1. W \subseteq Workers \ {w}
    OBVIOUS
  <2>2. /\ IsFiniteSet(Workers \ {w})
        /\ Cardinality(Workers \ {w}) = Cardinality(Workers) - 1
    BY FiniteAssumption, FS_RemoveElement
  <2>3. IsFiniteSet(W) /\ Cardinality(W) <= Cardinality(Workers \ {w})
    BY <2>1, <2>2, FS_Subset
  <2>4. Cardinality(W) \in Nat /\ Cardinality(Workers) \in Nat
    BY <2>3, FiniteAssumption, FS_CardinalityType
  <2> QED
    BY <2>2, <2>3, <2>4
<1>2. Serving = {session[v] : v \in W}
  BY DEF Serving, HeldAt, Threads
<1>3. f \in Surjection(W, Serving)
  <2>1. f \in [W -> Serving]
    BY <1>2
  <2>2. \A s \in Serving : \E t \in W : session[t] = s
    BY <1>2
  <2>3. \A t \in W : f[t] = session[t]
    OBVIOUS
  <2> HIDE DEF f, W
  <2> QED
    BY <2>1, <2>2, <2>3 DEF Surjection
<1>4. IsFiniteSet(Serving) /\ Cardinality(Serving) <= Cardinality(W)
  BY <1>1, <1>3, FS_Surjection
<1>5. Cardinality(Serving) \in Nat /\ Cardinality(W) \in Nat
      /\ Cardinality(Workers) \in Nat
  BY <1>1, <1>4, FiniteAssumption, FS_CardinalityType
<1> QED
  BY <1>1, <1>4, <1>5

\* What a thread may be at, and that nobody has anything before Start.
RoleInv == /\ \A p \in Producers : pc[p] \in {"idle", "push", "notify"}
           /\ stopper = "starting" => \A t \in Threads : pc[t] \in {"gone", "idle"}

LEMMA RoleInductive == PoolTypeOK /\ RoleInv /\ [PoolNext]_poolVars => RoleInv'
<1> SUFFICES ASSUME PoolTypeOK, RoleInv, [PoolNext]_poolVars
             PROVE  RoleInv'
  OBVIOUS
<1> USE RolesAssumption DEF PoolTypeOK, RoleInv, ThreadAt, ThreadTo, Threads, Waiting
<1>1. CASE Start \/ Stop
  BY <1>1 DEF Start, Stop, StopRunning, StopClear, StopNotify, StopJoin
<1>2. ASSUME NEW w \in Workers, WorkerThread(w) \/ WakeSpuriously(w)
      PROVE  RoleInv'
  BY <1>2 DEF WorkerThread, Loop, Block, Sleep, Leave, TakeFront, Process,
              RecheckNone, RecheckMore, WakeSpuriously
<1>3. ASSUME NEW p \in Producers, NEW s \in Sessions, Receive(p, s)
      PROVE  RoleInv'
  BY <1>3 DEF Receive
<1>4. ASSUME NEW t \in Threads, Enqueue(t)
      PROVE  RoleInv'
  BY <1>4 DEF Enqueue, Push, NotifyOne, AfterEnqueue
<1>5. CASE UNCHANGED poolVars
  BY <1>5 DEF poolVars
<1> QED
  BY <1>1, <1>2, <1>3, <1>4, <1>5 DEF PoolNext

\* Every step of the code is a step of HandlerPool or none.
LEMMA PoolImplements ==
    PoolTypeOK /\ HeldInv /\ RoleInv /\ [PoolNext]_poolVars
       => [Pool!Next]_(Pool!vars)
<1> SUFFICES ASSUME PoolTypeOK, HeldInv, RoleInv, [PoolNext]_poolVars
             PROVE  [Pool!Next]_(Pool!vars)
  OBVIOUS
<1> DEFINE Q == [Pool!Next]_(Pool!vars)
<1>win. ASSUME NEW s \in Sessions, s \notin claimed, claimed' = claimed \cup {s},
               Due' = Due \cup {s}, Serving' = Serving,
               UNCHANGED <<packetQueue, stopper>>
        PROVE  Q
  <2>1. InQueue' = InQueue
    BY <1>win DEF InQueue
  <2>2. s \notin Due \cup InQueue \cup Serving \cup Lost /\ Lost' = Lost
    BY <1>win, <2>1, HeldApart DEF Lost
  <2>3. Pool!Win(s)
    BY <1>win, <2>1, <2>2 DEF Pool!Win, Pool!Queued, Lost, InQueue, Due, Serving
  <2> QED
    BY <2>3 DEF Pool!Next
<1>same. ASSUME UNCHANGED <<packetQueue, claimed>>, Open' <=> Open,
                \A t \in Threads :
                   /\ pc'[t] = "push" <=> pc[t] = "push"
                   /\ pc'[t] = "process" <=> pc[t] = "process"
                   /\ pc[t] \in {"push", "process"} => session'[t] = session[t]
         PROVE  Q
  BY <1>same, HeldAtSame, Unnoticed DEF Due, Serving
<1>1. ASSUME Start
      PROVE  Q
  <2>1. \A t \in Threads : pc[t] \in {"gone", "idle"} /\ pc'[t] \notin {"push", "process"}
    BY <1>1 DEF Start, RoleInv, PoolTypeOK, Threads
  <2> QED
    BY <1>1, <1>same, <2>1 DEF Start, Open
<1>2. ASSUME StopRunning
      PROVE  Q
  <2>1. Due' = Due /\ Serving' = Serving /\ InQueue' = InQueue /\ Lost' = Lost
    BY <1>2 DEF StopRunning, Due, Serving, HeldAt, InQueue, Lost
  <2>2. Pool!Close
    BY <1>2, <2>1 DEF StopRunning, Pool!Close, Lost, Due, Serving
  <2> QED
    BY <2>2 DEF Pool!Next
<1>3. ASSUME StopClear
      PROVE  Q
  <2>1. Due' = Due /\ Serving' = Serving
    BY <1>3 DEF StopClear, Due, Serving, HeldAt
  <2>2. InQueue' = {}
    BY <1>3, EmptySeq DEF StopClear, InQueue
  <2>3. Lost' = Lost \cup InQueue
    BY <1>3, <2>1, <2>2, HeldApart DEF StopClear, Lost
  <2>4. Pool!Drop
    BY <1>3, <2>1, <2>3
    DEF StopClear, Pool!Drop, Pool!Queued, Lost, InQueue, Due, Serving
  <2> QED
    BY <2>4 DEF Pool!Next
<1>4. ASSUME StopNotify \/ StopJoin
      PROVE  Q
  BY <1>4, <1>same
  DEF StopNotify, StopJoin, Open, Waiting, ThreadAt, Threads, PoolTypeOK
<1>5. ASSUME NEW w \in Workers,
             \/ Loop(w) \/ Block(w) \/ Sleep(w) \/ Leave(w) \/ RecheckNone(w)
             \/ WakeSpuriously(w)
      PROVE  Q
  BY <1>5, <1>same
  DEF Loop, Block, Sleep, Leave, RecheckNone, WakeSpuriously, Open, ThreadAt, ThreadTo,
      Threads, PoolTypeOK
<1>6. ASSUME NEW w \in Workers, TakeFront(w)
      PROVE  Q
  <2>1. /\ pc[w] = "take" /\ pc'[w] = "process" /\ session'[w] = Head(packetQueue)
        /\ \A u \in Threads \ {w} : pc'[u] = pc[u] /\ session'[u] = session[u]
        /\ packetQueue # <<>> /\ packetQueue' = Tail(packetQueue)
        /\ UNCHANGED <<claimed, stopper>> /\ w \in Threads
    BY <1>6 DEF TakeFront, ThreadAt, ThreadTo, PoolTypeOK, Threads
  <2>2. Due' = Due /\ Serving' = Serving \cup {Head(packetQueue)}
    BY <2>1, HeldAtSame, HeldAtMore DEF Due, Serving
  <2>3. InQueue = InQueue' \cup {Head(packetQueue)}
    <3>1. /\ Len(packetQueue) \in Nat \ {0} /\ Head(packetQueue) = packetQueue[1]
          /\ Len(packetQueue') = Len(packetQueue) - 1
          /\ \A i \in 1..Len(packetQueue') : packetQueue'[i] = packetQueue[i + 1]
      BY <2>1, TailElements DEF PoolTypeOK
    <3>2. \A i \in 1..Len(packetQueue) : i = 1 \/ i - 1 \in 1..Len(packetQueue')
      BY <3>1
    <3>3. \A i \in 2..Len(packetQueue) : packetQueue'[i - 1] = packetQueue[i]
      BY <3>1, <3>2
    <3>4. \A i \in 1..Len(packetQueue') : i + 1 \in 1..Len(packetQueue)
      BY <3>1
    <3> QED
      BY <3>1, <3>2, <3>3, <3>4 DEF InQueue
  <2>4. Lost' = Lost
    BY <2>1, <2>2, <2>3 DEF Lost
  <2>5. Cardinality(Serving) < Cardinality(Workers)
    BY <2>1, HandlerFree DEF RoleInv
  <2>6. Pool!Serve
    <3>1. /\ Cardinality(HeldAt("process")) < Cardinality(Workers)
          /\ HeldAt("process")' = HeldAt("process") \cup {Head(packetQueue)}
          /\ HeldAt("push")' = HeldAt("push")
      BY <2>2, <2>5 DEF Due, Serving
    <3>2. UNCHANGED (claimed \ (HeldAt("push") \cup InQueue \cup HeldAt("process")))
      BY <2>4 DEF Lost, Due, Serving
    <3>3. UNCHANGED (stopper \in {"starting", "started"})
      BY <2>1
    <3>4. packetQueue # <<>> /\ packetQueue' = Tail(packetQueue)
      BY <2>1
    <3> QED
      BY <3>1, <3>2, <3>3, <3>4, Zenon DEF Pool!Serve, Pool!Cardinality, Cardinality
  <2> QED
    BY <2>6 DEF Pool!Next
<1>7. ASSUME NEW w \in Workers, Process(w)
      PROVE  Q
  <2>1. /\ pc[w] = "process" /\ pc'[w] = "recheck" /\ UNCHANGED session
        /\ \A u \in Threads \ {w} : pc'[u] = pc[u]
        /\ claimed' = claimed \ {session[w]}
        /\ UNCHANGED <<packetQueue, stopper>> /\ w \in Threads
    BY <1>7 DEF Process, ThreadAt, ThreadTo, PoolTypeOK, Threads
  <2>2. Due' = Due
    BY <2>1, HeldAtSame DEF Due
  <2>3. Serving' = Serving \ {session[w]}
    BY <2>1, HeldAtLess, HeldApart DEF Serving
  <2>4. session[w] \in Serving /\ InQueue' = InQueue
    BY <2>1 DEF Serving, HeldAt, InQueue
  <2>5. Lost' = Lost
    BY <2>1, <2>2, <2>3, <2>4 DEF Lost
  <2>6. Pool!Finish(session[w]) /\ session[w] \in Sessions
    BY <2>1, <2>2, <2>3, <2>4, <2>5, HeldApart DEF Pool!Finish, Lost, Due, Serving
  <2> QED
    BY <2>6 DEF Pool!Next
<1>8. ASSUME NEW w \in Workers, RecheckMore(w)
      PROVE  Q
  <2>1. /\ pc[w] = "recheck" /\ pc'[w] = "push" /\ UNCHANGED session
        /\ \A u \in Threads \ {w} : pc'[u] = pc[u]
        /\ session[w] \notin claimed /\ claimed' = claimed \cup {session[w]}
        /\ UNCHANGED <<packetQueue, stopper>> /\ w \in Threads
        /\ session[w] \in Sessions
    BY <1>8 DEF RecheckMore, ThreadAt, ThreadTo, PoolTypeOK, Threads
  <2>2. Due' = Due \cup {session[w]} /\ Serving' = Serving
    BY <2>1, HeldAtSame, HeldAtMore DEF Due, Serving
  <2> QED
    BY <2>1, <2>2, <1>win
<1>9. ASSUME NEW p \in Producers, NEW s \in Sessions, Receive(p, s)
      PROVE  Q
  <2>1. /\ pc[p] = "idle" /\ pc'[p] = "push" /\ session'[p] = s
        /\ \A u \in Threads \ {p} : pc'[u] = pc[u] /\ session'[u] = session[u]
        /\ s \notin claimed /\ claimed' = claimed \cup {s}
        /\ UNCHANGED <<packetQueue, stopper>> /\ p \in Threads
    BY <1>9 DEF Receive, ThreadAt, ThreadTo, PoolTypeOK, Threads
  <2>2. Due' = Due \cup {s} /\ Serving' = Serving
    BY <2>1, HeldAtSame, HeldAtMore DEF Due, Serving
  <2> QED
    BY <2>1, <2>2, <1>win
<1>10. ASSUME NEW t \in Threads, Push(t)
       PROVE  Q
  <2>1. /\ pc[t] = "push" /\ pc'[t] = "notify" /\ session[t] \in Sessions
        /\ \A u \in Threads \ {t} : pc'[u] = pc[u] /\ session'[u] = session[u]
        /\ packetQueue' = Append(packetQueue, session[t])
        /\ UNCHANGED <<claimed, stopper>>
    BY <1>10, NoneAssumption DEF Push, ThreadAt, ThreadTo, PoolTypeOK
  <2>2. Serving' = Serving
    BY <2>1, HeldAtSame DEF Serving
  <2>3. Due' = Due \ {session[t]} /\ session[t] \in Due
    <3>1. session[t] \in Due
      BY <2>1 DEF Due, HeldAt
    <3> QED
      BY <2>1, <3>1, HeldAtLess, HeldApart DEF Due
  <2>4. InQueue' = InQueue \cup {session[t]}
    <3>1. /\ Len(packetQueue) \in Nat /\ Len(packetQueue') = Len(packetQueue) + 1
          /\ \A i \in 1..Len(packetQueue) : packetQueue'[i] = packetQueue[i]
          /\ packetQueue'[Len(packetQueue) + 1] = session[t]
      BY <2>1, AppendElements, LenProperties DEF PoolTypeOK
    <3>2. \A i \in 1..Len(packetQueue') :
             i \in 1..Len(packetQueue) \/ i = Len(packetQueue) + 1
      BY <3>1
    <3>3. /\ \A i \in 1..Len(packetQueue) : i \in 1..Len(packetQueue')
          /\ Len(packetQueue) + 1 \in 1..Len(packetQueue')
      BY <3>1
    <3> QED
      BY <3>1, <3>2, <3>3 DEF InQueue
  <2>5. Lost' = Lost
    BY <2>1, <2>2, <2>3, <2>4 DEF Lost
  <2>6. Pool!Queue(session[t])
    BY <2>1, <2>2, <2>3, <2>5 DEF Pool!Queue, Lost, Due, Serving
  <2> QED
    BY <2>1, <2>6 DEF Pool!Next
<1>11. ASSUME NEW t \in Threads, NotifyOne(t)
       PROVE  Q
  BY <1>11, <1>same
  DEF NotifyOne, AfterEnqueue, Open, Waiting, ThreadAt, ThreadTo, Threads, PoolTypeOK
<1>12. ASSUME UNCHANGED poolVars
       PROVE  Q
  BY <1>12, <1>same DEF poolVars, Open
<1> QED
  BY <1>1, <1>2, <1>3, <1>4, <1>5, <1>6, <1>7, <1>8, <1>9, <1>10, <1>11, <1>12
  DEF PoolNext, Stop, WorkerThread, Enqueue

\* The queue, the threads and packetQueueProcessing implement HandlerPool
\* (PacketProcessor.cpp): the sessions are served in the order of the queue, by
\* no more handlers than there are workers, each session by one at a time, and
\* none is dropped before Stop.
THEOREM HandlersHold == PoolSpec => HandlersSpec
<1>1. PoolInit => Pool!Init /\ RoleInv
  <2> SUFFICES ASSUME PoolInit
               PROVE  Pool!Init /\ RoleInv
    OBVIOUS
  <2>1. /\ \A t \in Threads : pc[t] = IF t \in Workers THEN "gone" ELSE "idle"
        /\ claimed = {} /\ packetQueue = <<>> /\ stopper = "starting"
    BY DEF PoolInit
  <2>2. \A t \in Threads : pc[t] # "push" /\ pc[t] # "process"
    BY <2>1
  <2>3. Pool!Init
    <3>1. HeldAt("push") = {} /\ HeldAt("process") = {}
      BY <2>2 DEF HeldAt
    <3> QED
      BY <2>1, <3>1 DEF Pool!Init
  <2>4. RoleInv
    BY <2>1, RolesAssumption DEF RoleInv, Threads
  <2> QED
    BY <2>3, <2>4
<1>2. PoolIInv /\ RoleInv /\ [PoolNext]_poolVars => RoleInv'
  BY RoleInductive DEF PoolIInv
<1>3. PoolIInv /\ RoleInv /\ [PoolNext]_poolVars => [Pool!Next]_(Pool!vars)
  BY PoolImplements DEF PoolIInv
<1> QED
  BY <1>1, <1>2, <1>3, PoolInductive, PTL DEF PoolSpec, HandlersSpec, Pool!Spec
=============================================================================
