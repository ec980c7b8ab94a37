-------------------------- MODULE SendQueue_proofs --------------------------
(***************************************************************************)
(* Proofs about SendQueue for any sets of threads and any bounds.          *)
(***************************************************************************)
EXTENDS SendQueue, SequenceTheorems, TLAPS

-----------------------------------------------------------------------------
(* Sequences as std::queue uses them.                                      *)

\* push: the new element comes last and the others keep their places.
LEMMA PushBack ==
    ASSUME NEW S, NEW q \in Seq(S), NEW m \in S
    PROVE  /\ Append(q, m) \in Seq(S)
           /\ Len(Append(q, m)) = Len(q) + 1
           /\ \A i \in 1..Len(q) : Append(q, m)[i] = q[i]
           /\ Append(q, m)[Len(q) + 1] = m
  BY AppendProperties

LEMMA PushBackElements ==
    ASSUME NEW S, NEW q \in Seq(S), NEW m \in S
    PROVE  \A i \in 1..Len(Append(q, m)) :
              \/ Append(q, m)[i] = m
              \/ i \in 1..Len(q) /\ Append(q, m)[i] = q[i]
<1> DEFINE a == Append(q, m)
<1>1. /\ Len(q) \in Nat
      /\ Len(a) = Len(q) + 1
      /\ \A i \in 1..Len(q) : a[i] = q[i]
      /\ a[Len(q) + 1] = m
  BY PushBack, LenProperties
<1> HIDE DEF a
<1>2. \A i \in 1..Len(a) : i \in 1..Len(q) \/ i = Len(q) + 1
  BY <1>1
<1>3. \A i \in 1..Len(a) : a[i] = m \/ (i \in 1..Len(q) /\ a[i] = q[i])
  BY <1>1, <1>2
<1> QED
  BY <1>3 DEF a

\* front and pop: the head goes and the others move up by one place.
LEMMA PopsFront ==
    ASSUME NEW S, NEW q \in Seq(S), q # <<>>
    PROVE  /\ Head(q) \in S
           /\ Head(q) = q[1]
           /\ Tail(q) \in Seq(S)
           /\ Len(q) \in Nat \ {0}
           /\ Len(Tail(q)) = Len(q) - 1
           /\ \A i \in 1..Len(Tail(q)) : Tail(q)[i] = q[i + 1] /\ i + 1 \in 1..Len(q)
  BY HeadTailProperties, EmptySeq

\* A message that is above all of an increasing sequence keeps it increasing.
LEMMA AppendIncreasing ==
    ASSUME NEW q \in Seq(Message), NEW m \in Message, Increasing(q),
           \A i \in 1..Len(q) : q[i] < m
    PROVE  Increasing(Append(q, m))
  BY PushBack DEF Increasing, Message

LEMMA TailIncreasing ==
    ASSUME NEW q \in Seq(Message), q # <<>>, Increasing(q)
    PROVE  /\ Increasing(Tail(q))
           /\ \A i \in 1..Len(Tail(q)) : Head(q) < Tail(q)[i]
  BY PopsFront DEF Increasing, Message

-----------------------------------------------------------------------------
(* The actions by the thread that takes them.                              *)

LEMMA TypeInit == Init => TypeOK
<1> SUFFICES ASSUME Init
             PROVE  TypeOK
  OBVIOUS
<1>1. sendQueue \in Seq(Message) /\ wire \in Seq(Message)
  BY EmptySeq DEF Init
<1>2. \A t \in Threads : (pc[t] = "post") = (sendData[t] # 0)
  BY DEF Init
<1> QED BY <1>1, <1>2 DEF Init, TypeOK, Labels

LEMMA TypeInductive == TypeOK /\ [Next]_vars => TypeOK'
<1> SUFFICES ASSUME TypeOK, [Next]_vars
             PROVE  TypeOK'
  OBVIOUS
<1> USE DEF TypeOK, Goto, At, Labels, Done, Threads
<1>1. ASSUME NEW s \in Senders, Send(s) \/ Push(s) \/ Return(s)
      PROVE  TypeOK'
  <2>1. CASE Send(s)
    BY <2>1 DEF Send
  <2>2. CASE Push(s)
    <3>1. next' \in Message
      BY <2>2 DEF Push, Message
    <3>2. sendQueue' \in Seq(Message)
      BY <2>2, <3>1, PushBack DEF Push
    <3> QED BY <2>2, <3>2 DEF Push
  <2>3. CASE Return(s)
    BY <2>3, EmptySeq DEF Return, ResetIf
  <2> QED BY <1>1, <2>1, <2>2, <2>3
<1>2. ASSUME NEW t \in Threads, Exchange(t)
      PROVE  TypeOK'
  BY <1>2 DEF Exchange
<1>3. ASSUME NEW t \in Threads, PopEmpty(t)
      PROVE  TypeOK'
  BY <1>3 DEF PopEmpty
<1>4. ASSUME NEW t \in Threads, PopFront(t)
      PROVE  TypeOK'
  <2>1. /\ Head(sendQueue) \in Message
        /\ sendQueue' \in Seq(Message)
    BY <1>4, PopsFront DEF PopFront
  <2>2. Head(sendQueue) \in Nat /\ Head(sendQueue) # 0
    BY <2>1 DEF Message
  <2> QED BY <1>4, <2>1, <2>2 DEF PopFront
<1>5. ASSUME NEW t \in Threads, PostAccepted(t)
      PROVE  TypeOK'
  <2>1. sendData[t] \in Message
    BY <1>5 DEF PostAccepted, Message
  <2>2. wire' \in Seq(Message) /\ posted' \in SUBSET Message
    BY <1>5, <2>1, PushBack DEF PostAccepted
  <2> QED BY <1>5, <2>2 DEF PostAccepted
<1>6. ASSUME NEW t \in Threads, PostRejected(t)
      PROVE  TypeOK'
  BY <1>6 DEF PostRejected
<1>7. ASSUME NEW t \in Threads, PostExpired(t)
      PROVE  TypeOK'
  BY <1>7 DEF PostExpired
<1>8. ASSUME NEW t \in Threads, Fail(t)
      PROVE  TypeOK'
  BY <1>8 DEF Fail
<1>9. ASSUME NEW t \in Threads, StartDisconnect(t)
      PROVE  TypeOK'
  BY <1>9 DEF StartDisconnect
<1>10. ASSUME NEW t \in Threads, Disc(t)
       PROVE  TypeOK'
  BY <1>10 DEF Disc
<1>11. ASSUME NEW t \in Threads, Close(t)
       PROVE  TypeOK'
  BY <1>11 DEF Close
<1>12. ASSUME NEW w \in Workers, ProcessSend(w)
       PROVE  TypeOK'
  BY <1>12, EmptySeq DEF ProcessSend, ResetIf
<1>13. ASSUME NEW w \in Workers, CheckEmpty(w)
       PROVE  TypeOK'
  BY <1>13 DEF CheckEmpty
<1>14. ASSUME NEW w \in Workers, CheckMore(w)
       PROVE  TypeOK'
  BY <1>14 DEF CheckMore
<1>15. ASSUME NEW w \in Workers, Clear(w)
       PROVE  TypeOK'
  BY <1>15 DEF Clear
<1>16. ASSUME Detach
       PROVE  TypeOK'
  BY <1>16, EmptySeq DEF Detach, ResetIf
<1>17. ASSUME Reuse
       PROVE  TypeOK'
  BY <1>17, EmptySeq DEF Reuse
<1>18. ASSUME UNCHANGED vars
       PROVE  TypeOK'
  BY <1>18 DEF vars
<1> QED
  BY <1>1, <1>2, <1>3, <1>4, <1>5, <1>6, <1>7, <1>8, <1>9, <1>10, <1>11,
     <1>12, <1>13, <1>14, <1>15, <1>16, <1>17, <1>18
  DEF Next, RegisterSend, Disconnect, SenderStep, WorkerStep

\* The fields and the locals keep their types.
THEOREM TypeCorrect == Spec => []TypeOK
  BY TypeInit, TypeInductive, PTL DEF Spec

-----------------------------------------------------------------------------
(* isSending is a lock that is handed from thread to completion and back.  *)

TokenInv == OneInFlight /\ SendingClaimed

LEMMA TokenInductive == TypeOK /\ TokenInv /\ [Next]_vars => TokenInv'
<1> SUFFICES ASSUME TypeOK, TokenInv, [Next]_vars
             PROVE  TokenInv'
  OBVIOUS
<1> USE ThreadsAssumption
    DEF TypeOK, TokenInv, OneInFlight, SendingClaimed, Token, Alive, Goto,
        At, Labels, Done, Threads
<1>1. ASSUME NEW t \in Threads, Exchange(t)
      PROVE  TokenInv'
  BY <1>1 DEF Exchange
<1>2. ASSUME NEW t \in Threads, PopEmpty(t)
      PROVE  TokenInv'
  BY <1>2 DEF PopEmpty
<1>3. ASSUME NEW t \in Threads, PopFront(t)
      PROVE  TokenInv'
  BY <1>3 DEF PopFront
<1>4. ASSUME NEW t \in Threads, PostAccepted(t)
      PROVE  TokenInv'
  BY <1>4 DEF PostAccepted
<1>5. ASSUME NEW t \in Threads, PostRejected(t)
      PROVE  TokenInv'
  BY <1>5 DEF PostRejected
<1>6. ASSUME NEW t \in Threads, PostExpired(t)
      PROVE  TokenInv'
  BY <1>6 DEF PostExpired, Referenced
<1>7. ASSUME NEW t \in Threads, Fail(t)
      PROVE  TokenInv'
  BY <1>7 DEF Fail
<1>8. ASSUME NEW t \in Threads, StartDisconnect(t)
      PROVE  TokenInv'
  BY <1>8 DEF StartDisconnect
<1>9. ASSUME NEW t \in Threads, Disc(t)
      PROVE  TokenInv'
  BY <1>9 DEF Disc
<1>10. ASSUME NEW t \in Threads, Close(t)
       PROVE  TokenInv'
  BY <1>10 DEF Close
<1>11. ASSUME NEW w \in Workers, ProcessSend(w)
       PROVE  TokenInv'
  BY <1>11 DEF ProcessSend, ResetIf
<1>12. ASSUME NEW w \in Workers, CheckEmpty(w)
       PROVE  TokenInv'
  BY <1>12 DEF CheckEmpty
<1>13. ASSUME NEW w \in Workers, CheckMore(w)
       PROVE  TokenInv'
  BY <1>13 DEF CheckMore
<1>14. ASSUME NEW w \in Workers, Clear(w)
       PROVE  TokenInv'
  BY <1>14 DEF Clear
<1>15. ASSUME NEW s \in Senders, Send(s)
       PROVE  TokenInv'
  BY <1>15 DEF Send
<1>16. ASSUME NEW s \in Senders, Push(s)
       PROVE  TokenInv'
  BY <1>16 DEF Push
<1>17. ASSUME NEW s \in Senders, Return(s)
       PROVE  TokenInv'
  BY <1>17 DEF Return, ResetIf
<1>18. ASSUME Detach
       PROVE  TokenInv'
  BY <1>18 DEF Detach, ResetIf
<1>19. ASSUME Reuse
       PROVE  TokenInv'
  BY <1>19 DEF Reuse
<1>20. ASSUME UNCHANGED vars
       PROVE  TokenInv'
  BY <1>20 DEF vars
<1> QED
  BY <1>1, <1>2, <1>3, <1>4, <1>5, <1>6, <1>7, <1>8, <1>9, <1>10,
     <1>11, <1>12, <1>13, <1>14, <1>15, <1>16, <1>17, <1>18, <1>19, <1>20
  DEF Next, RegisterSend, Disconnect, SenderStep, WorkerStep

-----------------------------------------------------------------------------
(* An object in the pool has an empty queue.                               *)

LEMMA PooledInductive == TypeOK /\ EmptyInPool /\ [Next]_vars => EmptyInPool'
<1> SUFFICES ASSUME TypeOK, EmptyInPool, [Next]_vars
             PROVE  EmptyInPool'
  OBVIOUS
<1> USE ThreadsAssumption
    DEF TypeOK, EmptyInPool, Alive, Referenced, Goto, At, Labels, Done,
        Threads
<1>1. ASSUME NEW t \in Threads, Exchange(t)
      PROVE  EmptyInPool'
  BY <1>1 DEF Exchange
<1>2. ASSUME NEW t \in Threads, PopEmpty(t)
      PROVE  EmptyInPool'
  BY <1>2 DEF PopEmpty
<1>3. ASSUME NEW t \in Threads, PopFront(t)
      PROVE  EmptyInPool'
  BY <1>3 DEF PopFront
<1>4. ASSUME NEW t \in Threads, PostAccepted(t)
      PROVE  EmptyInPool'
  BY <1>4 DEF PostAccepted
<1>5. ASSUME NEW t \in Threads, PostRejected(t)
      PROVE  EmptyInPool'
  BY <1>5 DEF PostRejected
<1>6. ASSUME NEW t \in Threads, PostExpired(t)
      PROVE  EmptyInPool'
  BY <1>6 DEF PostExpired
<1>7. ASSUME NEW t \in Threads, Fail(t)
      PROVE  EmptyInPool'
  BY <1>7 DEF Fail
<1>8. ASSUME NEW t \in Threads, StartDisconnect(t)
      PROVE  EmptyInPool'
  BY <1>8 DEF StartDisconnect
<1>9. ASSUME NEW t \in Threads, Disc(t)
      PROVE  EmptyInPool'
  BY <1>9 DEF Disc
<1>10. ASSUME NEW t \in Threads, Close(t)
       PROVE  EmptyInPool'
  BY <1>10 DEF Close
<1>11. ASSUME NEW w \in Workers, ProcessSend(w)
       PROVE  EmptyInPool'
  BY <1>11 DEF ProcessSend, ResetIf
<1>12. ASSUME NEW w \in Workers, CheckEmpty(w)
       PROVE  EmptyInPool'
  BY <1>12 DEF CheckEmpty
<1>13. ASSUME NEW w \in Workers, CheckMore(w)
       PROVE  EmptyInPool'
  BY <1>13 DEF CheckMore
<1>14. ASSUME NEW w \in Workers, Clear(w)
       PROVE  EmptyInPool'
  BY <1>14 DEF Clear
<1>15. ASSUME NEW s \in Senders, Send(s)
       PROVE  EmptyInPool'
  BY <1>15 DEF Send
<1>16. ASSUME NEW s \in Senders, Push(s)
       PROVE  EmptyInPool'
  BY <1>16 DEF Push
<1>17. ASSUME NEW s \in Senders, Return(s)
       PROVE  EmptyInPool'
  BY <1>17 DEF Return, ResetIf
<1>18. ASSUME Detach
       PROVE  EmptyInPool'
  BY <1>18 DEF Detach, ResetIf
<1>19. ASSUME Reuse
       PROVE  EmptyInPool'
  BY <1>19 DEF Reuse
<1>20. ASSUME UNCHANGED vars
       PROVE  EmptyInPool'
  BY <1>20 DEF vars
<1> QED
  BY <1>1, <1>2, <1>3, <1>4, <1>5, <1>6, <1>7, <1>8, <1>9, <1>10,
     <1>11, <1>12, <1>13, <1>14, <1>15, <1>16, <1>17, <1>18, <1>19, <1>20
  DEF Next, RegisterSend, Disconnect, SenderStep, WorkerStep

-----------------------------------------------------------------------------
(* The wire keeps the order of the pushes.                                 *)

OrderInv == WireOrdered /\ PushOrder

LEMMA OrderInductive ==
    TypeOK /\ TokenInv /\ OrderInv /\ [Next]_vars => OrderInv'
<1> SUFFICES ASSUME TypeOK, TokenInv, OrderInv, [Next]_vars
             PROVE  OrderInv'
  OBVIOUS
<1> USE ThreadsAssumption
    DEF TypeOK, OrderInv, WireOrdered, PushOrder, Goto, At, Labels, Done,
        Threads
<1>reset. ASSUME ResetIf(TRUE) \/ ResetIf(FALSE), UNCHANGED <<wire, sendData, next>>,
             \A t \in Threads : pc'[t] = "post" => pc[t] = "post"
      PROVE  OrderInv'
  <2>1. CASE ResetIf(FALSE)
    BY <1>reset, <2>1 DEF ResetIf, Increasing
  <2>2. CASE ResetIf(TRUE)
    BY <1>reset, <2>2, EmptySeq DEF ResetIf, Increasing
  <2> QED BY <1>reset, <2>1, <2>2
<1>cases. \A P : ResetIf(P) => ResetIf(TRUE) \/ ResetIf(FALSE)
  BY DEF ResetIf
<1>1. ASSUME NEW t \in Threads, Exchange(t)
      PROVE  OrderInv'
  BY <1>1 DEF Exchange
<1>2. ASSUME NEW t \in Threads, PopEmpty(t)
      PROVE  OrderInv'
  BY <1>2 DEF PopEmpty
<1>3. ASSUME NEW t \in Threads, PopFront(t)
      PROVE  OrderInv'
  <2>1. \A u \in Threads : pc[u] # "post"
    BY <1>3 DEF PopFront, TokenInv, OneInFlight, Token
  <2>2. /\ Head(sendQueue) = sendQueue[1]
        /\ 1 \in 1..Len(sendQueue)
        /\ sendQueue' \in Seq(Message)
        /\ \A j \in 1..Len(sendQueue') : /\ sendQueue'[j] = sendQueue[j + 1]
                                         /\ j + 1 \in 1..Len(sendQueue)
    BY <1>3, PopsFront DEF PopFront
  <2>3. /\ Increasing(sendQueue')
        /\ \A j \in 1..Len(sendQueue') : Head(sendQueue) < sendQueue'[j]
    BY <1>3, TailIncreasing DEF PopFront
  <2>4. \A u \in Threads : pc'[u] = "post" => sendData'[u] = Head(sendQueue)
    BY <1>3, <2>1 DEF PopFront
  <2> QED BY <1>3, <2>2, <2>3, <2>4 DEF PopFront
<1>4. ASSUME NEW t \in Threads, PostAccepted(t)
      PROVE  OrderInv'
  <2>1. \A u \in Threads : pc'[u] # "post"
    BY <1>4 DEF PostAccepted, TokenInv, OneInFlight, Token
  <2>2. sendData[t] \in Message
    BY <1>4 DEF PostAccepted, Message
  <2>3. Increasing(wire')
    BY <1>4, <2>2, AppendIncreasing DEF PostAccepted
  <2>4. \A i \in 1..Len(wire') :
           wire'[i] = sendData[t] \/ (i \in 1..Len(wire) /\ wire'[i] = wire[i])
    BY <1>4, <2>2, PushBackElements DEF PostAccepted
  <2>5. \A i \in 1..Len(wire') : wire'[i] \in 1..next'
    BY <1>4, <2>4 DEF PostAccepted
  <2>6. \A i \in 1..Len(wire'), j \in 1..Len(sendQueue') : wire'[i] < sendQueue'[j]
    BY <1>4, <2>4 DEF PostAccepted
  <2> QED BY <1>4, <2>1, <2>3, <2>5, <2>6 DEF PostAccepted
<1>5. ASSUME NEW t \in Threads, PostRejected(t)
      PROVE  OrderInv'
  BY <1>5 DEF PostRejected
<1>6. ASSUME NEW t \in Threads, PostExpired(t)
      PROVE  OrderInv'
  BY <1>6 DEF PostExpired
<1>7. ASSUME NEW t \in Threads, Fail(t)
      PROVE  OrderInv'
  BY <1>7 DEF Fail
<1>8. ASSUME NEW t \in Threads, StartDisconnect(t)
      PROVE  OrderInv'
  BY <1>8 DEF StartDisconnect
<1>9. ASSUME NEW t \in Threads, Disc(t)
      PROVE  OrderInv'
  BY <1>9 DEF Disc
<1>10. ASSUME NEW t \in Threads, Close(t)
       PROVE  OrderInv'
  BY <1>10 DEF Close
<1>11. ASSUME NEW w \in Workers, ProcessSend(w)
       PROVE  OrderInv'
  BY <1>11, <1>reset, <1>cases DEF ProcessSend
<1>12. ASSUME NEW w \in Workers, CheckEmpty(w)
       PROVE  OrderInv'
  BY <1>12 DEF CheckEmpty
<1>13. ASSUME NEW w \in Workers, CheckMore(w)
       PROVE  OrderInv'
  BY <1>13 DEF CheckMore
<1>14. ASSUME NEW w \in Workers, Clear(w)
       PROVE  OrderInv'
  BY <1>14 DEF Clear
<1>15. ASSUME NEW s \in Senders, Send(s)
       PROVE  OrderInv'
  BY <1>15 DEF Send
<1>16. ASSUME NEW s \in Senders, Push(s)
       PROVE  OrderInv'
  <2>1. next' \in Message /\ sendQueue' \in Seq(Message)
    BY <1>16, PushBack DEF Push, Message
  <2>2. \A i \in 1..Len(sendQueue) : sendQueue[i] < next'
    BY <1>16 DEF Push
  <2>3. Increasing(sendQueue')
    BY <1>16, <2>1, <2>2, AppendIncreasing DEF Push
  <2>4. \A j \in 1..Len(sendQueue') :
           sendQueue'[j] = next' \/ (j \in 1..Len(sendQueue) /\ sendQueue'[j] = sendQueue[j])
    BY <1>16, <2>1, PushBackElements DEF Push
  <2>5. \A j \in 1..Len(sendQueue') : sendQueue'[j] \in 1..next'
    BY <1>16, <2>4 DEF Push
  <2>6. \A i \in 1..Len(wire') : wire'[i] \in 1..next'
    BY <1>16 DEF Push
  <2>7. \A i \in 1..Len(wire'), j \in 1..Len(sendQueue') : wire'[i] < sendQueue'[j]
    BY <1>16, <2>4 DEF Push
  <2>8. \A t \in Threads : pc'[t] = "post" =>
           /\ pc[t] = "post"
           /\ sendData'[t] \in 1..next'
           /\ \A i \in 1..Len(wire') : wire'[i] < sendData'[t]
           /\ \A j \in 1..Len(sendQueue') : sendData'[t] < sendQueue'[j]
    BY <1>16, <2>4 DEF Push
  <2> QED BY <1>16, <2>3, <2>5, <2>6, <2>7, <2>8 DEF Push
<1>17. ASSUME NEW s \in Senders, Return(s)
       PROVE  OrderInv'
  BY <1>17, <1>reset, <1>cases DEF Return
<1>18. ASSUME Detach
       PROVE  OrderInv'
  BY <1>18, <1>reset, <1>cases DEF Detach
<1>19. ASSUME Reuse
       PROVE  OrderInv'
  BY <1>19, EmptySeq DEF Reuse, Increasing
<1>20. ASSUME UNCHANGED vars
       PROVE  OrderInv'
  BY <1>20 DEF vars
<1> QED
  BY <1>1, <1>2, <1>3, <1>4, <1>5, <1>6, <1>7, <1>8, <1>9, <1>10,
     <1>11, <1>12, <1>13, <1>14, <1>15, <1>16, <1>17, <1>18, <1>19, <1>20
  DEF Next, RegisterSend, Disconnect, SenderStep, WorkerStep

-----------------------------------------------------------------------------
(* Somebody is responsible for a queue that is not empty.                  *)

LEMMA StrandedInductive ==
    TypeOK /\ TokenInv /\ EmptyInPool /\ NoStranded /\ [Next]_vars => NoStranded'
<1> SUFFICES ASSUME TypeOK, TokenInv, EmptyInPool, NoStranded, [Next]_vars
             PROVE  NoStranded'
  OBVIOUS
<1> USE ThreadsAssumption
    DEF TypeOK, NoStranded, Alive, Token, Goto, At, Labels, Done, Threads
<1>1. ASSUME NEW t \in Threads, Exchange(t)
      PROVE  NoStranded'
  BY <1>1 DEF Exchange, TokenInv, SendingClaimed
<1>2. ASSUME NEW t \in Threads, PopEmpty(t)
      PROVE  NoStranded'
  BY <1>2 DEF PopEmpty
<1>3. ASSUME NEW t \in Threads, PopFront(t)
      PROVE  NoStranded'
  BY <1>3 DEF PopFront
<1>4. ASSUME NEW t \in Threads, PostAccepted(t)
      PROVE  NoStranded'
  BY <1>4 DEF PostAccepted
<1>5. ASSUME NEW t \in Threads, PostRejected(t)
      PROVE  NoStranded'
  BY <1>5 DEF PostRejected
<1>6. ASSUME NEW t \in Threads, PostExpired(t)
      PROVE  NoStranded'
  BY <1>6 DEF PostExpired
<1>7. ASSUME NEW t \in Threads, Fail(t)
      PROVE  NoStranded'
  BY <1>7 DEF Fail
<1>8. ASSUME NEW t \in Threads, StartDisconnect(t)
      PROVE  NoStranded'
  BY <1>8 DEF StartDisconnect
<1>9. ASSUME NEW t \in Threads, Disc(t)
      PROVE  NoStranded'
  BY <1>9 DEF Disc
<1>10. ASSUME NEW t \in Threads, Close(t)
       PROVE  NoStranded'
  BY <1>10 DEF Close
<1>11. ASSUME NEW w \in Workers, ProcessSend(w)
       PROVE  NoStranded'
  BY <1>11 DEF ProcessSend, ResetIf
<1>12. ASSUME NEW w \in Workers, CheckEmpty(w)
       PROVE  NoStranded'
  BY <1>12 DEF CheckEmpty
<1>13. ASSUME NEW w \in Workers, CheckMore(w)
       PROVE  NoStranded'
  BY <1>13 DEF CheckMore
<1>14. ASSUME NEW w \in Workers, Clear(w)
       PROVE  NoStranded'
  BY <1>14 DEF Clear
<1>15. ASSUME NEW s \in Senders, Send(s)
       PROVE  NoStranded'
  BY <1>15 DEF Send
<1>16. ASSUME NEW s \in Senders, Push(s)
       PROVE  NoStranded'
  BY <1>16 DEF Push
<1>17. ASSUME NEW s \in Senders, Return(s)
       PROVE  NoStranded'
  BY <1>17 DEF Return, ResetIf
<1>18. ASSUME Detach
       PROVE  NoStranded'
  BY <1>18 DEF Detach, ResetIf
<1>19. ASSUME Reuse
       PROVE  NoStranded'
  BY <1>19 DEF Reuse, EmptyInPool
<1>20. ASSUME UNCHANGED vars
       PROVE  NoStranded'
  BY <1>20 DEF vars
<1> QED
  BY <1>1, <1>2, <1>3, <1>4, <1>5, <1>6, <1>7, <1>8, <1>9, <1>10,
     <1>11, <1>12, <1>13, <1>14, <1>15, <1>16, <1>17, <1>18, <1>19, <1>20
  DEF Next, RegisterSend, Disconnect, SenderStep, WorkerStep

-----------------------------------------------------------------------------
(* The theorems.                                                           *)

IInv == TypeOK /\ TokenInv /\ EmptyInPool /\ OrderInv /\ NoStranded

LEMMA Inductive == Spec => []IInv
<1>1. Init => IInv
  <2> SUFFICES ASSUME Init
               PROVE  IInv
    OBVIOUS
  <2>1. TypeOK
    BY TypeInit
  <2>2. TokenInv
    BY DEF Init, TokenInv, OneInFlight, SendingClaimed, Token
  <2>3. EmptyInPool /\ NoStranded
    BY DEF Init, EmptyInPool, Referenced, NoStranded
  <2>4. OrderInv
    BY EmptySeq DEF Init, OrderInv, WireOrdered, PushOrder, Increasing
  <2> QED BY <2>1, <2>2, <2>3, <2>4 DEF IInv
<1>2. IInv /\ [Next]_vars => IInv'
  BY TypeInductive, TokenInductive, PooledInductive, OrderInductive,
     StrandedInductive DEF IInv
<1> QED
  BY <1>1, <1>2, PTL DEF Spec

\* At most one WSASend is outstanding and no second thread is on its way to
\* one, for any number of threads, messages and connections.
THEOREM OneInFlightHolds == Spec => []OneInFlight
<1>1. IInv => OneInFlight
  BY DEF IInv, TokenInv
<1> QED
  BY <1>1, Inductive, PTL

\* WSASend sees the messages of a session in the order of the pushes.
THEOREM WireOrderedHolds == Spec => []WireOrdered
<1>1. IInv => WireOrdered
  BY DEF IInv, OrderInv
<1> QED
  BY <1>1, Inductive, PTL

\* A connected session with a message in its queue has a thread or a
\* completion that will look at the queue again.
THEOREM NoStrandedHolds == Spec => []NoStranded
<1>1. IInv => NoStranded
  BY DEF IInv
<1> QED
  BY <1>1, Inductive, PTL

\* A session in the pool has an empty queue, a connected one is referenced.
THEOREM PooledEmptyHolds == Spec => []PooledEmpty
<1>1. IInv => PooledEmpty
  BY DEF IInv, PooledEmpty
<1> QED
  BY <1>1, Inductive, PTL
-----------------------------------------------------------------------------
(* The send half implements FifoPipe.                                      *)

Doomed == isConnected /\ \E t \in Threads : pc[t] \in {"fail", "disc"}

\* One message in front of a queue.
LEMMA InFront ==
    ASSUME NEW q \in Seq(Message), NEW a \in Message
    PROVE  /\ <<a>> \o q \in Seq(Message)
           /\ <<a>> \o q # <<>>
           /\ Head(<<a>> \o q) = a
           /\ Tail(<<a>> \o q) = q
           /\ \A m \in Message : Append(<<a>> \o q, m) = <<a>> \o Append(q, m)
  OBVIOUS

LEMMA FrontBack ==
    ASSUME NEW q \in Seq(Message), q # <<>>
    PROVE  <<Head(q)>> \o Tail(q) = q
  OBVIOUS

\* What Pending is while no thread carries a message, and while one does.
LEMMA PendingNone ==
    ASSUME \A t \in Threads : pc[t] # "post"
    PROVE  Pending = sendQueue
  BY DEF Pending, Carrying

LEMMA PendingOne ==
    ASSUME NEW t \in Threads, pc[t] = "post",
           \A u \in Threads : pc[u] = "post" => u = t
    PROVE  Pending = <<sendData[t]>> \o sendQueue
  BY DEF Pending, Carrying

LEMMA PendingNoneNext ==
    ASSUME \A t \in Threads : pc'[t] # "post"
    PROVE  Pending' = sendQueue'
  BY DEF Pending, Carrying

LEMMA PendingOneNext ==
    ASSUME NEW t \in Threads, pc'[t] = "post",
           \A u \in Threads : pc'[u] = "post" => u = t
    PROVE  Pending' = <<sendData'[t]>> \o sendQueue'
  BY DEF Pending, Carrying

\* A step that touches neither the queue nor what is carried.
LEMMA PendingSame ==
    ASSUME TypeOK, OneInFlight, UNCHANGED sendQueue,
           \A t \in Threads : (pc'[t] = "post") = (pc[t] = "post"),
           \A t \in Threads : pc[t] = "post" => sendData'[t] = sendData[t]
    PROVE  Pending' = Pending
<1>1. CASE \A t \in Threads : pc[t] # "post"
  BY <1>1, PendingNone, PendingNoneNext
<1>2. CASE \E t \in Threads : pc[t] = "post"
  <2>1. PICK t \in Threads : pc[t] = "post"
    BY <1>2
  <2>2. \A u \in Threads : pc[u] = "post" => u = t
    BY <2>1 DEF OneInFlight, Token
  <2>3. pc'[t] = "post" /\ \A u \in Threads : pc'[u] = "post" => u = t
    BY <2>1, <2>2
  <2>4. Pending = <<sendData[t]>> \o sendQueue
    BY <2>1, <2>2, PendingOne
  <2>5. Pending' = <<sendData'[t]>> \o sendQueue'
    BY <2>3, PendingOneNext
  <2> QED
    BY <2>1, <2>4, <2>5
<1> QED
  BY <1>1, <1>2

\* The same for a step that may recycle the object.
LEMMA PendingReset ==
    ASSUME TypeOK, OneInFlight, sendQueue' = <<>>, UNCHANGED sendData,
           \A t \in Threads : (pc'[t] = "post") = (pc[t] = "post")
    PROVE  \/ Pending' = Pending
           \/ Pending # <<>> /\ Pending' \in {<<>>, <<Head(Pending)>>}
<1>q. sendQueue \in Seq(Message)
  BY DEF TypeOK
<1>1. CASE \A t \in Threads : pc[t] # "post"
  BY <1>1, <1>q, PendingNone, PendingNoneNext
<1>2. CASE \E t \in Threads : pc[t] = "post"
  <2>1. PICK t \in Threads : pc[t] = "post"
    BY <1>2
  <2>2. \A u \in Threads : pc[u] = "post" => u = t
    BY <2>1 DEF OneInFlight, Token
  <2>3. pc'[t] = "post" /\ \A u \in Threads : pc'[u] = "post" => u = t
    BY <2>1, <2>2
  <2>4. Pending = <<sendData[t]>> \o sendQueue
    BY <2>1, <2>2, PendingOne
  <2>5. Pending' = <<sendData[t]>> \o <<>>
    BY <2>3, PendingOneNext
  <2>6. sendData[t] \in Message
    BY <2>1 DEF TypeOK, Message
  <2>7. Pending # <<>> /\ Head(Pending) = sendData[t]
    BY <2>4, <2>6, <1>q, InFront
  <2> QED
    BY <2>5, <2>7
<1> QED
  BY <1>1, <1>2

\* The same threads carry a message, and the same are about to disconnect.
KeepsRoles ==
    /\ \A t \in Threads : (pc'[t] = "post") = (pc[t] = "post")
    /\ \A t \in Threads :
          (pc'[t] \in {"fail", "disc"}) = (pc[t] \in {"fail", "disc"})

\* Every step of the threads, the completions and the pool is a step of the
\* pipe or changes nothing of it.
LEMMA Implements ==
    TypeOK /\ TokenInv /\ EmptyInPool /\ [Next]_vars => [Pipe!Next]_(Pipe!vars)
<1> SUFFICES ASSUME TypeOK, TokenInv, EmptyInPool, [Next]_vars
             PROVE  [Pipe!Next]_(Pipe!vars)
  OBVIOUS
<1>q. sendQueue \in Seq(Message) /\ wire \in Seq(Message)
  BY DEF TypeOK
<1>one. OneInFlight
  BY DEF TokenInv
<1>d. Doomed \in BOOLEAN /\ Doomed' \in BOOLEAN
  BY DEF Doomed, TypeOK
<1>still. ASSUME UNCHANGED <<next, wire, isConnected>>, Pending' = Pending,
                 Doomed' = Doomed
          PROVE  UNCHANGED Pipe!vars
  BY <1>still DEF Pipe!vars, Doomed
<1>carry. ASSUME NEW t \in Threads, pc[t] = "post"
          PROVE  /\ sendData[t] \in Message
                 /\ \A u \in Threads : pc[u] = "post" => u = t
                 /\ Pending = <<sendData[t]>> \o sendQueue
                 /\ Pending # <<>>
                 /\ Head(Pending) = sendData[t]
                 /\ Tail(Pending) = sendQueue
  <2>1. sendData[t] \in Message
    BY <1>carry DEF TypeOK, Message
  <2>2. \A u \in Threads : pc[u] = "post" => u = t
    BY <1>carry, <1>one DEF OneInFlight, Token
  <2>3. Pending = <<sendData[t]>> \o sendQueue
    BY <1>carry, <2>2, PendingOne
  <2> QED
    BY <2>1, <2>2, <2>3, <1>q, InFront
<1>reset. ASSUME NEW last \in BOOLEAN, ResetIf(last), last => ~isConnected,
                 UNCHANGED <<next, wire, sendData>>,
                 \A t \in Threads : (pc'[t] = "post") = (pc[t] = "post"),
                 \A t \in Threads : (pc'[t] \in {"fail", "disc"})
                                     = (pc[t] \in {"fail", "disc"})
          PROVE  [Pipe!Next]_(Pipe!vars)
  <2>1. isConnected' = isConnected
    BY <1>reset DEF ResetIf, TypeOK
  <2>2. Doomed' = Doomed
    BY <1>reset, <2>1 DEF Doomed
  <2>3. CASE last
    <3>1. sendQueue' = <<>>
      BY <1>reset, <2>3 DEF ResetIf
    <3>2. CASE Pending' = Pending
      BY <3>2, <2>1, <2>2, <1>reset, <1>still
    <3>3. CASE Pending # <<>> /\ Pending' \in {<<>>, <<Head(Pending)>>}
      BY <3>3, <2>1, <2>2, <2>3, <1>reset DEF Pipe!Next, Pipe!Discard, Doomed
    <3> QED
      BY <1>reset, <1>one, <3>1, <3>2, <3>3, PendingReset
  <2>4. CASE ~last
    <3>1. sendQueue' = sendQueue
      BY <1>reset, <2>4 DEF ResetIf
    <3>2. Pending' = Pending
      BY <1>reset, <1>one, <3>1, PendingSame
    <3> QED
      BY <3>2, <2>1, <2>2, <1>reset, <1>still
  <2> QED
    BY <2>3, <2>4
<1>types. /\ pc \in [Threads -> Labels] /\ sendData \in [Threads -> Nat]
          /\ Threads = Senders \cup Workers
          /\ isConnected \in BOOLEAN
  BY DEF TypeOK, Threads
<1> USE DEF Goto, At, Labels, Done
<1>1. ASSUME NEW s \in Senders, Send(s)
      PROVE  [Pipe!Next]_(Pipe!vars)
  <2>1. /\ UNCHANGED <<next, wire, isConnected, sendQueue, sendData>>
        /\ KeepsRoles
    BY <1>1, <1>types DEF Send, KeepsRoles
  <2>2. Pending' = Pending
    BY <2>1, <1>one, PendingSame DEF KeepsRoles
  <2>3. Doomed' = Doomed
    BY <2>1 DEF Doomed, KeepsRoles
  <2> QED
    BY <2>1, <2>2, <2>3, <1>still
<1>2. ASSUME NEW t \in Threads, Exchange(t)
      PROVE  [Pipe!Next]_(Pipe!vars)
  <2>1. /\ UNCHANGED <<next, wire, isConnected, sendQueue, sendData>>
        /\ KeepsRoles
    BY <1>2, <1>types DEF Exchange, KeepsRoles
  <2>2. Pending' = Pending
    BY <2>1, <1>one, PendingSame DEF KeepsRoles
  <2>3. Doomed' = Doomed
    BY <2>1 DEF Doomed, KeepsRoles
  <2> QED
    BY <2>1, <2>2, <2>3, <1>still
<1>3. ASSUME NEW t \in Threads, PopEmpty(t)
      PROVE  [Pipe!Next]_(Pipe!vars)
  <2>1. /\ UNCHANGED <<next, wire, isConnected, sendQueue, sendData>>
        /\ KeepsRoles
    BY <1>3, <1>types DEF PopEmpty, KeepsRoles
  <2>2. Pending' = Pending
    BY <2>1, <1>one, PendingSame DEF KeepsRoles
  <2>3. Doomed' = Doomed
    BY <2>1 DEF Doomed, KeepsRoles
  <2> QED
    BY <2>1, <2>2, <2>3, <1>still
<1>4. ASSUME NEW t \in Threads, Close(t)
      PROVE  [Pipe!Next]_(Pipe!vars)
  <2>1. /\ UNCHANGED <<next, wire, isConnected, sendQueue, sendData>>
        /\ KeepsRoles
    BY <1>4, <1>types DEF Close, KeepsRoles
  <2>2. Pending' = Pending
    BY <2>1, <1>one, PendingSame DEF KeepsRoles
  <2>3. Doomed' = Doomed
    BY <2>1 DEF Doomed, KeepsRoles
  <2> QED
    BY <2>1, <2>2, <2>3, <1>still
<1>5. ASSUME NEW w \in Workers, CheckEmpty(w)
      PROVE  [Pipe!Next]_(Pipe!vars)
  <2>1. /\ UNCHANGED <<next, wire, isConnected, sendQueue, sendData>>
        /\ KeepsRoles
    BY <1>5, <1>types DEF CheckEmpty, KeepsRoles
  <2>2. Pending' = Pending
    BY <2>1, <1>one, PendingSame DEF KeepsRoles
  <2>3. Doomed' = Doomed
    BY <2>1 DEF Doomed, KeepsRoles
  <2> QED
    BY <2>1, <2>2, <2>3, <1>still
<1>6. ASSUME NEW w \in Workers, CheckMore(w)
      PROVE  [Pipe!Next]_(Pipe!vars)
  <2>1. /\ UNCHANGED <<next, wire, isConnected, sendQueue, sendData>>
        /\ KeepsRoles
    BY <1>6, <1>types DEF CheckMore, KeepsRoles
  <2>2. Pending' = Pending
    BY <2>1, <1>one, PendingSame DEF KeepsRoles
  <2>3. Doomed' = Doomed
    BY <2>1 DEF Doomed, KeepsRoles
  <2> QED
    BY <2>1, <2>2, <2>3, <1>still
<1>7. ASSUME NEW w \in Workers, Clear(w)
      PROVE  [Pipe!Next]_(Pipe!vars)
  <2>1. /\ UNCHANGED <<next, wire, isConnected, sendQueue, sendData>>
        /\ KeepsRoles
    BY <1>7, <1>types DEF Clear, KeepsRoles
  <2>2. Pending' = Pending
    BY <2>1, <1>one, PendingSame DEF KeepsRoles
  <2>3. Doomed' = Doomed
    BY <2>1 DEF Doomed, KeepsRoles
  <2> QED
    BY <2>1, <2>2, <2>3, <1>still
<1>8. ASSUME NEW s \in Senders, Push(s)
      PROVE  [Pipe!Next]_(Pipe!vars)
  <2>1. /\ next' = next + 1 /\ sendQueue' = Append(sendQueue, next')
        /\ UNCHANGED <<wire, isConnected, sendData>>
        /\ KeepsRoles
    BY <1>8, <1>types DEF Push, KeepsRoles
  <2>2. next' \in Message
    BY <2>1 DEF TypeOK, Message
  <2>3. Pending' = Append(Pending, next')
    <3>1. CASE \A t \in Threads : pc[t] # "post"
      BY <3>1, <2>1, PendingNone, PendingNoneNext DEF KeepsRoles
    <3>2. CASE \E t \in Threads : pc[t] = "post"
      <4>1. PICK t \in Threads : pc[t] = "post"
        BY <3>2
      <4>2. pc'[t] = "post" /\ \A u \in Threads : pc'[u] = "post" => u = t
        BY <4>1, <1>carry, <2>1 DEF KeepsRoles
      <4>3. Pending' = <<sendData[t]>> \o Append(sendQueue, next')
        BY <4>2, <2>1, PendingOneNext
      <4>4. sendData[t] \in Message /\ Pending = <<sendData[t]>> \o sendQueue
        BY <4>1, <1>carry
      <4> QED
        BY <4>3, <4>4, <2>2, <1>q, InFront
    <3> QED
      BY <3>1, <3>2
  <2>4. Doomed' = Doomed
    BY <2>1 DEF Doomed, KeepsRoles
  <2> QED
    BY <2>1, <2>3, <2>4 DEF Pipe!Next, Pipe!Accept, Doomed
<1>9. ASSUME NEW t \in Threads, PopFront(t)
      PROVE  [Pipe!Next]_(Pipe!vars)
  <2>1. /\ sendQueue # <<>> /\ sendQueue' = Tail(sendQueue)
        /\ sendData'[t] = Head(sendQueue)
        /\ pc[t] = "pop" /\ pc'[t] = "post"
        /\ UNCHANGED <<next, wire, isConnected>>
        /\ \A u \in Threads : u # t => pc'[u] = pc[u]
    BY <1>9, <1>types DEF PopFront
  <2>2. \A u \in Threads : u # t => pc[u] # "post"
    BY <2>1, <1>one DEF OneInFlight, Token
  <2>3. Pending = sendQueue
    BY <2>1, <2>2, PendingNone
  <2>4. \A u \in Threads : pc'[u] = "post" => u = t
    BY <2>1, <2>2
  <2>5. Pending' = <<Head(sendQueue)>> \o Tail(sendQueue)
    BY <2>1, <2>4, PendingOneNext
  <2>6. Pending' = Pending
    BY <2>1, <2>3, <2>5, <1>q, FrontBack
  <2>7. Doomed' = Doomed
    BY <2>1 DEF Doomed
  <2> QED
    BY <2>1, <2>6, <2>7, <1>still
<1>10. ASSUME NEW t \in Threads, PostAccepted(t)
       PROVE  [Pipe!Next]_(Pipe!vars)
  <2>1. /\ pc[t] = "post" /\ pc'[t] \in {"return", "idle"}
        /\ wire' = Append(wire, sendData[t])
        /\ UNCHANGED <<next, sendQueue, isConnected>>
        /\ \A u \in Threads : u # t => pc'[u] = pc[u]
    BY <1>10, <1>types DEF PostAccepted
  <2>2. /\ \A u \in Threads : pc[u] = "post" => u = t
        /\ Pending # <<>> /\ Head(Pending) = sendData[t] /\ Tail(Pending) = sendQueue
    BY <2>1, <1>carry
  <2>3. \A u \in Threads : pc'[u] # "post"
    BY <2>1, <2>2
  <2>4. Pending' = sendQueue
    BY <2>1, <2>3, PendingNoneNext
  <2>5. Doomed' = Doomed
    BY <2>1 DEF Doomed
  <2> QED
    BY <2>1, <2>2, <2>4, <2>5 DEF Pipe!Next, Pipe!Transmit, Doomed
<1>11. ASSUME NEW t \in Threads, PostRejected(t)
       PROVE  [Pipe!Next]_(Pipe!vars)
  <2>1. /\ pc[t] = "post" /\ pc'[t] = "fail"
        /\ UNCHANGED <<next, wire, sendQueue, isConnected>>
        /\ \A u \in Threads : u # t => pc'[u] = pc[u]
    BY <1>11, <1>types DEF PostRejected
  <2>2. /\ \A u \in Threads : pc[u] = "post" => u = t
        /\ Pending # <<>> /\ Tail(Pending) = sendQueue
    BY <2>1, <1>carry
  <2>3. \A u \in Threads : pc'[u] # "post"
    BY <2>1, <2>2
  <2>4. Pending' = sendQueue
    BY <2>1, <2>3, PendingNoneNext
  <2>5. Doomed' = isConnected
    BY <2>1 DEF Doomed, TypeOK
  <2> QED
    BY <2>1, <2>2, <2>4, <2>5 DEF Pipe!Next, Pipe!Lose, Doomed
<1>12. ASSUME NEW t \in Threads, PostExpired(t)
       PROVE  [Pipe!Next]_(Pipe!vars)
  <2>1. /\ pc[t] = "post" /\ ~Referenced
        /\ UNCHANGED <<next, wire, sendQueue, isConnected>>
        /\ \A u \in Threads : pc'[u] = "dead"
    BY <1>12, <1>types DEF PostExpired
  <2>2. Pending # <<>> /\ Tail(Pending) = sendQueue
    BY <2>1, <1>carry
  <2>3. Pending' = sendQueue
    BY <2>1, PendingNoneNext
  <2>4. ~isConnected
    BY <2>1 DEF EmptyInPool, Referenced
  <2>5. Doomed' = isConnected
    BY <2>1, <2>4 DEF Doomed, TypeOK
  <2> QED
    BY <2>1, <2>2, <2>3, <2>5 DEF Pipe!Next, Pipe!Lose, Doomed
<1>13. ASSUME NEW t \in Threads, Fail(t)
       PROVE  [Pipe!Next]_(Pipe!vars)
  <2>1. /\ UNCHANGED <<next, wire, isConnected, sendQueue, sendData>>
        /\ pc[t] = "fail" /\ pc'[t] = "disc"
        /\ \A u \in Threads : u # t => pc'[u] = pc[u]
    BY <1>13, <1>types DEF Fail
  <2>2. Pending' = Pending
    BY <2>1, <1>one, PendingSame
  <2>3. Doomed' = Doomed
    BY <2>1 DEF Doomed
  <2> QED
    BY <2>1, <2>2, <2>3, <1>still
<1>14. ASSUME NEW t \in Threads, StartDisconnect(t)
       PROVE  [Pipe!Next]_(Pipe!vars)
  <2>1. /\ UNCHANGED <<next, wire, isConnected, sendQueue, sendData>>
        /\ isConnected /\ pc[t] = "idle" /\ pc'[t] = "disc"
        /\ \A u \in Threads : u # t => pc'[u] = pc[u]
    BY <1>14, <1>types DEF StartDisconnect
  <2>2. Pending' = Pending
    BY <2>1, <1>one, PendingSame
  <2>3. Doomed'
    BY <2>1 DEF Doomed
  <2> QED
    BY <2>1, <2>2, <2>3, <1>d DEF Pipe!Next, Pipe!Doom, Doomed
<1>15. ASSUME NEW t \in Threads, Disc(t)
       PROVE  [Pipe!Next]_(Pipe!vars)
  <2>1. /\ UNCHANGED <<next, wire, sendQueue, sendData>>
        /\ isConnected' = FALSE
        /\ pc[t] = "disc" /\ pc'[t] \in {"close", "return", "idle"}
        /\ \A u \in Threads : u # t => pc'[u] = pc[u]
    BY <1>15, <1>types DEF Disc
  <2>2. Pending' = Pending
    BY <2>1, <1>one, PendingSame
  <2>3. Doomed' = FALSE /\ Doomed = isConnected
    BY <2>1 DEF Doomed, TypeOK
  <2>4. CASE isConnected
    BY <2>1, <2>2, <2>3, <2>4 DEF Pipe!Next, Pipe!Close, Doomed
  <2>5. CASE ~isConnected
    BY <2>1, <2>2, <2>3, <2>5, <1>still DEF TypeOK
  <2> QED
    BY <2>4, <2>5
<1>16. ASSUME NEW w \in Workers, ProcessSend(w)
       PROVE  [Pipe!Next]_(Pipe!vars)
  <2>1. PICK m \in posted :
             ResetIf(~held /\ posted' = {} /\ \A s \in Senders : pc[s] = "idle")
    BY <1>16 DEF ProcessSend
  <2>2. /\ UNCHANGED <<next, wire, sendData>>
        /\ KeepsRoles
    BY <1>16, <1>types DEF ProcessSend, KeepsRoles
  <2> QED
    BY <2>1, <2>2, <1>reset DEF EmptyInPool, KeepsRoles
<1>17. ASSUME NEW s \in Senders, Return(s)
       PROVE  [Pipe!Next]_(Pipe!vars)
  <2>1. ResetIf(~held /\ posted = {} /\ \A u \in Senders \ {s} : pc[u] = "idle")
    BY <1>17 DEF Return
  <2>2. /\ UNCHANGED <<next, wire, sendData>>
        /\ KeepsRoles
    BY <1>17, <1>types DEF Return, KeepsRoles
  <2> QED
    BY <2>1, <2>2, <1>reset DEF EmptyInPool, KeepsRoles
<1>18. ASSUME Detach
       PROVE  [Pipe!Next]_(Pipe!vars)
  <2>1. ResetIf(posted = {} /\ \A s \in Senders : pc[s] = "idle") /\ ~isConnected
    BY <1>18 DEF Detach
  <2>2. UNCHANGED <<next, wire, sendData, pc>>
    BY <1>18 DEF Detach
  <2> QED
    BY <2>1, <2>2, <1>reset
<1>19. ASSUME Reuse
       PROVE  [Pipe!Next]_(Pipe!vars)
  <2>1. /\ UNCHANGED <<next, sendQueue, sendData, pc>>
        /\ Alive /\ ~Referenced /\ isConnected' = TRUE /\ wire' = <<>>
    BY <1>19 DEF Reuse
  <2>2. Pending' = Pending
    BY <2>1, <1>one, PendingSame
  <2>3. ~isConnected /\ sendQueue = <<>>
    BY <2>1 DEF EmptyInPool, Referenced
  <2>4. Len(Pending) <= 1
    <3>1. CASE \A t \in Threads : pc[t] # "post"
      BY <3>1, <2>3, PendingNone
    <3>2. CASE \E t \in Threads : pc[t] = "post"
      <4>1. PICK t \in Threads : pc[t] = "post"
        BY <3>2
      <4>2. Pending = <<sendData[t]>> \o <<>>
        BY <4>1, <2>3, <1>carry
      <4> QED
        BY <4>2
    <3> QED
      BY <3>1, <3>2
  <2> QED
    BY <2>1, <2>2, <2>3, <2>4, <1>d DEF Pipe!Next, Pipe!Open, Doomed
<1>20. ASSUME UNCHANGED vars
       PROVE  [Pipe!Next]_(Pipe!vars)
  <2>1. UNCHANGED <<next, wire, isConnected, sendQueue, sendData, pc>>
    BY <1>20 DEF vars
  <2>2. Pending' = Pending
    BY <2>1, <1>one, PendingSame
  <2>3. Doomed' = Doomed
    BY <2>1 DEF Doomed
  <2> QED
    BY <2>1, <2>2, <2>3, <1>still
<1> QED
  BY <1>1, <1>2, <1>3, <1>4, <1>5, <1>6, <1>7, <1>8, <1>9, <1>10,
     <1>11, <1>12, <1>13, <1>14, <1>15, <1>16, <1>17, <1>18, <1>19, <1>20
  DEF Next, RegisterSend, Disconnect, SenderStep, WorkerStep

\* The send half implements FifoPipe: whatever the threads, the completions and
\* the pool do, messages go out in the order of the pushes, each at most once,
\* and one is lost only together with its connection.
THEOREM PipeHolds == Spec => PipeSpec
<1>1. Init => Pipe!Init
  <2> SUFFICES ASSUME Init PROVE Pipe!Init
    OBVIOUS
  <2>1. Pending = sendQueue
    BY PendingNone DEF Init
  <2> QED
    BY <2>1 DEF Init, Pipe!Init
<1>2. IInv /\ [Next]_vars => [Pipe!Next]_(Pipe!vars)
  BY Implements DEF IInv
<1> QED
  BY <1>1, <1>2, Inductive, PTL DEF Spec, PipeSpec, Pipe!Spec
=============================================================================
