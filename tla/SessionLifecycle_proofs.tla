----------------------- MODULE SessionLifecycle_proofs -----------------------
(***************************************************************************)
(* Proofs about SessionLifecycle for any number of IOCP workers, threads   *)
(* that call Disconnect, connections and calls of Disconnect.              *)
(*                                                                         *)
(* Two invariants.  BaseInv holds whatever the threads do.  LifeInv holds  *)
(* until a TryRelease takes the owner a recv needs (robbed): the recvs of  *)
(* a session form a chain that one IOCP worker or the kernel has at a      *)
(* time, and a thread that has seen recvPendingCnt at zero sees that the   *)
(* chain has no recv that needs its owner, unless one was counted since.   *)
(***************************************************************************)
EXTENDS SessionLifecycle, FiniteSetTheorems, SequenceTheorems, TLAPS

-----------------------------------------------------------------------------
(* What threads have to do                                                 *)

\* Between two Disconnects of the chain.
Posting == {<<"own">>, <<"count">>, <<"recv">>}
Counted == {<<"recv">>, <<"uncount">>, <<"move">>, <<"sub">>}
ChainPlans == {<<"activate", "register">>, <<"register">>, <<"disown">>,
               <<"dispatch">>, <<"rearm">>} \cup Posting \cup Counted

\* In Disconnect; the second of a pair is followed by the TryRelease of the
\* chain.
Entering == {<<"exchange">>, <<"exchange", "release">>}
Telling == {<<"flag", "notify", "close", "release">>,
            <<"flag", "notify", "close", "release", "release">>,
            <<"notify", "close", "release">>,
            <<"notify", "close", "release", "release">>}
Closing == Telling \cup {<<"close", "release">>,
                         <<"close", "release", "release">>}
Losing == {<<"flag", "release">>, <<"flag", "release", "release">>}
Releasing == {<<"release">>, <<"release", "release">>}
Checked == {<<"reset", "erase">>, <<"reset", "erase", "release">>}
Flagged == {<<"pending">>, <<"pending", "release">>,
            <<"erase">>, <<"erase", "release">>} \cup Checked
ClosePlans == Entering \cup Closing \cup Losing \cup Releasing \cup Flagged

\* The owner is taken next; the recv has not been counted off; the owner is
\* set for the recv to come; the chain goes on, or closes the connection.
Dequeued == {<<"move">>}
Handed == {<<"move">>, <<"sub">>}
Ready == {<<"count">>, <<"recv">>}
Chained == ChainPlans \cup {<<"exchange", "release">>}

Plans == {<<>>} \cup ChainPlans \cup ClosePlans

Busy(t) == todo[t] # <<>>

-----------------------------------------------------------------------------
(* The inductive invariant                                                 *)

\* What a thread may have to do, and that it holds the session meanwhile.
PlanInv ==
    /\ todo \in [Threads -> Plans]
    /\ \A d \in Callers : todo[d] \notin ChainPlans
    /\ \A t \in Threads : Busy(t) => todo[t] \in Dequeued \/ ref[t]

\* The chain is in one place, and recvEvent.owner is set while the kernel or
\* the completion has it, or may get it.
ChainInv ==
    /\ kernel \in {0, 1}
    /\ \A t, u \in Iocp : Busy(t) /\ Busy(u) => t = u
    /\ kernel = 1 => \A t \in Iocp : ~Busy(t)
    /\ kernel = 1 => owner
    /\ \A t \in Iocp :
          todo[t] \in Dequeued \/ (todo[t] \in Ready /\ socket) => owner
    /\ \/ /\ recvPendingCnt = 1
          /\ kernel = 1 \/ \E t \in Iocp : todo[t] \in Counted
       \/ /\ recvPendingCnt = 0
          /\ kernel = 0 /\ \A t \in Iocp : todo[t] \notin Counted

\* An object is in the pool when nobody refers to it, and then it is clean.
PoolInv ==
    /\ pooled <=> ~(owner \/ active \/ \E t \in Threads : ref[t])
    /\ pooled => ~isConnected /\ ~disconnecting /\ ~socket
    /\ ~released

\* The connection: whose exchange won tells and closes.
CloseInv ==
    /\ isConnected => ~disconnecting /\ socket /\ told = 0
    /\ isConnected =>
          \/ kernel = 1
          \/ \E t \in Iocp : todo[t] \in Chained
    /\ (\E t \in Threads : todo[t] \in Closing \cup Losing) => ~isConnected
    /\ \A t, u \in Threads : todo[t] \in Closing /\ todo[u] \in Closing => t = u
    /\ socket /\ ~isConnected => \E t \in Threads : todo[t] \in Closing
    /\ (\E t \in Threads : todo[t] \in Telling) => told = 0
    /\ ~pooled /\ ~isConnected /\ (\A t \in Threads : todo[t] \notin Telling)
          => told = 1
    /\ told \in {0, 1}
    /\ ~pooled => conn > 0
    /\ pooled /\ conn > 0 => told = 1

\* Who is about to reset recvEvent.owner has seen that no recv is counted, and
\* none has been counted since unless the thread is stale.
ReleaseInv ==
    /\ \A t \in Threads : todo[t] \in Flagged => disconnecting
    /\ \A t \in Threads : todo[t] \in Checked /\ t \notin stale
                              => recvPendingCnt = 0

\* Short of a TryRelease that takes the owner of a recv.
LifeInv == TypeOK /\ PlanInv /\ ChainInv /\ PoolInv /\ CloseInv /\ ReleaseInv

\* What a thread may do without holding the session: it dequeues a recv whose
\* owner has been taken, and is left with a TryRelease.
Unheld == {<<"move">>, <<"sub">>, <<"release">>, <<"pending">>,
           <<"reset", "erase">>, <<"erase">>}

HeldInv ==
    /\ todo \in [Threads -> Plans]
    /\ \A t \in Threads : Busy(t) => ref[t] \/ todo[t] \in Unheld
    /\ pooled => ~owner /\ ~active /\ \A t \in Threads : ~ref[t]

\* One thread has yet to tell, for a connection nobody was told of.
ToldInv ==
    /\ told \in {0, 1}
    /\ isConnected => told = 0
    /\ \A t \in Threads : todo[t] \in Telling => told = 0 /\ ~isConnected
    /\ \A t, u \in Threads : todo[t] \in Telling /\ todo[u] \in Telling => t = u

BaseInv == TypeOK /\ HeldInv /\ ToldInv

\* A step of t from one list to another.
Goes(t) == /\ Busy(t)
           /\ \E q \in Plans :
                 /\ todo' = [todo EXCEPT ![t] = q]
                 /\ q = <<>> \/ q \in Unheld \/ todo[t] \notin Unheld
                 /\ q \in Telling => todo[t] \in Telling

-----------------------------------------------------------------------------
(* Lists of labels                                                         *)

\* One more label after a call.
LEMMA Followed ==
    ASSUME NEW a \in Seq(Labels), NEW r \in Seq(Labels), NEW c \in Seq(Labels),
           Len(r) = 1, Len(c) = Len(a) + 1, c[Len(c)] = r[1],
           \A i \in 1..Len(a) : c[i] = a[i]
    PROVE  a \o r = c
<1>1. Len(a) \in Nat
  BY LenProperties
<1>2. a \o r \in Seq(Labels)
  BY ConcatProperties
<1>len. Len(a \o r) = Len(c)
  <2>1. Len(a \o r) = Len(a) + Len(r)
    BY ConcatProperties
  <2> QED
    BY <2>1
<1>3. ASSUME NEW i \in 1..Len(c)
      PROVE  (a \o r)[i] = c[i]
  <2>1. i \in 1..Len(a) + Len(r)
    BY <1>1
  <2>2. (a \o r)[i] = IF i <= Len(a) THEN a[i] ELSE r[i - Len(a)]
    BY <2>1, ConcatProperties
  <2>3. CASE i <= Len(a)
    <3>1. i \in 1..Len(a)
      BY <2>3, <1>1
    <3> QED
      BY <2>2, <2>3, <3>1
  <2>4. CASE ~(i <= Len(a))
    <3>1. i = Len(c) /\ i - Len(a) = 1
      BY <2>4, <1>1
    <3> QED
      BY <2>2, <2>4, <3>1
  <2> QED
    BY <2>3, <2>4
<1> QED
  BY <1>2, <1>len, <1>3, SeqEqual

\* The bodies that are followed by the chain's TryRelease.
LEMMA Calls ==
    /\ <<"flag", "notify", "close", "release">> \o <<"release">>
          = <<"flag", "notify", "close", "release", "release">>
    /\ <<"flag", "release">> \o <<"release">> = <<"flag", "release", "release">>
    /\ <<"pending">> \o <<"release">> = <<"pending", "release">>
    /\ <<"reset", "erase">> \o <<"release">> = <<"reset", "erase", "release">>
<1>1. <<"flag", "notify", "close", "release">> \o <<"release">>
         = <<"flag", "notify", "close", "release", "release">>
  <2> DEFINE a == <<"flag", "notify", "close", "release">>
             c == <<"flag", "notify", "close", "release", "release">>
             r == <<"release">>
  <2>1. /\ a \in Seq(Labels) /\ c \in Seq(Labels) /\ Len(a) = 4 /\ Len(c) = 5
        /\ c[5] = "release" /\ \A i \in 1..4 : c[i] = a[i]
        /\ r \in Seq(Labels) /\ Len(r) = 1 /\ r[1] = "release"
    BY DEF Labels
  <2>2. /\ Len(c) = Len(a) + 1 /\ c[Len(c)] = r[1]
        /\ \A i \in 1..Len(a) : c[i] = a[i]
    BY <2>1
  <2> HIDE DEF a, c, r
  <2>3. a \o r = c
    BY <2>1, <2>2, Followed
  <2> QED
    BY <2>3 DEF a, c, r
<1>2. <<"flag", "release">> \o <<"release">> = <<"flag", "release", "release">>
  <2> DEFINE a == <<"flag", "release">>
             c == <<"flag", "release", "release">>
             r == <<"release">>
  <2>1. /\ a \in Seq(Labels) /\ c \in Seq(Labels) /\ Len(a) = 2 /\ Len(c) = 3
        /\ c[3] = "release" /\ \A i \in 1..2 : c[i] = a[i]
        /\ r \in Seq(Labels) /\ Len(r) = 1 /\ r[1] = "release"
    BY DEF Labels
  <2>2. /\ Len(c) = Len(a) + 1 /\ c[Len(c)] = r[1]
        /\ \A i \in 1..Len(a) : c[i] = a[i]
    BY <2>1
  <2> HIDE DEF a, c, r
  <2>3. a \o r = c
    BY <2>1, <2>2, Followed
  <2> QED
    BY <2>3 DEF a, c, r
<1>3. <<"pending">> \o <<"release">> = <<"pending", "release">>
  <2> DEFINE a == <<"pending">>
             c == <<"pending", "release">>
             r == <<"release">>
  <2>1. /\ a \in Seq(Labels) /\ c \in Seq(Labels) /\ Len(a) = 1 /\ Len(c) = 2
        /\ c[2] = "release" /\ \A i \in 1..1 : c[i] = a[i]
        /\ r \in Seq(Labels) /\ Len(r) = 1 /\ r[1] = "release"
    BY DEF Labels
  <2>2. /\ Len(c) = Len(a) + 1 /\ c[Len(c)] = r[1]
        /\ \A i \in 1..Len(a) : c[i] = a[i]
    BY <2>1
  <2> HIDE DEF a, c, r
  <2>3. a \o r = c
    BY <2>1, <2>2, Followed
  <2> QED
    BY <2>3 DEF a, c, r
<1>4. <<"reset", "erase">> \o <<"release">> = <<"reset", "erase", "release">>
  <2> DEFINE a == <<"reset", "erase">>
             c == <<"reset", "erase", "release">>
             r == <<"release">>
  <2>1. /\ a \in Seq(Labels) /\ c \in Seq(Labels) /\ Len(a) = 2 /\ Len(c) = 3
        /\ c[3] = "release" /\ \A i \in 1..2 : c[i] = a[i]
        /\ r \in Seq(Labels) /\ Len(r) = 1 /\ r[1] = "release"
    BY DEF Labels
  <2>2. /\ Len(c) = Len(a) + 1 /\ c[Len(c)] = r[1]
        /\ \A i \in 1..Len(a) : c[i] = a[i]
    BY <2>1
  <2> HIDE DEF a, c, r
  <2>3. a \o r = c
    BY <2>1, <2>2, Followed
  <2> QED
    BY <2>3 DEF a, c, r
<1> QED
  BY <1>1, <1>2, <1>3, <1>4

LEMMA Heads ==
    ASSUME NEW p \in ChainPlans \cup ClosePlans
    PROVE  /\ Head(p) = "activate" => p = <<"activate", "register">>
           /\ Head(p) = "register" => p = <<"register">>
           /\ Head(p) = "own" => p = <<"own">>
           /\ Head(p) = "count" => p = <<"count">>
           /\ Head(p) = "recv" => p = <<"recv">>
           /\ Head(p) = "uncount" => p = <<"uncount">>
           /\ Head(p) = "disown" => p = <<"disown">>
           /\ Head(p) = "move" => p = <<"move">>
           /\ Head(p) = "sub" => p = <<"sub">>
           /\ Head(p) = "dispatch" => p = <<"dispatch">>
           /\ Head(p) = "rearm" => p = <<"rearm">>
           /\ Head(p) = "exchange" => p \in Entering
           /\ Head(p) = "flag" =>
                 \/ p = <<"flag", "notify", "close", "release">>
                 \/ p = <<"flag", "notify", "close", "release", "release">>
                 \/ p \in Losing
           /\ Head(p) = "notify" =>
                 \/ p = <<"notify", "close", "release">>
                 \/ p = <<"notify", "close", "release", "release">>
           /\ Head(p) = "close" =>
                 \/ p = <<"close", "release">>
                 \/ p = <<"close", "release", "release">>
           /\ Head(p) = "release" => p \in Releasing
           /\ Head(p) = "pending" => p = <<"pending">> \/ p = <<"pending", "release">>
           /\ Head(p) = "reset" => p \in Checked
           /\ Head(p) = "erase" => p = <<"erase">> \/ p = <<"erase", "release">>
  BY DEF ChainPlans, ClosePlans, Posting, Counted, Entering, Closing, Telling,
         Losing, Releasing, Flagged, Checked

\* What a thread may have to do is a list of labels.
LEMMA Bodies ==
    /\ <<>> \in Seq(Labels)
    /\ <<"activate", "register">> \in Seq(Labels)
    /\ <<"register">> \in Seq(Labels)
    /\ <<"disown">> \in Seq(Labels)
    /\ <<"dispatch">> \in Seq(Labels)
    /\ <<"rearm">> \in Seq(Labels)
    /\ <<"own">> \in Seq(Labels)
    /\ <<"count">> \in Seq(Labels)
    /\ <<"recv">> \in Seq(Labels)
    /\ <<"uncount">> \in Seq(Labels)
    /\ <<"move">> \in Seq(Labels)
    /\ <<"sub">> \in Seq(Labels)
    /\ <<"exchange">> \in Seq(Labels)
    /\ <<"exchange", "release">> \in Seq(Labels)
    /\ <<"flag", "notify", "close", "release">> \in Seq(Labels)
    /\ <<"flag", "notify", "close", "release", "release">> \in Seq(Labels)
    /\ <<"notify", "close", "release">> \in Seq(Labels)
    /\ <<"notify", "close", "release", "release">> \in Seq(Labels)
    /\ <<"close", "release">> \in Seq(Labels)
    /\ <<"close", "release", "release">> \in Seq(Labels)
    /\ <<"flag", "release">> \in Seq(Labels)
    /\ <<"flag", "release", "release">> \in Seq(Labels)
    /\ <<"release">> \in Seq(Labels)
    /\ <<"release", "release">> \in Seq(Labels)
    /\ <<"pending">> \in Seq(Labels)
    /\ <<"pending", "release">> \in Seq(Labels)
    /\ <<"erase">> \in Seq(Labels)
    /\ <<"erase", "release">> \in Seq(Labels)
    /\ <<"reset", "erase">> \in Seq(Labels)
    /\ <<"reset", "erase", "release">> \in Seq(Labels)
  BY DEF Labels

LEMMA PlansAreLists == Plans \subseteq Seq(Labels)
  BY Bodies
  DEF Plans, ChainPlans, ClosePlans, Chained, Posting, Counted,
      Dequeued, Handed, Ready, Entering, Closing, Telling, Losing, Releasing,
     Flagged,
      Checked

\* A thread at the last label of its list goes on with the body.
LEMMA ThenLast ==
    ASSUME NEW t, NEW l, NEW body \in Seq(Labels),
           todo[t] = <<l>>, Then(t, body)
    PROVE  todo' = [todo EXCEPT ![t] = body]
<1>1. Tail(todo[t]) = <<>>
  OBVIOUS
<1>2. body \o Tail(todo[t]) = body
  BY <1>1, ConcatEmptySeq
<1> QED
  BY <1>2 DEF Then

\* A label without a body: the rest of the list is left.
LEMMA ThenNothing ==
    ASSUME NEW t, NEW rest \in Seq(Labels),
           Tail(todo[t]) = rest, Then(t, <<>>)
    PROVE  todo' = [todo EXCEPT ![t] = rest]
<1>1. <<>> \o Tail(todo[t]) = rest
  BY ConcatEmptySeq
<1> QED
  BY <1>1 DEF Then

\* A label that is followed by the chain's TryRelease.
LEMMA ThenRelease ==
    ASSUME NEW t, NEW body, Tail(todo[t]) = <<"release">>, Then(t, body)
    PROVE  todo' = [todo EXCEPT ![t] = body \o <<"release">>]
  BY DEF Then

\* A thread that has something to do holds the session, but for the worker
\* that has just dequeued a recv.
LEMMA AtPlan ==
    ASSUME PlanInv, NEW t \in Threads, NEW l, At(t, l)
    PROVE  /\ Busy(t)
           /\ todo[t] \in ChainPlans \cup ClosePlans
           /\ Head(todo[t]) = l
           /\ todo[t] \notin Dequeued => ref[t]
           /\ todo[t] \in ChainPlans => t \in Iocp
  BY DEF PlanInv, Plans, At, Busy, Threads

\* How the sets of lists contain each other.
LEMMA Nested ==
    /\ Dequeued \subseteq Handed /\ Handed \subseteq Counted
    /\ Counted \subseteq Chained /\ Ready \subseteq Posting
    /\ Posting \subseteq Chained /\ ChainPlans \subseteq Chained
    /\ Checked \subseteq Flagged /\ Telling \subseteq Closing
  BY DEF Dequeued, Handed, Counted, ChainPlans, Chained, Ready, Posting,
     Checked,
         Flagged, Telling, Closing

\* The last reference is not dropped while a thread holds one.
LEMMA HoldKept ==
    ASSUME NEW o, NEW a, NEW r, Hold(o, a, r), NEW t \in Threads, r[t]
    PROVE  /\ owner' = o /\ active' = a /\ ref' = r
           /\ UNCHANGED resetFields
  BY DEF Hold

\* The chain is with the thread that works on it.
LEMMA ChainAlone ==
    ASSUME LifeInv, NEW t \in Iocp, Busy(t)
    PROVE  /\ kernel = 0
           /\ \A u \in Iocp : u # t => todo[u] = <<>> /\ todo[u] \notin Chained
           /\ recvPendingCnt = IF todo[t] \in Counted THEN 1 ELSE 0
           /\ todo[t] \in Dequeued => owner
<1>1. kernel = 0 /\ \A u \in Iocp : u # t => todo[u] = <<>> /\ ~Busy(u)
  BY DEF LifeInv, ChainInv, Busy
<1>2. <<>> \notin Counted
  BY DEF Counted
<1>3. recvPendingCnt = IF todo[t] \in Counted THEN 1 ELSE 0
  BY <1>1, <1>2 DEF LifeInv, ChainInv
<1>4. <<>> \notin Chained
  BY DEF Chained, ChainPlans, Posting, Counted
<1> QED
  BY <1>1, <1>3, <1>4 DEF LifeInv, ChainInv

\* Nobody but t refers to the session, and t has nothing to do: nothing is
\* going on, and the connection is over.
LEMMA NobodyElse ==
    ASSUME LifeInv, ~owner, NEW t \in Threads, todo[t] = <<>>,
           \A u \in Threads : u # t => ~ref[u]
    PROVE  /\ \A u \in Threads : todo[u] = <<>>
           /\ kernel = 0 /\ recvPendingCnt = 0
           /\ ~isConnected
           /\ ~pooled => told = 1
<1>1. \A u \in Threads : todo[u] = <<>>
  <2> SUFFICES ASSUME NEW u \in Threads, todo[u] # <<>> PROVE FALSE
    OBVIOUS
  <2>1. todo[u] \in Dequeued
    BY DEF LifeInv, PlanInv, Busy
  <2>2. todo[u] \in ChainPlans
    BY <2>1 DEF Dequeued, ChainPlans, Counted
  <2>3. u \in Iocp
    BY <2>2 DEF LifeInv, PlanInv, Threads
  <2> QED
    BY <2>1, <2>3 DEF LifeInv, ChainInv
<1>2. <<>> \notin Counted \cup Chained \cup Telling
  BY DEF Counted, Chained, ChainPlans, Posting, Telling
<1>3. kernel = 0
  BY DEF LifeInv, ChainInv
<1>4. \A u \in Iocp : todo[u] = <<>>
  BY <1>1 DEF Threads
<1>5. recvPendingCnt = 0
  BY <1>2, <1>3, <1>4 DEF LifeInv, ChainInv
<1>6. ~isConnected
  BY <1>2, <1>3, <1>4 DEF LifeInv, CloseInv
<1> QED
  BY <1>1, <1>2, <1>3, <1>5, <1>6 DEF LifeInv, CloseInv

-----------------------------------------------------------------------------
(* Every step keeps the invariant                                          *)

LEMMA ActivateKeeps ==
    ASSUME LifeInv, NEW t \in Threads, Activate(t)
    PROVE  LifeInv'
<1> USE DEF LifeInv
<1>at. At(t, "activate")
  BY DEF Activate
<1>plan. /\ todo[t] = <<"activate", "register">> /\ Busy(t) /\ t \in Iocp
         /\ ref[t]
  BY <1>at, AtPlan, Heads DEF ChainPlans, Posting, Counted, Dequeued
<1>alone. /\ kernel = 0
          /\ \A u \in Iocp : u # t => todo[u] = <<>> /\ todo[u] \notin Chained
          /\ recvPendingCnt = IF todo[t] \in Counted THEN 1 ELSE 0
          /\ todo[t] \in Dequeued => owner
  BY <1>plan, ChainAlone
<1>todo. todo' = [todo EXCEPT ![t] = <<"register">>]
  <2>1. Tail(todo[t]) = <<"register">> /\ Then(t, <<>>)
    BY <1>plan DEF Activate
  <2> QED
    BY <2>1, ThenNothing, Bodies
<1>old. /\ todo[t] \in ChainPlans
        /\ todo[t] \notin Posting \cup Counted \cup Closing \cup Losing \cup
                           Flagged
        /\ todo[t] # <<>>
  BY <1>plan
  DEF ChainPlans, Posting, Counted, Closing, Telling, Losing, Flagged, Checked
<1>now. todo'[t] = <<"register">>
  BY <1>todo DEF PlanInv
<1>new. /\ todo'[t] \in Plans
        /\ todo'[t] \in ChainPlans
        /\ todo'[t] \notin Posting \cup Counted \cup Closing \cup
                              Losing \cup Flagged
        /\ todo'[t] # <<>>
  BY <1>now
  DEF Plans, ChainPlans, ClosePlans, Posting, Counted, Entering, Closing,
      Telling, Losing, Releasing, Flagged, Checked
<1>rest. /\ \A u \in Threads : u # t => todo'[u] = todo[u]
         /\ todo' \in [Threads -> Plans]
         /\ Iocp \subseteq Threads /\ Callers \subseteq Threads
         /\ t \in Callers => t \notin Iocp
  BY <1>todo, <1>new, RolesAssumption DEF PlanInv, Threads
<1>frame. /\ active' = TRUE
          /\ UNCHANGED <<isConnected, disconnecting, released,
                          recvPendingCnt, owner, socket, hasManager,
                          pooled, kernel, ref, bytes, told, conn,
                          calls, stale, robbed>>
  BY <1>plan DEF Activate, flags, refs, resetFields, history
<1>TypeOK. TypeOK'
  BY <1>plan, <1>alone, <1>old, <1>new, <1>rest, <1>frame, Nested, PlansAreLists
  DEF TypeOK
<1>PlanInv. PlanInv'
  BY <1>plan, <1>alone, <1>old, <1>new, <1>rest, <1>frame, Nested
  DEF PlanInv, Busy
<1>ChainInv. ChainInv'
  BY <1>plan, <1>alone, <1>old, <1>new, <1>rest, <1>frame, Nested
  DEF ChainInv, Busy
<1>PoolInv. PoolInv'
  BY <1>plan, <1>alone, <1>old, <1>new, <1>rest, <1>frame
  DEF PoolInv
<1>CloseInv. CloseInv'
  BY <1>plan, <1>alone, <1>old, <1>new, <1>rest, <1>frame, Nested
  DEF CloseInv
<1>ReleaseInv. ReleaseInv'
  BY <1>plan, <1>alone, <1>old, <1>new, <1>rest, <1>frame, Nested
  DEF ReleaseInv
<1> QED
  BY <1>TypeOK, <1>PlanInv, <1>ChainInv, <1>PoolInv, <1>CloseInv,
     <1>ReleaseInv DEF LifeInv

LEMMA MoveKeeps ==
    ASSUME LifeInv, NEW t \in Threads, Move(t)
    PROVE  LifeInv'
<1> USE DEF LifeInv
<1>at. At(t, "move")
  BY DEF Move
<1>plan. /\ todo[t] = <<"move">> /\ Busy(t) /\ t \in Iocp
  BY <1>at, AtPlan, Heads DEF ChainPlans, Posting, Counted, Dequeued
<1>alone. /\ kernel = 0
          /\ \A u \in Iocp : u # t => todo[u] = <<>> /\ todo[u] \notin Chained
          /\ recvPendingCnt = IF todo[t] \in Counted THEN 1 ELSE 0
          /\ todo[t] \in Dequeued => owner
  BY <1>plan, ChainAlone
<1>todo. todo' = [todo EXCEPT ![t] = <<"sub">>]
  BY <1>plan, ThenLast, Bodies DEF Move
<1>old. /\ todo[t] \in ChainPlans \cap Dequeued
        /\ todo[t] \notin Posting \cup Closing \cup Losing \cup Flagged
        /\ todo[t] # <<>>
  BY <1>plan
  DEF ChainPlans, Posting, Counted, Dequeued, Closing, Telling, Losing,
      Flagged, Checked
<1>now. todo'[t] = <<"sub">>
  BY <1>todo DEF PlanInv
<1>new. /\ todo'[t] \in Plans
        /\ todo'[t] \in ChainPlans \cap Handed
        /\ todo'[t] \notin Posting \cup Dequeued \cup Closing \cup
                              Losing \cup Flagged
        /\ todo'[t] # <<>>
  BY <1>now
  DEF Plans, ChainPlans, ClosePlans, Posting, Counted, Dequeued, Handed,
      Entering, Closing, Telling, Losing, Releasing, Flagged, Checked
<1>rest. /\ \A u \in Threads : u # t => todo'[u] = todo[u]
         /\ todo' \in [Threads -> Plans]
         /\ Iocp \subseteq Threads /\ Callers \subseteq Threads
         /\ t \in Callers => t \notin Iocp
  BY <1>todo, <1>new, RolesAssumption DEF PlanInv, Threads
<1>own. owner = TRUE /\ ref \in [Threads -> BOOLEAN]
  BY <1>alone, <1>old DEF TypeOK
<1>frame. /\ owner' = FALSE
          /\ ref' = [ref EXCEPT ![t] = owner]
          /\ UNCHANGED <<isConnected, disconnecting, released,
                          recvPendingCnt, socket, hasManager, active,
                          pooled, kernel, bytes, told, conn,
                          calls, stale, robbed>>
  BY <1>plan DEF Move, flags, refs, resetFields, history
<1>TypeOK. TypeOK'
  BY <1>plan, <1>alone, <1>old, <1>new, <1>rest, <1>frame, <1>own, Nested,
     PlansAreLists
  DEF TypeOK
<1>PlanInv. PlanInv'
  BY <1>plan, <1>alone, <1>old, <1>new, <1>rest, <1>frame, <1>own, Nested
  DEF PlanInv, Busy
<1>ChainInv. ChainInv'
  BY <1>plan, <1>alone, <1>old, <1>new, <1>rest, <1>frame, <1>own, Nested
  DEF ChainInv, Busy
<1>PoolInv. PoolInv'
  BY <1>plan, <1>alone, <1>old, <1>new, <1>rest, <1>frame, <1>own
  DEF PoolInv
<1>CloseInv. CloseInv'
  BY <1>plan, <1>alone, <1>old, <1>new, <1>rest, <1>frame, <1>own, Nested
  DEF CloseInv
<1>ReleaseInv. ReleaseInv'
  BY <1>plan, <1>alone, <1>old, <1>new, <1>rest, <1>frame, <1>own, Nested
  DEF ReleaseInv
<1> QED
  BY <1>TypeOK, <1>PlanInv, <1>ChainInv, <1>PoolInv, <1>CloseInv,
     <1>ReleaseInv DEF LifeInv

LEMMA SubKeeps ==
    ASSUME LifeInv, NEW t \in Threads, Sub(t)
    PROVE  LifeInv'
<1> USE DEF LifeInv
<1>at. At(t, "sub")
  BY DEF Sub
<1>plan. /\ todo[t] = <<"sub">> /\ Busy(t) /\ t \in Iocp
         /\ ref[t]
  BY <1>at, AtPlan, Heads DEF ChainPlans, Posting, Counted, Dequeued
<1>alone. /\ kernel = 0
          /\ \A u \in Iocp : u # t => todo[u] = <<>> /\ todo[u] \notin Chained
          /\ recvPendingCnt = IF todo[t] \in Counted THEN 1 ELSE 0
          /\ todo[t] \in Dequeued => owner
  BY <1>plan, ChainAlone
<1>todo. todo' = [todo EXCEPT ![t] = <<"dispatch">>]
  BY <1>plan, ThenLast, Bodies DEF Sub
<1>old. /\ todo[t] \in ChainPlans \cap Handed
        /\ todo[t] \notin Posting \cup Dequeued \cup Closing \cup
                           Losing \cup Flagged
        /\ todo[t] # <<>>
  BY <1>plan
  DEF ChainPlans, Posting, Counted, Dequeued, Handed, Closing, Telling, Losing,
      Flagged, Checked
<1>now. todo'[t] = <<"dispatch">>
  BY <1>todo DEF PlanInv
<1>new. /\ todo'[t] \in Plans
        /\ todo'[t] \in ChainPlans
        /\ todo'[t] \notin Posting \cup Counted \cup Closing \cup
                              Losing \cup Flagged
        /\ todo'[t] # <<>>
  BY <1>now
  DEF Plans, ChainPlans, ClosePlans, Posting, Counted, Entering, Closing,
      Telling, Losing, Releasing, Flagged, Checked
<1>rest. /\ \A u \in Threads : u # t => todo'[u] = todo[u]
         /\ todo' \in [Threads -> Plans]
         /\ Iocp \subseteq Threads /\ Callers \subseteq Threads
         /\ t \in Callers => t \notin Iocp
  BY <1>todo, <1>new, RolesAssumption DEF PlanInv, Threads
<1>frame. /\ recvPendingCnt' = recvPendingCnt - 1
          /\ UNCHANGED <<isConnected, disconnecting, released, owner,
                          socket, hasManager, active, pooled, kernel,
                          ref, bytes, told, conn, calls, stale, robbed>>
  BY <1>plan DEF Sub, flags, refs, resetFields, history
<1>TypeOK. TypeOK'
  BY <1>plan, <1>alone, <1>old, <1>new, <1>rest, <1>frame, Nested, PlansAreLists
  DEF TypeOK
<1>PlanInv. PlanInv'
  BY <1>plan, <1>alone, <1>old, <1>new, <1>rest, <1>frame, Nested
  DEF PlanInv, Busy
<1>ChainInv. ChainInv'
  BY <1>plan, <1>alone, <1>old, <1>new, <1>rest, <1>frame, Nested
  DEF ChainInv, Busy
<1>PoolInv. PoolInv'
  BY <1>plan, <1>alone, <1>old, <1>new, <1>rest, <1>frame
  DEF PoolInv
<1>CloseInv. CloseInv'
  BY <1>plan, <1>alone, <1>old, <1>new, <1>rest, <1>frame, Nested
  DEF CloseInv
<1>ReleaseInv. ReleaseInv'
  BY <1>plan, <1>alone, <1>old, <1>new, <1>rest, <1>frame, Nested
  DEF ReleaseInv
<1> QED
  BY <1>TypeOK, <1>PlanInv, <1>ChainInv, <1>PoolInv, <1>CloseInv,
     <1>ReleaseInv DEF LifeInv

LEMMA ProcessRecvKeeps ==
    ASSUME LifeInv, NEW t \in Threads, ProcessRecv(t)
    PROVE  LifeInv'
<1> USE DEF LifeInv
<1>at. At(t, "dispatch")
  BY DEF ProcessRecv
<1>plan. /\ todo[t] = <<"dispatch">> /\ Busy(t) /\ t \in Iocp
         /\ ref[t]
  BY <1>at, AtPlan, Heads DEF ChainPlans, Posting, Counted, Dequeued
<1>alone. /\ kernel = 0
          /\ \A u \in Iocp : u # t => todo[u] = <<>> /\ todo[u] \notin Chained
          /\ recvPendingCnt = IF todo[t] \in Counted THEN 1 ELSE 0
          /\ todo[t] \in Dequeued => owner
  BY <1>plan, ChainAlone
<1>todo. \/ todo' = [todo EXCEPT ![t] = <<"exchange", "release">>]
         \/ todo' = [todo EXCEPT ![t] = <<"rearm">>]
  BY <1>plan, ThenLast, Bodies DEF ProcessRecv
<1>old. /\ todo[t] \in ChainPlans
        /\ todo[t] \notin Posting \cup Counted \cup Closing \cup Losing \cup
                           Flagged
        /\ todo[t] # <<>>
  BY <1>plan
  DEF ChainPlans, Posting, Counted, Closing, Telling, Losing, Flagged, Checked
<1>now. \/ todo'[t] = <<"exchange", "release">>
        \/ todo'[t] = <<"rearm">>
  BY <1>todo DEF PlanInv
<1>new. \/ /\ todo'[t] \in Plans
           /\ todo'[t] \in Chained
           /\ todo'[t] \notin ChainPlans \cup Posting \cup Counted \cup
                                 Closing \cup Losing \cup Flagged
           /\ todo'[t] # <<>>
        \/ /\ todo'[t] \in Plans
           /\ todo'[t] \in ChainPlans
           /\ todo'[t] \notin Posting \cup Counted \cup Closing \cup
                                 Losing \cup Flagged
           /\ todo'[t] # <<>>
  <2>1. CASE todo'[t] = <<"exchange", "release">>
    BY <2>1
    DEF Plans, ChainPlans, ClosePlans, Chained, Posting, Counted, Entering,
        Closing, Telling, Losing, Releasing, Flagged, Checked
  <2>2. CASE todo'[t] = <<"rearm">>
    BY <2>2
    DEF Plans, ChainPlans, ClosePlans, Chained, Posting, Counted, Entering,
        Closing, Telling, Losing, Releasing, Flagged, Checked
  <2> QED
    BY <1>now, <2>1, <2>2
<1>rest. /\ \A u \in Threads : u # t => todo'[u] = todo[u]
         /\ todo' \in [Threads -> Plans]
         /\ Iocp \subseteq Threads /\ Callers \subseteq Threads
         /\ t \in Callers => t \notin Iocp
  BY <1>todo, <1>new, RolesAssumption DEF PlanInv, Threads
<1>frame. /\ UNCHANGED <<isConnected, disconnecting, released,
                          recvPendingCnt, owner, socket, hasManager,
                          active, pooled, kernel, ref, bytes, told, conn,
                          calls, stale, robbed>>
  BY <1>plan DEF ProcessRecv, flags, refs, resetFields, history
<1>TypeOK. TypeOK'
  BY <1>plan, <1>alone, <1>old, <1>new, <1>rest, <1>frame, Nested, PlansAreLists
  DEF TypeOK
<1>PlanInv. PlanInv'
  BY <1>plan, <1>alone, <1>old, <1>new, <1>rest, <1>frame, Nested
  DEF PlanInv, Busy
<1>ChainInv. ChainInv'
  BY <1>plan, <1>alone, <1>old, <1>new, <1>rest, <1>frame, Nested
  DEF ChainInv, Busy
<1>PoolInv. PoolInv'
  BY <1>plan, <1>alone, <1>old, <1>new, <1>rest, <1>frame
  DEF PoolInv
<1>CloseInv. CloseInv'
  BY <1>plan, <1>alone, <1>old, <1>new, <1>rest, <1>frame, Nested
  DEF CloseInv
<1>ReleaseInv. ReleaseInv'
  BY <1>plan, <1>alone, <1>old, <1>new, <1>rest, <1>frame, Nested
  DEF ReleaseInv
<1> QED
  BY <1>TypeOK, <1>PlanInv, <1>ChainInv, <1>PoolInv, <1>CloseInv,
     <1>ReleaseInv DEF LifeInv

LEMMA RearmKeeps ==
    ASSUME LifeInv, NEW t \in Threads, Rearm(t)
    PROVE  LifeInv'
<1> USE DEF LifeInv
<1>at. At(t, "rearm")
  BY DEF Rearm
<1>plan. /\ todo[t] = <<"rearm">> /\ Busy(t) /\ t \in Iocp
         /\ ref[t]
  BY <1>at, AtPlan, Heads DEF ChainPlans, Posting, Counted, Dequeued
<1>alone. /\ kernel = 0
          /\ \A u \in Iocp : u # t => todo[u] = <<>> /\ todo[u] \notin Chained
          /\ recvPendingCnt = IF todo[t] \in Counted THEN 1 ELSE 0
          /\ todo[t] \in Dequeued => owner
  BY <1>plan, ChainAlone
<1>todo. \/ (~isConnected \/ disconnecting)
            /\ todo' = [todo EXCEPT ![t] = <<"release">>]
         \/ isConnected /\ ~disconnecting /\ todo' = [todo EXCEPT ![t] = <<"register">>]
  BY <1>plan, ThenLast, Bodies DEF Rearm
<1>old. /\ todo[t] \in ChainPlans
        /\ todo[t] \notin Posting \cup Counted \cup Closing \cup Losing \cup
                           Flagged
        /\ todo[t] # <<>>
  BY <1>plan
  DEF ChainPlans, Posting, Counted, Closing, Telling, Losing, Flagged, Checked
<1>now. \/ (~isConnected \/ disconnecting) /\ todo'[t] = <<"release">>
        \/ isConnected /\ ~disconnecting /\ todo'[t] = <<"register">>
  BY <1>todo DEF PlanInv
<1>new. \/ /\ (~isConnected \/ disconnecting)
           /\ todo'[t] \in Plans
           /\ todo'[t] \notin Chained \cup Closing \cup Losing \cup
                                 Flagged
           /\ todo'[t] # <<>>
        \/ /\ isConnected /\ ~disconnecting
           /\ todo'[t] \in Plans
           /\ todo'[t] \in ChainPlans
           /\ todo'[t] \notin Posting \cup Counted \cup Closing \cup
                                 Losing \cup Flagged
           /\ todo'[t] # <<>>
  <2>1. CASE (~isConnected \/ disconnecting) /\ todo'[t] = <<"release">>
    BY <2>1
    DEF Plans, ChainPlans, ClosePlans, Chained, Posting, Counted, Entering,
        Closing, Telling, Losing, Releasing, Flagged, Checked
  <2>2. CASE isConnected /\ ~disconnecting /\ todo'[t] = <<"register">>
    BY <2>2
    DEF Plans, ChainPlans, ClosePlans, Chained, Posting, Counted, Entering,
        Closing, Telling, Losing, Releasing, Flagged, Checked
  <2> QED
    BY <1>now, <2>1, <2>2
<1>rest. /\ \A u \in Threads : u # t => todo'[u] = todo[u]
         /\ todo' \in [Threads -> Plans]
         /\ Iocp \subseteq Threads /\ Callers \subseteq Threads
         /\ t \in Callers => t \notin Iocp
  BY <1>todo, <1>new, RolesAssumption DEF PlanInv, Threads
<1>frame. /\ UNCHANGED <<isConnected, disconnecting, released,
                          recvPendingCnt, owner, socket, hasManager,
                          active, pooled, kernel, ref, bytes, told, conn,
                          calls, stale, robbed>>
  BY <1>plan DEF Rearm, flags, refs, resetFields, history
<1>TypeOK. TypeOK'
  BY <1>plan, <1>alone, <1>old, <1>new, <1>rest, <1>frame, Nested, PlansAreLists
  DEF TypeOK
<1>PlanInv. PlanInv'
  BY <1>plan, <1>alone, <1>old, <1>new, <1>rest, <1>frame, Nested
  DEF PlanInv, Busy
<1>ChainInv. ChainInv'
  BY <1>plan, <1>alone, <1>old, <1>new, <1>rest, <1>frame, Nested
  DEF ChainInv, Busy
<1>PoolInv. PoolInv'
  BY <1>plan, <1>alone, <1>old, <1>new, <1>rest, <1>frame
  DEF PoolInv
<1>CloseInv. CloseInv'
  BY <1>plan, <1>alone, <1>old, <1>new, <1>rest, <1>frame, Nested
  DEF CloseInv
<1>ReleaseInv. ReleaseInv'
  BY <1>plan, <1>alone, <1>old, <1>new, <1>rest, <1>frame, Nested
  DEF ReleaseInv
<1> QED
  BY <1>TypeOK, <1>PlanInv, <1>ChainInv, <1>PoolInv, <1>CloseInv,
     <1>ReleaseInv DEF LifeInv

LEMMA RegisterKeeps ==
    ASSUME LifeInv, NEW t \in Threads, Register(t)
    PROVE  LifeInv'
<1> USE DEF LifeInv
<1>at. At(t, "register")
  BY DEF Register
<1>plan. /\ todo[t] = <<"register">> /\ Busy(t) /\ t \in Iocp
         /\ ref[t]
  BY <1>at, AtPlan, Heads DEF ChainPlans, Posting, Counted, Dequeued
<1>alone. /\ kernel = 0
          /\ \A u \in Iocp : u # t => todo[u] = <<>> /\ todo[u] \notin Chained
          /\ recvPendingCnt = IF todo[t] \in Counted THEN 1 ELSE 0
          /\ todo[t] \in Dequeued => owner
  BY <1>plan, ChainAlone
<1>todo. \/ (~isConnected \/ disconnecting) /\ todo' = [todo EXCEPT ![t] = <<>>]
         \/ isConnected /\ ~disconnecting /\ todo' = [todo EXCEPT ![t] = <<"own">>]
  BY <1>plan, ThenLast, Bodies DEF Register
<1>old. /\ todo[t] \in ChainPlans
        /\ todo[t] \notin Posting \cup Counted \cup Closing \cup Losing \cup
                           Flagged
        /\ todo[t] # <<>>
  BY <1>plan
  DEF ChainPlans, Posting, Counted, Closing, Telling, Losing, Flagged, Checked
<1>now. \/ (~isConnected \/ disconnecting) /\ todo'[t] = <<>>
        \/ isConnected /\ ~disconnecting /\ todo'[t] = <<"own">>
  BY <1>todo DEF PlanInv
<1>new. \/ /\ (~isConnected \/ disconnecting)
           /\ todo'[t] \in Plans
           /\ todo'[t] \notin Chained \cup Closing \cup Losing \cup
                                 Flagged
           /\ todo'[t] = <<>>
        \/ /\ isConnected /\ ~disconnecting
           /\ todo'[t] \in Plans
           /\ todo'[t] \in ChainPlans \cap Posting
           /\ todo'[t] \notin Ready \cup Counted \cup Closing \cup
                                 Losing \cup Flagged
           /\ todo'[t] # <<>>
  <2>1. CASE (~isConnected \/ disconnecting) /\ todo'[t] = <<>>
    BY <2>1
    DEF Plans, ChainPlans, ClosePlans, Chained, Posting, Counted, Ready,
        Entering, Closing, Telling, Losing, Releasing, Flagged, Checked
  <2>2. CASE isConnected /\ ~disconnecting /\ todo'[t] = <<"own">>
    BY <2>2
    DEF Plans, ChainPlans, ClosePlans, Chained, Posting, Counted, Ready,
        Entering, Closing, Telling, Losing, Releasing, Flagged, Checked
  <2> QED
    BY <1>now, <2>1, <2>2
<1>rest. /\ \A u \in Threads : u # t => todo'[u] = todo[u]
         /\ todo' \in [Threads -> Plans]
         /\ Iocp \subseteq Threads /\ Callers \subseteq Threads
         /\ t \in Callers => t \notin Iocp
  BY <1>todo, <1>new, RolesAssumption DEF PlanInv, Threads
<1>frame. /\ UNCHANGED <<isConnected, disconnecting, released,
                          recvPendingCnt, owner, socket, hasManager,
                          active, pooled, kernel, ref, bytes, told, conn,
                          calls, stale, robbed>>
  BY <1>plan DEF Register, flags, refs, resetFields, history
<1>TypeOK. TypeOK'
  BY <1>plan, <1>alone, <1>old, <1>new, <1>rest, <1>frame, Nested, PlansAreLists
  DEF TypeOK
<1>PlanInv. PlanInv'
  BY <1>plan, <1>alone, <1>old, <1>new, <1>rest, <1>frame, Nested
  DEF PlanInv, Busy
<1>ChainInv. ChainInv'
  BY <1>plan, <1>alone, <1>old, <1>new, <1>rest, <1>frame, Nested
  DEF ChainInv, Busy
<1>PoolInv. PoolInv'
  BY <1>plan, <1>alone, <1>old, <1>new, <1>rest, <1>frame
  DEF PoolInv
<1>CloseInv. CloseInv'
  BY <1>plan, <1>alone, <1>old, <1>new, <1>rest, <1>frame, Nested
  DEF CloseInv
<1>ReleaseInv. ReleaseInv'
  BY <1>plan, <1>alone, <1>old, <1>new, <1>rest, <1>frame, Nested
  DEF ReleaseInv
<1> QED
  BY <1>TypeOK, <1>PlanInv, <1>ChainInv, <1>PoolInv, <1>CloseInv,
     <1>ReleaseInv DEF LifeInv

LEMMA OwnKeeps ==
    ASSUME LifeInv, NEW t \in Threads, Own(t)
    PROVE  LifeInv'
<1> USE DEF LifeInv
<1>at. At(t, "own")
  BY DEF Own
<1>plan. /\ todo[t] = <<"own">> /\ Busy(t) /\ t \in Iocp
         /\ ref[t]
  BY <1>at, AtPlan, Heads DEF ChainPlans, Posting, Counted, Dequeued
<1>alone. /\ kernel = 0
          /\ \A u \in Iocp : u # t => todo[u] = <<>> /\ todo[u] \notin Chained
          /\ recvPendingCnt = IF todo[t] \in Counted THEN 1 ELSE 0
          /\ todo[t] \in Dequeued => owner
  BY <1>plan, ChainAlone
<1>todo. todo' = [todo EXCEPT ![t] = <<"count">>]
  BY <1>plan, ThenLast, Bodies DEF Own
<1>old. /\ todo[t] \in ChainPlans \cap Posting
        /\ todo[t] \notin Ready \cup Counted \cup Closing \cup Losing \cup
                           Flagged
        /\ todo[t] # <<>>
  BY <1>plan
  DEF ChainPlans, Posting, Counted, Ready, Closing, Telling, Losing, Flagged,
      Checked
<1>now. todo'[t] = <<"count">>
  BY <1>todo DEF PlanInv
<1>new. /\ todo'[t] \in Plans
        /\ todo'[t] \in ChainPlans \cap Ready
        /\ todo'[t] \notin Counted \cup Closing \cup Losing \cup
                              Flagged
        /\ todo'[t] # <<>>
  BY <1>now
  DEF Plans, ChainPlans, ClosePlans, Posting, Counted, Ready, Entering,
      Closing, Telling, Losing, Releasing, Flagged, Checked
<1>rest. /\ \A u \in Threads : u # t => todo'[u] = todo[u]
         /\ todo' \in [Threads -> Plans]
         /\ Iocp \subseteq Threads /\ Callers \subseteq Threads
         /\ t \in Callers => t \notin Iocp
  BY <1>todo, <1>new, RolesAssumption DEF PlanInv, Threads
<1>frame. /\ owner' = TRUE
          /\ UNCHANGED <<isConnected, disconnecting, released,
                          recvPendingCnt, socket, hasManager, active,
                          pooled, kernel, ref, bytes, told, conn,
                          calls, stale, robbed>>
  BY <1>plan DEF Own, flags, refs, resetFields, history
<1>TypeOK. TypeOK'
  BY <1>plan, <1>alone, <1>old, <1>new, <1>rest, <1>frame, Nested, PlansAreLists
  DEF TypeOK
<1>PlanInv. PlanInv'
  BY <1>plan, <1>alone, <1>old, <1>new, <1>rest, <1>frame, Nested
  DEF PlanInv, Busy
<1>ChainInv. ChainInv'
  BY <1>plan, <1>alone, <1>old, <1>new, <1>rest, <1>frame, Nested
  DEF ChainInv, Busy
<1>PoolInv. PoolInv'
  BY <1>plan, <1>alone, <1>old, <1>new, <1>rest, <1>frame
  DEF PoolInv
<1>CloseInv. CloseInv'
  BY <1>plan, <1>alone, <1>old, <1>new, <1>rest, <1>frame, Nested
  DEF CloseInv
<1>ReleaseInv. ReleaseInv'
  BY <1>plan, <1>alone, <1>old, <1>new, <1>rest, <1>frame, Nested
  DEF ReleaseInv
<1> QED
  BY <1>TypeOK, <1>PlanInv, <1>ChainInv, <1>PoolInv, <1>CloseInv,
     <1>ReleaseInv DEF LifeInv

LEMMA CountKeeps ==
    ASSUME LifeInv, NEW t \in Threads, Count(t)
    PROVE  LifeInv'
<1> USE DEF LifeInv
<1>at. At(t, "count")
  BY DEF Count
<1>plan. /\ todo[t] = <<"count">> /\ Busy(t) /\ t \in Iocp
         /\ ref[t]
  BY <1>at, AtPlan, Heads DEF ChainPlans, Posting, Counted, Dequeued
<1>alone. /\ kernel = 0
          /\ \A u \in Iocp : u # t => todo[u] = <<>> /\ todo[u] \notin Chained
          /\ recvPendingCnt = IF todo[t] \in Counted THEN 1 ELSE 0
          /\ todo[t] \in Dequeued => owner
  BY <1>plan, ChainAlone
<1>todo. todo' = [todo EXCEPT ![t] = <<"recv">>]
  BY <1>plan, ThenLast, Bodies DEF Count
<1>old. /\ todo[t] \in ChainPlans \cap Ready
        /\ todo[t] \notin Counted \cup Closing \cup Losing \cup Flagged
        /\ todo[t] # <<>>
  BY <1>plan
  DEF ChainPlans, Posting, Counted, Ready, Closing, Telling, Losing, Flagged,
      Checked
<1>now. todo'[t] = <<"recv">>
  BY <1>todo DEF PlanInv
<1>new. /\ todo'[t] \in Plans
        /\ todo'[t] \in ChainPlans \cap Ready \cap Counted
        /\ todo'[t] \notin Handed \cup Closing \cup Losing \cup
                              Flagged
        /\ todo'[t] # <<>>
  BY <1>now
  DEF Plans, ChainPlans, ClosePlans, Posting, Counted, Handed, Ready, Entering,
      Closing, Telling, Losing, Releasing, Flagged, Checked
<1>rest. /\ \A u \in Threads : u # t => todo'[u] = todo[u]
         /\ todo' \in [Threads -> Plans]
         /\ Iocp \subseteq Threads /\ Callers \subseteq Threads
         /\ t \in Callers => t \notin Iocp
  BY <1>todo, <1>new, RolesAssumption DEF PlanInv, Threads
<1>frame. /\ recvPendingCnt' = recvPendingCnt + 1
          /\ UNCHANGED <<isConnected, disconnecting, released, owner,
                          socket, hasManager, active, pooled, kernel,
                          ref, bytes, told, conn, calls, robbed>>
  BY <1>plan DEF Count, flags, refs, resetFields
<1>stale. /\ stale' \subseteq Threads
          /\ \A u \in Threads : todo[u] \in Checked => u \in stale'
  <2>1. stale' = {u \in Threads : At(u, "reset")}
    BY DEF Count
  <2>2. ASSUME NEW u \in Threads, todo[u] \in Checked PROVE At(u, "reset")
    BY <2>2 DEF Checked, At
  <2> QED
    BY <2>1, <2>2
<1>TypeOK. TypeOK'
  BY <1>plan, <1>alone, <1>old, <1>new, <1>rest, <1>frame, <1>stale,
     Nested, PlansAreLists
  DEF TypeOK
<1>PlanInv. PlanInv'
  BY <1>plan, <1>alone, <1>old, <1>new, <1>rest, <1>frame, Nested
  DEF PlanInv, Busy
<1>ChainInv. ChainInv'
  BY <1>plan, <1>alone, <1>old, <1>new, <1>rest, <1>frame, Nested
  DEF ChainInv, Busy
<1>PoolInv. PoolInv'
  BY <1>plan, <1>alone, <1>old, <1>new, <1>rest, <1>frame
  DEF PoolInv
<1>CloseInv. CloseInv'
  BY <1>plan, <1>alone, <1>old, <1>new, <1>rest, <1>frame, Nested
  DEF CloseInv
<1>ReleaseInv. ReleaseInv'
  BY <1>plan, <1>alone, <1>old, <1>new, <1>rest, <1>frame, <1>stale, Nested
  DEF ReleaseInv
<1> QED
  BY <1>TypeOK, <1>PlanInv, <1>ChainInv, <1>PoolInv, <1>CloseInv,
     <1>ReleaseInv DEF LifeInv

LEMMA RecvKeeps ==
    ASSUME LifeInv, NEW t \in Threads, Recv(t)
    PROVE  LifeInv'
<1> USE DEF LifeInv
<1>at. At(t, "recv")
  BY DEF Recv
<1>plan. /\ todo[t] = <<"recv">> /\ Busy(t) /\ t \in Iocp
         /\ ref[t]
  BY <1>at, AtPlan, Heads DEF ChainPlans, Posting, Counted, Dequeued
<1>alone. /\ kernel = 0
          /\ \A u \in Iocp : u # t => todo[u] = <<>> /\ todo[u] \notin Chained
          /\ recvPendingCnt = IF todo[t] \in Counted THEN 1 ELSE 0
          /\ todo[t] \in Dequeued => owner
  BY <1>plan, ChainAlone
<1>todo. \/ socket /\ kernel' = kernel + 1 /\ todo' = [todo EXCEPT ![t] = <<>>]
         \/ kernel' = kernel /\ todo' = [todo EXCEPT ![t] = <<"uncount">>]
  BY <1>plan, ThenLast, Bodies DEF Recv
<1>old. /\ todo[t] \in ChainPlans \cap Ready \cap Counted
        /\ todo[t] \notin Handed \cup Closing \cup Losing \cup Flagged
        /\ todo[t] # <<>>
  BY <1>plan
  DEF ChainPlans, Posting, Counted, Handed, Ready, Closing, Telling, Losing,
      Flagged, Checked
<1>now. \/ socket /\ kernel' = kernel + 1 /\ todo'[t] = <<>>
        \/ kernel' = kernel /\ todo'[t] = <<"uncount">>
  BY <1>todo DEF PlanInv
<1>new. \/ /\ socket /\ kernel' = kernel + 1
           /\ todo'[t] \in Plans
           /\ todo'[t] \notin Chained \cup Closing \cup Losing \cup
                                 Flagged
           /\ todo'[t] = <<>>
        \/ /\ kernel' = kernel
           /\ todo'[t] \in Plans
           /\ todo'[t] \in ChainPlans \cap Counted
           /\ todo'[t] \notin Posting \cup Handed \cup Closing \cup
                                 Losing \cup Flagged
           /\ todo'[t] # <<>>
  <2>1. CASE socket /\ kernel' = kernel + 1 /\ todo'[t] = <<>>
    BY <2>1
    DEF Plans, ChainPlans, ClosePlans, Chained, Posting, Counted, Handed,
        Entering, Closing, Telling, Losing, Releasing, Flagged, Checked
  <2>2. CASE kernel' = kernel /\ todo'[t] = <<"uncount">>
    BY <2>2
    DEF Plans, ChainPlans, ClosePlans, Chained, Posting, Counted, Handed,
        Entering, Closing, Telling, Losing, Releasing, Flagged, Checked
  <2> QED
    BY <1>now, <2>1, <2>2
<1>rest. /\ \A u \in Threads : u # t => todo'[u] = todo[u]
         /\ todo' \in [Threads -> Plans]
         /\ Iocp \subseteq Threads /\ Callers \subseteq Threads
         /\ t \in Callers => t \notin Iocp
  BY <1>todo, <1>new, RolesAssumption DEF PlanInv, Threads
<1>frame. /\ kernel' \in {kernel, kernel + 1}
          /\ UNCHANGED <<isConnected, disconnecting, released,
                          recvPendingCnt, owner, socket, hasManager,
                          active, pooled, ref, bytes, told, conn,
                          calls, stale, robbed>>
  BY <1>plan DEF Recv, flags, refs, resetFields, history
<1>TypeOK. TypeOK'
  BY <1>plan, <1>alone, <1>old, <1>new, <1>rest, <1>frame, Nested, PlansAreLists
  DEF TypeOK
<1>PlanInv. PlanInv'
  BY <1>plan, <1>alone, <1>old, <1>new, <1>rest, <1>frame, Nested
  DEF PlanInv, Busy
<1>ChainInv. ChainInv'
  BY <1>plan, <1>alone, <1>old, <1>new, <1>rest, <1>frame, Nested
  DEF ChainInv, Busy
<1>PoolInv. PoolInv'
  BY <1>plan, <1>alone, <1>old, <1>new, <1>rest, <1>frame
  DEF PoolInv
<1>CloseInv. CloseInv'
  BY <1>plan, <1>alone, <1>old, <1>new, <1>rest, <1>frame, Nested
  DEF CloseInv
<1>ReleaseInv. ReleaseInv'
  BY <1>plan, <1>alone, <1>old, <1>new, <1>rest, <1>frame, Nested
  DEF ReleaseInv
<1> QED
  BY <1>TypeOK, <1>PlanInv, <1>ChainInv, <1>PoolInv, <1>CloseInv,
     <1>ReleaseInv DEF LifeInv

LEMMA UncountKeeps ==
    ASSUME LifeInv, NEW t \in Threads, Uncount(t)
    PROVE  LifeInv'
<1> USE DEF LifeInv
<1>at. At(t, "uncount")
  BY DEF Uncount
<1>plan. /\ todo[t] = <<"uncount">> /\ Busy(t) /\ t \in Iocp
         /\ ref[t]
  BY <1>at, AtPlan, Heads DEF ChainPlans, Posting, Counted, Dequeued
<1>alone. /\ kernel = 0
          /\ \A u \in Iocp : u # t => todo[u] = <<>> /\ todo[u] \notin Chained
          /\ recvPendingCnt = IF todo[t] \in Counted THEN 1 ELSE 0
          /\ todo[t] \in Dequeued => owner
  BY <1>plan, ChainAlone
<1>todo. todo' = [todo EXCEPT ![t] = <<"disown">>]
  BY <1>plan, ThenLast, Bodies DEF Uncount
<1>old. /\ todo[t] \in ChainPlans \cap Counted
        /\ todo[t] \notin Posting \cup Handed \cup Closing \cup Losing \cup
                           Flagged
        /\ todo[t] # <<>>
  BY <1>plan
  DEF ChainPlans, Posting, Counted, Handed, Closing, Telling, Losing, Flagged,
      Checked
<1>now. todo'[t] = <<"disown">>
  BY <1>todo DEF PlanInv
<1>new. /\ todo'[t] \in Plans
        /\ todo'[t] \in ChainPlans
        /\ todo'[t] \notin Posting \cup Counted \cup Closing \cup
                              Losing \cup Flagged
        /\ todo'[t] # <<>>
  BY <1>now
  DEF Plans, ChainPlans, ClosePlans, Posting, Counted, Entering, Closing,
      Telling, Losing, Releasing, Flagged, Checked
<1>rest. /\ \A u \in Threads : u # t => todo'[u] = todo[u]
         /\ todo' \in [Threads -> Plans]
         /\ Iocp \subseteq Threads /\ Callers \subseteq Threads
         /\ t \in Callers => t \notin Iocp
  BY <1>todo, <1>new, RolesAssumption DEF PlanInv, Threads
<1>frame. /\ recvPendingCnt' = recvPendingCnt - 1
          /\ UNCHANGED <<isConnected, disconnecting, released, owner,
                          socket, hasManager, active, pooled, kernel,
                          ref, bytes, told, conn, calls, stale, robbed>>
  BY <1>plan DEF Uncount, flags, refs, resetFields, history
<1>TypeOK. TypeOK'
  BY <1>plan, <1>alone, <1>old, <1>new, <1>rest, <1>frame, Nested, PlansAreLists
  DEF TypeOK
<1>PlanInv. PlanInv'
  BY <1>plan, <1>alone, <1>old, <1>new, <1>rest, <1>frame, Nested
  DEF PlanInv, Busy
<1>ChainInv. ChainInv'
  BY <1>plan, <1>alone, <1>old, <1>new, <1>rest, <1>frame, Nested
  DEF ChainInv, Busy
<1>PoolInv. PoolInv'
  BY <1>plan, <1>alone, <1>old, <1>new, <1>rest, <1>frame
  DEF PoolInv
<1>CloseInv. CloseInv'
  BY <1>plan, <1>alone, <1>old, <1>new, <1>rest, <1>frame, Nested
  DEF CloseInv
<1>ReleaseInv. ReleaseInv'
  BY <1>plan, <1>alone, <1>old, <1>new, <1>rest, <1>frame, Nested
  DEF ReleaseInv
<1> QED
  BY <1>TypeOK, <1>PlanInv, <1>ChainInv, <1>PoolInv, <1>CloseInv,
     <1>ReleaseInv DEF LifeInv

LEMMA DisownKeeps ==
    ASSUME LifeInv, NEW t \in Threads, Disown(t)
    PROVE  LifeInv'
<1> USE DEF LifeInv
<1>at. At(t, "disown")
  BY DEF Disown
<1>plan. /\ todo[t] = <<"disown">> /\ Busy(t) /\ t \in Iocp
         /\ ref[t]
  BY <1>at, AtPlan, Heads DEF ChainPlans, Posting, Counted, Dequeued
<1>alone. /\ kernel = 0
          /\ \A u \in Iocp : u # t => todo[u] = <<>> /\ todo[u] \notin Chained
          /\ recvPendingCnt = IF todo[t] \in Counted THEN 1 ELSE 0
          /\ todo[t] \in Dequeued => owner
  BY <1>plan, ChainAlone
<1>todo. todo' = [todo EXCEPT ![t] = <<"exchange", "release">>]
  BY <1>plan, ThenLast, Bodies DEF Disown
<1>old. /\ todo[t] \in ChainPlans
        /\ todo[t] \notin Posting \cup Counted \cup Closing \cup Losing \cup
                           Flagged
        /\ todo[t] # <<>>
  BY <1>plan
  DEF ChainPlans, Posting, Counted, Closing, Telling, Losing, Flagged, Checked
<1>now. todo'[t] = <<"exchange", "release">>
  BY <1>todo DEF PlanInv
<1>new. /\ todo'[t] \in Plans
        /\ todo'[t] \in Chained
        /\ todo'[t] \notin ChainPlans \cup Posting \cup Counted \cup
                              Closing \cup Losing \cup Flagged
        /\ todo'[t] # <<>>
  BY <1>now
  DEF Plans, ChainPlans, ClosePlans, Chained, Posting, Counted, Entering,
      Closing, Telling, Losing, Releasing, Flagged, Checked
<1>rest. /\ \A u \in Threads : u # t => todo'[u] = todo[u]
         /\ todo' \in [Threads -> Plans]
         /\ Iocp \subseteq Threads /\ Callers \subseteq Threads
         /\ t \in Callers => t \notin Iocp
  BY <1>todo, <1>new, RolesAssumption DEF PlanInv, Threads
<1>frame. /\ owner' = FALSE
          /\ UNCHANGED <<isConnected, disconnecting, released,
                          recvPendingCnt, socket, hasManager, active,
                          pooled, kernel, ref, bytes, told, conn,
                          calls, stale, robbed>>
  BY <1>plan, HoldKept DEF Disown, flags, resetFields, history
<1>TypeOK. TypeOK'
  BY <1>plan, <1>alone, <1>old, <1>new, <1>rest, <1>frame, Nested, PlansAreLists
  DEF TypeOK
<1>PlanInv. PlanInv'
  BY <1>plan, <1>alone, <1>old, <1>new, <1>rest, <1>frame, Nested
  DEF PlanInv, Busy
<1>ChainInv. ChainInv'
  BY <1>plan, <1>alone, <1>old, <1>new, <1>rest, <1>frame, Nested
  DEF ChainInv, Busy
<1>PoolInv. PoolInv'
  BY <1>plan, <1>alone, <1>old, <1>new, <1>rest, <1>frame
  DEF PoolInv
<1>CloseInv. CloseInv'
  BY <1>plan, <1>alone, <1>old, <1>new, <1>rest, <1>frame, Nested
  DEF CloseInv
<1>ReleaseInv. ReleaseInv'
  BY <1>plan, <1>alone, <1>old, <1>new, <1>rest, <1>frame, Nested
  DEF ReleaseInv
<1> QED
  BY <1>TypeOK, <1>PlanInv, <1>ChainInv, <1>PoolInv, <1>CloseInv,
     <1>ReleaseInv DEF LifeInv

LEMMA ExchangeKeeps ==
    ASSUME LifeInv, NEW t \in Threads, Exchange(t)
    PROVE  LifeInv'
<1> USE DEF LifeInv
<1>at. At(t, "exchange")
  BY DEF Exchange
<1>plan. /\ \/ todo[t] = <<"exchange">>
            \/ todo[t] = <<"exchange", "release">>
         /\ Busy(t) /\ ref[t]
  BY <1>at, AtPlan, Heads DEF ChainPlans, Posting, Counted, Dequeued,
     Entering, Losing, Releasing, Checked
<1>todo. \/ todo[t] = <<"exchange">> /\ isConnected
            /\ todo' = [todo EXCEPT ![t] = <<"flag", "notify", "close", "release">>]
         \/ todo[t] = <<"exchange">> /\ ~isConnected
            /\ todo' = [todo EXCEPT ![t] = <<"flag", "release">>]
         \/ todo[t] = <<"exchange", "release">> /\ isConnected
            /\ todo' = [todo EXCEPT ![t] = <<"flag", "notify", "close", "release", "release">>]
         \/ todo[t] = <<"exchange", "release">> /\ ~isConnected
            /\ todo' = [todo EXCEPT ![t] = <<"flag", "release", "release">>]
  <2>1. CASE todo[t] = <<"exchange">>
    <3>1. Tail(todo[t]) = <<>>
      BY <2>1
    <3> QED
      BY <2>1, ThenLast, Bodies DEF Exchange
  <2>2. CASE todo[t] = <<"exchange", "release">>
    <3>1. Tail(todo[t]) = <<"release">>
      BY <2>2
    <3>2. ASSUME isConnected
          PROVE  todo' = [todo EXCEPT ![t] = <<"flag", "notify", "close", "release", "release">>]
      <4>1. Then(t, <<"flag", "notify", "close", "release">>)
        BY <3>2 DEF Exchange
      <4>2. todo' =
              [todo EXCEPT ![t] = <<"flag", "notify", "close", "release">> \o <<"release">>]
        BY <3>1, <4>1, ThenRelease
      <4> QED
        BY <4>2, Calls
    <3>3. ASSUME ~isConnected
          PROVE  todo' = [todo EXCEPT ![t] = <<"flag", "release", "release">>]
      <4>1. Then(t, <<"flag", "release">>)
        BY <3>3 DEF Exchange
      <4>2. todo' = [todo EXCEPT ![t] = <<"flag", "release">> \o <<"release">>]
        BY <3>1, <4>1, ThenRelease
      <4> QED
        BY <4>2, Calls
    <3> QED
      BY <2>2, <3>2, <3>3
  <2> QED
    BY <1>plan, <2>1, <2>2
<1>old. /\ todo[t] \notin ChainPlans \cup Posting \cup Counted \cup
                           Closing \cup Losing \cup Flagged
        /\ todo[t] # <<>>
  <2>1. CASE todo[t] = <<"exchange">>
    BY <2>1
    DEF ChainPlans, Posting, Counted, Closing, Telling, Losing, Flagged,
        Checked
  <2>2. CASE todo[t] = <<"exchange", "release">>
    BY <2>2
    DEF ChainPlans, Posting, Counted, Closing, Telling, Losing, Flagged,
        Checked
  <2> QED
    BY <1>plan, <2>1, <2>2
<1>now. \/ isConnected /\ todo[t] = <<"exchange">>
           /\ todo'[t] = <<"flag", "notify", "close", "release">>
        \/ isConnected /\ todo[t] = <<"exchange", "release">>
           /\ todo'[t] = <<"flag", "notify", "close", "release", "release">>
        \/ ~isConnected /\ todo[t] = <<"exchange">>
           /\ todo'[t] = <<"flag", "release">>
        \/ ~isConnected /\ todo[t] = <<"exchange", "release">>
           /\ todo'[t] = <<"flag", "release", "release">>
  BY <1>todo DEF PlanInv
<1>new. \/ /\ isConnected
           /\ todo[t] \notin ChainPlans \cup Posting \cup Counted \cup
                                Closing \cup Losing \cup Flagged
           /\ todo'[t] \in Plans
           /\ todo'[t] \in Telling
           /\ todo'[t] \notin Chained \cup Losing \cup Flagged
           /\ todo'[t] # <<>>
        \/ /\ ~isConnected
           /\ todo[t] \notin ChainPlans \cup Posting \cup Counted \cup
                                Closing \cup Losing \cup Flagged
           /\ todo'[t] \in Plans
           /\ todo'[t] \in Losing
           /\ todo'[t] \notin Chained \cup Closing \cup Flagged
           /\ todo'[t] # <<>>
  <2>1. CASE /\ isConnected /\ todo[t] = <<"exchange">>
             /\ todo'[t] = <<"flag", "notify", "close", "release">>
    BY <2>1
    DEF Plans, ChainPlans, ClosePlans, Chained, Posting, Counted, Entering,
        Closing, Telling, Losing, Releasing, Flagged, Checked
  <2>2. CASE /\ isConnected /\ todo[t] = <<"exchange", "release">>
             /\ todo'[t] = <<"flag", "notify", "close", "release", "release">>
    BY <2>2
    DEF Plans, ChainPlans, ClosePlans, Chained, Posting, Counted, Entering,
        Closing, Telling, Losing, Releasing, Flagged, Checked
  <2>3. CASE /\ ~isConnected /\ todo[t] = <<"exchange">>
             /\ todo'[t] = <<"flag", "release">>
    BY <2>3
    DEF Plans, ChainPlans, ClosePlans, Chained, Posting, Counted, Entering,
        Closing, Telling, Losing, Releasing, Flagged, Checked
  <2>4. CASE /\ ~isConnected /\ todo[t] = <<"exchange", "release">>
             /\ todo'[t] = <<"flag", "release", "release">>
    BY <2>4
    DEF Plans, ChainPlans, ClosePlans, Chained, Posting, Counted, Entering,
        Closing, Telling, Losing, Releasing, Flagged, Checked
  <2> QED
    BY <1>now, <2>1, <2>2, <2>3, <2>4
<1>rest. /\ \A u \in Threads : u # t => todo'[u] = todo[u]
         /\ todo' \in [Threads -> Plans]
         /\ Iocp \subseteq Threads /\ Callers \subseteq Threads
         /\ t \in Callers => t \notin Iocp
  BY <1>todo, <1>new, RolesAssumption DEF PlanInv, Threads
<1>frame. /\ isConnected' = FALSE
          /\ UNCHANGED <<disconnecting, released, recvPendingCnt, owner,
                          socket, hasManager, active, pooled, kernel,
                          ref, bytes, told, conn, calls, stale, robbed>>
  BY <1>plan DEF Exchange, flags, refs, resetFields, history
<1>TypeOK. TypeOK'
  BY <1>plan, <1>old, <1>new, <1>rest, <1>frame, Nested, PlansAreLists
  DEF TypeOK
<1>PlanInv. PlanInv'
  BY <1>plan, <1>old, <1>new, <1>rest, <1>frame, Nested
  DEF PlanInv, Busy
<1>ChainInv. ChainInv'
  BY <1>plan, <1>old, <1>new, <1>rest, <1>frame, Nested
  DEF ChainInv, Busy
<1>PoolInv. PoolInv'
  BY <1>plan, <1>old, <1>new, <1>rest, <1>frame
  DEF PoolInv
<1>CloseInv. CloseInv'
  BY <1>plan, <1>old, <1>new, <1>rest, <1>frame, Nested
  DEF CloseInv
<1>ReleaseInv. ReleaseInv'
  BY <1>plan, <1>old, <1>new, <1>rest, <1>frame, Nested
  DEF ReleaseInv
<1> QED
  BY <1>TypeOK, <1>PlanInv, <1>ChainInv, <1>PoolInv, <1>CloseInv,
     <1>ReleaseInv DEF LifeInv

LEMMA FlagKeeps ==
    ASSUME LifeInv, NEW t \in Threads, Flag(t)
    PROVE  LifeInv'
<1> USE DEF LifeInv
<1>at. At(t, "flag")
  BY DEF Flag
<1>plan. /\ \/ todo[t] = <<"flag", "notify", "close", "release">>
            \/ todo[t] = <<"flag", "notify", "close", "release", "release">>
            \/ todo[t] = <<"flag", "release">>
            \/ todo[t] = <<"flag", "release", "release">>
         /\ Busy(t) /\ ref[t]
  BY <1>at, AtPlan, Heads DEF ChainPlans, Posting, Counted, Dequeued,
     Entering, Losing, Releasing, Checked
<1>todo. \/ todo[t] = <<"flag", "notify", "close", "release">>
            /\ todo' = [todo EXCEPT ![t] = <<"notify", "close", "release">>]
         \/ todo[t] = <<"flag", "notify", "close", "release", "release">>
            /\ todo' = [todo EXCEPT ![t] = <<"notify", "close", "release", "release">>]
         \/ todo[t] = <<"flag", "release">>
            /\ todo' = [todo EXCEPT ![t] = <<"release">>]
         \/ todo[t] = <<"flag", "release", "release">>
            /\ todo' = [todo EXCEPT ![t] = <<"release", "release">>]
  <2>1. CASE todo[t] = <<"flag", "notify", "close", "release">>
    <3>1. Tail(todo[t]) = <<"notify", "close", "release">>
      BY <2>1
    <3>2. Then(t, <<>>)
      BY DEF Flag
    <3> QED
      BY <2>1, <3>1, <3>2, ThenNothing, Bodies
  <2>2. CASE todo[t] = <<"flag", "notify", "close", "release", "release">>
    <3>1. Tail(todo[t]) = <<"notify", "close", "release", "release">>
      BY <2>2
    <3>2. Then(t, <<>>)
      BY DEF Flag
    <3> QED
      BY <2>2, <3>1, <3>2, ThenNothing, Bodies
  <2>3. CASE todo[t] = <<"flag", "release">>
    <3>1. Tail(todo[t]) = <<"release">>
      BY <2>3
    <3>2. Then(t, <<>>)
      BY DEF Flag
    <3> QED
      BY <2>3, <3>1, <3>2, ThenNothing, Bodies
  <2>4. CASE todo[t] = <<"flag", "release", "release">>
    <3>1. Tail(todo[t]) = <<"release", "release">>
      BY <2>4
    <3>2. Then(t, <<>>)
      BY DEF Flag
    <3> QED
      BY <2>4, <3>1, <3>2, ThenNothing, Bodies
  <2> QED
    BY <1>plan, <2>1, <2>2, <2>3, <2>4
<1>old. /\ todo[t] \notin Chained \cup Flagged
        /\ todo[t] # <<>>
  <2>1. CASE todo[t] = <<"flag", "notify", "close", "release">>
    BY <2>1
    DEF ChainPlans, Chained, Posting, Counted, Flagged, Checked
  <2>2. CASE todo[t] = <<"flag", "notify", "close", "release", "release">>
    BY <2>2
    DEF ChainPlans, Chained, Posting, Counted, Flagged, Checked
  <2>3. CASE todo[t] = <<"flag", "release">>
    BY <2>3
    DEF ChainPlans, Chained, Posting, Counted, Flagged, Checked
  <2>4. CASE todo[t] = <<"flag", "release", "release">>
    BY <2>4
    DEF ChainPlans, Chained, Posting, Counted, Flagged, Checked
  <2> QED
    BY <1>plan, <2>1, <2>2, <2>3, <2>4
<1>now. \/ todo[t] = <<"flag", "notify", "close", "release">>
           /\ todo'[t] = <<"notify", "close", "release">>
        \/ todo[t] = <<"flag", "notify", "close", "release", "release">>
           /\ todo'[t] = <<"notify", "close", "release", "release">>
        \/ todo[t] = <<"flag", "release">> /\ todo'[t] = <<"release">>
        \/ todo[t] = <<"flag", "release", "release">>
           /\ todo'[t] = <<"release", "release">>
  BY <1>todo DEF PlanInv
<1>new. \/ /\ todo[t] \in Telling
           /\ todo[t] \notin Chained \cup Losing \cup Flagged
           /\ todo'[t] \in Plans
           /\ todo'[t] \in Telling
           /\ todo'[t] \notin Chained \cup Losing \cup Flagged
           /\ todo'[t] # <<>>
        \/ /\ todo[t] \in Losing
           /\ todo[t] \notin Chained \cup Closing \cup Flagged
           /\ todo'[t] \in Plans
           /\ todo'[t] \notin Chained \cup Closing \cup Losing \cup
                                 Flagged
           /\ todo'[t] # <<>>
  <2>1. CASE /\ todo[t] = <<"flag", "notify", "close", "release">>
             /\ todo'[t] = <<"notify", "close", "release">>
    BY <2>1
    DEF Plans, ChainPlans, ClosePlans, Chained, Posting, Counted, Entering,
        Closing, Telling, Losing, Releasing, Flagged, Checked
  <2>2. CASE /\ todo[t] = <<"flag", "notify", "close", "release", "release">>
             /\ todo'[t] = <<"notify", "close", "release", "release">>
    BY <2>2
    DEF Plans, ChainPlans, ClosePlans, Chained, Posting, Counted, Entering,
        Closing, Telling, Losing, Releasing, Flagged, Checked
  <2>3. CASE todo[t] = <<"flag", "release">> /\ todo'[t] = <<"release">>
    BY <2>3
    DEF Plans, ChainPlans, ClosePlans, Chained, Posting, Counted, Entering,
        Closing, Telling, Losing, Releasing, Flagged, Checked
  <2>4. CASE /\ todo[t] = <<"flag", "release", "release">>
             /\ todo'[t] = <<"release", "release">>
    BY <2>4
    DEF Plans, ChainPlans, ClosePlans, Chained, Posting, Counted, Entering,
        Closing, Telling, Losing, Releasing, Flagged, Checked
  <2> QED
    BY <1>now, <2>1, <2>2, <2>3, <2>4
<1>rest. /\ \A u \in Threads : u # t => todo'[u] = todo[u]
         /\ todo' \in [Threads -> Plans]
         /\ Iocp \subseteq Threads /\ Callers \subseteq Threads
         /\ t \in Callers => t \notin Iocp
  BY <1>todo, <1>new, RolesAssumption DEF PlanInv, Threads
<1>frame. /\ disconnecting' = TRUE
          /\ UNCHANGED <<isConnected, released, recvPendingCnt, owner,
                          socket, hasManager, active, pooled, kernel,
                          ref, bytes, told, conn, calls, stale, robbed>>
  BY <1>plan DEF Flag, flags, refs, resetFields, history
<1>TypeOK. TypeOK'
  BY <1>plan, <1>old, <1>new, <1>rest, <1>frame, Nested, PlansAreLists
  DEF TypeOK
<1>PlanInv. PlanInv'
  BY <1>plan, <1>old, <1>new, <1>rest, <1>frame, Nested
  DEF PlanInv, Busy
<1>ChainInv. ChainInv'
  BY <1>plan, <1>old, <1>new, <1>rest, <1>frame, Nested
  DEF ChainInv, Busy
<1>PoolInv. PoolInv'
  BY <1>plan, <1>old, <1>new, <1>rest, <1>frame
  DEF PoolInv
<1>CloseInv. CloseInv'
  BY <1>plan, <1>old, <1>new, <1>rest, <1>frame, Nested
  DEF CloseInv
<1>ReleaseInv. ReleaseInv'
  BY <1>plan, <1>old, <1>new, <1>rest, <1>frame, Nested
  DEF ReleaseInv
<1> QED
  BY <1>TypeOK, <1>PlanInv, <1>ChainInv, <1>PoolInv, <1>CloseInv,
     <1>ReleaseInv DEF LifeInv

LEMMA NotifyKeeps ==
    ASSUME LifeInv, NEW t \in Threads, Notify(t)
    PROVE  LifeInv'
<1> USE DEF LifeInv
<1>at. At(t, "notify")
  BY DEF Notify
<1>plan. /\ \/ todo[t] = <<"notify", "close", "release">>
            \/ todo[t] = <<"notify", "close", "release", "release">>
         /\ Busy(t) /\ ref[t]
  BY <1>at, AtPlan, Heads DEF ChainPlans, Posting, Counted, Dequeued,
     Entering, Losing, Releasing, Checked
<1>todo. \/ todo[t] = <<"notify", "close", "release">>
            /\ todo' = [todo EXCEPT ![t] = <<"close", "release">>]
         \/ todo[t] = <<"notify", "close", "release", "release">>
            /\ todo' = [todo EXCEPT ![t] = <<"close", "release", "release">>]
  <2>1. CASE todo[t] = <<"notify", "close", "release">>
    <3>1. Tail(todo[t]) = <<"close", "release">>
      BY <2>1
    <3>2. Then(t, <<>>)
      BY DEF Notify
    <3> QED
      BY <2>1, <3>1, <3>2, ThenNothing, Bodies
  <2>2. CASE todo[t] = <<"notify", "close", "release", "release">>
    <3>1. Tail(todo[t]) = <<"close", "release", "release">>
      BY <2>2
    <3>2. Then(t, <<>>)
      BY DEF Notify
    <3> QED
      BY <2>2, <3>1, <3>2, ThenNothing, Bodies
  <2> QED
    BY <1>plan, <2>1, <2>2
<1>old. /\ todo[t] \in Telling
        /\ todo[t] \notin Chained \cup Losing \cup Flagged
        /\ todo[t] # <<>>
  <2>1. CASE todo[t] = <<"notify", "close", "release">>
    BY <2>1
    DEF ChainPlans, Chained, Posting, Counted, Telling, Losing, Flagged,
        Checked
  <2>2. CASE todo[t] = <<"notify", "close", "release", "release">>
    BY <2>2
    DEF ChainPlans, Chained, Posting, Counted, Telling, Losing, Flagged,
        Checked
  <2> QED
    BY <1>plan, <2>1, <2>2
<1>now. \/ todo[t] = <<"notify", "close", "release">>
           /\ todo'[t] = <<"close", "release">>
        \/ todo[t] = <<"notify", "close", "release", "release">>
           /\ todo'[t] = <<"close", "release", "release">>
  BY <1>todo DEF PlanInv
<1>new. /\ todo'[t] \in Plans
        /\ todo'[t] \in Closing
        /\ todo'[t] \notin Chained \cup Telling \cup Losing \cup
                              Flagged
        /\ todo'[t] # <<>>
  <2>1. CASE /\ todo[t] = <<"notify", "close", "release">>
             /\ todo'[t] = <<"close", "release">>
    BY <2>1
    DEF Plans, ChainPlans, ClosePlans, Chained, Posting, Counted, Entering,
        Closing, Telling, Losing, Releasing, Flagged, Checked
  <2>2. CASE /\ todo[t] = <<"notify", "close", "release", "release">>
             /\ todo'[t] = <<"close", "release", "release">>
    BY <2>2
    DEF Plans, ChainPlans, ClosePlans, Chained, Posting, Counted, Entering,
        Closing, Telling, Losing, Releasing, Flagged, Checked
  <2> QED
    BY <1>now, <2>1, <2>2
<1>rest. /\ \A u \in Threads : u # t => todo'[u] = todo[u]
         /\ todo' \in [Threads -> Plans]
         /\ Iocp \subseteq Threads /\ Callers \subseteq Threads
         /\ t \in Callers => t \notin Iocp
  BY <1>todo, <1>new, RolesAssumption DEF PlanInv, Threads
<1>frame. /\ told' = told + 1
          /\ UNCHANGED <<isConnected, disconnecting, released,
                          recvPendingCnt, owner, socket, hasManager,
                          active, pooled, kernel, ref, bytes, conn,
                          calls, stale, robbed>>
  BY <1>plan DEF Notify, flags, refs, resetFields, history
<1>TypeOK. TypeOK'
  BY <1>plan, <1>old, <1>new, <1>rest, <1>frame, Nested, PlansAreLists
  DEF TypeOK
<1>PlanInv. PlanInv'
  BY <1>plan, <1>old, <1>new, <1>rest, <1>frame, Nested
  DEF PlanInv, Busy
<1>ChainInv. ChainInv'
  BY <1>plan, <1>old, <1>new, <1>rest, <1>frame, Nested
  DEF ChainInv, Busy
<1>PoolInv. PoolInv'
  BY <1>plan, <1>old, <1>new, <1>rest, <1>frame
  DEF PoolInv
<1>CloseInv. CloseInv'
  BY <1>plan, <1>old, <1>new, <1>rest, <1>frame, Nested
  DEF CloseInv
<1>ReleaseInv. ReleaseInv'
  BY <1>plan, <1>old, <1>new, <1>rest, <1>frame, Nested
  DEF ReleaseInv
<1> QED
  BY <1>TypeOK, <1>PlanInv, <1>ChainInv, <1>PoolInv, <1>CloseInv,
     <1>ReleaseInv DEF LifeInv

LEMMA CloseKeeps ==
    ASSUME LifeInv, NEW t \in Threads, Close(t)
    PROVE  LifeInv'
<1> USE DEF LifeInv
<1>at. At(t, "close")
  BY DEF Close
<1>plan. /\ \/ todo[t] = <<"close", "release">>
            \/ todo[t] = <<"close", "release", "release">>
         /\ Busy(t) /\ ref[t]
  BY <1>at, AtPlan, Heads DEF ChainPlans, Posting, Counted, Dequeued,
     Entering, Losing, Releasing, Checked
<1>todo. \/ todo[t] = <<"close", "release">>
            /\ todo' = [todo EXCEPT ![t] = <<"release">>]
         \/ todo[t] = <<"close", "release", "release">>
            /\ todo' = [todo EXCEPT ![t] = <<"release", "release">>]
  <2>1. CASE todo[t] = <<"close", "release">>
    <3>1. Tail(todo[t]) = <<"release">>
      BY <2>1
    <3>2. Then(t, <<>>)
      BY DEF Close
    <3> QED
      BY <2>1, <3>1, <3>2, ThenNothing, Bodies
  <2>2. CASE todo[t] = <<"close", "release", "release">>
    <3>1. Tail(todo[t]) = <<"release", "release">>
      BY <2>2
    <3>2. Then(t, <<>>)
      BY DEF Close
    <3> QED
      BY <2>2, <3>1, <3>2, ThenNothing, Bodies
  <2> QED
    BY <1>plan, <2>1, <2>2
<1>old. /\ todo[t] \in Closing
        /\ todo[t] \notin Chained \cup Telling \cup Losing \cup Flagged
        /\ todo[t] # <<>>
  <2>1. CASE todo[t] = <<"close", "release">>
    BY <2>1
    DEF ChainPlans, Chained, Posting, Counted, Closing, Telling, Losing,
        Flagged, Checked
  <2>2. CASE todo[t] = <<"close", "release", "release">>
    BY <2>2
    DEF ChainPlans, Chained, Posting, Counted, Closing, Telling, Losing,
        Flagged, Checked
  <2> QED
    BY <1>plan, <2>1, <2>2
<1>now. \/ todo[t] = <<"close", "release">> /\ todo'[t] = <<"release">>
        \/ todo[t] = <<"close", "release", "release">>
           /\ todo'[t] = <<"release", "release">>
  BY <1>todo DEF PlanInv
<1>new. /\ todo'[t] \in Plans
        /\ todo'[t] \notin Chained \cup Closing \cup Losing \cup
                              Flagged
        /\ todo'[t] # <<>>
  <2>1. CASE todo[t] = <<"close", "release">> /\ todo'[t] = <<"release">>
    BY <2>1
    DEF Plans, ChainPlans, ClosePlans, Chained, Posting, Counted, Entering,
        Closing, Telling, Losing, Releasing, Flagged, Checked
  <2>2. CASE /\ todo[t] = <<"close", "release", "release">>
             /\ todo'[t] = <<"release", "release">>
    BY <2>2
    DEF Plans, ChainPlans, ClosePlans, Chained, Posting, Counted, Entering,
        Closing, Telling, Losing, Releasing, Flagged, Checked
  <2> QED
    BY <1>now, <2>1, <2>2
<1>rest. /\ \A u \in Threads : u # t => todo'[u] = todo[u]
         /\ todo' \in [Threads -> Plans]
         /\ Iocp \subseteq Threads /\ Callers \subseteq Threads
         /\ t \in Callers => t \notin Iocp
  BY <1>todo, <1>new, RolesAssumption DEF PlanInv, Threads
<1>frame. /\ socket' = FALSE
          /\ UNCHANGED <<isConnected, disconnecting, released,
                          recvPendingCnt, owner, hasManager, active,
                          pooled, kernel, ref, bytes, told, conn,
                          calls, stale, robbed>>
  BY <1>plan DEF Close, flags, refs, resetFields, history
<1>TypeOK. TypeOK'
  BY <1>plan, <1>old, <1>new, <1>rest, <1>frame, Nested, PlansAreLists
  DEF TypeOK
<1>PlanInv. PlanInv'
  BY <1>plan, <1>old, <1>new, <1>rest, <1>frame, Nested
  DEF PlanInv, Busy
<1>ChainInv. ChainInv'
  BY <1>plan, <1>old, <1>new, <1>rest, <1>frame, Nested
  DEF ChainInv, Busy
<1>PoolInv. PoolInv'
  BY <1>plan, <1>old, <1>new, <1>rest, <1>frame
  DEF PoolInv
<1>CloseInv. CloseInv'
  BY <1>plan, <1>old, <1>new, <1>rest, <1>frame, Nested
  DEF CloseInv
<1>ReleaseInv. ReleaseInv'
  BY <1>plan, <1>old, <1>new, <1>rest, <1>frame, Nested
  DEF ReleaseInv
<1> QED
  BY <1>TypeOK, <1>PlanInv, <1>ChainInv, <1>PoolInv, <1>CloseInv,
     <1>ReleaseInv DEF LifeInv

LEMMA ReleaseKeeps ==
    ASSUME LifeInv, NEW t \in Threads, Release(t)
    PROVE  LifeInv'
<1> USE DEF LifeInv
<1>at. At(t, "release")
  BY DEF Release
<1>plan. /\ \/ todo[t] = <<"release">>
            \/ todo[t] = <<"release", "release">>
         /\ Busy(t) /\ ref[t]
  BY <1>at, AtPlan, Heads DEF ChainPlans, Posting, Counted, Dequeued,
     Entering, Losing, Releasing, Checked
<1>todo. \/ todo[t] = <<"release">> /\ (~disconnecting \/ released)
            /\ todo' = [todo EXCEPT ![t] = <<>>]
         \/ todo[t] = <<"release">> /\ ~(~disconnecting \/ released)
            /\ todo' = [todo EXCEPT ![t] = <<"pending">>]
         \/ todo[t] = <<"release", "release">> /\ (~disconnecting \/ released)
            /\ todo' = [todo EXCEPT ![t] = <<"release">>]
         \/ todo[t] = <<"release", "release">> /\ ~(~disconnecting \/ released)
            /\ todo' = [todo EXCEPT ![t] = <<"pending", "release">>]
  <2>1. CASE todo[t] = <<"release">>
    <3>1. Tail(todo[t]) = <<>>
      BY <2>1
    <3> QED
      BY <2>1, ThenLast, Bodies DEF Release
  <2>2. CASE todo[t] = <<"release", "release">>
    <3>1. Tail(todo[t]) = <<"release">>
      BY <2>2
    <3>2. ASSUME (~disconnecting \/ released)
          PROVE  todo' = [todo EXCEPT ![t] = <<"release">>]
      <4>1. Then(t, <<>>)
        BY <3>2 DEF Release
      <4> QED
        BY <3>1, <4>1, ThenNothing, Bodies
    <3>3. ASSUME ~(~disconnecting \/ released)
          PROVE  todo' = [todo EXCEPT ![t] = <<"pending", "release">>]
      <4>1. Then(t, <<"pending">>)
        BY <3>3 DEF Release
      <4>2. todo' = [todo EXCEPT ![t] = <<"pending">> \o <<"release">>]
        BY <3>1, <4>1, ThenRelease
      <4> QED
        BY <4>2, Calls
    <3> QED
      BY <2>2, <3>2, <3>3
  <2> QED
    BY <1>plan, <2>1, <2>2
<1>old. /\ todo[t] \notin Chained \cup Closing \cup Losing \cup Flagged
        /\ todo[t] # <<>>
  <2>1. CASE todo[t] = <<"release">>
    BY <2>1
    DEF ChainPlans, Chained, Posting, Counted, Closing, Telling, Losing,
        Flagged, Checked
  <2>2. CASE todo[t] = <<"release", "release">>
    BY <2>2
    DEF ChainPlans, Chained, Posting, Counted, Closing, Telling, Losing,
        Flagged, Checked
  <2> QED
    BY <1>plan, <2>1, <2>2
<1>now. \/ (~disconnecting \/ released) /\ todo[t] = <<"release">>
           /\ todo'[t] = <<>>
        \/ (~disconnecting \/ released) /\ todo[t] = <<"release", "release">>
           /\ todo'[t] = <<"release">>
        \/ ~(~disconnecting \/ released) /\ todo[t] = <<"release">>
           /\ todo'[t] = <<"pending">>
        \/ ~(~disconnecting \/ released) /\ todo[t] = <<"release", "release">>
           /\ todo'[t] = <<"pending", "release">>
  BY <1>todo DEF PlanInv
<1>new. \/ /\ (~disconnecting \/ released)
           /\ todo[t] \notin Chained \cup Closing \cup Losing \cup
                                Flagged
           /\ todo'[t] \in Plans
           /\ todo'[t] \notin Chained \cup Closing \cup Losing \cup
                                 Flagged
           /\ todo'[t] = <<>>
        \/ /\ (~disconnecting \/ released)
           /\ todo[t] \notin Chained \cup Closing \cup Losing \cup
                                Flagged
           /\ todo'[t] \in Plans
           /\ todo'[t] \notin Chained \cup Closing \cup Losing \cup
                                 Flagged
           /\ todo'[t] # <<>>
        \/ /\ ~(~disconnecting \/ released)
           /\ todo[t] \notin Chained \cup Closing \cup Losing \cup
                                Flagged
           /\ todo'[t] \in Plans
           /\ todo'[t] \in Flagged
           /\ todo'[t] \notin Chained \cup Closing \cup Losing \cup
                                 Checked
           /\ todo'[t] # <<>>
  <2>1. CASE /\ (~disconnecting \/ released) /\ todo[t] = <<"release">>
             /\ todo'[t] = <<>>
    BY <2>1
    DEF Plans, ChainPlans, ClosePlans, Chained, Posting, Counted, Entering,
        Closing, Telling, Losing, Releasing, Flagged, Checked
  <2>2. CASE /\ (~disconnecting \/ released) /\ todo[t] = <<"release", "release">>
             /\ todo'[t] = <<"release">>
    BY <2>2
    DEF Plans, ChainPlans, ClosePlans, Chained, Posting, Counted, Entering,
        Closing, Telling, Losing, Releasing, Flagged, Checked
  <2>3. CASE /\ ~(~disconnecting \/ released) /\ todo[t] = <<"release">>
             /\ todo'[t] = <<"pending">>
    BY <2>3
    DEF Plans, ChainPlans, ClosePlans, Chained, Posting, Counted, Entering,
        Closing, Telling, Losing, Releasing, Flagged, Checked
  <2>4. CASE /\ ~(~disconnecting \/ released) /\ todo[t] = <<"release", "release">>
             /\ todo'[t] = <<"pending", "release">>
    BY <2>4
    DEF Plans, ChainPlans, ClosePlans, Chained, Posting, Counted, Entering,
        Closing, Telling, Losing, Releasing, Flagged, Checked
  <2> QED
    BY <1>now, <2>1, <2>2, <2>3, <2>4
<1>rest. /\ \A u \in Threads : u # t => todo'[u] = todo[u]
         /\ todo' \in [Threads -> Plans]
         /\ Iocp \subseteq Threads /\ Callers \subseteq Threads
         /\ t \in Callers => t \notin Iocp
  BY <1>todo, <1>new, RolesAssumption DEF PlanInv, Threads
<1>frame. /\ UNCHANGED <<isConnected, disconnecting, released,
                          recvPendingCnt, owner, socket, hasManager,
                          active, pooled, kernel, ref, bytes, told, conn,
                          calls, stale, robbed>>
  BY <1>plan DEF Release, flags, refs, resetFields, history
<1>TypeOK. TypeOK'
  BY <1>plan, <1>old, <1>new, <1>rest, <1>frame, Nested, PlansAreLists
  DEF TypeOK
<1>PlanInv. PlanInv'
  BY <1>plan, <1>old, <1>new, <1>rest, <1>frame, Nested
  DEF PlanInv, Busy
<1>ChainInv. ChainInv'
  BY <1>plan, <1>old, <1>new, <1>rest, <1>frame, Nested
  DEF ChainInv, Busy
<1>PoolInv. PoolInv'
  BY <1>plan, <1>old, <1>new, <1>rest, <1>frame
  DEF PoolInv
<1>CloseInv. CloseInv'
  BY <1>plan, <1>old, <1>new, <1>rest, <1>frame, Nested
  DEF CloseInv
<1>ReleaseInv. ReleaseInv'
  BY <1>plan, <1>old, <1>new, <1>rest, <1>frame, Nested
  DEF ReleaseInv
<1> QED
  BY <1>TypeOK, <1>PlanInv, <1>ChainInv, <1>PoolInv, <1>CloseInv,
     <1>ReleaseInv DEF LifeInv

LEMMA CheckPendingKeeps ==
    ASSUME LifeInv, NEW t \in Threads, CheckPending(t)
    PROVE  LifeInv'
<1> USE DEF LifeInv
<1>at. At(t, "pending")
  BY DEF CheckPending
<1>plan. /\ \/ todo[t] = <<"pending">>
            \/ todo[t] = <<"pending", "release">>
         /\ Busy(t) /\ ref[t]
  BY <1>at, AtPlan, Heads DEF ChainPlans, Posting, Counted, Dequeued,
     Entering, Losing, Releasing, Checked
<1>todo. \/ todo[t] = <<"pending">> /\ recvPendingCnt # 0
            /\ todo' = [todo EXCEPT ![t] = <<>>]
         \/ todo[t] = <<"pending">> /\ recvPendingCnt = 0
            /\ todo' = [todo EXCEPT ![t] = <<"reset", "erase">>]
         \/ todo[t] = <<"pending", "release">> /\ recvPendingCnt # 0
            /\ todo' = [todo EXCEPT ![t] = <<"release">>]
         \/ todo[t] = <<"pending", "release">> /\ recvPendingCnt = 0
            /\ todo' = [todo EXCEPT ![t] = <<"reset", "erase", "release">>]
  <2>1. CASE todo[t] = <<"pending">>
    <3>1. Tail(todo[t]) = <<>>
      BY <2>1
    <3> QED
      BY <2>1, ThenLast, Bodies DEF CheckPending
  <2>2. CASE todo[t] = <<"pending", "release">>
    <3>1. Tail(todo[t]) = <<"release">>
      BY <2>2
    <3>2. ASSUME recvPendingCnt # 0
          PROVE  todo' = [todo EXCEPT ![t] = <<"release">>]
      <4>1. Then(t, <<>>)
        BY <3>2 DEF CheckPending
      <4> QED
        BY <3>1, <4>1, ThenNothing, Bodies
    <3>3. ASSUME recvPendingCnt = 0
          PROVE  todo' = [todo EXCEPT ![t] = <<"reset", "erase", "release">>]
      <4>1. Then(t, <<"reset", "erase">>)
        BY <3>3 DEF CheckPending
      <4>2. todo' = [todo EXCEPT ![t] = <<"reset", "erase">> \o <<"release">>]
        BY <3>1, <4>1, ThenRelease
      <4> QED
        BY <4>2, Calls
    <3> QED
      BY <2>2, <3>2, <3>3
  <2> QED
    BY <1>plan, <2>1, <2>2
<1>old. /\ todo[t] \in Flagged
        /\ todo[t] \notin Chained \cup Closing \cup Losing \cup Checked
        /\ todo[t] # <<>>
  <2>1. CASE todo[t] = <<"pending">>
    BY <2>1
    DEF ChainPlans, Chained, Posting, Counted, Closing, Telling, Losing,
        Flagged, Checked
  <2>2. CASE todo[t] = <<"pending", "release">>
    BY <2>2
    DEF ChainPlans, Chained, Posting, Counted, Closing, Telling, Losing,
        Flagged, Checked
  <2> QED
    BY <1>plan, <2>1, <2>2
<1>now. \/ recvPendingCnt # 0 /\ todo[t] = <<"pending">> /\ todo'[t] = <<>>
        \/ recvPendingCnt # 0 /\ todo[t] = <<"pending", "release">>
           /\ todo'[t] = <<"release">>
        \/ recvPendingCnt = 0 /\ todo[t] = <<"pending">>
           /\ todo'[t] = <<"reset", "erase">>
        \/ recvPendingCnt = 0 /\ todo[t] = <<"pending", "release">>
           /\ todo'[t] = <<"reset", "erase", "release">>
  BY <1>todo DEF PlanInv
<1>new. \/ /\ recvPendingCnt # 0
           /\ todo[t] \in Flagged
           /\ todo[t] \notin Chained \cup Closing \cup Losing \cup
                                Checked
           /\ todo'[t] \in Plans
           /\ todo'[t] \notin Chained \cup Closing \cup Losing \cup
                                 Flagged
           /\ todo'[t] = <<>>
        \/ /\ recvPendingCnt # 0
           /\ todo[t] \in Flagged
           /\ todo[t] \notin Chained \cup Closing \cup Losing \cup
                                Checked
           /\ todo'[t] \in Plans
           /\ todo'[t] \notin Chained \cup Closing \cup Losing \cup
                                 Flagged
           /\ todo'[t] # <<>>
        \/ /\ recvPendingCnt = 0
           /\ todo[t] \in Flagged
           /\ todo[t] \notin Chained \cup Closing \cup Losing \cup
                                Checked
           /\ todo'[t] \in Plans
           /\ todo'[t] \in Checked
           /\ todo'[t] \notin Chained \cup Closing \cup Losing
           /\ todo'[t] # <<>>
  <2>1. CASE recvPendingCnt # 0 /\ todo[t] = <<"pending">> /\ todo'[t] = <<>>
    BY <2>1
    DEF Plans, ChainPlans, ClosePlans, Chained, Posting, Counted, Entering,
        Closing, Telling, Losing, Releasing, Flagged, Checked
  <2>2. CASE /\ recvPendingCnt # 0 /\ todo[t] = <<"pending", "release">>
             /\ todo'[t] = <<"release">>
    BY <2>2
    DEF Plans, ChainPlans, ClosePlans, Chained, Posting, Counted, Entering,
        Closing, Telling, Losing, Releasing, Flagged, Checked
  <2>3. CASE /\ recvPendingCnt = 0 /\ todo[t] = <<"pending">>
             /\ todo'[t] = <<"reset", "erase">>
    BY <2>3
    DEF Plans, ChainPlans, ClosePlans, Chained, Posting, Counted, Entering,
        Closing, Telling, Losing, Releasing, Flagged, Checked
  <2>4. CASE /\ recvPendingCnt = 0 /\ todo[t] = <<"pending", "release">>
             /\ todo'[t] = <<"reset", "erase", "release">>
    BY <2>4
    DEF Plans, ChainPlans, ClosePlans, Chained, Posting, Counted, Entering,
        Closing, Telling, Losing, Releasing, Flagged, Checked
  <2> QED
    BY <1>now, <2>1, <2>2, <2>3, <2>4
<1>rest. /\ \A u \in Threads : u # t => todo'[u] = todo[u]
         /\ todo' \in [Threads -> Plans]
         /\ Iocp \subseteq Threads /\ Callers \subseteq Threads
         /\ t \in Callers => t \notin Iocp
  BY <1>todo, <1>new, RolesAssumption DEF PlanInv, Threads
<1>frame. /\ UNCHANGED <<isConnected, disconnecting, released,
                          recvPendingCnt, owner, socket, hasManager,
                          active, pooled, kernel, ref, bytes, told, conn,
                          calls, stale, robbed>>
  BY <1>plan DEF CheckPending, flags, refs, resetFields, history
<1>TypeOK. TypeOK'
  BY <1>plan, <1>old, <1>new, <1>rest, <1>frame, Nested, PlansAreLists
  DEF TypeOK
<1>PlanInv. PlanInv'
  BY <1>plan, <1>old, <1>new, <1>rest, <1>frame, Nested
  DEF PlanInv, Busy
<1>ChainInv. ChainInv'
  BY <1>plan, <1>old, <1>new, <1>rest, <1>frame, Nested
  DEF ChainInv, Busy
<1>PoolInv. PoolInv'
  BY <1>plan, <1>old, <1>new, <1>rest, <1>frame
  DEF PoolInv
<1>CloseInv. CloseInv'
  BY <1>plan, <1>old, <1>new, <1>rest, <1>frame, Nested
  DEF CloseInv
<1>ReleaseInv. ReleaseInv'
  BY <1>plan, <1>old, <1>new, <1>rest, <1>frame, Nested
  DEF ReleaseInv
<1> QED
  BY <1>TypeOK, <1>PlanInv, <1>ChainInv, <1>PoolInv, <1>CloseInv,
     <1>ReleaseInv DEF LifeInv

LEMMA ResetOwnerKeeps ==
    ASSUME LifeInv, NEW t \in Threads, ResetOwner(t), ~robbed'
    PROVE  LifeInv'
<1> USE DEF LifeInv
<1>at. At(t, "reset")
  BY DEF ResetOwner
<1>plan. /\ \/ todo[t] = <<"reset", "erase">>
            \/ todo[t] = <<"reset", "erase", "release">>
         /\ Busy(t) /\ ref[t]
  BY <1>at, AtPlan, Heads DEF ChainPlans, Posting, Counted, Dequeued,
     Entering, Losing, Releasing, Checked
<1>todo. \/ todo[t] = <<"reset", "erase">>
            /\ todo' = [todo EXCEPT ![t] = <<"erase">>]
         \/ todo[t] = <<"reset", "erase", "release">>
            /\ todo' = [todo EXCEPT ![t] = <<"erase", "release">>]
  <2>1. CASE todo[t] = <<"reset", "erase">>
    <3>1. Tail(todo[t]) = <<"erase">>
      BY <2>1
    <3>2. Then(t, <<>>)
      BY DEF ResetOwner
    <3> QED
      BY <2>1, <3>1, <3>2, ThenNothing, Bodies
  <2>2. CASE todo[t] = <<"reset", "erase", "release">>
    <3>1. Tail(todo[t]) = <<"erase", "release">>
      BY <2>2
    <3>2. Then(t, <<>>)
      BY DEF ResetOwner
    <3> QED
      BY <2>2, <3>1, <3>2, ThenNothing, Bodies
  <2> QED
    BY <1>plan, <2>1, <2>2
<1>old. /\ todo[t] \in Checked
        /\ todo[t] \notin Chained \cup Closing \cup Losing
        /\ todo[t] # <<>>
  <2>1. CASE todo[t] = <<"reset", "erase">>
    BY <2>1
    DEF ChainPlans, Chained, Posting, Counted, Closing, Telling, Losing,
        Checked
  <2>2. CASE todo[t] = <<"reset", "erase", "release">>
    BY <2>2
    DEF ChainPlans, Chained, Posting, Counted, Closing, Telling, Losing,
        Checked
  <2> QED
    BY <1>plan, <2>1, <2>2
<1>now. \/ todo[t] = <<"reset", "erase">> /\ todo'[t] = <<"erase">>
        \/ todo[t] = <<"reset", "erase", "release">>
           /\ todo'[t] = <<"erase", "release">>
  BY <1>todo DEF PlanInv
<1>new. /\ todo'[t] \in Plans
        /\ todo'[t] \in Flagged
        /\ todo'[t] \notin Chained \cup Closing \cup Losing \cup
                              Checked
        /\ todo'[t] # <<>>
  <2>1. CASE todo[t] = <<"reset", "erase">> /\ todo'[t] = <<"erase">>
    BY <2>1
    DEF Plans, ChainPlans, ClosePlans, Chained, Posting, Counted, Entering,
        Closing, Telling, Losing, Releasing, Flagged, Checked
  <2>2. CASE /\ todo[t] = <<"reset", "erase", "release">>
             /\ todo'[t] = <<"erase", "release">>
    BY <2>2
    DEF Plans, ChainPlans, ClosePlans, Chained, Posting, Counted, Entering,
        Closing, Telling, Losing, Releasing, Flagged, Checked
  <2> QED
    BY <1>now, <2>1, <2>2
<1>rest. /\ \A u \in Threads : u # t => todo'[u] = todo[u]
         /\ todo' \in [Threads -> Plans]
         /\ Iocp \subseteq Threads /\ Callers \subseteq Threads
         /\ t \in Callers => t \notin Iocp
  BY <1>todo, <1>new, RolesAssumption DEF PlanInv, Threads
<1>needless. owner => ~NeedsOwner
  <2> SUFFICES ASSUME owner, NeedsOwner PROVE FALSE
    OBVIOUS
  <2>1. t \notin stale /\ \A u \in Threads : ~At(u, "count")
    BY DEF ResetOwner, Robs
  <2>2. kernel = 0 /\ \A u \in Iocp : todo[u] \notin Counted
    BY <2>1, <1>old DEF ReleaseInv, ChainInv
  <2>3. PICK u \in Threads : At(u, "move") \/ At(u, "recv")
    BY <2>1, <2>2 DEF NeedsOwner
  <2>4. todo[u] \in Counted /\ u \in Iocp
    BY <2>3, AtPlan, Heads DEF ChainPlans, Counted
  <2> QED
    BY <2>2, <2>4
<1>checked. owner =>
               /\ kernel = 0
               /\ \A u \in Iocp : /\ todo[u] \notin Dequeued
                                  /\ todo[u] \in Ready => ~socket
  <2> SUFFICES ASSUME owner PROVE
               /\ kernel = 0
               /\ \A u \in Iocp : /\ todo[u] \notin Dequeued
                                  /\ todo[u] \in Ready => ~socket
    OBVIOUS
  <2>1. kernel = 0
    BY <1>needless DEF NeedsOwner, ChainInv
  <2>2. ASSUME NEW u \in Iocp
        PROVE  /\ todo[u] \in Dequeued => At(u, "move")
               /\ todo[u] \in Ready => At(u, "count") \/ At(u, "recv")
    BY DEF Dequeued, Ready, At
  <2> QED
    BY <2>1, <2>2, <1>needless, <1>rest DEF NeedsOwner
<1>frame. /\ owner' = FALSE
          /\ stale' = stale \ {t} /\ robbed' \in BOOLEAN
          /\ UNCHANGED <<isConnected, disconnecting, released,
                          recvPendingCnt, socket, hasManager, active,
                          pooled, kernel, ref, bytes, told, conn, calls>>
  <2>1. robbed' = FALSE
    BY DEF ResetOwner, Robs, TypeOK
  <2> QED
    BY <2>1, <1>plan, HoldKept DEF ResetOwner, flags, resetFields
<1>TypeOK. TypeOK'
  BY <1>plan, <1>old, <1>new, <1>rest, <1>frame, Nested, PlansAreLists
  DEF TypeOK
<1>PlanInv. PlanInv'
  BY <1>plan, <1>old, <1>new, <1>rest, <1>frame, Nested
  DEF PlanInv, Busy
<1>ChainInv. ChainInv'
  BY <1>plan, <1>old, <1>new, <1>rest, <1>frame, Nested, <1>checked
  DEF ChainInv, Busy
<1>PoolInv. PoolInv'
  BY <1>plan, <1>old, <1>new, <1>rest, <1>frame
  DEF PoolInv
<1>CloseInv. CloseInv'
  BY <1>plan, <1>old, <1>new, <1>rest, <1>frame, Nested
  DEF CloseInv
<1>ReleaseInv. ReleaseInv'
  BY <1>plan, <1>old, <1>new, <1>rest, <1>frame, Nested
  DEF ReleaseInv
<1> QED
  BY <1>TypeOK, <1>PlanInv, <1>ChainInv, <1>PoolInv, <1>CloseInv,
     <1>ReleaseInv DEF LifeInv

LEMMA EraseKeeps ==
    ASSUME LifeInv, NEW t \in Threads, Erase(t)
    PROVE  LifeInv'
<1> USE DEF LifeInv
<1>at. At(t, "erase")
  BY DEF Erase
<1>plan. /\ \/ todo[t] = <<"erase">>
            \/ todo[t] = <<"erase", "release">>
         /\ Busy(t) /\ ref[t]
  BY <1>at, AtPlan, Heads DEF ChainPlans, Posting, Counted, Dequeued,
     Entering, Losing, Releasing, Checked
<1>todo. \/ todo[t] = <<"erase">>
            /\ todo' = [todo EXCEPT ![t] = <<>>]
         \/ todo[t] = <<"erase", "release">>
            /\ todo' = [todo EXCEPT ![t] = <<"release">>]
  <2>1. CASE todo[t] = <<"erase">>
    <3>1. Tail(todo[t]) = <<>>
      BY <2>1
    <3>2. Then(t, <<>>)
      BY DEF Erase
    <3> QED
      BY <2>1, <3>1, <3>2, ThenNothing, Bodies
  <2>2. CASE todo[t] = <<"erase", "release">>
    <3>1. Tail(todo[t]) = <<"release">>
      BY <2>2
    <3>2. Then(t, <<>>)
      BY DEF Erase
    <3> QED
      BY <2>2, <3>1, <3>2, ThenNothing, Bodies
  <2> QED
    BY <1>plan, <2>1, <2>2
<1>old. /\ todo[t] \in Flagged
        /\ todo[t] \notin Chained \cup Closing \cup Losing \cup Checked
        /\ todo[t] # <<>>
  <2>1. CASE todo[t] = <<"erase">>
    BY <2>1
    DEF ChainPlans, Chained, Posting, Counted, Closing, Telling, Losing,
        Flagged, Checked
  <2>2. CASE todo[t] = <<"erase", "release">>
    BY <2>2
    DEF ChainPlans, Chained, Posting, Counted, Closing, Telling, Losing,
        Flagged, Checked
  <2> QED
    BY <1>plan, <2>1, <2>2
<1>now. \/ todo[t] = <<"erase">> /\ todo'[t] = <<>>
        \/ todo[t] = <<"erase", "release">> /\ todo'[t] = <<"release">>
  BY <1>todo DEF PlanInv
<1>new. \/ /\ todo[t] \in Flagged
           /\ todo[t] \notin Chained \cup Closing \cup Losing \cup
                                Checked
           /\ todo'[t] \in Plans
           /\ todo'[t] \notin Chained \cup Closing \cup Losing \cup
                                 Flagged
           /\ todo'[t] = <<>>
        \/ /\ todo[t] \in Flagged
           /\ todo[t] \notin Chained \cup Closing \cup Losing \cup
                                Checked
           /\ todo'[t] \in Plans
           /\ todo'[t] \notin Chained \cup Closing \cup Losing \cup
                                 Flagged
           /\ todo'[t] # <<>>
  <2>1. CASE todo[t] = <<"erase">> /\ todo'[t] = <<>>
    BY <2>1
    DEF Plans, ChainPlans, ClosePlans, Chained, Posting, Counted, Entering,
        Closing, Telling, Losing, Releasing, Flagged, Checked
  <2>2. CASE todo[t] = <<"erase", "release">> /\ todo'[t] = <<"release">>
    BY <2>2
    DEF Plans, ChainPlans, ClosePlans, Chained, Posting, Counted, Entering,
        Closing, Telling, Losing, Releasing, Flagged, Checked
  <2> QED
    BY <1>now, <2>1, <2>2
<1>rest. /\ \A u \in Threads : u # t => todo'[u] = todo[u]
         /\ todo' \in [Threads -> Plans]
         /\ Iocp \subseteq Threads /\ Callers \subseteq Threads
         /\ t \in Callers => t \notin Iocp
  BY <1>todo, <1>new, RolesAssumption DEF PlanInv, Threads
<1>frame. /\ active' = (active /\ ~hasManager)
          /\ UNCHANGED <<isConnected, disconnecting, released,
                          recvPendingCnt, owner, socket, hasManager,
                          pooled, kernel, ref, bytes, told, conn,
                          calls, stale, robbed>>
  BY <1>plan, HoldKept DEF Erase, flags, resetFields, history
<1>TypeOK. TypeOK'
  BY <1>plan, <1>old, <1>new, <1>rest, <1>frame, Nested, PlansAreLists
  DEF TypeOK
<1>PlanInv. PlanInv'
  BY <1>plan, <1>old, <1>new, <1>rest, <1>frame, Nested
  DEF PlanInv, Busy
<1>ChainInv. ChainInv'
  BY <1>plan, <1>old, <1>new, <1>rest, <1>frame, Nested
  DEF ChainInv, Busy
<1>PoolInv. PoolInv'
  BY <1>plan, <1>old, <1>new, <1>rest, <1>frame
  DEF PoolInv
<1>CloseInv. CloseInv'
  BY <1>plan, <1>old, <1>new, <1>rest, <1>frame, Nested
  DEF CloseInv
<1>ReleaseInv. ReleaseInv'
  BY <1>plan, <1>old, <1>new, <1>rest, <1>frame, Nested
  DEF ReleaseInv
<1> QED
  BY <1>TypeOK, <1>PlanInv, <1>ChainInv, <1>PoolInv, <1>CloseInv,
     <1>ReleaseInv DEF LifeInv

\* A client connects: nothing else goes on.
LEMMA AcceptKeeps ==
    ASSUME LifeInv, NEW t \in Threads, Accept(t)
    PROVE  LifeInv'
<1> USE DEF LifeInv
<1>at. pooled /\ t \in Iocp /\ todo[t] = <<>> /\ ~owner /\ ~active
       /\ \A u \in Threads : ~ref[u]
  BY DEF Accept, Free, PoolInv
<1>idle. kernel = 0 /\ recvPendingCnt = 0 /\ \A u \in Threads : todo[u] = <<>>
  BY <1>at, NobodyElse
<1>todo. todo' = [todo EXCEPT ![t] = <<"activate", "register">>]
  BY DEF Accept
<1>none. <<>> \notin Chained \cup Closing \cup Losing \cup Flagged
  BY DEF Chained, ChainPlans, Posting, Counted, Closing, Telling, Losing,
         Flagged, Checked
<1>now. todo'[t] = <<"activate", "register">>
  BY <1>todo DEF PlanInv
<1>new. /\ todo'[t] \in Plans
        /\ todo'[t] \in ChainPlans
        /\ todo'[t] \notin Posting \cup Counted \cup Closing \cup
                              Losing \cup Flagged
        /\ todo'[t] # <<>>
  BY <1>now
  DEF Plans, ChainPlans, ClosePlans, Chained, Posting, Counted,
      Dequeued, Handed, Ready, Entering, Closing, Telling, Losing, Releasing,
     Flagged,
      Checked
<1>rest. /\ \A u \in Threads : u # t => todo'[u] = todo[u]
         /\ todo' \in [Threads -> Plans]
         /\ Iocp \subseteq Threads /\ Callers \subseteq Threads
         /\ t \in Callers => t \notin Iocp
  BY <1>at, <1>todo, <1>new, RolesAssumption DEF PlanInv, Threads
<1>frame. /\ pooled' = FALSE /\ socket' = TRUE /\ isConnected' = TRUE
          /\ hasManager' = TRUE /\ told' = 0 /\ conn \in Nat /\ conn' = conn + 1
          /\ ref' = [ref EXCEPT ![t] = TRUE]
          /\ ref \in [Threads -> BOOLEAN]
          /\ ~disconnecting /\ ~released
          /\ UNCHANGED <<disconnecting, released, recvPendingCnt, owner,
                         active, kernel, bytes, calls, stale, robbed>>
  BY <1>at DEF Accept, TypeOK, PoolInv, history
<1>TypeOK. TypeOK'
  <2>1. todo' \in [Threads -> Seq(Labels)]
    BY <1>rest, PlansAreLists
  <2>2. ref' \in [Threads -> BOOLEAN]
    BY <1>frame
  <2>3. /\ isConnected' \in BOOLEAN /\ socket' \in BOOLEAN
        /\ hasManager' \in BOOLEAN /\ pooled' \in BOOLEAN
    BY <1>frame
  <2>5. told' \in Nat /\ conn' \in Nat
    BY <1>frame
  <2>4. /\ UNCHANGED <<disconnecting, released, recvPendingCnt, owner, active,
                      kernel, bytes, calls, stale, robbed>>
        /\ TypeOK
    BY <1>frame
  <2> QED
    BY <2>1, <2>2, <2>3, <2>4, <2>5 DEF TypeOK
<1>PlanInv. PlanInv'
  BY <1>at, <1>idle, <1>none, <1>new, <1>rest, <1>frame, Nested
  DEF PlanInv, Busy
<1>ChainInv. ChainInv'
  BY <1>at, <1>idle, <1>none, <1>new, <1>rest, <1>frame, Nested
  DEF ChainInv, Busy
<1>PoolInv. PoolInv'
  BY <1>at, <1>idle, <1>none, <1>new, <1>rest, <1>frame
  DEF PoolInv
<1>CloseInv. CloseInv'
  BY <1>at, <1>idle, <1>none, <1>new, <1>rest, <1>frame, Nested
  DEF CloseInv
<1>ReleaseInv. ReleaseInv'
  BY <1>at, <1>idle, <1>none, <1>new, <1>rest, <1>frame, Nested
  DEF ReleaseInv
<1> QED
  BY <1>TypeOK, <1>PlanInv, <1>ChainInv, <1>PoolInv, <1>CloseInv,
     <1>ReleaseInv DEF LifeInv

LEMMA CallDisconnectKeeps ==
    ASSUME LifeInv, NEW t \in Threads, CallDisconnect(t)
    PROVE  LifeInv'
<1> USE DEF LifeInv
<1>at. t \in Callers /\ todo[t] = <<>>
  BY DEF CallDisconnect, Free
<1>live. ~pooled
  BY DEF CallDisconnect, PoolInv, Threads
<1>todo. todo' = [todo EXCEPT ![t] = <<"exchange">>]
  BY DEF CallDisconnect
<1>none. <<>> \notin Chained \cup Closing \cup Losing \cup Flagged
  BY DEF Chained, ChainPlans, Posting, Counted, Closing, Telling, Losing,
         Flagged, Checked
<1>now. todo'[t] = <<"exchange">>
  BY <1>todo DEF PlanInv
<1>new. /\ todo'[t] \in Plans
        /\ todo'[t] \notin Chained \cup Closing \cup Losing \cup
                              Flagged
        /\ todo'[t] # <<>>
  BY <1>now
  DEF Plans, ChainPlans, ClosePlans, Chained, Posting, Counted,
      Dequeued, Handed, Ready, Entering, Closing, Telling, Losing, Releasing,
     Flagged,
      Checked
<1>rest. /\ \A u \in Threads : u # t => todo'[u] = todo[u]
         /\ todo' \in [Threads -> Plans]
         /\ Iocp \subseteq Threads /\ Callers \subseteq Threads
         /\ t \in Callers => t \notin Iocp
  BY <1>at, <1>todo, <1>new, RolesAssumption DEF PlanInv, Threads
<1>frame. /\ ref' = [ref EXCEPT ![t] = TRUE]
          /\ ref \in [Threads -> BOOLEAN]
          /\ calls' = calls + 1
          /\ UNCHANGED <<isConnected, disconnecting, released, recvPendingCnt,
                         owner, socket, hasManager, active, pooled, kernel,
                         bytes, told, conn, stale, robbed>>
  BY DEF CallDisconnect, TypeOK, resetFields, flags, history
<1>TypeOK. TypeOK'
  BY <1>at, <1>live, <1>none, <1>new, <1>rest, <1>frame, Nested, PlansAreLists
  DEF TypeOK
<1>PlanInv. PlanInv'
  BY <1>at, <1>live, <1>none, <1>new, <1>rest, <1>frame, Nested
  DEF PlanInv, Busy
<1>ChainInv. ChainInv'
  BY <1>at, <1>live, <1>none, <1>new, <1>rest, <1>frame, Nested
  DEF ChainInv, Busy
<1>PoolInv. PoolInv'
  BY <1>at, <1>live, <1>none, <1>new, <1>rest, <1>frame
  DEF PoolInv
<1>CloseInv. CloseInv'
  BY <1>at, <1>live, <1>none, <1>new, <1>rest, <1>frame, Nested
  DEF CloseInv
<1>ReleaseInv. ReleaseInv'
  BY <1>at, <1>live, <1>none, <1>new, <1>rest, <1>frame, Nested
  DEF ReleaseInv
<1> QED
  BY <1>TypeOK, <1>PlanInv, <1>ChainInv, <1>PoolInv, <1>CloseInv,
     <1>ReleaseInv DEF LifeInv

LEMMA CompleteKeeps ==
    ASSUME LifeInv, NEW t \in Threads, Complete(t)
    PROVE  LifeInv'
<1> USE DEF LifeInv
<1>at. t \in Iocp /\ todo[t] = <<>> /\ kernel = 1 /\ owner /\ recvPendingCnt = 1
       /\ \A u \in Iocp : todo[u] = <<>>
  BY DEF Complete, Free, ChainInv, TypeOK, Busy
<1>todo. todo' = [todo EXCEPT ![t] = <<"move">>]
  BY DEF Complete
<1>none. <<>> \notin Chained \cup Closing \cup Losing \cup Flagged
  BY DEF Chained, ChainPlans, Posting, Counted, Closing, Telling, Losing,
         Flagged, Checked
<1>now. todo'[t] = <<"move">>
  BY <1>todo DEF PlanInv
<1>new. /\ todo'[t] \in Plans
        /\ todo'[t] \in ChainPlans \cap Dequeued
        /\ todo'[t] \notin Posting \cup Closing \cup Losing \cup
                              Flagged
        /\ todo'[t] # <<>>
  BY <1>now
  DEF Plans, ChainPlans, ClosePlans, Chained, Posting, Counted,
      Dequeued, Handed, Ready, Entering, Closing, Telling, Losing, Releasing,
     Flagged,
      Checked
<1>rest. /\ \A u \in Threads : u # t => todo'[u] = todo[u]
         /\ todo' \in [Threads -> Plans]
         /\ Iocp \subseteq Threads /\ Callers \subseteq Threads
         /\ t \in Callers => t \notin Iocp
  BY <1>at, <1>todo, <1>new, RolesAssumption DEF PlanInv, Threads
<1>frame. /\ kernel' = 0
          /\ bytes' \in [Threads -> BOOLEAN]
          /\ UNCHANGED <<isConnected, disconnecting, released, recvPendingCnt,
                         owner, socket, hasManager, active, pooled, ref, told,
                         conn, calls, stale, robbed>>
  BY <1>at DEF Complete, TypeOK, resetFields, flags, refs, history
<1>TypeOK. TypeOK'
  BY <1>at, <1>none, <1>new, <1>rest, <1>frame, Nested, PlansAreLists
  DEF TypeOK
<1>PlanInv. PlanInv'
  BY <1>at, <1>none, <1>new, <1>rest, <1>frame, Nested
  DEF PlanInv, Busy
<1>ChainInv. ChainInv'
  BY <1>at, <1>none, <1>new, <1>rest, <1>frame, Nested
  DEF ChainInv, Busy
<1>PoolInv. PoolInv'
  BY <1>at, <1>none, <1>new, <1>rest, <1>frame
  DEF PoolInv
<1>CloseInv. CloseInv'
  BY <1>at, <1>none, <1>new, <1>rest, <1>frame, Nested
  DEF CloseInv
<1>ReleaseInv. ReleaseInv'
  BY <1>at, <1>none, <1>new, <1>rest, <1>frame, Nested
  DEF ReleaseInv
<1> QED
  BY <1>TypeOK, <1>PlanInv, <1>ChainInv, <1>PoolInv, <1>CloseInv,
     <1>ReleaseInv DEF LifeInv

\* A thread lets go of the session; the last one puts it into the pool.
LEMMA DropKeeps ==
    ASSUME LifeInv, NEW t \in Threads, Drop(t)
    PROVE  LifeInv'
<1> USE DEF LifeInv
<1>at. /\ todo[t] = <<>> /\ ref[t] /\ ~pooled
       /\ owner' = owner /\ active' = active
       /\ ref' = [ref EXCEPT ![t] = FALSE] /\ ref \in [Threads -> BOOLEAN]
       /\ UNCHANGED <<kernel, todo, bytes, told, conn, calls, stale, robbed>>
       /\ Iocp \subseteq Threads /\ Callers \subseteq Threads
  BY DEF Drop, Hold, PoolInv, TypeOK, Threads, history
<1>stays. CASE owner \/ active \/ \E u \in Threads : ref'[u]
  <2>1. UNCHANGED <<isConnected, disconnecting, released, recvPendingCnt,
                    socket, hasManager, pooled>>
    BY <1>at, <1>stays DEF Drop, Hold, resetFields, flags
  <2>2. TypeOK'
    BY <1>at, <2>1 DEF TypeOK
  <2>3. PlanInv'
    BY <1>at, <2>1 DEF PlanInv, Busy
  <2>4. ChainInv'
    BY <1>at, <2>1 DEF ChainInv, Busy
  <2>5. PoolInv'
    BY <1>at, <1>stays, <2>1 DEF PoolInv
  <2>6. CloseInv'
    BY <1>at, <2>1 DEF CloseInv
  <2>7. ReleaseInv'
    BY <1>at, <2>1 DEF ReleaseInv
  <2> QED
    BY <2>2, <2>3, <2>4, <2>5, <2>6, <2>7
<1>leaves. CASE ~(owner \/ active \/ \E u \in Threads : ref'[u])
  <2>1. /\ isConnected' = FALSE /\ disconnecting' = FALSE /\ released' = FALSE
        /\ recvPendingCnt' = 0 /\ socket' = FALSE /\ hasManager' = FALSE
        /\ pooled' = TRUE
    BY <1>at, <1>leaves DEF Drop, Hold
  <2>2. \A u \in Threads : u # t => ~ref[u]
    BY <1>at, <1>leaves
  <2>3. /\ \A u \in Threads : todo[u] = <<>>
        /\ kernel = 0 /\ told = 1
    BY <1>at, <1>leaves, <2>2, NobodyElse
  <2>none. <<>> \notin Chained \cup Closing \cup Losing \cup Flagged
    BY DEF Chained, ChainPlans, Posting, Counted, Closing, Telling, Losing,
           Flagged, Checked
  <2>4. TypeOK'
    <3>0. recvPendingCnt' \in Int
      BY <2>1
    <3>1. /\ isConnected' \in BOOLEAN /\ disconnecting' \in BOOLEAN
          /\ released' \in BOOLEAN /\ socket' \in BOOLEAN /\ hasManager' \in BOOLEAN
          /\ pooled' \in BOOLEAN
      BY <2>1
    <3>2. ref' \in [Threads -> BOOLEAN]
      BY <1>at
    <3>3. UNCHANGED <<owner, active, kernel, todo, bytes, told, conn, calls,
                      stale, robbed>>
      BY <1>at
    <3> QED
      BY <3>0, <3>1, <3>2, <3>3 DEF TypeOK
  <2>5. PlanInv'
    BY <1>at, <2>1, <2>3 DEF PlanInv, Busy
  <2>6. ChainInv'
    BY <1>at, <2>1, <2>3, <2>none, Nested DEF ChainInv, Busy
  <2>7. PoolInv'
    BY <1>at, <1>leaves, <2>1 DEF PoolInv
  <2>8. CloseInv'
    BY <1>at, <2>1, <2>3, <2>none, Nested DEF CloseInv
  <2>9. ReleaseInv'
    BY <1>at, <2>1, <2>3, <2>none, Nested DEF ReleaseInv
  <2> QED
    BY <2>4, <2>5, <2>6, <2>7, <2>8, <2>9
<1> QED
  BY <1>stays, <1>leaves

LEMMA StutterKeeps == ASSUME LifeInv, UNCHANGED vars PROVE LifeInv'
<1>1. TypeOK'
  BY DEF LifeInv, TypeOK, vars, flags, refs, history
<1>2. PlanInv'
  BY DEF LifeInv, PlanInv, Busy, vars, flags, refs, history
<1>3. ChainInv'
  BY DEF LifeInv, ChainInv, Busy, vars, flags, refs, history
<1>4. PoolInv'
  BY DEF LifeInv, PoolInv, vars, flags, refs, history
<1>5. CloseInv'
  BY DEF LifeInv, CloseInv, vars, flags, refs, history
<1>6. ReleaseInv'
  BY DEF LifeInv, ReleaseInv, vars, flags, refs, history
<1> QED
  BY <1>1, <1>2, <1>3, <1>4, <1>5, <1>6 DEF LifeInv

-----------------------------------------------------------------------------
(* What holds whatever the threads do                                      *)

\* A thread that is at a label has a list that begins with it.
LEMMA AtBase ==
    ASSUME HeldInv, NEW t \in Threads, NEW l, At(t, l)
    PROVE  /\ Busy(t)
           /\ todo[t] \in ChainPlans \cup ClosePlans
           /\ Head(todo[t]) = l
  BY DEF HeldInv, Plans, At, Busy

\* A step after which at most the owner or the reference of t is given up, or
\* t has taken one to a session that is not in the pool.
LEMMA BaseStep ==
    ASSUME HeldInv, ToldInv, NEW t \in Threads, NEW q \in Plans,
           todo' = [todo EXCEPT ![t] = q],
           \A u \in Threads : u # t => ref'[u] = ref[u],
           q = <<>> \/ q \in Unheld \/ ref'[t],
           pooled' => ~owner' /\ ~active' /\ \A u \in Threads : ~ref'[u],
           q \in Telling => todo[t] \in Telling,
           told' = told, isConnected' => isConnected
    PROVE  HeldInv' /\ ToldInv'
<1>1. /\ todo' \in [Threads -> Plans]
      /\ todo'[t] = q /\ \A u \in Threads : u # t => todo'[u] = todo[u]
  BY DEF HeldInv
<1>2. HeldInv'
  BY <1>1 DEF HeldInv, Busy
<1>3. ToldInv'
  BY <1>1 DEF ToldInv
<1> QED
  BY <1>2, <1>3

\* A step that leaves the references alone.
LEMMA GoesKeeps ==
    ASSUME HeldInv, ToldInv, NEW t \in Threads, Goes(t),
           ref' = ref, pooled' = pooled, owner' = owner,
           active' = active, told' = told, isConnected' = isConnected
    PROVE  HeldInv' /\ ToldInv'
<1>1. PICK q \in Plans : /\ todo' = [todo EXCEPT ![t] = q]
                         /\ q = <<>> \/ q \in Unheld \/ todo[t] \notin Unheld
                         /\ q \in Telling => todo[t] \in Telling
  BY DEF Goes
<1>2. Busy(t)
  BY DEF Goes
<1>3. todo[t] \notin Unheld => ref[t]
  BY <1>2 DEF HeldInv
<1>4. pooled' => ~owner' /\ ~active' /\ \A u \in Threads : ~ref'[u]
  BY DEF HeldInv
<1> QED
  BY <1>1, <1>3, <1>4, BaseStep

LEMMA GoesTo ==
    ASSUME NEW t \in Threads, NEW q \in Plans, Busy(t),
           todo' = [todo EXCEPT ![t] = q],
           q = <<>> \/ q \in Unheld \/ todo[t] \notin Unheld,
           q \in Telling => todo[t] \in Telling
    PROVE  Goes(t)
  BY DEF Goes

\* What the steps of a thread leave it to do.
LEMMA ActivateGoes ==
    ASSUME HeldInv, NEW t \in Threads, Activate(t)
    PROVE  Goes(t)
<1>1. At(t, "activate")
  BY DEF Activate
<1>busy. Busy(t)
  BY <1>1, AtBase
<1>2. todo[t] = <<"activate", "register">>
  BY <1>1, AtBase, Heads
<1>a. todo' = [todo EXCEPT ![t] = <<"register">>]
  <2>1. Tail(todo[t]) = <<"register">>
    BY <1>2
  <2>2. Then(t, <<>>)
    BY DEF Activate
  <2> QED
    BY <2>1, <2>2, ThenNothing, Bodies
<1>b. /\ todo[t] \notin Unheld
      /\ <<"register">> \in Plans
      /\ <<"register">> \notin Telling
  BY <1>2 DEF Plans, ChainPlans, ClosePlans, Posting, Counted, Entering, Closing,
      Telling, Losing, Releasing, Flagged, Checked, Unheld
<1> QED
  BY <1>busy, <1>a, <1>b, GoesTo

LEMMA ProcessRecvGoes ==
    ASSUME HeldInv, NEW t \in Threads, ProcessRecv(t)
    PROVE  Goes(t)
<1>1. At(t, "dispatch")
  BY DEF ProcessRecv
<1>busy. Busy(t)
  BY <1>1, AtBase
<1>2. todo[t] = <<"dispatch">>
  BY <1>1, AtBase, Heads
<1>a. \/ todo' = [todo EXCEPT ![t] = <<"exchange", "release">>]
      \/ todo' = [todo EXCEPT ![t] = <<"rearm">>]
  BY <1>2, ThenLast, Bodies DEF ProcessRecv
<1>b. /\ todo[t] \notin Unheld
      /\ <<"exchange", "release">> \in Plans
      /\ <<"exchange", "release">> \notin Telling
      /\ <<"rearm">> \in Plans
      /\ <<"rearm">> \notin Telling
  BY <1>2 DEF Plans, ChainPlans, ClosePlans, Posting, Counted, Entering, Closing,
      Telling, Losing, Releasing, Flagged, Checked, Unheld
<1> QED
  BY <1>busy, <1>a, <1>b, GoesTo

LEMMA RearmGoes ==
    ASSUME HeldInv, NEW t \in Threads, Rearm(t)
    PROVE  Goes(t)
<1>1. At(t, "rearm")
  BY DEF Rearm
<1>busy. Busy(t)
  BY <1>1, AtBase
<1>2. todo[t] = <<"rearm">>
  BY <1>1, AtBase, Heads
<1>a. \/ todo' = [todo EXCEPT ![t] = <<"release">>]
      \/ todo' = [todo EXCEPT ![t] = <<"register">>]
  BY <1>2, ThenLast, Bodies DEF Rearm
<1>b. /\ todo[t] \notin Unheld
      /\ <<"release">> \in Plans
      /\ <<"release">> \notin Telling
      /\ <<"register">> \in Plans
      /\ <<"register">> \notin Telling
  BY <1>2 DEF Plans, ChainPlans, ClosePlans, Posting, Counted, Entering, Closing,
      Telling, Losing, Releasing, Flagged, Checked, Unheld
<1> QED
  BY <1>busy, <1>a, <1>b, GoesTo

LEMMA RegisterGoes ==
    ASSUME HeldInv, NEW t \in Threads, Register(t)
    PROVE  Goes(t)
<1>1. At(t, "register")
  BY DEF Register
<1>busy. Busy(t)
  BY <1>1, AtBase
<1>2. todo[t] = <<"register">>
  BY <1>1, AtBase, Heads
<1>a. \/ todo' = [todo EXCEPT ![t] = <<>>]
      \/ todo' = [todo EXCEPT ![t] = <<"own">>]
  BY <1>2, ThenLast, Bodies DEF Register
<1>b. /\ todo[t] \notin Unheld
      /\ <<>> \in Plans
      /\ <<>> \notin Telling
      /\ <<"own">> \in Plans
      /\ <<"own">> \notin Telling
  BY <1>2 DEF Plans, ChainPlans, ClosePlans, Posting, Counted, Entering, Closing,
      Telling, Losing, Releasing, Flagged, Checked, Unheld
<1> QED
  BY <1>busy, <1>a, <1>b, GoesTo

LEMMA OwnGoes ==
    ASSUME HeldInv, NEW t \in Threads, Own(t)
    PROVE  Goes(t)
<1>1. At(t, "own")
  BY DEF Own
<1>busy. Busy(t)
  BY <1>1, AtBase
<1>2. todo[t] = <<"own">>
  BY <1>1, AtBase, Heads
<1>a. todo' = [todo EXCEPT ![t] = <<"count">>]
  BY <1>2, ThenLast, Bodies DEF Own
<1>b. /\ todo[t] \notin Unheld
      /\ <<"count">> \in Plans
      /\ <<"count">> \notin Telling
  BY <1>2 DEF Plans, ChainPlans, ClosePlans, Posting, Counted, Entering, Closing,
      Telling, Losing, Releasing, Flagged, Checked, Unheld
<1> QED
  BY <1>busy, <1>a, <1>b, GoesTo

LEMMA CountGoes ==
    ASSUME HeldInv, NEW t \in Threads, Count(t)
    PROVE  Goes(t)
<1>1. At(t, "count")
  BY DEF Count
<1>busy. Busy(t)
  BY <1>1, AtBase
<1>2. todo[t] = <<"count">>
  BY <1>1, AtBase, Heads
<1>a. todo' = [todo EXCEPT ![t] = <<"recv">>]
  BY <1>2, ThenLast, Bodies DEF Count
<1>b. /\ todo[t] \notin Unheld
      /\ <<"recv">> \in Plans
      /\ <<"recv">> \notin Telling
  BY <1>2 DEF Plans, ChainPlans, ClosePlans, Posting, Counted, Entering, Closing,
      Telling, Losing, Releasing, Flagged, Checked, Unheld
<1> QED
  BY <1>busy, <1>a, <1>b, GoesTo

LEMMA RecvGoes ==
    ASSUME HeldInv, NEW t \in Threads, Recv(t)
    PROVE  Goes(t)
<1>1. At(t, "recv")
  BY DEF Recv
<1>busy. Busy(t)
  BY <1>1, AtBase
<1>2. todo[t] = <<"recv">>
  BY <1>1, AtBase, Heads
<1>a. \/ todo' = [todo EXCEPT ![t] = <<>>]
      \/ todo' = [todo EXCEPT ![t] = <<"uncount">>]
  BY <1>2, ThenLast, Bodies DEF Recv
<1>b. /\ todo[t] \notin Unheld
      /\ <<>> \in Plans
      /\ <<>> \notin Telling
      /\ <<"uncount">> \in Plans
      /\ <<"uncount">> \notin Telling
  BY <1>2 DEF Plans, ChainPlans, ClosePlans, Posting, Counted, Entering, Closing,
      Telling, Losing, Releasing, Flagged, Checked, Unheld
<1> QED
  BY <1>busy, <1>a, <1>b, GoesTo

LEMMA UncountGoes ==
    ASSUME HeldInv, NEW t \in Threads, Uncount(t)
    PROVE  Goes(t)
<1>1. At(t, "uncount")
  BY DEF Uncount
<1>busy. Busy(t)
  BY <1>1, AtBase
<1>2. todo[t] = <<"uncount">>
  BY <1>1, AtBase, Heads
<1>a. todo' = [todo EXCEPT ![t] = <<"disown">>]
  BY <1>2, ThenLast, Bodies DEF Uncount
<1>b. /\ todo[t] \notin Unheld
      /\ <<"disown">> \in Plans
      /\ <<"disown">> \notin Telling
  BY <1>2 DEF Plans, ChainPlans, ClosePlans, Posting, Counted, Entering, Closing,
      Telling, Losing, Releasing, Flagged, Checked, Unheld
<1> QED
  BY <1>busy, <1>a, <1>b, GoesTo

LEMMA DisownGoes ==
    ASSUME HeldInv, NEW t \in Threads, Disown(t)
    PROVE  Goes(t)
<1>1. At(t, "disown")
  BY DEF Disown
<1>busy. Busy(t)
  BY <1>1, AtBase
<1>2. todo[t] = <<"disown">>
  BY <1>1, AtBase, Heads
<1>a. todo' = [todo EXCEPT ![t] = <<"exchange", "release">>]
  BY <1>2, ThenLast, Bodies DEF Disown
<1>b. /\ todo[t] \notin Unheld
      /\ <<"exchange", "release">> \in Plans
      /\ <<"exchange", "release">> \notin Telling
  BY <1>2 DEF Plans, ChainPlans, ClosePlans, Posting, Counted, Entering, Closing,
      Telling, Losing, Releasing, Flagged, Checked, Unheld
<1> QED
  BY <1>busy, <1>a, <1>b, GoesTo

LEMMA FlagGoes ==
    ASSUME HeldInv, NEW t \in Threads, Flag(t)
    PROVE  Goes(t)
<1>1. At(t, "flag")
  BY DEF Flag
<1>busy. Busy(t)
  BY <1>1, AtBase
<1>2. \/ todo[t] = <<"flag", "notify", "close", "release">>
      \/ todo[t] = <<"flag", "notify", "close", "release", "release">>
      \/ todo[t] = <<"flag", "release">>
      \/ todo[t] = <<"flag", "release", "release">>
  BY <1>1, AtBase, Heads DEF Losing, Releasing, Checked
<1>3. CASE todo[t] = <<"flag", "notify", "close", "release">>
  <2>a. todo' = [todo EXCEPT ![t] = <<"notify", "close", "release">>]
    <3>1. Tail(todo[t]) = <<"notify", "close", "release">>
      BY <1>3
    <3>2. Then(t, <<>>)
      BY DEF Flag
    <3> QED
      BY <3>1, <3>2, ThenNothing, Bodies
  <2>b. /\ todo[t] \notin Unheld
        /\ todo[t] \in Telling
        /\ <<"notify", "close", "release">> \in Plans
    BY <1>3 DEF Plans, ChainPlans, ClosePlans, Posting, Counted, Entering, Closing,
      Telling, Losing, Releasing, Flagged, Checked, Unheld
  <2> QED
    BY <1>busy, <2>a, <2>b, GoesTo
<1>4. CASE todo[t] = <<"flag", "notify", "close", "release", "release">>
  <2>a. todo' = [todo EXCEPT ![t] = <<"notify", "close", "release", "release">>]
    <3>1. Tail(todo[t]) = <<"notify", "close", "release", "release">>
      BY <1>4
    <3>2. Then(t, <<>>)
      BY DEF Flag
    <3> QED
      BY <3>1, <3>2, ThenNothing, Bodies
  <2>b. /\ todo[t] \notin Unheld
        /\ todo[t] \in Telling
        /\ <<"notify", "close", "release", "release">> \in Plans
    BY <1>4 DEF Plans, ChainPlans, ClosePlans, Posting, Counted, Entering, Closing,
      Telling, Losing, Releasing, Flagged, Checked, Unheld
  <2> QED
    BY <1>busy, <2>a, <2>b, GoesTo
<1>5. CASE todo[t] = <<"flag", "release">>
  <2>a. todo' = [todo EXCEPT ![t] = <<"release">>]
    <3>1. Tail(todo[t]) = <<"release">>
      BY <1>5
    <3>2. Then(t, <<>>)
      BY DEF Flag
    <3> QED
      BY <3>1, <3>2, ThenNothing, Bodies
  <2>b. /\ todo[t] \notin Unheld
        /\ <<"release">> \in Plans
        /\ <<"release">> \notin Telling
    BY <1>5 DEF Plans, ChainPlans, ClosePlans, Posting, Counted, Entering, Closing,
      Telling, Losing, Releasing, Flagged, Checked, Unheld
  <2> QED
    BY <1>busy, <2>a, <2>b, GoesTo
<1>6. CASE todo[t] = <<"flag", "release", "release">>
  <2>a. todo' = [todo EXCEPT ![t] = <<"release", "release">>]
    <3>1. Tail(todo[t]) = <<"release", "release">>
      BY <1>6
    <3>2. Then(t, <<>>)
      BY DEF Flag
    <3> QED
      BY <3>1, <3>2, ThenNothing, Bodies
  <2>b. /\ todo[t] \notin Unheld
        /\ <<"release", "release">> \in Plans
        /\ <<"release", "release">> \notin Telling
    BY <1>6 DEF Plans, ChainPlans, ClosePlans, Posting, Counted, Entering, Closing,
      Telling, Losing, Releasing, Flagged, Checked, Unheld
  <2> QED
    BY <1>busy, <2>a, <2>b, GoesTo
<1> QED
  BY <1>2, <1>3, <1>4, <1>5, <1>6

LEMMA NotifyGoes ==
    ASSUME HeldInv, NEW t \in Threads, Notify(t)
    PROVE  Goes(t)
<1>1. At(t, "notify")
  BY DEF Notify
<1>busy. Busy(t)
  BY <1>1, AtBase
<1>2. \/ todo[t] = <<"notify", "close", "release">>
      \/ todo[t] = <<"notify", "close", "release", "release">>
  BY <1>1, AtBase, Heads DEF Losing, Releasing, Checked
<1>3. CASE todo[t] = <<"notify", "close", "release">>
  <2>a. todo' = [todo EXCEPT ![t] = <<"close", "release">>]
    <3>1. Tail(todo[t]) = <<"close", "release">>
      BY <1>3
    <3>2. Then(t, <<>>)
      BY DEF Notify
    <3> QED
      BY <3>1, <3>2, ThenNothing, Bodies
  <2>b. /\ todo[t] \notin Unheld
        /\ todo[t] \in Telling
        /\ <<"close", "release">> \in Plans
    BY <1>3 DEF Plans, ChainPlans, ClosePlans, Posting, Counted, Entering, Closing,
      Telling, Losing, Releasing, Flagged, Checked, Unheld
  <2> QED
    BY <1>busy, <2>a, <2>b, GoesTo
<1>4. CASE todo[t] = <<"notify", "close", "release", "release">>
  <2>a. todo' = [todo EXCEPT ![t] = <<"close", "release", "release">>]
    <3>1. Tail(todo[t]) = <<"close", "release", "release">>
      BY <1>4
    <3>2. Then(t, <<>>)
      BY DEF Notify
    <3> QED
      BY <3>1, <3>2, ThenNothing, Bodies
  <2>b. /\ todo[t] \notin Unheld
        /\ todo[t] \in Telling
        /\ <<"close", "release", "release">> \in Plans
    BY <1>4 DEF Plans, ChainPlans, ClosePlans, Posting, Counted, Entering, Closing,
      Telling, Losing, Releasing, Flagged, Checked, Unheld
  <2> QED
    BY <1>busy, <2>a, <2>b, GoesTo
<1> QED
  BY <1>2, <1>3, <1>4

LEMMA CloseGoes ==
    ASSUME HeldInv, NEW t \in Threads, Close(t)
    PROVE  Goes(t)
<1>1. At(t, "close")
  BY DEF Close
<1>busy. Busy(t)
  BY <1>1, AtBase
<1>2. \/ todo[t] = <<"close", "release">>
      \/ todo[t] = <<"close", "release", "release">>
  BY <1>1, AtBase, Heads DEF Losing, Releasing, Checked
<1>3. CASE todo[t] = <<"close", "release">>
  <2>a. todo' = [todo EXCEPT ![t] = <<"release">>]
    <3>1. Tail(todo[t]) = <<"release">>
      BY <1>3
    <3>2. Then(t, <<>>)
      BY DEF Close
    <3> QED
      BY <3>1, <3>2, ThenNothing, Bodies
  <2>b. /\ todo[t] \notin Unheld
        /\ <<"release">> \in Plans
        /\ <<"release">> \notin Telling
    BY <1>3 DEF Plans, ChainPlans, ClosePlans, Posting, Counted, Entering, Closing,
      Telling, Losing, Releasing, Flagged, Checked, Unheld
  <2> QED
    BY <1>busy, <2>a, <2>b, GoesTo
<1>4. CASE todo[t] = <<"close", "release", "release">>
  <2>a. todo' = [todo EXCEPT ![t] = <<"release", "release">>]
    <3>1. Tail(todo[t]) = <<"release", "release">>
      BY <1>4
    <3>2. Then(t, <<>>)
      BY DEF Close
    <3> QED
      BY <3>1, <3>2, ThenNothing, Bodies
  <2>b. /\ todo[t] \notin Unheld
        /\ <<"release", "release">> \in Plans
        /\ <<"release", "release">> \notin Telling
    BY <1>4 DEF Plans, ChainPlans, ClosePlans, Posting, Counted, Entering, Closing,
      Telling, Losing, Releasing, Flagged, Checked, Unheld
  <2> QED
    BY <1>busy, <2>a, <2>b, GoesTo
<1> QED
  BY <1>2, <1>3, <1>4

LEMMA ReleaseGoes ==
    ASSUME HeldInv, NEW t \in Threads, Release(t)
    PROVE  Goes(t)
<1>1. At(t, "release")
  BY DEF Release
<1>busy. Busy(t)
  BY <1>1, AtBase
<1>2. \/ todo[t] = <<"release">>
      \/ todo[t] = <<"release", "release">>
  BY <1>1, AtBase, Heads DEF Losing, Releasing, Checked
<1>3. CASE todo[t] = <<"release">>
  <2>a. \/ todo' = [todo EXCEPT ![t] = <<>>]
        \/ todo' = [todo EXCEPT ![t] = <<"pending">>]
    BY <1>3, ThenLast, Bodies DEF Release
  <2>b. /\ <<>> \in Plans
        /\ <<>> \notin Telling
        /\ <<"pending">> \in Plans
        /\ <<"pending">> \in Unheld
        /\ <<"pending">> \notin Telling
    BY <1>3 DEF Plans, ChainPlans, ClosePlans, Posting, Counted, Entering, Closing,
      Telling, Losing, Releasing, Flagged, Checked, Unheld
  <2> QED
    BY <1>busy, <2>a, <2>b, GoesTo
<1>4. CASE todo[t] = <<"release", "release">>
  <2>a. \/ todo' = [todo EXCEPT ![t] = <<"release">>]
        \/ todo' = [todo EXCEPT ![t] = <<"pending", "release">>]
    <3>1. Tail(todo[t]) = <<"release">>
      BY <1>4
    <3>2. Then(t, <<>>) \/ Then(t, <<"pending">>)
      BY DEF Release
    <3>3. ASSUME Then(t, <<>>)
          PROVE  todo' = [todo EXCEPT ![t] = <<"release">>]
      BY <3>1, <3>3, ThenNothing, Bodies
    <3>4. ASSUME Then(t, <<"pending">>)
          PROVE  todo' = [todo EXCEPT ![t] = <<"pending", "release">>]
      <4>1. todo' = [todo EXCEPT ![t] = <<"pending">> \o <<"release">>]
        BY <3>1, <3>4, ThenRelease
      <4> QED
        BY <4>1, Calls
    <3> QED
      BY <3>2, <3>3, <3>4
  <2>b. /\ todo[t] \notin Unheld
        /\ <<"release">> \in Plans
        /\ <<"release">> \notin Telling
        /\ <<"pending", "release">> \in Plans
        /\ <<"pending", "release">> \notin Telling
    BY <1>4 DEF Plans, ChainPlans, ClosePlans, Posting, Counted, Entering, Closing,
      Telling, Losing, Releasing, Flagged, Checked, Unheld
  <2> QED
    BY <1>busy, <2>a, <2>b, GoesTo
<1> QED
  BY <1>2, <1>3, <1>4

LEMMA CheckPendingGoes ==
    ASSUME HeldInv, NEW t \in Threads, CheckPending(t)
    PROVE  Goes(t)
<1>1. At(t, "pending")
  BY DEF CheckPending
<1>busy. Busy(t)
  BY <1>1, AtBase
<1>2. \/ todo[t] = <<"pending">>
      \/ todo[t] = <<"pending", "release">>
  BY <1>1, AtBase, Heads DEF Losing, Releasing, Checked
<1>3. CASE todo[t] = <<"pending">>
  <2>a. \/ todo' = [todo EXCEPT ![t] = <<>>]
        \/ todo' = [todo EXCEPT ![t] = <<"reset", "erase">>]
    BY <1>3, ThenLast, Bodies DEF CheckPending
  <2>b. /\ <<>> \in Plans
        /\ <<>> \notin Telling
        /\ <<"reset", "erase">> \in Plans
        /\ <<"reset", "erase">> \in Unheld
        /\ <<"reset", "erase">> \notin Telling
    BY <1>3 DEF Plans, ChainPlans, ClosePlans, Posting, Counted, Entering, Closing,
      Telling, Losing, Releasing, Flagged, Checked, Unheld
  <2> QED
    BY <1>busy, <2>a, <2>b, GoesTo
<1>4. CASE todo[t] = <<"pending", "release">>
  <2>a. \/ todo' = [todo EXCEPT ![t] = <<"release">>]
        \/ todo' = [todo EXCEPT ![t] = <<"reset", "erase", "release">>]
    <3>1. Tail(todo[t]) = <<"release">>
      BY <1>4
    <3>2. Then(t, <<>>) \/ Then(t, <<"reset", "erase">>)
      BY DEF CheckPending
    <3>3. ASSUME Then(t, <<>>)
          PROVE  todo' = [todo EXCEPT ![t] = <<"release">>]
      BY <3>1, <3>3, ThenNothing, Bodies
    <3>4. ASSUME Then(t, <<"reset", "erase">>)
          PROVE  todo' = [todo EXCEPT ![t] = <<"reset", "erase", "release">>]
      <4>1. todo' = [todo EXCEPT ![t] = <<"reset", "erase">> \o <<"release">>]
        BY <3>1, <3>4, ThenRelease
      <4> QED
        BY <4>1, Calls
    <3> QED
      BY <3>2, <3>3, <3>4
  <2>b. /\ todo[t] \notin Unheld
        /\ <<"release">> \in Plans
        /\ <<"release">> \notin Telling
        /\ <<"reset", "erase", "release">> \in Plans
        /\ <<"reset", "erase", "release">> \notin Telling
    BY <1>4 DEF Plans, ChainPlans, ClosePlans, Posting, Counted, Entering, Closing,
      Telling, Losing, Releasing, Flagged, Checked, Unheld
  <2> QED
    BY <1>busy, <2>a, <2>b, GoesTo
<1> QED
  BY <1>2, <1>3, <1>4

LEMMA ResetOwnerGoes ==
    ASSUME HeldInv, NEW t \in Threads, ResetOwner(t)
    PROVE  Goes(t)
<1>1. At(t, "reset")
  BY DEF ResetOwner
<1>busy. Busy(t)
  BY <1>1, AtBase
<1>2. \/ todo[t] = <<"reset", "erase">>
      \/ todo[t] = <<"reset", "erase", "release">>
  BY <1>1, AtBase, Heads DEF Losing, Releasing, Checked
<1>3. CASE todo[t] = <<"reset", "erase">>
  <2>a. todo' = [todo EXCEPT ![t] = <<"erase">>]
    <3>1. Tail(todo[t]) = <<"erase">>
      BY <1>3
    <3>2. Then(t, <<>>)
      BY DEF ResetOwner
    <3> QED
      BY <3>1, <3>2, ThenNothing, Bodies
  <2>b. /\ <<"erase">> \in Plans
        /\ <<"erase">> \in Unheld
        /\ <<"erase">> \notin Telling
    BY <1>3 DEF Plans, ChainPlans, ClosePlans, Posting, Counted, Entering, Closing,
      Telling, Losing, Releasing, Flagged, Checked, Unheld
  <2> QED
    BY <1>busy, <2>a, <2>b, GoesTo
<1>4. CASE todo[t] = <<"reset", "erase", "release">>
  <2>a. todo' = [todo EXCEPT ![t] = <<"erase", "release">>]
    <3>1. Tail(todo[t]) = <<"erase", "release">>
      BY <1>4
    <3>2. Then(t, <<>>)
      BY DEF ResetOwner
    <3> QED
      BY <3>1, <3>2, ThenNothing, Bodies
  <2>b. /\ todo[t] \notin Unheld
        /\ <<"erase", "release">> \in Plans
        /\ <<"erase", "release">> \notin Telling
    BY <1>4 DEF Plans, ChainPlans, ClosePlans, Posting, Counted, Entering, Closing,
      Telling, Losing, Releasing, Flagged, Checked, Unheld
  <2> QED
    BY <1>busy, <2>a, <2>b, GoesTo
<1> QED
  BY <1>2, <1>3, <1>4

LEMMA EraseGoes ==
    ASSUME HeldInv, NEW t \in Threads, Erase(t)
    PROVE  Goes(t)
<1>1. At(t, "erase")
  BY DEF Erase
<1>busy. Busy(t)
  BY <1>1, AtBase
<1>2. \/ todo[t] = <<"erase">>
      \/ todo[t] = <<"erase", "release">>
  BY <1>1, AtBase, Heads DEF Losing, Releasing, Checked
<1>3. CASE todo[t] = <<"erase">>
  <2>a. todo' = [todo EXCEPT ![t] = <<>>]
    BY <1>3, ThenLast, Bodies DEF Erase
  <2>b. /\ <<>> \in Plans
        /\ <<>> \notin Telling
    BY <1>3 DEF Plans, ChainPlans, ClosePlans, Posting, Counted, Entering, Closing,
      Telling, Losing, Releasing, Flagged, Checked, Unheld
  <2> QED
    BY <1>busy, <2>a, <2>b, GoesTo
<1>4. CASE todo[t] = <<"erase", "release">>
  <2>a. todo' = [todo EXCEPT ![t] = <<"release">>]
    <3>1. Tail(todo[t]) = <<"release">>
      BY <1>4
    <3>2. Then(t, <<>>)
      BY DEF Erase
    <3> QED
      BY <3>1, <3>2, ThenNothing, Bodies
  <2>b. /\ todo[t] \notin Unheld
        /\ <<"release">> \in Plans
        /\ <<"release">> \notin Telling
    BY <1>4 DEF Plans, ChainPlans, ClosePlans, Posting, Counted, Entering, Closing,
      Telling, Losing, Releasing, Flagged, Checked, Unheld
  <2> QED
    BY <1>busy, <2>a, <2>b, GoesTo
<1> QED
  BY <1>2, <1>3, <1>4

\* The steps of ProcessRecv, RegisterRecv, Disconnect and TryRelease that
\* neither take nor give up a reference.
LEMMA PlainBase ==
    ASSUME HeldInv, ToldInv, NEW t \in Threads,
           \/ ProcessRecv(t) \/ Rearm(t) \/ Register(t) \/ Count(t) \/ Recv(t)
           \/ Uncount(t) \/ Flag(t) \/ Close(t) \/ Release(t) \/ CheckPending(t)
    PROVE  HeldInv' /\ ToldInv'
<1>1. Goes(t)
  BY ProcessRecvGoes, RearmGoes, RegisterGoes, CountGoes, RecvGoes, UncountGoes,
     FlagGoes, CloseGoes, ReleaseGoes, CheckPendingGoes
<1>2. /\ ref' = ref /\ pooled' = pooled /\ owner' = owner
      /\ active' = active /\ told' = told /\ isConnected' = isConnected
  BY DEF ProcessRecv, Rearm, Register, Count, Recv, Uncount, Flag, Close, Release,
         CheckPending, resetFields, flags, refs
<1> QED
  BY <1>1, <1>2, GoesKeeps

\* ActivateSession and RegisterRecv store a reference the thread has.
LEMMA StoreBase ==
    ASSUME HeldInv, ToldInv, NEW t \in Threads, Activate(t) \/ Own(t)
    PROVE  HeldInv' /\ ToldInv'
<1>1. Goes(t)
  BY ActivateGoes, OwnGoes
<1>2. PICK q \in Plans : /\ todo' = [todo EXCEPT ![t] = q]
                         /\ q \in Telling => todo[t] \in Telling
  BY <1>1 DEF Goes
<1>3. At(t, "activate") \/ At(t, "own")
  BY DEF Activate, Own
<1>4. todo[t] = <<"activate", "register">> \/ todo[t] = <<"own">>
  BY <1>3, AtBase, Heads
<1>5. todo[t] \notin Unheld /\ Busy(t)
  <2>1. CASE todo[t] = <<"activate", "register">>
    BY <2>1 DEF Unheld, Busy
  <2>2. CASE todo[t] = <<"own">>
    BY <2>2 DEF Unheld, Busy
  <2> QED
    BY <1>4, <2>1, <2>2
<1>6. ref[t] /\ ~pooled
  BY <1>5 DEF HeldInv
<1>7. ref' = ref /\ pooled' = pooled /\ told' = told /\ isConnected' = isConnected
  BY DEF Activate, Own, resetFields, flags
<1> QED
  BY <1>2, <1>6, <1>7, BaseStep

\* The owner moves to the worker.
LEMMA MoveBase ==
    ASSUME HeldInv, ToldInv, TypeOK, NEW t \in Threads, Move(t)
    PROVE  HeldInv' /\ ToldInv'
<1>1. At(t, "move")
  BY DEF Move
<1>2. todo[t] = <<"move">>
  BY <1>1, AtBase, Heads
<1>3. todo' = [todo EXCEPT ![t] = <<"sub">>]
  BY <1>2, ThenLast, Bodies DEF Move
<1>4. <<"sub">> \in Plans /\ <<"sub">> \in Unheld /\ <<"sub">> \notin Telling
  BY DEF Plans, ChainPlans, Counted, Unheld, Telling
<1>5. /\ ref' = [ref EXCEPT ![t] = owner] /\ ref \in [Threads -> BOOLEAN]
      /\ owner' = FALSE
      /\ UNCHANGED <<pooled, active, told, isConnected>>
  BY DEF Move, TypeOK, resetFields, flags
<1>6. \A u \in Threads : u # t => ref'[u] = ref[u]
  BY <1>5
<1>7. pooled => ~owner /\ ~active /\ \A u \in Threads : ~ref[u]
  BY DEF HeldInv
<1>8. pooled' => ~owner' /\ ~active' /\ \A u \in Threads : ~ref'[u]
  BY <1>5, <1>6, <1>7
<1> QED
  BY <1>3, <1>4, <1>5, <1>6, <1>8, BaseStep

\* A worker without a reference has only the TryRelease left.
LEMMA SubBase ==
    ASSUME HeldInv, ToldInv, NEW t \in Threads, Sub(t)
    PROVE  HeldInv' /\ ToldInv'
<1>1. At(t, "sub")
  BY DEF Sub
<1>2. todo[t] = <<"sub">>
  BY <1>1, AtBase, Heads
<1>3. \/ ref[t] /\ todo' = [todo EXCEPT ![t] = <<"dispatch">>]
      \/ todo' = [todo EXCEPT ![t] = <<"release">>]
  BY <1>2, ThenLast, Bodies DEF Sub
<1>4. /\ <<"dispatch">> \in Plans /\ <<"dispatch">> \notin Telling
      /\ <<"release">> \in Plans /\ <<"release">> \notin Telling
      /\ <<"release">> \in Unheld
  BY DEF Plans, ChainPlans, ClosePlans, Releasing, Unheld, Telling
<1>5. UNCHANGED <<ref, owner, pooled, active, told, isConnected>>
  BY DEF Sub, refs, flags
<1>6. pooled' => ~owner' /\ ~active' /\ \A u \in Threads : ~ref'[u]
  BY <1>5 DEF HeldInv
<1>7. CASE ref[t] /\ todo' = [todo EXCEPT ![t] = <<"dispatch">>]
  BY <1>4, <1>5, <1>6, <1>7, BaseStep
<1>8. CASE todo' = [todo EXCEPT ![t] = <<"release">>]
  BY <1>4, <1>5, <1>6, <1>8, BaseStep
<1> QED
  BY <1>3, <1>7, <1>8

\* The steps that give up the owner or the entry of activeSessions.
LEMMA LetGoBase ==
    ASSUME HeldInv, ToldInv, NEW t \in Threads,
           Disown(t) \/ ResetOwner(t) \/ Erase(t)
    PROVE  HeldInv' /\ ToldInv'
<1>1. Goes(t)
  BY DisownGoes, ResetOwnerGoes, EraseGoes
<1>2. PICK q \in Plans : /\ todo' = [todo EXCEPT ![t] = q]
                         /\ q = <<>> \/ q \in Unheld \/ todo[t] \notin Unheld
                         /\ q \in Telling => todo[t] \in Telling
  BY <1>1 DEF Goes
<1>3. todo[t] \notin Unheld => ref[t]
  BY <1>1 DEF Goes, HeldInv
<1>4. told' = told
  BY DEF Disown, ResetOwner, Erase
<1>5. /\ ref' = ref /\ (owner' => owner) /\ (active' => active)
      /\ isConnected' => isConnected
      /\ pooled' => pooled \/ (~owner' /\ ~active' /\ \A u \in Threads : ~ref'[u])
  <2>1. CASE Disown(t)
    BY <2>1 DEF Disown, Hold, resetFields, flags
  <2>2. CASE ResetOwner(t)
    BY <2>2 DEF ResetOwner, Hold, resetFields, flags
  <2>3. CASE Erase(t)
    BY <2>3 DEF Erase, Hold, resetFields, flags
  <2> QED
    BY <2>1, <2>2, <2>3
<1>6. pooled' => ~owner' /\ ~active' /\ \A u \in Threads : ~ref'[u]
  BY <1>5 DEF HeldInv
<1> QED
  BY <1>2, <1>3, <1>4, <1>5, <1>6, BaseStep

\* A shared_ptr goes out of scope.
LEMMA DropBase ==
    ASSUME HeldInv, ToldInv, TypeOK, NEW t \in Threads, Drop(t)
    PROVE  HeldInv' /\ ToldInv'
<1>1. todo[t] = <<>> /\ todo' = todo /\ told' = told
  BY DEF Drop
<1>2. todo' = [todo EXCEPT ![t] = <<>>]
  BY <1>1 DEF HeldInv
<1>3. <<>> \in Plans /\ <<>> \notin Telling
  BY DEF Plans, Telling
<1>4. ref' = [ref EXCEPT ![t] = FALSE] /\ ref \in [Threads -> BOOLEAN]
  BY DEF Drop, Hold, TypeOK
<1>5. /\ owner' = owner /\ active' = active /\ (isConnected' => isConnected)
      /\ pooled' => pooled \/ (~owner' /\ ~active' /\ \A u \in Threads : ~ref'[u])
  BY DEF Drop, Hold, resetFields, flags
<1>6. \A u \in Threads : u # t => ref'[u] = ref[u]
  BY <1>4
<1>7. ~ref'[t]
  BY <1>4
<1>8. pooled' => ~owner' /\ ~active' /\ \A u \in Threads : ~ref'[u]
  BY <1>5, <1>6, <1>7 DEF HeldInv
<1> QED
  BY <1>1, <1>2, <1>3, <1>5, <1>6, <1>8, BaseStep

\* Only the thread whose exchange finds the session connected will tell.
LEMMA ExchangeBase ==
    ASSUME HeldInv, ToldInv, NEW t \in Threads, Exchange(t)
    PROVE  HeldInv' /\ ToldInv'
<1>1. At(t, "exchange")
  BY DEF Exchange
<1>2. todo[t] = <<"exchange">> \/ todo[t] = <<"exchange", "release">>
  BY <1>1, AtBase, Heads DEF Entering
<1>3. ref[t] /\ todo[t] \notin Telling
  <2>1. CASE todo[t] = <<"exchange">>
    BY <2>1 DEF HeldInv, Busy, Unheld, Telling
  <2>2. CASE todo[t] = <<"exchange", "release">>
    <3>1. todo[t] \notin Unheld
      BY <2>2 DEF Unheld
    <3>2. todo[t] \notin Telling
      BY <2>2 DEF Telling
    <3>3. Busy(t)
      BY <1>1, AtBase
    <3> QED
      BY <3>1, <3>2, <3>3 DEF HeldInv
  <2> QED
    BY <1>2, <2>1, <2>2
<1>4. PICK q \in Plans : /\ todo' = [todo EXCEPT ![t] = q]
                         /\ q \in Telling => isConnected
  <2>1. CASE isConnected
    <3>1. Then(t, <<"flag", "notify", "close", "release">>)
      BY <2>1 DEF Exchange
    <3>2. CASE todo[t] = <<"exchange">>
      <4>1. todo' = [todo EXCEPT ![t] = <<"flag", "notify", "close", "release">>]
        BY <3>1, <3>2, ThenLast, Bodies
      <4>2. <<"flag", "notify", "close", "release">> \in Plans
        BY DEF Plans, ClosePlans, Closing, Telling
      <4> QED
        BY <2>1, <4>1, <4>2
    <3>3. CASE todo[t] = <<"exchange", "release">>
      <4>1. Tail(todo[t]) = <<"release">>
        BY <3>3
      <4>2. todo' = [todo EXCEPT ![t] =
                <<"flag", "notify", "close", "release">> \o <<"release">>]
        BY <3>1, <4>1, ThenRelease
      <4>3. todo' = [todo EXCEPT ![t] =
                <<"flag", "notify", "close", "release", "release">>]
        BY <4>2, Calls
      <4>4. <<"flag", "notify", "close", "release", "release">> \in Plans
        BY DEF Plans, ClosePlans, Closing, Telling
      <4> QED
        BY <2>1, <4>3, <4>4
    <3> QED
      BY <1>2, <3>2, <3>3
  <2>2. CASE ~isConnected
    <3>1. Then(t, <<"flag", "release">>)
      BY <2>2 DEF Exchange
    <3>2. CASE todo[t] = <<"exchange">>
      <4>1. todo' = [todo EXCEPT ![t] = <<"flag", "release">>]
        BY <3>1, <3>2, ThenLast, Bodies
      <4>2. /\ <<"flag", "release">> \in Plans
            /\ <<"flag", "release">> \notin Telling
        BY DEF Plans, ClosePlans, Losing, Telling
      <4> QED
        BY <4>1, <4>2
    <3>3. CASE todo[t] = <<"exchange", "release">>
      <4>1. Tail(todo[t]) = <<"release">>
        BY <3>3
      <4>2. todo' = [todo EXCEPT ![t] = <<"flag", "release">> \o <<"release">>]
        BY <3>1, <4>1, ThenRelease
      <4>3. todo' = [todo EXCEPT ![t] = <<"flag", "release", "release">>]
        BY <4>2, Calls
      <4>4. /\ <<"flag", "release", "release">> \in Plans
            /\ <<"flag", "release", "release">> \notin Telling
        BY DEF Plans, ClosePlans, Losing, Telling
      <4> QED
        BY <4>3, <4>4
    <3> QED
      BY <1>2, <3>2, <3>3
  <2> QED
    BY <2>1, <2>2
<1>5. /\ isConnected' = FALSE
      /\ UNCHANGED <<ref, owner, pooled, active, told>>
  BY DEF Exchange, refs
<1>6. /\ todo' \in [Threads -> Plans]
      /\ todo'[t] = q /\ \A u \in Threads : u # t => todo'[u] = todo[u]
  BY <1>4 DEF HeldInv
<1>7. HeldInv'
  BY <1>3, <1>5, <1>6 DEF HeldInv, Busy
<1>8. isConnected => told = 0 /\ \A u \in Threads : todo[u] \notin Telling
  BY DEF ToldInv
<1>9. ToldInv'
  BY <1>4, <1>5, <1>6, <1>8 DEF ToldInv
<1> QED
  BY <1>7, <1>9

\* OnDisconnected has run, and nobody else is about to run it.
LEMMA NotifyBase ==
    ASSUME HeldInv, ToldInv, NEW t \in Threads, Notify(t)
    PROVE  HeldInv' /\ ToldInv'
<1>1. At(t, "notify")
  BY DEF Notify
<1>2. \/ todo[t] = <<"notify", "close", "release">>
      \/ todo[t] = <<"notify", "close", "release", "release">>
  BY <1>1, AtBase, Heads
<1>3. /\ todo[t] \in Telling /\ ref[t]
      /\ \/ Tail(todo[t]) = <<"close", "release">>
         \/ Tail(todo[t]) = <<"close", "release", "release">>
  <2>1. CASE todo[t] = <<"notify", "close", "release">>
    BY <2>1 DEF HeldInv, Busy, Unheld, Telling
  <2>2. CASE todo[t] = <<"notify", "close", "release", "release">>
    BY <2>2 DEF HeldInv, Busy, Unheld, Telling
  <2> QED
    BY <1>2, <2>1, <2>2
<1>4. Then(t, <<>>)
  BY DEF Notify
<1>5. PICK q \in {<<"close", "release">>, <<"close", "release", "release">>} :
         todo' = [todo EXCEPT ![t] = q]
  BY <1>3, <1>4, ThenNothing, Bodies
<1>6. q \in Plans /\ q \notin Telling
  BY <1>5 DEF Plans, ClosePlans, Closing, Telling
<1>7. /\ told' = told + 1
      /\ UNCHANGED <<ref, owner, pooled, active, isConnected>>
  BY DEF Notify, refs, resetFields, flags
<1>8. /\ todo' \in [Threads -> Plans]
      /\ todo'[t] = q /\ \A u \in Threads : u # t => todo'[u] = todo[u]
  BY <1>5, <1>6 DEF HeldInv
<1>9. HeldInv'
  BY <1>3, <1>7, <1>8 DEF HeldInv, Busy
<1>10. told = 0 /\ ~isConnected /\ \A u \in Threads : u # t => todo[u] \notin Telling
  BY <1>3 DEF ToldInv
<1>11. \A u \in Threads : todo'[u] \notin Telling
  BY <1>6, <1>8, <1>10
<1>12. ToldInv'
  BY <1>7, <1>10, <1>11 DEF ToldInv
<1> QED
  BY <1>9, <1>12

\* A connection begins in the pool, where nobody has a reference.
LEMMA AcceptBase ==
    ASSUME HeldInv, ToldInv, TypeOK, NEW t \in Threads, Accept(t)
    PROVE  HeldInv' /\ ToldInv'
<1>1. /\ pooled /\ \A u \in Threads : ~ref[u]
      /\ todo' = [todo EXCEPT ![t] = <<"activate", "register">>]
      /\ ref' = [ref EXCEPT ![t] = TRUE] /\ ref \in [Threads -> BOOLEAN]
      /\ told' = 0 /\ isConnected' = TRUE /\ pooled' = FALSE
  BY DEF Accept, HeldInv, TypeOK
<1>2. /\ <<"activate", "register">> \in Plans
      /\ <<"activate", "register">> \notin Telling
  BY DEF Plans, ChainPlans, Telling
<1>3. \A u \in Threads : todo[u] \notin Telling
  BY <1>1 DEF HeldInv, Busy, Unheld, Telling
<1>4. /\ todo' \in [Threads -> Plans]
      /\ todo'[t] = <<"activate", "register">>
      /\ \A u \in Threads : u # t => todo'[u] = todo[u] /\ ref'[u] = ref[u]
      /\ ref'[t]
  BY <1>1, <1>2 DEF HeldInv
<1>5. HeldInv'
  BY <1>1, <1>4 DEF HeldInv, Busy
<1>6. ToldInv'
  BY <1>1, <1>2, <1>3, <1>4 DEF ToldInv
<1> QED
  BY <1>5, <1>6

\* A reference is taken from the session map or from a thread's own.
LEMMA CallBase ==
    ASSUME HeldInv, ToldInv, TypeOK, NEW t \in Threads, CallDisconnect(t)
    PROVE  HeldInv' /\ ToldInv'
<1>1. /\ todo' = [todo EXCEPT ![t] = <<"exchange">>]
      /\ ref' = [ref EXCEPT ![t] = TRUE] /\ ref \in [Threads -> BOOLEAN]
      /\ UNCHANGED <<owner, active, pooled, told, isConnected>>
  BY DEF CallDisconnect, TypeOK, resetFields, flags
<1>2. ~pooled
  BY DEF CallDisconnect, HeldInv, Threads
<1>3. <<"exchange">> \in Plans /\ <<"exchange">> \notin Telling
  BY DEF Plans, ClosePlans, Entering, Telling
<1>4. ref'[t] /\ \A u \in Threads : u # t => ref'[u] = ref[u]
  BY <1>1
<1> QED
  BY <1>1, <1>2, <1>3, <1>4, BaseStep

LEMMA CompleteBase ==
    ASSUME HeldInv, ToldInv, NEW t \in Threads, Complete(t)
    PROVE  HeldInv' /\ ToldInv'
<1>1. /\ todo' = [todo EXCEPT ![t] = <<"move">>]
      /\ UNCHANGED <<ref, owner, active, pooled, told, isConnected>>
  BY DEF Complete, resetFields, refs, flags
<1>2. <<"move">> \in Plans /\ <<"move">> \notin Telling /\ <<"move">> \in Unheld
  BY DEF Plans, ChainPlans, Counted, Telling, Unheld
<1>3. pooled' => ~owner' /\ ~active' /\ \A u \in Threads : ~ref'[u]
  BY <1>1 DEF HeldInv
<1> QED
  BY <1>1, <1>2, <1>3, BaseStep

\* The types of what the steps assign.
LEMMA TypeStep ==
    ASSUME TypeOK, HeldInv', [Next]_vars
    PROVE  TypeOK'
<1>1. todo' \in [Threads -> Seq(Labels)]
  BY PlansAreLists DEF HeldInv
<1>2. CASE UNCHANGED vars
  BY <1>2 DEF TypeOK, vars, flags, refs, history
<1>3. ASSUME NEW t \in Threads, Accept(t) \/ CallDisconnect(t)
      PROVE  TypeOK'
  <2>1. CASE Accept(t)
    <3>1. /\ ref' \in [Threads -> BOOLEAN] /\ isConnected' \in BOOLEAN
          /\ socket' \in BOOLEAN /\ hasManager' \in BOOLEAN
          /\ pooled' \in BOOLEAN
      BY <2>1 DEF Accept, TypeOK
    <3>2. told' \in Nat /\ conn' \in Nat
      BY <2>1 DEF Accept, TypeOK
    <3>3. UNCHANGED <<disconnecting, released, recvPendingCnt, owner, active,
                      kernel, bytes, calls, stale, robbed>>
      BY <2>1 DEF Accept, history
    <3> QED
      BY <1>1, <3>1, <3>2, <3>3 DEF TypeOK
  <2>2. CASE CallDisconnect(t)
    BY <1>1, <2>2 DEF CallDisconnect, TypeOK, resetFields, flags, history
  <2> QED
    BY <1>3, <2>1, <2>2
<1>4. ASSUME NEW t \in Threads, Complete(t)
      PROVE  TypeOK'
  <2>1. kernel' \in Nat
    BY <1>4 DEF Complete, TypeOK
  <2>2. bytes' \in [Threads -> BOOLEAN]
    BY <1>4 DEF Complete, TypeOK
  <2> QED
    BY <1>1, <1>4, <2>1, <2>2
    DEF Complete, TypeOK, resetFields, flags, refs, history
<1>5. ASSUME NEW t \in Threads,
             \/ Activate(t) \/ Move(t) \/ ProcessRecv(t) \/ Rearm(t)
             \/ Register(t) \/ Own(t) \/ Exchange(t) \/ Flag(t) \/ Close(t)
             \/ Release(t) \/ CheckPending(t)
      PROVE  TypeOK'
  <2>1. ref' \in [Threads -> BOOLEAN]
    BY <1>5 DEF Activate, Move, ProcessRecv, Rearm, Register, Own, Exchange, Flag,
                Close, Release, CheckPending, TypeOK, refs
  <2>2. /\ isConnected' \in BOOLEAN /\ disconnecting' \in BOOLEAN
        /\ owner' \in BOOLEAN /\ active' \in BOOLEAN /\ socket' \in BOOLEAN
    BY <1>5 DEF Activate, Move, ProcessRecv, Rearm, Register, Own, Exchange, Flag,
                Close, Release, CheckPending, TypeOK, refs, flags, resetFields
  <2>3. UNCHANGED <<released, recvPendingCnt, hasManager, pooled, kernel, bytes,
                    told, conn, calls, stale, robbed>>
    BY <1>5 DEF Activate, Move, ProcessRecv, Rearm, Register, Own, Exchange, Flag,
                Close, Release, CheckPending, refs, flags, resetFields, history
  <2> QED
    BY <1>1, <2>1, <2>2, <2>3 DEF TypeOK
<1>6. ASSUME NEW t \in Threads, Sub(t) \/ Uncount(t) \/ Recv(t) \/ Notify(t)
      PROVE  TypeOK'
  <2>1. recvPendingCnt' \in Int
    BY <1>6 DEF Sub, Uncount, Recv, Notify, TypeOK, resetFields
  <2>2. kernel' \in Nat
    BY <1>6 DEF Sub, Uncount, Recv, Notify, TypeOK
  <2>3. told' \in Nat
    BY <1>6 DEF Sub, Uncount, Recv, Notify, TypeOK
  <2>4. UNCHANGED <<isConnected, disconnecting, released, owner, active, ref,
                    socket, hasManager, pooled, bytes, conn, calls, stale, robbed>>
    BY <1>6 DEF Sub, Uncount, Recv, Notify, refs, flags, resetFields, history
  <2> QED
    BY <1>1, <2>1, <2>2, <2>3, <2>4 DEF TypeOK
<1>7. ASSUME NEW t \in Threads, Count(t)
      PROVE  TypeOK'
  <2>1. recvPendingCnt' \in Int
    BY <1>7 DEF Count, TypeOK
  <2>2. stale' \subseteq Threads
    BY <1>7 DEF Count
  <2>3. UNCHANGED <<isConnected, disconnecting, released, owner, active, ref,
                    socket, hasManager, pooled, kernel, bytes, told, conn, calls,
                    robbed>>
    BY <1>7 DEF Count, refs, flags
  <2> QED
    BY <1>1, <2>1, <2>2, <2>3 DEF TypeOK
<1>8. ASSUME NEW o \in BOOLEAN, NEW a \in BOOLEAN, NEW r \in [Threads -> BOOLEAN],
             Hold(o, a, r), stale' \subseteq Threads, robbed' \in BOOLEAN,
             UNCHANGED <<kernel, bytes, told, conn, calls>>
      PROVE  TypeOK'
  <2>1. /\ owner' \in BOOLEAN /\ active' \in BOOLEAN
        /\ ref' \in [Threads -> BOOLEAN]
    BY <1>8 DEF Hold
  <2>2. recvPendingCnt' \in Int
    <3>1. recvPendingCnt' = 0 \/ recvPendingCnt' = recvPendingCnt
      BY <1>8 DEF Hold, resetFields
    <3> QED
      BY <3>1 DEF TypeOK
  <2>3. /\ isConnected' \in BOOLEAN /\ disconnecting' \in BOOLEAN
        /\ released' \in BOOLEAN /\ socket' \in BOOLEAN
        /\ hasManager' \in BOOLEAN /\ pooled' \in BOOLEAN
    BY <1>8 DEF Hold, TypeOK, resetFields, flags
  <2>4. stale' \subseteq Threads /\ robbed' \in BOOLEAN
    BY <1>8
  <2>5. UNCHANGED <<kernel, bytes, told, conn, calls>>
    BY <1>8
  <2> QED
    BY <1>1, <2>1, <2>2, <2>3, <2>4, <2>5 DEF TypeOK
<1>9. ASSUME NEW t \in Threads, Disown(t) \/ ResetOwner(t) \/ Erase(t) \/ Drop(t)
      PROVE  TypeOK'
  <2>1. /\ owner \in BOOLEAN /\ active \in BOOLEAN /\ robbed \in BOOLEAN
        /\ ref \in [Threads -> BOOLEAN] /\ stale \subseteq Threads
    BY DEF TypeOK
  <2>2. CASE Disown(t)
    BY <2>1, <2>2, <1>8 DEF Disown, history
  <2>3. CASE ResetOwner(t)
    <3>1. robbed' \in BOOLEAN
      BY <2>1, <2>3 DEF ResetOwner
    <3>2. stale' \subseteq Threads
      BY <2>1, <2>3 DEF ResetOwner
    <3> QED
      BY <2>1, <2>3, <3>1, <3>2, <1>8 DEF ResetOwner
  <2>4. CASE Erase(t)
    <3>1. (active /\ ~hasManager) \in BOOLEAN
      OBVIOUS
    <3> QED
      BY <2>1, <2>4, <3>1, <1>8 DEF Erase, history
  <2>5. CASE Drop(t)
    <3>1. [ref EXCEPT ![t] = FALSE] \in [Threads -> BOOLEAN]
      BY <2>1
    <3> QED
      BY <2>1, <2>5, <3>1, <1>8 DEF Drop, history
  <2> QED
    BY <1>9, <2>2, <2>3, <2>4, <2>5
<1> QED
  BY <1>2, <1>3, <1>4, <1>5, <1>6, <1>7, <1>9
  DEF Next, Step, RecvStep, CloseStep

LEMMA BaseInductive == BaseInv /\ [Next]_vars => BaseInv'
<1> SUFFICES ASSUME BaseInv, [Next]_vars PROVE BaseInv'
  OBVIOUS
<1>0. HeldInv /\ ToldInv /\ TypeOK
  BY DEF BaseInv
<1>1. ASSUME UNCHANGED vars PROVE HeldInv' /\ ToldInv'
  <2>1. UNCHANGED <<todo, ref, owner, active, pooled, told, isConnected>>
    BY <1>1 DEF vars, flags, refs
  <2>2. HeldInv'
    BY <1>0, <2>1 DEF HeldInv, Busy
  <2>3. ToldInv'
    BY <1>0, <2>1 DEF ToldInv
  <2> QED
    BY <2>2, <2>3
<1>2. ASSUME NEW t \in Threads, Accept(t) \/ CallDisconnect(t) \/ Complete(t)
      PROVE  HeldInv' /\ ToldInv'
  BY <1>0, <1>2, AcceptBase, CallBase, CompleteBase
<1>3. ASSUME NEW t \in Threads, Activate(t) \/ RecvStep(t)
      PROVE  HeldInv' /\ ToldInv'
  BY <1>0, <1>3, StoreBase, MoveBase, SubBase, PlainBase, LetGoBase DEF RecvStep
<1>4. ASSUME NEW t \in Threads, CloseStep(t) \/ Drop(t)
      PROVE  HeldInv' /\ ToldInv'
  BY <1>0, <1>4, ExchangeBase, NotifyBase, PlainBase, LetGoBase, DropBase
  DEF CloseStep
<1>5. ASSUME Next PROVE HeldInv' /\ ToldInv'
  <2>1. PICK t \in Threads : Accept(t) \/ CallDisconnect(t) \/ Complete(t) \/ Step(t)
    BY <1>5 DEF Next
  <2> QED
    BY <2>1, <1>2, <1>3, <1>4 DEF Step
<1>6. HeldInv' /\ ToldInv'
  BY <1>1, <1>5
<1> QED
  BY <1>0, <1>6, TypeStep DEF BaseInv

-----------------------------------------------------------------------------
(* The theorems                                                            *)

LEMMA LifeInit == Init => LifeInv
<1> SUFFICES ASSUME Init PROVE LifeInv
  OBVIOUS
<1>none. <<>> \notin Chained \cup Closing \cup Losing \cup Flagged
  BY DEF Chained, ChainPlans, Posting, Counted, Closing, Telling, Losing,
         Flagged, Checked
<1>1. TypeOK
  <2>1. <<>> \in Seq(Labels)
    BY Bodies
  <2>2. stale \subseteq Threads /\ todo \in [Threads -> Seq(Labels)]
    BY <2>1 DEF Init
  <2>3. ref \in [Threads -> BOOLEAN] /\ bytes \in [Threads -> BOOLEAN]
    BY DEF Init
  <2>4. recvPendingCnt \in Int
    BY DEF Init
  <2> QED
    BY <2>2, <2>3, <2>4 DEF Init, TypeOK
<1>2. PlanInv
  BY <1>none, Nested DEF Init, PlanInv, Busy, Plans, Threads
<1>3. ChainInv
  BY <1>none, Nested DEF Init, ChainInv, Busy, Threads
<1>4. PoolInv
  BY DEF Init, PoolInv
<1>5. CloseInv
  BY <1>none, Nested DEF Init, CloseInv, Threads
<1>6. ReleaseInv
  BY <1>none, Nested DEF Init, ReleaseInv, Threads
<1> QED
  BY <1>1, <1>2, <1>3, <1>4, <1>5, <1>6 DEF LifeInv

LEMMA BaseInit == Init => BaseInv
<1> SUFFICES ASSUME Init PROVE BaseInv
  OBVIOUS
<1>1. TypeOK
  BY LifeInit DEF LifeInv
<1>2. <<>> \in Plans /\ <<>> \notin Telling
  BY DEF Plans, Telling
<1>3. HeldInv
  BY <1>2 DEF Init, HeldInv, Busy
<1>4. ToldInv
  BY <1>2 DEF Init, ToldInv
<1> QED
  BY <1>1, <1>3, <1>4 DEF BaseInv

\* A step keeps LifeInv, or takes an owner that is needed.
LEMMA LifeInductive == (robbed \/ LifeInv) /\ [Next]_vars => robbed' \/ LifeInv'
<1> SUFFICES ASSUME robbed \/ LifeInv, [Next]_vars, ~robbed' PROVE LifeInv'
  OBVIOUS
<1>0. LifeInv
  <2> SUFFICES ASSUME robbed PROVE FALSE
    OBVIOUS
  <2>1. robbed' = robbed \/ \E t \in Threads : ResetOwner(t)
    BY DEF Next, Step, RecvStep, CloseStep, Accept, CallDisconnect, Complete, Activate,
           Move, Sub, ProcessRecv, Rearm, Register, Own, Count, Recv, Uncount,
           Disown, Exchange, Flag, Notify, Close, Release, CheckPending, Erase,
           Drop, vars, history
  <2>2. robbed'
    BY <2>1 DEF ResetOwner
  <2> QED
    BY <2>2
<1>1. CASE UNCHANGED vars
  BY <1>0, <1>1, StutterKeeps
<1>2. ASSUME NEW t \in Threads, Accept(t) \/ CallDisconnect(t) \/ Complete(t)
      PROVE  LifeInv'
  BY <1>0, <1>2, AcceptKeeps, CallDisconnectKeeps, CompleteKeeps
<1>3. ASSUME NEW t \in Threads, RecvStep(t)
      PROVE  LifeInv'
  BY <1>0, <1>3, MoveKeeps, SubKeeps, ProcessRecvKeeps, RearmKeeps, RegisterKeeps,
     OwnKeeps, CountKeeps, RecvKeeps, UncountKeeps, DisownKeeps DEF RecvStep
<1>4. ASSUME NEW t \in Threads, CloseStep(t)
      PROVE  LifeInv'
  BY <1>0, <1>4, ExchangeKeeps, FlagKeeps, NotifyKeeps, CloseKeeps, ReleaseKeeps,
     CheckPendingKeeps, ResetOwnerKeeps, EraseKeeps DEF CloseStep
<1>5. ASSUME NEW t \in Threads, Activate(t) \/ Drop(t)
      PROVE  LifeInv'
  BY <1>0, <1>5, ActivateKeeps, DropKeeps
<1> QED
  BY <1>1, <1>2, <1>3, <1>4, <1>5 DEF Next, Step

LEMMA BaseAlways == Spec => []BaseInv
  BY BaseInit, BaseInductive, PTL DEF Spec

LEMMA LifeAlways == Spec => [](robbed \/ LifeInv)
<1>1. Init => robbed \/ LifeInv
  BY LifeInit
<1> QED
  BY <1>1, LifeInductive, PTL DEF Spec

\* An object in the pool has a recv in the kernel only after a TryRelease took
\* the owner of a recv that was counted after its test of recvPendingCnt
\* (Session.cpp:164-166), for any number of threads in Disconnect at once.
THEOREM NoRecvInPoolHolds == Spec => []NoRecvInPool
<1>1. robbed \/ LifeInv => NoRecvInPool
  BY DEF LifeInv, PoolInv, ChainInv, NoRecvInPool
<1> QED
  BY <1>1, LifeAlways, PTL

\* recvPendingCnt is the number of recvs that are registered (Session.h:65), at
\* every step of RegisterRecv and ProcessRecv, until such a TryRelease.
THEOREM CountsRecvsHolds == Spec => []CountsRecvs
<1>1. LifeInv => CountsRecvs
  <2> SUFFICES ASSUME LifeInv PROVE CountsRecvs
    OBVIOUS
  <2> DEFINE Has == {t \in Threads :
                        \E l \in {"recv", "uncount", "move", "sub"} : At(t, l)}
  <2>1. ASSUME NEW t \in Threads
        PROVE  t \in Has <=> t \in Iocp /\ todo[t] \in Counted
    <3>1. ASSUME NEW l \in {"recv", "uncount", "move", "sub"}, At(t, l)
          PROVE  t \in Iocp /\ todo[t] \in Counted
      <4>1. todo[t] \in ChainPlans \cup ClosePlans /\ Head(todo[t]) = l
            /\ (todo[t] \in ChainPlans => t \in Iocp)
        BY <3>1, AtPlan DEF LifeInv
      <4>2. todo[t] = <<l>>
        BY <4>1, Heads
      <4>3. todo[t] \in Counted /\ todo[t] \in ChainPlans
        BY <4>2, <3>1 DEF Counted, ChainPlans
      <4> QED
        BY <4>1, <4>3
    <3>2. ASSUME todo[t] \in Counted
          PROVE  \E l \in {"recv", "uncount", "move", "sub"} : At(t, l)
      <4>1. PICK l \in {"recv", "uncount", "move", "sub"} : todo[t] = <<l>>
        BY <3>2 DEF Counted
      <4>2. At(t, l)
        BY <4>1 DEF At
      <4> QED
        BY <4>1, <4>2
    <3> QED
      BY <3>1, <3>2
  <2>2. TypeOK
    BY DEF LifeInv
  <2>3. CASE kernel = 1
    <3>1. <<>> \notin Counted
      BY DEF Counted
    <3>2. \A t \in Iocp : todo[t] \notin Counted
      BY <2>3, <3>1 DEF LifeInv, ChainInv, Busy
    <3>3. Has = {} /\ recvPendingCnt = 1
      BY <2>1, <2>3, <3>2 DEF LifeInv, ChainInv
    <3>4. Cardinality(Has) = 0
      BY <3>3, FS_EmptySet
    <3> QED
      BY <2>2, <2>3, <3>3, <3>4 DEF CountsRecvs
  <2>4. CASE kernel = 0 /\ \E t \in Iocp : todo[t] \in Counted
    <3>1. PICK t \in Iocp : todo[t] \in Counted
      BY <2>4
    <3>2. Busy(t)
      BY <3>1 DEF Counted, Busy
    <3>3. \A u \in Iocp : todo[u] \in Counted => u = t
      BY <3>1, <3>2, ChainAlone, Nested
    <3>4. Has = {t} /\ recvPendingCnt = 1
      BY <2>1, <3>1, <3>2, <3>3, ChainAlone DEF Threads
    <3>5. Cardinality(Has) = 1
      BY <3>4, FS_Singleton
    <3> QED
      BY <2>2, <2>4, <3>4, <3>5 DEF CountsRecvs
  <2>5. CASE kernel = 0 /\ \A t \in Iocp : todo[t] \notin Counted
    <3>1. Has = {} /\ recvPendingCnt = 0
      BY <2>1, <2>5 DEF LifeInv, ChainInv
    <3>2. Cardinality(Has) = 0
      BY <3>1, FS_EmptySet
    <3> QED
      BY <2>2, <2>5, <3>1, <3>2 DEF CountsRecvs
  <2> QED
    BY <2>3, <2>4, <2>5 DEF LifeInv, ChainInv
<1>2. BaseInv /\ (robbed \/ LifeInv) => CountsRecvs
  BY <1>1 DEF BaseInv, CountsRecvs
<1> QED
  BY <1>2, BaseAlways, LifeAlways, PTL

\* OnDisconnected runs at most once per connection, for any number of threads
\* that disconnect it (the exchange of Session::Disconnect), and has run when
\* the object is back in the pool, until such a TryRelease.
THEOREM ToldOnceHolds == Spec => []ToldOnce
<1>1. BaseInv /\ (robbed \/ LifeInv) => ToldOnce
  BY DEF BaseInv, ToldInv, LifeInv, CloseInv, ToldOnce
<1> QED
  BY <1>1, BaseAlways, LifeAlways, PTL
=============================================================================
