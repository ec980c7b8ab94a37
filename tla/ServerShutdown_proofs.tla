------------------------ MODULE ServerShutdown_proofs ------------------------
(***************************************************************************)
(* Proofs about ServerShutdown for any number of workers, handlers,        *)
(* sessions and clients.                                                   *)
(*                                                                         *)
(* The argument: AcceptEx and the recvs of a session form a chain that one *)
(* thread or the kernel has at a time.  Until it is activated nobody else  *)
(* knows the session, and while it is connected or counts a recv it stays  *)
(* in activeSessions.  A socket that is open belongs to a session that is  *)
(* connected, or to the one thread that has yet to close it.               *)
(***************************************************************************)
EXTENDS ServerShutdown, FiniteSetTheorems, SequenceTheorems, TLAPS

-----------------------------------------------------------------------------
(* What threads have to do                                                 *)

\* A worker has accepted a session that is not activated yet.
Fresh == {<<"setopt", "activate", "check", "accept", "loop">>,
          <<"activate", "check", "accept", "loop">>}

\* A worker has the chain of the recvs of a session.
Uncounting == {<<"uncount", "data", "loop">>}
Receiving == Uncounting \cup
             {<<"data", "loop">>, <<"find", "rearm", "loop">>,
              <<"enqueue", "rearm", "loop">>, <<"rearm", "loop">>,
              <<"post", "accept", "loop">>, <<"post", "loop">>}
Chain == Receiving \cup {<<"check", "accept", "loop">>, <<"check", "loop">>}

\* A thread has won the exchange in Disconnect and not closed the socket yet.
Closers == {<<"close", "release", "accept", "loop">>,
            <<"close", "release", "loop">>, <<"close", "release", "hloop">>,
            <<"close", "release">>}

\* A thread is in Disconnect or TryRelease.
Closing == Closers \cup
           {<<"disconnect", "release", "accept", "loop">>,
            <<"release", "accept", "loop">>,
            <<"disconnect", "release", "loop">>, <<"release", "loop">>,
            <<"disconnect", "release", "hloop">>, <<"release", "hloop">>,
            <<"disconnect", "release">>, <<"release">>}

\* A thread that will come to TryRelease unless the session is connected.
Bound == Receiving \cup Closing

\* A thread that will come to RegisterAccept.
Accepts == Fresh \cup
           {<<"check", "accept", "loop">>, <<"post", "accept", "loop">>,
            <<"disconnect", "release", "accept", "loop">>,
            <<"close", "release", "accept", "loop">>,
            <<"release", "accept", "loop">>, <<"accept", "loop">>}

Holding == Fresh \cup Chain \cup Closing \cup
           {<<"handle", "hloop">>, <<"enqueue", "hloop">>}

OnWorkers == Fresh \cup Chain \cup Accepts

Plans == Holding \cup Accepts \cup
         {<<>>, <<"loop">>, <<"poll", "loop">>, <<"hloop">>, <<"take", "hloop">>}

-----------------------------------------------------------------------------
(* The inductive invariant                                                 *)

PlanInv ==
    /\ todo \in [Threads -> Plans]
    /\ \A t \in Threads : todo[t] \in Holding => has[t] \in Sessions
    /\ \A t \in Threads : todo[t] \in OnWorkers => t \in Workers

\* Nobody else knows a session that is being accepted.
Unknown(s) == /\ isConnected[s] /\ ~recv[s] /\ recvPendingCnt[s] = 0
              /\ s \notin active /\ s \notin queued /\ s \notin copy

FreshInv ==
    /\ \A s \in Sessions : accept[s] # "none" =>
          Unknown(s) /\ \A t \in Threads : has[t] # s
    /\ \A t \in Threads : todo[t] \in Fresh =>
          /\ Unknown(has[t]) /\ accept[has[t]] = "none"
          /\ \A u \in Threads : u # t => has[u] # has[t]

\* The recvs of a session form one chain.
ChainInv ==
    /\ \A t \in Threads : todo[t] \in Chain => ~recv[has[t]]
    /\ \A t, u \in Threads :
          todo[t] \in Chain /\ todo[u] \in Chain /\ has[t] = has[u] => t = u

CountInv ==
    \A s \in Sessions :
       recvPendingCnt[s] # 0 <=>
          recv[s] \/ \E t \in Threads : todo[t] \in Uncounting /\ has[t] = s

\* A connected session with a recv, or whose chain goes on, is active.
ActiveInv ==
    /\ \A s \in Sessions : recv[s] /\ isConnected[s] =>
          s \in active \/ (stage \in {"ended", "crashed"} /\ raced)
    /\ \A t \in Threads :
          todo[t] \in Chain /\ isConnected[has[t]] => has[t] \in active

\* A socket is open while its session is connected, and until the thread that
\* disconnected the session has closed it.
OpenInv ==
    \A s \in Sessions : open[s] =>
       isConnected[s] \/ \E t \in Threads : todo[t] \in Closers /\ has[t] = s

AcceptInv ==
    /\ \A s, u \in Sessions : accept[s] # "none" /\ accept[u] # "none" => s = u
    /\ \A t, u \in Threads : todo[t] \in Accepts /\ todo[u] \in Accepts => t = u
    /\ \A s \in Sessions, t \in Threads :
          accept[s] = "none" \/ todo[t] \notin Accepts
    /\ listening /\ ~broken =>
          \/ \E s \in Sessions : accept[s] # "none"
          \/ \E t \in Threads : todo[t] \in Accepts
    /\ \A s \in Sessions : accept[s] = "failed" => ~listening

\* Somebody will erase a session that is disconnected.
ZombieInv ==
    \A s \in active :
       \/ isConnected[s] \/ stage = "crashed" \/ recv[s]
       \/ \E t \in Threads : todo[t] \in Bound /\ has[t] = s

EndInv ==
    /\ stage \in {"ready", "drop", "ended"} => \A w \in Workers : todo[w] = <<>>
    /\ stage \in PastWait /\ ~raced => active = {}

ShutInv == TypeOK /\ PlanInv /\ FreshInv /\ ChainInv /\ CountInv /\ ActiveInv
           /\ OpenInv /\ AcceptInv /\ ZombieInv /\ EndInv

-----------------------------------------------------------------------------
(* Lists of labels                                                         *)

LEMMA Joined ==
    ASSUME NEW a \in Seq(Labels), NEW r \in Seq(Labels), NEW c \in Seq(Labels),
           Len(c) = Len(a) + Len(r),
           \A i \in 1..Len(a) : c[i] = a[i],
           \A i \in 1..Len(r) : c[Len(a) + i] = r[i]
    PROVE  a \o r = c
<1>1. Len(a) \in Nat /\ Len(r) \in Nat
  BY LenProperties
<1>2. a \o r \in Seq(Labels)
  BY ConcatProperties
<1>3. Len(a \o r) = Len(c)
  BY ConcatProperties
<1>4. ASSUME NEW i \in 1..Len(c)
      PROVE  (a \o r)[i] = c[i]
  <2>1. i \in 1..Len(a) + Len(r)
    BY <1>1
  <2>2. (a \o r)[i] = IF i <= Len(a) THEN a[i] ELSE r[i - Len(a)]
    BY <2>1, ConcatProperties
  <2>3. CASE i <= Len(a)
    BY <1>1, <2>1, <2>2, <2>3
  <2>4. CASE ~(i <= Len(a))
    <3>1. i - Len(a) \in 1..Len(r) /\ Len(a) + (i - Len(a)) = i
      BY <1>1, <2>1, <2>4
    <3>2. c[Len(a) + (i - Len(a))] = r[i - Len(a)]
      BY <3>1
    <3> QED
      BY <2>2, <2>4, <3>1, <3>2
  <2> QED
    BY <2>3, <2>4
<1> QED
  BY <1>2, <1>3, <1>4, SeqEqual

\* Lists of the lengths that occur.
LEMMA Joined41 ==
    ASSUME NEW a \in Labels, NEW b \in Labels, NEW c \in Labels,
           NEW d \in Labels, NEW e \in Labels
    PROVE  <<a, b, c, d>> \o <<e>> = <<a, b, c, d, e>>
<1> DEFINE p == <<a, b, c, d>>
           q == <<e>>
           r == <<a, b, c, d, e>>
<1>1. /\ p \in Seq(Labels) /\ q \in Seq(Labels) /\ r \in Seq(Labels)
      /\ Len(p) = 4 /\ Len(q) = 1 /\ Len(r) = 5
      /\ \A i \in 1..4 : r[i] = p[i]
      /\ \A i \in 1..1 : r[4 + i] = q[i]
  OBVIOUS
<1> HIDE DEF p, q, r
<1>2. /\ Len(r) = Len(p) + Len(q)
      /\ \A i \in 1..Len(p) : r[i] = p[i]
      /\ \A i \in 1..Len(q) : r[Len(p) + i] = q[i]
  BY <1>1
<1>3. p \o q = r
  BY <1>1, <1>2, Joined
<1> QED
  BY <1>3 DEF p, q, r

LEMMA Joined21 ==
    ASSUME NEW a \in Labels, NEW b \in Labels, NEW c \in Labels
    PROVE  <<a, b>> \o <<c>> = <<a, b, c>>
<1> DEFINE p == <<a, b>>
           q == <<c>>
           r == <<a, b, c>>
<1>1. /\ p \in Seq(Labels) /\ q \in Seq(Labels) /\ r \in Seq(Labels)
      /\ Len(p) = 2 /\ Len(q) = 1 /\ Len(r) = 3
      /\ \A i \in 1..2 : r[i] = p[i]
      /\ \A i \in 1..1 : r[2 + i] = q[i]
  OBVIOUS
<1> HIDE DEF p, q, r
<1>2. /\ Len(r) = Len(p) + Len(q)
      /\ \A i \in 1..Len(p) : r[i] = p[i]
      /\ \A i \in 1..Len(q) : r[Len(p) + i] = q[i]
  BY <1>1
<1>3. p \o q = r
  BY <1>1, <1>2, Joined
<1> QED
  BY <1>3 DEF p, q, r

LEMMA Joined22 ==
    ASSUME NEW a \in Labels, NEW b \in Labels, NEW c \in Labels, NEW d \in Labels
    PROVE  <<a, b>> \o <<c, d>> = <<a, b, c, d>>
<1> DEFINE p == <<a, b>>
           q == <<c, d>>
           r == <<a, b, c, d>>
<1>1. /\ p \in Seq(Labels) /\ q \in Seq(Labels) /\ r \in Seq(Labels)
      /\ Len(p) = 2 /\ Len(q) = 2 /\ Len(r) = 4
      /\ \A i \in 1..2 : r[i] = p[i]
      /\ \A i \in 1..2 : r[2 + i] = q[i]
  OBVIOUS
<1> HIDE DEF p, q, r
<1>2. /\ Len(r) = Len(p) + Len(q)
      /\ \A i \in 1..Len(p) : r[i] = p[i]
      /\ \A i \in 1..Len(q) : r[Len(p) + i] = q[i]
  BY <1>1
<1>3. p \o q = r
  BY <1>1, <1>2, Joined
<1> QED
  BY <1>3 DEF p, q, r

LEMMA Joined12 ==
    ASSUME NEW a \in Labels, NEW b \in Labels, NEW c \in Labels
    PROVE  <<a>> \o <<b, c>> = <<a, b, c>>
<1> DEFINE p == <<a>>
           q == <<b, c>>
           r == <<a, b, c>>
<1>1. /\ p \in Seq(Labels) /\ q \in Seq(Labels) /\ r \in Seq(Labels)
      /\ Len(p) = 1 /\ Len(q) = 2 /\ Len(r) = 3
      /\ \A i \in 1..1 : r[i] = p[i]
      /\ \A i \in 1..2 : r[1 + i] = q[i]
  OBVIOUS
<1> HIDE DEF p, q, r
<1>2. /\ Len(r) = Len(p) + Len(q)
      /\ \A i \in 1..Len(p) : r[i] = p[i]
      /\ \A i \in 1..Len(q) : r[Len(p) + i] = q[i]
  BY <1>1
<1>3. p \o q = r
  BY <1>1, <1>2, Joined
<1> QED
  BY <1>3 DEF p, q, r

LEMMA Joined13 ==
    ASSUME NEW a \in Labels, NEW b \in Labels, NEW c \in Labels,
           NEW d \in Labels
    PROVE  <<a>> \o <<b, c, d>> = <<a, b, c, d>>
<1> DEFINE p == <<a>>
           q == <<b, c, d>>
           r == <<a, b, c, d>>
<1>1. /\ p \in Seq(Labels) /\ q \in Seq(Labels) /\ r \in Seq(Labels)
      /\ Len(p) = 1 /\ Len(q) = 3 /\ Len(r) = 4
      /\ \A i \in 1..1 : r[i] = p[i]
      /\ \A i \in 1..3 : r[1 + i] = q[i]
  OBVIOUS
<1> HIDE DEF p, q, r
<1>2. /\ Len(r) = Len(p) + Len(q)
      /\ \A i \in 1..Len(p) : r[i] = p[i]
      /\ \A i \in 1..Len(q) : r[Len(p) + i] = q[i]
  BY <1>1
<1>3. p \o q = r
  BY <1>1, <1>2, Joined
<1> QED
  BY <1>3 DEF p, q, r

LEMMA Joined11 ==
    ASSUME NEW a \in Labels, NEW b \in Labels
    PROVE  <<a>> \o <<b>> = <<a, b>>
<1> DEFINE p == <<a>>
           q == <<b>>
           r == <<a, b>>
<1>1. /\ p \in Seq(Labels) /\ q \in Seq(Labels) /\ r \in Seq(Labels)
      /\ Len(p) = 1 /\ Len(q) = 1 /\ Len(r) = 2
      /\ \A i \in 1..1 : r[i] = p[i]
      /\ \A i \in 1..1 : r[1 + i] = q[i]
  OBVIOUS
<1> HIDE DEF p, q, r
<1>2. /\ Len(r) = Len(p) + Len(q)
      /\ \A i \in 1..Len(p) : r[i] = p[i]
      /\ \A i \in 1..Len(q) : r[Len(p) + i] = q[i]
  BY <1>1
<1>3. p \o q = r
  BY <1>1, <1>2, Joined
<1> QED
  BY <1>3 DEF p, q, r

\* The bodies of the callees, before what the caller does next.
LEMMA Calls ==
    /\ <<"setopt", "activate", "check", "accept">> \o <<"loop">>
          = <<"setopt", "activate", "check", "accept", "loop">>
    /\ <<"uncount", "data">> \o <<"loop">>
          = <<"uncount", "data", "loop">>
    /\ <<"disconnect", "release">> \o <<"loop">>
          = <<"disconnect", "release", "loop">>
    /\ <<"disconnect", "release">> \o <<"accept", "loop">>
          = <<"disconnect", "release", "accept", "loop">>
    /\ <<"disconnect", "release">> \o <<"hloop">>
          = <<"disconnect", "release", "hloop">>
    /\ <<"find", "rearm">> \o <<"loop">>
          = <<"find", "rearm", "loop">>
    /\ <<"enqueue">> \o <<"rearm", "loop">>
          = <<"enqueue", "rearm", "loop">>
    /\ <<"check">> \o <<"loop">>
          = <<"check", "loop">>
    /\ <<"release">> \o <<"loop">>
          = <<"release", "loop">>
    /\ <<"post">> \o <<"accept", "loop">>
          = <<"post", "accept", "loop">>
    /\ <<"post">> \o <<"loop">>
          = <<"post", "loop">>
    /\ <<"handle">> \o <<"hloop">>
          = <<"handle", "hloop">>
    /\ <<"enqueue">> \o <<"hloop">>
          = <<"enqueue", "hloop">>
    /\ <<"close">> \o <<"release", "accept", "loop">>
          = <<"close", "release", "accept", "loop">>
    /\ <<"close">> \o <<"release", "loop">>
          = <<"close", "release", "loop">>
    /\ <<"close">> \o <<"release", "hloop">>
          = <<"close", "release", "hloop">>
    /\ <<"close">> \o <<"release">>
          = <<"close", "release">>
<1>l. /\ "accept" \in Labels
      /\ "activate" \in Labels
      /\ "check" \in Labels
      /\ "close" \in Labels
      /\ "data" \in Labels
      /\ "disconnect" \in Labels
      /\ "enqueue" \in Labels
      /\ "find" \in Labels
      /\ "handle" \in Labels
      /\ "hloop" \in Labels
      /\ "loop" \in Labels
      /\ "post" \in Labels
      /\ "rearm" \in Labels
      /\ "release" \in Labels
      /\ "setopt" \in Labels
      /\ "uncount" \in Labels
  BY DEF Labels
<1>1. <<"setopt", "activate", "check", "accept">> \o <<"loop">>
      = <<"setopt", "activate", "check", "accept", "loop">>
  BY <1>l, Joined41
<1>2. <<"uncount", "data">> \o <<"loop">>
      = <<"uncount", "data", "loop">>
  BY <1>l, Joined21
<1>3. <<"disconnect", "release">> \o <<"loop">>
      = <<"disconnect", "release", "loop">>
  BY <1>l, Joined21
<1>4. <<"disconnect", "release">> \o <<"accept", "loop">>
      = <<"disconnect", "release", "accept", "loop">>
  BY <1>l, Joined22
<1>5. <<"disconnect", "release">> \o <<"hloop">>
      = <<"disconnect", "release", "hloop">>
  BY <1>l, Joined21
<1>6. <<"find", "rearm">> \o <<"loop">>
      = <<"find", "rearm", "loop">>
  BY <1>l, Joined21
<1>7. <<"enqueue">> \o <<"rearm", "loop">>
      = <<"enqueue", "rearm", "loop">>
  BY <1>l, Joined12
<1>8. <<"check">> \o <<"loop">>
      = <<"check", "loop">>
  BY <1>l, Joined11
<1>9. <<"release">> \o <<"loop">>
      = <<"release", "loop">>
  BY <1>l, Joined11
<1>10. <<"post">> \o <<"accept", "loop">>
      = <<"post", "accept", "loop">>
  BY <1>l, Joined12
<1>11. <<"post">> \o <<"loop">>
      = <<"post", "loop">>
  BY <1>l, Joined11
<1>12. <<"handle">> \o <<"hloop">>
      = <<"handle", "hloop">>
  BY <1>l, Joined11
<1>13. <<"enqueue">> \o <<"hloop">>
      = <<"enqueue", "hloop">>
  BY <1>l, Joined11
<1>14. <<"close">> \o <<"release", "accept", "loop">>
      = <<"close", "release", "accept", "loop">>
  BY <1>l, Joined13
<1>15. <<"close">> \o <<"release", "loop">>
      = <<"close", "release", "loop">>
  BY <1>l, Joined12
<1>16. <<"close">> \o <<"release", "hloop">>
      = <<"close", "release", "hloop">>
  BY <1>l, Joined12
<1>17. <<"close">> \o <<"release">>
      = <<"close", "release">>
  BY <1>l, Joined11
<1> QED
  BY <1>1, <1>2, <1>3, <1>4, <1>5, <1>6, <1>7, <1>8, <1>9, <1>10, <1>11, <1>12,
     <1>13, <1>14, <1>15, <1>16, <1>17

\* What a thread may have to do is a list of labels.
LEMMA PlansAreLists == Plans \subseteq Seq(Labels)
<1>1. /\ <<"loop">> \in Seq(Labels)
      /\ <<"poll", "loop">> \in Seq(Labels)
      /\ <<"setopt", "activate", "check", "accept", "loop">> \in Seq(Labels)
      /\ <<"activate", "check", "accept", "loop">> \in Seq(Labels)
      /\ <<"check", "accept", "loop">> \in Seq(Labels)
      /\ <<"post", "accept", "loop">> \in Seq(Labels)
      /\ <<"disconnect", "release", "accept", "loop">> \in Seq(Labels)
      /\ <<"release", "accept", "loop">> \in Seq(Labels)
      /\ <<"accept", "loop">> \in Seq(Labels)
      /\ <<"uncount", "data", "loop">> \in Seq(Labels)
      /\ <<"data", "loop">> \in Seq(Labels)
      /\ <<"find", "rearm", "loop">> \in Seq(Labels)
      /\ <<"enqueue", "rearm", "loop">> \in Seq(Labels)
      /\ <<"rearm", "loop">> \in Seq(Labels)
      /\ <<"check", "loop">> \in Seq(Labels)
      /\ <<"post", "loop">> \in Seq(Labels)
      /\ <<"disconnect", "release", "loop">> \in Seq(Labels)
      /\ <<"release", "loop">> \in Seq(Labels)
      /\ <<"hloop">> \in Seq(Labels)
      /\ <<"take", "hloop">> \in Seq(Labels)
      /\ <<"handle", "hloop">> \in Seq(Labels)
      /\ <<"disconnect", "release", "hloop">> \in Seq(Labels)
      /\ <<"release", "hloop">> \in Seq(Labels)
      /\ <<"enqueue", "hloop">> \in Seq(Labels)
      /\ <<"disconnect", "release">> \in Seq(Labels)
      /\ <<"close", "release", "accept", "loop">> \in Seq(Labels)
      /\ <<"close", "release", "loop">> \in Seq(Labels)
      /\ <<"close", "release", "hloop">> \in Seq(Labels)
      /\ <<"close", "release">> \in Seq(Labels)
      /\ <<"release">> \in Seq(Labels)
      /\ <<>> \in Seq(Labels)
  BY DEF Labels
<1> QED
  BY <1>1 DEF Plans, Holding, Accepts, Fresh, Chain, Closers, Closing,
     Receiving, Uncounting

\* From one list of a thread to the next, the chains stay where they are.
Advances(p, q) ==
    /\ q \in Plans
    /\ p \notin Fresh \cup Uncounting /\ q \notin Fresh \cup Uncounting
    /\ p # <<>> /\ p \notin Closers
    /\ p \in Accepts <=> q \in Accepts
    /\ q \in Chain => p \in Chain
    /\ q \in Holding => p \in Holding
    /\ q \in OnWorkers => p \in OnWorkers

LEMMA NoBody ==
    /\ <<>> \o <<"loop">> = <<"loop">>
    /\ <<>> \o <<"hloop">> = <<"hloop">>
    /\ <<>> \o <<>> = <<>>
    /\ <<>> \o <<"accept", "loop">> = <<"accept", "loop">>
    /\ <<>> \o <<"release">> = <<"release">>
    /\ <<>> \o <<"release", "loop">> = <<"release", "loop">>
    /\ <<>> \o <<"release", "hloop">> = <<"release", "hloop">>
    /\ <<>> \o <<"release", "accept", "loop">> = <<"release", "accept", "loop">>
    /\ <<>> \o <<"data", "loop">> = <<"data", "loop">>
    /\ <<>> \o <<"rearm", "loop">> = <<"rearm", "loop">>
    /\ <<>> \o <<"activate", "check", "accept", "loop">>
          = <<"activate", "check", "accept", "loop">>
    /\ <<>> \o <<"check", "accept", "loop">> = <<"check", "accept", "loop">>
<1>1. \A q \in Plans : <<>> \o q = q
  BY PlansAreLists, ConcatEmptySeq
<1> QED
  BY <1>1 DEF Plans, Holding, Accepts, Fresh, Chain, Closers, Closing,
     Receiving, Uncounting

\* What each label leads to.
LEMMA PollPlans ==
    ASSUME NEW p \in Plans, Head(p) = "poll", p # <<>>
    PROVE  /\ p \notin Holding
           /\ p \notin Bound
           /\ p \notin OnWorkers
           /\ Advances(p, <<>> \o Tail(p))
           /\ <<>> \o Tail(p) \notin Holding
           /\ <<"setopt", "activate", "check", "accept">> \o Tail(p)
                 \in Plans \cap Fresh
           /\ <<"setopt", "activate", "check", "accept">> \o Tail(p)
                 \notin Chain \cup Bound
           /\ p \notin Accepts
           /\ <<"uncount", "data">> \o Tail(p)
                 \in Plans \cap Uncounting \cap Chain \cap Bound
           /\ <<"uncount", "data">> \o Tail(p) \notin Fresh \cup Accepts
<1>1. p = <<"poll", "loop">>
  BY DEF Plans, Holding, Accepts, Fresh, Chain, Closers, Closing, Receiving,
     Uncounting
<1>2. CASE p = <<"poll", "loop">>
  <2>1. Tail(p) = <<"loop">>
    BY <1>2
  <2>2. /\ <<>> \o Tail(p) = <<"loop">>
        /\ <<"setopt", "activate", "check", "accept">> \o Tail(p)
              = <<"setopt", "activate", "check", "accept", "loop">>
        /\ <<"uncount", "data">> \o Tail(p) = <<"uncount", "data", "loop">>
    BY <2>1, Calls, NoBody
  <2> QED
    BY <1>2, <2>2
    DEF Advances, Plans, Holding, OnWorkers, Accepts, Fresh, Bound, Closers,
        Closing, Chain, Receiving, Uncounting
<1> QED
  BY <1>1, <1>2

LEMMA DequeuePlans ==
    ASSUME NEW w \in Threads, NEW r \in BOOLEAN, todo \in [Threads -> Seq(Labels)],
           todo[w] \in Plans, todo[w] # <<>>, Head(todo[w]) = "poll",
           Then(w, IF r THEN AcceptBody ELSE <<>>)
    PROVE  /\ todo' = [todo EXCEPT ![w] = todo'[w]]
           /\ todo[w] \notin Holding /\ todo[w] \notin Accepts
           /\ todo[w] \notin OnWorkers /\ todo[w] \notin Bound
           /\ todo'[w] \in Plans
           /\ todo'[w] \notin Chain \cup Bound
           /\ r => todo'[w] \in Fresh /\ todo'[w] \in Accepts
           /\ ~r => /\ todo'[w] \notin Holding /\ todo'[w] \notin Accepts
                    /\ todo'[w] \notin Fresh
<1>1. todo[w] = <<"poll", "loop">>
  BY DEF Plans, Holding, Accepts, Fresh, Chain, Closers, Closing, Receiving,
     Uncounting
<1>2. Tail(todo[w]) = <<"loop">>
  BY <1>1
<1>3. /\ todo'[w] = (IF r THEN AcceptBody ELSE <<>>) \o <<"loop">>
      /\ todo' = [todo EXCEPT ![w] = todo'[w]]
  BY <1>2 DEF Then
<1>4. todo'[w] = IF r THEN <<"setopt", "activate", "check", "accept", "loop">>
                      ELSE <<"loop">>
  BY <1>3, Calls, NoBody DEF AcceptBody
<1>5. /\ todo[w] \notin Holding /\ todo[w] \notin Accepts
      /\ todo[w] \notin OnWorkers /\ todo[w] \notin Bound
  BY <1>1
  DEF Holding, OnWorkers, Accepts, Fresh, Bound, Closers, Closing, Chain,
      Receiving, Uncounting
<1>6. CASE r
  <2>1. todo'[w] = <<"setopt", "activate", "check", "accept", "loop">>
    BY <1>4, <1>6
  <2>2. /\ todo'[w] \in Fresh /\ todo'[w] \in Accepts /\ todo'[w] \in Plans
    BY <2>1 DEF Plans, Accepts, Fresh
  <2>3. todo'[w] \notin Chain \cup Bound
    BY <2>1 DEF Bound, Closers, Closing, Chain, Receiving, Uncounting
  <2> QED
    BY <1>3, <1>5, <1>6, <2>2, <2>3
<1>7. CASE ~r
  <2>1. todo'[w] = <<"loop">>
    BY <1>4, <1>7
  <2> QED
    BY <1>3, <1>5, <1>7, <2>1
    DEF Plans, Holding, Accepts, Fresh, Bound, Closers, Closing, Chain,
        Receiving, Uncounting
<1> QED
  BY <1>6, <1>7

LEMMA SetOptionPlans ==
    ASSUME NEW p \in Plans, Head(p) = "setopt", p # <<>>
    PROVE  /\ p \in Fresh
           /\ p \notin Bound
           /\ <<>> \o Tail(p) \in Plans \cap Fresh
           /\ <<>> \o Tail(p) \notin Chain \cup Bound
<1>1. p = <<"setopt", "activate", "check", "accept", "loop">>
  BY DEF Plans, Holding, Accepts, Fresh, Chain, Closers, Closing, Receiving,
     Uncounting
<1>2. CASE p = <<"setopt", "activate", "check", "accept", "loop">>
  <2>1. Tail(p) = <<"activate", "check", "accept", "loop">>
    BY <1>2
  <2>2. /\ <<>> \o Tail(p) = <<"activate", "check", "accept", "loop">>
    BY <2>1, Calls, NoBody
  <2> QED
    BY <1>2, <2>2
    DEF Advances, Plans, Holding, OnWorkers, Accepts, Fresh, Bound, Closers,
        Closing, Chain, Receiving, Uncounting
<1> QED
  BY <1>1, <1>2

LEMMA ActivatePlans ==
    ASSUME NEW p \in Plans, Head(p) = "activate", p # <<>>
    PROVE  /\ p \in Fresh
           /\ <<>> \o Tail(p) \in Plans \cap Chain \cap Accepts
           /\ <<>> \o Tail(p) \notin Fresh \cup Uncounting
<1>1. p = <<"activate", "check", "accept", "loop">>
  BY DEF Plans, Holding, Accepts, Fresh, Chain, Closers, Closing, Receiving,
     Uncounting
<1>2. CASE p = <<"activate", "check", "accept", "loop">>
  <2>1. Tail(p) = <<"check", "accept", "loop">>
    BY <1>2
  <2>2. /\ <<>> \o Tail(p) = <<"check", "accept", "loop">>
    BY <2>1, Calls, NoBody
  <2> QED
    BY <1>2, <2>2
    DEF Advances, Plans, Holding, OnWorkers, Accepts, Fresh, Bound, Closers,
        Closing, Chain, Receiving, Uncounting
<1> QED
  BY <1>1, <1>2

LEMMA AcceptPlans ==
    ASSUME NEW p \in Plans, Head(p) = "accept", p # <<>>
    PROVE  /\ p \in Accepts
           /\ p \notin Holding
           /\ <<>> \o Tail(p) \in Plans
           /\ <<>> \o Tail(p) \notin Holding \cup Accepts
<1>1. p = <<"accept", "loop">>
  BY DEF Plans, Holding, Accepts, Fresh, Chain, Closers, Closing, Receiving,
     Uncounting
<1>2. CASE p = <<"accept", "loop">>
  <2>1. Tail(p) = <<"loop">>
    BY <1>2
  <2>2. /\ <<>> \o Tail(p) = <<"loop">>
    BY <2>1, Calls, NoBody
  <2> QED
    BY <1>2, <2>2
    DEF Advances, Plans, Holding, OnWorkers, Accepts, Fresh, Bound, Closers,
        Closing, Chain, Receiving, Uncounting
<1> QED
  BY <1>1, <1>2

LEMMA UncountPlans ==
    ASSUME NEW p \in Plans, Head(p) = "uncount", p # <<>>
    PROVE  /\ p \in Uncounting \cap Chain
           /\ p \notin Fresh \cup Accepts
           /\ <<>> \o Tail(p) \in Plans \cap Chain \cap Bound
           /\ <<>> \o Tail(p) \notin Fresh \cup Uncounting \cup Accepts
<1>1. p = <<"uncount", "data", "loop">>
  BY DEF Plans, Holding, Accepts, Fresh, Chain, Closers, Closing, Receiving,
     Uncounting
<1>2. CASE p = <<"uncount", "data", "loop">>
  <2>1. Tail(p) = <<"data", "loop">>
    BY <1>2
  <2>2. /\ <<>> \o Tail(p) = <<"data", "loop">>
    BY <2>1, Calls, NoBody
  <2> QED
    BY <1>2, <2>2
    DEF Advances, Plans, Holding, OnWorkers, Accepts, Fresh, Bound, Closers,
        Closing, Chain, Receiving, Uncounting
<1> QED
  BY <1>1, <1>2

LEMMA LoopPlans ==
    ASSUME NEW p \in Plans, Head(p) = "loop", p # <<>>
    PROVE  /\ Advances(p, <<"poll", "loop">>) /\ Advances(p, <<>>)
           /\ p \notin Holding \cup Bound
           /\ <<"poll", "loop">> \notin Holding /\ <<>> \notin Holding
<1>1. p = <<"loop">>
  BY DEF Plans, Holding, Accepts, Fresh, Chain, Closers, Closing, Receiving,
     Uncounting
<1> QED
  BY <1>1
  DEF Advances, Plans, Holding, OnWorkers, Accepts, Fresh, Bound, Closers,
      Closing, Chain, Receiving, Uncounting

LEMMA HandlerLoopPlans ==
    ASSUME NEW p \in Plans, Head(p) = "hloop", p # <<>>
    PROVE  /\ Advances(p, <<"take", "hloop">>) /\ Advances(p, <<>>)
           /\ p \notin Holding \cup Bound
           /\ <<"take", "hloop">> \notin Holding /\ <<>> \notin Holding
<1>1. p = <<"hloop">>
  BY DEF Plans, Holding, Accepts, Fresh, Chain, Closers, Closing, Receiving,
     Uncounting
<1> QED
  BY <1>1
  DEF Advances, Plans, Holding, OnWorkers, Accepts, Fresh, Bound, Closers,
      Closing, Chain, Receiving, Uncounting

LEMMA DataPlans ==
    ASSUME NEW p \in Plans, Head(p) = "data", p # <<>>
    PROVE  /\ Advances(p, <<"disconnect", "release">> \o Tail(p))
           /\ p \in Bound => <<"disconnect", "release">> \o Tail(p) \in Bound
           /\ Advances(p, <<"find", "rearm">> \o Tail(p))
           /\ p \in Bound => <<"find", "rearm">> \o Tail(p) \in Bound
<1>1. p = <<"data", "loop">>
  BY DEF Plans, Holding, Accepts, Fresh, Chain, Closers, Closing, Receiving,
     Uncounting
<1>2. CASE p = <<"data", "loop">>
  <2>1. Tail(p) = <<"loop">>
    BY <1>2
  <2>2. /\ <<"disconnect", "release">> \o Tail(p)
              = <<"disconnect", "release", "loop">>
        /\ <<"find", "rearm">> \o Tail(p) = <<"find", "rearm", "loop">>
    BY <2>1, Calls, NoBody
  <2> QED
    BY <1>2, <2>2
    DEF Advances, Plans, Holding, OnWorkers, Accepts, Fresh, Bound, Closers,
        Closing, Chain, Receiving, Uncounting
<1> QED
  BY <1>1, <1>2

LEMMA FindPlans ==
    ASSUME NEW p \in Plans, Head(p) = "find", p # <<>>
    PROVE  /\ Advances(p, <<>> \o Tail(p))
           /\ p \in Bound => <<>> \o Tail(p) \in Bound
           /\ Advances(p, <<"enqueue">> \o Tail(p))
           /\ p \in Bound => <<"enqueue">> \o Tail(p) \in Bound
<1>1. p = <<"find", "rearm", "loop">>
  BY DEF Plans, Holding, Accepts, Fresh, Chain, Closers, Closing, Receiving,
     Uncounting
<1>2. CASE p = <<"find", "rearm", "loop">>
  <2>1. Tail(p) = <<"rearm", "loop">>
    BY <1>2
  <2>2. /\ <<>> \o Tail(p) = <<"rearm", "loop">>
        /\ <<"enqueue">> \o Tail(p) = <<"enqueue", "rearm", "loop">>
    BY <2>1, Calls, NoBody
  <2> QED
    BY <1>2, <2>2
    DEF Advances, Plans, Holding, OnWorkers, Accepts, Fresh, Bound, Closers,
        Closing, Chain, Receiving, Uncounting
<1> QED
  BY <1>1, <1>2

LEMMA EnqueuePlans ==
    ASSUME NEW p \in Plans, Head(p) = "enqueue", p # <<>>
    PROVE  /\ p \in Holding
           /\ Advances(p, <<>> \o Tail(p))
           /\ p \in Chain <=> <<>> \o Tail(p) \in Chain
           /\ p \in Bound <=> <<>> \o Tail(p) \in Bound
<1>1. \/ p = <<"enqueue", "rearm", "loop">>
      \/ p = <<"enqueue", "hloop">>
  BY DEF Plans, Holding, Accepts, Fresh, Chain, Closers, Closing, Receiving,
     Uncounting
<1>2. CASE p = <<"enqueue", "rearm", "loop">>
  <2>1. Tail(p) = <<"rearm", "loop">>
    BY <1>2
  <2>2. /\ <<>> \o Tail(p) = <<"rearm", "loop">>
    BY <2>1, Calls, NoBody
  <2> QED
    BY <1>2, <2>2
    DEF Advances, Plans, Holding, OnWorkers, Accepts, Fresh, Bound, Closers,
        Closing, Chain, Receiving, Uncounting
<1>3. CASE p = <<"enqueue", "hloop">>
  <2>1. Tail(p) = <<"hloop">>
    BY <1>3
  <2>2. /\ <<>> \o Tail(p) = <<"hloop">>
    BY <2>1, Calls, NoBody
  <2> QED
    BY <1>3, <2>2
    DEF Advances, Plans, Holding, OnWorkers, Accepts, Fresh, Bound, Closers,
        Closing, Chain, Receiving, Uncounting
<1> QED
  BY <1>1, <1>2, <1>3

LEMMA RearmPlans ==
    ASSUME NEW p \in Plans, Head(p) = "rearm", p # <<>>
    PROVE  /\ Advances(p, <<"check">> \o Tail(p))
           /\ Advances(p, <<"release">> \o Tail(p))
           /\ p \in Bound => <<"release">> \o Tail(p) \in Bound
<1>1. p = <<"rearm", "loop">>
  BY DEF Plans, Holding, Accepts, Fresh, Chain, Closers, Closing, Receiving,
     Uncounting
<1>2. CASE p = <<"rearm", "loop">>
  <2>1. Tail(p) = <<"loop">>
    BY <1>2
  <2>2. /\ <<"check">> \o Tail(p) = <<"check", "loop">>
        /\ <<"release">> \o Tail(p) = <<"release", "loop">>
    BY <2>1, Calls, NoBody
  <2> QED
    BY <1>2, <2>2
    DEF Advances, Plans, Holding, OnWorkers, Accepts, Fresh, Bound, Closers,
        Closing, Chain, Receiving, Uncounting
<1> QED
  BY <1>1, <1>2

LEMMA CheckPlans ==
    ASSUME NEW p \in Plans, Head(p) = "check", p # <<>>
    PROVE  /\ p \notin Bound
           /\ Advances(p, <<>> \o Tail(p))
           /\ Advances(p, <<"post">> \o Tail(p))
<1>1. \/ p = <<"check", "accept", "loop">>
      \/ p = <<"check", "loop">>
  BY DEF Plans, Holding, Accepts, Fresh, Chain, Closers, Closing, Receiving,
     Uncounting
<1>2. CASE p = <<"check", "accept", "loop">>
  <2>1. Tail(p) = <<"accept", "loop">>
    BY <1>2
  <2>2. /\ <<>> \o Tail(p) = <<"accept", "loop">>
        /\ <<"post">> \o Tail(p) = <<"post", "accept", "loop">>
    BY <2>1, Calls, NoBody
  <2> QED
    BY <1>2, <2>2
    DEF Advances, Plans, Holding, OnWorkers, Accepts, Fresh, Bound, Closers,
        Closing, Chain, Receiving, Uncounting
<1>3. CASE p = <<"check", "loop">>
  <2>1. Tail(p) = <<"loop">>
    BY <1>3
  <2>2. /\ <<>> \o Tail(p) = <<"loop">>
        /\ <<"post">> \o Tail(p) = <<"post", "loop">>
    BY <2>1, Calls, NoBody
  <2> QED
    BY <1>3, <2>2
    DEF Advances, Plans, Holding, OnWorkers, Accepts, Fresh, Bound, Closers,
        Closing, Chain, Receiving, Uncounting
<1> QED
  BY <1>1, <1>2, <1>3

LEMMA PostPlans ==
    ASSUME NEW p \in Plans, Head(p) = "post", p # <<>>
    PROVE  /\ p \in Chain
           /\ p \in Bound
           /\ Advances(p, <<>> \o Tail(p))
           /\ <<>> \o Tail(p) \notin Chain
           /\ Advances(p, <<"disconnect", "release">> \o Tail(p))
           /\ <<"disconnect", "release">> \o Tail(p) \notin Chain
           /\ p \in Bound => <<"disconnect", "release">> \o Tail(p) \in Bound
<1>1. \/ p = <<"post", "accept", "loop">>
      \/ p = <<"post", "loop">>
  BY DEF Plans, Holding, Accepts, Fresh, Chain, Closers, Closing, Receiving,
     Uncounting
<1>2. CASE p = <<"post", "accept", "loop">>
  <2>1. Tail(p) = <<"accept", "loop">>
    BY <1>2
  <2>2. /\ <<>> \o Tail(p) = <<"accept", "loop">>
        /\ <<"disconnect", "release">> \o Tail(p)
              = <<"disconnect", "release", "accept", "loop">>
    BY <2>1, Calls, NoBody
  <2> QED
    BY <1>2, <2>2
    DEF Advances, Plans, Holding, OnWorkers, Accepts, Fresh, Bound, Closers,
        Closing, Chain, Receiving, Uncounting
<1>3. CASE p = <<"post", "loop">>
  <2>1. Tail(p) = <<"loop">>
    BY <1>3
  <2>2. /\ <<>> \o Tail(p) = <<"loop">>
        /\ <<"disconnect", "release">> \o Tail(p)
              = <<"disconnect", "release", "loop">>
    BY <2>1, Calls, NoBody
  <2> QED
    BY <1>3, <2>2
    DEF Advances, Plans, Holding, OnWorkers, Accepts, Fresh, Bound, Closers,
        Closing, Chain, Receiving, Uncounting
<1> QED
  BY <1>1, <1>2, <1>3

LEMMA DisconnectPlans ==
    ASSUME NEW p \in Plans, Head(p) = "disconnect", p # <<>>
    PROVE  /\ p \in Bound \cap Holding
           /\ p \notin Chain
           /\ Advances(p, <<>> \o Tail(p))
           /\ <<>> \o Tail(p) \in Bound
           /\ Advances(p, <<"close">> \o Tail(p))
           /\ <<"close">> \o Tail(p) \in Bound \cap Closers
<1>1. \/ p = <<"disconnect", "release", "accept", "loop">>
      \/ p = <<"disconnect", "release", "loop">>
      \/ p = <<"disconnect", "release", "hloop">>
      \/ p = <<"disconnect", "release">>
  BY DEF Plans, Holding, Accepts, Fresh, Chain, Closers, Closing, Receiving,
     Uncounting
<1>2. CASE p = <<"disconnect", "release", "accept", "loop">>
  <2>1. Tail(p) = <<"release", "accept", "loop">>
    BY <1>2
  <2>2. /\ <<>> \o Tail(p) = <<"release", "accept", "loop">>
        /\ <<"close">> \o Tail(p) = <<"close", "release", "accept", "loop">>
    BY <2>1, Calls, NoBody
  <2> QED
    BY <1>2, <2>2
    DEF Advances, Plans, Holding, OnWorkers, Accepts, Fresh, Bound, Closers,
        Closing, Chain, Receiving, Uncounting
<1>3. CASE p = <<"disconnect", "release", "loop">>
  <2>1. Tail(p) = <<"release", "loop">>
    BY <1>3
  <2>2. /\ <<>> \o Tail(p) = <<"release", "loop">>
        /\ <<"close">> \o Tail(p) = <<"close", "release", "loop">>
    BY <2>1, Calls, NoBody
  <2> QED
    BY <1>3, <2>2
    DEF Advances, Plans, Holding, OnWorkers, Accepts, Fresh, Bound, Closers,
        Closing, Chain, Receiving, Uncounting
<1>4. CASE p = <<"disconnect", "release", "hloop">>
  <2>1. Tail(p) = <<"release", "hloop">>
    BY <1>4
  <2>2. /\ <<>> \o Tail(p) = <<"release", "hloop">>
        /\ <<"close">> \o Tail(p) = <<"close", "release", "hloop">>
    BY <2>1, Calls, NoBody
  <2> QED
    BY <1>4, <2>2
    DEF Advances, Plans, Holding, OnWorkers, Accepts, Fresh, Bound, Closers,
        Closing, Chain, Receiving, Uncounting
<1>5. CASE p = <<"disconnect", "release">>
  <2>1. Tail(p) = <<"release">>
    BY <1>5
  <2>2. /\ <<>> \o Tail(p) = <<"release">>
        /\ <<"close">> \o Tail(p) = <<"close", "release">>
    BY <2>1, Calls, NoBody
  <2> QED
    BY <1>5, <2>2
    DEF Advances, Plans, Holding, OnWorkers, Accepts, Fresh, Bound, Closers,
        Closing, Chain, Receiving, Uncounting
<1> QED
  BY <1>1, <1>2, <1>3, <1>4, <1>5

LEMMA ClosePlans ==
    ASSUME NEW p \in Plans, Head(p) = "close", p # <<>>
    PROVE  /\ p \in Bound \cap Holding
           /\ p \notin Chain \cup Fresh \cup Uncounting
           /\ <<>> \o Tail(p) \in Plans \cap Bound
           /\ <<>> \o Tail(p) \notin Chain \cup Fresh \cup Uncounting
           /\ p \in Accepts <=> <<>> \o Tail(p) \in Accepts
           /\ <<>> \o Tail(p) \in OnWorkers => p \in OnWorkers
<1>1. \/ p = <<"close", "release", "accept", "loop">>
      \/ p = <<"close", "release", "loop">>
      \/ p = <<"close", "release", "hloop">>
      \/ p = <<"close", "release">>
  BY DEF Plans, Holding, Accepts, Fresh, Chain, Closers, Closing, Receiving,
     Uncounting
<1>2. CASE p = <<"close", "release", "accept", "loop">>
  <2>1. Tail(p) = <<"release", "accept", "loop">>
    BY <1>2
  <2>2. /\ <<>> \o Tail(p) = <<"release", "accept", "loop">>
    BY <2>1, Calls, NoBody
  <2> QED
    BY <1>2, <2>2
    DEF Advances, Plans, Holding, OnWorkers, Accepts, Fresh, Bound, Closers,
        Closing, Chain, Receiving, Uncounting
<1>3. CASE p = <<"close", "release", "loop">>
  <2>1. Tail(p) = <<"release", "loop">>
    BY <1>3
  <2>2. /\ <<>> \o Tail(p) = <<"release", "loop">>
    BY <2>1, Calls, NoBody
  <2> QED
    BY <1>3, <2>2
    DEF Advances, Plans, Holding, OnWorkers, Accepts, Fresh, Bound, Closers,
        Closing, Chain, Receiving, Uncounting
<1>4. CASE p = <<"close", "release", "hloop">>
  <2>1. Tail(p) = <<"release", "hloop">>
    BY <1>4
  <2>2. /\ <<>> \o Tail(p) = <<"release", "hloop">>
    BY <2>1, Calls, NoBody
  <2> QED
    BY <1>4, <2>2
    DEF Advances, Plans, Holding, OnWorkers, Accepts, Fresh, Bound, Closers,
        Closing, Chain, Receiving, Uncounting
<1>5. CASE p = <<"close", "release">>
  <2>1. Tail(p) = <<"release">>
    BY <1>5
  <2>2. /\ <<>> \o Tail(p) = <<"release">>
    BY <2>1, Calls, NoBody
  <2> QED
    BY <1>5, <2>2
    DEF Advances, Plans, Holding, OnWorkers, Accepts, Fresh, Bound, Closers,
        Closing, Chain, Receiving, Uncounting
<1> QED
  BY <1>1, <1>2, <1>3, <1>4, <1>5

LEMMA ReleasePlans ==
    ASSUME NEW p \in Plans, Head(p) = "release", p # <<>>
    PROVE  /\ p \in Bound \cap Holding
           /\ p \notin Chain
           /\ Advances(p, <<>> \o Tail(p))
           /\ <<>> \o Tail(p) \notin Bound
<1>1. \/ p = <<"release", "accept", "loop">>
      \/ p = <<"release", "loop">>
      \/ p = <<"release", "hloop">>
      \/ p = <<"release">>
  BY DEF Plans, Holding, Accepts, Fresh, Chain, Closers, Closing, Receiving,
     Uncounting
<1>2. CASE p = <<"release", "accept", "loop">>
  <2>1. Tail(p) = <<"accept", "loop">>
    BY <1>2
  <2>2. /\ <<>> \o Tail(p) = <<"accept", "loop">>
    BY <2>1, Calls, NoBody
  <2> QED
    BY <1>2, <2>2
    DEF Advances, Plans, Holding, OnWorkers, Accepts, Fresh, Bound, Closers,
        Closing, Chain, Receiving, Uncounting
<1>3. CASE p = <<"release", "loop">>
  <2>1. Tail(p) = <<"loop">>
    BY <1>3
  <2>2. /\ <<>> \o Tail(p) = <<"loop">>
    BY <2>1, Calls, NoBody
  <2> QED
    BY <1>3, <2>2
    DEF Advances, Plans, Holding, OnWorkers, Accepts, Fresh, Bound, Closers,
        Closing, Chain, Receiving, Uncounting
<1>4. CASE p = <<"release", "hloop">>
  <2>1. Tail(p) = <<"hloop">>
    BY <1>4
  <2>2. /\ <<>> \o Tail(p) = <<"hloop">>
    BY <2>1, Calls, NoBody
  <2> QED
    BY <1>4, <2>2
    DEF Advances, Plans, Holding, OnWorkers, Accepts, Fresh, Bound, Closers,
        Closing, Chain, Receiving, Uncounting
<1>5. CASE p = <<"release">>
  <2>1. Tail(p) = <<>>
    BY <1>5
  <2>2. /\ <<>> \o Tail(p) = <<>>
    BY <2>1, Calls, NoBody
  <2> QED
    BY <1>5, <2>2
    DEF Advances, Plans, Holding, OnWorkers, Accepts, Fresh, Bound, Closers,
        Closing, Chain, Receiving, Uncounting
<1> QED
  BY <1>1, <1>2, <1>3, <1>4, <1>5

LEMMA TakePlans ==
    ASSUME NEW p \in Plans, Head(p) = "take", p # <<>>
    PROVE  /\ p \notin Holding \cup OnWorkers
           /\ Advances(p, <<>> \o Tail(p))
           /\ <<"handle">> \o Tail(p) \in Plans \cap Holding
           /\ <<"handle">> \o Tail(p) \notin Bound \cup OnWorkers
<1>1. p = <<"take", "hloop">>
  BY DEF Plans, Holding, Accepts, Fresh, Chain, Closers, Closing, Receiving,
     Uncounting
<1>2. CASE p = <<"take", "hloop">>
  <2>1. Tail(p) = <<"hloop">>
    BY <1>2
  <2>2. /\ <<>> \o Tail(p) = <<"hloop">>
        /\ <<"handle">> \o Tail(p) = <<"handle", "hloop">>
    BY <2>1, Calls, NoBody
  <2> QED
    BY <1>2, <2>2
    DEF Advances, Plans, Holding, OnWorkers, Accepts, Fresh, Bound, Closers,
        Closing, Chain, Receiving, Uncounting
<1> QED
  BY <1>1, <1>2

LEMMA HandlePlans ==
    ASSUME NEW p \in Plans, Head(p) = "handle", p # <<>>
    PROVE  /\ p \notin Bound
           /\ Advances(p, <<>> \o Tail(p))
           /\ Advances(p, <<"disconnect", "release">> \o Tail(p))
           /\ Advances(p, <<"enqueue">> \o Tail(p))
<1>1. p = <<"handle", "hloop">>
  BY DEF Plans, Holding, Accepts, Fresh, Chain, Closers, Closing, Receiving,
     Uncounting
<1>2. CASE p = <<"handle", "hloop">>
  <2>1. Tail(p) = <<"hloop">>
    BY <1>2
  <2>2. /\ <<>> \o Tail(p) = <<"hloop">>
        /\ <<"disconnect", "release">> \o Tail(p)
              = <<"disconnect", "release", "hloop">>
        /\ <<"enqueue">> \o Tail(p) = <<"enqueue", "hloop">>
    BY <2>1, Calls, NoBody
  <2> QED
    BY <1>2, <2>2
    DEF Advances, Plans, Holding, OnWorkers, Accepts, Fresh, Bound, Closers,
        Closing, Chain, Receiving, Uncounting
<1> QED
  BY <1>1, <1>2

\* How the sets of lists contain each other.
LEMMA Nested ==
    /\ Fresh \subseteq Holding /\ Chain \subseteq Holding /\ Bound \subseteq Holding
    /\ Uncounting \subseteq Chain /\ Closers \subseteq Bound
    /\ Chain \subseteq OnWorkers /\ Fresh \subseteq OnWorkers
    /\ Accepts \subseteq OnWorkers
    /\ <<>> \notin OnWorkers \cup Holding
    /\ \A p \in Fresh : p \notin Chain /\ p \notin Bound /\ p \notin Uncounting
    /\ \A p \in Closers : p \notin Chain /\ p \notin Fresh
  BY DEF Holding, Bound, Chain, Receiving, OnWorkers, Uncounting, Closers,
     Closing, Fresh, Accepts

LEMMA AtPlan ==
    ASSUME ShutInv, NEW t \in Threads, NEW l, At(t, l)
    PROVE  todo[t] \in Plans /\ todo[t] # <<>> /\ Head(todo[t]) = l
  BY DEF ShutInv, PlanInv, At

-----------------------------------------------------------------------------
(* Every step keeps the invariant                                          *)

\* A step that only moves a thread on in its list, perhaps with the session
\* it has worked on going out of scope.
LEMMA MovesOn ==
    ASSUME ShutInv, NEW t \in Threads, NEW q, Advances(todo[t], q),
           todo' = [todo EXCEPT ![t] = q],
           todo[t] \in Bound /\ q \notin Bound => isConnected[has[t]],
           \/ UNCHANGED has
           \/ /\ has' = [has EXCEPT ![t] = None]
              /\ todo[t] \notin Holding /\ q \notin Holding,
           UNCHANGED <<server, active, accept, session, queued, history>>
    PROVE  ShutInv'
<1> USE DEF ShutInv
<1>q. /\ q \in Plans /\ q \notin Fresh /\ q \notin Uncounting
      /\ todo[t] \notin Fresh /\ todo[t] \notin Uncounting /\ todo[t] # <<>>
      /\ todo[t] \notin Closers
      /\ q \in Accepts <=> todo[t] \in Accepts
      /\ q \in Chain => todo[t] \in Chain
      /\ q \in Holding => todo[t] \in Holding
      /\ q \in OnWorkers => todo[t] \in OnWorkers
  BY DEF Advances
<1>rest. /\ todo' \in [Threads -> Plans] /\ todo'[t] = q
         /\ \A u \in Threads : u # t => todo'[u] = todo[u]
         /\ todo[t] \in Bound /\ q \notin Bound => isConnected[has[t]]
         /\ Workers \subseteq Threads
  BY <1>q DEF PlanInv, Threads
<1>has. /\ has' \in [Threads -> Sessions \cup {None}]
        /\ \A u \in Threads : todo'[u] \in Holding => has'[u] = has[u]
        /\ \A u \in Threads : todo[u] \in Holding => has'[u] = has[u]
        /\ \A u \in Threads : has'[u] \in {has[u], None}
  BY <1>rest DEF TypeOK
<1>fresh. \A u \in Threads : todo'[u] \in Fresh =>
             todo[u] \in Fresh /\ has'[u] = has[u] /\ has[u] \in Sessions
  BY Nested, <1>q, <1>rest, <1>has DEF PlanInv
<1>frame. UNCHANGED <<stage, running, listening, processor, copy, clients,
                      active, accept, isConnected, open, recvPendingCnt, recv,
                      queued, broken, raced>>
  BY DEF server, session, history
<1>T. TypeOK'
  BY Nested, <1>q, <1>rest, <1>has, <1>frame, PlansAreLists
  DEF TypeOK, Stages
<1>P. PlanInv'
  BY Nested, <1>q, <1>rest, <1>has, <1>frame
  DEF PlanInv
<1>F. FreshInv'
  BY Nested, <1>q, <1>rest, <1>has, <1>frame, <1>fresh, NoneAssumption
  DEF FreshInv, Unknown
<1>C. ChainInv'
  BY Nested, <1>q, <1>rest, <1>has, <1>frame
  DEF ChainInv
<1>O. OpenInv'
  BY Nested, <1>q, <1>rest, <1>has, <1>frame
  DEF OpenInv
<1>N. CountInv'
  BY Nested, <1>q, <1>rest, <1>has, <1>frame
  DEF CountInv
<1>A. ActiveInv'
  BY Nested, <1>q, <1>rest, <1>has, <1>frame
  DEF ActiveInv
<1>X. AcceptInv'
  BY Nested, <1>q, <1>rest, <1>has, <1>frame
  DEF AcceptInv
<1>Z. ZombieInv'
  BY Nested, <1>q, <1>rest, <1>has, <1>frame
  DEF ZombieInv
<1>E. EndInv'
  BY Nested, <1>q, <1>rest, <1>has, <1>frame
  DEF EndInv, PastWait
<1> QED
  BY <1>T, <1>P, <1>F, <1>C, <1>O, <1>N, <1>A, <1>X, <1>Z, <1>E DEF ShutInv

LEMMA LoopKeeps ==
    ASSUME ShutInv, NEW w \in Workers, Loop(w)
    PROVE  ShutInv'
<1>1. w \in Threads /\ At(w, "loop")
  BY DEF Loop, Threads
<1>2. todo[w] \in Plans /\ todo[w] # <<>> /\ Head(todo[w]) = "loop"
  BY <1>1, AtPlan
<1>3. PICK q : /\ Advances(todo[w], q)
               /\ todo' = [todo EXCEPT ![w] = q]
               /\ todo[w] \in Bound /\ q \notin Bound => isConnected[has[w]]
               /\ todo[w] \notin Holding /\ q \notin Holding
  BY <1>1, <1>2, LoopPlans DEF Loop
<1>4. UNCHANGED <<server, active, accept, session, queued, history>>
  BY DEF Loop
<1>5. has' = [has EXCEPT ![w] = None]
  BY DEF Loop
<1> QED
  BY <1>1, <1>3, <1>4, <1>5, MovesOn

LEMMA TimeoutKeeps ==
    ASSUME ShutInv, NEW w \in Workers, Timeout(w)
    PROVE  ShutInv'
<1>1. w \in Threads /\ At(w, "poll")
  BY DEF Timeout, Threads
<1>2. todo[w] \in Plans /\ todo[w] # <<>> /\ Head(todo[w]) = "poll"
  BY <1>1, AtPlan
<1>3. PICK q : /\ Advances(todo[w], q)
               /\ todo' = [todo EXCEPT ![w] = q]
               /\ todo[w] \in Bound /\ q \notin Bound => isConnected[has[w]]
  BY <1>1, <1>2, PollPlans DEF Timeout, Then
<1>4. UNCHANGED <<server, active, accept, session, queued, history>>
  BY DEF Timeout
<1>5. UNCHANGED has
  BY DEF Timeout
<1> QED
  BY <1>1, <1>3, <1>4, <1>5, MovesOn

LEMMA DataKeeps ==
    ASSUME ShutInv, NEW w \in Workers, Data(w)
    PROVE  ShutInv'
<1>1. w \in Threads /\ At(w, "data")
  BY DEF Data, Threads
<1>2. todo[w] \in Plans /\ todo[w] # <<>> /\ Head(todo[w]) = "data"
  BY <1>1, AtPlan
<1>b. PICK body \in {<<"disconnect", "release">>, <<"find", "rearm">>} :
             todo' = [todo EXCEPT ![w] = body \o Tail(todo[w])]
  BY DEF Data, Then, TypeOK
<1>c. /\ Advances(todo[w], body \o Tail(todo[w]))
      /\ todo[w] \in Bound => body \o Tail(todo[w]) \in Bound
  BY <1>2, DataPlans
<1> DEFINE q == body \o Tail(todo[w])
<1> HIDE DEF q
<1>3. /\ Advances(todo[w], q) /\ todo' = [todo EXCEPT ![w] = q]
      /\ todo[w] \in Bound /\ q \notin Bound => isConnected[has[w]]
  BY <1>b, <1>c DEF q
<1>4. UNCHANGED <<server, active, accept, session, queued, history>>
  BY DEF Data
<1>5. UNCHANGED has
  BY DEF Data
<1> QED
  BY <1>1, <1>3, <1>4, <1>5, MovesOn

LEMMA FindKeeps ==
    ASSUME ShutInv, NEW w \in Workers, Find(w)
    PROVE  ShutInv'
<1>1. w \in Threads /\ At(w, "find")
  BY DEF Find, Threads
<1>2. todo[w] \in Plans /\ todo[w] # <<>> /\ Head(todo[w]) = "find"
  BY <1>1, AtPlan
<1>3. PICK q : /\ Advances(todo[w], q)
               /\ todo' = [todo EXCEPT ![w] = q]
               /\ todo[w] \in Bound /\ q \notin Bound => isConnected[has[w]]
  BY <1>1, <1>2, FindPlans DEF Find, Then
<1>4. UNCHANGED <<server, active, accept, session, queued, history>>
  BY DEF Find
<1>5. UNCHANGED has
  BY DEF Find
<1> QED
  BY <1>1, <1>3, <1>4, <1>5, MovesOn

LEMMA RearmKeeps ==
    ASSUME ShutInv, NEW w \in Workers, Rearm(w)
    PROVE  ShutInv'
<1>1. w \in Threads /\ At(w, "rearm")
  BY DEF Rearm, Threads
<1>2. todo[w] \in Plans /\ todo[w] # <<>> /\ Head(todo[w]) = "rearm"
  BY <1>1, AtPlan
<1>3. PICK q : /\ Advances(todo[w], q)
               /\ todo' = [todo EXCEPT ![w] = q]
               /\ todo[w] \in Bound /\ q \notin Bound => isConnected[has[w]]
  BY <1>1, <1>2, RearmPlans DEF Rearm, Then
<1>4. UNCHANGED <<server, active, accept, session, queued, history>>
  BY DEF Rearm
<1>5. UNCHANGED has
  BY DEF Rearm
<1> QED
  BY <1>1, <1>3, <1>4, <1>5, MovesOn

LEMMA CheckKeeps ==
    ASSUME ShutInv, NEW w \in Workers, Check(w)
    PROVE  ShutInv'
<1>1. w \in Threads /\ At(w, "check")
  BY DEF Check, Threads
<1>2. todo[w] \in Plans /\ todo[w] # <<>> /\ Head(todo[w]) = "check"
  BY <1>1, AtPlan
<1>3. PICK q : /\ Advances(todo[w], q)
               /\ todo' = [todo EXCEPT ![w] = q]
               /\ todo[w] \in Bound /\ q \notin Bound => isConnected[has[w]]
  BY <1>1, <1>2, CheckPlans DEF Check, Then
<1>4. UNCHANGED <<server, active, accept, session, queued, history>>
  BY DEF Check
<1>5. UNCHANGED has
  BY DEF Check
<1> QED
  BY <1>1, <1>3, <1>4, <1>5, MovesOn

LEMMA HandlerLoopKeeps ==
    ASSUME ShutInv, NEW h \in Handlers, HandlerLoop(h)
    PROVE  ShutInv'
<1>1. h \in Threads /\ At(h, "hloop")
  BY DEF HandlerLoop, Threads
<1>2. todo[h] \in Plans /\ todo[h] # <<>> /\ Head(todo[h]) = "hloop"
  BY <1>1, AtPlan
<1>3. PICK q : /\ Advances(todo[h], q)
               /\ todo' = [todo EXCEPT ![h] = q]
               /\ todo[h] \in Bound /\ q \notin Bound => isConnected[has[h]]
               /\ todo[h] \notin Holding /\ q \notin Holding
  BY <1>1, <1>2, HandlerLoopPlans DEF HandlerLoop
<1>4. UNCHANGED <<server, active, accept, session, queued, history>>
  BY DEF HandlerLoop
<1>5. has' = [has EXCEPT ![h] = None]
  BY DEF HandlerLoop
<1> QED
  BY <1>1, <1>3, <1>4, <1>5, MovesOn

LEMMA HandleKeeps ==
    ASSUME ShutInv, NEW h \in Handlers, Handle(h)
    PROVE  ShutInv'
<1>1. h \in Threads /\ At(h, "handle")
  BY DEF Handle, Threads
<1>2. todo[h] \in Plans /\ todo[h] # <<>> /\ Head(todo[h]) = "handle"
  BY <1>1, AtPlan
<1>3. PICK q : /\ Advances(todo[h], q)
               /\ todo' = [todo EXCEPT ![h] = q]
               /\ todo[h] \in Bound /\ q \notin Bound => isConnected[has[h]]
  BY <1>1, <1>2, HandlePlans DEF Handle, Then
<1>4. UNCHANGED <<server, active, accept, session, queued, history>>
  BY DEF Handle
<1>5. UNCHANGED has
  BY DEF Handle
<1> QED
  BY <1>1, <1>3, <1>4, <1>5, MovesOn

LEMMA UncountKeeps ==
    ASSUME ShutInv, NEW w \in Workers, Uncount(w)
    PROVE  ShutInv'
<1> USE DEF ShutInv
<1>1. w \in Threads /\ At(w, "uncount") /\ Workers \subseteq Threads
  BY DEF Uncount, Threads
<1>2. todo[w] \in Plans /\ todo[w] # <<>> /\ Head(todo[w]) = "uncount"
  BY <1>1, AtPlan
<1>q. /\ todo[w] \in Uncounting \cap Chain
      /\ todo[w] \notin Fresh \cup Accepts
      /\ todo'[w] \in Plans \cap Chain \cap Bound
      /\ todo'[w] \notin Fresh \cup Uncounting \cup Accepts
      /\ todo' = [todo EXCEPT ![w] = todo'[w]]
  BY <1>1, <1>2, UncountPlans DEF Uncount, Then, TypeOK
<1>s. /\ has[w] \in Sessions /\ recvPendingCnt[has[w]] = 1 /\ ~recv[has[w]]
      /\ \A u \in Threads : u # w /\ todo[u] \in Chain => has[u] # has[w]
      /\ [recvPendingCnt EXCEPT ![has[w]] = 0] \in [Sessions -> 0..1]
  BY <1>1, <1>q, Nested DEF PlanInv, CountInv, ChainInv, TypeOK
<1>rest. /\ todo' \in [Threads -> Plans]
         /\ \A u \in Threads : u # w => todo'[u] = todo[u]
  BY <1>1, <1>q DEF PlanInv
<1>has. UNCHANGED has
  BY DEF Uncount
<1>frame. /\ recvPendingCnt' = [recvPendingCnt EXCEPT ![has[w]] = 0]
          /\ UNCHANGED <<stage, running, listening, processor, copy, clients,
                         active, accept, isConnected, open, recv, queued,
                         broken, raced>>
  BY <1>s DEF Uncount, server, session, history
<1>holds. \A u \in Threads : todo[u] \in Holding => has[u] \in Sessions
  BY DEF PlanInv
<1>T. TypeOK'
  BY <1>1, <1>2, <1>q, <1>rest, <1>has, <1>frame, <1>holds, Nested, <1>s,
     PlansAreLists
  DEF TypeOK, Stages
<1>P. PlanInv'
  BY <1>1, <1>2, <1>q, <1>rest, <1>has, <1>frame, <1>holds, Nested, <1>s
  DEF PlanInv
<1>F. FreshInv'
  BY <1>1, <1>2, <1>q, <1>rest, <1>has, <1>frame, <1>holds, Nested, <1>s
  DEF FreshInv, Unknown
<1>C. ChainInv'
  BY <1>1, <1>2, <1>q, <1>rest, <1>has, <1>frame, <1>holds, Nested, <1>s
  DEF ChainInv
<1>O. OpenInv'
  BY <1>1, <1>2, <1>q, <1>rest, <1>has, <1>frame, <1>holds, Nested, <1>s
  DEF OpenInv
<1>N. CountInv'
  BY <1>1, <1>2, <1>q, <1>rest, <1>has, <1>frame, <1>holds, Nested, <1>s
  DEF CountInv
<1>A. ActiveInv'
  BY <1>1, <1>2, <1>q, <1>rest, <1>has, <1>frame, <1>holds, Nested, <1>s
  DEF ActiveInv
<1>X. AcceptInv'
  BY <1>1, <1>2, <1>q, <1>rest, <1>has, <1>frame, <1>holds, Nested, <1>s
  DEF AcceptInv
<1>Z. ZombieInv'
  BY <1>1, <1>2, <1>q, <1>rest, <1>has, <1>frame, <1>holds, Nested, <1>s
  DEF ZombieInv
<1>E. EndInv'
  BY <1>1, <1>2, <1>q, <1>rest, <1>has, <1>frame, <1>holds, Nested, <1>s
  DEF EndInv, PastWait
<1> QED
  BY <1>T, <1>P, <1>F, <1>C, <1>O, <1>N, <1>A, <1>X, <1>Z, <1>E DEF ShutInv

LEMMA ActivateKeeps ==
    ASSUME ShutInv, NEW w \in Workers, Activate(w)
    PROVE  ShutInv'
<1> USE DEF ShutInv
<1>1. w \in Threads /\ At(w, "activate") /\ Workers \subseteq Threads
  BY DEF Activate, Threads
<1>2. todo[w] \in Plans /\ todo[w] # <<>> /\ Head(todo[w]) = "activate"
  BY <1>1, AtPlan
<1>q. /\ todo[w] \in Fresh /\ todo[w] \in Accepts
      /\ todo'[w] \in Plans \cap Chain \cap Accepts
      /\ todo'[w] \notin Fresh \cup Uncounting
      /\ todo' = [todo EXCEPT ![w] = todo'[w]]
  BY <1>1, <1>2, ActivatePlans DEF Activate, Then, TypeOK, Accepts
<1>s. /\ has[w] \in Sessions /\ Unknown(has[w]) /\ accept[has[w]] = "none"
      /\ \A u \in Threads : u # w => has[u] # has[w]
      /\ stage \notin {"ready", "drop", "ended"}
  BY <1>1, <1>2, <1>q, Nested DEF PlanInv, FreshInv, EndInv
<1>rest. /\ todo' \in [Threads -> Plans]
         /\ \A u \in Threads : u # w => todo'[u] = todo[u]
  BY <1>1, <1>q DEF PlanInv
<1>has. UNCHANGED has
  BY DEF Activate
<1>frame. /\ active' = active \cup {has[w]}
          /\ raced' = (raced \/ stage \notin {"serving", "close", "copy"})
          /\ UNCHANGED <<stage, running, listening, processor, copy, clients,
                         accept, isConnected, open, recvPendingCnt, recv,
                         queued, broken>>
  BY <1>1, <1>2, <1>q DEF Activate, server, session, history
<1>holds. \A u \in Threads : todo[u] \in Holding => has[u] \in Sessions
  BY DEF PlanInv
<1>T. TypeOK'
  BY <1>1, <1>2, <1>q, <1>rest, <1>has, <1>frame, <1>holds, Nested, <1>s,
     PlansAreLists
  DEF TypeOK, Stages
<1>P. PlanInv'
  BY <1>1, <1>2, <1>q, <1>rest, <1>has, <1>frame, <1>holds, Nested, <1>s
  DEF PlanInv
<1>F. FreshInv'
  BY <1>1, <1>2, <1>q, <1>rest, <1>has, <1>frame, <1>holds, Nested, <1>s
  DEF FreshInv, Unknown
<1>C. ChainInv'
  BY <1>1, <1>2, <1>q, <1>rest, <1>has, <1>frame, <1>holds, Nested, <1>s
  DEF Unknown, ChainInv
<1>O. OpenInv'
  BY <1>1, <1>2, <1>q, <1>rest, <1>has, <1>frame, <1>holds, Nested, <1>s
  DEF OpenInv
<1>N. CountInv'
  BY <1>1, <1>2, <1>q, <1>rest, <1>has, <1>frame, <1>holds, Nested, <1>s
  DEF CountInv
<1>A. ActiveInv'
  BY <1>1, <1>2, <1>q, <1>rest, <1>has, <1>frame, <1>holds, Nested, <1>s
  DEF Unknown, ActiveInv
<1>X. AcceptInv'
  BY <1>1, <1>2, <1>q, <1>rest, <1>has, <1>frame, <1>holds, Nested, <1>s
  DEF AcceptInv
<1>Z. ZombieInv'
  BY <1>1, <1>2, <1>q, <1>rest, <1>has, <1>frame, <1>holds, Nested, <1>s
  DEF Unknown, ZombieInv
<1>E. EndInv'
  BY <1>1, <1>2, <1>q, <1>rest, <1>has, <1>frame, <1>holds, Nested, <1>s
  DEF EndInv, PastWait
<1> QED
  BY <1>T, <1>P, <1>F, <1>C, <1>O, <1>N, <1>A, <1>X, <1>Z, <1>E DEF ShutInv

LEMMA SetOptionKeeps ==
    ASSUME ShutInv, NEW w \in Workers, SetOption(w)
    PROVE  ShutInv'
<1> USE DEF ShutInv
<1>1. w \in Threads /\ At(w, "setopt") /\ Workers \subseteq Threads
  BY DEF SetOption, Threads
<1>2. todo[w] \in Plans /\ todo[w] # <<>> /\ Head(todo[w]) = "setopt"
  BY <1>1, AtPlan
<1>q. /\ todo[w] \in Fresh /\ todo[w] \in Accepts /\ todo[w] \notin Bound
      /\ \/ /\ todo'[w] \in Plans \cap Fresh /\ todo'[w] \in Accepts
            /\ todo'[w] \notin Chain \cup Bound
            /\ UNCHANGED <<isConnected, open, broken>>
         \/ /\ todo'[w] \in Plans
            /\ todo'[w] \notin Holding \cup OnWorkers
            /\ isConnected' = [isConnected EXCEPT ![has[w]] = FALSE]
            /\ open' = [open EXCEPT ![has[w]] = FALSE]
            /\ broken' = (broken \/ listening)
      /\ todo' = [todo EXCEPT ![w] = todo'[w]]
  <2>1. <<"loop">> \in Plans /\ <<"loop">> \notin Holding \cup OnWorkers
    BY DEF Plans, Holding, OnWorkers, Accepts, Fresh, Chain, Receiving,
       Uncounting, Closers, Closing
  <2> QED
    BY <1>1, <1>2, <2>1, SetOptionPlans DEF SetOption, Then, TypeOK, Accepts
<1>s. /\ has[w] \in Sessions /\ Unknown(has[w]) /\ accept[has[w]] = "none"
      /\ \A u \in Threads : u # w => has[u] # has[w]
      /\ stage \notin {"ready", "drop", "ended"}
  BY <1>1, <1>2, <1>q, Nested DEF PlanInv, FreshInv, EndInv
<1>rest. /\ todo' \in [Threads -> Plans]
         /\ \A u \in Threads : u # w => todo'[u] = todo[u]
  BY <1>1, <1>q DEF PlanInv
<1>has. UNCHANGED has
  BY DEF SetOption
<1>frame. /\ isConnected' \in [Sessions -> BOOLEAN]
          /\ broken' \in BOOLEAN
          /\ open' \in [Sessions -> BOOLEAN]
          /\ UNCHANGED <<stage, running, listening, processor, copy, clients,
                         active, accept, recvPendingCnt, recv, queued, raced>>
  BY <1>1, <1>2, <1>q DEF SetOption, server, session, history, TypeOK
<1>holds. \A u \in Threads : todo[u] \in Holding => has[u] \in Sessions
  BY DEF PlanInv
<1>T. TypeOK'
  BY <1>1, <1>2, <1>q, <1>rest, <1>has, <1>frame, <1>holds, Nested, <1>s,
     PlansAreLists
  DEF TypeOK, Stages
<1>P. PlanInv'
  BY <1>1, <1>2, <1>q, <1>rest, <1>has, <1>frame, <1>holds, Nested, <1>s
  DEF PlanInv
<1>F. FreshInv'
  BY <1>1, <1>2, <1>q, <1>rest, <1>has, <1>frame, <1>holds, Nested, <1>s
  DEF FreshInv, Unknown
<1>C. ChainInv'
  BY <1>1, <1>2, <1>q, <1>rest, <1>has, <1>frame, <1>holds, Nested, <1>s
  DEF ChainInv
<1>O. OpenInv'
  <2> SUFFICES ASSUME NEW s \in Sessions, open'[s], ~isConnected'[s]
               PROVE  \E u \in Threads : todo'[u] \in Closers /\ has'[u] = s
    BY DEF OpenInv
  <2>1. CASE s = has[w]
    BY <1>1, <1>q, <1>s, <2>1 DEF Unknown, TypeOK
  <2>2. CASE s # has[w]
    <3>1. open[s] /\ ~isConnected[s]
      BY <1>q, <1>s, <2>2 DEF TypeOK
    <3>2. PICK u \in Threads : todo[u] \in Closers /\ has[u] = s
      BY <3>1 DEF OpenInv
    <3> QED
      BY <2>2, <3>2, <1>rest, <1>has
  <2> QED
    BY <2>1, <2>2
<1>N. CountInv'
  BY <1>1, <1>2, <1>q, <1>rest, <1>has, <1>frame, <1>holds, Nested, <1>s
  DEF CountInv
<1>A. ActiveInv'
  BY <1>1, <1>2, <1>q, <1>rest, <1>has, <1>frame, <1>holds, Nested, <1>s
  DEF ActiveInv
<1>X. AcceptInv'
  BY <1>1, <1>2, <1>q, <1>rest, <1>has, <1>frame, <1>holds, Nested, <1>s
  DEF AcceptInv
<1>Z. ZombieInv'
  <2> SUFFICES ASSUME NEW s \in active', ~isConnected'[s], stage' # "crashed",
                      ~recv'[s]
               PROVE  \E u \in Threads : todo'[u] \in Bound /\ has'[u] = s
    BY DEF ZombieInv
  <2>1. s \in active /\ s \in Sessions
    BY <1>frame DEF TypeOK
  <2>2. CASE s = has[w]
    BY <1>1, <1>q, <1>s, <1>has, <1>frame, <2>1, <2>2 DEF Unknown
  <2>3. CASE s # has[w]
    <3>1. ~isConnected[s] /\ stage # "crashed" /\ ~recv[s]
      BY <1>q, <1>s, <1>frame, <2>1, <2>3
    <3>2. PICK u \in Threads : todo[u] \in Bound /\ has[u] = s
      BY <2>1, <3>1 DEF ZombieInv
    <3>3. u # w
      BY <2>3, <3>2
    <3> QED
      BY <3>2, <3>3, <1>rest, <1>has
  <2> QED
    BY <2>2, <2>3
<1>E. EndInv'
  BY <1>1, <1>2, <1>q, <1>rest, <1>has, <1>frame, <1>holds, Nested, <1>s
  DEF EndInv, PastWait
<1> QED
  BY <1>T, <1>P, <1>F, <1>C, <1>O, <1>N, <1>A, <1>X, <1>Z, <1>E DEF ShutInv

LEMMA DisconnectKeeps ==
    ASSUME ShutInv, NEW t \in Threads, Disconnect(t)
    PROVE  ShutInv'
<1> USE DEF ShutInv
<1>1. t \in Threads /\ At(t, "disconnect") /\ Workers \subseteq Threads
  BY DEF Disconnect, Threads
<1>2. todo[t] \in Plans /\ todo[t] # <<>> /\ Head(todo[t]) = "disconnect"
  BY <1>1, AtPlan
<1>q. /\ todo[t] \in Bound \cap Holding /\ todo[t] \notin Chain
      /\ todo[t] \notin Fresh /\ todo[t] \notin Uncounting
      /\ todo'[t] \notin Fresh /\ todo'[t] \notin Uncounting
      /\ todo'[t] \notin Chain /\ todo'[t] \in Plans
      /\ todo[t] \in Accepts <=> todo'[t] \in Accepts
      /\ todo'[t] \in OnWorkers => todo[t] \in OnWorkers
      /\ todo'[t] \in Bound /\ todo[t] \notin Closers
      /\ isConnected[has[t]] => todo'[t] \in Closers
      /\ todo' = [todo EXCEPT ![t] = todo'[t]]
  <2>1. PICK body \in {<<>>, <<"close">>} :
           /\ todo' = [todo EXCEPT ![t] = body \o Tail(todo[t])]
           /\ isConnected[has[t]] => body = <<"close">>
    BY DEF Disconnect, Then
  <2>2. /\ todo'[t] = body \o Tail(todo[t])
        /\ todo' = [todo EXCEPT ![t] = todo'[t]]
    BY <2>1 DEF TypeOK
  <2>3. /\ Advances(todo[t], body \o Tail(todo[t]))
        /\ todo[t] \in Bound \cap Holding /\ todo[t] \notin Chain
        /\ body \o Tail(todo[t]) \in Bound
        /\ body = <<"close">> => body \o Tail(todo[t]) \in Closers
    BY <1>2, DisconnectPlans
  <2> QED
    BY <2>1, <2>2, <2>3 DEF Advances
<1>s. /\ has[t] \in Sessions /\ accept[has[t]] = "none"
      /\ \A u \in Threads : todo[u] \in Fresh => has[u] # has[t]
      /\ t \in Workers => stage \notin {"ready", "drop", "ended"}
  BY <1>1, <1>2, <1>q, Nested DEF PlanInv, FreshInv, EndInv, Advances
<1>rest. /\ todo' \in [Threads -> Plans]
         /\ \A u \in Threads : u # t => todo'[u] = todo[u]
  BY <1>1, <1>q DEF PlanInv
<1>has. UNCHANGED has
  BY DEF Disconnect
<1>frame. /\ isConnected' = [isConnected EXCEPT ![has[t]] = FALSE]
          /\ UNCHANGED <<stage, running, listening, processor, copy, clients,
                         active, accept, open, recvPendingCnt, recv, queued,
                         broken, raced>>
  BY <1>1, <1>2, <1>q DEF Disconnect, server, session, history
<1>holds. \A u \in Threads : todo[u] \in Holding => has[u] \in Sessions
  BY DEF PlanInv
<1>T. TypeOK'
  BY <1>1, <1>2, <1>q, <1>rest, <1>has, <1>frame, <1>holds, Nested, <1>s,
     PlansAreLists
  DEF TypeOK, Stages
<1>P. PlanInv'
  BY <1>1, <1>2, <1>q, <1>rest, <1>has, <1>frame, <1>holds, Nested, <1>s
  DEF PlanInv
<1>F. FreshInv'
  BY <1>1, <1>2, <1>q, <1>rest, <1>has, <1>frame, <1>holds, Nested, <1>s
  DEF FreshInv, Unknown
<1>C. ChainInv'
  BY <1>1, <1>2, <1>q, <1>rest, <1>has, <1>frame, <1>holds, Nested, <1>s
  DEF ChainInv
<1>O. OpenInv'
  <2> SUFFICES ASSUME NEW s \in Sessions, open[s], ~isConnected'[s]
               PROVE  \E u \in Threads : todo'[u] \in Closers /\ has[u] = s
    BY <1>has, <1>frame DEF OpenInv
  <2>1. CASE s = has[t] /\ isConnected[s]
    BY <1>1, <1>q, <2>1
  <2>2. CASE s # has[t] \/ ~isConnected[s]
    <3>1. ~isConnected[s]
      BY <1>frame, <2>2 DEF TypeOK
    <3>2. PICK u \in Threads : todo[u] \in Closers /\ has[u] = s
      BY <3>1 DEF OpenInv
    <3> QED
      BY <3>2, <1>q, <1>rest
  <2> QED
    BY <2>1, <2>2
<1>N. CountInv'
  BY <1>1, <1>2, <1>q, <1>rest, <1>has, <1>frame, <1>holds, Nested, <1>s
  DEF CountInv
<1>A. ActiveInv'
  BY <1>1, <1>2, <1>q, <1>rest, <1>has, <1>frame, <1>holds, Nested, <1>s
  DEF ActiveInv
<1>X. AcceptInv'
  BY <1>1, <1>2, <1>q, <1>rest, <1>has, <1>frame, <1>holds, Nested, <1>s
  DEF AcceptInv
<1>Z. ZombieInv'
  <2> SUFFICES ASSUME NEW s \in active', ~isConnected'[s], stage' # "crashed",
                      ~recv'[s]
               PROVE  \E u \in Threads : todo'[u] \in Bound /\ has'[u] = s
    BY DEF ZombieInv
  <2>1. s \in active /\ s \in Sessions
    BY <1>frame DEF TypeOK
  <2>2. CASE s = has[t]
    BY <1>1, <1>q, <1>s, <1>has, <1>frame, <2>1, <2>2
  <2>3. CASE s # has[t]
    <3>1. ~isConnected[s] /\ stage # "crashed" /\ ~recv[s]
      BY <1>q, <1>s, <1>frame, <2>1, <2>3
    <3>2. PICK u \in Threads : todo[u] \in Bound /\ has[u] = s
      BY <2>1, <3>1 DEF ZombieInv
    <3>3. u # t
      BY <2>3, <3>2
    <3> QED
      BY <3>2, <3>3, <1>rest, <1>has
  <2> QED
    BY <2>2, <2>3
<1>E. EndInv'
  BY <1>1, <1>2, <1>q, <1>rest, <1>has, <1>frame, <1>holds, Nested, <1>s
  DEF EndInv, PastWait
<1> QED
  BY <1>T, <1>P, <1>F, <1>C, <1>O, <1>N, <1>A, <1>X, <1>Z, <1>E DEF ShutInv

LEMMA CloseSocketKeeps ==
    ASSUME ShutInv, NEW t \in Threads, CloseSocket(t)
    PROVE  ShutInv'
<1> USE DEF ShutInv
<1>1. t \in Threads /\ At(t, "close") /\ Workers \subseteq Threads
  BY DEF CloseSocket, Threads
<1>2. todo[t] \in Plans /\ todo[t] # <<>> /\ Head(todo[t]) = "close"
  BY <1>1, AtPlan
<1>q. /\ todo[t] \in Bound \cap Holding /\ todo[t] \notin Chain
      /\ todo[t] \notin Fresh /\ todo[t] \notin Uncounting
      /\ todo'[t] \notin Fresh /\ todo'[t] \notin Uncounting
      /\ todo'[t] \notin Chain /\ todo'[t] \in Plans
      /\ todo[t] \in Accepts <=> todo'[t] \in Accepts
      /\ todo'[t] \in OnWorkers => todo[t] \in OnWorkers
      /\ todo'[t] \in Bound
      /\ todo' = [todo EXCEPT ![t] = todo'[t]]
  <2>1. /\ todo'[t] = <<>> \o Tail(todo[t])
        /\ todo' = [todo EXCEPT ![t] = todo'[t]]
    BY DEF CloseSocket, Then, TypeOK
  <2> QED
    BY <1>2, <2>1, ClosePlans
<1>s. /\ has[t] \in Sessions /\ accept[has[t]] = "none"
      /\ \A u \in Threads : todo[u] \in Fresh => has[u] # has[t]
      /\ t \in Workers => stage \notin {"ready", "drop", "ended"}
  BY <1>1, <1>2, <1>q, Nested DEF PlanInv, FreshInv, EndInv
<1>rest. /\ todo' \in [Threads -> Plans]
         /\ \A u \in Threads : u # t => todo'[u] = todo[u]
  BY <1>1, <1>q DEF PlanInv
<1>has. UNCHANGED has
  BY DEF CloseSocket
<1>frame. /\ open' = [open EXCEPT ![has[t]] = FALSE]
          /\ UNCHANGED <<stage, running, listening, processor, copy, clients,
                         active, accept, isConnected, recvPendingCnt, recv,
                         queued, broken, raced>>
  BY <1>1, <1>2, <1>q DEF CloseSocket, server, session, history
<1>holds. \A u \in Threads : todo[u] \in Holding => has[u] \in Sessions
  BY DEF PlanInv
<1>T. TypeOK'
  BY <1>1, <1>2, <1>q, <1>rest, <1>has, <1>frame, <1>holds, Nested, <1>s,
     PlansAreLists
  DEF TypeOK, Stages
<1>P. PlanInv'
  BY <1>1, <1>2, <1>q, <1>rest, <1>has, <1>frame, <1>holds, Nested, <1>s
  DEF PlanInv
<1>F. FreshInv'
  BY <1>1, <1>2, <1>q, <1>rest, <1>has, <1>frame, <1>holds, Nested, <1>s
  DEF FreshInv, Unknown
<1>C. ChainInv'
  BY <1>1, <1>2, <1>q, <1>rest, <1>has, <1>frame, <1>holds, Nested, <1>s
  DEF ChainInv
<1>O. OpenInv'
  <2> SUFFICES ASSUME NEW s \in Sessions, open'[s], ~isConnected[s]
               PROVE  \E u \in Threads : todo'[u] \in Closers /\ has[u] = s
    BY <1>has, <1>frame DEF OpenInv
  <2>1. open[s] /\ s # has[t]
    BY <1>s, <1>frame DEF TypeOK
  <2>2. PICK u \in Threads : todo[u] \in Closers /\ has[u] = s
    BY <2>1 DEF OpenInv
  <2> QED
    BY <2>1, <2>2, <1>rest
<1>N. CountInv'
  BY <1>1, <1>2, <1>q, <1>rest, <1>has, <1>frame, <1>holds, Nested, <1>s
  DEF CountInv
<1>A. ActiveInv'
  BY <1>1, <1>2, <1>q, <1>rest, <1>has, <1>frame, <1>holds, Nested, <1>s
  DEF ActiveInv
<1>X. AcceptInv'
  BY <1>1, <1>2, <1>q, <1>rest, <1>has, <1>frame, <1>holds, Nested, <1>s
  DEF AcceptInv
<1>Z. ZombieInv'
  <2> SUFFICES ASSUME NEW s \in active', ~isConnected'[s], stage' # "crashed",
                      ~recv'[s]
               PROVE  \E u \in Threads : todo'[u] \in Bound /\ has'[u] = s
    BY DEF ZombieInv
  <2>1. s \in active /\ s \in Sessions
    BY <1>frame DEF TypeOK
  <2>2. CASE s = has[t]
    BY <1>1, <1>q, <1>s, <1>has, <1>frame, <2>1, <2>2
  <2>3. CASE s # has[t]
    <3>1. ~isConnected[s] /\ stage # "crashed" /\ ~recv[s]
      BY <1>q, <1>s, <1>frame, <2>1, <2>3
    <3>2. PICK u \in Threads : todo[u] \in Bound /\ has[u] = s
      BY <2>1, <3>1 DEF ZombieInv
    <3>3. u # t
      BY <2>3, <3>2
    <3> QED
      BY <3>2, <3>3, <1>rest, <1>has
  <2> QED
    BY <2>2, <2>3
<1>E. EndInv'
  BY <1>1, <1>2, <1>q, <1>rest, <1>has, <1>frame, <1>holds, Nested, <1>s
  DEF EndInv, PastWait
<1> QED
  BY <1>T, <1>P, <1>F, <1>C, <1>O, <1>N, <1>A, <1>X, <1>Z, <1>E DEF ShutInv

LEMMA TryReleaseKeeps ==
    ASSUME ShutInv, NEW t \in Threads, TryRelease(t)
    PROVE  ShutInv'
<1> USE DEF ShutInv
<1>1. t \in Threads /\ At(t, "release") /\ Workers \subseteq Threads
  BY DEF TryRelease, Threads
<1>2. todo[t] \in Plans /\ todo[t] # <<>> /\ Head(todo[t]) = "release"
  BY <1>1, AtPlan
<1>q. /\ todo[t] \in Bound \cap Holding /\ todo[t] \notin Chain
      /\ todo[t] \notin Fresh /\ todo[t] \notin Uncounting
      /\ todo'[t] \notin Fresh /\ todo'[t] \notin Uncounting
      /\ todo'[t] \notin Chain /\ todo'[t] \in Plans
      /\ todo[t] \in Accepts <=> todo'[t] \in Accepts
      /\ todo'[t] \in OnWorkers => todo[t] \in OnWorkers
      /\ todo'[t] \notin Bound /\ todo[t] \notin Closers
      /\ todo' = [todo EXCEPT ![t] = todo'[t]]
  BY <1>1, <1>2, ReleasePlans DEF TryRelease, Then, TypeOK, Advances
<1>s. /\ has[t] \in Sessions
      /\ t \in Workers => stage \notin {"ready", "drop", "ended"}
  BY <1>1, <1>2, <1>q, Nested DEF PlanInv, EndInv
<1>rest. /\ todo' \in [Threads -> Plans]
         /\ \A u \in Threads : u # t => todo'[u] = todo[u]
  BY <1>1, <1>q DEF PlanInv
<1>has. UNCHANGED has
  BY DEF TryRelease
<1>frame. /\ active' = IF ~isConnected[has[t]] /\ recvPendingCnt[has[t]] = 0
                       THEN active \ {has[t]} ELSE active
          /\ UNCHANGED <<stage, running, listening, processor, copy, clients,
                         accept, isConnected, open, recvPendingCnt, recv,
                         queued, broken, raced>>
  BY <1>1, <1>2, <1>q DEF TryRelease, server, session, history
<1>holds. \A u \in Threads : todo[u] \in Holding => has[u] \in Sessions
  BY DEF PlanInv
<1>erased. \A s \in Sessions : s \in active /\ s \notin active' =>
              /\ ~isConnected[s] /\ ~recv[s]
              /\ \A u \in Threads : todo[u] \in Uncounting => has[u] # s
  BY <1>s, <1>frame DEF CountInv
<1>kept. has[t] \in active' =>
            \/ isConnected[has[t]] \/ recv[has[t]]
            \/ \E u \in Threads : /\ u # t /\ todo[u] \in Bound
                                 /\ has[u] = has[t]
  <2>1. ASSUME has[t] \in active', ~isConnected[has[t]]
        PROVE  recvPendingCnt[has[t]] # 0
    BY <2>1, <1>s, <1>frame DEF TypeOK
  <2>2. \A u \in Threads : todo[u] \in Uncounting => u # t /\ todo[u] \in Bound
    BY <1>q DEF Bound, Receiving
  <2> QED
    BY <2>1, <2>2, <1>s DEF CountInv
<1>T. TypeOK'
  BY <1>1, <1>2, <1>q, <1>rest, <1>has, <1>frame, <1>holds, Nested, <1>s,
     PlansAreLists
  DEF TypeOK, Stages
<1>P. PlanInv'
  BY <1>1, <1>2, <1>q, <1>rest, <1>has, <1>frame, <1>holds, Nested, <1>s
  DEF PlanInv
<1>F. FreshInv'
  BY <1>1, <1>2, <1>q, <1>rest, <1>has, <1>frame, <1>holds, Nested, <1>s
  DEF FreshInv, Unknown
<1>C. ChainInv'
  BY <1>1, <1>2, <1>q, <1>rest, <1>has, <1>frame, <1>holds, Nested, <1>s
  DEF ChainInv
<1>O. OpenInv'
  BY <1>1, <1>2, <1>q, <1>rest, <1>has, <1>frame, <1>holds, Nested, <1>s
  DEF OpenInv
<1>N. CountInv'
  BY <1>1, <1>2, <1>q, <1>rest, <1>has, <1>frame, <1>holds, Nested, <1>s
  DEF CountInv
<1>A. ActiveInv'
  BY <1>1, <1>2, <1>q, <1>rest, <1>has, <1>frame, <1>holds, Nested, <1>s,
     <1>erased
  DEF ActiveInv
<1>X. AcceptInv'
  BY <1>1, <1>2, <1>q, <1>rest, <1>has, <1>frame, <1>holds, Nested, <1>s
  DEF AcceptInv
<1>Z. ZombieInv'
  BY <1>1, <1>2, <1>q, <1>rest, <1>has, <1>frame, <1>holds, Nested, <1>s,
     <1>kept
  DEF ZombieInv
<1>E. EndInv'
  BY <1>1, <1>2, <1>q, <1>rest, <1>has, <1>frame, <1>holds, Nested, <1>s
  DEF EndInv, PastWait
<1> QED
  BY <1>T, <1>P, <1>F, <1>C, <1>O, <1>N, <1>A, <1>X, <1>Z, <1>E DEF ShutInv

LEMMA DequeueKeeps ==
    ASSUME ShutInv, NEW w \in Workers, Dequeue(w)
    PROVE  ShutInv'
<1> USE DEF ShutInv
<1>1. w \in Threads /\ At(w, "poll") /\ Workers \subseteq Threads
  BY DEF Dequeue, Threads
<1>2. todo[w] \in Plans /\ todo[w] # <<>> /\ Head(todo[w]) = "poll"
  BY <1>1, AtPlan
<1>q. PICK s \in Sessions :
         /\ Accepted(s)
         /\ accept' = [accept EXCEPT ![s] = "none"]
         /\ has' = [has EXCEPT ![w] = s]
         /\ todo' = [todo EXCEPT ![w] = todo'[w]]
         /\ todo[w] \notin Holding /\ todo[w] \notin Accepts
         /\ todo[w] \notin OnWorkers /\ todo[w] \notin Bound
         /\ todo'[w] \in Plans
         /\ todo'[w] \notin Chain \cup Bound
         /\ \/ /\ accept[s] = "done"
               /\ todo'[w] \in Fresh /\ todo'[w] \in Accepts
            \/ /\ accept[s] = "failed"
               /\ todo'[w] \notin Holding /\ todo'[w] \notin Accepts
               /\ todo'[w] \notin Fresh
  BY <1>1, <1>2, DequeuePlans DEF Dequeue, Accepted, TypeOK
<1>s. /\ Unknown(s) /\ accept[s] \in {"done", "failed"}
      /\ \A u \in Threads : has[u] # s
      /\ stage \notin {"ready", "drop", "ended"}
  BY <1>1, <1>2, <1>q DEF FreshInv, EndInv, Accepted
<1>rest. /\ todo' \in [Threads -> Plans]
         /\ \A u \in Threads : u # w => todo'[u] = todo[u]
  BY <1>1, <1>q DEF PlanInv
<1>has. /\ has'[w] = s
        /\ has' \in [Threads -> Sessions \cup {None}]
        /\ \A u \in Threads : u # w => has'[u] = has[u]
  BY <1>1, <1>q DEF Dequeue, TypeOK
<1>frame. /\ accept'[s] = "none"
          /\ \A u \in Sessions : u # s => accept'[u] = accept[u]
          /\ accept' \in [Sessions -> {"none", "posted", "done", "failed"}]
          /\ UNCHANGED <<stage, running, listening, processor, copy, clients,
                         active, isConnected, open, recvPendingCnt, recv,
                         queued, broken, raced>>
  BY <1>1, <1>2, <1>q DEF Dequeue, server, session, history, TypeOK
<1>holds. \A u \in Threads : todo[u] \in Holding => has[u] \in Sessions
  BY DEF PlanInv
<1>T. TypeOK'
  BY <1>1, <1>2, <1>q, <1>rest, <1>has, <1>frame, <1>holds, Nested, <1>s,
     PlansAreLists
  DEF TypeOK, Stages
<1>P. PlanInv'
  BY <1>1, <1>2, <1>q, <1>rest, <1>has, <1>frame, <1>holds, Nested, <1>s
  DEF PlanInv
<1>F. FreshInv'
  BY <1>1, <1>2, <1>q, <1>rest, <1>has, <1>frame, <1>holds, Nested, <1>s
  DEF FreshInv, Unknown
<1>C. ChainInv'
  BY <1>1, <1>2, <1>q, <1>rest, <1>has, <1>frame, <1>holds, Nested, <1>s
  DEF ChainInv
<1>O. OpenInv'
  BY <1>1, <1>2, <1>q, <1>rest, <1>has, <1>frame, <1>holds, Nested, <1>s
  DEF OpenInv
<1>N. CountInv'
  BY <1>1, <1>2, <1>q, <1>rest, <1>has, <1>frame, <1>holds, Nested, <1>s
  DEF CountInv
<1>A. ActiveInv'
  BY <1>1, <1>2, <1>q, <1>rest, <1>has, <1>frame, <1>holds, Nested, <1>s
  DEF ActiveInv
<1>X. AcceptInv'
  BY <1>1, <1>2, <1>q, <1>rest, <1>has, <1>frame, <1>holds, Nested, <1>s
  DEF AcceptInv
<1>Z. ZombieInv'
  BY <1>1, <1>2, <1>q, <1>rest, <1>has, <1>frame, <1>holds, Nested, <1>s
  DEF ZombieInv
<1>E. EndInv'
  BY <1>1, <1>2, <1>q, <1>rest, <1>has, <1>frame, <1>holds, Nested, <1>s
  DEF EndInv, PastWait
<1> QED
  BY <1>T, <1>P, <1>F, <1>C, <1>O, <1>N, <1>A, <1>X, <1>Z, <1>E DEF ShutInv

LEMMA CompleteKeeps ==
    ASSUME ShutInv, stage # "crashed", NEW w \in Workers, Complete(w)
    PROVE  ShutInv'
<1> USE DEF ShutInv
<1>1. w \in Threads /\ At(w, "poll") /\ Workers \subseteq Threads
  BY DEF Complete, Threads
<1>2. todo[w] \in Plans /\ todo[w] # <<>> /\ Head(todo[w]) = "poll"
  BY <1>1, AtPlan
<1>q. PICK s \in Sessions :
         /\ recv[s]
         /\ recv' = [recv EXCEPT ![s] = FALSE]
         /\ has' = [has EXCEPT ![w] = s]
         /\ todo' = [todo EXCEPT ![w] = todo'[w]]
         /\ todo[w] \notin Holding /\ todo[w] \notin OnWorkers
         /\ todo[w] \notin Bound
         /\ todo'[w] \in Plans /\ todo'[w] \in Uncounting
         /\ todo'[w] \in Chain /\ todo'[w] \in Bound
         /\ todo'[w] \notin Fresh /\ todo'[w] \notin Accepts
  <2>1. PICK s \in Sessions : /\ recv[s]
                              /\ recv' = [recv EXCEPT ![s] = FALSE]
                              /\ has' = [has EXCEPT ![w] = s]
    BY DEF Complete
  <2>2. todo' = [todo EXCEPT ![w] = <<"uncount", "data">> \o Tail(todo[w])]
    BY DEF Complete, Then
  <2>3. /\ todo'[w] = <<"uncount", "data">> \o Tail(todo[w])
        /\ todo' = [todo EXCEPT ![w] = todo'[w]]
    BY <1>1, <2>2 DEF TypeOK
  <2>4. /\ todo[w] \notin Holding /\ todo[w] \notin OnWorkers
        /\ todo[w] \notin Bound
    BY <1>2, PollPlans, Nested
  <2>5. /\ todo'[w] \in Plans /\ todo'[w] \in Uncounting
        /\ todo'[w] \in Chain /\ todo'[w] \in Bound
        /\ todo'[w] \notin Fresh /\ todo'[w] \notin Accepts
    BY <1>2, <2>3, PollPlans
  <2> QED
    BY <2>1, <2>3, <2>4, <2>5
<1>s. /\ accept[s] = "none" /\ recvPendingCnt[s] # 0
      /\ isConnected[s] => s \in active
      /\ \A u \in Threads : todo[u] \in Fresh => has[u] # s
      /\ \A u \in Threads : todo[u] \in Chain => has[u] # s
      /\ stage \notin {"ready", "drop", "ended"}
  BY <1>1, <1>2, <1>q
  DEF FreshInv, Unknown, ChainInv, ActiveInv, CountInv, EndInv
<1>rest. /\ todo' \in [Threads -> Plans]
         /\ \A u \in Threads : u # w => todo'[u] = todo[u]
  BY <1>1, <1>q DEF PlanInv
<1>has. /\ has'[w] = s
        /\ has' \in [Threads -> Sessions \cup {None}]
        /\ \A u \in Threads : u # w => has'[u] = has[u]
  BY <1>1, <1>q DEF Complete, TypeOK
<1>frame. /\ ~recv'[s]
          /\ \A u \in Sessions : u # s => recv'[u] = recv[u]
          /\ recv' \in [Sessions -> BOOLEAN]
          /\ UNCHANGED <<stage, running, listening, processor, copy, clients,
                         active, accept, isConnected, open, recvPendingCnt,
                         queued, broken, raced>>
  BY <1>1, <1>2, <1>q DEF Complete, server, session, history, TypeOK
<1>holds. \A u \in Threads : todo[u] \in Holding => has[u] \in Sessions
  BY DEF PlanInv
<1>T. TypeOK'
  BY <1>1, <1>2, <1>q, <1>rest, <1>has, <1>frame, <1>holds, Nested, <1>s,
     PlansAreLists
  DEF TypeOK, Stages
<1>P. PlanInv'
  BY <1>1, <1>2, <1>q, <1>rest, <1>has, <1>frame, <1>holds, Nested, <1>s
  DEF PlanInv
<1>F. FreshInv'
  BY <1>1, <1>2, <1>q, <1>rest, <1>has, <1>frame, <1>holds, Nested, <1>s
  DEF FreshInv, Unknown
<1>C. ChainInv'
  BY <1>1, <1>2, <1>q, <1>rest, <1>has, <1>frame, <1>holds, Nested, <1>s
  DEF ChainInv
<1>O. OpenInv'
  BY <1>1, <1>2, <1>q, <1>rest, <1>has, <1>frame, <1>holds, Nested, <1>s
  DEF OpenInv
<1>N. CountInv'
  BY <1>1, <1>2, <1>q, <1>rest, <1>has, <1>frame, <1>holds, Nested, <1>s
  DEF CountInv
<1>A. ActiveInv'
  BY <1>1, <1>2, <1>q, <1>rest, <1>has, <1>frame, <1>holds, Nested, <1>s
  DEF ActiveInv
<1>X. AcceptInv'
  BY <1>1, <1>2, <1>q, <1>rest, <1>has, <1>frame, <1>holds, Nested, <1>s
  DEF AcceptInv
<1>Z. ZombieInv'
  BY <1>1, <1>2, <1>q, <1>rest, <1>has, <1>frame, <1>holds, Nested, <1>s
  DEF ZombieInv
<1>E. EndInv'
  BY <1>1, <1>2, <1>q, <1>rest, <1>has, <1>frame, <1>holds, Nested, <1>s
  DEF EndInv, PastWait
<1> QED
  BY <1>T, <1>P, <1>F, <1>C, <1>O, <1>N, <1>A, <1>X, <1>Z, <1>E DEF ShutInv

LEMMA RegisterAcceptKeeps ==
    ASSUME ShutInv, NEW w \in Workers, RegisterAccept(w)
    PROVE  ShutInv'
<1> USE DEF ShutInv
<1>1. w \in Threads /\ At(w, "accept") /\ Workers \subseteq Threads
  BY DEF RegisterAccept, Threads
<1>2. todo[w] \in Plans /\ todo[w] # <<>> /\ Head(todo[w]) = "accept"
  BY <1>1, AtPlan
<1>q. PICK s \in Sessions \cup {None} :
         /\ \/ /\ s \in Sessions /\ Pooled(s) /\ listening
               /\ isConnected' = [isConnected EXCEPT ![s] = TRUE]
               /\ open' = [open EXCEPT ![s] = TRUE]
               /\ accept' = [accept EXCEPT ![s] = "posted"]
               /\ UNCHANGED broken
            \/ /\ s = None /\ broken' = (broken \/ listening)
               /\ UNCHANGED <<isConnected, open, accept>>
         /\ todo' = [todo EXCEPT ![w] = todo'[w]]
         /\ todo[w] \in Accepts /\ todo[w] \notin Holding
         /\ todo'[w] \in Plans
         /\ todo'[w] \notin Holding /\ todo'[w] \notin OnWorkers
         /\ todo'[w] \notin Accepts /\ todo'[w] \notin Bound
  BY <1>1, <1>2, AcceptPlans, Nested DEF RegisterAccept, Then, TypeOK,
     OnWorkers
<1>s. /\ s \in Sessions =>
            /\ accept[s] = "none" /\ ~recv[s] /\ recvPendingCnt[s] = 0
            /\ s \notin active /\ s \notin queued /\ s \notin copy
            /\ \A u \in Threads : has[u] # s
      /\ stage \notin {"ready", "drop", "ended"}
  BY <1>1, <1>2, <1>q, NoneAssumption DEF Pooled, CountInv, TypeOK, EndInv
<1>rest. /\ todo' \in [Threads -> Plans]
         /\ \A u \in Threads : u # w => todo'[u] = todo[u]
  BY <1>1, <1>q DEF PlanInv
<1>has. UNCHANGED has
  BY DEF RegisterAccept
<1>frame. /\ broken' \in BOOLEAN /\ isConnected' \in [Sessions -> BOOLEAN]
          /\ open' \in [Sessions -> BOOLEAN]
          /\ accept' \in [Sessions -> {"none", "posted", "done", "failed"}]
          /\ \A u \in Sessions : u # s =>
                /\ accept'[u] = accept[u] /\ open'[u] = open[u]
                /\ isConnected'[u] = isConnected[u]
          /\ s \in Sessions => isConnected'[s]
          /\ UNCHANGED <<stage, running, listening, processor, copy, clients,
                         active, recvPendingCnt, recv, queued, raced>>
  <2>1. UNCHANGED <<stage, running, listening, processor, copy, clients,
                    active, recvPendingCnt, recv, queued, raced>>
    BY DEF RegisterAccept, server
  <2>2. CASE s = None
    BY <1>q, <2>1, <2>2, NoneAssumption DEF Pooled, TypeOK
  <2>3. CASE s \in Sessions
    BY <1>q, <2>1, <2>3, NoneAssumption DEF TypeOK
  <2> QED
    BY <2>2, <2>3
<1>holds. \A u \in Threads : todo[u] \in Holding => has[u] \in Sessions
  BY DEF PlanInv
<1>conn. /\ \A u \in active : isConnected'[u] = isConnected[u]
        /\ \A u \in Threads : todo[u] \in Bound => todo'[u] \in Bound
  BY <1>q, <1>s, <1>rest, <1>frame, Nested DEF TypeOK
<1>T. TypeOK'
  BY <1>1, <1>2, <1>q, <1>rest, <1>has, <1>frame, <1>holds, Nested, <1>s,
     PlansAreLists
  DEF TypeOK, Stages
<1>P. PlanInv'
  BY <1>1, <1>2, <1>q, <1>rest, <1>has, <1>frame, <1>holds, Nested, <1>s
  DEF PlanInv
<1>F. FreshInv'
  BY <1>1, <1>2, <1>q, <1>rest, <1>has, <1>frame, <1>holds, Nested, <1>s
  DEF FreshInv, Unknown
<1>C. ChainInv'
  BY <1>1, <1>2, <1>q, <1>rest, <1>has, <1>frame, <1>holds, Nested, <1>s
  DEF ChainInv
<1>O. OpenInv'
  BY <1>1, <1>2, <1>q, <1>rest, <1>has, <1>frame, <1>holds, Nested, <1>s
  DEF OpenInv
<1>N. CountInv'
  BY <1>1, <1>2, <1>q, <1>rest, <1>has, <1>frame, <1>holds, Nested, <1>s
  DEF CountInv
<1>A. ActiveInv'
  BY <1>1, <1>2, <1>q, <1>rest, <1>has, <1>frame, <1>holds, Nested, <1>s
  DEF ActiveInv
<1>X. AcceptInv'
  BY <1>1, <1>2, <1>q, <1>rest, <1>has, <1>frame, <1>holds, Nested, <1>s
  DEF AcceptInv
<1>Z. ZombieInv'
  BY <1>1, <1>2, <1>q, <1>rest, <1>has, <1>frame, <1>holds, Nested, <1>s,
     <1>conn
  DEF ZombieInv
<1>E. EndInv'
  BY <1>1, <1>2, <1>q, <1>rest, <1>has, <1>frame, <1>holds, Nested, <1>s
  DEF EndInv, PastWait
<1> QED
  BY <1>T, <1>P, <1>F, <1>C, <1>O, <1>N, <1>A, <1>X, <1>Z, <1>E DEF ShutInv

LEMMA PostKeeps ==
    ASSUME ShutInv, NEW w \in Workers, Post(w)
    PROVE  ShutInv'
<1> USE DEF ShutInv
<1>1. w \in Threads /\ At(w, "post") /\ Workers \subseteq Threads
  BY DEF Post, Threads
<1>2. todo[w] \in Plans /\ todo[w] # <<>> /\ Head(todo[w]) = "post"
  BY <1>1, AtPlan
<1>q. /\ todo[w] \in Chain /\ todo[w] \in Bound
      /\ todo[w] \notin Fresh /\ todo[w] \notin Uncounting
      /\ todo'[w] \notin Fresh /\ todo'[w] \notin Uncounting
      /\ todo'[w] \notin Chain /\ todo'[w] \in Plans
      /\ todo[w] \in Accepts <=> todo'[w] \in Accepts
      /\ todo'[w] \in OnWorkers => todo[w] \in OnWorkers
      /\ todo' = [todo EXCEPT ![w] = todo'[w]]
      /\ todo[w] \notin Closers
      /\ \/ /\ open[has[w]]
            /\ recvPendingCnt' = [recvPendingCnt EXCEPT ![has[w]] = @ + 1]
            /\ recv' = [recv EXCEPT ![has[w]] = TRUE]
         \/ todo'[w] \in Bound /\ UNCHANGED <<recvPendingCnt, recv>>
  <2>1. /\ Then(w, <<>>) /\ open[has[w]]
        /\ recvPendingCnt' = [recvPendingCnt EXCEPT ![has[w]] = @ + 1]
        /\ recv' = [recv EXCEPT ![has[w]] = TRUE]
     \/ /\ Then(w, <<"disconnect", "release">>)
        /\ UNCHANGED <<recvPendingCnt, recv>>
    BY DEF Post
  <2>2. PICK body \in {<<>>, <<"disconnect", "release">>} :
           /\ todo' = [todo EXCEPT ![w] = body \o Tail(todo[w])]
           /\ \/ /\ open[has[w]]
                 /\ recvPendingCnt' = [recvPendingCnt EXCEPT ![has[w]] = @ + 1]
                 /\ recv' = [recv EXCEPT ![has[w]] = TRUE]
              \/ /\ body = <<"disconnect", "release">>
                 /\ UNCHANGED <<recvPendingCnt, recv>>
    BY <2>1 DEF Then
  <2>3. /\ Advances(todo[w], body \o Tail(todo[w]))
        /\ body \o Tail(todo[w]) \notin Chain
        /\ todo[w] \in Chain /\ todo[w] \in Bound
        /\ body = <<"disconnect", "release">> => body \o Tail(todo[w]) \in Bound
    BY <1>2, PostPlans
  <2>4. /\ todo'[w] = body \o Tail(todo[w])
        /\ todo' = [todo EXCEPT ![w] = todo'[w]]
    BY <1>1, <2>2 DEF TypeOK
  <2> HIDE DEF TypeOK
  <2> QED
    BY <2>2, <2>3, <2>4 DEF Advances
<1>s. /\ has[w] \in Sessions /\ ~recv[has[w]]
      /\ accept[has[w]] = "none"
      /\ \A u \in Threads : todo[u] \in Fresh => has[u] # has[w] /\ has[u] \in Sessions
      /\ \A u \in Threads : todo[u] \in Chain /\ u # w => has[u] # has[w] /\ has[u] \in Sessions
      /\ recvPendingCnt[has[w]] = 0
      /\ isConnected[has[w]] => has[w] \in active
      /\ stage \notin {"ready", "drop", "ended"}
  <2>1. has[w] \in Sessions /\ \A u \in Threads : todo[u] \in Fresh \cup Chain => has[u] \in Sessions
    BY <1>1, <1>q, Nested DEF PlanInv
  <2>2. ~recv[has[w]] /\ \A u \in Threads : todo[u] \in Chain /\ u # w => has[u] # has[w]
    BY <1>1, <1>q DEF ChainInv
  <2>3. recvPendingCnt[has[w]] = 0
    BY <2>1, <2>2, <1>q, Nested DEF CountInv, TypeOK
  <2>4. /\ accept[has[w]] = "none"
        /\ \A u \in Threads : todo[u] \in Fresh => has[u] # has[w]
    BY <1>1, <1>q, <2>1 DEF FreshInv
  <2>5. /\ isConnected[has[w]] => has[w] \in active
        /\ stage \notin {"ready", "drop", "ended"}
    BY <1>1, <1>2, <1>q DEF ActiveInv, EndInv
  <2> QED
    BY <2>1, <2>2, <2>3, <2>4, <2>5
<1>rest. /\ todo' \in [Threads -> Plans]
         /\ \A u \in Threads : u # w => todo'[u] = todo[u]
  BY <1>1, <1>q DEF PlanInv
<1>has. UNCHANGED has
  BY DEF Post
<1>frame. /\ UNCHANGED <<stage, running, listening, processor, copy, clients,
                         active, accept, isConnected, open, queued, broken,
                         raced>>
          /\ \A s \in Sessions : s # has[w] =>
                recvPendingCnt'[s] = recvPendingCnt[s] /\ recv'[s] = recv[s]
          /\ recvPendingCnt' \in [Sessions -> 0..1]
          /\ recv' \in [Sessions -> BOOLEAN]
          /\ \/ /\ open[has[w]] /\ recv'[has[w]]
                /\ recvPendingCnt'[has[w]] = 1
             \/ /\ todo'[w] \in Bound /\ ~recv'[has[w]]
                /\ recvPendingCnt'[has[w]] = 0
  <2>1. UNCHANGED <<stage, running, listening, processor, copy, clients,
                    active, accept, isConnected, open, queued, broken, raced>>
    BY DEF Post, server, session, history
  <2>2. CASE /\ open[has[w]]
             /\ recvPendingCnt' = [recvPendingCnt EXCEPT ![has[w]] = @ + 1]
             /\ recv' = [recv EXCEPT ![has[w]] = TRUE]
    <3>1. recvPendingCnt' = [recvPendingCnt EXCEPT ![has[w]] = 1]
      BY <2>2, <1>s DEF TypeOK
    <3> QED
      BY <2>1, <2>2, <3>1, <1>s DEF TypeOK
  <2>3. CASE todo'[w] \in Bound /\ UNCHANGED <<recvPendingCnt, recv>>
    BY <2>1, <2>3, <1>s DEF TypeOK
  <2> QED
    BY <1>q, <2>2, <2>3
<1>holds. \A u \in Threads : todo[u] \in Holding => has[u] \in Sessions
  BY DEF PlanInv
<1>T. TypeOK'
  BY <1>1, <1>2, <1>q, <1>rest, <1>has, <1>frame, <1>holds, Nested, <1>s,
     PlansAreLists
  DEF TypeOK, Stages
<1>P. PlanInv'
  BY <1>1, <1>2, <1>q, <1>rest, <1>has, <1>frame, <1>holds, Nested, <1>s
  DEF PlanInv
<1>F. FreshInv'
  BY <1>1, <1>2, <1>q, <1>rest, <1>has, <1>frame, <1>holds, Nested, <1>s
  DEF FreshInv, Unknown
<1>C. ChainInv'
  BY <1>1, <1>2, <1>q, <1>rest, <1>has, <1>frame, <1>holds, Nested, <1>s
  DEF ChainInv
<1>O. OpenInv'
  BY <1>1, <1>2, <1>q, <1>rest, <1>has, <1>frame, <1>holds, Nested, <1>s
  DEF OpenInv
<1>N. CountInv'
  BY <1>1, <1>2, <1>q, <1>rest, <1>has, <1>frame, <1>holds, Nested, <1>s
  DEF CountInv
<1>A. ActiveInv'
  BY <1>1, <1>2, <1>q, <1>rest, <1>has, <1>frame, <1>holds, Nested, <1>s
  DEF ActiveInv
<1>X. AcceptInv'
  BY <1>1, <1>2, <1>q, <1>rest, <1>has, <1>frame, <1>holds, Nested, <1>s
  DEF AcceptInv
<1>Z. ZombieInv'
  <2> SUFFICES ASSUME NEW s \in active', ~isConnected'[s], stage' # "crashed",
                      ~recv'[s]
               PROVE  \E u \in Threads : todo'[u] \in Bound /\ has'[u] = s
    BY DEF ZombieInv
  <2>1. s \in active /\ s \in Sessions
    BY <1>frame DEF TypeOK
  <2>2. CASE s = has[w]
    BY <1>1, <1>q, <1>s, <1>has, <1>frame, <2>1, <2>2
  <2>3. CASE s # has[w]
    <3>1. ~isConnected[s] /\ stage # "crashed" /\ ~recv[s]
      BY <1>q, <1>s, <1>frame, <2>1, <2>3
    <3>2. PICK u \in Threads : todo[u] \in Bound /\ has[u] = s
      BY <2>1, <3>1 DEF ZombieInv
    <3>3. u # w
      BY <2>3, <3>2
    <3> QED
      BY <3>2, <3>3, <1>rest, <1>has
  <2> QED
    BY <2>2, <2>3
<1>E. EndInv'
  BY <1>1, <1>2, <1>q, <1>rest, <1>has, <1>frame, <1>holds, Nested, <1>s
  DEF EndInv, PastWait
<1> QED
  BY <1>T, <1>P, <1>F, <1>C, <1>O, <1>N, <1>A, <1>X, <1>Z, <1>E DEF ShutInv

LEMMA ClientConnectsKeeps ==
    ASSUME ShutInv, ClientConnects
    PROVE  ShutInv'
<1> USE DEF ShutInv
<1>1. PICK s \in Sessions : /\ accept[s] = "posted"
                            /\ accept' = [accept EXCEPT ![s] = "done"]
  BY DEF ClientConnects
<1>2. /\ accept' \in [Sessions -> {"none", "posted", "done", "failed"}]
      /\ \A u \in Sessions : accept'[u] = "none" <=> accept[u] = "none"
      /\ \A u \in Sessions : accept'[u] = "failed" => accept[u] = "failed"
      /\ clients' \in 0..MaxClients
  BY <1>1, ClientsAssumption DEF ClientConnects, TypeOK
<1>3. UNCHANGED <<stage, running, listening, processor, active, copy,
                  isConnected, open, recvPendingCnt, recv, queued, todo, has,
                  broken, raced>>
  BY DEF ClientConnects, session, history
<1>h. \A t \in Threads : todo[t] \in Fresh => has[t] \in Sessions
  BY Nested DEF PlanInv
<1>T. TypeOK'
  BY <1>2, <1>3, <1>h
  DEF TypeOK, Stages
<1>P. PlanInv'
  BY <1>2, <1>3, <1>h
  DEF PlanInv
<1>F. FreshInv'
  BY <1>2, <1>3, <1>h
  DEF FreshInv, Unknown
<1>C. ChainInv'
  BY <1>2, <1>3, <1>h
  DEF ChainInv
<1>O. OpenInv'
  BY <1>2, <1>3, <1>h
  DEF OpenInv
<1>N. CountInv'
  BY <1>2, <1>3, <1>h
  DEF CountInv
<1>A. ActiveInv'
  BY <1>2, <1>3, <1>h
  DEF ActiveInv
<1>X. AcceptInv'
  BY <1>2, <1>3, <1>h
  DEF AcceptInv
<1>Z. ZombieInv'
  BY <1>2, <1>3, <1>h
  DEF ZombieInv
<1>E. EndInv'
  BY <1>2, <1>3, <1>h
  DEF EndInv, PastWait
<1> QED
  BY <1>T, <1>P, <1>F, <1>C, <1>O, <1>N, <1>A, <1>X, <1>Z, <1>E DEF ShutInv

LEMMA EnqueueKeeps ==
    ASSUME ShutInv, NEW t \in Threads, Enqueue(t)
    PROVE  ShutInv'
<1> USE DEF ShutInv
<1>1. At(t, "enqueue") /\ Workers \subseteq Threads
  BY DEF Enqueue, Threads
<1>2. todo[t] \in Plans /\ todo[t] # <<>> /\ Head(todo[t]) = "enqueue"
  BY <1>1, AtPlan
<1>q. /\ todo' = [todo EXCEPT ![t] = todo'[t]]
      /\ todo[t] \in Holding
      /\ todo[t] \notin Fresh /\ todo[t] \notin Uncounting
      /\ todo'[t] \notin Fresh /\ todo'[t] \notin Uncounting
      /\ todo'[t] \in Plans
      /\ todo[t] \in Accepts <=> todo'[t] \in Accepts
      /\ todo[t] \in Chain <=> todo'[t] \in Chain
      /\ todo[t] \in Bound <=> todo'[t] \in Bound
      /\ todo'[t] \in OnWorkers => todo[t] \in OnWorkers
      /\ todo[t] \notin Closers
  BY <1>1, <1>2, EnqueuePlans DEF Enqueue, Then, TypeOK, Advances
<1>rest. /\ todo' \in [Threads -> Plans]
         /\ \A u \in Threads : u # t => todo'[u] = todo[u]
  BY <1>q DEF PlanInv
<1>s. /\ has[t] \in Sessions /\ accept[has[t]] = "none"
      /\ \A u \in Threads : todo[u] \in Fresh => has[u] # has[t] /\ has[u] \in Sessions
      /\ t \in Workers => stage \notin {"ready", "drop", "ended"}
  BY <1>1, <1>2, <1>q, Nested DEF PlanInv, FreshInv, EndInv
<1>frame. /\ stage' \in {stage, "crashed"}
          /\ queued' \in {queued, queued \cup {has[t]}}
          /\ UNCHANGED <<running, listening, processor, copy, clients, active,
                         accept, isConnected, open, recvPendingCnt, recv, has,
                         broken, raced>>
  BY DEF Enqueue, session, history
<1>holds. /\ \A u \in Threads : todo[u] \in Holding => has[u] \in Sessions
          /\ \A u \in Threads : todo'[u] \in Chain <=> todo[u] \in Chain
          /\ \A u \in Threads : todo'[u] \in Bound <=> todo[u] \in Bound
          /\ \A u \in Threads : todo'[u] \in Fresh <=> todo[u] \in Fresh
          /\ \A u \in Threads : todo'[u] \in Accepts <=> todo[u] \in Accepts
  BY <1>q, <1>rest DEF PlanInv
<1>T. TypeOK'
  <2>1. todo' \in [Threads -> Seq(Labels)]
    BY <1>rest, PlansAreLists
  <2>2. stage' \in Stages /\ queued' \subseteq Sessions
    BY <1>s, <1>frame DEF TypeOK, Stages
  <2> QED
    BY <2>1, <2>2, <1>frame DEF TypeOK
<1>P. PlanInv'
  BY <1>1, <1>2, <1>q, <1>rest, <1>s, <1>frame, <1>holds, Nested
  DEF PlanInv
<1>F. FreshInv'
  BY <1>1, <1>2, <1>q, <1>rest, <1>s, <1>frame, <1>holds, Nested
  DEF FreshInv, Unknown
<1>C. ChainInv'
  BY <1>1, <1>2, <1>q, <1>rest, <1>s, <1>frame, <1>holds, Nested
  DEF ChainInv
<1>O. OpenInv'
  BY <1>1, <1>2, <1>q, <1>rest, <1>s, <1>frame, <1>holds, Nested
  DEF OpenInv
<1>N. CountInv'
  BY <1>1, <1>2, <1>q, <1>rest, <1>s, <1>frame, <1>holds, Nested
  DEF CountInv
<1>A. ActiveInv'
  BY <1>1, <1>2, <1>q, <1>rest, <1>s, <1>frame, <1>holds, Nested
  DEF ActiveInv
<1>X. AcceptInv'
  BY <1>1, <1>2, <1>q, <1>rest, <1>s, <1>frame, <1>holds, Nested
  DEF AcceptInv
<1>Z. ZombieInv'
  BY <1>1, <1>2, <1>q, <1>rest, <1>s, <1>frame, <1>holds, Nested
  DEF ZombieInv
<1>E. EndInv'
  BY <1>1, <1>2, <1>q, <1>rest, <1>s, <1>frame, <1>holds, Nested
  DEF EndInv, PastWait
<1> QED
  BY <1>T, <1>P, <1>F, <1>C, <1>O, <1>N, <1>A, <1>X, <1>Z, <1>E DEF ShutInv

LEMMA TakeKeeps ==
    ASSUME ShutInv, NEW h \in Handlers, Take(h)
    PROVE  ShutInv'
<1> USE DEF ShutInv
<1>1. h \in Threads /\ At(h, "take") /\ Workers \subseteq Threads /\ h \notin Workers
  BY RolesAssumption DEF Take, Threads
<1>2. todo[h] \in Plans /\ todo[h] # <<>> /\ Head(todo[h]) = "take"
  BY <1>1, AtPlan
<1>3. CASE Then(h, <<>>) /\ UNCHANGED <<queued, has>>
  <2> DEFINE q == <<>> \o Tail(todo[h])
  <2>1. Advances(todo[h], q) /\ todo[h] \notin Bound
    BY <1>2, TakePlans, Nested
  <2>2. todo' = [todo EXCEPT ![h] = q]
    BY <1>1, <1>3 DEF Then
  <2>3. UNCHANGED <<server, active, accept, session, history>>
    BY DEF Take
  <2> HIDE DEF q
  <2> QED
    BY <1>1, <1>3, <2>1, <2>2, <2>3, MovesOn
<1>4. ASSUME NEW s \in queued, queued' = queued \ {s},
             has' = [has EXCEPT ![h] = s], Then(h, <<"handle">>)
      PROVE  ShutInv'
  <2>q. /\ todo' = [todo EXCEPT ![h] = todo'[h]]
        /\ todo[h] \notin Holding /\ todo[h] \notin OnWorkers
        /\ todo[h] \notin Bound
        /\ todo'[h] \in Plans /\ todo'[h] \in Holding
        /\ todo'[h] \notin Bound /\ todo'[h] \notin OnWorkers
    BY <1>1, <1>2, <1>4, TakePlans, Nested DEF Then, TypeOK
  <2>rest. /\ todo' \in [Threads -> Plans]
           /\ \A u \in Threads : u # h => todo'[u] = todo[u]
           /\ \A u \in Threads : u # h => has'[u] = has[u]
           /\ has'[h] = s /\ s \in Sessions
           /\ has' \in [Threads -> Sessions \cup {None}]
    BY <1>1, <1>4, <2>q DEF PlanInv, TypeOK
  <2>s. /\ accept[s] = "none"
        /\ \A u \in Threads : todo[u] \in Fresh => has[u] # s /\ has[u] \in Sessions
    BY <1>1, <1>2, <1>4, <2>rest, Nested DEF PlanInv, FreshInv, Unknown
  <2>frame. /\ UNCHANGED <<stage, running, listening, processor, copy, clients,
                           active, accept, isConnected, open, recvPendingCnt,
                           recv, broken, raced>>
            /\ queued' \subseteq queued
    BY <1>4 DEF Take, server, session, history
  <2>holds. /\ \A u \in Threads : todo[u] \in Holding => has[u] \in Sessions
            /\ \A u \in Threads : todo'[u] \in OnWorkers => u # h
    BY <2>q DEF PlanInv
  <2>T. TypeOK'
    BY <1>1, <2>q, <2>rest, <2>s, <2>frame, <2>holds, Nested, PlansAreLists
    DEF TypeOK, Stages
  <2>P. PlanInv'
    BY <1>1, <2>q, <2>rest, <2>s, <2>frame, <2>holds, Nested
    DEF PlanInv
  <2>F. FreshInv'
    BY <1>1, <2>q, <2>rest, <2>s, <2>frame, <2>holds, Nested
    DEF FreshInv, Unknown
  <2>C. ChainInv'
    BY <1>1, <2>q, <2>rest, <2>s, <2>frame, <2>holds, Nested
    DEF ChainInv
<2>O. OpenInv'
    BY <1>1, <2>q, <2>rest, <2>s, <2>frame, <2>holds, Nested
    DEF OpenInv
  <2>N. CountInv'
    BY <1>1, <2>q, <2>rest, <2>s, <2>frame, <2>holds, Nested
    DEF CountInv
  <2>A. ActiveInv'
    BY <1>1, <2>q, <2>rest, <2>s, <2>frame, <2>holds, Nested
    DEF ActiveInv
  <2>X. AcceptInv'
    BY <1>1, <2>q, <2>rest, <2>s, <2>frame, <2>holds, Nested
    DEF AcceptInv
  <2>Z. ZombieInv'
    BY <1>1, <2>q, <2>rest, <2>s, <2>frame, <2>holds, Nested
    DEF ZombieInv
  <2>E. EndInv'
    BY <1>1, <2>q, <2>rest, <2>s, <2>frame, <2>holds, Nested
    DEF EndInv, PastWait
  <2> QED
    BY <2>T, <2>P, <2>F, <2>C, <2>O, <2>N, <2>A, <2>X, <2>Z, <2>E DEF ShutInv
<1> QED
  BY <1>3, <1>4 DEF Take

LEMMA DisconnectNextKeeps ==
    ASSUME ShutInv, DisconnectNext
    PROVE  ShutInv'
<1> USE DEF ShutInv
<1>1. /\ Main \in Threads /\ Workers \subseteq Threads /\ Main \notin Workers
      /\ todo[Main] = <<>>
  BY RolesAssumption DEF DisconnectNext, Threads
<1>q. /\ todo' = [todo EXCEPT ![Main] = <<"disconnect", "release">>]
      /\ todo[Main] \notin Holding /\ todo[Main] \notin OnWorkers
      /\ todo[Main] \notin Bound
      /\ <<"disconnect", "release">> \in Plans
      /\ <<"disconnect", "release">> \in Holding
      /\ <<"disconnect", "release">> \in Bound
      /\ <<"disconnect", "release">> \notin OnWorkers
  <2>1. /\ <<"disconnect", "release">> \in Plans
        /\ <<"disconnect", "release">> \in Bound
        /\ <<"disconnect", "release">> \notin OnWorkers
    BY DEF Plans, Holding, Bound, Closers, Closing, OnWorkers, Fresh, Chain,
       Receiving, Uncounting, Accepts
  <2> QED
    BY <1>1, <2>1, Nested DEF DisconnectNext
<1>s. PICK s \in copy : has' = [has EXCEPT ![Main] = s] /\ copy' = copy \ {s}
  BY DEF DisconnectNext
<1>rest. /\ todo' \in [Threads -> Plans] /\ todo'[Main] = <<"disconnect", "release">>
         /\ \A u \in Threads : u # Main => todo'[u] = todo[u]
         /\ \A u \in Threads : u # Main => has'[u] = has[u]
         /\ has'[Main] = s /\ s \in Sessions
         /\ has' \in [Threads -> Sessions \cup {None}]
  BY <1>1, <1>q, <1>s DEF PlanInv, TypeOK
<1>f. /\ accept[s] = "none"
      /\ \A u \in Threads : todo[u] \in Fresh => has[u] # s /\ has[u] \in Sessions
  BY <1>s, <1>rest, Nested DEF PlanInv, FreshInv, Unknown
<1>frame. /\ UNCHANGED <<stage, running, listening, processor, clients, active,
                         accept, isConnected, open, recvPendingCnt, recv,
                         queued, broken, raced>>
          /\ copy' \subseteq copy
  BY <1>s DEF DisconnectNext, session, history
<1>holds. /\ \A u \in Threads : todo[u] \in Holding => has[u] \in Sessions
          /\ \A u \in Threads : todo'[u] \in OnWorkers => u # Main
  BY <1>q, <1>rest DEF PlanInv
<1>T. TypeOK'
  BY <1>1, <1>q, <1>rest, <1>f, <1>frame, <1>holds, Nested, PlansAreLists
  DEF TypeOK, Stages
<1>P. PlanInv'
  BY <1>1, <1>q, <1>rest, <1>f, <1>frame, <1>holds, Nested
  DEF PlanInv
<1>F. FreshInv'
  BY <1>1, <1>q, <1>rest, <1>f, <1>frame, <1>holds, Nested
  DEF FreshInv, Unknown
<1>C. ChainInv'
  BY <1>1, <1>q, <1>rest, <1>f, <1>frame, <1>holds, Nested
  DEF ChainInv
<1>O. OpenInv'
  BY <1>1, <1>q, <1>rest, <1>f, <1>frame, <1>holds, Nested
  DEF OpenInv
<1>N. CountInv'
  BY <1>1, <1>q, <1>rest, <1>f, <1>frame, <1>holds, Nested
  DEF CountInv
<1>A. ActiveInv'
  BY <1>1, <1>q, <1>rest, <1>f, <1>frame, <1>holds, Nested
  DEF ActiveInv
<1>X. AcceptInv'
  BY <1>1, <1>q, <1>rest, <1>f, <1>frame, <1>holds, Nested
  DEF AcceptInv
<1>Z. ZombieInv'
  BY <1>1, <1>q, <1>rest, <1>f, <1>frame, <1>holds, Nested
  DEF ZombieInv
<1>E. EndInv'
  BY <1>1, <1>q, <1>rest, <1>f, <1>frame, <1>holds, Nested
  DEF EndInv, PastWait
<1> QED
  BY <1>T, <1>P, <1>F, <1>C, <1>O, <1>N, <1>A, <1>X, <1>Z, <1>E DEF ShutInv

LEMMA StartKeeps ==
    ASSUME ShutInv, Start
    PROVE  ShutInv'
<1> USE DEF ShutInv
<1>1. /\ Workers \subseteq Threads /\ stage = "ready" /\ stage' = "serving"
      /\ \A w \in Workers : todo[w] = <<>>
  BY DEF Start, Moves, Threads, EndInv
<1>q. /\ <<"loop">> \in Plans /\ <<"loop">> \notin Holding
      /\ <<"loop">> \notin OnWorkers /\ <<"loop">> \notin Bound
  BY DEF Plans, Holding, Bound, Closers, Closing, OnWorkers, Fresh, Chain,
     Receiving, Uncounting, Accepts
<1>rest. /\ todo' \in [Threads -> Plans]
         /\ \A u \in Threads : u \notin Workers => todo'[u] = todo[u]
         /\ \A w \in Workers : todo'[w] = <<"loop">>
  BY <1>1, <1>q DEF Start, PlanInv
<1>frame. /\ UNCHANGED <<listening, processor, copy, clients, active, accept,
                         isConnected, open, recvPendingCnt, recv, queued, has,
                         broken, raced>>
          /\ running' = TRUE
  BY DEF Start, session, history
<1>holds. /\ \A u \in Threads : todo[u] \in Holding => has[u] \in Sessions
          /\ \A u \in Threads : todo[u] \notin OnWorkers /\ todo'[u] \notin OnWorkers
          /\ \A u \in Threads : todo[u] \in Bound => todo'[u] \in Bound
          /\ \A u \in Threads : todo'[u] \in Holding => todo[u] \in Holding
  BY <1>1, <1>q, <1>rest, Nested DEF PlanInv
<1>T. TypeOK'
  BY <1>1, <1>rest, <1>frame, <1>holds, Nested, PlansAreLists
  DEF TypeOK, Stages
<1>P. PlanInv'
  BY <1>1, <1>rest, <1>frame, <1>holds, Nested
  DEF PlanInv
<1>F. FreshInv'
  BY <1>1, <1>rest, <1>frame, <1>holds, Nested
  DEF FreshInv, Unknown
<1>C. ChainInv'
  BY <1>1, <1>rest, <1>frame, <1>holds, Nested
  DEF ChainInv
<1>O. OpenInv'
  BY <1>1, <1>rest, <1>frame, <1>holds, Nested
  DEF OpenInv
<1>N. CountInv'
  BY <1>1, <1>rest, <1>frame, <1>holds, Nested
  DEF CountInv
<1>A. ActiveInv'
  BY <1>1, <1>rest, <1>frame, <1>holds, Nested
  DEF ActiveInv
<1>X. AcceptInv'
  BY <1>1, <1>rest, <1>frame, <1>holds, Nested
  DEF AcceptInv
<1>Z. ZombieInv'
  BY <1>1, <1>rest, <1>frame, <1>holds, Nested
  DEF ZombieInv
<1>E. EndInv'
  BY <1>1, <1>rest, <1>frame, <1>holds, Nested
  DEF EndInv, PastWait
<1> QED
  BY <1>T, <1>P, <1>F, <1>C, <1>O, <1>N, <1>A, <1>X, <1>Z, <1>E DEF ShutInv

\* A step of the main thread through End, which does not touch a session.
LEMMA EndMoves ==
    ASSUME ShutInv, UNCHANGED <<todo, clients, session, history>>,
           stage' \in Stages \ {"ready", "crashed"},
           stage \notin {"ready", "ended", "crashed"},
           stage' \in {"drop", "ended"} => \A w \in Workers : todo[w] = <<>>,
           stage' \in PastWait => stage \in PastWait \/ active = {},
           \/ active' = active
           \/ active' = {} /\ stage' = "ended" /\ stage = "drop",
           copy' \subseteq copy \cup active, queued' \subseteq queued,
           running' \in BOOLEAN, processor' \in {"up", "stopping", "null"},
           \/ UNCHANGED <<listening, accept>>
           \/ /\ listening' = FALSE
              /\ accept' = [s \in Sessions |-> IF accept[s] = "posted"
                                               THEN "failed" ELSE accept[s]],
           \/ UNCHANGED has
           \/ has' = [has EXCEPT ![Main] = None] /\ todo[Main] = <<>>
    PROVE  ShutInv'
<1> USE DEF ShutInv
<1>has. /\ has' \in [Threads -> Sessions \cup {None}]
        /\ \A u \in Threads : todo[u] \in Holding => has'[u] = has[u] /\ has[u] \in Sessions
        /\ \A u \in Threads : has'[u] \in {has[u], None}
  <2>1. /\ has \in [Threads -> Sessions \cup {None}]
        /\ \A u \in Threads : todo[u] \in Holding => has[u] \in Sessions
    BY DEF TypeOK, PlanInv
  <2>2. CASE UNCHANGED has
    BY <2>1, <2>2
  <2>3. CASE has' = [has EXCEPT ![Main] = None] /\ todo[Main] = <<>>
    <3>1. todo[Main] \notin Holding
      BY <2>3, Nested
    <3>2. /\ has' \in [Threads -> Sessions \cup {None}]
          /\ \A u \in Threads : has'[u] = IF u = Main THEN None ELSE has[u]
      BY <2>1, <2>3
    <3> QED
      BY <2>1, <3>1, <3>2
  <2> QED
    BY <2>2, <2>3
<1>accept. /\ accept' \in [Sessions -> {"none", "posted", "done", "failed"}]
           /\ \A s \in Sessions : accept'[s] = "none" <=> accept[s] = "none"
           /\ listening' \in BOOLEAN
           /\ listening' => listening /\ accept' = accept
           /\ \A s \in Sessions : accept'[s] = "failed" => ~listening'
  <2>1. CASE UNCHANGED <<listening, accept>>
    BY <2>1 DEF TypeOK, AcceptInv
  <2>2. CASE /\ listening' = FALSE
             /\ accept' = [s \in Sessions |-> IF accept[s] = "posted"
                                               THEN "failed" ELSE accept[s]]
    BY <2>2 DEF TypeOK
  <2> QED
    BY <2>1, <2>2
<1>frame. /\ UNCHANGED <<todo, clients, isConnected, open, recvPendingCnt,
                         recv, broken, raced>>
          /\ active' \subseteq active /\ Workers \subseteq Threads
          /\ stage' # "ended" => active' = active
          /\ stage' = "ended" => \A w \in Workers : todo[w] = <<>>
  BY DEF session, history, Threads
<1>quiet. stage' \in PastWait /\ ~raced => active' = {}
  <2>1. CASE stage \in PastWait
    BY <2>1, <1>frame DEF EndInv
  <2>2. CASE active = {}
    BY <2>2, <1>frame
  <2> QED
    BY <2>1, <2>2
<1>dropped. stage' = "ended" /\ ~raced => active' = active
  BY <1>frame DEF EndInv, PastWait
<1>ready. stage' \in {"ready", "drop", "ended"} => \A w \in Workers : todo[w] = <<>>
  OBVIOUS
<1>ended. \A t \in Threads : stage' = "ended" => todo[t] \notin OnWorkers
  BY <1>frame, Nested DEF PlanInv
<1>T. TypeOK'
  BY <1>has, <1>accept, <1>frame, <1>ended, Nested
  DEF TypeOK, Stages
<1>P. PlanInv'
  BY <1>has, <1>accept, <1>frame, <1>ended, Nested
  DEF PlanInv
<1>F. FreshInv'
  BY <1>has, <1>accept, <1>frame, <1>ended, Nested, NoneAssumption
  DEF FreshInv, Unknown
<1>C. ChainInv'
  BY <1>has, <1>accept, <1>frame, <1>ended, Nested
  DEF ChainInv
<1>O. OpenInv'
  BY <1>has, <1>accept, <1>frame, <1>ended, Nested
  DEF OpenInv
<1>N. CountInv'
  BY <1>has, <1>accept, <1>frame, <1>ended, Nested
  DEF CountInv
<1>A. ActiveInv'
  BY <1>has, <1>accept, <1>frame, <1>ended, <1>dropped, Nested
  DEF ActiveInv
<1>X. AcceptInv'
  BY <1>has, <1>accept, <1>frame, <1>ended, Nested
  DEF AcceptInv
<1>Z. ZombieInv'
  BY <1>has, <1>accept, <1>frame, <1>ended, Nested
  DEF ZombieInv
<1>E. EndInv'
  BY <1>frame, <1>quiet, <1>ready DEF EndInv
<1> QED
  BY <1>T, <1>P, <1>F, <1>C, <1>O, <1>N, <1>A, <1>X, <1>Z, <1>E DEF ShutInv

LEMMA EndKeeps ==
    ASSUME ShutInv, End \/ EndStep
    PROVE  ShutInv'
<1> USE DEF Moves, Stages, PastWait
<1>1. TypeOK /\ (stage = "drop" => \A w \in Workers : todo[w] = <<>>)
  BY DEF ShutInv, EndInv
<1>2. CASE End
  <2>1. UNCHANGED <<todo, clients, session, history>>
    BY <1>2 DEF End
  <2> QED
    BY <1>2, <1>1, <2>1, EndMoves DEF End, TypeOK
<1>3. CASE Close
  <2>1. UNCHANGED <<todo, clients, session, history>>
    BY <1>3 DEF Close
  <2> QED
    BY <1>3, <1>1, <2>1, EndMoves DEF Close, TypeOK
<1>4. CASE GetActiveSessionsCopy
  <2>1. UNCHANGED <<todo, clients, session, history>>
    BY <1>4 DEF GetActiveSessionsCopy
  <2> QED
    BY <1>4, <1>1, <2>1, EndMoves DEF GetActiveSessionsCopy, TypeOK
<1>5. CASE DisconnectNext
  BY <1>5, DisconnectNextKeeps
<1>6. CASE DisconnectDone
  <2>1. UNCHANGED <<todo, clients, session, history>>
    BY <1>6 DEF DisconnectDone
  <2> QED
    BY <1>6, <1>1, <2>1, EndMoves DEF DisconnectDone, TypeOK
<1>7. CASE Wait
  <2>1. UNCHANGED <<todo, clients, session, history>>
    BY <1>7 DEF Wait
  <2> QED
    BY <1>7, <1>1, <2>1, EndMoves DEF Wait, TypeOK
<1>8. CASE Stop
  <2>1. UNCHANGED <<todo, clients, session, history>>
    BY <1>8 DEF Stop
  <2> QED
    BY <1>8, <1>1, <2>1, EndMoves DEF Stop, TypeOK
<1>9. CASE JoinHandlers
  <2>1. UNCHANGED <<todo, clients, session, history>>
    BY <1>9 DEF JoinHandlers
  <2> QED
    BY <1>9, <1>1, <2>1, EndMoves DEF JoinHandlers, TypeOK
<1>10. CASE ResetProcessor
  <2>1. UNCHANGED <<todo, clients, session, history>>
    BY <1>10 DEF ResetProcessor
  <2> QED
    BY <1>10, <1>1, <2>1, EndMoves DEF ResetProcessor, TypeOK
<1>11. CASE Quit
  <2>1. UNCHANGED <<todo, clients, session, history>>
    BY <1>11 DEF Quit
  <2> QED
    BY <1>11, <1>1, <2>1, EndMoves DEF Quit, TypeOK
<1>12. CASE JoinWorkers
  <2>1. UNCHANGED <<todo, clients, session, history>>
    BY <1>12 DEF JoinWorkers
  <2> QED
    BY <1>12, <1>1, <2>1, EndMoves DEF JoinWorkers, TypeOK
<1>13. CASE DropManager
  <2>1. UNCHANGED <<todo, clients, session, history>>
    BY <1>13 DEF DropManager
  <2> QED
    BY <1>13, <1>1, <2>1, EndMoves DEF DropManager, TypeOK
<1> QED
  BY <1>2, <1>3, <1>4, <1>5, <1>6, <1>7, <1>8, <1>9, <1>10, <1>11,
     <1>12, <1>13 DEF EndStep

-----------------------------------------------------------------------------
(* The invariant holds                                                     *)

LEMMA ShutInit == Init => ShutInv
<1> SUFFICES ASSUME Init PROVE ShutInv
  OBVIOUS
<1>1. PICK s \in Sessions :
         /\ accept = [u \in Sessions |-> IF u = s THEN "posted" ELSE "none"]
         /\ isConnected = [u \in Sessions |-> u = s]
         /\ open = isConnected
  BY DEF Init, ListenerInit
<1>2. /\ <<>> \in Plans /\ <<"hloop">> \in Plans
      /\ <<>> \notin Holding /\ <<"hloop">> \notin Holding
      /\ <<>> \notin OnWorkers /\ <<"hloop">> \notin OnWorkers
      /\ <<>> \notin Bound /\ <<"hloop">> \notin Bound
  BY DEF Plans, Holding, Bound, Closers, Closing, OnWorkers, Fresh, Chain,
     Receiving, Uncounting, Accepts
<1>3. /\ todo \in [Threads -> Plans]
      /\ \A t \in Threads : /\ todo[t] \notin Holding /\ todo[t] \notin OnWorkers
                            /\ todo[t] \notin Bound
      /\ \A w \in Workers : todo[w] = <<>>
      /\ \A t \in Threads : has[t] = None
  BY <1>2, RolesAssumption DEF Init, ListenerInit, Threads
<1>4. /\ stage = "ready" /\ running = FALSE /\ listening = TRUE
      /\ processor = "up"
      /\ active = {} /\ copy = {} /\ queued = {}
      /\ recvPendingCnt = [u \in Sessions |-> 0]
      /\ recv = [u \in Sessions |-> FALSE]
      /\ has = [t \in Threads |-> None]
      /\ clients = 0 /\ broken = FALSE /\ raced = FALSE
  BY DEF Init, ListenerInit
<1>5. /\ accept \in [Sessions -> {"none", "posted", "done", "failed"}]
      /\ recvPendingCnt \in [Sessions -> 0..1] /\ clients \in 0..MaxClients
      /\ has \in [Threads -> Sessions \cup {None}]
  BY <1>1, <1>4, ClientsAssumption
<1>6. /\ isConnected \in [Sessions -> BOOLEAN] /\ open \in [Sessions -> BOOLEAN]
      /\ recv \in [Sessions -> BOOLEAN]
  BY <1>1, <1>4, Zenon
<1>7. todo \in [Threads -> Seq(Labels)]
  BY <1>3, PlansAreLists
<1>T. TypeOK
  BY <1>4, <1>5, <1>6, <1>7 DEF TypeOK, Stages
<1>P. PlanInv
  BY <1>3, RolesAssumption DEF PlanInv
<1>F. FreshInv
  BY <1>1, <1>3, <1>4, Nested, NoneAssumption DEF FreshInv, Unknown
<1>C. ChainInv
  BY <1>3, <1>4, Nested DEF ChainInv
<1>N. CountInv
  BY <1>3, <1>4, Nested DEF CountInv
<1>A. ActiveInv
  BY <1>3, <1>4, Nested DEF ActiveInv
<1>O. OpenInv
  BY <1>1, <1>4 DEF OpenInv
<1>X. AcceptInv
  BY <1>1, <1>3, <1>4, Nested DEF AcceptInv
<1>Z. ZombieInv
  BY <1>4 DEF ZombieInv
<1>E. EndInv
  BY <1>3, <1>4 DEF EndInv, PastWait
<1> QED
  BY <1>T, <1>P, <1>F, <1>C, <1>O, <1>N, <1>A, <1>X, <1>Z, <1>E DEF ShutInv

LEMMA ShutStutter == ShutInv /\ UNCHANGED vars => ShutInv'
<1> SUFFICES ASSUME ShutInv, UNCHANGED vars PROVE ShutInv'
  OBVIOUS
<1>1. UNCHANGED <<stage, running, listening, processor, active, copy, accept,
                  isConnected, open, recvPendingCnt, recv, queued, todo, has,
                  clients, broken, raced>>
  BY DEF vars, server, session, history
<1> QED
  BY <1>1 DEF ShutInv, TypeOK, PlanInv, FreshInv, Unknown, ChainInv, CountInv,
     ActiveInv, AcceptInv, OpenInv, ZombieInv, EndInv

LEMMA WorkerKeeps ==
    ASSUME ShutInv, NEW w \in Workers, WorkerStep(w)
    PROVE  ShutInv'
<1>1. stage # "crashed"
  BY DEF WorkerStep
<1> QED
  BY <1>1, LoopKeeps, TimeoutKeeps, DequeueKeeps, CompleteKeeps, SetOptionKeeps,
     ActivateKeeps, RegisterAcceptKeeps, UncountKeeps, DataKeeps, FindKeeps,
     RearmKeeps, CheckKeeps, PostKeeps DEF WorkerStep

LEMMA ShutInductive == ShutInv /\ [Next]_vars => ShutInv'
<1> SUFFICES ASSUME ShutInv, [Next]_vars PROVE ShutInv'
  OBVIOUS
<1>1. CASE ClientConnects
  BY <1>1, ClientConnectsKeeps
<1>2. ASSUME NEW w \in Workers, WorkerStep(w) PROVE ShutInv'
  BY <1>2, WorkerKeeps
<1>3. ASSUME NEW h \in Handlers, HandlerStep(h) PROVE ShutInv'
  BY <1>3, HandlerLoopKeeps, TakeKeeps, HandleKeeps DEF HandlerStep
<1>4. ASSUME NEW t \in Threads, SessionStep(t) PROVE ShutInv'
  BY <1>4, DisconnectKeeps, CloseSocketKeeps, TryReleaseKeeps, EnqueueKeeps
  DEF SessionStep
<1>5. CASE Start
  BY <1>5, StartKeeps
<1>6. CASE End \/ EndStep
  BY <1>6, EndKeeps
<1>7. CASE UNCHANGED vars
  BY <1>7, ShutStutter
<1> QED
  BY <1>1, <1>2, <1>3, <1>4, <1>5, <1>6, <1>7 DEF Next, MainStep

\* The inductive invariant, for every value of the constants.
THEOREM ShutAlways == Spec => []ShutInv
<1> QED
  BY ShutInit, ShutInductive, PTL DEF Spec

-----------------------------------------------------------------------------
(* What the threads are doing, by their labels                             *)

LEMMA AcceptsAre ==
    ASSUME NEW t, todo[t] \in Plans, Doing(t, {"accept"})
    PROVE  todo[t] \in Accepts
<1> DEFINE p == todo[t]
<1>1. PICK i \in 1..Len(p) : p[i] = "accept"
  BY DEF Doing
<1> QED
  BY <1>1 DEF Plans, Holding, Accepts, Fresh, Chain, Closers, Closing,
     Receiving, Uncounting

LEMMA AreAccepts ==
    ASSUME NEW t, todo[t] \in Accepts
    PROVE  Doing(t, {"accept"})
<1> DEFINE p == todo[t]
<1>1. CASE p = <<"accept", "loop">>
  <2>1. 1 \in 1..Len(p) /\ p[1] = "accept"
    BY <1>1
  <2> QED
    BY <2>1 DEF Doing
<1>2. CASE p \in {<<"check", "accept", "loop">>, <<"post", "accept", "loop">>,
                  <<"release", "accept", "loop">>}
  <2>1. 2 \in 1..Len(p) /\ p[2] = "accept"
    BY <1>2
  <2> QED
    BY <2>1 DEF Doing
<1>3. CASE p = <<"activate", "check", "accept", "loop">>
  <2>1. 3 \in 1..Len(p) /\ p[3] = "accept"
    BY <1>3
  <2> QED
    BY <2>1 DEF Doing
<1>5. CASE p = <<"disconnect", "release", "accept", "loop">>
  <2>1. 3 \in 1..Len(p) /\ p[3] = "accept"
    BY <1>5
  <2> QED
    BY <2>1 DEF Doing
<1>6. CASE p = <<"close", "release", "accept", "loop">>
  <2>1. 3 \in 1..Len(p) /\ p[3] = "accept"
    BY <1>6
  <2> QED
    BY <2>1 DEF Doing
<1>4. CASE p = <<"setopt", "activate", "check", "accept", "loop">>
  <2>1. 4 \in 1..Len(p) /\ p[4] = "accept"
    BY <1>4
  <2> QED
    BY <2>1 DEF Doing
<1> QED
  BY <1>1, <1>2, <1>3, <1>4, <1>5, <1>6 DEF Accepts, Fresh

LEMMA AreReleasing ==
    ASSUME NEW t, todo[t] \in Bound
    PROVE  Doing(t, Releasing)
<1> DEFINE p == todo[t]
<1>1. p # <<>> /\ 1 \in 1..Len(p) /\ p[1] \in Releasing
  BY DEF Bound, Receiving, Uncounting, Closers, Closing, Releasing
<1> QED
  BY <1>1 DEF Doing

-----------------------------------------------------------------------------
(* The theorems                                                            *)

\* Listener: there is at most one AcceptEx, from one ProcessAccept to the next,
\* and as long as the server listens and nothing went wrong there is one.
THEOREM AcceptChainHolds == Spec => []AcceptChain
<1>1. ShutInv => AcceptChain
  <2> SUFFICES ASSUME ShutInv PROVE AcceptChain
    OBVIOUS
  <2>1. PlanInv /\ AcceptInv
    BY DEF ShutInv
  <2>2. \A t \in Threads : todo[t] \in Plans
    BY <2>1 DEF PlanInv
  <2>3. Workers \subseteq Threads
    BY DEF Threads
  <2>4. \A w \in Workers : Doing(w, {"accept"}) <=> todo[w] \in Accepts
    BY <2>2, <2>3, AcceptsAre, AreAccepts
  <2>5. \A x, y \in Accepting : x = y
    BY <2>1, <2>3, <2>4 DEF Accepting, AcceptInv
  <2>6. Cardinality(Accepting) <= 1
    <3>1. CASE Accepting = {}
      BY <3>1, FS_EmptySet
    <3>2. CASE Accepting # {}
      <4>1. PICK x \in Accepting : TRUE
        BY <3>2
      <4>2. Accepting = {x}
        BY <4>1, <2>5
      <4> QED
        BY <4>2, FS_Singleton
    <3> QED
      BY <3>1, <3>2
  <2>7. listening /\ ~broken => Accepting # {}
    <3> SUFFICES ASSUME listening, ~broken PROVE Accepting # {}
      OBVIOUS
    <3>1. CASE \E s \in Sessions : accept[s] # "none"
      BY <3>1 DEF Accepting
    <3>2. CASE \E t \in Threads : todo[t] \in Accepts
      <4>1. PICK t \in Threads : todo[t] \in Accepts
        BY <3>2
      <4>2. t \in Workers
        BY <4>1, <2>1, Nested DEF PlanInv
      <4> QED
        BY <4>1, <4>2, <2>4 DEF Accepting
    <3> QED
      BY <3>1, <3>2, <2>1 DEF AcceptInv
  <2> QED
    BY <2>6, <2>7 DEF AcceptChain
<1> QED
  BY <1>1, ShutAlways, PTL

\* Session::TryRelease and the chain of the recvs: a session in activeSessions
\* that is disconnected has somebody who will still erase it.
THEOREM NoZombieHolds == Spec => []NoZombie
<1>1. ShutInv => NoZombie
  <2> SUFFICES ASSUME ShutInv PROVE NoZombie
    OBVIOUS
  <2>1. TypeOK /\ ZombieInv
    BY DEF ShutInv
  <2> SUFFICES ASSUME NEW s \in active, ~isConnected[s], stage # "crashed",
                      ~recv[s]
               PROVE  \E t \in Threads : has[t] = s /\ Doing(t, Releasing)
    BY <2>1 DEF NoZombie
  <2> QED
    BY <2>1, AreReleasing DEF ZombieInv
<1> QED
  BY <1>1, ShutAlways, PTL

\* Server::End: once its wait is over no session is active, and a recv the
\* kernel still has is of a closed socket or of one that the thread that won the
\* exchange in Disconnect is about to close, unless a session was activated
\* after End took its copy.
THEOREM QuietKernelHolds == Spec => []QuietKernel
<1>1. ShutInv => QuietKernel
  <2> SUFFICES ASSUME ShutInv, stage \in PastWait, ~raced
               PROVE  /\ active = {}
                      /\ \A s \in Sessions : recv[s] /\ open[s] =>
                            \E t \in Threads : has[t] = s /\ At(t, "close")
    BY DEF QuietKernel
  <2>1. active = {}
    BY DEF ShutInv, EndInv
  <2>2. ASSUME NEW s \in Sessions, recv[s], open[s]
        PROVE  \E t \in Threads : has[t] = s /\ At(t, "close")
    <3>1. ~isConnected[s]
      BY <2>1, <2>2 DEF ShutInv, ActiveInv
    <3>2. PICK t \in Threads : todo[t] \in Closers /\ has[t] = s
      BY <2>2, <3>1 DEF ShutInv, OpenInv
    <3>3. todo[t] # <<>> /\ Head(todo[t]) = "close"
      BY <3>2 DEF Closers
    <3> QED
      BY <3>2, <3>3 DEF At
  <2> QED
    BY <2>1, <2>2
<1> QED
  BY <1>1, ShutAlways, PTL

=============================================================================
