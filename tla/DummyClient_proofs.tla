------------------------- MODULE DummyClient_proofs -------------------------
(***************************************************************************)
(* Proofs about DummyClient for any number of threads and sessions.        *)
(*                                                                         *)
(* The argument: a session that a connect thread has acquired is known to  *)
(* that thread, then to the vector, until End clears it.  Its recvs form a *)
(* chain that one thread or the kernel has at a time; the thread whose     *)
(* Disconnect was the first tells the metrics, once, and comes to          *)
(* TryRelease afterwards.                                                  *)
(***************************************************************************)
EXTENDS DummyClient, FiniteSetTheorems, SequenceTheorems, TLAPS

-----------------------------------------------------------------------------
(* What threads have to do                                                 *)

\* Some label of a list is in a set.
Has(p, labels) == \E i \in 1..Len(p) : p[i] \in labels

\* What may be on a list after a label.
Round == {"activate", "connected", "count", "login", "store", "connect"}
Rests == Round \cup {"release", "loop"}
Later == [label \in Labels |->
            CASE label = "uncount" -> {"data", "loop"}
              [] label \in {"leave", "lost"} -> Rests \cup {"close"}
              [] label = "activate" -> Round \ {"activate"}
              [] label = "connected" -> {"count", "login", "store", "connect"}
              [] label = "count" -> {"login", "store", "connect"}
              [] label = "login" -> {"store", "connect"}
              [] label = "store" -> {"connect"}
              [] label \in {"connect", "loop"} -> {}
              [] label = "poll" -> {"loop"}
              [] OTHER -> Rests]

InOrder(p) == \A i, j \in 1..Len(p) : i < j => p[j] \in Later[p[i]]

\* A thread has the chain of the recvs; it is to tell the metrics; it works on
\* a session.
Chain == {"uncount", "data", "rearm", "check", "post"}
Leaving == {"leave", "lost"}
Mine == Labels \ {"connect", "loop", "poll"}

-----------------------------------------------------------------------------
(* The inductive invariant                                                 *)

ListInv ==
    /\ \A t \in Threads : InOrder(todo[t])
    /\ \A t \in Threads : Doing(t, Mine) => has[t] \in Sessions
    /\ \A t \in Threads : Doing(t, Round) => t \in Connectors
    /\ \A t \in Threads : Doing(t, {"uncount"}) => Doing(t, {"data"})
    /\ \A t \in Threads :
          Doing(t, {"leave", "lost", "close"}) => Doing(t, {"release"})
    /\ \A c \in Connectors :
          has[c] # None \/ Doing(c, Mine) => Doing(c, {"store"})

\* Until End clears the vector, a session that has left the pool is in it or
\* with the thread that connects it.
Cleared == stage \in {"drop", "ended"}
Known(s) == s \in sessions \/ \E c \in Connectors : has[c] = s
KnownInv ==
    /\ ~Cleared =>
          /\ \A t \in Threads : has[t] # None => Known(has[t])
          /\ \A s \in Sessions : s \in active \/ recv[s] \/ send[s] => Known(s)
          /\ \A s \in early : Known(s)
    /\ \A c, d \in Connectors : has[c] # None /\ has[c] = has[d] => c = d
    /\ \A c \in Connectors : has[c] \notin sessions

\* The recvs of a session form one chain, and recvPendingCnt counts them.
ChainInv ==
    /\ \A t \in Threads : Doing(t, Chain) => ~recv[has[t]]
    /\ \A t, u \in Threads :
          Doing(t, Chain) /\ Doing(u, Chain) /\ has[t] = has[u] => t = u
CountInv ==
    \A s \in Sessions :
       recvPendingCnt[s] # 0 <=>
          recv[s] \/ \E t \in Threads : has[t] = s /\ Doing(t, {"uncount"})

\* Before its OnConnected, a session that is lost is early, or its
\* OnDisconnected is still to come.
EarlyInv ==
    \A c \in Connectors :
       Doing(c, {"activate", "connected"}) =>
          /\ state[has[c]] = "Disconnected"
          /\ \/ isConnected[has[c]] \/ has[c] \in early
             \/ \E t \in Threads : has[t] = has[c] /\ Doing(t, {"leave"})

\* OnDisconnected is called once, after isConnected is cleared.
LeaveInv ==
    /\ \A t \in Threads : Doing(t, Leaving) =>
          ~isConnected[has[t]] /\ has[t] \notin early
    /\ \A t, u \in Threads :
          Doing(t, Leaving) /\ Doing(u, Leaving) /\ has[t] = has[u] => t = u
    /\ \A s \in early : ~isConnected[s]

\* Somebody will erase a session that is disconnected.
Safe(s) == \/ isConnected[s] \/ s \in early \/ recv[s]
           \/ \E t \in Threads : has[t] = s /\ Doing(t, Releasing)
ZombieInv == \A s \in active : Safe(s)

EndInv ==
    /\ stage # "connecting" => \A c \in Connectors : todo[c] = <<>>
    /\ stage # "disconnect" => todo[Main] = <<>>
    /\ stage \in {"clear", "drop", "ended"} => \A t \in Threads : todo[t] = <<>>
    /\ stage = "disconnect" => \A s \in sessions \ rest :
          isConnected[s] => has[Main] = s /\ Doing(Main, {"disconnect"})
    /\ stage \in {"join workers", "clear"} =>
          rest = {} /\ \A s \in sessions : ~isConnected[s]
    /\ Cleared => \A s \in Sessions : ~Pooled(s) => ~isConnected[s]

LoadInv == TypeOK /\ ListInv /\ KnownInv /\ ChainInv /\ CountInv /\ EarlyInv
           /\ LeaveInv /\ ZombieInv /\ EndInv

\* The column `connected' is the sessions that are connected or not yet lost,
\* but for those that a connect thread has still to count; a session that is
\* lost before its OnConnected stays in it.
Counts(s) == \/ isConnected[s] \/ s \in early
             \/ \E t \in Threads : has[t] = s /\ Doing(t, Leaving)
Owes(s) == \E c \in Connectors : has[c] = s /\ Doing(c, {"count"})
Unlost == {s \in Sessions : Known(s) /\ Counts(s)}
Owed == {s \in Sessions : Owes(s)}

MetricsInv ==
    /\ ~Cleared => /\ IsFiniteSet({s \in Sessions : Known(s)})
                   /\ connected = Cardinality(Unlost) - Cardinality(Owed)
    /\ Cleared => connected = Cardinality(early)

-----------------------------------------------------------------------------
(* Lists of labels                                                         *)

LEMMA LaterIs ==
    /\ Later["uncount"] = {"data", "loop"}
    /\ Later["leave"] = Rests \cup {"close"}
    /\ Later["lost"] = Rests \cup {"close"}
    /\ Later["activate"] = {"connected", "count", "login", "store", "connect"}
    /\ Later["connected"] = {"count", "login", "store", "connect"}
    /\ Later["count"] = {"login", "store", "connect"}
    /\ Later["login"] = {"store", "connect"}
    /\ Later["store"] = {"connect"}
    /\ Later["connect"] = {}
    /\ Later["loop"] = {}
    /\ Later["poll"] = {"loop"}
    /\ Later["data"] = Rests
    /\ Later["rearm"] = Rests
    /\ Later["check"] = Rests
    /\ Later["post"] = Rests
    /\ Later["disconnect"] = Rests
    /\ Later["send"] = Rests
    /\ Later["close"] = Rests
    /\ Later["release"] = Rests
<1>1. /\ Later["uncount"] = {"data", "loop"}
      /\ Later["leave"] = Rests \cup {"close"}
      /\ Later["lost"] = Rests \cup {"close"}
      /\ Later["activate"] = Round \ {"activate"}
      /\ Later["connected"] = {"count", "login", "store", "connect"}
      /\ Later["count"] = {"login", "store", "connect"}
      /\ Later["login"] = {"store", "connect"}
  BY DEF Later, Labels
<1>2. /\ Later["store"] = {"connect"}
      /\ Later["connect"] = {}
      /\ Later["loop"] = {}
      /\ Later["poll"] = {"loop"}
      /\ Later["data"] = Rests
      /\ Later["rearm"] = Rests
  BY DEF Later, Labels
<1>3. /\ Later["check"] = Rests
      /\ Later["post"] = Rests
      /\ Later["disconnect"] = Rests
      /\ Later["send"] = Rests
      /\ Later["close"] = Rests
      /\ Later["release"] = Rests
  BY DEF Later, Labels
<1>4. Round \ {"activate"} = {"connected", "count", "login", "store", "connect"}
  BY DEF Round
<1> QED
  BY <1>1, <1>2, <1>3, <1>4

\* The label on turn is replaced by those of its callee: what is on the list
\* before and after.
LEMMA Spliced ==
    ASSUME NEW p \in Seq(Labels), p # <<>>, InOrder(p),
           NEW body \in Seq(Labels), InOrder(body),
           \A i \in 1..Len(body) : Later[Head(p)] \subseteq Later[body[i]]
    PROVE  /\ body \o Tail(p) \in Seq(Labels)
           /\ InOrder(body \o Tail(p))
           /\ \A S \in SUBSET Labels :
                 /\ Has(p, S) <=> Head(p) \in S \/ Has(Tail(p), S)
                 /\ Has(body \o Tail(p), S) <=> Has(body, S) \/ Has(Tail(p), S)
                 /\ Has(Tail(p), S) => \E label \in S : label \in Later[Head(p)]
<1> DEFINE q == Tail(p)
           r == body \o q
           n == Len(body)
<1>1. /\ q \in Seq(Labels) /\ Len(q) = Len(p) - 1 /\ Len(p) >= 1
      /\ \A i \in 1..Len(q) : i + 1 \in 1..Len(p) /\ q[i] = p[i + 1]
      /\ Head(p) = p[1] /\ n \in Nat /\ Len(p) \in Nat
  BY HeadTailProperties, LenProperties, EmptySeq
<1>2. /\ r \in Seq(Labels) /\ Len(r) = n + Len(q)
      /\ \A i \in 1..n : i \in 1..Len(r) /\ r[i] = body[i]
      /\ \A i \in 1..Len(q) : n + i \in 1..Len(r) /\ r[n + i] = q[i]
      /\ \A i \in 1..Len(r) : \/ i \in 1..n
                              \/ i - n \in 1..Len(q) /\ r[i] = q[i - n]
  <2>1. /\ r \in Seq(Labels) /\ Len(r) = n + Len(q)
        /\ \A i \in 1..n + Len(q) :
              r[i] = IF i <= n THEN body[i] ELSE q[i - n]
    BY <1>1, ConcatProperties
  <2> QED
    BY <1>1, <2>1
<1>3. \A i \in 1..Len(q) : q[i] \in Later[Head(p)]
  BY <1>1 DEF InOrder
<1>4. InOrder(q)
  <2> SUFFICES ASSUME NEW i \in 1..Len(q), NEW j \in 1..Len(q), i < j
               PROVE  q[j] \in Later[q[i]]
    BY DEF InOrder
  <2>1. /\ i + 1 \in 1..Len(p) /\ q[i] = p[i + 1]
        /\ j + 1 \in 1..Len(p) /\ q[j] = p[j + 1]
        /\ i + 1 < j + 1
    BY <1>1
  <2> QED
    BY <2>1 DEF InOrder
<1>5. InOrder(r)
  <2> SUFFICES ASSUME NEW i \in 1..Len(r), NEW j \in 1..Len(r), i < j
               PROVE  r[j] \in Later[r[i]]
    BY DEF InOrder
  <2>1. CASE i \in 1..n /\ j \in 1..n
    BY <1>2, <2>1 DEF InOrder
  <2>2. CASE i \in 1..n /\ j - n \in 1..Len(q) /\ r[j] = q[j - n]
    BY <1>2, <1>3, <2>2
  <2>3. CASE /\ i - n \in 1..Len(q) /\ r[i] = q[i - n]
             /\ j - n \in 1..Len(q) /\ r[j] = q[j - n]
    <3>1. i - n < j - n
      BY <1>1
    <3> QED
      BY <1>4, <2>3, <3>1 DEF InOrder
  <2>4. i \in 1..n \/ ~(j \in 1..n)
    BY <1>1
  <2> QED
    BY <1>2, <2>1, <2>2, <2>3, <2>4
<1>6. ASSUME NEW S \in SUBSET Labels
      PROVE  /\ Has(p, S) <=> Head(p) \in S \/ Has(q, S)
             /\ Has(r, S) <=> Has(body, S) \/ Has(q, S)
             /\ Has(q, S) => \E label \in S : label \in Later[Head(p)]
  <2>1. \A i \in 1..Len(p) : \/ i = 1
                             \/ i - 1 \in 1..Len(q) /\ q[i - 1] = p[i]
    BY <1>1
  <2>2. 1 \in 1..Len(p)
    BY <1>1
  <2>3. Has(p, S) <=> Head(p) \in S \/ Has(q, S)
    BY <1>1, <2>1, <2>2 DEF Has
  <2>4. Has(r, S) <=> Has(body, S) \/ Has(q, S)
    BY <1>2 DEF Has
  <2>5. Has(q, S) => \E label \in S : label \in Later[Head(p)]
    BY <1>3 DEF Has
  <2> QED
    BY <2>3, <2>4, <2>5
<1> QED
  BY <1>2, <1>5, <1>6

-----------------------------------------------------------------------------
(* A thread's turn                                                         *)

\* What a call may put in the place of a label.
Body(label, body) ==
    /\ body \in Seq(Labels) /\ InOrder(body)
    /\ \A i \in 1..Len(body) : Later[label] \subseteq Later[body[i]]
    /\ ~Has(body, Round) /\ ~Has(body, {"uncount"})
    /\ Has(body, {"leave", "lost", "close"}) =>
          Has(body, {"release"}) \/ label \in Leaving

LEMMA HasOf ==
    ASSUME NEW S
    PROVE  /\ ~Has(<<>>, S)
           /\ \A a : Has(<<a>>, S) <=> a \in S
           /\ \A a, b : Has(<<a, b>>, S) <=> a \in S \/ b \in S
           /\ \A a, b, c : Has(<<a, b, c>>, S) <=> a \in S \/ b \in S \/ c \in S
<1>1. ~Has(<<>>, S)
  BY DEF Has
<1>2. ASSUME NEW a
      PROVE  Has(<<a>>, S) <=> a \in S
  BY DEF Has
<1>3. ASSUME NEW a, NEW b
      PROVE  Has(<<a, b>>, S) <=> a \in S \/ b \in S
  <2>1. /\ 1 \in 1..Len(<<a, b>>) /\ <<a, b>>[1] = a
        /\ 2 \in 1..Len(<<a, b>>) /\ <<a, b>>[2] = b
        /\ \A i \in 1..Len(<<a, b>>) : i = 1 \/ i = 2
    OBVIOUS
  <2> QED
    BY <2>1 DEF Has
<1>4. ASSUME NEW a, NEW b, NEW c
      PROVE  Has(<<a, b, c>>, S) <=> a \in S \/ b \in S \/ c \in S
  <2>1. /\ 1 \in 1..Len(<<a, b, c>>) /\ <<a, b, c>>[1] = a
        /\ 2 \in 1..Len(<<a, b, c>>) /\ <<a, b, c>>[2] = b
        /\ 3 \in 1..Len(<<a, b, c>>) /\ <<a, b, c>>[3] = c
        /\ \A i \in 1..Len(<<a, b, c>>) : i = 1 \/ i = 2 \/ i = 3
    OBVIOUS
  <2> QED
    BY <2>1 DEF Has
<1> QED
  BY <1>1, <1>2, <1>3, <1>4

LEMMA NoBody == \A label \in Labels : Body(label, <<>>)
<1>1. <<>> \in Seq(Labels) /\ Len(<<>>) = 0
  BY EmptySeq
<1> QED
  BY <1>1, HasOf DEF Body, InOrder

\* A body of one label.
LEMMA OneBody ==
    ASSUME NEW label \in Labels, NEW a \in Labels,
           Later[label] \subseteq Later[a],
           a \notin Round \cup {"uncount", "leave", "lost", "close"}
    PROVE  Body(label, <<a>>)
<1>1. /\ <<a>> \in Seq(Labels) /\ Len(<<a>>) = 1 /\ <<a>>[1] = a
  OBVIOUS
<1>2. InOrder(<<a>>)
  BY <1>1 DEF InOrder
<1>3. ~Has(<<a>>, Round) /\ ~Has(<<a>>, {"uncount"})
      /\ ~Has(<<a>>, {"leave", "lost", "close"})
  BY HasOf
<1> QED
  BY <1>1, <1>2, <1>3 DEF Body

LEMMA NotInRound ==
    /\ "disconnect" \notin Round /\ "leave" \notin Round /\ "lost" \notin Round
    /\ "close" \notin Round /\ "release" \notin Round
  BY DEF Round

LEMMA NotUncount ==
    /\ "disconnect" \notin {"uncount"} /\ "leave" \notin {"uncount"}
    /\ "lost" \notin {"uncount"} /\ "close" \notin {"uncount"}
    /\ "release" \notin {"uncount"} /\ "release" \in {"release"}
    /\ "disconnect" \notin {"leave", "lost", "close"}
    /\ "release" \notin {"leave", "lost", "close"}
  OBVIOUS

LEMMA DisconnectBody ==
    ASSUME NEW label \in Labels, Later[label] \subseteq Rests
    PROVE  Body(label, <<"disconnect", "release">>)
<1> DEFINE p == <<"disconnect", "release">>
<1>1. /\ p \in Seq(Labels) /\ Len(p) = 2 /\ p[1] = "disconnect" /\ p[2] = "release"
  BY DEF Labels
<1>2. /\ ~Has(p, Round) /\ ~Has(p, {"uncount"})
      /\ ~Has(p, {"leave", "lost", "close"})
  BY HasOf, NotInRound, NotUncount, Zenon
<1> HIDE DEF p
<1>3. InOrder(p)
  <2>1. "release" \in Later["disconnect"]
    BY LaterIs DEF Rests
  <2> QED
    BY <1>1, <2>1 DEF InOrder
<1>4. \A i \in 1..Len(p) : Later[label] \subseteq Later[p[i]]
  BY <1>1, LaterIs
<1>5. Body(label, p)
  BY <1>1, <1>2, <1>3, <1>4 DEF Body
<1> QED
  BY <1>5 DEF p

LEMMA LeaveBody == Body("disconnect", <<"leave", "close", "release">>)
<1> DEFINE p == <<"leave", "close", "release">>
<1>1. /\ p \in Seq(Labels) /\ Len(p) = 3
      /\ p[1] = "leave" /\ p[2] = "close" /\ p[3] = "release"
  BY DEF Labels
<1>2. ~Has(p, Round) /\ ~Has(p, {"uncount"}) /\ Has(p, {"release"})
  BY HasOf, NotInRound, NotUncount, Zenon
<1> HIDE DEF p
<1>3. InOrder(p)
  <2>1. /\ "close" \in Later["leave"] /\ "release" \in Later["leave"]
        /\ "release" \in Later["close"]
    BY LaterIs DEF Rests
  <2>2. \A i \in 1..Len(p) : i = 1 \/ i = 2 \/ i = 3
    BY <1>1
  <2> QED
    BY <1>1, <2>1, <2>2 DEF InOrder
<1>4. \A i \in 1..Len(p) : Later["disconnect"] \subseteq Later[p[i]]
  BY <1>1, LaterIs
<1>5. Body("disconnect", p)
  BY <1>1, <1>2, <1>3, <1>4 DEF Body
<1> QED
  BY <1>5 DEF p

LEMMA LostBody == Body("leave", <<"lost">>)
<1>1. /\ <<"lost">> \in Seq(Labels) /\ Len(<<"lost">>) = 1
      /\ <<"lost">>[1] = "lost"
  BY DEF Labels
<1>2. InOrder(<<"lost">>)
  BY <1>1 DEF InOrder
<1>3. ~Has(<<"lost">>, Round) /\ ~Has(<<"lost">>, {"uncount"})
  BY HasOf, NotInRound, NotUncount, Zenon
<1> QED
  BY <1>1, <1>2, <1>3, LaterIs DEF Body, Leaving

\* Thread t executes label, which calls body, and goes on with its session.
Turn(t, label, body) ==
    /\ At(t, label) /\ Then(t, body)
    /\ label \in Mine \ {"store"} /\ Body(label, body)
    /\ UNCHANGED <<stage, sessions, rest, has>>

\* What is still to do after a label.
Left(t, S) == Has(Tail(todo[t]), S)

LEMMA LeftFacts ==
    ASSUME TypeOK, ListInv, NEW t \in Threads, NEW label \in Labels, At(t, label)
    PROVE  /\ ~Left(t, {"uncount"}) /\ ~Left(t, Leaving) /\ ~Left(t, {"leave"})
           /\ ~Left(t, {"disconnect"})
           /\ label # "uncount" => ~Left(t, Chain) /\ ~Left(t, {"data"})
           /\ label \notin Leaving => ~Left(t, {"leave", "lost", "close"})
           /\ label \in {"store", "connect", "loop", "poll"} =>
                 ~Left(t, Mine) /\ ~Left(t, Releasing)
           /\ label \in {"connect", "loop", "poll"} =>
                 ~Left(t, Round) /\ ~Left(t, {"store"})
           /\ label = "connected" => ~Left(t, {"activate", "connected"})
           /\ label = "count" => ~Left(t, {"count"})
           /\ label \in {"store", "connect", "loop", "poll"} =>
                 ~Left(t, {"count"}) /\ ~Left(t, {"activate", "connected"})
           /\ \A S \in SUBSET Labels :
                 Doing(t, S) <=> label \in S \/ Left(t, S)
<1>1. todo[t] \in Seq(Labels) /\ todo[t] # <<>> /\ Head(todo[t]) = label
      /\ InOrder(todo[t])
  BY DEF At, TypeOK, ListInv
<1>2. InOrder(<<>>) /\ <<>> \in Seq(Labels)
  BY EmptySeq DEF InOrder
<1>3. \A S \in SUBSET Labels :
         /\ Has(todo[t], S) <=> label \in S \/ Left(t, S)
         /\ Left(t, S) => \E l \in S : l \in Later[label]
  <2>1. \A i \in 1..Len(<<>>) : Later[Head(todo[t])] \subseteq Later[<<>>[i]]
    BY EmptySeq
  <2> HIDE DEF Left
  <2> QED
    BY <1>1, <1>2, <2>1, Spliced DEF Left
<1>4. ~Left(t, {"uncount"}) /\ ~Left(t, Leaving) /\ ~Left(t, {"leave"})
      /\ ~Left(t, {"disconnect"})
  BY <1>3, LaterIs DEF Labels, Rests, Round, Leaving
<1>5. label # "uncount" => ~Left(t, Chain) /\ ~Left(t, {"data"})
  BY <1>3, LaterIs DEF Labels, Rests, Round, Chain
<1>6. label \notin Leaving => ~Left(t, {"leave", "lost", "close"})
  BY <1>3, LaterIs DEF Labels, Rests, Round, Leaving
<1>7. label \in {"store", "connect", "loop", "poll"} =>
         /\ ~Left(t, Mine) /\ ~Left(t, Releasing)
         /\ ~Left(t, {"count"}) /\ ~Left(t, {"activate", "connected"})
  BY <1>3, LaterIs DEF Labels, Mine, Releasing
<1>8. label \in {"connect", "loop", "poll"} =>
         ~Left(t, Round) /\ ~Left(t, {"store"})
  BY <1>3, LaterIs DEF Labels, Round
<1>9. /\ label = "connected" => ~Left(t, {"activate", "connected"})
      /\ label = "count" => ~Left(t, {"count"})
  BY <1>3, LaterIs DEF Labels
<1>10. \A S \in SUBSET Labels : Doing(t, S) <=> label \in S \/ Left(t, S)
  BY <1>3 DEF Doing, Has
<1> QED
  BY <1>4, <1>5, <1>6, <1>7, <1>8, <1>9, <1>10

\* The sets of labels that the invariant is about.
LEMMA SetsOfLabels ==
    /\ Mine \in SUBSET Labels /\ Round \in SUBSET Labels
    /\ Chain \in SUBSET Labels /\ Leaving \in SUBSET Labels
    /\ Releasing \in SUBSET Labels
    /\ {"uncount"} \in SUBSET Labels /\ {"data"} \in SUBSET Labels
    /\ {"leave", "lost", "close"} \in SUBSET Labels
    /\ {"release"} \in SUBSET Labels /\ {"store"} \in SUBSET Labels
    /\ {"activate", "connected"} \in SUBSET Labels
    /\ {"leave"} \in SUBSET Labels /\ {"disconnect"} \in SUBSET Labels
    /\ {"count"} \in SUBSET Labels
  BY DEF Mine, Round, Chain, Leaving, Releasing, Labels

LEMMA ThenFacts ==
    ASSUME TypeOK, ListInv, NEW t \in Threads, NEW label \in Labels, At(t, label),
           NEW body \in Seq(Labels), InOrder(body), Then(t, body),
           \A i \in 1..Len(body) : Later[label] \subseteq Later[body[i]]
    PROVE  /\ todo' \in [Threads -> Seq(Labels)]
           /\ InOrder(todo[t])' /\ \A u \in Threads \ {t} : todo'[u] = todo[u]
           /\ \A S : \A u \in Threads \ {t} : Doing(u, S)' <=> Doing(u, S)
           /\ \A S \in SUBSET Labels :
                 Doing(t, S)' <=> Has(body, S) \/ Left(t, S)
<1>1. todo[t] \in Seq(Labels) /\ todo[t] # <<>> /\ Head(todo[t]) = label
      /\ InOrder(todo[t])
  BY DEF At, TypeOK, ListInv
<1>2. /\ body \o Tail(todo[t]) \in Seq(Labels)
      /\ InOrder(body \o Tail(todo[t]))
      /\ \A S \in SUBSET Labels :
            Has(body \o Tail(todo[t]), S) <=> Has(body, S) \/ Left(t, S)
  BY <1>1, Spliced DEF Left
<1>3. /\ todo'[t] = body \o Tail(todo[t])
      /\ todo' \in [Threads -> Seq(Labels)]
      /\ \A u \in Threads \ {t} : todo'[u] = todo[u]
  BY <1>2 DEF Then, TypeOK
<1>4. \A S \in SUBSET Labels : Doing(t, S)' <=> Has(body, S) \/ Left(t, S)
  BY <1>2, <1>3 DEF Doing, Has
<1>5. \A S : \A u \in Threads \ {t} : Doing(u, S)' <=> Doing(u, S)
  BY <1>3 DEF Doing
<1>6. InOrder(todo[t])'
  BY <1>2, <1>3 DEF InOrder
<1> QED
  BY <1>3, <1>4, <1>5, <1>6

\* What a turn does to the lists.
LEMMA TurnFacts ==
    ASSUME TypeOK, ListInv, NEW t \in Threads, NEW label \in Labels, NEW body,
           Turn(t, label, body)
    PROVE  /\ todo' \in [Threads -> Seq(Labels)] /\ todo[t] # <<>>
           /\ \A u \in Threads \ {t} : todo'[u] = todo[u]
           /\ \A S : \A u \in Threads \ {t} : Doing(u, S)' <=> Doing(u, S)
           /\ \A S \in SUBSET Labels :
                 /\ Doing(t, S) <=> label \in S \/ Left(t, S)
                 /\ Doing(t, S)' <=> Has(body, S) \/ Left(t, S)
           /\ has[t] \in Sessions
           /\ ListInv'
<1>1. /\ At(t, label) /\ Then(t, body) /\ label \in Mine /\ label # "store"
      /\ Body(label, body) /\ has' = has
  BY DEF Turn
<1>2. /\ body \in Seq(Labels) /\ InOrder(body)
      /\ \A i \in 1..Len(body) : Later[label] \subseteq Later[body[i]]
      /\ ~Has(body, Round) /\ ~Has(body, {"uncount"})
      /\ Has(body, {"leave", "lost", "close"}) =>
            Has(body, {"release"}) \/ label \in Leaving
  BY <1>1 DEF Body
<1>3. /\ todo' \in [Threads -> Seq(Labels)] /\ InOrder(todo[t])'
      /\ \A u \in Threads \ {t} : todo'[u] = todo[u]
      /\ \A S : \A u \in Threads \ {t} : Doing(u, S)' <=> Doing(u, S)
      /\ \A S \in SUBSET Labels : Doing(t, S)' <=> Has(body, S) \/ Left(t, S)
  BY <1>1, <1>2, ThenFacts
<1>4. /\ ~Left(t, {"uncount"})
      /\ label \notin Leaving => ~Left(t, {"leave", "lost", "close"})
      /\ \A S \in SUBSET Labels : Doing(t, S) <=> label \in S \/ Left(t, S)
  BY <1>1, LeftFacts
<1>5. has[t] \in Sessions
  BY <1>1, <1>4, SetsOfLabels DEF ListInv
<1>6. \A u \in Threads : InOrder(todo[u])'
  BY <1>3 DEF ListInv, InOrder
<1>7. \A u \in Threads : (Doing(u, Mine) => has[u] \in Sessions)'
  BY <1>1, <1>3, <1>5 DEF ListInv
<1>8. \A u \in Threads : (Doing(u, Round) => u \in Connectors)'
  BY <1>2, <1>3, <1>4, SetsOfLabels DEF ListInv
<1>9. \A u \in Threads : (Doing(u, {"uncount"}) => Doing(u, {"data"}))'
  BY <1>2, <1>3, <1>4, SetsOfLabels DEF ListInv
<1>10. Doing(t, {"leave", "lost", "close"})' => Doing(t, {"release"})'
  <2>1. CASE Has(body, {"leave", "lost", "close"}) /\ Has(body, {"release"})
    BY <1>3, <2>1, SetsOfLabels
  <2>2. CASE label \in Leaving
    <3>1. Doing(t, {"leave", "lost", "close"}) /\ label \notin {"release"}
      BY <1>4, <2>2, SetsOfLabels DEF Leaving
    <3>2. Left(t, {"release"})
      BY <1>4, <3>1, SetsOfLabels DEF ListInv
    <3> QED
      BY <1>3, <3>2, SetsOfLabels
  <2> QED
    BY <1>2, <1>3, <1>4, <2>1, <2>2, SetsOfLabels
<1>11. \A u \in Threads :
          (Doing(u, {"leave", "lost", "close"}) => Doing(u, {"release"}))'
  BY <1>3, <1>10 DEF ListInv
<1>12. \A c \in Connectors :
          (has[c] # None \/ Doing(c, Mine) => Doing(c, {"store"}))'
  <2> SUFFICES ASSUME NEW c \in Connectors, has[c] # None \/ Doing(c, Mine)'
               PROVE  Doing(c, {"store"})'
    BY <1>1
  <2>1. c \in Threads
    BY DEF Threads
  <2>2. CASE c # t
    BY <1>3, <2>1, <2>2 DEF ListInv
  <2>3. CASE c = t
    <3>1. Doing(t, {"store"}) /\ label \notin {"store"}
      BY <1>1, <1>4, <2>3, SetsOfLabels DEF ListInv
    <3> QED
      BY <1>3, <1>4, <2>3, <3>1, SetsOfLabels
  <2> QED
    BY <2>2, <2>3
<1>13. ListInv'
  BY <1>6, <1>7, <1>8, <1>9, <1>11, <1>12 DEF ListInv
<1>14. todo[t] # <<>>
  BY <1>1 DEF At
<1> QED
  BY <1>3, <1>4, <1>5, <1>13, <1>14

-----------------------------------------------------------------------------
(* What a turn keeps                                                       *)

LEMMA KnownKept ==
    ASSUME KnownInv, NEW t \in Threads, has[t] \in Sessions, has[t] # None,
           UNCHANGED <<stage, sessions, has>>,
           active' \subseteq active \cup {has[t]},
           \A s \in Sessions : recv'[s] => recv[s] \/ s = has[t],
           \A s \in Sessions : send'[s] => send[s] \/ s = has[t],
           early' \subseteq early \cup {has[t]}
    PROVE  KnownInv' /\ \A s : Known(s)' <=> Known(s)
<1>1. \A s : Known(s)' <=> Known(s)
  BY DEF Known
<1>2. Cleared' = Cleared
  BY DEF Cleared
<1>3. ~Cleared => /\ \A u \in Threads : has'[u] # None => Known(has[u])
                  /\ \A s \in Sessions :
                        s \in active' \/ recv'[s] \/ send'[s] => Known(s)
                  /\ \A s \in early' : Known(s)
  BY DEF KnownInv
<1>4. ~Cleared' => /\ \A u \in Threads : has'[u] # None => Known(has[u])'
                   /\ \A s \in Sessions :
                         s \in active' \/ recv'[s] \/ send'[s] => Known(s)'
                   /\ \A s \in early' : Known(s)'
  BY <1>1, <1>2, <1>3 DEF Known
<1> QED
  BY <1>1, <1>4 DEF KnownInv

LEMMA ChainKept ==
    ASSUME ChainInv, TypeOK, ListInv, NEW t \in Threads, NEW label \in Labels,
           NEW body, Turn(t, label, body),
           Has(body, Chain) => label \in Chain,
           \A s \in Sessions : recv'[s] => recv[s]
    PROVE  ChainInv'
<1>1. \A u \in Threads : Doing(u, Chain)' => Doing(u, Chain)
  BY TurnFacts, SetsOfLabels
<1>2. \A u \in Threads : Doing(u, Chain)' => has[u] \in Sessions
  <2>1. \A u \in Threads : Doing(u, Chain) => Doing(u, Mine)
    BY DEF Doing, Chain, Mine, Labels
  <2> QED
    BY <1>1, <2>1 DEF ListInv
<1>3. has' = has
  BY DEF Turn
<1> QED
  BY <1>1, <1>2, <1>3 DEF ChainInv

LEMMA CountKept ==
    ASSUME CountInv, TypeOK, ListInv, NEW t \in Threads, NEW label \in Labels,
           NEW body, Turn(t, label, body), label # "uncount",
           UNCHANGED <<recv, recvPendingCnt>>
    PROVE  CountInv'
<1>1. ~Has(body, {"uncount"}) /\ label \notin {"uncount"} /\ has' = has
  BY DEF Turn, Body
<1>2. \A u \in Threads : Doing(u, {"uncount"})' <=> Doing(u, {"uncount"})
  BY <1>1, TurnFacts, SetsOfLabels
<1> QED
  BY <1>1, <1>2 DEF CountInv

LEMMA EarlyKept ==
    ASSUME EarlyInv, TypeOK, ListInv, NEW t \in Threads, NEW label \in Labels,
           NEW body, Turn(t, label, body), label # "leave",
           UNCHANGED <<state, isConnected>>, early \subseteq early'
    PROVE  EarlyInv'
<1>1. ~Has(body, Round) /\ label \notin {"leave"} /\ has' = has
  BY DEF Turn, Body
<1>2. ~Has(body, {"activate", "connected"})
  BY <1>1 DEF Has, Round
<1>3. \A u \in Threads :
         /\ Doing(u, {"activate", "connected"})'
               => Doing(u, {"activate", "connected"})
         /\ Doing(u, {"leave"}) => Doing(u, {"leave"})'
  BY <1>1, <1>2, TurnFacts, SetsOfLabels
<1>4. Connectors \subseteq Threads
  BY DEF Threads
<1> QED
  BY <1>1, <1>3, <1>4 DEF EarlyInv

LEMMA LeaveKept ==
    ASSUME LeaveInv, TypeOK, ListInv, NEW t \in Threads, NEW label \in Labels,
           NEW body, Turn(t, label, body),
           Has(body, Leaving) => label \in Leaving,
           UNCHANGED <<isConnected, early>>
    PROVE  LeaveInv'
<1>1. \A u \in Threads : Doing(u, Leaving)' => Doing(u, Leaving)
  BY TurnFacts, SetsOfLabels
<1>2. has' = has
  BY DEF Turn
<1> QED
  BY <1>1, <1>2 DEF LeaveInv

LEMMA ZombieKept ==
    ASSUME ZombieInv, TypeOK, ListInv, NEW t \in Threads, NEW label \in Labels,
           NEW body, Turn(t, label, body), active' \subseteq active \cup {has[t]},
           \A s \in Sessions \ {has[t]} : /\ isConnected[s] => isConnected'[s]
                                          /\ recv[s] => recv'[s]
                                          /\ s \in early => s \in early',
           has[t] \in active' => Safe(has[t])'
    PROVE  ZombieInv'
<1>1. has' = has /\ active \subseteq Sessions
  BY DEF Turn, TypeOK
<1>2. \A u \in Threads \ {t} : Doing(u, Releasing)' <=> Doing(u, Releasing)
  BY TurnFacts
<1>3. ASSUME NEW s \in active \ {has[t]}
      PROVE  Safe(s)'
  <2>1. Safe(s) /\ s \in Sessions
    BY <1>1 DEF ZombieInv
  <2>2. (\E u \in Threads : has[u] = s /\ Doing(u, Releasing)) =>
           \E u \in Threads : has'[u] = s /\ Doing(u, Releasing)'
    BY <1>1, <1>2
  <2>3. /\ isConnected[s] => isConnected'[s]
        /\ recv[s] => recv'[s]
        /\ s \in early => s \in early'
    BY <2>1
  <2>4. \/ isConnected'[s] \/ s \in early' \/ recv'[s]
        \/ \E u \in Threads : has'[u] = s /\ Doing(u, Releasing)'
    BY <2>1, <2>2, <2>3 DEF Safe
  <2> QED
    BY <2>4 DEF Safe
<1>4. ASSUME NEW s \in active', s = has[t]
      PROVE  Safe(s)'
  <2>1. Safe(has[t])' /\ has'[t] = s
    BY <1>1, <1>4
  <2>2. \/ isConnected'[has'[t]] \/ has'[t] \in early' \/ recv'[has'[t]]
        \/ \E u \in Threads : has'[u] = has'[t] /\ Doing(u, Releasing)'
    BY <2>1 DEF Safe
  <2> QED
    BY <2>1, <2>2 DEF Safe
<1> QED
  BY <1>3, <1>4 DEF ZombieInv

\* The session of a thread that stays on its way to TryRelease.
LEMMA StillSafe ==
    ASSUME ZombieInv, TypeOK, ListInv, NEW t \in Threads, NEW label \in Labels,
           NEW body, Turn(t, label, body), has[t] \in active,
           \/ Has(body, Releasing) \/ Left(t, Releasing)
           \/ label \notin Releasing,
           isConnected[has[t]] => isConnected'[has[t]],
           recv[has[t]] => recv'[has[t]],
           has[t] \in early => has[t] \in early'
    PROVE  Safe(has[t])'
<1>1. has' = has /\ Safe(has[t])
  BY DEF Turn, ZombieInv
<1>2. \A u \in Threads : Doing(u, Releasing) => Doing(u, Releasing)'
  BY TurnFacts, SetsOfLabels
<1> QED
  BY <1>1, <1>2 DEF Safe

LEMMA EndKept ==
    ASSUME EndInv, TypeOK, ListInv, NEW t \in Threads, NEW label \in Labels,
           NEW body, Turn(t, label, body),
           label = "disconnect" => ~isConnected'[has[t]],
           \A s \in Sessions : isConnected'[s] => isConnected[s]
    PROVE  EndInv'
<1>1. /\ todo[t] # <<>> /\ \A u \in Threads \ {t} : todo'[u] = todo[u]
      /\ has[t] \in Sessions
  BY TurnFacts
<1>2. UNCHANGED <<stage, sessions, rest, has>>
  BY DEF Turn
<1>3. /\ t \in Connectors => stage = "connecting"
      /\ t = Main => stage = "disconnect"
      /\ stage \notin {"clear", "drop", "ended"}
  BY <1>1 DEF EndInv
<1>4. Main \in Threads /\ Connectors \subseteq Threads
  BY DEF Threads
<1>5. stage' # "connecting" => \A c \in Connectors : todo'[c] = <<>>
  BY <1>1, <1>2, <1>3, <1>4 DEF EndInv
<1>6. stage' # "disconnect" => todo'[Main] = <<>>
  BY <1>1, <1>2, <1>3, <1>4 DEF EndInv
<1>7. ASSUME stage = "disconnect", NEW s \in sessions \ rest, isConnected'[s]
      PROVE  has[Main] = s /\ Doing(Main, {"disconnect"})'
  <2>1. s \in Sessions /\ isConnected[s]
    BY <1>7 DEF TypeOK
  <2>2. has[Main] = s /\ Doing(Main, {"disconnect"})
    BY <1>7, <2>1 DEF EndInv
  <2>3. CASE t # Main
    BY <1>4, <2>2, <2>3, TurnFacts
  <2>4. CASE t = Main
    <3>1. label \notin {"disconnect"}
      BY <1>7, <2>2, <2>4
    <3> QED
      BY <2>2, <2>4, <3>1, TurnFacts, SetsOfLabels
  <2> QED
    BY <2>2, <2>3, <2>4
<1>8. stage \in {"join workers", "clear"} =>
         rest = {} /\ \A s \in sessions : ~isConnected'[s]
  BY DEF EndInv, TypeOK
<1> QED
  BY <1>2, <1>3, <1>5, <1>6, <1>7, <1>8 DEF EndInv, Cleared

\* The types after a turn, but for the fields it changes.
LEMMA TypeKept ==
    ASSUME TypeOK, ListInv, NEW t \in Threads, NEW label \in Labels, NEW body,
           Turn(t, label, body), UNCHANGED <<running, looping, left>>,
           active' \subseteq Sessions, early' \subseteq Sessions,
           isConnected' \in [Sessions -> BOOLEAN],
           socket' \in [Sessions -> BOOLEAN], recv' \in [Sessions -> BOOLEAN],
           send' \in [Sessions -> BOOLEAN],
           recvPendingCnt' \in [Sessions -> 0..1],
           state' \in [Sessions -> {"Disconnected", "Connected"}],
           connected' \in Int
    PROVE  TypeOK'
<1>1. /\ todo' \in [Threads -> Seq(Labels)]
      /\ UNCHANGED <<stage, sessions, rest, has>>
  BY TurnFacts DEF Turn
<1>2. /\ stage' \in Stages /\ running' \in BOOLEAN /\ looping' \subseteq Loops
      /\ left' \in [Connectors -> 0..PerThread]
      /\ sessions' \subseteq Sessions /\ rest' \subseteq sessions'
      /\ has' \in [Threads -> Sessions \cup {None}]
  BY <1>1 DEF TypeOK
<1>3. \A f \in {isConnected', socket', recv', send'} : f \in [Sessions -> BOOLEAN]
  OBVIOUS
<1> QED
  BY <1>1, <1>2, <1>3 DEF TypeOK

\* The invariant where only the lists change.
LEMMA Quiet ==
    ASSUME LoadInv, NEW t \in Threads, NEW label \in Labels, NEW body,
           Turn(t, label, body),
           UNCHANGED <<running, looping, left, active, isConnected, recv, send,
                       recvPendingCnt, state, early>>,
           socket' \in [Sessions -> BOOLEAN], connected' \in Int,
           label \notin {"uncount", "disconnect", "leave"},
           Has(body, Chain) => label \in Chain,
           ~Has(body, Leaving),
           \/ Has(body, Releasing) \/ Left(t, Releasing)
           \/ label \notin Releasing \/ isConnected[has[t]]
    PROVE  LoadInv'
<1>1. TypeOK /\ ListInv /\ KnownInv /\ ChainInv /\ CountInv /\ EarlyInv
      /\ LeaveInv /\ ZombieInv /\ EndInv
  BY DEF LoadInv
<1>2. /\ ListInv' /\ has[t] \in Sessions /\ has[t] # None
      /\ UNCHANGED <<stage, sessions, has>>
  BY <1>1, TurnFacts, NoneAssumption DEF Turn
<1>3. /\ active' \subseteq Sessions /\ early' \subseteq Sessions
      /\ isConnected' \in [Sessions -> BOOLEAN]
      /\ recv' \in [Sessions -> BOOLEAN] /\ send' \in [Sessions -> BOOLEAN]
      /\ recvPendingCnt' \in [Sessions -> 0..1]
      /\ state' \in [Sessions -> {"Disconnected", "Connected"}]
  BY <1>1 DEF TypeOK
<1>4. TypeOK'
  BY <1>1, <1>3, TypeKept
<1>5. KnownInv'
  BY <1>1, <1>2, KnownKept
<1>6. ChainInv'
  BY <1>1, ChainKept
<1>7. CountInv'
  BY <1>1, CountKept
<1>8. EarlyInv'
  BY <1>1, EarlyKept
<1>9. LeaveInv'
  BY <1>1, LeaveKept
<1>10. ZombieInv'
  <2>1. ASSUME has[t] \in active'
        PROVE  Safe(has[t])'
    <3>1. CASE isConnected[has[t]]
      BY <1>2, <3>1 DEF Safe
    <3>2. CASE ~isConnected[has[t]]
      BY <1>1, <2>1, <3>2, StillSafe
    <3> QED
      BY <3>1, <3>2
  <2> QED
    BY <1>1, <2>1, ZombieKept
<1>11. EndInv'
  BY <1>1, EndKept
<1> QED
  BY <1>2, <1>4, <1>5, <1>6, <1>7, <1>8, <1>9, <1>10, <1>11 DEF LoadInv

-----------------------------------------------------------------------------
(* The steps of a thread that works on a session                           *)

LEMMA CountConnectedKeeps ==
    ASSUME LoadInv, NEW c \in Connectors, CountConnected(c)
    PROVE  LoadInv' /\ Turn(c, "count", <<>>)
<1>1. TypeOK /\ c \in Threads /\ "count" \in Labels
  BY DEF LoadInv, Threads, Labels
<1>2. Turn(c, "count", <<>>)
  BY <1>1, NoBody DEF CountConnected, Turn, process, Mine, Labels
<1>3. UNCHANGED <<running, looping, left, active, isConnected, socket, recv, send,
                  recvPendingCnt, state, early>> /\ connected' = connected + 1
  BY DEF CountConnected, process, net
<1>4. socket' \in [Sessions -> BOOLEAN] /\ connected' \in Int
  BY <1>1, <1>3 DEF TypeOK
<1>5. ~Has(<<>>, Chain) /\ ~Has(<<>>, Leaving) /\ "count" \notin Releasing
  BY HasOf DEF Releasing
<1> QED
  BY <1>1, <1>2, <1>3, <1>4, <1>5, Quiet

LEMMA CountLostKeeps ==
    ASSUME LoadInv, NEW t \in Threads, CountLost(t)
    PROVE  LoadInv' /\ Turn(t, "lost", <<>>)
<1>1. TypeOK /\ "lost" \in Labels
  BY DEF LoadInv, Labels
<1>2. Turn(t, "lost", <<>>)
  BY <1>1, NoBody DEF CountLost, Turn, process, Mine, Labels
<1>3. UNCHANGED <<running, looping, left, active, isConnected, socket, recv, send,
                  recvPendingCnt, state, early>> /\ connected' = connected - 1
  BY DEF CountLost, process, net
<1>4. socket' \in [Sessions -> BOOLEAN] /\ connected' \in Int
  BY <1>1, <1>3 DEF TypeOK
<1>5. ~Has(<<>>, Chain) /\ ~Has(<<>>, Leaving) /\ "lost" \notin Releasing
  BY HasOf DEF Releasing
<1> QED
  BY <1>1, <1>2, <1>3, <1>4, <1>5, Quiet

LEMMA CloseKeeps ==
    ASSUME LoadInv, NEW t \in Threads, Close(t)
    PROVE  LoadInv' /\ Turn(t, "close", <<>>)
<1>1. TypeOK /\ "close" \in Labels
  BY DEF LoadInv, Labels
<1>2. Turn(t, "close", <<>>)
  BY <1>1, NoBody DEF Close, Turn, process, Mine, Labels
<1>3. UNCHANGED <<running, looping, left, active, isConnected, recv, send,
                  recvPendingCnt, state, connected, early>>
  BY DEF Close, process, metrics
<1>4. socket' \in [Sessions -> BOOLEAN] /\ connected' \in Int
  BY <1>1, <1>3 DEF TypeOK, Close
<1>5. ~Has(<<>>, Chain) /\ ~Has(<<>>, Leaving) /\ "close" \notin Releasing
  BY HasOf DEF Releasing
<1> QED
  BY <1>1, <1>2, <1>3, <1>4, <1>5, Quiet

\* What Has says of the bodies of the recv path.
LEMMA RecvBodies ==
    /\ Body("data", <<"disconnect", "release">>) /\ Body("data", <<"rearm">>)
    /\ Body("rearm", <<"check">>) /\ Body("rearm", <<"release">>)
    /\ Body("check", <<"post">>) /\ Body("post", <<"disconnect", "release">>)
    /\ Body("login", <<"send">>) /\ Body("send", <<"disconnect">>)
    /\ Body("disconnect", <<"release">>)
<1>1. /\ Later["data"] = Rests /\ Later["rearm"] = Rests /\ Later["check"] = Rests
      /\ Later["post"] = Rests /\ Later["release"] = Rests
      /\ Later["disconnect"] = Rests /\ Later["login"] \subseteq Rests
      /\ Later["send"] = Rests
  BY LaterIs DEF Rests, Round
<1>2. /\ "data" \in Labels /\ "rearm" \in Labels /\ "check" \in Labels
      /\ "post" \in Labels /\ "release" \in Labels /\ "disconnect" \in Labels
      /\ "login" \in Labels /\ "send" \in Labels
  BY DEF Labels
<1>3. /\ "rearm" \notin Round \cup {"uncount", "leave", "lost", "close"}
      /\ "check" \notin Round \cup {"uncount", "leave", "lost", "close"}
      /\ "post" \notin Round \cup {"uncount", "leave", "lost", "close"}
      /\ "release" \notin Round \cup {"uncount", "leave", "lost", "close"}
      /\ "disconnect" \notin Round \cup {"uncount", "leave", "lost", "close"}
      /\ "send" \notin Round \cup {"uncount", "leave", "lost", "close"}
  BY DEF Round
<1>4. /\ Body("data", <<"disconnect", "release">>)
      /\ Body("post", <<"disconnect", "release">>)
  BY <1>1, <1>2, DisconnectBody
<1>5. /\ Body("data", <<"rearm">>)
      /\ Body("rearm", <<"check">>) /\ Body("rearm", <<"release">>)
      /\ Body("check", <<"post">>)
      /\ Body("login", <<"send">>) /\ Body("send", <<"disconnect">>)
      /\ Body("disconnect", <<"release">>)
  BY <1>1, <1>2, <1>3, OneBody
<1> QED
  BY <1>4, <1>5

\* How the labels stand to the sets of the invariant.
LEMMA Memberships ==
    /\ "data" \in Chain /\ "rearm" \in Chain /\ "check" \in Chain
    /\ "post" \in Chain /\ "uncount" \in Chain
    /\ "disconnect" \notin Chain /\ "release" \notin Chain
    /\ "leave" \notin Chain /\ "lost" \notin Chain /\ "close" \notin Chain
    /\ "uncount" \in Releasing /\ "data" \in Releasing /\ "rearm" \in Releasing
    /\ "post" \in Releasing /\ "disconnect" \in Releasing
    /\ "release" \in Releasing
    /\ "check" \notin Releasing /\ "leave" \notin Releasing
    /\ "leave" \in Leaving /\ "lost" \in Leaving
    /\ "data" \notin Leaving /\ "rearm" \notin Leaving /\ "check" \notin Leaving
    /\ "post" \notin Leaving /\ "disconnect" \notin Leaving
    /\ "release" \notin Leaving /\ "close" \notin Leaving
  BY DEF Chain, Releasing, Leaving

LEMMA RecvHas ==
    /\ ~Has(<<"disconnect", "release">>, Leaving) /\ ~Has(<<"rearm">>, Leaving)
    /\ ~Has(<<"check">>, Leaving) /\ ~Has(<<"release">>, Leaving)
    /\ ~Has(<<"post">>, Leaving) /\ ~Has(<<"disconnect">>, Leaving)
    /\ ~Has(<<>>, Leaving) /\ ~Has(<<>>, Chain)
    /\ ~Has(<<"disconnect", "release">>, Chain) /\ ~Has(<<"disconnect">>, Chain)
    /\ ~Has(<<"release">>, Chain)
    /\ ~Has(<<"lost">>, Chain) /\ ~Has(<<"leave", "close", "release">>, Chain)
    /\ Has(<<"disconnect", "release">>, Releasing)
    /\ Has(<<"disconnect">>, Releasing) /\ Has(<<"rearm">>, Releasing)
    /\ Has(<<"release">>, Releasing)
    /\ Has(<<"leave", "close", "release">>, Releasing)
<1>1. /\ ~Has(<<"disconnect", "release">>, Leaving) /\ ~Has(<<"rearm">>, Leaving)
      /\ ~Has(<<"check">>, Leaving) /\ ~Has(<<"release">>, Leaving)
      /\ ~Has(<<"post">>, Leaving) /\ ~Has(<<"disconnect">>, Leaving)
  BY HasOf, Memberships, Zenon
<1>2. ~Has(<<>>, Leaving) /\ ~Has(<<>>, Chain)
  BY HasOf, Zenon
<1>3. /\ ~Has(<<"disconnect", "release">>, Chain) /\ ~Has(<<"disconnect">>, Chain)
      /\ ~Has(<<"release">>, Chain) /\ ~Has(<<"lost">>, Chain)
  BY HasOf, Memberships, Zenon
<1>5. ~Has(<<"leave", "close", "release">>, Chain)
  <2>1. /\ "leave" \notin Chain /\ "close" \notin Chain /\ "release" \notin Chain
    BY DEF Chain
  <2>2. \A a, b, c : Has(<<a, b, c>>, Chain) <=> a \in Chain \/ b \in Chain \/ c \in Chain
    BY HasOf
  <2> QED
    BY <2>1, <2>2, Zenon
<1>4. /\ Has(<<"disconnect", "release">>, Releasing)
      /\ Has(<<"disconnect">>, Releasing) /\ Has(<<"rearm">>, Releasing)
      /\ Has(<<"release">>, Releasing)
      /\ Has(<<"leave", "close", "release">>, Releasing)
  BY HasOf, Memberships, Zenon
<1> QED
  BY <1>1, <1>2, <1>3, <1>4, <1>5

LEMMA DataKeeps ==
    ASSUME LoadInv, NEW t \in Threads, Data(t)
    PROVE  LoadInv' /\ \E body : Turn(t, "data", body) /\ ~Has(body, Leaving)
<1>1. TypeOK /\ "data" \in Labels
  BY DEF LoadInv, Labels
<1>2. UNCHANGED <<running, looping, left, active, isConnected, socket, recv, send,
                  recvPendingCnt, state, connected, early>>
  BY DEF Data, process, metrics, net
<1>3. socket' \in [Sessions -> BOOLEAN] /\ connected' \in Int
  BY <1>1, <1>2 DEF TypeOK
<1>4. PICK body \in {<<"disconnect", "release">>, <<"rearm">>} : Then(t, body)
  BY DEF Data
<1>5. Turn(t, "data", body)
  BY <1>1, <1>4, RecvBodies DEF Data, Turn, process, Mine, Labels
<1>6. "data" \in Chain /\ "data" \notin {"uncount", "disconnect", "leave"}
  BY Memberships
<1>7. ~Has(body, Leaving) /\ Has(body, Releasing)
  BY <1>4, RecvHas
<1> QED
  BY <1>1, <1>2, <1>3, <1>5, <1>6, <1>7, Quiet

LEMMA CheckKeeps ==
    ASSUME LoadInv, NEW t \in Threads, Check(t)
    PROVE  LoadInv' /\ \E body : Turn(t, "check", body) /\ ~Has(body, Leaving)
<1>1. TypeOK /\ "check" \in Labels
  BY DEF LoadInv, Labels
<1>2. UNCHANGED <<running, looping, left, active, isConnected, socket, recv, send,
                  recvPendingCnt, state, connected, early>>
  BY DEF Check, process, metrics, net
<1>3. socket' \in [Sessions -> BOOLEAN] /\ connected' \in Int
  BY <1>1, <1>2 DEF TypeOK
<1>4. PICK body \in {<<"post">>, <<>>} : Then(t, body)
  BY DEF Check
<1>5. Turn(t, "check", body)
  BY <1>1, <1>4, RecvBodies, NoBody DEF Check, Turn, process, Mine, Labels
<1>6. /\ "check" \notin Releasing
      /\ "check" \in Chain /\ "check" \notin {"uncount", "disconnect", "leave"}
  BY Memberships
<1>7. ~Has(body, Leaving)
  BY <1>4, RecvHas
<1> QED
  BY <1>1, <1>2, <1>3, <1>5, <1>6, <1>7, Quiet

LEMMA RearmKeeps ==
    ASSUME LoadInv, NEW t \in Threads, Rearm(t)
    PROVE  LoadInv' /\ \E body : Turn(t, "rearm", body) /\ ~Has(body, Leaving)
<1>1. TypeOK /\ ListInv /\ "rearm" \in Labels
  BY DEF LoadInv, Labels
<1>2. UNCHANGED <<running, looping, left, active, isConnected, socket, recv, send,
                  recvPendingCnt, state, connected, early>>
  BY DEF Rearm, process, metrics, net
<1>3. socket' \in [Sessions -> BOOLEAN] /\ connected' \in Int
  BY <1>1, <1>2 DEF TypeOK
<1>4. PICK body \in {<<"check">>, <<"release">>} :
         Then(t, body) /\ (body = <<"release">> \/ isConnected[has[t]])
  BY DEF Rearm
<1>5. Turn(t, "rearm", body)
  BY <1>1, <1>4, RecvBodies DEF Rearm, Turn, process, Mine, Labels
<1>6. "rearm" \in Chain /\ "rearm" \notin {"uncount", "disconnect", "leave"}
  BY Memberships
<1>7. ~Has(body, Leaving) /\ (Has(body, Releasing) \/ isConnected[has[t]])
  BY <1>4, RecvHas
<1> QED
  BY <1>1, <1>2, <1>3, <1>5, <1>6, <1>7, Quiet

LEMMA DoingMore ==
    ASSUME NEW t, NEW S, NEW T, S \subseteq T, Doing(t, S)
    PROVE  Doing(t, T)
  BY DEF Doing

LEMMA ActivateKeeps ==
    ASSUME LoadInv, NEW c \in Connectors, Activate(c)
    PROVE  LoadInv' /\ Turn(c, "activate", <<>>)
<1>1. /\ TypeOK /\ ListInv /\ KnownInv /\ ChainInv /\ CountInv /\ EarlyInv
      /\ LeaveInv /\ ZombieInv /\ EndInv
      /\ c \in Threads /\ "activate" \in Labels
  BY DEF LoadInv, Threads, Labels
<1>2. Turn(c, "activate", <<>>)
  BY <1>1, NoBody DEF Activate, Turn, process, Mine, Labels
<1>3. /\ UNCHANGED <<running, looping, left, isConnected, socket, recv, send,
                     recvPendingCnt, state, connected, early>>
      /\ active' = active \cup {has[c]}
  BY DEF Activate, process, metrics, net
<1>4. /\ ListInv' /\ has[c] \in Sessions /\ has[c] # None
      /\ UNCHANGED <<stage, sessions, has>>
  BY <1>1, <1>2, TurnFacts, NoneAssumption DEF Turn
<1>5. /\ active' \subseteq Sessions /\ early' \subseteq Sessions
      /\ isConnected' \in [Sessions -> BOOLEAN] /\ socket' \in [Sessions -> BOOLEAN]
      /\ recv' \in [Sessions -> BOOLEAN] /\ send' \in [Sessions -> BOOLEAN]
      /\ recvPendingCnt' \in [Sessions -> 0..1] /\ connected' \in Int
      /\ state' \in [Sessions -> {"Disconnected", "Connected"}]
  BY <1>1, <1>3, <1>4 DEF TypeOK
<1>6. TypeOK'
  BY <1>1, <1>2, <1>3, <1>5, TypeKept
<1>7. KnownInv'
  BY <1>1, <1>3, <1>4, KnownKept
<1>8. ChainInv' /\ CountInv' /\ EarlyInv' /\ LeaveInv' /\ EndInv'
  BY <1>1, <1>2, <1>3, RecvHas, ChainKept, CountKept, EarlyKept, LeaveKept, EndKept
<1>9. Safe(has[c])'
  <2>1. Doing(c, {"activate", "connected"}) /\ ~Doing(c, {"leave"})
    <3>1. At(c, "activate")
      BY DEF Activate
    <3> QED
      BY <1>1, <3>1, LeftFacts, SetsOfLabels
  <2>2. CASE isConnected[has[c]] \/ has[c] \in early
    BY <1>3, <1>4, <2>2 DEF Safe
  <2>3. CASE \E t \in Threads : has[t] = has[c] /\ Doing(t, {"leave"})
    <3>1. PICK t \in Threads : has[t] = has[c] /\ Doing(t, {"leave"})
      BY <2>3
    <3>2. Doing(t, {"leave", "lost", "close"})
      BY <3>1, DoingMore
    <3>3. Doing(t, {"release"})
      BY <1>1, <3>2 DEF ListInv
    <3>4. Doing(t, Releasing) /\ t # c
      BY <2>1, <3>1, <3>3, DoingMore, Memberships
    <3>5. Doing(t, Releasing)'
      BY <1>1, <1>2, <3>4, TurnFacts
    <3> QED
      BY <1>4, <3>1, <3>5 DEF Safe
  <2> QED
    BY <1>1, <2>1, <2>2, <2>3 DEF EarlyInv
<1>10. ZombieInv'
  BY <1>1, <1>2, <1>3, <1>9, ZombieKept
<1> QED
  BY <1>2, <1>4, <1>6, <1>7, <1>8, <1>10 DEF LoadInv

LEMMA OnConnectedKeeps ==
    ASSUME LoadInv, NEW c \in Connectors, OnConnected(c)
    PROVE  LoadInv' /\ Turn(c, "connected", <<>>)
<1>1. /\ TypeOK /\ ListInv /\ KnownInv /\ ChainInv /\ CountInv /\ EarlyInv
      /\ LeaveInv /\ ZombieInv /\ EndInv
      /\ c \in Threads /\ "connected" \in Labels
  BY DEF LoadInv, Threads, Labels
<1>2. Turn(c, "connected", <<>>)
  BY <1>1, NoBody DEF OnConnected, Turn, process, Mine, Labels
<1>3. /\ UNCHANGED <<running, looping, left, active, isConnected, socket, recv,
                     send, recvPendingCnt, connected, early>>
      /\ state' = [state EXCEPT ![has[c]] = "Connected"]
  BY DEF OnConnected, process, net
<1>4. /\ ListInv' /\ has[c] \in Sessions /\ has[c] # None
      /\ UNCHANGED <<stage, sessions, has>>
  BY <1>1, <1>2, TurnFacts, NoneAssumption DEF Turn
<1>5. /\ active' \subseteq Sessions /\ early' \subseteq Sessions
      /\ isConnected' \in [Sessions -> BOOLEAN] /\ socket' \in [Sessions -> BOOLEAN]
      /\ recv' \in [Sessions -> BOOLEAN] /\ send' \in [Sessions -> BOOLEAN]
      /\ recvPendingCnt' \in [Sessions -> 0..1] /\ connected' \in Int
      /\ state' \in [Sessions -> {"Disconnected", "Connected"}]
  BY <1>1, <1>3, <1>4 DEF TypeOK
<1>6. TypeOK'
  BY <1>1, <1>2, <1>3, <1>5, TypeKept
<1>7. KnownInv'
  BY <1>1, <1>3, <1>4, KnownKept
<1>8. ChainInv' /\ CountInv' /\ LeaveInv' /\ EndInv'
  BY <1>1, <1>2, <1>3, RecvHas, ChainKept, CountKept, LeaveKept, EndKept
<1>9. EarlyInv'
  <2> SUFFICES ASSUME NEW d \in Connectors, Doing(d, {"activate", "connected"})'
               PROVE  /\ state'[has[d]] = "Disconnected"
                      /\ \/ isConnected[has[d]] \/ has[d] \in early
                         \/ \E t \in Threads : has[t] = has[d] /\ Doing(t, {"leave"})'
    BY <1>3, <1>4 DEF EarlyInv
  <2>1. d \in Threads
    BY DEF Threads
  <2>2. d # c
    <3>1. At(c, "connected")
      BY DEF OnConnected
    <3>2. ~Left(c, {"activate", "connected"}) /\ ~Has(<<>>, {"activate", "connected"})
      BY <1>1, <3>1, LeftFacts, HasOf
    <3> QED
      BY <1>1, <1>2, <3>2, TurnFacts, SetsOfLabels
  <2>3. Doing(d, {"activate", "connected"})
    BY <1>1, <1>2, <2>1, <2>2, TurnFacts
  <2>4. has[d] # has[c]
    BY <1>1, <1>4, <2>2 DEF KnownInv
  <2>5. \A t \in Threads : Doing(t, {"leave"}) => Doing(t, {"leave"})'
    BY <1>1, <1>2, TurnFacts, SetsOfLabels
  <2>6. state'[has[d]] = state[has[d]]
    BY <1>1, <1>3, <2>4 DEF TypeOK
  <2> QED
    BY <1>1, <2>3, <2>5, <2>6 DEF EarlyInv
<1>10. ZombieInv'
  BY <1>1, <1>2, <1>3, ZombieKept, StillSafe, Memberships DEF Releasing
<1> QED
  BY <1>2, <1>4, <1>6, <1>7, <1>8, <1>9, <1>10 DEF LoadInv

LEMMA SendLoginKeeps ==
    ASSUME LoadInv, NEW c \in Connectors, SendLogin(c)
    PROVE  LoadInv' /\ \E body : Turn(c, "login", body) /\ ~Has(body, Leaving)
<1>1. /\ TypeOK /\ ListInv /\ KnownInv /\ ChainInv /\ CountInv /\ EarlyInv
      /\ LeaveInv /\ ZombieInv /\ EndInv
      /\ c \in Threads /\ "login" \in Labels
  BY DEF LoadInv, Threads, Labels
<1>2. PICK body \in {<<>>, <<"send">>} : Then(c, body)
  BY DEF SendLogin
<1>3. Turn(c, "login", body)
  BY <1>1, <1>2, NoBody, RecvBodies DEF SendLogin, Turn, process, Mine, Labels
<1>4. UNCHANGED <<running, looping, left, active, isConnected, socket, recv, send,
                  recvPendingCnt, state, connected, early>>
  BY DEF SendLogin, process, net, metrics
<1>5. /\ ListInv' /\ has[c] \in Sessions /\ has[c] # None
      /\ UNCHANGED <<stage, sessions, has>>
  BY <1>1, <1>3, TurnFacts, NoneAssumption DEF Turn
<1>6. /\ active' \subseteq Sessions /\ early' \subseteq Sessions
      /\ isConnected' \in [Sessions -> BOOLEAN] /\ socket' \in [Sessions -> BOOLEAN]
      /\ recv' \in [Sessions -> BOOLEAN] /\ send' \in [Sessions -> BOOLEAN]
      /\ recvPendingCnt' \in [Sessions -> 0..1] /\ connected' \in Int
      /\ state' \in [Sessions -> {"Disconnected", "Connected"}]
  BY <1>1, <1>4, <1>5 DEF TypeOK
<1>7. TypeOK'
  BY <1>1, <1>3, <1>4, <1>6, TypeKept
<1>8. KnownInv'
  BY <1>1, <1>4, <1>5, KnownKept
<1>9. ~Has(body, Leaving) /\ ~Has(body, Chain) /\ "login" \notin Releasing
  <2>1. "send" \notin Leaving /\ "send" \notin Chain /\ "login" \notin Releasing
    BY DEF Leaving, Chain, Releasing
  <2> QED
    BY <1>2, <2>1, RecvHas, HasOf
<1>10. ChainInv' /\ CountInv' /\ EarlyInv' /\ LeaveInv' /\ EndInv'
  BY <1>1, <1>3, <1>4, <1>9, ChainKept, CountKept, EarlyKept, LeaveKept, EndKept
<1>11. ZombieInv'
  BY <1>1, <1>3, <1>4, <1>9, ZombieKept, StillSafe
<1> QED
  BY <1>3, <1>5, <1>7, <1>8, <1>9, <1>10, <1>11 DEF LoadInv

LEMMA RegisterSendKeeps ==
    ASSUME LoadInv, NEW c \in Connectors, RegisterSend(c)
    PROVE  LoadInv' /\ \E body : Turn(c, "send", body) /\ ~Has(body, Leaving)
<1>1. /\ TypeOK /\ ListInv /\ KnownInv /\ ChainInv /\ CountInv /\ EarlyInv
      /\ LeaveInv /\ ZombieInv /\ EndInv
      /\ c \in Threads /\ "send" \in Labels
  BY DEF LoadInv, Threads, Labels
<1>2. PICK body \in {<<>>, <<"disconnect">>} : Then(c, body)
  BY DEF RegisterSend
<1>3. Turn(c, "send", body)
  BY <1>1, <1>2, NoBody, RecvBodies DEF RegisterSend, Turn, process, Mine, Labels
<1>4. /\ UNCHANGED <<running, looping, left, active, isConnected, socket, recv,
                     recvPendingCnt, state, connected, early>>
      /\ send' \in {send, [send EXCEPT ![has[c]] = TRUE]}
  BY DEF RegisterSend, process, metrics
<1>5. /\ ListInv' /\ has[c] \in Sessions /\ has[c] # None
      /\ UNCHANGED <<stage, sessions, has>>
  BY <1>1, <1>3, TurnFacts, NoneAssumption DEF Turn
<1>6. /\ active' \subseteq Sessions /\ early' \subseteq Sessions
      /\ isConnected' \in [Sessions -> BOOLEAN] /\ socket' \in [Sessions -> BOOLEAN]
      /\ recv' \in [Sessions -> BOOLEAN] /\ send' \in [Sessions -> BOOLEAN]
      /\ recvPendingCnt' \in [Sessions -> 0..1] /\ connected' \in Int
      /\ state' \in [Sessions -> {"Disconnected", "Connected"}]
  BY <1>1, <1>4, <1>5 DEF TypeOK
<1>7. TypeOK'
  BY <1>1, <1>3, <1>4, <1>6, TypeKept
<1>8. KnownInv'
  <2>1. \A s \in Sessions : send'[s] => send[s] \/ s = has[c]
    BY <1>1, <1>4 DEF TypeOK
  <2> QED
    BY <1>1, <1>4, <1>5, <2>1, KnownKept
<1>9. ~Has(body, Leaving) /\ ~Has(body, Chain) /\ "send" \notin Releasing
  BY <1>2, RecvHas DEF Releasing
<1>10. ChainInv' /\ CountInv' /\ EarlyInv' /\ LeaveInv' /\ EndInv'
  BY <1>1, <1>3, <1>4, <1>9, ChainKept, CountKept, EarlyKept, LeaveKept, EndKept
<1>11. ZombieInv'
  BY <1>1, <1>3, <1>4, <1>9, ZombieKept, StillSafe
<1> QED
  BY <1>3, <1>5, <1>7, <1>8, <1>9, <1>10, <1>11 DEF LoadInv

LEMMA UncountKeeps ==
    ASSUME LoadInv, NEW t \in Threads, Uncount(t)
    PROVE  LoadInv' /\ Turn(t, "uncount", <<>>)
<1>1. /\ TypeOK /\ ListInv /\ KnownInv /\ ChainInv /\ CountInv /\ EarlyInv
      /\ LeaveInv /\ ZombieInv /\ EndInv
      /\ "uncount" \in Labels
  BY DEF LoadInv, Labels
<1>2. Turn(t, "uncount", <<>>)
  BY <1>1, NoBody DEF Uncount, Turn, process, Mine, Labels
<1>3. /\ UNCHANGED <<running, looping, left, active, isConnected, socket, recv,
                     send, state, connected, early>>
      /\ recvPendingCnt' = [recvPendingCnt EXCEPT ![has[t]] = @ - 1]
      /\ At(t, "uncount")
  BY DEF Uncount, process, metrics
<1>4. /\ ListInv' /\ has[t] \in Sessions /\ has[t] # None
      /\ UNCHANGED <<stage, sessions, has>>
  BY <1>1, <1>2, TurnFacts, NoneAssumption DEF Turn
<1>6. /\ ~Left(t, {"uncount"}) /\ Doing(t, Chain) /\ Doing(t, {"uncount"})
      /\ Left(t, {"data"})
  <2>1. /\ ~Left(t, {"uncount"})
        /\ \A S \in SUBSET Labels : Doing(t, S) <=> "uncount" \in S \/ Left(t, S)
    BY <1>1, <1>3, LeftFacts
  <2>2. Doing(t, {"uncount"}) /\ Doing(t, Chain)
    BY <2>1, SetsOfLabels, Memberships
  <2> QED
    BY <1>1, <2>1, <2>2, SetsOfLabels DEF ListInv
<1>7. recvPendingCnt[has[t]] = 1 /\ ~recv[has[t]]
  BY <1>1, <1>4, <1>6 DEF CountInv, ChainInv, TypeOK
<1>5. /\ active' \subseteq Sessions /\ early' \subseteq Sessions
      /\ isConnected' \in [Sessions -> BOOLEAN] /\ socket' \in [Sessions -> BOOLEAN]
      /\ recv' \in [Sessions -> BOOLEAN] /\ send' \in [Sessions -> BOOLEAN]
      /\ recvPendingCnt' \in [Sessions -> 0..1] /\ connected' \in Int
      /\ state' \in [Sessions -> {"Disconnected", "Connected"}]
  BY <1>1, <1>3, <1>4, <1>7 DEF TypeOK
<1>8. TypeOK'
  BY <1>1, <1>2, <1>3, <1>5, TypeKept
<1>9. KnownInv'
  BY <1>1, <1>3, <1>4, KnownKept
<1>10. ChainInv' /\ EarlyInv' /\ LeaveInv' /\ EndInv'
  BY <1>1, <1>2, <1>3, RecvHas, ChainKept, EarlyKept, LeaveKept, EndKept
<1>11. ZombieInv'
  <2>1. Left(t, Releasing)
    BY <1>6, Memberships DEF Left, Has
  <2> QED
    BY <1>1, <1>2, <1>3, <2>1, ZombieKept, StillSafe
<1>12. CountInv'
  <2> SUFFICES ASSUME NEW s \in Sessions
               PROVE  recvPendingCnt'[s] # 0 <=>
                         \/ recv[s]
                         \/ \E u \in Threads : has[u] = s /\ Doing(u, {"uncount"})'
    BY <1>3, <1>4 DEF CountInv
  <2>1. \A u \in Threads \ {t} : Doing(u, {"uncount"})' <=> Doing(u, {"uncount"})
    BY <1>1, <1>2, TurnFacts
  <2>2. ~Doing(t, {"uncount"})'
    BY <1>1, <1>2, <1>6, TurnFacts, HasOf, SetsOfLabels
  <2>3. CASE s # has[t]
    <3>1. recvPendingCnt'[s] = recvPendingCnt[s]
      BY <1>1, <1>3, <2>3 DEF TypeOK
    <3> QED
      BY <1>1, <2>1, <2>2, <2>3, <3>1 DEF CountInv
  <2>4. CASE s = has[t]
    <3>1. recvPendingCnt'[s] = 0
      BY <1>1, <1>3, <1>7, <2>4 DEF TypeOK
    <3>2. ASSUME NEW u \in Threads, has[u] = s, Doing(u, {"uncount"})'
          PROVE  FALSE
      <4>1. u # t /\ Doing(u, {"uncount"})
        BY <2>1, <2>2, <3>2
      <4>2. Doing(u, Chain)
        BY <4>1, DoingMore, Memberships
      <4> QED
        BY <1>1, <1>6, <2>4, <3>2, <4>1, <4>2 DEF ChainInv
    <3> QED
      BY <1>7, <2>4, <3>1, <3>2
  <2> QED
    BY <2>3, <2>4
<1> QED
  BY <1>2, <1>4, <1>8, <1>9, <1>10, <1>11, <1>12 DEF LoadInv

LEMMA TryReleaseKeeps ==
    ASSUME LoadInv, NEW t \in Threads, TryRelease(t)
    PROVE  LoadInv' /\ Turn(t, "release", <<>>)
<1>1. /\ TypeOK /\ ListInv /\ KnownInv /\ ChainInv /\ CountInv /\ EarlyInv
      /\ LeaveInv /\ ZombieInv /\ EndInv
      /\ "release" \in Labels
  BY DEF LoadInv, Labels
<1>2. Turn(t, "release", <<>>)
  BY <1>1, NoBody DEF TryRelease, Turn, process, Mine, Labels
<1>3. /\ UNCHANGED <<running, looping, left, isConnected, socket, recv, send,
                     recvPendingCnt, state, connected, early>>
      /\ active' \subseteq active /\ At(t, "release")
      /\ has[t] \in active' => isConnected[has[t]] \/ recvPendingCnt[has[t]] # 0
  BY DEF TryRelease, process, metrics, net
<1>4. /\ ListInv' /\ has[t] \in Sessions /\ has[t] # None
      /\ UNCHANGED <<stage, sessions, has>>
  BY <1>1, <1>2, TurnFacts, NoneAssumption DEF Turn
<1>5. /\ active' \subseteq Sessions /\ early' \subseteq Sessions
      /\ isConnected' \in [Sessions -> BOOLEAN] /\ socket' \in [Sessions -> BOOLEAN]
      /\ recv' \in [Sessions -> BOOLEAN] /\ send' \in [Sessions -> BOOLEAN]
      /\ recvPendingCnt' \in [Sessions -> 0..1] /\ connected' \in Int
      /\ state' \in [Sessions -> {"Disconnected", "Connected"}]
  BY <1>1, <1>3, <1>4 DEF TypeOK
<1>6. TypeOK'
  BY <1>1, <1>2, <1>3, <1>5, TypeKept
<1>7. KnownInv'
  BY <1>1, <1>3, <1>4, KnownKept
<1>8. ChainInv' /\ CountInv' /\ EarlyInv' /\ LeaveInv' /\ EndInv'
  BY <1>1, <1>2, <1>3, RecvHas, ChainKept, CountKept, EarlyKept, LeaveKept, EndKept
<1>9. ASSUME has[t] \in active'
      PROVE  Safe(has[t])'
  <2>1. CASE isConnected[has[t]] \/ recv[has[t]]
    BY <1>3, <1>4, <2>1 DEF Safe
  <2>2. CASE ~(isConnected[has[t]] \/ recv[has[t]])
    <3>1. PICK u \in Threads : has[u] = has[t] /\ Doing(u, {"uncount"})
      BY <1>1, <1>3, <1>4, <1>9, <2>2 DEF CountInv
    <3>2. ~Doing(t, {"uncount"})
      BY <1>1, <1>3, LeftFacts, SetsOfLabels
    <3>3. Doing(u, Releasing) /\ u # t
      BY <3>1, <3>2, DoingMore, Memberships
    <3>4. Doing(u, Releasing)'
      BY <1>1, <1>2, <3>3, TurnFacts
    <3> QED
      BY <1>4, <3>1, <3>4 DEF Safe
  <2> QED
    BY <2>1, <2>2
<1>10. ZombieInv'
  BY <1>1, <1>2, <1>3, <1>9, ZombieKept
<1> QED
  BY <1>2, <1>4, <1>6, <1>7, <1>8, <1>10 DEF LoadInv

LEMMA LeaveKeeps ==
    ASSUME LoadInv, NEW t \in Threads, Leave(t)
    PROVE  /\ LoadInv'
           /\ \E body : Turn(t, "leave", body)
           /\ has[t] \in early' \/ Doing(t, Leaving)'
<1>1. /\ TypeOK /\ ListInv /\ KnownInv /\ ChainInv /\ CountInv /\ EarlyInv
      /\ LeaveInv /\ ZombieInv /\ EndInv
      /\ "leave" \in Labels
  BY DEF LoadInv, Labels
<1>a. PICK body \in {<<>>, <<"lost">>} :
         /\ Then(t, body)
         /\ state[has[t]] = "Disconnected" => /\ body = <<>>
                                              /\ early' = early \cup {has[t]}
         /\ state[has[t]] # "Disconnected" => /\ body = <<"lost">>
                                              /\ early' = early
  BY DEF Leave
<1>2. Turn(t, "leave", body)
  BY <1>1, <1>a, NoBody, LostBody DEF Leave, Turn, process, Mine, Labels
<1>3. /\ UNCHANGED <<running, looping, left, active, isConnected, socket, recv,
                     send, recvPendingCnt, connected>>
      /\ state' = [state EXCEPT ![has[t]] = "Disconnected"]
      /\ early \subseteq early' /\ early' \subseteq early \cup {has[t]}
      /\ At(t, "leave")
  BY DEF Leave, process, net
<1>4. /\ ListInv' /\ has[t] \in Sessions /\ has[t] # None
      /\ UNCHANGED <<stage, sessions, has>>
  BY <1>1, <1>2, TurnFacts, NoneAssumption DEF Turn
<1>5. /\ active' \subseteq Sessions /\ early' \subseteq Sessions
      /\ isConnected' \in [Sessions -> BOOLEAN] /\ socket' \in [Sessions -> BOOLEAN]
      /\ recv' \in [Sessions -> BOOLEAN] /\ send' \in [Sessions -> BOOLEAN]
      /\ recvPendingCnt' \in [Sessions -> 0..1] /\ connected' \in Int
      /\ state' \in [Sessions -> {"Disconnected", "Connected"}]
  BY <1>1, <1>3, <1>4 DEF TypeOK
<1>6. TypeOK'
  BY <1>1, <1>2, <1>3, <1>5, TypeKept
<1>7. KnownInv'
  BY <1>1, <1>3, <1>4, KnownKept
<1>8. ~Has(body, Chain) /\ "leave" \notin Releasing
  BY <1>a, RecvHas, Memberships
<1>9. ChainInv' /\ CountInv' /\ EndInv'
  BY <1>1, <1>2, <1>3, <1>8, ChainKept, CountKept, EndKept
<1>10. ZombieInv'
  BY <1>1, <1>2, <1>3, <1>8, ZombieKept, StillSafe
<1>11. /\ Doing(t, Leaving) /\ ~Left(t, Leaving)
       /\ \A S : \A u \in Threads \ {t} : Doing(u, S)' <=> Doing(u, S)
  <2>1. /\ ~Left(t, Leaving)
        /\ \A S \in SUBSET Labels : Doing(t, S) <=> "leave" \in S \/ Left(t, S)
    BY <1>1, <1>3, LeftFacts
  <2> QED
    BY <1>1, <1>2, <2>1, TurnFacts, SetsOfLabels, Memberships
<1>12. EarlyInv'
  <2> SUFFICES ASSUME NEW d \in Connectors, Doing(d, {"activate", "connected"})'
               PROVE  /\ state'[has[d]] = "Disconnected"
                      /\ \/ isConnected[has[d]] \/ has[d] \in early'
                         \/ \E u \in Threads : has[u] = has[d] /\ Doing(u, {"leave"})'
    BY <1>3, <1>4 DEF EarlyInv
  <2>1. Doing(d, {"activate", "connected"})
    <3>1. ~Has(body, {"activate", "connected"})
      BY <1>2 DEF Turn, Body, Has, Round
    <3> QED
      BY <1>1, <1>2, <3>1, TurnFacts, SetsOfLabels DEF Threads
  <2>2. state[has[d]] = "Disconnected"
    BY <1>1, <2>1 DEF EarlyInv
  <2>3. state'[has[d]] = "Disconnected"
    BY <1>1, <1>3, <1>4, <2>2 DEF TypeOK
  <2>4. CASE isConnected[has[d]] \/ has[d] \in early
    BY <1>3, <2>3, <2>4
  <2>5. CASE has[d] = has[t]
    BY <1>a, <2>2, <2>3, <2>5
  <2>6. CASE /\ has[d] # has[t]
             /\ \E u \in Threads : has[u] = has[d] /\ Doing(u, {"leave"})
    BY <1>11, <2>3, <2>6
  <2> QED
    BY <1>1, <2>1, <2>4, <2>5, <2>6 DEF EarlyInv
<1>13. LeaveInv'
  <2>1. \A u \in Threads : Doing(u, Leaving)' => Doing(u, Leaving)
    BY <1>11
  <2>2. \A u \in Threads : Doing(u, Leaving)' => ~isConnected[has[u]]
    BY <1>1, <2>1 DEF LeaveInv
  <2>3. ASSUME NEW u \in Threads, Doing(u, Leaving)', has[u] \in early'
        PROVE  FALSE
    <3>1. Doing(u, Leaving) /\ has[u] \notin early
      BY <1>1, <2>1, <2>3 DEF LeaveInv
    <3>2. has[u] = has[t]
      BY <1>3, <2>3, <3>1
    <3>3. u = t
      BY <1>1, <1>11, <3>1, <3>2 DEF LeaveInv
    <3>4. body = <<>>
      BY <1>a, <2>3, <3>1, <3>3
    <3> QED
      BY <1>1, <1>2, <1>11, <2>3, <3>3, <3>4, TurnFacts, SetsOfLabels, RecvHas
  <2>4. \A s \in early' : ~isConnected[s]
    BY <1>1, <1>3, <1>11 DEF LeaveInv
  <2> QED
    BY <1>1, <1>3, <1>4, <2>1, <2>2, <2>3, <2>4 DEF LeaveInv
<1>14. has[t] \in early' \/ Doing(t, Leaving)'
  <2>1. CASE state[has[t]] = "Disconnected"
    BY <1>a, <2>1
  <2>2. CASE state[has[t]] # "Disconnected"
    <3>1. Has(<<"lost">>, Leaving)
      BY HasOf, Memberships, Zenon
    <3>2. Has(body, Leaving)
      BY <1>a, <2>2, <3>1
    <3> QED
      BY <1>1, <1>2, <3>2, TurnFacts, SetsOfLabels
  <2> QED
    BY <2>1, <2>2
<1> QED
  BY <1>2, <1>4, <1>6, <1>7, <1>9, <1>10, <1>12, <1>13, <1>14 DEF LoadInv

LEMMA DisconnectKeeps ==
    ASSUME LoadInv, NEW t \in Threads, Disconnect(t)
    PROVE  /\ LoadInv'
           /\ \E body : Turn(t, "disconnect", body)
           /\ isConnected[has[t]] <=> Doing(t, Leaving)'
<1>1. /\ TypeOK /\ ListInv /\ KnownInv /\ ChainInv /\ CountInv /\ EarlyInv
      /\ LeaveInv /\ ZombieInv /\ EndInv
      /\ "disconnect" \in Labels
  BY DEF LoadInv, Labels
<1>2. PICK body \in {<<"leave", "close", "release">>, <<"release">>} :
         /\ Then(t, body)
         /\ isConnected[has[t]] => body = <<"leave", "close", "release">>
         /\ ~isConnected[has[t]] => body = <<"release">>
  BY DEF Disconnect
<1>3. Turn(t, "disconnect", body)
  BY <1>1, <1>2, LeaveBody, RecvBodies DEF Disconnect, Turn, process, Mine, Labels
<1>4. /\ UNCHANGED <<running, looping, left, active, socket, recv, send,
                     recvPendingCnt, state, connected, early>>
      /\ isConnected' = [isConnected EXCEPT ![has[t]] = FALSE]
      /\ At(t, "disconnect")
  BY DEF Disconnect, process, metrics
<1>5. /\ ListInv' /\ has[t] \in Sessions /\ has[t] # None
      /\ UNCHANGED <<stage, sessions, has>>
  BY <1>1, <1>3, TurnFacts, NoneAssumption DEF Turn
<1>6. /\ active' \subseteq Sessions /\ early' \subseteq Sessions
      /\ isConnected' \in [Sessions -> BOOLEAN] /\ socket' \in [Sessions -> BOOLEAN]
      /\ recv' \in [Sessions -> BOOLEAN] /\ send' \in [Sessions -> BOOLEAN]
      /\ recvPendingCnt' \in [Sessions -> 0..1] /\ connected' \in Int
      /\ state' \in [Sessions -> {"Disconnected", "Connected"}]
  BY <1>1, <1>4, <1>5 DEF TypeOK
<1>7. TypeOK'
  BY <1>1, <1>3, <1>4, <1>6, TypeKept
<1>8. KnownInv'
  BY <1>1, <1>4, <1>5, KnownKept
<1>9. /\ ~isConnected'[has[t]]
      /\ \A s \in Sessions \ {has[t]} : isConnected'[s] = isConnected[s]
      /\ \A s \in Sessions : isConnected'[s] => isConnected[s]
  BY <1>1, <1>4, <1>5 DEF TypeOK
<1>10. ~Has(body, Chain) /\ Has(body, Releasing)
  BY <1>2, RecvHas
<1>11. ChainInv' /\ CountInv' /\ EndInv'
  BY <1>1, <1>3, <1>4, <1>9, <1>10, ChainKept, CountKept, EndKept
<1>12. ZombieInv'
  <2>1. Doing(t, Releasing)'
    BY <1>1, <1>3, <1>10, TurnFacts, SetsOfLabels
  <2>2. Safe(has[t])'
    BY <1>5, <2>1 DEF Safe
  <2> QED
    BY <1>1, <1>3, <1>4, <1>9, <2>2, ZombieKept
<1>13. /\ ~Left(t, Leaving)
       /\ \A S : \A u \in Threads \ {t} : Doing(u, S)' <=> Doing(u, S)
       /\ Doing(t, Leaving)' <=> Has(body, Leaving)
       /\ Doing(t, {"leave"})' <=> Has(body, {"leave"})
  <2>1. ~Left(t, Leaving) /\ ~Left(t, {"leave"})
    BY <1>1, <1>4, LeftFacts
  <2> QED
    BY <1>1, <1>3, <2>1, TurnFacts, SetsOfLabels
<1>14. ~isConnected[has[t]] => ~Doing(t, Leaving)'
  BY <1>2, <1>13, RecvHas
<1>15. isConnected[has[t]] => Doing(t, {"leave"})'
  <2>1. Has(<<"leave", "close", "release">>, {"leave"})
    BY HasOf, Zenon
  <2> QED
    BY <1>2, <1>13, <2>1
<1>18. isConnected[has[t]] => Doing(t, Leaving)'
  BY <1>15 DEF Doing, Leaving
<1>16. EarlyInv'
  <2> SUFFICES ASSUME NEW d \in Connectors, Doing(d, {"activate", "connected"})'
               PROVE  /\ state[has[d]] = "Disconnected"
                      /\ \/ isConnected'[has[d]] \/ has[d] \in early
                         \/ \E u \in Threads : has[u] = has[d] /\ Doing(u, {"leave"})'
    BY <1>4, <1>5 DEF EarlyInv
  <2>1. Doing(d, {"activate", "connected"}) /\ has[d] \in Sessions
    <3>1. ~Has(body, {"activate", "connected"})
      BY <1>3 DEF Turn, Body, Has, Round
    <3>2. Doing(d, {"activate", "connected"})
      <4>1. /\ t \in Threads /\ d \in Threads
            /\ {"activate", "connected"} \in SUBSET Labels
        BY SetsOfLabels DEF Threads
      <4>2. CASE d # t
        BY <1>13, <4>1, <4>2
      <4>3. CASE d = t
        <5>1. Doing(t, {"activate", "connected"})'
                 => Has(body, {"activate", "connected"}) \/ Left(t, {"activate", "connected"})
          BY <1>1, <1>3, <4>1, TurnFacts
        <5>2. Left(t, {"activate", "connected"}) => Doing(t, {"activate", "connected"})
          BY <1>1, <1>3, <4>1, TurnFacts
        <5> QED
          BY <3>1, <4>3, <5>1, <5>2
      <4> QED
        BY <4>2, <4>3
    <3>3. Doing(d, Mine)
      BY <3>2, DoingMore DEF Mine, Labels
    <3> QED
      BY <1>1, <3>2, <3>3 DEF ListInv, Threads
  <2>2. state[has[d]] = "Disconnected"
    BY <1>1, <2>1 DEF EarlyInv
  <2>3. CASE has[d] \in early
    BY <2>2, <2>3
  <2>4. CASE isConnected[has[d]] /\ has[d] # has[t]
    BY <1>9, <2>1, <2>2, <2>4
  <2>5. CASE isConnected[has[d]] /\ has[d] = has[t]
    BY <1>15, <2>2, <2>5
  <2>6. CASE \E u \in Threads : has[u] = has[d] /\ Doing(u, {"leave"})
    <3>1. PICK u \in Threads : has[u] = has[d] /\ Doing(u, {"leave"})
      BY <2>6
    <3>2. u # t
      BY <1>1, <1>4, <3>1, LeftFacts, SetsOfLabels
    <3> QED
      BY <1>13, <2>2, <3>1, <3>2
  <2> QED
    BY <1>1, <2>1, <2>3, <2>4, <2>5, <2>6 DEF EarlyInv
<1>17. LeaveInv'
  <2>1. ASSUME NEW u \in Threads, Doing(u, Leaving)'
        PROVE  /\ ~isConnected'[has[u]] /\ has[u] \notin early
               /\ u # t => Doing(u, Leaving) /\ ~isConnected[has[u]]
    <3>1. CASE u = t
      <4>1. isConnected[has[t]]
        BY <1>14, <2>1, <3>1
      <4> QED
        BY <1>1, <1>9, <3>1, <4>1 DEF LeaveInv
    <3>2. CASE u # t
      <4>1. Doing(u, Leaving)
        BY <1>13, <2>1, <3>2
      <4>2. ~isConnected[has[u]] /\ has[u] \notin early
        BY <1>1, <4>1 DEF LeaveInv
      <4>3. has[u] \in Sessions
        <5>1. Doing(u, Mine)
          BY <4>1, DoingMore DEF Leaving, Mine, Labels
        <5> QED
          BY <1>1, <5>1 DEF ListInv
      <4> QED
        BY <1>9, <3>2, <4>1, <4>2, <4>3
    <3> QED
      BY <3>1, <3>2
  <2>2. Doing(t, Leaving)' => isConnected[has[t]]
    BY <1>14
  <2>3. ASSUME NEW u \in Threads, NEW v \in Threads, Doing(u, Leaving)',
               Doing(v, Leaving)', has[u] = has[v]
        PROVE  u = v
    BY <1>1, <2>1, <2>2, <2>3 DEF LeaveInv
  <2>4. \A s \in early : ~isConnected'[s]
    BY <1>1, <1>9 DEF LeaveInv, TypeOK
  <2> QED
    BY <1>4, <1>5, <2>1, <2>3, <2>4 DEF LeaveInv
<1> QED
  BY <1>3, <1>5, <1>7, <1>8, <1>11, <1>12, <1>14, <1>16, <1>17, <1>18 DEF LoadInv

LEMMA PostKeeps ==
    ASSUME LoadInv, NEW t \in Threads, Post(t)
    PROVE  LoadInv' /\ \E body : Turn(t, "post", body) /\ ~Has(body, Leaving)
<1>1. /\ TypeOK /\ ListInv /\ KnownInv /\ ChainInv /\ CountInv /\ EarlyInv
      /\ LeaveInv /\ ZombieInv /\ EndInv
      /\ "post" \in Labels
  BY DEF LoadInv, Labels
<1>2. PICK body \in {<<>>, <<"disconnect", "release">>} :
         /\ Then(t, body)
         /\ body = <<>> =>
               /\ recvPendingCnt' = [recvPendingCnt EXCEPT ![has[t]] = @ + 1]
               /\ recv' = [recv EXCEPT ![has[t]] = TRUE]
         /\ body # <<>> => UNCHANGED <<recvPendingCnt, recv>>
  BY DEF Post
<1>3. Turn(t, "post", body)
  BY <1>1, <1>2, NoBody, RecvBodies DEF Post, Turn, process, Mine, Labels
<1>4. /\ UNCHANGED <<running, looping, left, active, isConnected, socket, send,
                     state, connected, early>>
      /\ At(t, "post")
  BY DEF Post, process, metrics
<1>5. /\ ListInv' /\ has[t] \in Sessions /\ has[t] # None
      /\ UNCHANGED <<stage, sessions, has>>
  BY <1>1, <1>3, TurnFacts, NoneAssumption DEF Turn
<1>6. /\ ~Left(t, Chain) /\ Doing(t, Chain) /\ ~Doing(t, {"uncount"})
      /\ ~Has(body, Chain) /\ ~Has(body, Leaving) /\ ~Has(body, {"uncount"})
  <2>1. /\ ~Left(t, Chain) /\ ~Left(t, {"uncount"})
        /\ \A S \in SUBSET Labels : Doing(t, S) <=> "post" \in S \/ Left(t, S)
    BY <1>1, <1>4, LeftFacts
  <2>2. Doing(t, Chain) /\ ~Doing(t, {"uncount"})
    BY <2>1, SetsOfLabels, Memberships
  <2>3. ~Has(body, Chain) /\ ~Has(body, Leaving)
    BY <1>2, RecvHas
  <2> QED
    BY <1>3, <2>1, <2>2, <2>3 DEF Turn, Body
<1>7. ~recv[has[t]] /\ recvPendingCnt[has[t]] = 0
  <2>1. ~recv[has[t]]
    BY <1>1, <1>6 DEF ChainInv
  <2>2. ASSUME NEW u \in Threads, has[u] = has[t], Doing(u, {"uncount"})
        PROVE  FALSE
    <3>1. Doing(u, Chain)
      BY <2>2, DoingMore, Memberships
    <3> QED
      BY <1>1, <1>6, <2>2, <3>1 DEF ChainInv
  <2> QED
    BY <1>1, <1>5, <2>1, <2>2 DEF CountInv
<1>17. /\ recv' \in [Sessions -> BOOLEAN]
       /\ recvPendingCnt' \in [Sessions -> 0..1]
       /\ \A s \in Sessions : s # has[t] =>
             recv'[s] = recv[s] /\ recvPendingCnt'[s] = recvPendingCnt[s]
       /\ body = <<>> => recv'[has[t]] /\ recvPendingCnt'[has[t]] = 1
       /\ body # <<>> => ~recv'[has[t]] /\ recvPendingCnt'[has[t]] = 0
  <2>1. recv \in [Sessions -> BOOLEAN] /\ recvPendingCnt \in [Sessions -> 0..1]
    BY <1>1 DEF TypeOK
  <2>2. CASE body = <<>>
    <3>1. /\ recvPendingCnt' = [recvPendingCnt EXCEPT ![has[t]] = @ + 1]
          /\ recv' = [recv EXCEPT ![has[t]] = TRUE]
      BY <1>2, <2>2
    <3>2. /\ recvPendingCnt' \in [Sessions -> 0..1] /\ recvPendingCnt'[has[t]] = 1
          /\ \A s \in Sessions : s # has[t] => recvPendingCnt'[s] = recvPendingCnt[s]
      BY <1>5, <1>7, <2>1, <3>1
    <3>3. /\ recv' \in [Sessions -> BOOLEAN] /\ recv'[has[t]]
          /\ \A s \in Sessions : s # has[t] => recv'[s] = recv[s]
      BY <1>5, <2>1, <3>1
    <3> QED
      BY <2>2, <3>2, <3>3
  <2>3. CASE body # <<>>
    <3>1. recvPendingCnt' = recvPendingCnt /\ recv' = recv
      BY <1>2, <2>3
    <3> QED
      BY <1>7, <2>1, <2>3, <3>1
  <2> QED
    BY <2>2, <2>3
<1>8. /\ active' \subseteq Sessions /\ early' \subseteq Sessions
      /\ isConnected' \in [Sessions -> BOOLEAN] /\ socket' \in [Sessions -> BOOLEAN]
      /\ recv' \in [Sessions -> BOOLEAN] /\ send' \in [Sessions -> BOOLEAN]
      /\ recvPendingCnt' \in [Sessions -> 0..1] /\ connected' \in Int
      /\ state' \in [Sessions -> {"Disconnected", "Connected"}]
  BY <1>1, <1>4, <1>17 DEF TypeOK
<1>9. TypeOK'
  BY <1>1, <1>3, <1>4, <1>8, TypeKept
<1>10. /\ \A s \in Sessions : recv'[s] => recv[s] \/ s = has[t]
       /\ \A s \in Sessions : recv[s] => recv'[s]
  BY <1>7, <1>17
<1>11. KnownInv'
  BY <1>1, <1>4, <1>5, <1>10, <1>17, KnownKept
<1>12. EarlyInv' /\ LeaveInv' /\ EndInv'
  BY <1>1, <1>3, <1>4, <1>6, EarlyKept, LeaveKept, EndKept
<1>13. ZombieInv'
  <2>1. ASSUME has[t] \in active'
        PROVE  Safe(has[t])'
    <3>1. CASE body = <<>>
      BY <1>5, <1>10, <1>17, <3>1 DEF Safe
    <3>2. CASE body = <<"disconnect", "release">>
      BY <1>1, <1>3, <1>4, <1>5, <1>10, <1>17, <2>1, <3>2, RecvHas, StillSafe
    <3> QED
      BY <1>2, <3>1, <3>2
  <2> QED
    BY <1>1, <1>3, <1>4, <1>10, <1>17, <2>1, ZombieKept
<1>14. /\ ~Doing(t, Chain)' /\ ~Doing(t, {"uncount"})'
       /\ \A S : \A u \in Threads \ {t} : Doing(u, S)' <=> Doing(u, S)
  <2>1. ~Left(t, {"uncount"})
    BY <1>1, <1>4, LeftFacts
  <2> QED
    BY <1>1, <1>3, <1>6, <2>1, TurnFacts, SetsOfLabels
<1>15. ChainInv'
  <2>1. ASSUME NEW u \in Threads, Doing(u, Chain)'
        PROVE  /\ Doing(u, Chain) /\ u # t /\ has[u] # has[t] /\ ~recv'[has[u]]
    <3>1. Doing(u, Chain) /\ u # t
      BY <1>14, <2>1
    <3>2. has[u] # has[t] /\ ~recv[has[u]]
      BY <1>1, <1>6, <3>1 DEF ChainInv
    <3>3. has[u] \in Sessions
      <4>1. Doing(u, Mine)
        BY <3>1, DoingMore DEF Chain, Mine, Labels
      <4> QED
        BY <1>1, <4>1 DEF ListInv
    <3> QED
      BY <1>10, <1>17, <3>1, <3>2, <3>3
  <2> QED
    BY <1>1, <1>5, <2>1 DEF ChainInv
<1>16. CountInv'
  <2> SUFFICES ASSUME NEW s \in Sessions
               PROVE  recvPendingCnt'[s] # 0 <=>
                         \/ recv'[s]
                         \/ \E u \in Threads : has[u] = s /\ Doing(u, {"uncount"})'
    BY <1>5 DEF CountInv
  <2>1. CASE s # has[t]
    BY <1>1, <1>10, <1>17, <1>14, <2>1 DEF CountInv
  <2>2. CASE s = has[t]
    <3>1. ASSUME NEW u \in Threads, has[u] = s, Doing(u, {"uncount"})'
          PROVE  FALSE
      BY <1>1, <1>5, <1>7, <1>14, <2>2, <3>1 DEF CountInv
    <3> QED
      BY <1>10, <1>17, <2>2, <3>1
  <2> QED
    BY <2>1, <2>2
<1> QED
  BY <1>3, <1>5, <1>6, <1>9, <1>11, <1>12, <1>13, <1>15, <1>16 DEF LoadInv

-----------------------------------------------------------------------------
(* The steps of a thread that has no session, and of the main thread       *)

\* The labels that come with a claim about the session of a thread.
Claims == Mine \ {"store"}

LEMMA InClaims ==
    /\ Chain \subseteq Claims /\ Leaving \subseteq Claims
    /\ Releasing \subseteq Claims /\ {"uncount"} \subseteq Claims
    /\ {"leave"} \subseteq Claims /\ {"activate", "connected"} \subseteq Claims
    /\ {"leave", "lost", "close"} \subseteq Claims
    /\ {"disconnect"} \subseteq Claims /\ Claims \subseteq Mine
    /\ Claims \in SUBSET Labels
    /\ {"uncount"} \subseteq Chain /\ {"leave"} \subseteq Leaving
  BY DEF Claims, Mine, Labels, Chain, Leaving, Releasing

\* A thread without claims does what makes none but on its way to TryRelease.
LEMMA IdleKeeps ==
    ASSUME LoadInv, NEW t \in Threads, ~Doing(t, Claims),
           ~Doing(t, Chain)', ~Doing(t, Leaving)',
           ~Doing(t, {"activate", "connected"})',
           \A u \in Threads \ {t} : has'[u] = has[u] /\ todo'[u] = todo[u],
           UNCHANGED <<active, isConnected, recv, recvPendingCnt, state, early>>
    PROVE  ChainInv' /\ CountInv' /\ EarlyInv' /\ LeaveInv' /\ ZombieInv'
<1>1. ChainInv /\ CountInv /\ EarlyInv /\ LeaveInv /\ ZombieInv
  BY DEF LoadInv
<1>2. /\ ~Doing(t, {"uncount"}) /\ ~Doing(t, {"leave"}) /\ ~Doing(t, Releasing)
      /\ ~Doing(t, {"uncount"})' /\ ~Doing(t, {"leave"})'
  <2>1. /\ ~Doing(t, {"uncount"}) /\ ~Doing(t, {"leave"})
        /\ ~Doing(t, Releasing)
    BY InClaims, DoingMore
  <2>2. ~Doing(t, {"uncount"})' /\ ~Doing(t, {"leave"})'
    BY InClaims DEF Doing
  <2> QED
    BY <2>1, <2>2
<1>3. \A S : \A u \in Threads \ {t} : Doing(u, S)' <=> Doing(u, S)
  BY DEF Doing
<1>4. ChainInv'
  BY <1>1, <1>3 DEF ChainInv
<1>5. CountInv'
  BY <1>1, <1>2, <1>3 DEF CountInv
<1>6. EarlyInv'
  <2> SUFFICES ASSUME NEW c \in Connectors, Doing(c, {"activate", "connected"})'
               PROVE  /\ state[has'[c]] = "Disconnected"
                      /\ \/ isConnected[has'[c]] \/ has'[c] \in early
                         \/ \E u \in Threads : has'[u] = has'[c] /\ Doing(u, {"leave"})'
    BY DEF EarlyInv
  <2>1. c # t /\ c \in Threads
    BY DEF Threads
  <2>2. has'[c] = has[c] /\ Doing(c, {"activate", "connected"})
    BY <1>3, <2>1
  <2>3. \A u \in Threads : Doing(u, {"leave"}) => has'[u] = has[u] /\ Doing(u, {"leave"})'
    BY <1>2, <1>3
  <2> QED
    BY <1>1, <2>2, <2>3 DEF EarlyInv
<1>7. LeaveInv'
  BY <1>1, <1>3 DEF LeaveInv
<1>8. ZombieInv'
  <2> SUFFICES ASSUME NEW s \in active
               PROVE  \/ isConnected[s] \/ s \in early \/ recv[s]
                      \/ \E u \in Threads : has'[u] = s /\ Doing(u, Releasing)'
    BY DEF ZombieInv, Safe
  <2>1. \A u \in Threads :
           Doing(u, Releasing) => has'[u] = has[u] /\ Doing(u, Releasing)'
    BY <1>2, <1>3
  <2> QED
    BY <1>1, <2>1 DEF ZombieInv, Safe
<1> QED
  BY <1>4, <1>5, <1>6, <1>7, <1>8

\* The list of one thread changes.
LEMMA OneList ==
    ASSUME ListInv, NEW t \in Threads, InOrder(todo[t])',
           \A u \in Threads \ {t} : has'[u] = has[u] /\ todo'[u] = todo[u],
           Doing(t, Mine)' => has'[t] \in Sessions,
           Doing(t, Round)' => t \in Connectors,
           Doing(t, {"uncount"})' => Doing(t, {"data"})',
           Doing(t, {"leave", "lost", "close"})' => Doing(t, {"release"})',
           t \in Connectors /\ (has'[t] # None \/ Doing(t, Mine)')
              => Doing(t, {"store"})'
    PROVE  ListInv'
<1>1. \A S : \A u \in Threads \ {t} : Doing(u, S)' <=> Doing(u, S)
  BY DEF Doing
<1>2. \A u \in Threads \ {t} : InOrder(todo[u])'
  BY DEF ListInv, InOrder
<1>3. Connectors \subseteq Threads
  BY DEF Threads
<1>4. \A u \in Threads \ {t} :
         /\ (Doing(u, Mine) => has[u] \in Sessions)'
         /\ (Doing(u, Round) => u \in Connectors)'
         /\ (Doing(u, {"uncount"}) => Doing(u, {"data"}))'
         /\ (Doing(u, {"leave", "lost", "close"}) => Doing(u, {"release"}))'
         /\ u \in Connectors =>
               ((has[u] # None \/ Doing(u, Mine)) => Doing(u, {"store"}))'
  BY <1>1 DEF ListInv
<1> QED
  BY <1>2, <1>3, <1>4 DEF ListInv

\* The main thread moves on, or a loop returns.
LEMMA MainKeeps ==
    ASSUME LoadInv, stage' \in Stages, running' \in BOOLEAN, looping' \subseteq Loops,
           rest' \subseteq sessions, Cleared' <=> Cleared, EndInv',
           UNCHANGED <<left, sessions, active, net, metrics, todo, has>>
    PROVE  LoadInv'
<1>1. /\ UNCHANGED <<left, sessions, active, isConnected, socket, recv, send,
                     recvPendingCnt, state, connected, early, todo, has>>
      /\ \A u, S : Doing(u, S)' <=> Doing(u, S)
      /\ \A s : Known(s)' <=> Known(s)
  BY DEF net, metrics, Doing, Known
<1>2. TypeOK'
  BY <1>1 DEF LoadInv, TypeOK
<1>3. ListInv'
  BY <1>1 DEF LoadInv, ListInv, InOrder
<1>4. KnownInv'
  BY <1>1 DEF LoadInv, KnownInv
<1>5. ChainInv' /\ CountInv'
  BY <1>1 DEF LoadInv, ChainInv, CountInv
<1>6. EarlyInv'
  BY <1>1 DEF LoadInv, EarlyInv
<1>7. LeaveInv'
  BY <1>1 DEF LoadInv, LeaveInv
<1>8. ZombieInv'
  BY <1>1 DEF LoadInv, ZombieInv, Safe
<1> QED
  BY <1>2, <1>3, <1>4, <1>5, <1>6, <1>7, <1>8 DEF LoadInv

LEMMA StartedKeeps ==
    ASSUME LoadInv, Started
    PROVE  LoadInv' /\ (Cleared' <=> Cleared)
<1>1. /\ stage = "connecting" /\ stage' = "serving" /\ todo[Main] = <<>>
      /\ \A c \in Connectors : todo[c] = <<>>
      /\ looping' = Loops
      /\ UNCHANGED <<running, left, rest, sessions, active, net, metrics, todo, has>>
  BY DEF Started, Moves
<1>2. ~Cleared /\ ~Cleared'
  BY <1>1 DEF Cleared
<1>3. EndInv'
  BY <1>1, <1>2 DEF EndInv
<1>4. stage' \in Stages /\ running' \in BOOLEAN /\ rest' \subseteq sessions
  BY <1>1 DEF Stages, LoadInv, TypeOK
<1> QED
  BY <1>1, <1>2, <1>3, <1>4, MainKeeps

LEMMA EndKeeps ==
    ASSUME LoadInv, End
    PROVE  LoadInv' /\ (Cleared' <=> Cleared)
<1>1. /\ stage = "serving" /\ stage' = "join loops" /\ todo[Main] = <<>>
      /\ running' = FALSE
      /\ UNCHANGED <<looping, left, rest, sessions, active, net, metrics, todo, has>>
  BY DEF End, Moves
<1>2. ~Cleared /\ ~Cleared'
  BY <1>1 DEF Cleared
<1>3. EndInv'
  BY <1>1, <1>2 DEF EndInv, LoadInv
<1>4. stage' \in Stages /\ looping' \subseteq Loops /\ rest' \subseteq sessions
  BY <1>1 DEF Stages, LoadInv, TypeOK
<1> QED
  BY <1>1, <1>2, <1>3, <1>4, MainKeeps

LEMMA JoinLoopsKeeps ==
    ASSUME LoadInv, JoinLoops
    PROVE  LoadInv' /\ (Cleared' <=> Cleared)
<1>1. /\ stage = "join loops" /\ stage' = "disconnect" /\ todo[Main] = <<>>
      /\ rest' = sessions
      /\ UNCHANGED <<running, looping, left, sessions, active, net, metrics, todo, has>>
  BY DEF JoinLoops, Moves
<1>2. ~Cleared /\ ~Cleared'
  BY <1>1 DEF Cleared
<1>3. EndInv'
  BY <1>1, <1>2 DEF EndInv, LoadInv
<1>4. /\ stage' \in Stages /\ running' \in BOOLEAN /\ looping' \subseteq Loops
      /\ rest' \subseteq sessions
  BY <1>1 DEF Stages, LoadInv, TypeOK
<1> QED
  BY <1>1, <1>2, <1>3, <1>4, MainKeeps

LEMMA JoinWorkersKeeps ==
    ASSUME LoadInv, JoinWorkers
    PROVE  LoadInv' /\ (Cleared' <=> Cleared)
<1>1. /\ stage = "join workers" /\ stage' = "clear" /\ todo[Main] = <<>>
      /\ \A w \in Workers : todo[w] = <<>>
      /\ UNCHANGED <<running, looping, left, rest, sessions, active, net, metrics,
                     todo, has>>
  BY DEF JoinWorkers, Moves
<1>2. ~Cleared /\ ~Cleared'
  BY <1>1 DEF Cleared
<1>3. \A t \in Threads : todo[t] = <<>>
  BY <1>1 DEF LoadInv, EndInv, Threads
<1>4. EndInv'
  <2>1. rest = {} /\ \A s \in sessions : ~isConnected[s]
    BY <1>1 DEF LoadInv, EndInv
  <2>2. \A t \in Threads : todo'[t] = <<>>
    BY <1>1, <1>3
  <2>3. rest' = {} /\ \A s \in sessions' : ~isConnected'[s]
    BY <1>1, <2>1 DEF net
  <2> QED
    BY <1>1, <1>2, <2>2, <2>3 DEF EndInv, Threads
<1>5. /\ stage' \in Stages /\ running' \in BOOLEAN /\ looping' \subseteq Loops
      /\ rest' \subseteq sessions
  BY <1>1 DEF Stages, LoadInv, TypeOK
<1> QED
  BY <1>1, <1>2, <1>4, <1>5, MainKeeps

\* Nothing of EndInv but looping may change.
LEMMA LoopReturnsKeeps ==
    ASSUME LoadInv,
           UNCHANGED vars \/ \E l \in Loops : LoopReturns(l)
    PROVE  LoadInv' /\ (Cleared' <=> Cleared)
<1>1. /\ UNCHANGED <<stage, running, left, rest, sessions, active, net, metrics,
                     todo, has>>
      /\ looping' \subseteq looping
  BY DEF vars, process, LoopReturns
<1>2. Cleared' <=> Cleared
  BY <1>1 DEF Cleared
<1>3. EndInv'
  BY <1>1, <1>2 DEF EndInv, LoadInv, Pooled, Doing, net
<1>4. /\ stage' \in Stages /\ running' \in BOOLEAN /\ looping' \subseteq Loops
      /\ rest' \subseteq sessions
  BY <1>1 DEF LoadInv, TypeOK
<1> QED
  BY <1>1, <1>2, <1>3, <1>4, MainKeeps

LEMMA NothingToDo == \A t, S : todo[t] = <<>> => ~Doing(t, S)
  BY DEF Doing

LEMMA DisconnectNextKeeps ==
    ASSUME LoadInv, DisconnectNext
    PROVE  LoadInv' /\ ~Cleared /\ ~Cleared'
<1>1. /\ stage = "disconnect" /\ todo[Main] = <<>>
      /\ todo' = [todo EXCEPT ![Main] = <<"disconnect">>]
      /\ UNCHANGED <<stage, running, looping, left, sessions, active, isConnected,
                     socket, recv, send, recvPendingCnt, state, connected, early>>
  BY DEF DisconnectNext, net, metrics
<1>2. PICK s \in rest : /\ rest' = rest \ {s}
                        /\ has' = [has EXCEPT ![Main] = s]
  BY DEF DisconnectNext
<1>3. /\ TypeOK /\ ListInv /\ KnownInv /\ EndInv
      /\ ~Cleared /\ ~Cleared'
  BY <1>1 DEF LoadInv, Cleared
<1>4. /\ s \in sessions /\ s \in Sessions
      /\ Main \in Threads /\ Main \notin Connectors
      /\ Connectors \subseteq Threads
  BY <1>3, RolesAssumption DEF TypeOK, Threads
<1>5. /\ has'[Main] = s /\ todo'[Main] = <<"disconnect">>
      /\ \A u \in Threads \ {Main} : has'[u] = has[u] /\ todo'[u] = todo[u]
      /\ has' \in [Threads -> Sessions \cup {None}]
      /\ todo' \in [Threads -> Seq(Labels)]
  <2>1. <<"disconnect">> \in Seq(Labels)
    BY DEF Labels
  <2> QED
    BY <1>1, <1>2, <1>3, <1>4, <2>1 DEF TypeOK
<1>6. TypeOK'
  BY <1>1, <1>2, <1>3, <1>5 DEF TypeOK
<1>7. \A S : Doing(Main, S)' <=> "disconnect" \in S
  BY <1>5 DEF Doing
<1>8. ~Doing(Main, Claims) /\ ~Doing(Main, Chain)' /\ ~Doing(Main, Leaving)'
      /\ ~Doing(Main, {"activate", "connected"})'
  BY <1>1, <1>7, NothingToDo, Memberships
<1>9. ChainInv' /\ CountInv' /\ EarlyInv' /\ LeaveInv' /\ ZombieInv'
  BY <1>1, <1>4, <1>5, <1>8, IdleKeeps
<1>10. ListInv'
  <2>1. InOrder(todo[Main])'
    BY <1>5 DEF InOrder
  <2>2. /\ ~Doing(Main, Round)' /\ ~Doing(Main, {"uncount"})'
        /\ ~Doing(Main, {"leave", "lost", "close"})'
    BY <1>7, NotInRound, NotUncount
  <2> QED
    BY <1>3, <1>4, <1>5, <2>1, <2>2, OneList
<1>11. KnownInv'
  <2>1. \A u : Known(u)' <=> Known(u)
    BY <1>1, <1>4, <1>5 DEF Known
  <2>2. \A t \in Threads : has'[t] # None => Known(has'[t])
    <3>1. Known(has'[Main])
      BY <1>4, <1>5 DEF Known
    <3>2. \A t \in Threads \ {Main} : has[t] # None => Known(has[t])
      BY <1>3 DEF KnownInv
    <3> QED
      BY <1>5, <3>1, <3>2
  <2>3. \A t \in Threads : (has[t] # None => Known(has[t]))'
    BY <2>1, <2>2, <1>1, <1>4, <1>5 DEF Known
  <2>4. /\ \A u \in Sessions : (u \in active \/ recv[u] \/ send[u] => Known(u))'
        /\ \A u \in early' : Known(u)'
    BY <1>1, <1>3, <2>1 DEF KnownInv
  <2> QED
    BY <1>1, <1>3, <1>4, <1>5, <2>3, <2>4 DEF KnownInv
<1>12. EndInv'
  <2>1. \A u \in sessions \ rest : ~isConnected[u]
    BY <1>1, <1>3, NothingToDo DEF EndInv
  <2>2. \A u \in sessions \ rest' :
           isConnected[u] => has'[Main] = u /\ Doing(Main, {"disconnect"})'
    BY <1>2, <1>5, <1>7, <2>1
  <2> QED
    BY <1>1, <1>3, <1>4, <1>5, <2>2 DEF EndInv
<1> QED
  BY <1>3, <1>6, <1>9, <1>10, <1>11, <1>12 DEF LoadInv

LEMMA DisconnectDoneKeeps ==
    ASSUME LoadInv, DisconnectDone
    PROVE  LoadInv' /\ ~Cleared /\ ~Cleared'
<1>1. /\ stage = "disconnect" /\ stage' = "join workers" /\ todo[Main] = <<>>
      /\ rest = {} /\ has' = [has EXCEPT ![Main] = None]
      /\ UNCHANGED <<running, looping, left, rest, sessions, active, isConnected,
                     socket, recv, send, recvPendingCnt, state, connected, early,
                     todo>>
  BY DEF DisconnectDone, Moves, net, metrics
<1>2. /\ TypeOK /\ ListInv /\ KnownInv /\ EndInv
      /\ ~Cleared /\ ~Cleared'
  BY <1>1 DEF LoadInv, Cleared
<1>3. Main \in Threads /\ Main \notin Connectors /\ Connectors \subseteq Threads
  BY RolesAssumption DEF Threads
<1>4. /\ has'[Main] = None /\ todo'[Main] = <<>>
      /\ \A u \in Threads \ {Main} : has'[u] = has[u] /\ todo'[u] = todo[u]
      /\ has' \in [Threads -> Sessions \cup {None}]
  BY <1>1, <1>2, <1>3 DEF TypeOK
<1>5. TypeOK'
  BY <1>1, <1>2, <1>4 DEF TypeOK, Stages
<1>6. \A S : ~Doing(Main, S) /\ ~Doing(Main, S)'
  <2>1. \A S : ~Doing(Main, S)
    BY <1>1, NothingToDo
  <2>2. \A S : Doing(Main, S)' <=> Doing(Main, S)
    BY <1>1 DEF Doing
  <2> QED
    BY <2>1, <2>2
<1>7. ChainInv' /\ CountInv' /\ EarlyInv' /\ LeaveInv' /\ ZombieInv'
  BY <1>1, <1>3, <1>4, <1>6, IdleKeeps
<1>8. ListInv'
  <2>1. InOrder(todo[Main])'
    BY <1>4 DEF InOrder
  <2> QED
    BY <1>2, <1>3, <1>4, <1>6, <2>1, OneList
<1>9. KnownInv'
  <2>1. \A u : Known(u)' <=> Known(u)
    BY <1>1, <1>3, <1>4 DEF Known
  <2>2. \A t \in Threads : has'[t] # None => Known(has[t]) /\ has'[t] = has[t]
    BY <1>2, <1>3, <1>4 DEF KnownInv
  <2>3. \A t \in Threads : (has[t] # None => Known(has[t]))'
    BY <2>1, <2>2, <1>1, <1>3, <1>4 DEF Known
  <2>4. /\ \A u \in Sessions : (u \in active \/ recv[u] \/ send[u] => Known(u))'
        /\ \A u \in early' : Known(u)'
    BY <1>1, <1>2, <2>1 DEF KnownInv
  <2> QED
    BY <1>1, <1>2, <1>3, <1>4, <2>3, <2>4 DEF KnownInv
<1>10. EndInv'
  <2>1. \A u \in sessions : ~isConnected[u]
    BY <1>1, <1>2, <1>6 DEF EndInv
  <2> QED
    BY <1>1, <1>2, <1>3, <1>4, <2>1 DEF EndInv
<1> QED
  BY <1>2, <1>5, <1>7, <1>8, <1>9, <1>10 DEF LoadInv

LEMMA ClearSessionsKeeps ==
    ASSUME LoadInv, ClearSessions
    PROVE  /\ LoadInv' /\ ~Cleared /\ Cleared'
           /\ \A s \in Sessions : Known(s) => ~isConnected[s]
           /\ \A t \in Threads : todo[t] = <<>>
<1>1. /\ stage = "clear" /\ stage' = "drop" /\ todo[Main] = <<>> /\ sessions' = {}
      /\ UNCHANGED <<running, looping, left, rest, active, isConnected, socket,
                     recv, send, recvPendingCnt, state, connected, early, todo, has>>
  BY DEF ClearSessions, Moves, net, metrics
<1>2. TypeOK /\ ListInv /\ KnownInv /\ EndInv /\ ~Cleared /\ Cleared'
  BY <1>1 DEF LoadInv, Cleared
<1>3. /\ \A t \in Threads : todo[t] = <<>>
      /\ \A s \in sessions : ~isConnected[s]
  BY <1>1, <1>2 DEF EndInv
<1>4. Connectors \subseteq Threads /\ Main \in Threads
  BY DEF Threads
<1>5. \A c \in Connectors : has[c] = None
  BY <1>2, <1>3, <1>4, NothingToDo DEF ListInv
<1>6. \A s \in Sessions : Known(s) => ~isConnected[s]
  BY <1>3, <1>5, NoneAssumption DEF Known
<1>7. rest = {}
  BY <1>1, <1>2 DEF EndInv
<1>8. TypeOK'
  BY <1>1, <1>2, <1>7 DEF TypeOK, Stages
<1>9. \A u, S : Doing(u, S)' <=> Doing(u, S)
  BY <1>1 DEF Doing
<1>10. ListInv'
  BY <1>1, <1>2, <1>9 DEF ListInv, InOrder
<1>11. KnownInv'
  BY <1>1, <1>2, <1>5 DEF KnownInv
<1>12. ChainInv' /\ CountInv' /\ EarlyInv' /\ LeaveInv' /\ ZombieInv'
  BY <1>1, <1>9 DEF LoadInv, ChainInv, CountInv, EarlyInv, LeaveInv, ZombieInv, Safe
<1>13. EndInv'
  <2>1. ASSUME NEW s \in Sessions, ~Pooled(s)'
        PROVE  ~isConnected[s]
    <3>1. \/ s \in active \/ recv[s] \/ send[s]
          \/ \E t \in Threads : has[t] = s
      BY <1>1, <2>1 DEF Pooled
    <3>2. Known(s)
      BY <1>2, <3>1, NoneAssumption DEF KnownInv
    <3> QED
      BY <1>6, <3>2
  <2> QED
    BY <1>1, <1>2, <1>3, <1>4, <2>1 DEF EndInv
<1> QED
  BY <1>2, <1>3, <1>6, <1>8, <1>10, <1>11, <1>12, <1>13 DEF LoadInv

LEMMA DropManagerKeeps ==
    ASSUME LoadInv, DropManager
    PROVE  LoadInv' /\ Cleared /\ Cleared'
<1>1. /\ stage = "drop" /\ stage' = "ended" /\ active' = {}
      /\ UNCHANGED <<running, looping, left, rest, sessions, isConnected, socket,
                     recv, send, recvPendingCnt, state, connected, early, todo, has>>
  BY DEF DropManager, Moves, net, metrics
<1>2. TypeOK /\ ListInv /\ KnownInv /\ EndInv /\ Cleared /\ Cleared'
  BY <1>1 DEF LoadInv, Cleared
<1>3. TypeOK'
  BY <1>1, <1>2 DEF TypeOK, Stages
<1>4. \A u, S : Doing(u, S)' <=> Doing(u, S)
  BY <1>1 DEF Doing
<1>5. ListInv'
  BY <1>1, <1>2, <1>4 DEF ListInv, InOrder
<1>6. KnownInv'
  BY <1>1, <1>2 DEF KnownInv
<1>7. ChainInv' /\ CountInv' /\ EarlyInv' /\ LeaveInv' /\ ZombieInv'
  BY <1>1, <1>4 DEF LoadInv, ChainInv, CountInv, EarlyInv, LeaveInv, ZombieInv
<1>8. EndInv'
  <2>1. \A s \in Sessions : Pooled(s) => Pooled(s)'
    BY <1>1 DEF Pooled
  <2> QED
    BY <1>1, <1>2, <2>1 DEF EndInv
<1> QED
  BY <1>2, <1>3, <1>5, <1>6, <1>7, <1>8 DEF LoadInv

\* A thread other than the main thread has something to do.
LEMMA EndIdle ==
    ASSUME LoadInv, NEW t \in Threads, t # Main, todo[t] # <<>>,
           \A u \in Threads \ {t} : has'[u] = has[u] /\ todo'[u] = todo[u],
           UNCHANGED <<stage, rest>>,
           stage # "connecting" => UNCHANGED <<sessions, isConnected>>
    PROVE  EndInv' /\ ~Cleared /\ ~Cleared'
<1>1. EndInv /\ Main \in Threads /\ Connectors \subseteq Threads
  BY DEF LoadInv, Threads
<1>2. /\ t \in Connectors => stage = "connecting"
      /\ stage \notin {"clear", "drop", "ended"}
  BY <1>1 DEF EndInv
<1>3. ~Cleared /\ ~Cleared'
  BY <1>2 DEF Cleared
<1>4. todo'[Main] = todo[Main] /\ has'[Main] = has[Main]
  BY <1>1
<1>5. Doing(Main, {"disconnect"})' <=> Doing(Main, {"disconnect"})
  BY <1>4 DEF Doing
<1>6. /\ stage' # "connecting" => \A c \in Connectors : todo'[c] = <<>>
      /\ stage' # "disconnect" => todo'[Main] = <<>>
  BY <1>1, <1>2, <1>4 DEF EndInv
<1>7. /\ stage' = "disconnect" => \A s \in sessions' \ rest' :
            isConnected'[s] => has'[Main] = s /\ Doing(Main, {"disconnect"})'
      /\ stage' \in {"join workers", "clear"} =>
            rest' = {} /\ \A s \in sessions' : ~isConnected'[s]
  <2>1. CASE stage = "connecting"
    BY <2>1
  <2>2. CASE stage # "connecting"
    BY <1>1, <1>4, <1>5, <2>2 DEF EndInv
  <2> QED
    BY <2>1, <2>2
<1> QED
  BY <1>2, <1>3, <1>6, <1>7 DEF EndInv

\* A thread ends, waits on, or goes on with its loop.
LEMMA ReturnKeeps ==
    ASSUME LoadInv, NEW t \in Threads, t # Main,
           NEW label \in {"connect", "loop", "poll"}, At(t, label),
           todo' \in [Threads -> Seq(Labels)], InOrder(todo[t])',
           ~Doing(t, Mine)', ~Doing(t, Round)',
           \A u \in Threads \ {t} : has'[u] = has[u] /\ todo'[u] = todo[u],
           has' \in [Threads -> Sessions \cup {None}], has'[t] \in {has[t], None},
           send' \in [Sessions -> BOOLEAN], \A s \in Sessions : send'[s] => send[s],
           UNCHANGED <<stage, running, looping, left, rest, sessions, active,
                       isConnected, socket, recv, recvPendingCnt, state,
                       connected, early>>
    PROVE  /\ LoadInv' /\ ~Cleared /\ ~Cleared' /\ ~Doing(t, Mine)
           /\ \A s : Known(s)' <=> Known(s)
<1>1. TypeOK /\ ListInv /\ KnownInv /\ label \in Labels /\ todo[t] # <<>>
  BY DEF LoadInv, Labels, At
<1>2. /\ ~Doing(t, Mine) /\ ~Doing(t, {"store"})
  <2>1. /\ ~Left(t, Mine) /\ ~Left(t, {"store"})
        /\ \A S \in SUBSET Labels : Doing(t, S) <=> label \in S \/ Left(t, S)
    BY <1>1, LeftFacts
  <2>2. label \notin Mine /\ label \notin {"store"}
    BY DEF Mine
  <2> QED
    BY <2>1, <2>2, SetsOfLabels
<1>3. /\ ~Doing(t, Claims) /\ ~Doing(t, Chain)' /\ ~Doing(t, Leaving)'
      /\ ~Doing(t, {"activate", "connected"})' /\ ~Doing(t, {"uncount"})'
      /\ ~Doing(t, {"leave", "lost", "close"})'
  <2>1. ~Doing(t, Claims)
    BY <1>2, InClaims, DoingMore
  <2>2. ~Doing(t, Claims)'
    BY InClaims DEF Doing
  <2> QED
    BY <2>1, <2>2, InClaims DEF Doing
<1>4. EndInv' /\ ~Cleared /\ ~Cleared'
  BY <1>1, EndIdle
<1>5. ChainInv' /\ CountInv' /\ EarlyInv' /\ LeaveInv' /\ ZombieInv'
  BY <1>3, IdleKeeps
<1>6. t \in Connectors => has[t] = None /\ has'[t] = None
  BY <1>1, <1>2 DEF ListInv
<1>7. ListInv'
  BY <1>1, <1>3, <1>6, OneList
<1>8. TypeOK'
  BY <1>1 DEF TypeOK
<1>9. \A c \in Connectors : has'[c] = has[c]
  BY <1>6 DEF Threads
<1>10. \A s : Known(s)' <=> Known(s)
  BY <1>9 DEF Known
<1>11. KnownInv'
  <2>1. \A u \in Threads : has'[u] # None => Known(has'[u])
    BY <1>1, <1>4 DEF KnownInv
  <2>2. \A u \in Threads : (has[u] # None => Known(has[u]))'
    BY <2>1, <1>9 DEF Known
  <2>3. /\ \A s \in Sessions : (s \in active \/ recv[s] \/ send[s] => Known(s))'
        /\ \A s \in early' : Known(s)'
    BY <1>1, <1>4, <1>10 DEF KnownInv
  <2>4. /\ \A c, d \in Connectors : has'[c] # None /\ has'[c] = has'[d] => c = d
        /\ \A c \in Connectors : has'[c] \notin sessions'
    BY <1>1, <1>9 DEF KnownInv
  <2> QED
    BY <1>4, <2>2, <2>3, <2>4 DEF KnownInv
<1> QED
  BY <1>2, <1>4, <1>5, <1>7, <1>8, <1>10, <1>11 DEF LoadInv

\* A label that no callee takes the place of.
LEMMA Emptied ==
    ASSUME TypeOK, ListInv, NEW t \in Threads, NEW label \in {"connect", "poll", "store"},
           At(t, label), Then(t, <<>>)
    PROVE  /\ todo' \in [Threads -> Seq(Labels)] /\ InOrder(todo[t])'
           /\ \A u \in Threads \ {t} : todo'[u] = todo[u]
           /\ ~Doing(t, Mine)'
           /\ label # "store" => ~Doing(t, Round)'
           /\ \A S \in SUBSET Labels : Doing(t, S)' <=> Left(t, S)
<1>1. /\ <<>> \in Seq(Labels) /\ InOrder(<<>>) /\ label \in Labels
      /\ \A i \in 1..Len(<<>>) : Later[label] \subseteq Later[<<>>[i]]
  BY EmptySeq DEF InOrder, Labels
<1>2. /\ todo' \in [Threads -> Seq(Labels)] /\ InOrder(todo[t])'
      /\ \A u \in Threads \ {t} : todo'[u] = todo[u]
      /\ \A S \in SUBSET Labels : Doing(t, S)' <=> Has(<<>>, S) \/ Left(t, S)
  BY <1>1, ThenFacts
<1>3. \A S \in SUBSET Labels : Doing(t, S)' <=> Left(t, S)
  BY <1>2, HasOf
<1>4. /\ ~Left(t, Mine)
      /\ label # "store" => ~Left(t, Round)
  BY <1>1, LeftFacts
<1> QED
  BY <1>2, <1>3, <1>4, SetsOfLabels

\* The roles of the threads.
LEMMA Roles ==
    /\ \A c \in Connectors : c \in Threads /\ c # Main
    /\ \A w \in Workers : w \in Threads /\ w # Main /\ w \notin Connectors
  BY RolesAssumption DEF Threads

LEMMA ConnectDoneKeeps ==
    ASSUME LoadInv, NEW c \in Connectors, ConnectDone(c)
    PROVE  /\ LoadInv' /\ ~Cleared /\ ~Cleared' /\ ~Doing(c, Mine)
           /\ ~Doing(c, Mine)' /\ \A s : Known(s)' <=> Known(s)
<1>1. /\ At(c, "connect") /\ Then(c, <<>>) /\ c \in Threads /\ c # Main
      /\ UNCHANGED <<stage, running, looping, left, rest, sessions, active,
                     isConnected, socket, recv, send, recvPendingCnt, state,
                     connected, early, has>>
  BY Roles DEF ConnectDone, process, net, metrics
<1>2. TypeOK /\ ListInv
  BY DEF LoadInv
<1>3. /\ todo' \in [Threads -> Seq(Labels)] /\ InOrder(todo[c])'
      /\ \A u \in Threads \ {c} : todo'[u] = todo[u]
      /\ ~Doing(c, Mine)' /\ ~Doing(c, Round)'
  BY <1>1, <1>2, Emptied
<1>4. /\ has' \in [Threads -> Sessions \cup {None}] /\ has'[c] \in {has[c], None}
      /\ send' \in [Sessions -> BOOLEAN] /\ \A s \in Sessions : send'[s] => send[s]
      /\ \A u \in Threads \ {c} : has'[u] = has[u]
  BY <1>1, <1>2 DEF TypeOK
<1> QED
  BY <1>1, <1>3, <1>4, ReturnKeeps

LEMMA TimeoutKeeps ==
    ASSUME LoadInv, NEW w \in Workers, Timeout(w)
    PROVE  /\ LoadInv' /\ ~Cleared /\ ~Cleared' /\ ~Doing(w, Mine)
           /\ ~Doing(w, Mine)' /\ \A s : Known(s)' <=> Known(s)
<1>1. /\ At(w, "poll") /\ Then(w, <<>>) /\ w \in Threads /\ w # Main
      /\ UNCHANGED <<stage, running, looping, left, rest, sessions, active,
                     isConnected, socket, recv, send, recvPendingCnt, state,
                     connected, early, has>>
  BY Roles DEF Timeout, process, net, metrics
<1>2. TypeOK /\ ListInv
  BY DEF LoadInv
<1>3. /\ todo' \in [Threads -> Seq(Labels)] /\ InOrder(todo[w])'
      /\ \A u \in Threads \ {w} : todo'[u] = todo[u]
      /\ ~Doing(w, Mine)' /\ ~Doing(w, Round)'
  BY <1>1, <1>2, Emptied
<1>4. /\ has' \in [Threads -> Sessions \cup {None}] /\ has'[w] \in {has[w], None}
      /\ send' \in [Sessions -> BOOLEAN] /\ \A s \in Sessions : send'[s] => send[s]
      /\ \A u \in Threads \ {w} : has'[u] = has[u]
  BY <1>1, <1>2 DEF TypeOK
<1> QED
  BY <1>1, <1>3, <1>4, ReturnKeeps

LEMMA CompleteSendKeeps ==
    ASSUME LoadInv, NEW w \in Workers, CompleteSend(w)
    PROVE  /\ LoadInv' /\ ~Cleared /\ ~Cleared' /\ ~Doing(w, Mine)
           /\ ~Doing(w, Mine)' /\ \A s : Known(s)' <=> Known(s)
<1>1. /\ At(w, "poll") /\ Then(w, <<>>) /\ w \in Threads /\ w # Main
      /\ UNCHANGED <<stage, running, looping, left, rest, sessions, active,
                     isConnected, socket, recv, recvPendingCnt, state,
                     connected, early, has>>
  BY Roles DEF CompleteSend, process, metrics
<1>2. TypeOK /\ ListInv
  BY DEF LoadInv
<1>3. /\ todo' \in [Threads -> Seq(Labels)] /\ InOrder(todo[w])'
      /\ \A u \in Threads \ {w} : todo'[u] = todo[u]
      /\ ~Doing(w, Mine)' /\ ~Doing(w, Round)'
  BY <1>1, <1>2, Emptied
<1>4. PICK s \in Sessions : send' = [send EXCEPT ![s] = FALSE]
  BY DEF CompleteSend
<1>5. /\ send' \in [Sessions -> BOOLEAN] /\ \A u \in Sessions : send'[u] => send[u]
  BY <1>2, <1>4 DEF TypeOK
<1>6. /\ has' \in [Threads -> Sessions \cup {None}] /\ has'[w] \in {has[w], None}
      /\ \A u \in Threads \ {w} : has'[u] = has[u]
  BY <1>1, <1>2 DEF TypeOK
<1> QED
  BY <1>1, <1>3, <1>5, <1>6, ReturnKeeps

LEMMA LoopKeeps ==
    ASSUME LoadInv, NEW w \in Workers, Loop(w)
    PROVE  /\ LoadInv' /\ ~Cleared /\ ~Cleared' /\ ~Doing(w, Mine)
           /\ ~Doing(w, Mine)' /\ \A s : Known(s)' <=> Known(s)
<1>1. /\ At(w, "loop") /\ w \in Threads /\ w # Main
      /\ has' = [has EXCEPT ![w] = None]
      /\ UNCHANGED <<stage, running, looping, left, rest, sessions, active,
                     isConnected, socket, recv, send, recvPendingCnt, state,
                     connected, early>>
  BY Roles DEF Loop, process, net, metrics
<1>2. TypeOK /\ ListInv
  BY DEF LoadInv
<1>3. PICK list \in {<<"poll", "loop">>, <<>>} : todo' = [todo EXCEPT ![w] = list]
  BY DEF Loop
<1>4. list \in Seq(Labels) /\ InOrder(list) /\ ~Has(list, Mine) /\ ~Has(list, Round)
  <2>1. CASE list = <<"poll", "loop">>
    <3> DEFINE p == <<"poll", "loop">>
    <3>1. /\ p \in Seq(Labels) /\ Len(p) = 2 /\ p[1] = "poll" /\ p[2] = "loop"
      BY DEF Labels
    <3>2. /\ "poll" \notin Mine /\ "loop" \notin Mine
          /\ "poll" \notin Round /\ "loop" \notin Round
      BY DEF Mine, Round
    <3>3. ~Has(p, Mine) /\ ~Has(p, Round)
      BY <3>2, HasOf, Zenon
    <3> HIDE DEF p
    <3>4. InOrder(p)
      BY <3>1, LaterIs DEF InOrder
    <3> QED
      BY <2>1, <3>1, <3>3, <3>4 DEF p
  <2>2. CASE list = <<>>
    <3>1. <<>> \in Seq(Labels) /\ InOrder(<<>>)
      BY EmptySeq DEF InOrder
    <3>2. ~Has(<<>>, Mine) /\ ~Has(<<>>, Round)
      BY HasOf, Zenon
    <3> QED
      BY <2>2, <3>1, <3>2
  <2> QED
    BY <1>3, <2>1, <2>2
<1>5. /\ todo' \in [Threads -> Seq(Labels)] /\ todo'[w] = list
      /\ \A u \in Threads \ {w} : todo'[u] = todo[u]
  BY <1>1, <1>2, <1>3, <1>4 DEF TypeOK
<1>6. InOrder(todo[w])' /\ ~Doing(w, Mine)' /\ ~Doing(w, Round)'
  BY <1>4, <1>5 DEF InOrder, Doing, Has
<1>7. /\ has' \in [Threads -> Sessions \cup {None}] /\ has'[w] \in {has[w], None}
      /\ \A u \in Threads \ {w} : has'[u] = has[u]
      /\ send' \in [Sessions -> BOOLEAN] /\ \A s \in Sessions : send'[s] => send[s]
  BY <1>1, <1>2 DEF TypeOK
<1> QED
  BY <1>1, <1>5, <1>6, <1>7, ReturnKeeps

LEMMA StoreKeeps ==
    ASSUME LoadInv, NEW c \in Connectors, Store(c)
    PROVE  /\ LoadInv' /\ ~Cleared /\ ~Cleared' /\ ~Doing(c, Claims)
           /\ ~Doing(c, Mine)' /\ \A s \in Sessions : Known(s)' <=> Known(s)
<1>1. /\ At(c, "store") /\ Then(c, <<>>) /\ c \in Threads /\ c # Main
      /\ sessions' = sessions \cup {has[c]} /\ has' = [has EXCEPT ![c] = None]
      /\ UNCHANGED <<stage, running, looping, left, rest, active, isConnected,
                     socket, recv, send, recvPendingCnt, state, connected, early>>
  BY Roles DEF Store, process, net, metrics
<1>2. TypeOK /\ ListInv /\ KnownInv /\ EndInv /\ "store" \in Labels /\ todo[c] # <<>>
  BY <1>1 DEF LoadInv, Labels, At
<1>3. /\ todo' \in [Threads -> Seq(Labels)] /\ InOrder(todo[c])'
      /\ \A u \in Threads \ {c} : todo'[u] = todo[u]
      /\ ~Doing(c, Mine)'
  BY <1>1, <1>2, Emptied
<1>4. /\ has' \in [Threads -> Sessions \cup {None}] /\ has'[c] = None
      /\ \A u \in Threads \ {c} : has'[u] = has[u]
  BY <1>1, <1>2 DEF TypeOK
<1>5. ~Doing(c, Claims) /\ has[c] \in Sessions
  <2>1. /\ ~Left(c, Mine)
        /\ \A S \in SUBSET Labels : Doing(c, S) <=> "store" \in S \/ Left(c, S)
    BY <1>1, <1>2, LeftFacts
  <2>2. Claims \in SUBSET Labels /\ "store" \notin Claims /\ "store" \in Mine
    BY InClaims DEF Claims, Mine, Labels
  <2>3. ~Left(c, Claims)
    BY <2>1, InClaims DEF Left, Has
  <2>4. ~Doing(c, Claims)
    BY <2>1, <2>2, <2>3
  <2>5. Doing(c, Mine)
    BY <2>1, <2>2, SetsOfLabels
  <2> QED
    BY <1>1, <1>2, <2>4, <2>5 DEF ListInv
<1>6. /\ ~Doing(c, Chain)' /\ ~Doing(c, Leaving)'
      /\ ~Doing(c, {"activate", "connected"})' /\ ~Doing(c, {"uncount"})'
      /\ ~Doing(c, {"leave", "lost", "close"})'
  <2>1. ~Doing(c, Claims)'
    BY <1>3, InClaims DEF Doing
  <2> QED
    BY <2>1, InClaims DEF Doing
<1>7. stage = "connecting"
  BY <1>2 DEF EndInv
<1>8. EndInv' /\ ~Cleared /\ ~Cleared'
  BY <1>1, <1>2, <1>3, <1>4, <1>7, EndIdle
<1>9. ChainInv' /\ CountInv' /\ EarlyInv' /\ LeaveInv' /\ ZombieInv'
  BY <1>1, <1>3, <1>4, <1>5, <1>6, IdleKeeps
<1>10. ListInv'
  BY <1>1, <1>2, <1>3, <1>4, <1>6, OneList
<1>11. TypeOK'
  BY <1>1, <1>2, <1>3, <1>4, <1>5 DEF TypeOK
<1>12. \A s \in Sessions : Known(s)' <=> Known(s)
  <2>1. ASSUME NEW s \in Sessions, Known(s)
        PROVE  Known(s)'
    BY <1>1, <1>4, <2>1 DEF Known, Threads
  <2>2. ASSUME NEW s \in Sessions, Known(s)'
        PROVE  Known(s)
    BY <1>1, <1>4, <2>2, NoneAssumption DEF Known, Threads
  <2> QED
    BY <2>1, <2>2
<1>13. KnownInv'
  <2>1. \A u \in Threads : (has[u] # None => Known(has[u]))'
    <3>1. \A u \in Threads \ {c} : has'[u] # None =>
             Known(has[u]) /\ has[u] \in Sessions
      BY <1>2, <1>4, <1>8 DEF KnownInv, TypeOK
    <3> QED
      BY <1>4, <1>12, <3>1 DEF Known
  <2>2. /\ \A s \in Sessions : (s \in active \/ recv[s] \/ send[s] => Known(s))'
        /\ \A s \in early' : Known(s)'
    BY <1>1, <1>2, <1>8, <1>12 DEF KnownInv, TypeOK
  <2>3. \A d, e \in Connectors : has'[d] # None /\ has'[d] = has'[e] => d = e
    BY <1>2, <1>4 DEF KnownInv, Threads
  <2>4. \A d \in Connectors : has'[d] \notin sessions'
    <3>1. None \notin sessions'
      BY <1>11, NoneAssumption DEF TypeOK
    <3>2. \A d \in Connectors \ {c} : has'[d] \notin sessions /\ has'[d] # has[c]
      BY <1>2, <1>4, <1>5, NoneAssumption DEF KnownInv, Threads
    <3> QED
      BY <1>1, <1>4, <3>1, <3>2
  <2> QED
    BY <1>8, <2>1, <2>2, <2>3, <2>4 DEF KnownInv
<1> QED
  BY <1>3, <1>5, <1>8, <1>9, <1>10, <1>11, <1>12, <1>13 DEF LoadInv

LEMMA CompleteRecvKeeps ==
    ASSUME LoadInv, NEW w \in Workers, CompleteRecv(w)
    PROVE  /\ LoadInv' /\ ~Cleared /\ ~Cleared' /\ ~Doing(w, Claims)
           /\ ~Doing(w, Leaving)' /\ ~Doing(w, Round)'
           /\ \A s \in Sessions : Known(s)' <=> Known(s)
<1>1. /\ At(w, "poll") /\ Then(w, <<"uncount", "data">>)
      /\ w \in Threads /\ w # Main /\ w \notin Connectors
      /\ UNCHANGED <<stage, running, looping, left, rest, sessions, active,
                     isConnected, socket, send, recvPendingCnt, state,
                     connected, early>>
  BY Roles DEF CompleteRecv, process, metrics
<1>2. PICK s \in Sessions : /\ recv[s]
                            /\ recv' = [recv EXCEPT ![s] = FALSE]
                            /\ has' = [has EXCEPT ![w] = s]
  BY DEF CompleteRecv
<1>3. /\ TypeOK /\ ListInv /\ KnownInv /\ ChainInv /\ CountInv /\ EarlyInv
      /\ LeaveInv /\ ZombieInv /\ "poll" \in Labels /\ todo[w] # <<>>
  BY <1>1 DEF LoadInv, Labels, At
<1>4. /\ has'[w] = s /\ has' \in [Threads -> Sessions \cup {None}]
      /\ \A u \in Threads \ {w} : has'[u] = has[u]
      /\ recv' \in [Sessions -> BOOLEAN] /\ ~recv'[s]
      /\ \A u \in Sessions \ {s} : recv'[u] = recv[u]
  BY <1>1, <1>2, <1>3 DEF TypeOK
<1> DEFINE p == <<"uncount", "data">>
<1>5. /\ p \in Seq(Labels) /\ InOrder(p)
      /\ \A i \in 1..Len(p) : Later["poll"] \subseteq Later[p[i]]
  <2>1. /\ p \in Seq(Labels) /\ Len(p) = 2 /\ p[1] = "uncount" /\ p[2] = "data"
    BY DEF Labels
  <2> HIDE DEF p
  <2>2. InOrder(p)
    BY <2>1, LaterIs DEF InOrder
  <2>3. Later["poll"] \subseteq Later["uncount"] /\ Later["poll"] \subseteq Later["data"]
    BY LaterIs DEF Rests
  <2> QED
    BY <2>1, <2>2, <2>3
<1>6. /\ ~Has(p, Round) /\ ~Has(p, Leaving) /\ ~Has(p, {"leave", "lost", "close"})
      /\ Has(p, {"data"}) /\ Has(p, {"uncount"})
      /\ Has(p, Releasing) /\ ~Has(p, {"activate", "connected"})
  <2>1. /\ "uncount" \notin Round /\ "data" \notin Round
        /\ "uncount" \notin Leaving /\ "data" \notin Leaving
        /\ "uncount" \in Releasing
    BY DEF Round, Leaving, Releasing
  <2>2. /\ "uncount" \notin {"leave", "lost", "close"}
        /\ "data" \notin {"leave", "lost", "close"}
        /\ "uncount" \notin {"activate", "connected"}
        /\ "data" \notin {"activate", "connected"}
        /\ "data" \in {"data"} /\ "uncount" \in {"uncount"}
    OBVIOUS
  <2>3. ~Has(p, Round) /\ ~Has(p, Leaving) /\ Has(p, Releasing)
    BY <2>1, HasOf, Zenon
  <2>4. /\ ~Has(p, {"leave", "lost", "close"}) /\ Has(p, {"data"})
        /\ Has(p, {"uncount"}) /\ ~Has(p, {"activate", "connected"})
    BY <2>2, HasOf, Zenon
  <2> QED
    BY <2>3, <2>4
<1>21. Then(w, p)
  BY <1>1
<1> HIDE DEF p
<1>7. /\ todo' \in [Threads -> Seq(Labels)] /\ InOrder(todo[w])'
      /\ \A u \in Threads \ {w} : todo'[u] = todo[u]
      /\ \A S : \A u \in Threads \ {w} : Doing(u, S)' <=> Doing(u, S)
      /\ \A S \in SUBSET Labels : Doing(w, S)' <=> Has(p, S) \/ Left(w, S)
  BY <1>1, <1>3, <1>5, <1>21, ThenFacts
<1>8. /\ ~Left(w, Mine) /\ ~Left(w, Round) /\ ~Doing(w, Claims)
      /\ ~Left(w, Leaving) /\ ~Left(w, {"leave", "lost", "close"})
      /\ ~Left(w, {"activate", "connected"})
  <2>1. /\ ~Left(w, Mine) /\ ~Left(w, Round) /\ ~Left(w, Leaving)
        /\ ~Left(w, {"activate", "connected"})
        /\ \A S \in SUBSET Labels : Doing(w, S) <=> "poll" \in S \/ Left(w, S)
    BY <1>1, <1>3, LeftFacts
  <2>2. ~Left(w, Claims) /\ ~Left(w, {"leave", "lost", "close"})
    BY <2>1, InClaims DEF Left, Has
  <2>3. "poll" \notin Claims
    BY DEF Claims, Mine
  <2> QED
    BY <2>1, <2>2, <2>3, InClaims
<1>9. /\ ~Doing(w, Round)' /\ ~Doing(w, Leaving)' /\ Doing(w, {"data"})'
      /\ ~Doing(w, {"leave", "lost", "close"})' /\ Doing(w, Releasing)'
      /\ Doing(w, {"uncount"})' /\ ~Doing(w, {"activate", "connected"})'
  BY <1>6, <1>7, <1>8, SetsOfLabels
<1>10. /\ ~Doing(w, {"uncount"}) /\ ~Doing(w, {"leave"}) /\ ~Doing(w, Releasing)
       /\ ~Doing(w, Chain)
  BY <1>8, InClaims, DoingMore
<1>11. EndInv' /\ ~Cleared /\ ~Cleared'
  BY <1>1, <1>3, <1>4, <1>7, EndIdle
<1>12. TypeOK'
  BY <1>1, <1>3, <1>4, <1>7 DEF TypeOK
<1>13. ListInv'
  BY <1>1, <1>3, <1>4, <1>7, <1>9, OneList
<1>14. \A u : Known(u)' <=> Known(u)
  BY <1>1, <1>4 DEF Known, Threads
<1>15. KnownInv'
  <2>1. \A c \in Connectors : has'[c] = has[c]
    BY <1>1, <1>4 DEF Threads
  <2>2. Known(s)
    BY <1>2, <1>3, <1>11 DEF KnownInv
  <2>3. \A u \in Threads : has'[u] # None => Known(has'[u])
    BY <1>3, <1>4, <1>11, <2>2 DEF KnownInv
  <2>4. \A u \in Threads : (has[u] # None => Known(has[u]))'
    BY <1>1, <2>1, <2>3 DEF Known
  <2>5. /\ \A u \in Sessions : (u \in active \/ recv[u] \/ send[u] => Known(u))'
        /\ \A u \in early' : Known(u)'
    BY <1>1, <1>3, <1>4, <1>11, <1>14 DEF KnownInv
  <2>6. /\ \A c, d \in Connectors : has'[c] # None /\ has'[c] = has'[d] => c = d
        /\ \A c \in Connectors : has'[c] \notin sessions'
    BY <1>1, <1>3, <2>1 DEF KnownInv
  <2> QED
    BY <1>11, <2>4, <2>5, <2>6 DEF KnownInv
<1>16. ChainInv'
  <2>1. ASSUME NEW u \in Threads, u # w, Doing(u, Chain)'
        PROVE  /\ Doing(u, Chain) /\ has'[u] = has[u] /\ has[u] # s
               /\ ~recv'[has[u]]
    <3>1. Doing(u, Chain) /\ has'[u] = has[u]
      BY <1>4, <1>7, <2>1
    <3>2. ~recv[has[u]]
      BY <1>3, <3>1 DEF ChainInv
    <3>3. has[u] \in Sessions
      BY <1>3, <3>1, DoingMore, InClaims DEF ListInv
    <3> QED
      BY <1>2, <1>4, <3>1, <3>2, <3>3
  <2> QED
    BY <1>3, <1>4, <2>1 DEF ChainInv
<1>17. CountInv'
  <2> SUFFICES ASSUME NEW u \in Sessions
               PROVE  recvPendingCnt[u] # 0 <=>
                         \/ recv'[u]
                         \/ \E t \in Threads : has'[t] = u /\ Doing(t, {"uncount"})'
    BY <1>1 DEF CountInv
  <2>1. CASE u = s
    <3>1. recvPendingCnt[u] # 0
      BY <1>2, <1>3, <2>1 DEF CountInv
    <3> QED
      BY <1>1, <1>4, <1>9, <2>1, <3>1
  <2>2. CASE u # s
    <3>1. recv'[u] <=> recv[u]
      BY <1>4, <2>2
    <3>2. \A t \in Threads : has'[t] = u /\ Doing(t, {"uncount"})'
                             <=> has[t] = u /\ Doing(t, {"uncount"})
      BY <1>4, <1>7, <1>10, <2>2
    <3>3. recvPendingCnt[u] # 0 <=>
             recv[u] \/ \E t \in Threads : has[t] = u /\ Doing(t, {"uncount"})
      BY <1>3 DEF CountInv
    <3> QED
      BY <3>1, <3>2, <3>3
  <2> QED
    BY <2>1, <2>2
<1>18. EarlyInv'
  <2> SUFFICES ASSUME NEW c \in Connectors, Doing(c, {"activate", "connected"})'
               PROVE  /\ state[has'[c]] = "Disconnected"
                      /\ \/ isConnected[has'[c]] \/ has'[c] \in early
                         \/ \E u \in Threads : has'[u] = has'[c] /\ Doing(u, {"leave"})'
    BY <1>1 DEF EarlyInv
  <2>1. c # w /\ c \in Threads
    BY <1>1 DEF Threads
  <2>2. has'[c] = has[c] /\ Doing(c, {"activate", "connected"})
    BY <1>4, <1>7, <2>1
  <2>3. \A u \in Threads : Doing(u, {"leave"}) => has'[u] = has[u] /\ Doing(u, {"leave"})'
    BY <1>4, <1>7, <1>10
  <2> QED
    BY <1>3, <2>2, <2>3 DEF EarlyInv
<1>19. LeaveInv'
  BY <1>1, <1>3, <1>4, <1>7, <1>9 DEF LeaveInv
<1>20. ZombieInv'
  <2> SUFFICES ASSUME NEW u \in active
               PROVE  \/ isConnected[u] \/ u \in early \/ recv'[u]
                      \/ \E t \in Threads : has'[t] = u /\ Doing(t, Releasing)'
    BY <1>1 DEF ZombieInv, Safe
  <2>1. CASE u = s
    BY <1>1, <1>4, <1>9, <2>1
  <2>2. CASE u # s
    <3>1. \A t \in Threads :
             Doing(t, Releasing) => has'[t] = has[t] /\ Doing(t, Releasing)'
      BY <1>4, <1>7, <1>10
    <3>2. recv'[u] = recv[u]
      BY <1>3, <1>4, <2>2 DEF TypeOK
    <3> QED
      BY <1>3, <3>1, <3>2 DEF ZombieInv, Safe
  <2> QED
    BY <2>1, <2>2
<1> QED
  BY <1>8, <1>9, <1>11, <1>12, <1>13, <1>14, <1>15, <1>16, <1>17, <1>18, <1>19, <1>20
     DEF LoadInv

\* The body of a round that connects.
LEMMA RoundBody ==
    /\ ConnectedBody \in Seq(Labels) /\ InOrder(ConnectedBody)
    /\ Has(ConnectedBody, {"store"}) /\ Has(ConnectedBody, {"count"})
    /\ ~Has(ConnectedBody, {"uncount"}) /\ ~Has(ConnectedBody, Leaving)
    /\ ~Has(ConnectedBody, {"leave", "lost", "close"})
<1> DEFINE p == ConnectedBody
<1>1. /\ p \in Seq(Labels) /\ Len(p) = 7
      /\ p[1] = "check" /\ p[2] = "activate" /\ p[3] = "connected"
      /\ p[4] = "count" /\ p[5] = "login" /\ p[6] = "store" /\ p[7] = "connect"
  BY DEF ConnectedBody, Labels
<1> HIDE DEF p
<1>2. \A i \in 1..Len(p) : i = 1 \/ i = 2 \/ i = 3 \/ i = 4 \/ i = 5 \/ i = 6 \/ i = 7
  BY <1>1
<1>3. InOrder(p)
  <2> SUFFICES ASSUME NEW i \in 1..Len(p), NEW j \in 1..Len(p), i < j
               PROVE  p[j] \in Later[p[i]]
    BY DEF InOrder
  <2>1. CASE i = 1
    <3>1. p[j] \in Round
      BY <1>1, <1>2, <2>1 DEF Round
    <3> QED
      BY <1>1, <2>1, <3>1, LaterIs DEF Rests
  <2>2. CASE i = 2
    BY <1>1, <1>2, <2>2, LaterIs
  <2>3. CASE i = 3
    BY <1>1, <1>2, <2>3, LaterIs
  <2>4. CASE i = 4
    BY <1>1, <1>2, <2>4, LaterIs
  <2>5. CASE i = 5
    BY <1>1, <1>2, <2>5, LaterIs
  <2>6. CASE i = 6
    BY <1>1, <1>2, <2>6, LaterIs
  <2> QED
    BY <1>1, <1>2, <2>1, <2>2, <2>3, <2>4, <2>5, <2>6
<1>4. Has(p, {"store"}) /\ Has(p, {"count"})
  BY <1>1 DEF Has
<1>5. \A i \in 1..Len(p) : p[i] \in Round \cup {"check"}
  BY <1>1, <1>2 DEF Round
<1>6. /\ ~Has(p, {"uncount"}) /\ ~Has(p, Leaving)
      /\ ~Has(p, {"leave", "lost", "close"})
  BY <1>5 DEF Has, Round, Leaving
<1> QED
  BY <1>1, <1>3, <1>4, <1>6 DEF p

LEMMA ConnectKeeps ==
    ASSUME LoadInv, NEW c \in Connectors, Connect(c)
    PROVE  /\ LoadInv' /\ ~Cleared /\ ~Cleared' /\ c \in Threads
           /\ UNCHANGED <<connected, early>> /\ ~Doing(c, Claims)
           /\ ~Doing(c, Leaving)'
           /\ \A u \in Threads \ {c} : has'[u] = has[u] /\ todo'[u] = todo[u]
           /\ \/ /\ has' = has /\ \A t, S : Doing(t, S)' <=> Doing(t, S)
                 /\ \A u : Known(u)' <=> Known(u)
                 /\ \A u \in Sessions : Known(u) =>
                       (isConnected'[u] <=> isConnected[u])
              \/ \E s \in Sessions :
                    /\ ~Known(s) /\ s \notin early /\ has'[c] = s
                    /\ Doing(c, {"count"})' /\ isConnected'[s]
                    /\ \A t \in Threads : has[t] # s
                    /\ \A u \in Sessions : Known(u)' <=> Known(u) \/ u = s
                    /\ \A u \in Sessions \ {s} : isConnected'[u] = isConnected[u]
<1>1. /\ At(c, "connect") /\ c \in Threads /\ c # Main
      /\ left[c] > 0 /\ left' = [left EXCEPT ![c] = @ - 1]
      /\ UNCHANGED <<stage, running, looping, rest, sessions, active, recv, send,
                     recvPendingCnt, connected, early>>
  BY Roles DEF Connect
<1>2. PICK s \in Sessions :
         /\ Pooled(s)
         /\ isConnected' = [isConnected EXCEPT ![s] = TRUE]
         /\ socket' = [socket EXCEPT ![s] = TRUE]
         /\ state' = [state EXCEPT ![s] = "Disconnected"]
         /\ \/ /\ has' = [has EXCEPT ![c] = s]
               /\ Then(c, ConnectedBody)
            \/ UNCHANGED <<has, todo>>
  BY DEF Connect, Reset
<1>3. /\ TypeOK /\ ListInv /\ KnownInv /\ ChainInv /\ CountInv /\ EarlyInv
      /\ LeaveInv /\ ZombieInv /\ EndInv /\ "connect" \in Labels /\ todo[c] # <<>>
  BY <1>1 DEF LoadInv, Labels, At
<1>4. stage = "connecting" /\ stage' = "connecting" /\ ~Cleared /\ ~Cleared'
  BY <1>1, <1>3 DEF EndInv, Cleared
<1>5. /\ ~Known(s) /\ s \notin early /\ s \notin active /\ ~recv[s]
      /\ \A t \in Threads : has[t] # s
  <2>1. /\ s \notin active /\ s \notin sessions /\ ~recv[s]
        /\ \A t \in Threads : has[t] # s
    BY <1>2 DEF Pooled
  <2>2. ~Known(s)
    BY <2>1 DEF Known, Threads
  <2> QED
    BY <1>3, <1>4, <2>1, <2>2 DEF KnownInv
<1>6. /\ isConnected' \in [Sessions -> BOOLEAN] /\ isConnected'[s]
      /\ socket' \in [Sessions -> BOOLEAN]
      /\ state' \in [Sessions -> {"Disconnected", "Connected"}]
      /\ state'[s] = "Disconnected"
      /\ \A u \in Sessions \ {s} :
            isConnected'[u] = isConnected[u] /\ state'[u] = state[u]
  BY <1>2, <1>3 DEF TypeOK
<1>7. left' \in [Connectors -> 0..PerThread]
  <2>1. left[c] \in 0..PerThread /\ left[c] - 1 \in 0..PerThread
    BY <1>1, <1>3, PerThreadAssumption DEF TypeOK
  <2> QED
    BY <1>1, <1>3, <2>1 DEF TypeOK
<1>8. /\ ~Doing(c, Mine) /\ has[c] = None /\ ~Left(c, Mine)
  <2>1. /\ ~Left(c, Mine) /\ ~Left(c, {"store"})
        /\ \A S \in SUBSET Labels : Doing(c, S) <=> "connect" \in S \/ Left(c, S)
    BY <1>1, <1>3, LeftFacts
  <2>2. "connect" \notin Mine /\ "connect" \notin {"store"}
    BY DEF Mine
  <2> QED
    BY <1>3, <2>1, <2>2, SetsOfLabels DEF ListInv
<1>9. ~Doing(c, Claims)
  BY <1>8, InClaims, DoingMore
<1>10. /\ todo' \in [Threads -> Seq(Labels)] /\ InOrder(todo[c])'
       /\ has' \in [Threads -> Sessions \cup {None}]
       /\ \A u \in Threads \ {c} : has'[u] = has[u] /\ todo'[u] = todo[u]
       /\ ~Doing(c, {"uncount"})' /\ ~Doing(c, Leaving)'
       /\ ~Doing(c, {"leave", "lost", "close"})'
       /\ \/ /\ has'[c] = s /\ Doing(c, {"store"})' /\ Doing(c, {"count"})'
          \/ /\ has' = has /\ todo' = todo /\ ~Doing(c, Mine)'
  <2>1. CASE has' = has /\ todo' = todo
    <3>1. \A S : Doing(c, S)' <=> Doing(c, S)
      BY <2>1 DEF Doing
    <3>2. InOrder(todo[c])'
      BY <1>1, <1>3, <2>1 DEF ListInv, InOrder
    <3>3. /\ ~Doing(c, {"uncount"}) /\ ~Doing(c, Leaving)
          /\ ~Doing(c, {"leave", "lost", "close"})
      BY <1>9, InClaims, DoingMore
    <3> QED
      BY <1>3, <1>8, <2>1, <3>1, <3>2, <3>3 DEF TypeOK
  <2>2. CASE has' = [has EXCEPT ![c] = s] /\ Then(c, ConnectedBody)
    <3>1. \A i \in 1..Len(ConnectedBody) : Later["connect"] \subseteq Later[ConnectedBody[i]]
      BY LaterIs
    <3>2. /\ todo' \in [Threads -> Seq(Labels)] /\ InOrder(todo[c])'
          /\ \A u \in Threads \ {c} : todo'[u] = todo[u]
          /\ \A S \in SUBSET Labels :
                Doing(c, S)' <=> Has(ConnectedBody, S) \/ Left(c, S)
      BY <1>1, <1>3, <2>2, <3>1, RoundBody, ThenFacts
    <3>3. /\ ~Left(c, {"uncount"}) /\ ~Left(c, Leaving)
          /\ ~Left(c, {"leave", "lost", "close"})
      BY <1>1, <1>3, LeftFacts, Memberships DEF Leaving
    <3>4. /\ ~Doing(c, {"uncount"})' /\ ~Doing(c, Leaving)'
          /\ ~Doing(c, {"leave", "lost", "close"})'
          /\ Doing(c, {"store"})' /\ Doing(c, {"count"})'
      BY <3>2, <3>3, RoundBody, SetsOfLabels
    <3>5. /\ has'[c] = s /\ has' \in [Threads -> Sessions \cup {None}]
          /\ \A u \in Threads \ {c} : has'[u] = has[u]
      BY <1>1, <1>3, <2>2 DEF TypeOK
    <3> QED
      BY <3>2, <3>4, <3>5
  <2> QED
    BY <1>2, <2>1, <2>2
<1>11. /\ \A S : \A u \in Threads \ {c} : Doing(u, S)' <=> Doing(u, S)
       /\ \A S : \A t \in Threads : has' = has /\ todo' = todo => (Doing(t, S)' <=> Doing(t, S))
  BY <1>10 DEF Doing
<1>12. \A u \in Threads \ {c}, S \in SUBSET Claims :
          Doing(u, S)' => Doing(u, S) /\ has'[u] = has[u] /\ has[u] \in Sessions \ {s}
  BY <1>3, <1>5, <1>10, <1>11, DoingMore, InClaims DEF ListInv
<1>13. TypeOK'
  BY <1>1, <1>3, <1>6, <1>7, <1>10 DEF TypeOK
<1>14. ListInv'
  BY <1>3, <1>8, <1>10, <1>1, OneList
<1>15. EndInv'
  BY <1>1, <1>3, <1>4, <1>10, EndIdle
<1>16. \A u \in Sessions : Known(u)' <=> Known(u) \/ has'[c] = u
  BY <1>1, <1>8, <1>10, NoneAssumption DEF Known, Threads
<1>17. KnownInv'
  <2>1. \A u \in Sessions : Known(u) => Known(u)'
    BY <1>16
  <2>2. \A t \in Threads : (has[t] # None => Known(has[t]))'
    <3>1. has'[c] # None => Known(has[c])'
      BY <1>1 DEF Known
    <3>2. \A t \in Threads \ {c} : has[t] # None => Known(has[t])
      BY <1>3, <1>4 DEF KnownInv
    <3>3. \A t \in Threads \ {c} : (has[t] # None => Known(has[t]))'
      <4> SUFFICES ASSUME NEW t \in Threads \ {c}, has'[t] # None
                   PROVE  Known(has[t])'
        OBVIOUS
      <4>1. has'[t] = has[t] /\ has[t] \in Sessions /\ Known(has[t])
        BY <1>3, <1>10, <3>2 DEF TypeOK
      <4>2. \/ has[t] \in sessions
            \/ \E d \in Connectors \ {c} : has[d] = has[t]
        BY <1>8, <4>1, NoneAssumption DEF Known
      <4> QED
        BY <1>1, <1>10, <4>1, <4>2 DEF Known, Threads
    <3> QED
      BY <3>1, <3>3 DEF Known
  <2>3. /\ \A u \in Sessions : (u \in active \/ recv[u] \/ send[u] => Known(u))'
        /\ \A u \in early' : Known(u)'
    BY <1>1, <1>3, <1>4, <2>1 DEF KnownInv, TypeOK
  <2>4. \A d, e \in Connectors : has'[d] # None /\ has'[d] = has'[e] => d = e
    BY <1>3, <1>5, <1>10 DEF KnownInv, Threads
  <2>5. \A d \in Connectors : has'[d] \notin sessions'
    <3>1. s \notin sessions
      BY <1>5 DEF Known
    <3> QED
      BY <1>1, <1>3, <1>10, <3>1 DEF KnownInv, Threads
  <2> QED
    BY <1>4, <2>2, <2>3, <2>4, <2>5 DEF KnownInv
<1>18. ChainInv'
  <2>1. \A u \in Threads \ {c} : Doing(u, Chain)' =>
           Doing(u, Chain) /\ has'[u] = has[u] /\ has[u] # s
    BY <1>12, InClaims
  <2>2. Doing(c, Chain)' => has'[c] = s
    <3>1. Doing(c, Chain)' => Doing(c, Mine)'
      BY InClaims DEF Doing
    <3> QED
      BY <1>10, <3>1
  <2> QED
    BY <1>1, <1>3, <1>5, <2>1, <2>2 DEF ChainInv
<1>19. CountInv'
  <2>1. ~Doing(c, {"uncount"})
    BY <1>9, InClaims, DoingMore
  <2>2. \A u : \A t \in Threads : has'[t] = u /\ Doing(t, {"uncount"})'
                              <=> has[t] = u /\ Doing(t, {"uncount"})
    BY <1>10, <1>11, <2>1
  <2>3. recv' = recv /\ recvPendingCnt' = recvPendingCnt
    BY <1>1
  <2>4. ASSUME NEW u \in Sessions
        PROVE  recvPendingCnt'[u] # 0 <=>
                  \/ recv'[u]
                  \/ \E t \in Threads : has'[t] = u /\ Doing(t, {"uncount"})'
    <3>1. recvPendingCnt[u] # 0 <=>
             recv[u] \/ \E t \in Threads : has[t] = u /\ Doing(t, {"uncount"})
      BY <1>3 DEF CountInv
    <3> QED
      BY <2>2, <2>3, <3>1
  <2> QED
    BY <2>4 DEF CountInv
<1>20. EarlyInv'
  <2> SUFFICES ASSUME NEW d \in Connectors, Doing(d, {"activate", "connected"})'
               PROVE  /\ state'[has'[d]] = "Disconnected"
                      /\ \/ isConnected'[has'[d]] \/ has'[d] \in early
                         \/ \E u \in Threads : has'[u] = has'[d] /\ Doing(u, {"leave"})'
    BY <1>1 DEF EarlyInv
  <2>1. CASE d = c
    <3>1. Doing(c, Mine)'
      BY <2>1, InClaims DEF Doing
    <3> QED
      BY <1>6, <1>10, <2>1, <3>1
  <2>2. CASE d # c
    <3>1. d \in Threads /\ {"activate", "connected"} \in SUBSET Claims
      BY InClaims DEF Threads
    <3>2. /\ Doing(d, {"activate", "connected"})
          /\ has'[d] = has[d] /\ has[d] \in Sessions \ {s}
      BY <1>12, <2>2, <3>1
    <3>3. \A u \in Threads : Doing(u, {"leave"}) => has'[u] = has[u] /\ Doing(u, {"leave"})'
      <4>1. ~Doing(c, {"leave"})
        BY <1>9, InClaims, DoingMore
      <4> QED
        BY <1>10, <1>11, <4>1
    <3>4. /\ state[has[d]] = "Disconnected"
          /\ \/ isConnected[has[d]] \/ has[d] \in early
             \/ \E u \in Threads : has[u] = has[d] /\ Doing(u, {"leave"})
      BY <1>3, <3>2 DEF EarlyInv
    <3> QED
      BY <1>6, <3>2, <3>3, <3>4
  <2> QED
    BY <2>1, <2>2
<1>21. LeaveInv'
  <2>1. \A u \in Threads : Doing(u, Leaving)' =>
           /\ Doing(u, Leaving) /\ has'[u] = has[u] /\ has[u] \in Sessions \ {s}
           /\ isConnected'[has[u]] = isConnected[has[u]]
    BY <1>6, <1>10, <1>12, InClaims
  <2>2. \A u \in early : isConnected'[u] = isConnected[u]
    BY <1>3, <1>5, <1>6 DEF TypeOK
  <2> QED
    BY <1>1, <1>3, <2>1, <2>2 DEF LeaveInv
<1>22. ZombieInv'
  <2> SUFFICES ASSUME NEW u \in active
               PROVE  \/ isConnected'[u] \/ u \in early \/ recv[u]
                      \/ \E t \in Threads : has'[t] = u /\ Doing(t, Releasing)'
    BY <1>1 DEF ZombieInv, Safe
  <2>1. \A t \in Threads :
           Doing(t, Releasing) => has'[t] = has[t] /\ Doing(t, Releasing)'
    <3>1. ~Doing(c, Releasing)
      BY <1>9, InClaims, DoingMore
    <3> QED
      BY <1>10, <1>11, <3>1
  <2>2. isConnected'[u] = isConnected[u]
    BY <1>3, <1>5, <1>6 DEF TypeOK
  <2> QED
    BY <1>3, <2>1, <2>2 DEF ZombieInv, Safe
<1>23. LoadInv'
  BY <1>13, <1>14, <1>15, <1>17, <1>18, <1>19, <1>20, <1>21, <1>22 DEF LoadInv
<1>24. CASE has' = has /\ todo' = todo
  <2>1. \A t, S : Doing(t, S)' <=> Doing(t, S)
    BY <1>24 DEF Doing
  <2>2. \A u : Known(u)' <=> Known(u)
    BY <1>1, <1>24 DEF Known
  <2>3. \A u \in Sessions : Known(u) => (isConnected'[u] <=> isConnected[u])
    BY <1>5, <1>6
  <2> QED
    BY <1>1, <1>4, <1>9, <1>10, <1>23, <1>24, <2>1, <2>2, <2>3
<1>25. CASE has'[c] = s /\ Doing(c, {"count"})'
  BY <1>1, <1>4, <1>5, <1>6, <1>9, <1>10, <1>16, <1>23, <1>25
<1> QED
  BY <1>10, <1>24, <1>25

-----------------------------------------------------------------------------
(* The invariant                                                           *)

LEMMA LoadInit == Init => LoadInv
<1> SUFFICES ASSUME Init
             PROVE  LoadInv
  OBVIOUS
<1>1. /\ stage = "connecting" /\ running = TRUE /\ looping = {}
      /\ left = [c \in Connectors |-> PerThread]
      /\ sessions = {} /\ active = {} /\ rest = {} /\ connected = 0 /\ early = {}
      /\ isConnected = [s \in Sessions |-> FALSE]
      /\ socket = [s \in Sessions |-> FALSE]
      /\ recv = [s \in Sessions |-> FALSE]
      /\ send = [s \in Sessions |-> FALSE]
      /\ recvPendingCnt = [s \in Sessions |-> 0]
      /\ state = [s \in Sessions |-> "Disconnected"]
      /\ has = [t \in Threads |-> None]
  BY DEF Init
<1>2. \A t \in Threads :
         /\ todo[t] \in {<<"connect">>, <<"loop">>, <<>>}
         /\ todo[t] = <<"connect">> => t \in Connectors
  BY DEF Init
<1>3. todo \in [Threads -> Seq(Labels)]
  <2>1. /\ <<"connect">> \in Seq(Labels) /\ <<"loop">> \in Seq(Labels)
        /\ <<>> \in Seq(Labels)
    BY DEF Labels
  <2>2. todo = [t \in Threads |-> IF t \in Connectors THEN <<"connect">>
                                  ELSE IF t \in Workers THEN <<"loop">> ELSE <<>>]
    BY DEF Init
  <2> QED
    BY <2>1, <2>2
<1>4. TypeOK
  <2>1. \A f \in {isConnected, socket, recv, send} : f \in [Sessions -> BOOLEAN]
    BY <1>1
  <2>2. /\ stage \in Stages /\ running \in BOOLEAN /\ looping \subseteq Loops
        /\ left \in [Connectors -> 0..PerThread]
        /\ recvPendingCnt \in [Sessions -> 0..1] /\ connected \in Int
        /\ state \in [Sessions -> {"Disconnected", "Connected"}]
        /\ has \in [Threads -> Sessions \cup {None}]
    BY <1>1, PerThreadAssumption DEF Stages
  <2> QED
    BY <1>1, <1>3, <2>1, <2>2 DEF TypeOK
<1>5. \A t \in Threads : ~Doing(t, Mine)
  <2>1. \A t \in Threads : \A i \in 1..Len(todo[t]) : todo[t][i] \in {"connect", "loop"}
    BY <1>2
  <2> QED
    BY <2>1 DEF Doing, Mine
<1>6. \A t \in Threads :
         /\ ~Doing(t, Chain) /\ ~Doing(t, Leaving) /\ ~Doing(t, Releasing)
         /\ ~Doing(t, {"uncount"}) /\ ~Doing(t, {"leave"})
         /\ ~Doing(t, {"activate", "connected"})
         /\ ~Doing(t, {"leave", "lost", "close"})
  BY <1>5, InClaims, DoingMore
<1>7. ListInv
  <2>1. \A t \in Threads : InOrder(todo[t])
    BY <1>2 DEF InOrder
  <2>2. \A t \in Threads : Doing(t, Round) => t \in Connectors
    <3> SUFFICES ASSUME NEW t \in Threads, Doing(t, Round)
                 PROVE  t \in Connectors
      OBVIOUS
    <3>1. PICK i \in 1..Len(todo[t]) : todo[t][i] \in Round
      BY DEF Doing
    <3>2. todo[t] # <<>>
      BY <3>1
    <3>3. todo[t] # <<"loop">>
      BY <3>1 DEF Round
    <3> QED
      BY <1>2, <3>2, <3>3
  <2>3. \A c \in Connectors : has[c] = None
    BY <1>1 DEF Threads
  <2> QED
    BY <1>5, <1>6, <2>1, <2>2, <2>3 DEF ListInv, Threads
<1>8. KnownInv
  BY <1>1, NoneAssumption DEF KnownInv, Threads
<1>9. ChainInv /\ CountInv /\ EarlyInv /\ LeaveInv /\ ZombieInv
  BY <1>1, <1>6 DEF ChainInv, CountInv, EarlyInv, LeaveInv, ZombieInv, Threads
<1>10. EndInv
  <2>1. todo[Main] = <<>>
    BY RolesAssumption DEF Init, Threads
  <2> QED
    BY <1>1, <2>1 DEF EndInv, Cleared
<1> QED
  BY <1>4, <1>7, <1>8, <1>9, <1>10 DEF LoadInv

\* The steps: those of a turn, and those of the threads around it.
LEMMA LoadInductive ==
    ASSUME LoadInv, [Next]_vars
    PROVE  LoadInv'
<1>1. ASSUME NEW c \in Connectors, ConnectRange(c)
      PROVE  LoadInv'
  BY <1>1, ConnectKeeps, ConnectDoneKeeps, ActivateKeeps, OnConnectedKeeps,
     CountConnectedKeeps, SendLoginKeeps, RegisterSendKeeps, StoreKeeps
     DEF ConnectRange
<1>2. ASSUME NEW w \in Workers, WorkerStep(w)
      PROVE  LoadInv'
  <2>1. w \in Threads
    BY DEF Threads
  <2> QED
    BY <1>2, <2>1, LoopKeeps, TimeoutKeeps, CompleteRecvKeeps, CompleteSendKeeps,
       UncountKeeps, DataKeeps, RearmKeeps DEF WorkerStep
<1>3. ASSUME NEW t \in Threads, SessionStep(t)
      PROVE  LoadInv'
  BY <1>3, CheckKeeps, PostKeeps, DisconnectKeeps, LeaveKeeps, CountLostKeeps,
     CloseKeeps, TryReleaseKeeps DEF SessionStep
<1>4. CASE UNCHANGED vars \/ \E l \in Loops : LoopReturns(l)
  BY <1>4, LoopReturnsKeeps
<1>5. CASE Started \/ End
  BY <1>5, StartedKeeps, EndKeeps
<1>6. CASE EndStep
  BY <1>6, JoinLoopsKeeps, DisconnectNextKeeps, DisconnectDoneKeeps,
     JoinWorkersKeeps, ClearSessionsKeeps, DropManagerKeeps DEF EndStep
<1> QED
  BY <1>1, <1>2, <1>3, <1>4, <1>5, <1>6 DEF Next

\* The lists of the threads, the chains of the recvs, the calls of
\* OnDisconnected and the stages of End fit together in every reachable state.
THEOREM LoadAlways == Spec => []LoadInv
<1>1. Init => LoadInv
  BY LoadInit
<1>2. LoadInv /\ [Next]_vars => LoadInv'
  BY LoadInductive
<1> QED
  BY <1>1, <1>2, PTL DEF Spec

\* A session in activeSessions that is disconnected is on its way out: its recv
\* has not completed, or a thread will call TryRelease for it, unless it was
\* lost before its OnConnected.  No worker drops a session on the floor.
THEOREM NoZombieHolds == Spec => []NoZombie
<1>1. LoadInv => NoZombie
  BY DEF LoadInv, ZombieInv, Safe, NoZombie
<1> QED
  BY <1>1, LoadAlways, PTL

\* Once End has destroyed the pool, no shared_ptr to a session is dropped or
\* made: the threads have all returned.
THEOREM PoolOutlivesHolds == Spec => PoolOutlives
<1>1. ASSUME LoadInv, [Next]_vars, stage = "ended", NEW s \in Sessions
      PROVE  Pooled(s)' = Pooled(s)
  <2>1. \A t \in Threads : todo[t] = <<>>
    BY <1>1 DEF LoadInv, EndInv
  <2>2. ~\E c \in Connectors : ConnectRange(c)
    BY <2>1 DEF ConnectRange, Connect, ConnectDone, Activate, OnConnected,
                CountConnected, SendLogin, RegisterSend, Store, At, Threads
  <2>3. ~\E w \in Workers : WorkerStep(w)
    BY <2>1 DEF WorkerStep, Loop, Timeout, CompleteRecv, CompleteSend, Uncount,
                Data, Rearm, At, Threads
  <2>4. ~\E t \in Threads : SessionStep(t)
    BY <2>1 DEF SessionStep, Check, Post, Disconnect, Leave, CountLost, Close,
                TryRelease, At
  <2>5. ~(Started \/ End \/ EndStep)
    BY <1>1 DEF Started, End, EndStep, JoinLoops, DisconnectNext, DisconnectDone,
                JoinWorkers, ClearSessions, DropManager, Moves
  <2>6. UNCHANGED <<sessions, active, recv, send, has>>
    BY <1>1, <2>2, <2>3, <2>4, <2>5 DEF Next, LoopReturns, vars, net
  <2> QED
    BY <2>6 DEF Pooled
<1>2. LoadInv /\ [Next]_vars =>
         [stage = "ended" => \A s \in Sessions : Pooled(s)' = Pooled(s)]_vars
  BY <1>1
<1> QED
  BY <1>2, LoadAlways, PTL DEF Spec, PoolOutlives

-----------------------------------------------------------------------------
(* The metrics                                                             *)

LEMMA MetricsInit == Init => MetricsInv
<1> SUFFICES ASSUME Init
             PROVE  MetricsInv
  OBVIOUS
<1>1. ~Cleared /\ connected = 0 /\ sessions = {}
  BY DEF Init, Cleared
<1>2. \A c \in Connectors : has[c] = None
  BY DEF Init, Threads
<1>3. {s \in Sessions : Known(s)} = {} /\ Unlost = {} /\ Owed = {}
  BY <1>1, <1>2, NoneAssumption DEF Known, Unlost, Owed, Owes
<1> QED
  BY <1>1, <1>3, FS_EmptySet DEF MetricsInv

\* What is counted and what is owed stay the same.
LEMMA MetricsKept ==
    ASSUME MetricsInv, ~Cleared, ~Cleared', connected' = connected,
           \A s \in Sessions : /\ Known(s)' <=> Known(s)
                               /\ Known(s) => (Counts(s)' <=> Counts(s))
                               /\ Owes(s)' <=> Owes(s)
    PROVE  MetricsInv'
<1>1. Unlost' = Unlost
  BY DEF Unlost
<1>2. Owed' = Owed
  BY DEF Owed
<1>3. {s \in Sessions : Known(s)}' = {s \in Sessions : Known(s)}
  OBVIOUS
<1> QED
  BY <1>1, <1>2, <1>3 DEF MetricsInv

\* A thread that has something to do.
LEMMA Busy ==
    ASSUME LoadInv, NEW t \in Threads, NEW label, At(t, label)
    PROVE  ~Cleared
<1>1. todo[t] # <<>>
  BY DEF At
<1> QED
  BY <1>1 DEF LoadInv, EndInv, Cleared

\* A turn that does not settle what its connect thread owes.
LEMMA TurnOwes ==
    ASSUME LoadInv, NEW t \in Threads, NEW label \in Labels \ {"count"}, NEW body,
           Turn(t, label, body)
    PROVE  /\ ~Cleared /\ ~Cleared'
           /\ \A s : Owes(s)' <=> Owes(s)
           /\ \A s : Known(s)' <=> Known(s)
<1>1. TypeOK /\ ListInv /\ At(t, label) /\ ~Has(body, Round)
      /\ UNCHANGED <<stage, sessions, has>>
  BY DEF LoadInv, Turn, Body
<1>2. ~Has(body, {"count"}) /\ label \notin {"count"}
  BY <1>1 DEF Has, Round
<1>3. \A u \in Threads : Doing(u, {"count"})' <=> Doing(u, {"count"})
  BY <1>1, <1>2, TurnFacts, SetsOfLabels
<1>4. ~Cleared /\ ~Cleared'
  BY <1>1, Busy DEF Cleared
<1> QED
  BY <1>1, <1>3, <1>4 DEF Owes, Known, Threads

\* A turn that has nothing to do with the metrics.
LEMMA TurnMetrics ==
    ASSUME LoadInv, MetricsInv, NEW t \in Threads,
           NEW label \in Labels \ {"count", "leave", "lost"}, NEW body,
           Turn(t, label, body), ~Has(body, Leaving),
           UNCHANGED <<isConnected, early, connected>>
    PROVE  MetricsInv'
<1>1. TypeOK /\ ListInv /\ has' = has /\ label \notin Leaving
  BY DEF LoadInv, Turn, Leaving
<1>2. \A u \in Threads : Doing(u, Leaving)' <=> Doing(u, Leaving)
  BY <1>1, TurnFacts, SetsOfLabels
<1>3. \A s : Counts(s)' <=> Counts(s)
  BY <1>1, <1>2 DEF Counts
<1> QED
  BY <1>3, TurnOwes, MetricsKept

LEMMA FiniteMetrics ==
    ASSUME IsFiniteSet({s \in Sessions : Known(s)})
    PROVE  IsFiniteSet(Unlost) /\ IsFiniteSet(Owed)
<1>1. Unlost \subseteq {s \in Sessions : Known(s)}
  BY DEF Unlost
<1>2. Owed \subseteq {s \in Sessions : Known(s)}
  BY DEF Owed, Owes, Known
<1> QED
  BY <1>1, <1>2, FS_Subset

LEMMA CountConnectedMetrics ==
    ASSUME LoadInv, MetricsInv, NEW c \in Connectors, CountConnected(c)
    PROVE  MetricsInv'
<1>1. /\ TypeOK /\ ListInv /\ KnownInv /\ c \in Threads /\ "count" \in Labels
      /\ At(c, "count") /\ connected' = connected + 1 /\ connected \in Int
      /\ UNCHANGED <<stage, sessions, isConnected, early, has>>
  BY DEF LoadInv, TypeOK, Threads, Labels, CountConnected, process, net
<1>2. Turn(c, "count", <<>>)
  BY CountConnectedKeeps
<1>3. /\ \A S : \A u \in Threads \ {c} : Doing(u, S)' <=> Doing(u, S)
      /\ Doing(c, {"count"}) /\ ~Doing(c, {"count"})'
      /\ Doing(c, Leaving)' <=> Doing(c, Leaving)
      /\ has[c] \in Sessions /\ has[c] # None
  <2>1. ~Left(c, {"count"})
    BY <1>1, LeftFacts
  <2>2. ~Has(<<>>, {"count"}) /\ ~Has(<<>>, Leaving) /\ "count" \notin Leaving
    BY HasOf DEF Leaving
  <2> QED
    BY <1>1, <1>2, <2>1, <2>2, TurnFacts, SetsOfLabels, NoneAssumption
<1>4. Unlost' = Unlost /\ {s \in Sessions : Known(s)}' = {s \in Sessions : Known(s)}
  <2>1. \A s : (Known(s)' <=> Known(s)) /\ (Counts(s)' <=> Counts(s))
    BY <1>1, <1>3 DEF Known, Counts
  <2> QED
    BY <2>1 DEF Unlost
<1>5. has[c] \in Owed /\ Owed' = Owed \ {has[c]}
  <2>1. Owes(has[c])
    BY <1>3 DEF Owes
  <2>2. \A s : Owes(s)' <=> Owes(s) /\ s # has[c]
    BY <1>1, <1>3 DEF Owes, KnownInv, Threads
  <2> QED
    BY <1>3, <2>1, <2>2 DEF Owed
<1>6. ~Cleared /\ ~Cleared'
  BY <1>1, Busy DEF Cleared
<1>7. IsFiniteSet({s \in Sessions : Known(s)}) /\ IsFiniteSet(Unlost) /\ IsFiniteSet(Owed)
  BY <1>6, FiniteMetrics DEF MetricsInv
<1>8. Cardinality(Owed') = Cardinality(Owed) - 1
  BY <1>5, <1>7, FS_RemoveElement
<1>9. Cardinality(Owed) \in Nat /\ Cardinality(Unlost) \in Nat
  BY <1>7, FS_CardinalityType
<1> QED
  BY <1>1, <1>4, <1>6, <1>7, <1>8, <1>9 DEF MetricsInv

LEMMA CountLostMetrics ==
    ASSUME LoadInv, MetricsInv, NEW t \in Threads, CountLost(t)
    PROVE  MetricsInv'
<1>1. /\ TypeOK /\ ListInv /\ KnownInv /\ LeaveInv /\ "lost" \in Labels
      /\ At(t, "lost") /\ connected' = connected - 1 /\ connected \in Int
      /\ UNCHANGED <<stage, sessions, isConnected, early, has>>
  BY DEF LoadInv, TypeOK, Labels, CountLost, process, net
<1>2. Turn(t, "lost", <<>>)
  BY CountLostKeeps
<1>3. /\ \A S : \A u \in Threads \ {t} : Doing(u, S)' <=> Doing(u, S)
      /\ Doing(t, Leaving) /\ ~Doing(t, Leaving)'
      /\ has[t] \in Sessions /\ has[t] # None
  <2>1. ~Left(t, Leaving)
    BY <1>1, LeftFacts
  <2> QED
    BY <1>1, <1>2, <2>1, RecvHas, Memberships, TurnFacts, SetsOfLabels, NoneAssumption
<1>4. /\ ~Cleared /\ ~Cleared' /\ \A s : Owes(s)' <=> Owes(s)
      /\ \A s : Known(s)' <=> Known(s)
  BY <1>1, <1>2, TurnOwes
<1>5. Owed' = Owed /\ {s \in Sessions : Known(s)}' = {s \in Sessions : Known(s)}
  BY <1>4 DEF Owed
<1>6. has[t] \in Unlost /\ Unlost' = Unlost \ {has[t]}
  <2>1. Counts(has[t]) /\ Known(has[t])
    BY <1>1, <1>3, <1>4 DEF Counts, KnownInv
  <2>2. ~isConnected[has[t]] /\ has[t] \notin early
    BY <1>1, <1>3 DEF LeaveInv
  <2>3. \A u \in Threads \ {t} : has[u] = has[t] => ~Doing(u, Leaving)
    BY <1>1, <1>3 DEF LeaveInv
  <2>5. \A s : s # has[t] => (Counts(s)' <=> Counts(s))
    BY <1>1, <1>3 DEF Counts
  <2>6. \A s : Counts(s)' <=> Counts(s) /\ s # has[t]
    <3> SUFFICES ASSUME NEW s
                 PROVE  Counts(s)' <=> Counts(s) /\ s # has[t]
      OBVIOUS
    <3>1. CASE s # has[t]
      BY <2>5, <3>1
    <3>2. CASE s = has[t]
      BY <1>1, <1>3, <2>2, <2>3, <3>2 DEF Counts
    <3> QED
      BY <3>1, <3>2
  <2> QED
    BY <1>3, <1>4, <2>1, <2>6 DEF Unlost
<1>7. IsFiniteSet({s \in Sessions : Known(s)}) /\ IsFiniteSet(Unlost) /\ IsFiniteSet(Owed)
  BY <1>4, FiniteMetrics DEF MetricsInv
<1>8. Cardinality(Unlost') = Cardinality(Unlost) - 1
  BY <1>6, <1>7, FS_RemoveElement
<1>9. Cardinality(Owed) \in Nat /\ Cardinality(Unlost) \in Nat
  BY <1>7, FS_CardinalityType
<1> QED
  BY <1>1, <1>4, <1>5, <1>7, <1>8, <1>9 DEF MetricsInv

LEMMA DisconnectMetrics ==
    ASSUME LoadInv, MetricsInv, NEW t \in Threads, Disconnect(t)
    PROVE  MetricsInv'
<1>1. /\ TypeOK /\ ListInv /\ "disconnect" \in Labels /\ At(t, "disconnect")
      /\ isConnected' = [isConnected EXCEPT ![has[t]] = FALSE]
      /\ UNCHANGED <<connected, early, has>>
  BY DEF LoadInv, Labels, Disconnect, process, metrics
<1>2. PICK body : Turn(t, "disconnect", body)
  BY DisconnectKeeps
<1>3. /\ \A S : \A u \in Threads \ {t} : Doing(u, S)' <=> Doing(u, S)
      /\ ~Doing(t, Leaving) /\ has[t] \in Sessions
      /\ isConnected[has[t]] <=> Doing(t, Leaving)'
  <2>1. ~Left(t, Leaving) /\ "disconnect" \notin Leaving
    BY <1>1, LeftFacts, Memberships
  <2>2. isConnected[has[t]] <=> Doing(t, Leaving)'
    BY DisconnectKeeps
  <2> QED
    BY <1>1, <1>2, <2>1, <2>2, TurnFacts, SetsOfLabels
<1>4. /\ ~isConnected'[has[t]]
      /\ \A s \in Sessions \ {has[t]} : isConnected'[s] = isConnected[s]
  BY <1>1, <1>3 DEF TypeOK
<1>5. \A s \in Sessions : Counts(s)' <=> Counts(s)
  <2> SUFFICES ASSUME NEW s \in Sessions
               PROVE  Counts(s)' <=> Counts(s)
    OBVIOUS
  <2>1. CASE s # has[t]
    BY <1>1, <1>3, <1>4, <2>1 DEF Counts
  <2>2. CASE s = has[t]
    BY <1>1, <1>3, <1>4, <2>2 DEF Counts
  <2> QED
    BY <2>1, <2>2
<1> QED
  BY <1>1, <1>2, <1>5, TurnOwes, MetricsKept

LEMMA LeaveMetrics ==
    ASSUME LoadInv, MetricsInv, NEW t \in Threads, Leave(t)
    PROVE  MetricsInv'
<1>1. /\ TypeOK /\ ListInv /\ "leave" \in Labels /\ At(t, "leave")
      /\ early \subseteq early' /\ early' \subseteq early \cup {has[t]}
      /\ UNCHANGED <<connected, isConnected, has>>
  BY DEF LoadInv, Labels, Leave, process, net
<1>2. PICK body : Turn(t, "leave", body)
  BY LeaveKeeps
<1>3. /\ \A S : \A u \in Threads \ {t} : Doing(u, S)' <=> Doing(u, S)
      /\ Doing(t, Leaving)
      /\ has[t] \in early' \/ Doing(t, Leaving)'
  <2>1. has[t] \in early' \/ Doing(t, Leaving)'
    BY LeaveKeeps
  <2> QED
    BY <1>1, <1>2, <2>1, Memberships, TurnFacts, SetsOfLabels
<1>4. \A s \in Sessions : Counts(s)' <=> Counts(s)
  <2> SUFFICES ASSUME NEW s \in Sessions
               PROVE  Counts(s)' <=> Counts(s)
    OBVIOUS
  <2>1. CASE s # has[t]
    BY <1>1, <1>3, <2>1 DEF Counts
  <2>2. CASE s = has[t]
    BY <1>1, <1>3, <2>2 DEF Counts
  <2> QED
    BY <2>1, <2>2
<1> QED
  BY <1>1, <1>2, <1>4, TurnOwes, MetricsKept

\* A thread without claims.
LEMMA IdleMetrics ==
    ASSUME MetricsInv, NEW t \in Threads, ~Doing(t, Claims),
           ~Doing(t, Leaving)', ~Doing(t, {"count"})', ~Cleared, ~Cleared',
           \A u \in Threads \ {t} : has'[u] = has[u] /\ todo'[u] = todo[u],
           \A s \in Sessions : Known(s)' <=> Known(s),
           UNCHANGED <<isConnected, early, connected>>
    PROVE  MetricsInv'
<1>1. \A S : \A u \in Threads \ {t} : Doing(u, S)' <=> Doing(u, S)
  BY DEF Doing
<1>2. ~Doing(t, Leaving) /\ ~Doing(t, {"count"})
  <2>1. {"count"} \subseteq Claims
    BY DEF Claims, Mine, Labels
  <2> QED
    BY <2>1, InClaims, DoingMore
<1>3. \A s : Counts(s)' <=> Counts(s)
  BY <1>1, <1>2 DEF Counts
<1>4. \A s : Owes(s)' <=> Owes(s)
  BY <1>1, <1>2 DEF Owes, Threads
<1> QED
  BY <1>3, <1>4, MetricsKept

LEMMA ConnectMetrics ==
    ASSUME LoadInv, MetricsInv, NEW c \in Connectors, Connect(c)
    PROVE  MetricsInv'
<1>1. /\ ~Cleared /\ ~Cleared' /\ c \in Threads
      /\ UNCHANGED <<connected, early>> /\ ~Doing(c, Claims)
      /\ ~Doing(c, Leaving)'
      /\ \A u \in Threads \ {c} : has'[u] = has[u] /\ todo'[u] = todo[u]
  BY ConnectKeeps
<1>2. ~Doing(c, Leaving) /\ ~Doing(c, {"count"})
  <2>1. {"count"} \subseteq Claims
    BY DEF Claims, Mine, Labels
  <2> QED
    BY <1>1, <2>1, InClaims, DoingMore
<1>3. \A S : \A u \in Threads \ {c} : Doing(u, S)' <=> Doing(u, S)
  BY <1>1 DEF Doing
<1>4. CASE /\ has' = has /\ \A t, S : Doing(t, S)' <=> Doing(t, S)
           /\ \A u : Known(u)' <=> Known(u)
           /\ \A u \in Sessions : Known(u) => (isConnected'[u] <=> isConnected[u])
  <2>1. \A s \in Sessions : Known(s) => (Counts(s)' <=> Counts(s))
    BY <1>1, <1>4 DEF Counts
  <2>2. \A s : Owes(s)' <=> Owes(s)
    BY <1>4 DEF Owes
  <2> QED
    BY <1>1, <1>4, <2>1, <2>2, MetricsKept
<1>5. CASE \E s \in Sessions :
              /\ ~Known(s) /\ s \notin early /\ has'[c] = s
              /\ Doing(c, {"count"})' /\ isConnected'[s]
              /\ \A t \in Threads : has[t] # s
              /\ \A u \in Sessions : Known(u)' <=> Known(u) \/ u = s
              /\ \A u \in Sessions \ {s} : isConnected'[u] = isConnected[u]
  <2>1. PICK s \in Sessions :
              /\ ~Known(s) /\ s \notin early /\ has'[c] = s
              /\ Doing(c, {"count"})' /\ isConnected'[s]
              /\ \A t \in Threads : has[t] # s
              /\ \A u \in Sessions : Known(u)' <=> Known(u) \/ u = s
              /\ \A u \in Sessions \ {s} : isConnected'[u] = isConnected[u]
    BY <1>5
  <2>2. Unlost' = Unlost \cup {s} /\ s \notin Unlost
    <3>1. \A u \in Sessions \ {s} : Counts(u)' <=> Counts(u)
      BY <1>1, <1>2, <1>3, <2>1 DEF Counts
    <3>2. Counts(s)'
      BY <2>1 DEF Counts
    <3> QED
      BY <2>1, <3>1, <3>2 DEF Unlost
  <2>3. Owed' = Owed \cup {s} /\ s \notin Owed
    <3>1. \A u : Owes(u)' <=> Owes(u) \/ u = s
      BY <1>1, <1>2, <1>3, <2>1 DEF Owes, Threads
    <3>2. ~Owes(s)
      BY <2>1 DEF Owes, Threads
    <3> QED
      BY <2>1, <3>1, <3>2 DEF Owed
  <2>4. {u \in Sessions : Known(u)}' = {u \in Sessions : Known(u)} \cup {s}
    BY <2>1
  <2>5. /\ IsFiniteSet({u \in Sessions : Known(u)}) /\ IsFiniteSet(Unlost)
        /\ IsFiniteSet(Owed)
    BY <1>1, FiniteMetrics DEF MetricsInv
  <2>6. /\ IsFiniteSet({u \in Sessions : Known(u)} \cup {s})
        /\ Cardinality(Unlost \cup {s}) = Cardinality(Unlost) + 1
        /\ Cardinality(Owed \cup {s}) = Cardinality(Owed) + 1
    BY <2>2, <2>3, <2>5, FS_AddElement
  <2>7. Cardinality(Owed) \in Nat /\ Cardinality(Unlost) \in Nat
    BY <2>5, FS_CardinalityType
  <2>8. connected' = Cardinality(Unlost') - Cardinality(Owed')
    BY <1>1, <2>2, <2>3, <2>6, <2>7 DEF MetricsInv
  <2> QED
    BY <1>1, <2>4, <2>6, <2>8 DEF MetricsInv
<1> QED
  BY <1>4, <1>5, ConnectKeeps

LEMMA NotMine ==
    /\ \A t : ~Doing(t, Mine) => ~Doing(t, Claims)
    /\ \A t : ~Doing(t, Mine)' => ~Doing(t, Leaving)' /\ ~Doing(t, {"count"})'
<1>1. Claims \subseteq Mine /\ Leaving \subseteq Mine /\ {"count"} \subseteq Mine
  BY DEF Claims, Leaving, Mine, Labels
<1> QED
  BY <1>1 DEF Doing

LEMMA ConnectRangeMetrics ==
    ASSUME LoadInv, MetricsInv, NEW c \in Connectors, ConnectRange(c)
    PROVE  MetricsInv'
<1>1. c \in Threads
  BY DEF Threads
<1>2. CASE ConnectDone(c)
  <2>1. /\ ~Cleared /\ ~Cleared' /\ ~Doing(c, Mine) /\ ~Doing(c, Mine)'
        /\ \A s \in Sessions : Known(s)' <=> Known(s)
    BY <1>2, ConnectDoneKeeps
  <2>2. \A u \in Threads \ {c} : has'[u] = has[u] /\ todo'[u] = todo[u]
    BY <1>1, <1>2 DEF ConnectDone, Then, LoadInv, TypeOK
  <2>3. ~Doing(c, Claims) /\ ~Doing(c, Leaving)' /\ ~Doing(c, {"count"})'
    BY <2>1, NotMine
  <2>4. UNCHANGED <<isConnected, early, connected>>
    BY <1>2 DEF ConnectDone, net, metrics
  <2> QED
    BY <1>1, <2>1, <2>2, <2>3, <2>4, IdleMetrics
<1>3. CASE Activate(c)
  <2>1. Turn(c, "activate", <<>>) /\ UNCHANGED <<isConnected, early, connected>>
    BY <1>3, ActivateKeeps DEF Activate, net, metrics
  <2> QED
    BY <1>1, <2>1, RecvHas, TurnMetrics DEF Labels
<1>4. CASE OnConnected(c)
  <2>1. Turn(c, "connected", <<>>) /\ UNCHANGED <<isConnected, early, connected>>
    BY <1>4, OnConnectedKeeps DEF OnConnected, net
  <2> QED
    BY <1>1, <2>1, RecvHas, TurnMetrics DEF Labels
<1>5. CASE SendLogin(c)
  <2>1. PICK body : Turn(c, "login", body) /\ ~Has(body, Leaving)
    BY <1>5, SendLoginKeeps
  <2>2. UNCHANGED <<isConnected, early, connected>>
    BY <1>5 DEF SendLogin, net, metrics
  <2> QED
    BY <1>1, <2>1, <2>2, TurnMetrics DEF Labels
<1>6. CASE RegisterSend(c)
  <2>1. PICK body : Turn(c, "send", body) /\ ~Has(body, Leaving)
    BY <1>6, RegisterSendKeeps
  <2>2. UNCHANGED <<isConnected, early, connected>>
    BY <1>6 DEF RegisterSend, metrics
  <2> QED
    BY <1>1, <2>1, <2>2, TurnMetrics DEF Labels
<1>7. CASE Store(c)
  <2>1. /\ ~Cleared /\ ~Cleared' /\ ~Doing(c, Claims) /\ ~Doing(c, Mine)'
        /\ \A s \in Sessions : Known(s)' <=> Known(s)
    BY <1>7, StoreKeeps
  <2>2. \A u \in Threads \ {c} : has'[u] = has[u] /\ todo'[u] = todo[u]
    BY <1>1, <1>7 DEF Store, Then, LoadInv, TypeOK
  <2>3. ~Doing(c, Leaving)' /\ ~Doing(c, {"count"})'
    BY <2>1, NotMine
  <2>4. UNCHANGED <<isConnected, early, connected>>
    BY <1>7 DEF Store, net, metrics
  <2> QED
    BY <1>1, <2>1, <2>2, <2>3, <2>4, IdleMetrics
<1> QED
  BY <1>2, <1>3, <1>4, <1>5, <1>6, <1>7, ConnectMetrics, CountConnectedMetrics
     DEF ConnectRange

LEMMA WorkerMetrics ==
    ASSUME LoadInv, MetricsInv, NEW w \in Workers, WorkerStep(w)
    PROVE  MetricsInv'
<1>1. w \in Threads
  BY DEF Threads
<1>2. CASE Loop(w) \/ Timeout(w) \/ CompleteSend(w)
  <2>1. /\ ~Cleared /\ ~Cleared' /\ ~Doing(w, Mine) /\ ~Doing(w, Mine)'
        /\ \A s \in Sessions : Known(s)' <=> Known(s)
    BY <1>2, LoopKeeps, TimeoutKeeps, CompleteSendKeeps
  <2>2. \A u \in Threads \ {w} : has'[u] = has[u] /\ todo'[u] = todo[u]
    BY <1>1, <1>2 DEF Loop, Timeout, CompleteSend, Then, LoadInv, TypeOK
  <2>3. ~Doing(w, Claims) /\ ~Doing(w, Leaving)' /\ ~Doing(w, {"count"})'
    BY <2>1, NotMine
  <2>4. UNCHANGED <<isConnected, early, connected>>
    BY <1>2 DEF Loop, Timeout, CompleteSend, net, metrics
  <2> QED
    BY <1>1, <2>1, <2>2, <2>3, <2>4, IdleMetrics
<1>3. CASE CompleteRecv(w)
  <2>1. /\ ~Cleared /\ ~Cleared' /\ ~Doing(w, Claims) /\ ~Doing(w, Leaving)'
        /\ ~Doing(w, Round)' /\ \A s \in Sessions : Known(s)' <=> Known(s)
    BY <1>3, CompleteRecvKeeps
  <2>2. \A u \in Threads \ {w} : has'[u] = has[u] /\ todo'[u] = todo[u]
    BY <1>1, <1>3 DEF CompleteRecv, Then, LoadInv, TypeOK
  <2>3. UNCHANGED <<isConnected, early, connected>>
    BY <1>3 DEF CompleteRecv, metrics
  <2>4. ~Doing(w, {"count"})'
    BY <2>1 DEF Doing, Round
  <2> QED
    BY <1>1, <2>1, <2>2, <2>3, <2>4, IdleMetrics
<1>4. CASE Uncount(w)
  <2>1. Turn(w, "uncount", <<>>) /\ UNCHANGED <<isConnected, early, connected>>
    BY <1>1, <1>4, UncountKeeps DEF Uncount, metrics
  <2> QED
    BY <1>1, <2>1, RecvHas, TurnMetrics DEF Labels
<1>5. CASE Data(w)
  <2>1. PICK body : Turn(w, "data", body) /\ ~Has(body, Leaving)
    BY <1>1, <1>5, DataKeeps
  <2>2. UNCHANGED <<isConnected, early, connected>>
    BY <1>5 DEF Data, net, metrics
  <2> QED
    BY <1>1, <2>1, <2>2, TurnMetrics DEF Labels
<1>6. CASE Rearm(w)
  <2>1. PICK body : Turn(w, "rearm", body) /\ ~Has(body, Leaving)
    BY <1>1, <1>6, RearmKeeps
  <2>2. UNCHANGED <<isConnected, early, connected>>
    BY <1>6 DEF Rearm, net, metrics
  <2> QED
    BY <1>1, <2>1, <2>2, TurnMetrics DEF Labels
<1> QED
  BY <1>2, <1>3, <1>4, <1>5, <1>6 DEF WorkerStep

LEMMA SessionMetrics ==
    ASSUME LoadInv, MetricsInv, NEW t \in Threads, SessionStep(t)
    PROVE  MetricsInv'
<1>1. CASE Check(t)
  <2>1. PICK body : Turn(t, "check", body) /\ ~Has(body, Leaving)
    BY <1>1, CheckKeeps
  <2>2. UNCHANGED <<isConnected, early, connected>>
    BY <1>1 DEF Check, net, metrics
  <2> QED
    BY <2>1, <2>2, TurnMetrics DEF Labels
<1>2. CASE Post(t)
  <2>1. PICK body : Turn(t, "post", body) /\ ~Has(body, Leaving)
    BY <1>2, PostKeeps
  <2>2. UNCHANGED <<isConnected, early, connected>>
    BY <1>2 DEF Post, metrics
  <2> QED
    BY <2>1, <2>2, TurnMetrics DEF Labels
<1>3. CASE Close(t)
  <2>1. Turn(t, "close", <<>>) /\ UNCHANGED <<isConnected, early, connected>>
    BY <1>3, CloseKeeps DEF Close, metrics
  <2> QED
    BY <2>1, RecvHas, TurnMetrics DEF Labels
<1>4. CASE TryRelease(t)
  <2>1. Turn(t, "release", <<>>) /\ UNCHANGED <<isConnected, early, connected>>
    BY <1>4, TryReleaseKeeps DEF TryRelease, net, metrics
  <2> QED
    BY <2>1, RecvHas, TurnMetrics DEF Labels
<1> QED
  BY <1>1, <1>2, <1>3, <1>4, DisconnectMetrics, LeaveMetrics, CountLostMetrics
     DEF SessionStep

\* The steps of the main thread, of the loops, and none.
LEMMA MainMetrics ==
    ASSUME LoadInv, MetricsInv,
           \/ UNCHANGED vars \/ \E l \in Loops : LoopReturns(l)
           \/ Started \/ End \/ JoinLoops \/ JoinWorkers
    PROVE  MetricsInv'
<1>1. Cleared' <=> Cleared
  BY LoopReturnsKeeps, StartedKeeps, EndKeeps, JoinLoopsKeeps, JoinWorkersKeeps
<1>2. UNCHANGED <<sessions, isConnected, early, connected, todo, has>>
  BY DEF vars, net, metrics, LoopReturns, Started, End, JoinLoops, JoinWorkers
<1>3. /\ \A s : Known(s)' <=> Known(s)
      /\ \A s : Counts(s)' <=> Counts(s)
      /\ \A s : Owes(s)' <=> Owes(s)
  BY <1>2 DEF Known, Counts, Owes, Doing
<1>4. CASE ~Cleared
  BY <1>1, <1>2, <1>3, <1>4, MetricsKept
<1>5. CASE Cleared
  BY <1>1, <1>2, <1>5 DEF MetricsInv
<1> QED
  BY <1>4, <1>5

LEMMA EndMetrics ==
    ASSUME LoadInv, MetricsInv, EndStep
    PROVE  MetricsInv'
<1>1. CASE JoinLoops \/ JoinWorkers
  BY <1>1, MainMetrics
<1>2. CASE DisconnectNext \/ DisconnectDone
  <2>1. /\ ~Cleared /\ ~Cleared' /\ Main \in Threads /\ todo[Main] = <<>>
        /\ UNCHANGED <<sessions, isConnected, early, connected>>
    BY <1>2, DisconnectNextKeeps, DisconnectDoneKeeps
       DEF DisconnectNext, DisconnectDone, Moves, net, metrics, Threads
  <2>2. \A u \in Threads \ {Main} : has'[u] = has[u] /\ todo'[u] = todo[u]
    BY <1>2 DEF DisconnectNext, DisconnectDone, LoadInv, TypeOK
  <2>3. todo'[Main] \in {<<>>, <<"disconnect">>}
    BY <1>2, <2>1 DEF DisconnectNext, DisconnectDone, LoadInv, TypeOK
  <2>4. ~Doing(Main, Claims) /\ ~Doing(Main, Leaving)' /\ ~Doing(Main, {"count"})'
    <3>1. \A i \in 1..Len(todo'[Main]) : todo'[Main][i] = "disconnect"
      BY <2>3
    <3> QED
      BY <2>1, <3>1, NothingToDo, Memberships DEF Doing
  <2>5. \A s : Known(s)' <=> Known(s)
    BY <2>1, <2>2, Roles DEF Known
  <2> QED
    BY <2>1, <2>2, <2>4, <2>5, IdleMetrics
<1>3. CASE ClearSessions
  <2>1. /\ ~Cleared /\ Cleared'
        /\ \A s \in Sessions : Known(s) => ~isConnected[s]
        /\ \A t \in Threads : todo[t] = <<>>
        /\ KnownInv /\ TypeOK
    BY <1>3, ClearSessionsKeeps DEF LoadInv
  <2>2. UNCHANGED <<early, connected>>
    BY <1>3 DEF ClearSessions, metrics
  <2>3. Unlost = early
    <3>1. \A s \in early : s \in Sessions /\ Known(s)
      BY <2>1 DEF KnownInv, TypeOK
    <3> QED
      BY <2>1, <3>1, NothingToDo DEF Unlost, Counts
  <2>4. Owed = {}
    BY <2>1, NothingToDo DEF Owed, Owes, Threads
  <2>5. Cardinality(early) \in Nat
    BY <2>1, <2>3, FiniteMetrics, FS_CardinalityType DEF MetricsInv
  <2>6. connected = Cardinality(early)
    BY <2>1, <2>3, <2>4, <2>5, FS_EmptySet DEF MetricsInv
  <2> QED
    BY <2>1, <2>2, <2>6 DEF MetricsInv
<1>4. CASE DropManager
  <2>1. Cleared /\ Cleared'
    BY <1>4, DropManagerKeeps
  <2>2. UNCHANGED <<early, connected>>
    BY <1>4 DEF DropManager, metrics
  <2> QED
    BY <2>1, <2>2 DEF MetricsInv
<1> QED
  BY <1>1, <1>2, <1>3, <1>4 DEF EndStep

LEMMA MetricsInductive ==
    ASSUME LoadInv, MetricsInv, [Next]_vars
    PROVE  MetricsInv'
  BY ConnectRangeMetrics, WorkerMetrics, SessionMetrics, MainMetrics, EndMetrics
     DEF Next

\* Between the calls of OnConnected and OnDisconnected, the column `connected'
\* is the number of the sessions that are connected, and of those that were
\* lost before their OnConnected.
THEOREM ConnectedCountedHolds == Spec => []ConnectedCounted
<1>1. ASSUME LoadInv, MetricsInv, Settled
      PROVE  connected = Cardinality({s \in Sessions : ~Pooled(s) /\ isConnected[s]})
                         + Cardinality(early)
  <2> DEFINE Up == {s \in Sessions : ~Pooled(s) /\ isConnected[s]}
  <2>1. /\ KnownInv /\ TypeOK /\ LeaveInv /\ EndInv
    BY <1>1 DEF LoadInv
  <2>2. CASE ~Cleared
    <3>1. Owed = {}
      <4>1. \A t \in Threads : ~Doing(t, {"count"})
        BY <1>1 DEF Settled, Doing
      <4> QED
        BY <4>1 DEF Owed, Owes, Threads
    <3>2. \A s \in Sessions : Known(s) <=> ~Pooled(s)
      <4>1. ASSUME NEW s \in Sessions, Known(s)
            PROVE  ~Pooled(s)
        BY <4>1 DEF Known, Pooled, Threads
      <4>2. ASSUME NEW s \in Sessions, ~Pooled(s)
            PROVE  Known(s)
        <5>1. \/ s \in sessions \/ s \in active \/ recv[s] \/ send[s]
              \/ \E t \in Threads : has[t] = s
          BY <4>2 DEF Pooled
        <5>2. s \in sessions => Known(s)
          BY DEF Known
        <5> QED
          BY <2>1, <2>2, <5>1, <5>2, NoneAssumption DEF KnownInv
      <4> QED
        BY <4>1, <4>2
    <3>3. Unlost = Up \cup early
      <4>1. \A t \in Threads : ~Doing(t, Leaving)
        BY <1>1 DEF Settled, Doing, Leaving
      <4>2. \A s \in early : s \in Sessions /\ Known(s)
        BY <2>1, <2>2 DEF KnownInv, TypeOK
      <4> QED
        BY <3>2, <4>1, <4>2 DEF Unlost, Counts
    <3>4. Up \cap early = {}
      BY <2>1 DEF LeaveInv
    <3>5. IsFiniteSet(Unlost)
      BY <1>1, <2>2, FiniteMetrics DEF MetricsInv
    <3> HIDE DEF Up
    <3>6. IsFiniteSet(Up) /\ IsFiniteSet(early)
      BY <3>3, <3>5, FS_Subset
    <3>7. Cardinality(Up) \in Nat /\ Cardinality(early) \in Nat
      BY <3>6, FS_CardinalityType
    <3>8. Cardinality(Unlost) = Cardinality(Up) + Cardinality(early)
      <4>1. Cardinality(Up \cup early) =
               Cardinality(Up) + Cardinality(early) - Cardinality(Up \cap early)
        BY <3>6, FS_Union
      <4>2. Cardinality(Up \cap early) = 0
        BY <3>4, FS_EmptySet
      <4> QED
        BY <3>3, <3>7, <4>1, <4>2
    <3>9. connected = Cardinality(Up) + Cardinality(early)
      <4>1. connected = Cardinality(Unlost) - Cardinality(Owed)
        BY <1>1, <2>2 DEF MetricsInv
      <4>2. Cardinality(Owed) = 0
        BY <3>1, FS_EmptySet
      <4> QED
        BY <3>7, <3>8, <4>1, <4>2
    <3> QED
      BY <3>9 DEF Up
  <2>3. CASE Cleared
    <3>1. Up = {}
      BY <2>1, <2>3 DEF EndInv
    <3>2. connected = Cardinality(early) /\ connected \in Int
      BY <1>1, <2>1, <2>3 DEF MetricsInv, TypeOK
    <3> QED
      BY <3>1, <3>2, FS_EmptySet
  <2> QED
    BY <2>2, <2>3
<1>2. LoadInv /\ MetricsInv => ConnectedCounted
  BY <1>1 DEF ConnectedCounted
<1>3. Init => MetricsInv
  BY MetricsInit
<1>4. LoadInv /\ MetricsInv /\ [Next]_vars => MetricsInv'
  BY MetricsInductive
<1> QED
  BY <1>2, <1>3, <1>4, LoadAlways, PTL DEF Spec

=============================================================================
