----------------------- MODULE ClientReconnect_proofs -----------------------
(***************************************************************************)
(* Proofs about ClientReconnect for any number of threads and sessions.    *)
(*                                                                         *)
(* The argument: who connects a session that Reset found unused is alone   *)
(* with it until its first recv is in the kernel; from then on that recv   *)
(* is in the kernel or with one thread, until a Disconnect clears          *)
(* isConnected; and the thread whose Disconnect was the first will close   *)
(* the socket.                                                             *)
(***************************************************************************)
EXTENDS ClientReconnect, FiniteSetTheorems, SequenceTheorems, TLAPS

-----------------------------------------------------------------------------
(* What threads have to do                                                 *)

\* The labels on a list, and those on the list of a thread.
SetOf(p) == {p[i] : i \in 1..Len(p)}
On(t) == SetOf(todo[t])

\* A list ends with the label of the thread's loop; what may be on it after a
\* label.
Loops == {"acquire", "each", "poll", "end"}
After == {"release", "activate", "keep"} \cup Loops
Later == [label \in Labels |->
            CASE label \in Loops -> {}
              [] label \in {"keep", "register", "connect", "send"} -> Loops
              [] label = "activate" -> {"keep"} \cup Loops
              [] label = "recv" -> {"activate", "keep"} \cup Loops
              [] label = "socket" -> {"connect"} \cup Loops
              [] label = "reset" -> {"socket", "connect"} \cup Loops
              [] label = "mark" -> {"close"} \cup After
              [] OTHER -> After]

InOrder(p) == \A i, j \in 1..Len(p) : i < j => p[j] \in Later[p[i]]
EndsInLoop(p) == p # <<>> => p[Len(p)] \in Loops

\* Who executes a label.
Role(t, label) ==
    /\ label \in {"reset", "send", "each"} => t = Sender
    /\ label \in {"keep", "acquire"} => t \in Connectors
    /\ label \in {"socket", "connect", "register", "recv", "activate"}
          => t \in Connectors \cup {Sender}
    /\ label \in {"zero", "rearm", "poll"} => t \in Workers
    /\ label = "post" => t # Main
    /\ label = "end" => t = Main

\* A thread works on a session; it connects it, with a Reset behind it; it has
\* the chain of the recvs; it is a worker that may post a recv.
Busy(t) == \E label \in On(t) : label \notin Loops
Making(t) == /\ t \notin Workers
             /\ "reset" \notin On(t)
             /\ \/ "socket" \in On(t) \/ "connect" \in On(t)
                \/ "register" \in On(t) \/ "recv" \in On(t) \/ "post" \in On(t)
Chained(t) == \/ "register" \in On(t) \/ "recv" \in On(t) \/ "post" \in On(t)
              \/ "zero" \in On(t) \/ "rearm" \in On(t)
Posting(w) == "zero" \in On(w) \/ "rearm" \in On(w) \/ "post" \in On(w)

-----------------------------------------------------------------------------
(* The inductive invariant                                                 *)

ListInv ==
    /\ \A t \in Threads : InOrder(todo[t]) /\ EndsInLoop(todo[t])
    /\ \A t \in Threads : has[t] # None <=> Busy(t)
    /\ \A t \in Threads : \A label \in On(t) : Role(t, label)
    /\ \A t \in Threads : "reset" \in On(t) => "socket" \in On(t)

\* A session is in the pool, with the connect thread that has acquired it, or
\* known to the others (or lost, when it could not be registered).
OwnInv ==
    /\ \A t \in Threads : has[t] \notin pool
    /\ \A c \in Connectors : has[c] # None =>
          /\ has[c] \notin clientSessions
          /\ \A d \in Connectors :
                has[c] \notin local[d] /\ (has[d] = has[c] => d = c)
    /\ \A t \in {Sender, Main} : has[t] # None => has[t] \in clientSessions
    /\ \A d \in Connectors : local[d] \cap pool = {}
    /\ clientSessions \cap pool = {} /\ raced \subseteq clientSessions
    /\ \A s \in pool : ses[s] = Fresh

\* Who connects s is alone with it.
MakeInv(s) ==
    s \notin raced => \A t \in Threads : has[t] = s /\ Making(t) =>
       /\ \A u \in Threads : has[u] = s => u = t
       /\ ~ses[s].disconnecting /\ ~ses[s].isSending
       /\ ses[s].recvs = 0 /\ ses[s].stale = 0 /\ ses[s].recvPendingCnt = 0
       /\ "socket" \notin On(t) =>
             /\ ses[s].isConnected
             /\ "connect" \in On(t) => ses[s].socket = "new"
             /\ "connect" \notin On(t) => ses[s].socket \in {"live", "dead"}

\* The recv of s, while it is connected, is in the kernel or with one thread.
LiveInv(s) ==
    s \notin raced /\ ses[s].isConnected =>
       /\ ~ses[s].disconnecting /\ ses[s].socket # "none" /\ ses[s].stale = 0
       /\ ses[s].recvs <= 1 /\ ses[s].recvPendingCnt = ses[s].recvs
       /\ ses[s].recvs = 1 => ses[s].owner
       /\ \A t \in Threads : has[t] = s =>
             /\ "mark" \notin On(t) /\ "close" \notin On(t)
             /\ Chained(t) => ses[s].recvs = 0
       /\ \A t, u \in Threads :
             has[t] = s /\ has[u] = s /\ Chained(t) /\ Chained(u) => t = u
       /\ ses[s].socket # "new" =>
             /\ \/ ses[s].recvs = 1
                \/ \E t \in Threads :
                      has[t] = s /\ (Chained(t) \/ "disconnect" \in On(t))
             /\ \/ ses[s].listed
                \/ \E t \in Threads :
                      has[t] = s /\ ("register" \in On(t) \/ "activate" \in On(t))

\* recvPendingCnt and the recvs in the kernel: Reset forgets MaxStale at most,
\* and who may post one more is a worker or the one that connects s.
CountInv(s) ==
    /\ ses[s].recvPendingCnt <= ses[s].recvs + ses[s].stale
    /\ ses[s].recvs + ses[s].stale <= ses[s].recvPendingCnt + MaxStale
Tokens(s) == {w \in Workers : has[w] = s /\ Posting(w)}
Maker(s) == IF \E t \in Threads : has[t] = s /\ Making(t) THEN 1 ELSE 0
SumInv(s) == ses[s].recvs + ses[s].stale + Cardinality(Tokens(s)) + Maker(s)
                <= MaxRecvs

\* The socket of a session that is not connected will be closed.
CloseInv(s) ==
    \/ ses[s].isConnected \/ ses[s].socket = "none"
    \/ \E t \in Threads : has[t] = s /\ "close" \in On(t)

SesInv(s) == MakeInv(s) /\ LiveInv(s) /\ CountInv(s) /\ SumInv(s) /\ CloseInv(s)

EndInv ==
    /\ stage \notin {"serving", "join sender"} => todo[Sender] = <<>>
    /\ stage # "disconnect" => has[Main] = None
    /\ stage = "disconnect" => \A s \in visited \ rest :
          ses[s].isConnected => has[Main] = s /\ "disconnect" \in On(Main)
    /\ stage \in {"join threads", "cleared"} =>
          \A s \in visited : ~ses[s].isConnected
    /\ stage = "cleared" =>
          \A t \in Connectors \cup Workers : todo[t] = <<>>

ClientInv == TypeOK /\ ListInv /\ OwnInv /\ (\A s \in Sessions : SesInv(s)) /\ EndInv

-----------------------------------------------------------------------------
(* Lists of labels                                                         *)

LEMMA LaterIs ==
    /\ Later["acquire"] = {} /\ Later["each"] = {}
    /\ Later["poll"] = {} /\ Later["end"] = {}
    /\ Later["keep"] = Loops /\ Later["register"] = Loops
    /\ Later["connect"] = Loops /\ Later["send"] = Loops
    /\ Later["activate"] = {"keep"} \cup Loops
    /\ Later["recv"] = {"activate", "keep"} \cup Loops
    /\ Later["socket"] = {"connect"} \cup Loops
    /\ Later["reset"] = {"socket", "connect"} \cup Loops
    /\ Later["mark"] = {"close"} \cup After
    /\ Later["post"] = After /\ Later["zero"] = After /\ Later["rearm"] = After
    /\ Later["disconnect"] = After /\ Later["close"] = After
    /\ Later["release"] = After
<1>1. /\ Later["acquire"] = {} /\ Later["each"] = {}
      /\ Later["poll"] = {} /\ Later["end"] = {}
      /\ Later["keep"] = Loops /\ Later["register"] = Loops
      /\ Later["connect"] = Loops /\ Later["send"] = Loops
  BY DEF Later, Labels, Loops
<1>2. /\ Later["activate"] = {"keep"} \cup Loops
      /\ Later["recv"] = {"activate", "keep"} \cup Loops
      /\ Later["socket"] = {"connect"} \cup Loops
      /\ Later["reset"] = {"socket", "connect"} \cup Loops
      /\ Later["mark"] = {"close"} \cup After
  BY DEF Later, Labels, Loops
<1>3. /\ Later["post"] = After /\ Later["zero"] = After /\ Later["rearm"] = After
      /\ Later["disconnect"] = After /\ Later["close"] = After
      /\ Later["release"] = After
  BY DEF Later, Labels, Loops
<1> QED
  BY <1>1, <1>2, <1>3

\* What a call may put in the place of a label.
Fits(label, body) ==
    /\ label \in Labels /\ body \in Seq(Labels) /\ InOrder(body)
    /\ \A a \in SetOf(body) : Later[label] \subseteq Later[a]
    /\ label \in Loops => EndsInLoop(body)

\* The label on turn is replaced by those of its callee: what is on the list
\* before and after.
LEMMA Spliced ==
    ASSUME NEW p \in Seq(Labels), p # <<>>, InOrder(p), EndsInLoop(p),
           NEW body, Fits(Head(p), body)
    PROVE  /\ body \o Tail(p) \in Seq(Labels)
           /\ InOrder(body \o Tail(p)) /\ EndsInLoop(body \o Tail(p))
           /\ SetOf(p) = {Head(p)} \cup SetOf(Tail(p))
           /\ SetOf(body \o Tail(p)) = SetOf(body) \cup SetOf(Tail(p))
           /\ SetOf(Tail(p)) \subseteq Later[Head(p)]
           /\ Len(body \o Tail(p)) > 1
                 <=> \E a \in SetOf(body \o Tail(p)) : a \notin Loops
<1> DEFINE q == Tail(p)
           r == body \o q
           n == Len(body)
<1>1. /\ q \in Seq(Labels) /\ Len(q) = Len(p) - 1 /\ Len(p) >= 1
      /\ \A i \in 1..Len(q) : i + 1 \in 1..Len(p) /\ q[i] = p[i + 1]
      /\ Head(p) = p[1] /\ n \in Nat /\ Len(p) \in Nat
  BY HeadTailProperties, LenProperties, EmptySeq DEF Fits
<1>2. /\ r \in Seq(Labels) /\ Len(r) = n + Len(q)
      /\ \A i \in 1..n : i \in 1..Len(r) /\ r[i] = body[i]
      /\ \A i \in 1..Len(q) : n + i \in 1..Len(r) /\ r[n + i] = q[i]
      /\ \A i \in 1..Len(r) : \/ i \in 1..n
                              \/ i - n \in 1..Len(q) /\ r[i] = q[i - n]
  <2>1. /\ r \in Seq(Labels) /\ Len(r) = n + Len(q)
        /\ \A i \in 1..n + Len(q) :
              r[i] = IF i <= n THEN body[i] ELSE q[i - n]
    BY <1>1, ConcatProperties DEF Fits
  <2> QED
    BY <1>1, <2>1
<1>3. \A i \in 1..Len(q) : q[i] \in Later[Head(p)]
  BY <1>1 DEF InOrder
<1>4. InOrder(q)
  <2> SUFFICES ASSUME NEW i \in 1..Len(q), NEW j \in 1..Len(q), i < j
               PROVE  q[j] \in Later[q[i]]
    BY DEF InOrder
  <2>1. /\ i + 1 \in 1..Len(p) /\ q[i] = p[i + 1]
        /\ j + 1 \in 1..Len(p) /\ q[j] = p[j + 1]
        /\ i + 1 < j + 1
    BY <1>1
  <2> QED
    BY <2>1 DEF InOrder
<1>5. InOrder(r)
  <2> SUFFICES ASSUME NEW i \in 1..Len(r), NEW j \in 1..Len(r), i < j
               PROVE  r[j] \in Later[r[i]]
    BY DEF InOrder
  <2>1. CASE i \in 1..n /\ j \in 1..n
    BY <1>2, <2>1 DEF InOrder, Fits
  <2>2. CASE i \in 1..n /\ j - n \in 1..Len(q) /\ r[j] = q[j - n]
    <3>1. body[i] \in SetOf(body) /\ r[i] = body[i]
      BY <1>2, <2>2 DEF SetOf
    <3> QED
      BY <1>3, <2>2, <3>1 DEF Fits
  <2>3. CASE /\ i - n \in 1..Len(q) /\ r[i] = q[i - n]
             /\ j - n \in 1..Len(q) /\ r[j] = q[j - n]
    <3>1. i - n < j - n
      BY <1>1
    <3> QED
      BY <1>4, <2>3, <3>1 DEF InOrder
  <2>4. i \in 1..n \/ ~(j \in 1..n)
    BY <1>1
  <2> QED
    BY <1>2, <2>1, <2>2, <2>3, <2>4
<1>6. SetOf(p) = {Head(p)} \cup SetOf(q)
  <2>1. \A i \in 1..Len(p) : \/ i = 1
                             \/ i - 1 \in 1..Len(q) /\ q[i - 1] = p[i]
    BY <1>1
  <2>2. 1 \in 1..Len(p)
    BY <1>1
  <2> QED
    BY <1>1, <2>1, <2>2 DEF SetOf
<1>7. SetOf(r) = SetOf(body) \cup SetOf(q)
  <2> HIDE DEF r, q
  <2>1. SetOf(r) \subseteq SetOf(body) \cup SetOf(q)
    BY <1>2 DEF SetOf
  <2>2. SetOf(body) \subseteq SetOf(r)
    <3>1. \A i \in 1..n : i \in 1..Len(r) /\ body[i] = r[i]
      BY <1>2
    <3> QED
      BY <3>1 DEF SetOf
  <2>3. SetOf(q) \subseteq SetOf(r)
    <3>1. \A i \in 1..Len(q) : n + i \in 1..Len(r) /\ q[i] = r[n + i]
      BY <1>2
    <3> QED
      BY <3>1 DEF SetOf
  <2> QED
    BY <2>1, <2>2, <2>3
<1>8. SetOf(q) \subseteq Later[Head(p)]
  BY <1>3 DEF SetOf
<1>9. EndsInLoop(r)
  <2>1. CASE q = <<>>
    <3> HIDE DEF q
    <3>1. Len(q) = 0
      BY <2>1
    <3>5. Len(p) = 1
      BY <1>1, <3>1
    <3>2. Head(p) \in Loops
      BY <1>1, <3>5 DEF EndsInLoop
    <3>3. EndsInLoop(body)
      BY <3>2 DEF Fits
    <3>4. r = body
      BY <2>1, ConcatEmptySeq DEF Fits
    <3> QED
      BY <3>3, <3>4
  <2>2. CASE q # <<>>
    <3>1. Len(q) >= 1
      BY <1>1, <2>2, EmptySeq
    <3>2. q[Len(q)] = p[Len(p)]
      BY <1>1, <3>1
    <3>3. r[Len(r)] = q[Len(q)]
      BY <1>1, <1>2, <3>1
    <3> QED
      BY <3>2, <3>3 DEF EndsInLoop
  <2> QED
    BY <2>1, <2>2
<1> HIDE DEF r, q
<1>10. ASSUME Len(r) > 1
       PROVE  \E a \in SetOf(r) : a \notin Loops
  <2>1. 1 \in 1..Len(r) /\ 2 \in 1..Len(r) /\ 1 < 2
    BY <1>1, <1>2, <1>10
  <2>2. r[2] \in Later[r[1]]
    BY <1>5, <2>1 DEF InOrder
  <2>3. r[1] \notin Loops
    BY <2>2, LaterIs DEF Loops
  <2> QED
    BY <2>1, <2>3 DEF SetOf
<1>11. ASSUME NEW a \in SetOf(r), a \notin Loops
       PROVE  Len(r) > 1
  <2>1. PICK i \in 1..Len(r) : a = r[i]
    BY DEF SetOf
  <2>2. r # <<>>
    BY <2>1, EmptySeq
  <2>3. r[Len(r)] \in Loops
    BY <1>9, <2>2 DEF EndsInLoop
  <2>4. i # Len(r)
    BY <1>11, <2>1, <2>3
  <2> QED
    BY <1>1, <1>2, <2>1, <2>4
<1>12. Len(r) > 1 <=> \E a \in SetOf(r) : a \notin Loops
  BY <1>10, <1>11
<1> QED
  BY <1>2, <1>5, <1>6, <1>7, <1>8, <1>9, <1>12 DEF r, q

LEMMA SetOfIs ==
    /\ SetOf(<<>>) = {}
    /\ \A a : SetOf(<<a>>) = {a}
    /\ \A a, b : SetOf(<<a, b>>) = {a, b}
    /\ \A a, b, c : SetOf(<<a, b, c>>) = {a, b, c}
    /\ \A a, b, c, d : SetOf(<<a, b, c, d>>) = {a, b, c, d}
<1>1. SetOf(<<>>) = {}
  BY DEF SetOf
<1>2. ASSUME NEW a
      PROVE  SetOf(<<a>>) = {a}
  BY DEF SetOf
<1>3. ASSUME NEW a, NEW b
      PROVE  SetOf(<<a, b>>) = {a, b}
  <2>1. /\ 1 \in 1..Len(<<a, b>>) /\ <<a, b>>[1] = a
        /\ 2 \in 1..Len(<<a, b>>) /\ <<a, b>>[2] = b
        /\ \A i \in 1..Len(<<a, b>>) : i = 1 \/ i = 2
    OBVIOUS
  <2> QED
    BY <2>1 DEF SetOf
<1>4. ASSUME NEW a, NEW b, NEW c
      PROVE  SetOf(<<a, b, c>>) = {a, b, c}
  <2>1. /\ 1 \in 1..Len(<<a, b, c>>) /\ <<a, b, c>>[1] = a
        /\ 2 \in 1..Len(<<a, b, c>>) /\ <<a, b, c>>[2] = b
        /\ 3 \in 1..Len(<<a, b, c>>) /\ <<a, b, c>>[3] = c
        /\ \A i \in 1..Len(<<a, b, c>>) : i = 1 \/ i = 2 \/ i = 3
    OBVIOUS
  <2> QED
    BY <2>1 DEF SetOf
<1>5. ASSUME NEW a, NEW b, NEW c, NEW d
      PROVE  SetOf(<<a, b, c, d>>) = {a, b, c, d}
  <2>1. /\ 1 \in 1..Len(<<a, b, c, d>>) /\ <<a, b, c, d>>[1] = a
        /\ 2 \in 1..Len(<<a, b, c, d>>) /\ <<a, b, c, d>>[2] = b
        /\ 3 \in 1..Len(<<a, b, c, d>>) /\ <<a, b, c, d>>[3] = c
        /\ 4 \in 1..Len(<<a, b, c, d>>) /\ <<a, b, c, d>>[4] = d
        /\ \A i \in 1..Len(<<a, b, c, d>>) : i = 1 \/ i = 2 \/ i = 3 \/ i = 4
    OBVIOUS
  <2> QED
    BY <2>1 DEF SetOf
<1> QED
  BY <1>1, <1>2, <1>3, <1>4, <1>5

LEMMA FitsNone ==
    ASSUME NEW label \in Labels
    PROVE  Fits(label, <<>>)
  BY SetOfIs, EmptySeq DEF Fits, InOrder, EndsInLoop

LEMMA FitsOne ==
    ASSUME NEW label \in Labels, NEW a \in Labels, Later[label] \subseteq Later[a],
           label \in Loops => a \in Loops
    PROVE  Fits(label, <<a>>)
<1> DEFINE p == <<a>>
<1>1. p \in Seq(Labels) /\ Len(p) = 1 /\ p[1] = a
  OBVIOUS
<1>2. SetOf(p) = {a}
  BY SetOfIs
<1> HIDE DEF p
<1>3. InOrder(p) /\ (label \in Loops => EndsInLoop(p))
  BY <1>1 DEF InOrder, EndsInLoop
<1>4. Fits(label, p)
  BY <1>1, <1>2, <1>3 DEF Fits
<1> QED
  BY <1>4 DEF p

LEMMA FitsTwo ==
    ASSUME NEW label \in Labels, NEW a \in Labels, NEW b \in Labels,
           b \in Later[a],
           Later[label] \subseteq Later[a], Later[label] \subseteq Later[b],
           label \in Loops => b \in Loops
    PROVE  Fits(label, <<a, b>>)
<1> DEFINE p == <<a, b>>
<1>1. p \in Seq(Labels) /\ Len(p) = 2 /\ p[1] = a /\ p[2] = b
  OBVIOUS
<1>2. SetOf(p) = {a, b}
  BY SetOfIs
<1> HIDE DEF p
<1>3. \A i \in 1..Len(p) : i = 1 \/ i = 2
  BY <1>1
<1>4. InOrder(p) /\ (label \in Loops => EndsInLoop(p))
  BY <1>1, <1>3 DEF InOrder, EndsInLoop
<1>5. Fits(label, p)
  BY <1>1, <1>2, <1>4 DEF Fits
<1> QED
  BY <1>5 DEF p

LEMMA FitsThree ==
    ASSUME NEW label \in Labels, NEW a \in Labels, NEW b \in Labels,
           NEW c \in Labels,
           b \in Later[a], c \in Later[a], c \in Later[b],
           Later[label] \subseteq Later[a], Later[label] \subseteq Later[b],
           Later[label] \subseteq Later[c],
           label \in Loops => c \in Loops
    PROVE  Fits(label, <<a, b, c>>)
<1> DEFINE p == <<a, b, c>>
<1>1. p \in Seq(Labels) /\ Len(p) = 3 /\ p[1] = a /\ p[2] = b /\ p[3] = c
  OBVIOUS
<1>2. SetOf(p) = {a, b, c}
  BY SetOfIs
<1> HIDE DEF p
<1>3. \A i \in 1..Len(p) : i = 1 \/ i = 2 \/ i = 3
  BY <1>1
<1>4. InOrder(p) /\ (label \in Loops => EndsInLoop(p))
  BY <1>1, <1>3 DEF InOrder, EndsInLoop
<1>5. Fits(label, p)
  BY <1>1, <1>2, <1>4 DEF Fits
<1> QED
  BY <1>5 DEF p

LEMMA FitsFour ==
    ASSUME NEW label \in Labels, NEW a \in Labels, NEW b \in Labels,
           NEW c \in Labels, NEW d \in Labels,
           b \in Later[a], c \in Later[a], d \in Later[a],
           c \in Later[b], d \in Later[b], d \in Later[c],
           Later[label] \subseteq Later[a], Later[label] \subseteq Later[b],
           Later[label] \subseteq Later[c], Later[label] \subseteq Later[d],
           label \in Loops => d \in Loops
    PROVE  Fits(label, <<a, b, c, d>>)
<1> DEFINE p == <<a, b, c, d>>
<1>1. /\ p \in Seq(Labels) /\ Len(p) = 4
      /\ p[1] = a /\ p[2] = b /\ p[3] = c /\ p[4] = d
  OBVIOUS
<1>2. SetOf(p) = {a, b, c, d}
  BY SetOfIs
<1> HIDE DEF p
<1>3. \A i \in 1..Len(p) : i = 1 \/ i = 2 \/ i = 3 \/ i = 4
  BY <1>1
<1>4. InOrder(p)
  <2> SUFFICES ASSUME NEW i \in 1..Len(p), NEW j \in 1..Len(p), i < j
               PROVE  p[j] \in Later[p[i]]
    BY DEF InOrder
  <2>1. \/ (i = 1 /\ j = 2) \/ (i = 1 /\ j = 3) \/ (i = 1 /\ j = 4)
        \/ (i = 2 /\ j = 3) \/ (i = 2 /\ j = 4) \/ (i = 3 /\ j = 4)
    BY <1>1
  <2> QED
    BY <1>1, <2>1
<1>5. label \in Loops => EndsInLoop(p)
  BY <1>1 DEF EndsInLoop
<1>6. Fits(label, p)
  BY <1>1, <1>2, <1>4, <1>5 DEF Fits
<1> QED
  BY <1>6 DEF p

-----------------------------------------------------------------------------
(* A thread's turn                                                         *)

\* What is on the list of a thread after the label on turn.
Rest(t) == SetOf(Tail(todo[t]))

\* Thread t executes the label on turn for s, which puts the labels B in its
\* place: what that makes of the lists.
Turn(t, s, label, B) ==
    /\ label \in Labels /\ Rest(t) \subseteq Later[label]
    /\ On(t) = {label} \cup Rest(t)
    /\ On(t)' = B \cup Rest(t)
    /\ has'[t] = IF Busy(t)' THEN s ELSE None
    /\ \A u \in Threads \ {t} :
          On(u)' = On(u) /\ has'[u] = has[u] /\ todo'[u] = todo[u]
    /\ todo' \in [Threads -> Seq(Labels)]
    /\ has' \in [Threads -> Sessions \cup {None}]
    /\ ListInv'

LEMMA GoStep ==
    ASSUME TypeOK, ListInv, NEW t \in Threads, NEW s \in Sessions \cup {None},
           NEW label, At(t, label), NEW body, Fits(label, body), Go(t, s, body),
           s = None => label \in Loops /\ SetOf(body) \subseteq Loops,
           \A a \in SetOf(body) : Role(t, a),
           "reset" \in SetOf(body) => "socket" \in SetOf(body)
    PROVE  Turn(t, s, label, SetOf(body))
<1> DEFINE next == body \o Tail(todo[t])
<1>1. /\ todo[t] \in Seq(Labels) /\ todo[t] # <<>> /\ Head(todo[t]) = label
      /\ InOrder(todo[t]) /\ EndsInLoop(todo[t]) /\ label \in Labels
  BY DEF At, TypeOK, ListInv, Fits
<1>2. /\ next \in Seq(Labels)
      /\ InOrder(next) /\ EndsInLoop(next)
      /\ On(t) = {label} \cup Rest(t)
      /\ SetOf(next) = SetOf(body) \cup Rest(t)
      /\ Rest(t) \subseteq Later[label]
      /\ Len(next) > 1 <=> \E a \in SetOf(next) : a \notin Loops
  BY <1>1, Spliced DEF On, Rest
<1> HIDE DEF next
<1>3. /\ todo' = [todo EXCEPT ![t] = next]
      /\ has' = [has EXCEPT ![t] = IF Len(next) > 1 THEN s ELSE None]
  BY DEF Go, next
<1>4. /\ todo \in [Threads -> Seq(Labels)]
      /\ has \in [Threads -> Sessions \cup {None}]
  BY DEF TypeOK
<1>5. /\ todo' \in [Threads -> Seq(Labels)] /\ todo'[t] = next
      /\ has' \in [Threads -> Sessions \cup {None}]
      /\ has'[t] = IF Len(next) > 1 THEN s ELSE None
      /\ \A u \in Threads \ {t} : has'[u] = has[u] /\ todo'[u] = todo[u]
  BY <1>2, <1>3, <1>4
<1>6. On(t)' = SetOf(next)
  BY <1>5 DEF On
<1>7. \A u \in Threads \ {t} : On(u)' = On(u)
  BY <1>5 DEF On
<1>8. Busy(t)' <=> Len(next) > 1
  BY <1>2, <1>6 DEF Busy
<1>9. \A u \in Threads \ {t} : Busy(u)' <=> Busy(u)
  BY <1>7 DEF Busy
<1>10. /\ \A u \in Threads : has[u] # None <=> Busy(u)
       /\ \A u \in Threads : \A a \in On(u) : Role(u, a)
       /\ \A u \in Threads : "reset" \in On(u) => "socket" \in On(u)
       /\ \A u \in Threads : InOrder(todo[u]) /\ EndsInLoop(todo[u])
  BY DEF ListInv
<1>16. s = None => ~Busy(t)'
  <2>1. label \in Loops => Rest(t) = {}
    BY <1>2, LaterIs DEF Loops
  <2> QED
    BY <1>2, <1>6, <2>1 DEF Busy
<1>11. \A u \in Threads : has'[u] # None <=> Busy(u)'
  BY <1>5, <1>8, <1>9, <1>10, <1>16, NoneAssumption
<1>12. \A u \in Threads : \A a \in On(u)' : Role(u, a)
  BY <1>2, <1>6, <1>7, <1>10
<1>13. \A u \in Threads : "reset" \in On(u)' => "socket" \in On(u)'
  <2>1. "reset" \notin Rest(t)
    BY <1>1, <1>2, LaterIs DEF Labels, Loops, After
  <2> QED
    BY <1>2, <1>6, <1>7, <1>10, <2>1
<1>14. \A u \in Threads : InOrder(todo'[u]) /\ EndsInLoop(todo'[u])
  BY <1>2, <1>5, <1>10
<1>15. ListInv'
  BY <1>11, <1>12, <1>13, <1>14 DEF ListInv, Role
<1> QED
  BY <1>1, <1>2, <1>5, <1>6, <1>7, <1>8, <1>15 DEF Turn

LEMMA GoFacts ==
    ASSUME TypeOK, ListInv, NEW t \in Threads, NEW s \in Sessions, NEW label,
           At(t, label), NEW body, Fits(label, body), Go(t, s, body),
           \A a \in SetOf(body) : Role(t, a),
           "reset" \in SetOf(body) => "socket" \in SetOf(body)
    PROVE  Turn(t, s, label, SetOf(body))
  BY GoStep, NoneAssumption

-----------------------------------------------------------------------------
(* What a turn leaves alone                                                *)

\* Only t moves, and it works on s or on nothing.
Only(t, s) ==
    /\ has[t] \in {s, None} /\ has'[t] \in {s, None}
    /\ \A u \in Threads \ {t} :
          On(u)' = On(u) /\ has'[u] = has[u] /\ todo'[u] = todo[u]

\* The other sessions.
LEMMA Elsewhere ==
    ASSUME NEW t \in Threads, NEW s \in Sessions, Only(t, s),
           NEW r \in Sessions, r # s, SesInv(r),
           ses'[r] = ses[r], r \in raced' <=> r \in raced
    PROVE  SesInv(r)'
<1>1. \A u \in Threads : /\ has'[u] = r <=> has[u] = r
                         /\ has[u] = r => On(u)' = On(u)
  BY NoneAssumption DEF Only
<1>2. \A u \in Threads : has[u] = r => /\ Making(u)' <=> Making(u)
                                       /\ Chained(u)' <=> Chained(u)
                                       /\ Posting(u)' <=> Posting(u)
  BY <1>1 DEF Making, Chained, Posting
<1>3. MakeInv(r)'
  <2>1. MakeInv(r)
    BY DEF SesInv
  <2> QED
    BY <1>1, <1>2, <2>1 DEF MakeInv
<1>4. LiveInv(r)'
  <2>1. LiveInv(r)
    BY DEF SesInv
  <2> QED
    BY <1>1, <1>2, <2>1 DEF LiveInv
<1>5. CountInv(r)'
  BY DEF SesInv, CountInv
<1>6. SumInv(r)'
  <2>1. Tokens(r)' = Tokens(r)
    BY <1>1, <1>2 DEF Tokens, Threads
  <2>2. Maker(r)' = Maker(r)
    BY <1>1, <1>2 DEF Maker
  <2> QED
    BY <2>1, <2>2 DEF SesInv, SumInv
<1>7. CloseInv(r)'
  BY <1>1 DEF SesInv, CloseInv
<1> QED
  BY <1>3, <1>4, <1>5, <1>6, <1>7 DEF SesInv

-----------------------------------------------------------------------------
(* The sum of the recvs                                                    *)

Token(t, s) == IF t \in Workers /\ has[t] = s /\ Posting(t) THEN 1 ELSE 0
Made(t, s) == IF has[t] = s /\ Making(t) THEN 1 ELSE 0

LEMMA TokensAre ==
    ASSUME NEW s
    PROVE  /\ IsFiniteSet(Tokens(s)) /\ Cardinality(Tokens(s)) \in Nat
           /\ Cardinality(Tokens(s)) <= Cardinality(Workers)
           /\ IsFiniteSet(Tokens(s)') /\ Cardinality(Tokens(s)') \in Nat
           /\ Cardinality(Tokens(s)') <= Cardinality(Workers)
           /\ Cardinality(Workers) \in Nat
<1>1. Tokens(s) \subseteq Workers /\ Tokens(s)' \subseteq Workers
  BY DEF Tokens
<1> QED
  BY <1>1, FiniteAssumption, FS_Subset, FS_CardinalityType

LEMMA TokenStep ==
    ASSUME NEW t \in Threads, NEW s \in Sessions, Only(t, s)
    PROVE  Cardinality(Tokens(s)') + Token(t, s)
              = Cardinality(Tokens(s)) + Token(t, s)'
<1>1. \A u \in Threads \ {t} : /\ has'[u] = has[u]
                               /\ Posting(u)' <=> Posting(u)
  BY DEF Only, Posting
<1>2. Tokens(s)' \ {t} = Tokens(s) \ {t}
  BY <1>1 DEF Tokens, Threads
<1>3. /\ t \in Tokens(s) <=> Token(t, s) = 1
      /\ Token(t, s) \in {0, 1}
      /\ t \in Tokens(s)' <=> Token(t, s)' = 1
      /\ Token(t, s)' \in {0, 1}
  BY DEF Tokens, Token
<1> DEFINE A == Tokens(s)
           B == Tokens(s)'
<1>4. /\ IsFiniteSet(A) /\ Cardinality(A) \in Nat
      /\ IsFiniteSet(B) /\ Cardinality(B) \in Nat
  BY TokensAre
<1> HIDE DEF A, B
<1>5. IsFiniteSet(A \ {t}) /\ Cardinality(A \ {t}) = Cardinality(A) - Token(t, s)
  <2>1. CASE t \in A
    <3>1. Token(t, s) = 1
      BY <1>3, <2>1 DEF A
    <3> QED
      BY <1>4, <2>1, <3>1, FS_RemoveElement
  <2>2. CASE t \notin A
    <3>1. Token(t, s) = 0 /\ A \ {t} = A
      BY <1>3, <2>2 DEF A
    <3> QED
      BY <1>4, <3>1
  <2> QED
    BY <2>1, <2>2
<1>6. IsFiniteSet(B \ {t}) /\ Cardinality(B \ {t}) = Cardinality(B) - Token(t, s)'
  <2>1. CASE t \in B
    <3>1. Token(t, s)' = 1
      BY <1>3, <2>1 DEF B
    <3> QED
      BY <1>4, <2>1, <3>1, FS_RemoveElement
  <2>2. CASE t \notin B
    <3>1. Token(t, s)' = 0 /\ B \ {t} = B
      BY <1>3, <2>2 DEF B
    <3> QED
      BY <1>4, <3>1
  <2> QED
    BY <2>1, <2>2
<1>7. Cardinality(B) + Token(t, s) = Cardinality(A) + Token(t, s)'
  BY <1>2, <1>3, <1>4, <1>5, <1>6 DEF A, B
<1> QED
  BY <1>7 DEF A, B

\* A session has one maker.
LEMMA OneMaker ==
    ASSUME ListInv, OwnInv, NEW s \in Sessions, NEW t \in Threads,
           NEW u \in Threads, has[t] = s, has[u] = s, Making(t), Making(u)
    PROVE  t = u
<1>1. \A v \in Threads : Making(v) => v \in Connectors \cup {Sender}
  BY RolesAssumption DEF ListInv, Making, Role, Threads
<1> QED
  BY <1>1, NoneAssumption DEF OwnInv

LEMMA SumStep ==
    ASSUME TypeOK, ListInv, OwnInv, NEW t \in Threads, NEW s \in Sessions,
           Only(t, s), SumInv(s),
           ses'[s].recvs \in Nat, ses'[s].stale \in Nat,
           Made(t, s)' = 1 =>
              Made(t, s) = 1 \/ \A u \in Threads \ {t} : has[u] = s => ~Making(u),
           ses'[s].recvs + ses'[s].stale + Token(t, s)' + Made(t, s)'
              <= ses[s].recvs + ses[s].stale + Token(t, s) + Made(t, s)
    PROVE  SumInv(s)'
<1>1. ses[s].recvs \in Nat /\ ses[s].stale \in Nat
  <2>1. ses[s] \in Fields
    BY DEF TypeOK
  <2>2. ses[s].recvs \in 0..MaxRecvs /\ ses[s].stale \in 0..MaxRecvs
    BY <2>1 DEF Fields
  <2> QED
    BY <2>2
<1>2. /\ Token(t, s) \in {0, 1} /\ Token(t, s)' \in {0, 1}
      /\ Made(t, s) \in {0, 1} /\ Made(t, s)' \in {0, 1}
  BY DEF Token, Made
<1>3. Maker(s)' + Made(t, s) = Maker(s) + Made(t, s)'
  <2>1. \A u \in Threads \ {t} : has'[u] = has[u] /\ (Making(u)' <=> Making(u))
    BY DEF Only, Making
  <2>2. CASE \E u \in Threads \ {t} : has[u] = s /\ Making(u)
    <3>1. Made(t, s) = 0
      BY <2>2, OneMaker DEF Made
    <3>2. Made(t, s)' = 0
      BY <1>2, <2>2, <3>1
    <3>3. Maker(s) = 1 /\ Maker(s)' = 1
      BY <2>1, <2>2 DEF Maker
    <3> QED
      BY <3>1, <3>2, <3>3
  <2>3. CASE \A u \in Threads \ {t} : ~(has[u] = s /\ Making(u))
    <3>1. Maker(s) = Made(t, s)
      BY <2>3 DEF Maker, Made
    <3>2. Maker(s)' = Made(t, s)'
      BY <2>1, <2>3 DEF Maker, Made
    <3> QED
      BY <1>2, <3>1, <3>2
  <2> QED
    BY <2>2, <2>3
<1>4. Maker(s) \in {0, 1} /\ Maker(s)' \in {0, 1}
  BY DEF Maker
<1>5. MaxRecvs \in Nat
  BY FiniteAssumption, FS_CardinalityType, BoundsAssumption DEF MaxRecvs
<1>6. /\ Cardinality(Tokens(s)) \in Nat /\ Cardinality(Tokens(s)') \in Nat
      /\ Cardinality(Tokens(s)') + Token(t, s) = Cardinality(Tokens(s)) + Token(t, s)'
  BY TokensAre, TokenStep
<1> QED
  BY <1>1, <1>2, <1>3, <1>4, <1>5, <1>6 DEF SumInv

-----------------------------------------------------------------------------
(* A turn of a thread that works on a session                              *)

\* The fields without the bounds of the counts.
Loose == [isConnected : BOOLEAN, disconnecting : BOOLEAN, managed : BOOLEAN,
          socket : {"none", "new", "live", "dead"}, owner : BOOLEAN,
          recvPendingCnt : Int, recvs : Nat, stale : Nat, isSending : BOOLEAN,
          listed : BOOLEAN]

LEMMA MaxRecvsType == MaxRecvs \in Nat /\ MaxStale \in Nat
  BY FiniteAssumption, FS_CardinalityType, BoundsAssumption DEF MaxRecvs

LEMMA FieldsAreLoose == Fields \subseteq Loose
<1> SUFFICES ASSUME NEW f \in Fields
             PROVE  f \in Loose
  OBVIOUS
<1>1. /\ \A n \in 0..MaxRecvs : n \in Nat
      /\ \A n \in (-MaxStale)..MaxRecvs : n \in Int
  BY MaxRecvsType
<1> QED
  BY <1>1 DEF Fields, Loose

LEMMA FieldsFit ==
    ASSUME NEW f \in Loose,
           f.recvPendingCnt <= f.recvs + f.stale,
           f.recvs + f.stale <= f.recvPendingCnt + MaxStale,
           f.recvs + f.stale <= MaxRecvs
    PROVE  f \in Fields
<1>1. /\ f.recvPendingCnt \in Int /\ f.recvs \in Nat /\ f.stale \in Nat
  BY DEF Loose
<1>2. /\ f.recvPendingCnt \in (-MaxStale)..MaxRecvs
      /\ f.recvs \in 0..MaxRecvs /\ f.stale \in 0..MaxRecvs
  BY <1>1, MaxRecvsType
<1> QED
  BY <1>2 DEF Fields, Loose

\* CountInv and SumInv bound the counts.
LEMMA SesType ==
    ASSUME NEW s \in Sessions, TypeOK, NEW f \in Loose,
           ses' = [ses EXCEPT ![s] = f], CountInv(s)', SumInv(s)'
    PROVE  ses' \in [Sessions -> Fields] /\ ses'[s] = f
<1>1. ses \in [Sessions -> Fields] /\ ses'[s] = f
  BY DEF TypeOK
<1>2. /\ f.recvPendingCnt <= f.recvs + f.stale
      /\ f.recvs + f.stale <= f.recvPendingCnt + MaxStale
  BY <1>1 DEF CountInv
<1>3. f.recvs + f.stale <= MaxRecvs
  <2>1. Cardinality(Tokens(s)') \in Nat
    BY TokensAre
  <2>2. Maker(s)' \in Nat
    BY DEF Maker
  <2>3. f.recvs + f.stale + Cardinality(Tokens(s)') + Maker(s)' <= MaxRecvs
    BY <1>1 DEF SumInv
  <2>4. f.recvs \in Nat /\ f.stale \in Nat
    BY DEF Loose
  <2> QED
    BY <2>1, <2>2, <2>3, <2>4, MaxRecvsType
<1>4. f \in Fields
  BY <1>2, <1>3, FieldsFit
<1> QED
  BY <1>1, <1>4

\* What a thread that has turned leaves alone.
LEMMA TurnIsOnly ==
    ASSUME NEW t \in Threads, NEW s \in Sessions, NEW label, NEW B,
           Turn(t, s, label, B), has[t] \in {s, None}
    PROVE  Only(t, s)
  BY DEF Turn, Only

\* A turn changes only the session worked on, or one that a worker takes, and
\* keeps its invariant.
Settled(t, s, label, B, f) ==
    /\ Turn(t, s, label, B) /\ UNCHANGED process
    /\ has[t] = s \/ (has[t] = None /\ t \in Workers /\ s \notin pool)
    /\ f \in Loose /\ ses' = [ses EXCEPT ![s] = f] /\ SesInv(s)'
    /\ f.isConnected => ses[s].isConnected \/ label = "socket"
    /\ label = "disconnect" => ~f.isConnected

\* Then it keeps that of all.
LEMMA TurnKeeps ==
    ASSUME ClientInv, NEW t \in Threads, NEW s \in Sessions, NEW label, NEW B,
           NEW f, Settled(t, s, label, B, f)
    PROVE  ClientInv'
<1> SUFFICES ASSUME has[t] = s \/ (has[t] = None /\ t \in Workers /\ s \notin pool),
                    Turn(t, s, label, B), UNCHANGED process,
                    f \in Loose, ses' = [ses EXCEPT ![s] = f], SesInv(s)',
                    f.isConnected => ses[s].isConnected \/ label = "socket",
                    label = "disconnect" => ~f.isConnected
             PROVE  ClientInv'
  BY DEF Settled
<1>1. TypeOK /\ ListInv /\ OwnInv /\ EndInv /\ \A r \in Sessions : SesInv(r)
  BY DEF ClientInv
<1>2. /\ UNCHANGED <<stage, running, pool, left, local, clientSessions>>
      /\ UNCHANGED <<rest, raced, visited>>
  BY DEF process, lists
<1>3. s # None /\ s \notin pool
  BY <1>1, NoneAssumption DEF OwnInv
<1>4. /\ ses' \in [Sessions -> Fields] /\ ses'[s] = f
      /\ \A r \in Sessions \ {s} : ses'[r] = ses[r]
  <2>1. CountInv(s)' /\ SumInv(s)'
    BY DEF SesInv
  <2>2. ses \in [Sessions -> Fields]
    BY <1>1 DEF TypeOK
  <2> QED
    BY <1>1, <2>1, <2>2, SesType
<1>5. TypeOK'
  BY <1>1, <1>2, <1>4 DEF TypeOK, Turn
<1>6. OwnInv'
  <2>1. /\ \A u \in Threads \ {t} : has'[u] = has[u]
        /\ has'[t] \in {s, None}
        /\ has[t] = s \/ t \notin Connectors \cup {Sender, Main}
    BY RolesAssumption DEF Turn
  <2>2. None \notin pool
    BY <1>1, NoneAssumption DEF TypeOK
  <2>3. \A c \in Connectors : c \in Threads
    BY DEF Threads
  <2>4. Sender \in Threads /\ Main \in Threads
    BY DEF Threads
  <2>5. \A r \in pool : ses'[r] = Fresh
    BY <1>1, <1>3, <1>4 DEF OwnInv, TypeOK
  <2> QED
    BY <1>1, <1>2, <1>3, <2>1, <2>2, <2>3, <2>4, <2>5 DEF OwnInv
<1>7. \A r \in Sessions : SesInv(r)'
  BY <1>1, <1>2, <1>4, TurnIsOnly, Elsewhere
<1>8. EndInv'
  <2>1. /\ On(t) = {label} \cup Rest(t) /\ Rest(t) \subseteq Later[label]
        /\ label \in Labels
        /\ \A u \in Threads \ {t} :
              On(u)' = On(u) /\ has'[u] = has[u] /\ todo'[u] = todo[u]
    BY DEF Turn
  <2>2. todo[t] # <<>>
    BY <2>1, SetOfIs DEF On
  <2>3. stage \notin {"serving", "join sender"} => t # Sender
    BY <1>1, <2>2 DEF EndInv
  <2>4. stage # "disconnect" => t # Main
    BY <1>1, <1>3, RolesAssumption DEF EndInv
  <2>5. Sender \in Threads /\ Main \in Threads
    BY DEF Threads
  <2>6. stage = "cleared" => FALSE
    BY <1>1, <2>2, <2>3, <2>4 DEF EndInv, Threads
  <2>7. ASSUME stage \notin {"serving", "join sender"}, s \in visited,
               f.isConnected
        PROVE  ses[s].isConnected
    <3>1. label = "socket" => t \in Connectors \cup {Sender} /\ has[t] = s
      BY <1>1, <2>1, RolesAssumption DEF ListInv, Role
    <3>2. t \in Connectors => s \notin clientSessions
      BY <1>1, <1>3, RolesAssumption DEF OwnInv
    <3> QED
      BY <1>1, <2>3, <2>7, <3>1, <3>2 DEF TypeOK
  <2>8. ASSUME stage = "disconnect", NEW r \in visited \ rest,
               ses'[r].isConnected
        PROVE  has'[Main] = r /\ "disconnect" \in On(Main)'
    <3>1. ses[r].isConnected /\ r \in Sessions
      BY <1>1, <1>4, <2>7, <2>8 DEF TypeOK
    <3>2. has[Main] = r /\ "disconnect" \in On(Main)
      BY <1>1, <2>8, <3>1 DEF EndInv
    <3>3. t # Main
      <4>1. SUFFICES ASSUME t = Main
                     PROVE  FALSE
        OBVIOUS
      <4>2. "disconnect" \notin Rest(t)
        BY <2>1, LaterIs DEF Labels, After, Loops
      <4>3. label = "disconnect" /\ r = s
        BY <2>1, <3>2, <4>1, <4>2, RolesAssumption
      <4> QED
        BY <1>4, <2>8, <4>3
    <3> QED
      BY <2>1, <2>5, <3>2, <3>3
  <2>9. ASSUME stage = "join threads", NEW r \in visited
        PROVE  ~ses'[r].isConnected
    <3>1. ~ses[r].isConnected /\ r \in Sessions
      BY <1>1, <2>9 DEF EndInv, TypeOK
    <3> QED
      BY <1>4, <2>7, <2>9, <3>1
  <2>10. stage \notin {"serving", "join sender"} => todo'[Sender] = <<>>
    BY <1>1, <2>1, <2>3, <2>5 DEF EndInv
  <2>11. stage # "disconnect" => has'[Main] = None
    BY <1>1, <2>1, <2>4, <2>5 DEF EndInv
  <2> QED
    BY <1>2, <2>6, <2>8, <2>9, <2>10, <2>11 DEF EndInv
<1> QED
  BY <1>5, <1>6, <1>7, <1>8 DEF ClientInv, Turn

-----------------------------------------------------------------------------
(* The steps of Connect, RegisterRecv and Disconnect                       *)

\* A thread that is at a label of a session.
LEMMA OnTurn ==
    ASSUME ClientInv, NEW t \in Threads, NEW label \in Labels \ Loops, At(t, label)
    PROVE  /\ has[t] \in Sessions /\ ses[has[t]] \in Loose
           /\ Role(t, label) /\ label \in On(t) /\ SesInv(has[t])
           /\ ses \in [Sessions -> Fields]
<1>1. /\ TypeOK /\ ListInv /\ \A s \in Sessions : SesInv(s)
  BY DEF ClientInv
<1>2. /\ todo[t] \in Seq(Labels) /\ todo[t] # <<>> /\ Head(todo[t]) = label
      /\ InOrder(todo[t]) /\ EndsInLoop(todo[t])
  BY <1>1 DEF At, TypeOK, ListInv
<1>3. label \in On(t)
  BY <1>2, FitsNone, Spliced DEF On
<1>4. Busy(t)
  BY <1>3 DEF Busy
<1>5. has[t] # None /\ has[t] \in Sessions \cup {None} /\ Role(t, label)
  BY <1>1, <1>3, <1>4 DEF ListInv, TypeOK
<1>6. ses \in [Sessions -> Fields]
  BY <1>1 DEF TypeOK
<1> QED
  BY <1>1, <1>3, <1>5, <1>6, FieldsAreLoose

\* What the other threads do is as before; t has s as long as it is busy.
LEMMA TurnOthers ==
    ASSUME NEW t \in Threads, NEW s, NEW label, NEW B, Turn(t, s, label, B)
    PROVE  /\ \A u \in Threads \ {t} :
                 /\ has'[u] = has[u] /\ On(u)' = On(u)
                 /\ Making(u)' <=> Making(u)
                 /\ Chained(u)' <=> Chained(u)
           /\ has'[t] \in {s, None}
           /\ \A a \in On(t)' : a \notin Loops => has'[t] = s
  BY DEF Turn, Making, Chained, Busy

\* MakeInv of the session that t has worked on.
LEMMA MakeStep ==
    ASSUME NEW t \in Threads, NEW s \in Sessions, NEW label, NEW B,
           Turn(t, s, label, B), has[t] = s, s \in raced' <=> s \in raced, MakeInv(s),
           has'[t] = s /\ Making(t)' => Making(t),
           s \notin raced /\ Making(t) /\ Making(t)' =>
              /\ ~ses'[s].disconnecting /\ ~ses'[s].isSending
              /\ ses'[s].recvs = 0 /\ ses'[s].stale = 0
              /\ ses'[s].recvPendingCnt = 0
              /\ "socket" \notin On(t)' =>
                    /\ ses'[s].isConnected
                    /\ "connect" \in On(t)' => ses'[s].socket = "new"
                    /\ "connect" \notin On(t)' => ses'[s].socket \in {"live", "dead"}
    PROVE  MakeInv(s)'
<1>1. \A u \in Threads \ {t} : /\ has'[u] = has[u]
                               /\ Making(u)' <=> Making(u)
  BY TurnOthers
<1> QED
  BY <1>1 DEF MakeInv

\* SumInv of the session that t has worked on: t holds no recv that it did not
\* hold.
LEMMA SumTurn ==
    ASSUME ClientInv, NEW t \in Threads, NEW s \in Sessions, NEW label, NEW B,
           Turn(t, s, label, B), has[t] = s,
           ses'[s].recvs \in Nat, ses'[s].stale \in Nat,
           ses'[s].recvs + ses'[s].stale = ses[s].recvs + ses[s].stale,
           Making(t)' => Making(t), t \in Workers /\ Posting(t)' => Posting(t)
    PROVE  SumInv(s)'
<1>1. TypeOK /\ ListInv /\ OwnInv /\ SumInv(s)
  BY DEF ClientInv, SesInv
<1>2. Only(t, s)
  BY TurnIsOnly
<1>3. /\ Made(t, s) \in {0, 1} /\ Made(t, s)' \in {0, 1}
      /\ Made(t, s)' = 1 => Made(t, s) = 1
  BY DEF Made
<1>4. /\ Token(t, s) \in {0, 1} /\ Token(t, s)' \in {0, 1}
      /\ Token(t, s)' = 1 => Token(t, s) = 1
  BY DEF Token
<1>5. ses'[s].recvs + ses'[s].stale + Token(t, s)' + Made(t, s)'
         <= ses[s].recvs + ses[s].stale + Token(t, s) + Made(t, s)
  <2>1. ses'[s].recvs + ses'[s].stale \in Nat
    OBVIOUS
  <2> QED
    BY <1>3, <1>4, <2>1
<1> QED
  BY <1>1, <1>2, <1>3, <1>5, SumStep

LEMMA CreateSocketKeeps ==
    ASSUME ClientInv, NEW t \in Threads, NEW s \in Sessions, has[t] = s,
           CreateSocket(t)
    PROVE  ClientInv'
<1> DEFINE f == [ses[s] EXCEPT !.socket = "new", !.isConnected = TRUE]
<1>1. /\ TypeOK /\ ListInv /\ OwnInv /\ UNCHANGED process
      /\ "socket" \in Labels \ Loops /\ At(t, "socket")
  BY DEF ClientInv, CreateSocket, Labels, Loops
<1>2. /\ ses[s] \in Loose /\ Role(t, "socket")
      /\ SesInv(s) /\ ses \in [Sessions -> Fields]
  BY <1>1, OnTurn
<1>3. Turn(t, s, "socket", {})
  <2>1. Go(t, s, <<>>)
    BY DEF CreateSocket, Then
  <2>2. Fits("socket", <<>>) /\ SetOf(<<>>) = {}
    BY <1>1, FitsNone, SetOfIs
  <2> QED
    BY <1>1, <2>1, <2>2, GoFacts
<1>4. /\ Rest(t) \subseteq {"connect"} \cup Loops
      /\ On(t) = {"socket"} \cup Rest(t) /\ On(t)' = Rest(t)
  BY <1>3, LaterIs DEF Turn
<1>5. /\ f \in Loose /\ ses' = [ses EXCEPT ![s] = f] /\ ses'[s] = f
  BY <1>2 DEF CreateSocket, Loose
<1>6. /\ f.socket = "new" /\ f.isConnected
      /\ f.disconnecting = ses[s].disconnecting /\ f.owner = ses[s].owner
      /\ f.recvs = ses[s].recvs /\ f.stale = ses[s].stale
      /\ f.recvPendingCnt = ses[s].recvPendingCnt
      /\ f.isSending = ses[s].isSending /\ f.listed = ses[s].listed
  BY <1>2 DEF Loose
<1> HIDE DEF f
<1>7. MakeInv(s)'
  <2>1. Making(t)
    BY <1>2, <1>4, RolesAssumption DEF Making, Role, Loops
  <2>2. raced' = raced
    BY <1>1 DEF process
  <2>3. MakeInv(s)
    BY <1>2 DEF SesInv
  <2> QED
    BY <1>3, <1>4, <1>5, <1>6, <2>1, <2>2, <2>3, MakeStep
      DEF MakeInv, Making, Loops
<1>8. LiveInv(s)'
  <2>1. Making(t)
    BY <1>2, <1>4, RolesAssumption DEF Making, Role, Loops
  <2> QED
    BY <1>1, <1>2, <1>3, <1>4, <1>5, <1>6, <2>1, TurnOthers
      DEF LiveInv, SesInv, MakeInv, Chained, Loops, process
<1>9. CountInv(s)'
  BY <1>2, <1>5, <1>6 DEF CountInv, SesInv
<1>10. SumInv(s)'
  <2>1. /\ ses'[s].recvs \in Nat /\ ses'[s].stale \in Nat
        /\ ses'[s].recvs + ses'[s].stale = ses[s].recvs + ses[s].stale
    BY <1>2, <1>5, <1>6 DEF Loose
  <2>2. /\ Making(t)
        /\ t \in Workers /\ Posting(t)' => Posting(t)
    BY <1>2, <1>4, RolesAssumption DEF Making, Posting, Role, Loops
  <2> QED
    BY <1>3, <2>1, <2>2, SumTurn
<1>11. CloseInv(s)'
  BY <1>5, <1>6 DEF CloseInv
<1>12. SesInv(s)'
  BY <1>7, <1>8, <1>9, <1>10, <1>11 DEF SesInv
<1>13. Settled(t, s, "socket", {}, f)
  BY <1>1, <1>3, <1>5, <1>12 DEF Settled
<1> QED
  BY <1>13, TurnKeeps

LEMMA ConnectOkKeeps ==
    ASSUME ClientInv, NEW t \in Threads, NEW s \in Sessions, has[t] = s,
           ConnectOk(t)
    PROVE  ClientInv'
<1> DEFINE f == [ses[s] EXCEPT !.socket = "live"]
<1>1. /\ TypeOK /\ ListInv /\ OwnInv /\ UNCHANGED process
      /\ "connect" \in Labels \ Loops /\ At(t, "connect")
      /\ ses[s].socket = "new"
  BY DEF ClientInv, ConnectOk, Labels, Loops, Of
<1>2. /\ ses[s] \in Loose /\ Role(t, "connect")
      /\ SesInv(s) /\ ses \in [Sessions -> Fields]
  BY <1>1, OnTurn
<1> DEFINE B == {"register"}
<1>3. Turn(t, s, "connect", B)
  <2>1. Go(t, s, <<"register">>)
    BY DEF ConnectOk, Then
  <2>2. Fits("connect", <<"register">>) /\ SetOf(<<"register">>) = B
    BY <1>1, FitsOne, SetOfIs, LaterIs DEF Labels, Loops, After
  <2>3. \A a \in B : Role(t, a)
    BY <1>2 DEF Role
  <2>4. "reset" \notin B
    OBVIOUS
  <2> QED
    BY <1>1, <2>1, <2>2, <2>3, <2>4, GoFacts
<1>4. /\ Rest(t) \subseteq Loops
      /\ On(t) = {"connect"} \cup Rest(t) /\ On(t)' = B \cup Rest(t)
  BY <1>3, LaterIs DEF Turn
<1>5. f \in Loose /\ ses' = [ses EXCEPT ![s] = f] /\ ses'[s] = f
  BY <1>2 DEF ConnectOk, Loose
<1>6. /\ f.isConnected = ses[s].isConnected
      /\ f.disconnecting = ses[s].disconnecting
      /\ f.socket = "live"
      /\ f.owner = ses[s].owner
      /\ f.recvPendingCnt = ses[s].recvPendingCnt
      /\ f.recvs = ses[s].recvs
      /\ f.stale = ses[s].stale
      /\ f.isSending = ses[s].isSending
      /\ f.listed = ses[s].listed
  BY <1>2 DEF Loose
<1> HIDE DEF f
<1>7. /\ raced' = raced /\ MakeInv(s) /\ LiveInv(s) /\ CountInv(s) /\ CloseInv(s)
  BY <1>1, <1>2 DEF process, SesInv
<1>8. Making(t)' => Making(t)
  BY <1>2, <1>3, <1>4, RolesAssumption DEF Making, Role, Loops, After
<1>9. MakeInv(s)'
  BY <1>3, <1>4, <1>5, <1>6, <1>7, <1>8, MakeStep DEF MakeInv, Making, Loops, After
<1>10. LiveInv(s)'
  BY <1>1, <1>2, <1>3, <1>4, <1>5, <1>6, <1>7, RolesAssumption, TurnOthers
    DEF LiveInv, MakeInv, Chained, Making, Role, Loops, After
<1>11. CountInv(s)'
  <2>1. /\ ses[s].recvs \in Nat /\ ses[s].stale \in Nat
        /\ ses[s].recvPendingCnt \in Int
    BY <1>2 DEF Loose
  <2> QED
    BY <1>5, <1>6, <1>7, <2>1, MaxRecvsType DEF CountInv
<1>12. SumInv(s)'
  <2>1. /\ ses'[s].recvs \in Nat /\ ses'[s].stale \in Nat
        /\ ses'[s].recvs + ses'[s].stale = ses[s].recvs + ses[s].stale
    BY <1>2, <1>5, <1>6 DEF Loose
  <2>2. t \in Workers /\ Posting(t)' => Posting(t)
    BY <1>2, <1>3, <1>4, RolesAssumption DEF Posting, Role, Loops, After
  <2> QED
    BY <1>3, <1>8, <2>1, <2>2, SumTurn
<1>13. CloseInv(s)'
  BY <1>1, <1>3, <1>4, <1>5, <1>6, <1>7, TurnOthers
    DEF CloseInv, Loops, After
<1>14. SesInv(s)'
  BY <1>9, <1>10, <1>11, <1>12, <1>13 DEF SesInv
<1>15. Settled(t, s, "connect", B, f)
  BY <1>1, <1>3, <1>5, <1>6, <1>14 DEF Settled
<1> QED
  BY <1>15, TurnKeeps

LEMMA RegisterKeeps ==
    ASSUME ClientInv, NEW t \in Threads, NEW s \in Sessions, has[t] = s,
           Register(t)
    PROVE  ClientInv'
<1> DEFINE f == ses[s]
<1>1. /\ TypeOK /\ ListInv /\ OwnInv /\ UNCHANGED process
      /\ "register" \in Labels \ Loops /\ At(t, "register")
  BY DEF ClientInv, Register, Labels, Loops
<1>2. /\ ses[s] \in Loose /\ Role(t, "register")
      /\ SesInv(s) /\ ses \in [Sessions -> Fields]
  BY <1>1, OnTurn
<1>3. PICK B : /\ Turn(t, s, "register", B)
                /\ \/ ses[s].socket = "none" /\ B = {}
                   \/ B = {"recv", "activate"}
                   \/ B = {"recv", "activate", "keep"}
  <2>1. \/ ses[s].socket = "none" /\ Go(t, s, <<>>)
        \/ ses[s].socket # "none" /\ t = Sender /\ Go(t, s, <<"recv", "activate">>)
        \/ ses[s].socket # "none" /\ t # Sender /\ Go(t, s, <<"recv", "activate", "keep">>)
    BY DEF Register, Then, Of
  <2>2. ASSUME Go(t, s, <<>>), ses[s].socket = "none"
        PROVE  Turn(t, s, "register", {})
    <3>1. Fits("register", <<>>) /\ SetOf(<<>>) = {}
      BY <1>1, FitsNone, SetOfIs
    <3>2. \A a \in {} : Role(t, a)
      BY <1>2, <2>2, RolesAssumption DEF Role, Threads
    <3>3. "reset" \notin {}
      OBVIOUS
    <3> QED
      BY <1>1, <2>2, <3>1, <3>2, <3>3, GoFacts
  <2>3. ASSUME Go(t, s, <<"recv", "activate">>), ses[s].socket # "none" /\ t = Sender
        PROVE  Turn(t, s, "register", {"recv", "activate"})
    <3>1. Fits("register", <<"recv", "activate">>) /\ SetOf(<<"recv", "activate">>) = {"recv", "activate"}
      BY <1>1, FitsTwo, SetOfIs, LaterIs DEF Labels, Loops, After
    <3>2. \A a \in {"recv", "activate"} : Role(t, a)
      BY <1>2, <2>3, RolesAssumption DEF Role, Threads
    <3>3. "reset" \notin {"recv", "activate"}
      OBVIOUS
    <3> QED
      BY <1>1, <2>3, <3>1, <3>2, <3>3, GoFacts
  <2>4. ASSUME Go(t, s, <<"recv", "activate", "keep">>), ses[s].socket # "none" /\ t # Sender
        PROVE  Turn(t, s, "register", {"recv", "activate", "keep"})
    <3>1. Fits("register", <<"recv", "activate", "keep">>) /\ SetOf(<<"recv", "activate", "keep">>) = {"recv", "activate", "keep"}
      <4>1. /\ "recv" \in Labels /\ Later["register"] \subseteq Later["recv"]
            /\ "activate" \in Labels /\ Later["register"] \subseteq Later["activate"]
            /\ "keep" \in Labels /\ Later["register"] \subseteq Later["keep"]
        BY LaterIs DEF Labels
      <4>2. /\ "activate" \in Later["recv"] /\ "keep" \in Later["recv"]
            /\ "keep" \in Later["activate"] /\ "register" \in Labels \ Loops
        BY <1>1, LaterIs
      <4>3. Fits("register", <<"recv", "activate", "keep">>)
        BY <4>1, <4>2, FitsThree
      <4> QED
        BY <4>3, SetOfIs
    <3>2. \A a \in {"recv", "activate", "keep"} : Role(t, a)
      BY <1>2, <2>4, RolesAssumption DEF Role, Threads
    <3>3. "reset" \notin {"recv", "activate", "keep"}
      OBVIOUS
    <3> QED
      BY <1>1, <2>4, <3>1, <3>2, <3>3, GoFacts
  <2> QED
    BY <2>1, <2>2, <2>3, <2>4
<1>4. /\ Rest(t) \subseteq Loops
      /\ On(t) = {"register"} \cup Rest(t) /\ On(t)' = B \cup Rest(t)
  BY <1>3, LaterIs DEF Turn
<1>5. f \in Loose /\ ses' = [ses EXCEPT ![s] = f] /\ ses'[s] = f
  BY <1>2 DEF Register
<1>6. /\ f.isConnected = ses[s].isConnected
      /\ f.disconnecting = ses[s].disconnecting
      /\ f.socket = ses[s].socket
      /\ f.owner = ses[s].owner
      /\ f.recvPendingCnt = ses[s].recvPendingCnt
      /\ f.recvs = ses[s].recvs
      /\ f.stale = ses[s].stale
      /\ f.isSending = ses[s].isSending
      /\ f.listed = ses[s].listed
  BY <1>2 DEF Loose
<1> HIDE DEF f
<1>7. /\ raced' = raced /\ MakeInv(s) /\ LiveInv(s) /\ CountInv(s) /\ CloseInv(s)
  BY <1>1, <1>2 DEF process, SesInv
<1>8. Making(t)' => Making(t)
  BY <1>2, <1>3, <1>4, RolesAssumption DEF Making, Role, Loops, After
<1>9. MakeInv(s)'
  BY <1>3, <1>4, <1>5, <1>6, <1>7, <1>8, MakeStep DEF MakeInv, Making, Loops, After
<1>10. LiveInv(s)'
  BY <1>1, <1>2, <1>3, <1>4, <1>5, <1>6, <1>7, RolesAssumption, TurnOthers
    DEF LiveInv, MakeInv, Chained, Making, Role, Loops, After
<1>11. CountInv(s)'
  <2>1. /\ ses[s].recvs \in Nat /\ ses[s].stale \in Nat
        /\ ses[s].recvPendingCnt \in Int
    BY <1>2 DEF Loose
  <2> QED
    BY <1>5, <1>6, <1>7, <2>1, MaxRecvsType DEF CountInv
<1>12. SumInv(s)'
  <2>1. /\ ses'[s].recvs \in Nat /\ ses'[s].stale \in Nat
        /\ ses'[s].recvs + ses'[s].stale = ses[s].recvs + ses[s].stale
    BY <1>2, <1>5, <1>6 DEF Loose
  <2>2. t \in Workers /\ Posting(t)' => Posting(t)
    BY <1>2, <1>3, <1>4, RolesAssumption DEF Posting, Role, Loops, After
  <2> QED
    BY <1>3, <1>8, <2>1, <2>2, SumTurn
<1>13. CloseInv(s)'
  BY <1>1, <1>3, <1>4, <1>5, <1>6, <1>7, TurnOthers
    DEF CloseInv, Loops, After
<1>14. SesInv(s)'
  BY <1>9, <1>10, <1>11, <1>12, <1>13 DEF SesInv
<1>15. Settled(t, s, "register", B, f)
  BY <1>1, <1>3, <1>5, <1>6, <1>14 DEF Settled
<1> QED
  BY <1>15, TurnKeeps

LEMMA ActivateKeeps ==
    ASSUME ClientInv, NEW t \in Threads, NEW s \in Sessions, has[t] = s,
           Activate(t)
    PROVE  ClientInv'
<1> DEFINE f == [ses[s] EXCEPT !.listed = TRUE]
<1>1. /\ TypeOK /\ ListInv /\ OwnInv /\ UNCHANGED process
      /\ "activate" \in Labels \ Loops /\ At(t, "activate")
  BY DEF ClientInv, Activate, Labels, Loops
<1>2. /\ ses[s] \in Loose /\ Role(t, "activate")
      /\ SesInv(s) /\ ses \in [Sessions -> Fields]
  BY <1>1, OnTurn
<1> DEFINE B == {}
<1>3. Turn(t, s, "activate", B)
  <2>1. Go(t, s, <<>>)
    BY DEF Activate, Then
  <2>2. Fits("activate", <<>>) /\ SetOf(<<>>) = B
    BY <1>1, FitsNone, SetOfIs
  <2> QED
    BY <1>1, <2>1, <2>2, GoFacts
<1>4. /\ Rest(t) \subseteq {"keep"} \cup Loops
      /\ On(t) = {"activate"} \cup Rest(t) /\ On(t)' = B \cup Rest(t)
  BY <1>3, LaterIs DEF Turn
<1>5. f \in Loose /\ ses' = [ses EXCEPT ![s] = f] /\ ses'[s] = f
  BY <1>2 DEF Activate, Loose
<1>6. /\ f.isConnected = ses[s].isConnected
      /\ f.disconnecting = ses[s].disconnecting
      /\ f.socket = ses[s].socket
      /\ f.owner = ses[s].owner
      /\ f.recvPendingCnt = ses[s].recvPendingCnt
      /\ f.recvs = ses[s].recvs
      /\ f.stale = ses[s].stale
      /\ f.isSending = ses[s].isSending
      /\ f.listed
  BY <1>2 DEF Loose
<1> HIDE DEF f
<1>7. /\ raced' = raced /\ MakeInv(s) /\ LiveInv(s) /\ CountInv(s) /\ CloseInv(s)
  BY <1>1, <1>2 DEF process, SesInv
<1>8. Making(t)' => Making(t)
  BY <1>2, <1>3, <1>4, RolesAssumption DEF Making, Role, Loops, After
<1>9. MakeInv(s)'
  BY <1>3, <1>4, <1>5, <1>6, <1>7, <1>8, MakeStep DEF MakeInv, Making, Loops, After
<1>10. LiveInv(s)'
  BY <1>1, <1>2, <1>3, <1>4, <1>5, <1>6, <1>7, RolesAssumption, TurnOthers
    DEF LiveInv, MakeInv, Chained, Making, Role, Loops, After
<1>11. CountInv(s)'
  <2>1. /\ ses[s].recvs \in Nat /\ ses[s].stale \in Nat
        /\ ses[s].recvPendingCnt \in Int
    BY <1>2 DEF Loose
  <2> QED
    BY <1>5, <1>6, <1>7, <2>1, MaxRecvsType DEF CountInv
<1>12. SumInv(s)'
  <2>1. /\ ses'[s].recvs \in Nat /\ ses'[s].stale \in Nat
        /\ ses'[s].recvs + ses'[s].stale = ses[s].recvs + ses[s].stale
    BY <1>2, <1>5, <1>6 DEF Loose
  <2>2. t \in Workers /\ Posting(t)' => Posting(t)
    BY <1>2, <1>3, <1>4, RolesAssumption DEF Posting, Role, Loops, After
  <2> QED
    BY <1>3, <1>8, <2>1, <2>2, SumTurn
<1>13. CloseInv(s)'
  BY <1>1, <1>3, <1>4, <1>5, <1>6, <1>7, TurnOthers
    DEF CloseInv, Loops, After
<1>14. SesInv(s)'
  BY <1>9, <1>10, <1>11, <1>12, <1>13 DEF SesInv
<1>15. Settled(t, s, "activate", B, f)
  BY <1>1, <1>3, <1>5, <1>6, <1>14 DEF Settled
<1> QED
  BY <1>15, TurnKeeps

LEMMA RegisterRecvKeeps ==
    ASSUME ClientInv, NEW t \in Threads, NEW s \in Sessions, has[t] = s,
           RegisterRecv(t)
    PROVE  ClientInv'
<1> DEFINE f == ses[s]
<1>1. /\ TypeOK /\ ListInv /\ OwnInv /\ UNCHANGED process
      /\ "recv" \in Labels \ Loops /\ At(t, "recv")
  BY DEF ClientInv, RegisterRecv, Labels, Loops
<1>2. /\ ses[s] \in Loose /\ Role(t, "recv")
      /\ SesInv(s) /\ ses \in [Sessions -> Fields]
  BY <1>1, OnTurn
<1>3. PICK B : /\ Turn(t, s, "recv", B)
                /\ B = IF ses[s].isConnected /\ ~ses[s].disconnecting THEN {"post"} ELSE {}
  <2>1. \/ ses[s].isConnected /\ ~ses[s].disconnecting /\ Go(t, s, <<"post">>)
        \/ ~(ses[s].isConnected /\ ~ses[s].disconnecting) /\ Go(t, s, <<>>)
    BY DEF RegisterRecv, Then, Of
  <2>2. ASSUME Go(t, s, <<"post">>), ses[s].isConnected /\ ~ses[s].disconnecting
        PROVE  Turn(t, s, "recv", {"post"})
    <3>1. Fits("recv", <<"post">>) /\ SetOf(<<"post">>) = {"post"}
      BY <1>1, FitsOne, SetOfIs, LaterIs DEF Labels, Loops, After
    <3>2. \A a \in {"post"} : Role(t, a)
      BY <1>2, <2>2, RolesAssumption DEF Role, Threads
    <3>3. "reset" \notin {"post"}
      OBVIOUS
    <3> QED
      BY <1>1, <2>2, <3>1, <3>2, <3>3, GoFacts
  <2>3. ASSUME Go(t, s, <<>>), ~(ses[s].isConnected /\ ~ses[s].disconnecting)
        PROVE  Turn(t, s, "recv", {})
    <3>1. Fits("recv", <<>>) /\ SetOf(<<>>) = {}
      BY <1>1, FitsNone, SetOfIs
    <3>2. \A a \in {} : Role(t, a)
      BY <1>2, <2>3, RolesAssumption DEF Role, Threads
    <3>3. "reset" \notin {}
      OBVIOUS
    <3> QED
      BY <1>1, <2>3, <3>1, <3>2, <3>3, GoFacts
  <2> QED
    BY <2>1, <2>2, <2>3
<1>4. /\ Rest(t) \subseteq {"activate", "keep"} \cup Loops
      /\ On(t) = {"recv"} \cup Rest(t) /\ On(t)' = B \cup Rest(t)
  BY <1>3, LaterIs DEF Turn
<1>5. f \in Loose /\ ses' = [ses EXCEPT ![s] = f] /\ ses'[s] = f
  BY <1>2 DEF RegisterRecv
<1>6. /\ f.isConnected = ses[s].isConnected
      /\ f.disconnecting = ses[s].disconnecting
      /\ f.socket = ses[s].socket
      /\ f.owner = ses[s].owner
      /\ f.recvPendingCnt = ses[s].recvPendingCnt
      /\ f.recvs = ses[s].recvs
      /\ f.stale = ses[s].stale
      /\ f.isSending = ses[s].isSending
      /\ f.listed = ses[s].listed
  BY <1>2 DEF Loose
<1> HIDE DEF f
<1>7. /\ raced' = raced /\ MakeInv(s) /\ LiveInv(s) /\ CountInv(s) /\ CloseInv(s)
  BY <1>1, <1>2 DEF process, SesInv
<1>8. Making(t)' => Making(t)
  BY <1>2, <1>3, <1>4, RolesAssumption DEF Making, Role, Loops, After
<1>9. MakeInv(s)'
  BY <1>3, <1>4, <1>5, <1>6, <1>7, <1>8, MakeStep DEF MakeInv, Making, Loops, After
<1>10. LiveInv(s)'
  BY <1>1, <1>2, <1>3, <1>4, <1>5, <1>6, <1>7, RolesAssumption, TurnOthers
    DEF LiveInv, MakeInv, Chained, Making, Role, Loops, After
<1>11. CountInv(s)'
  <2>1. /\ ses[s].recvs \in Nat /\ ses[s].stale \in Nat
        /\ ses[s].recvPendingCnt \in Int
    BY <1>2 DEF Loose
  <2> QED
    BY <1>5, <1>6, <1>7, <2>1, MaxRecvsType DEF CountInv
<1>12. SumInv(s)'
  <2>1. /\ ses'[s].recvs \in Nat /\ ses'[s].stale \in Nat
        /\ ses'[s].recvs + ses'[s].stale = ses[s].recvs + ses[s].stale
    BY <1>2, <1>5, <1>6 DEF Loose
  <2>2. t \in Workers /\ Posting(t)' => Posting(t)
    BY <1>2, <1>3, <1>4, RolesAssumption DEF Posting, Role, Loops, After
  <2> QED
    BY <1>3, <1>8, <2>1, <2>2, SumTurn
<1>13. CloseInv(s)'
  BY <1>1, <1>3, <1>4, <1>5, <1>6, <1>7, TurnOthers
    DEF CloseInv, Loops, After
<1>14. SesInv(s)'
  BY <1>9, <1>10, <1>11, <1>12, <1>13 DEF SesInv
<1>15. Settled(t, s, "recv", B, f)
  BY <1>1, <1>3, <1>5, <1>6, <1>14 DEF Settled
<1> QED
  BY <1>15, TurnKeeps

LEMMA PostOkKeeps ==
    ASSUME ClientInv, NEW t \in Threads, NEW s \in Sessions, has[t] = s,
           PostOk(t)
    PROVE  ClientInv'
<1> DEFINE f == [ses[s] EXCEPT !.owner = TRUE, !.recvPendingCnt = @ + 1, !.recvs = @ + 1]
<1>1. /\ TypeOK /\ ListInv /\ OwnInv /\ UNCHANGED process
      /\ "post" \in Labels \ Loops /\ At(t, "post")
  BY DEF ClientInv, PostOk, Labels, Loops
<1>2. /\ ses[s] \in Loose /\ Role(t, "post")
      /\ SesInv(s) /\ ses \in [Sessions -> Fields]
  BY <1>1, OnTurn
<1> DEFINE B == {}
<1>3. Turn(t, s, "post", B)
  <2>1. Go(t, s, <<>>)
    BY DEF PostOk, Then
  <2>2. Fits("post", <<>>) /\ SetOf(<<>>) = B
    BY <1>1, FitsNone, SetOfIs
  <2> QED
    BY <1>1, <2>1, <2>2, GoFacts
<1>4. /\ Rest(t) \subseteq After
      /\ On(t) = {"post"} \cup Rest(t) /\ On(t)' = B \cup Rest(t)
  BY <1>3, LaterIs DEF Turn
<1>5. f \in Loose /\ ses' = [ses EXCEPT ![s] = f] /\ ses'[s] = f
  BY <1>2 DEF PostOk, Loose
<1>6. /\ f.isConnected = ses[s].isConnected
      /\ f.disconnecting = ses[s].disconnecting
      /\ f.socket = ses[s].socket
      /\ f.owner
      /\ f.recvPendingCnt = ses[s].recvPendingCnt + 1
      /\ f.recvs = ses[s].recvs + 1
      /\ f.stale = ses[s].stale
      /\ f.isSending = ses[s].isSending
      /\ f.listed = ses[s].listed
  BY <1>2 DEF Loose
<1> HIDE DEF f
<1>7. /\ raced' = raced /\ MakeInv(s) /\ LiveInv(s) /\ CountInv(s) /\ CloseInv(s)
  BY <1>1, <1>2 DEF process, SesInv
<1>8. Making(t)' => Making(t)
  BY <1>2, <1>3, <1>4, RolesAssumption DEF Making, Role, Loops, After
<1>9. MakeInv(s)'
  BY <1>3, <1>4, <1>5, <1>6, <1>7, <1>8, MakeStep DEF MakeInv, Making, Loops, After
<1>10. LiveInv(s)'
  BY <1>1, <1>2, <1>3, <1>4, <1>5, <1>6, <1>7, RolesAssumption, TurnOthers
    DEF LiveInv, MakeInv, Chained, Making, Role, Loops, After
<1>11. CountInv(s)'
  <2>1. /\ ses[s].recvs \in Nat /\ ses[s].stale \in Nat
        /\ ses[s].recvPendingCnt \in Int
    BY <1>2 DEF Loose
  <2> QED
    BY <1>5, <1>6, <1>7, <2>1, MaxRecvsType DEF CountInv
<1>12. SumInv(s)'
  <2>1. Only(t, s)
    BY <1>3, TurnIsOnly
  <2>2. /\ Made(t, s)' = 0 /\ Token(t, s)' = 0
        /\ Made(t, s) + Token(t, s) = 1
    BY <1>2, <1>4, RolesAssumption
      DEF Made, Token, Making, Posting, Loops, After
  <2>3. /\ ses'[s].recvs \in Nat /\ ses'[s].stale \in Nat
        /\ ses[s].recvs \in Nat /\ ses[s].stale \in Nat
        /\ ses'[s].recvs + ses'[s].stale = ses[s].recvs + ses[s].stale + 1
    BY <1>2, <1>5, <1>6 DEF Loose
  <2>4. ses'[s].recvs + ses'[s].stale + Token(t, s)' + Made(t, s)'
           <= ses[s].recvs + ses[s].stale + Token(t, s) + Made(t, s)
    <3>1. Made(t, s) \in {0, 1} /\ Token(t, s) \in {0, 1}
      BY DEF Made, Token
    <3> QED
      BY <2>2, <2>3, <3>1
  <2> QED
    BY <1>1, <1>2, <2>1, <2>2, <2>3, <2>4, SumStep DEF SesInv
<1>13. CloseInv(s)'
  BY <1>1, <1>3, <1>4, <1>5, <1>6, <1>7, TurnOthers
    DEF CloseInv, Loops, After
<1>14. SesInv(s)'
  BY <1>9, <1>10, <1>11, <1>12, <1>13 DEF SesInv
<1>15. Settled(t, s, "post", B, f)
  BY <1>1, <1>3, <1>5, <1>6, <1>14 DEF Settled
<1> QED
  BY <1>15, TurnKeeps

LEMMA PostFailsKeeps ==
    ASSUME ClientInv, NEW t \in Threads, NEW s \in Sessions, has[t] = s,
           PostFails(t)
    PROVE  ClientInv'
<1> DEFINE f == [ses[s] EXCEPT !.owner = FALSE]
<1>1. /\ TypeOK /\ ListInv /\ OwnInv /\ UNCHANGED process
      /\ "post" \in Labels \ Loops /\ At(t, "post")
  BY DEF ClientInv, PostFails, Labels, Loops
<1>2. /\ ses[s] \in Loose /\ Role(t, "post")
      /\ SesInv(s) /\ ses \in [Sessions -> Fields]
  BY <1>1, OnTurn
<1> DEFINE B == {"disconnect", "release"}
<1>3. Turn(t, s, "post", B)
  <2>1. Go(t, s, <<"disconnect", "release">>)
    BY DEF PostFails, Then
  <2>2. Fits("post", <<"disconnect", "release">>) /\ SetOf(<<"disconnect", "release">>) = B
    BY <1>1, FitsTwo, SetOfIs, LaterIs DEF Labels, Loops, After
  <2>3. \A a \in B : Role(t, a)
    BY <1>2 DEF Role
  <2>4. "reset" \notin B
    OBVIOUS
  <2> QED
    BY <1>1, <2>1, <2>2, <2>3, <2>4, GoFacts
<1>4. /\ Rest(t) \subseteq After
      /\ On(t) = {"post"} \cup Rest(t) /\ On(t)' = B \cup Rest(t)
  BY <1>3, LaterIs DEF Turn
<1>5. f \in Loose /\ ses' = [ses EXCEPT ![s] = f] /\ ses'[s] = f
  BY <1>2 DEF PostFails, Loose
<1>6. /\ f.isConnected = ses[s].isConnected
      /\ f.disconnecting = ses[s].disconnecting
      /\ f.socket = ses[s].socket
      /\ ~f.owner
      /\ f.recvPendingCnt = ses[s].recvPendingCnt
      /\ f.recvs = ses[s].recvs
      /\ f.stale = ses[s].stale
      /\ f.isSending = ses[s].isSending
      /\ f.listed = ses[s].listed
  BY <1>2 DEF Loose
<1> HIDE DEF f
<1>7. /\ raced' = raced /\ MakeInv(s) /\ LiveInv(s) /\ CountInv(s) /\ CloseInv(s)
  BY <1>1, <1>2 DEF process, SesInv
<1>8. Making(t)' => Making(t)
  BY <1>2, <1>3, <1>4, RolesAssumption DEF Making, Role, Loops, After
<1>9. MakeInv(s)'
  BY <1>3, <1>4, <1>5, <1>6, <1>7, <1>8, MakeStep DEF MakeInv, Making, Loops, After
<1>10. LiveInv(s)'
  BY <1>1, <1>2, <1>3, <1>4, <1>5, <1>6, <1>7, RolesAssumption, TurnOthers
    DEF LiveInv, MakeInv, Chained, Making, Role, Loops, After
<1>11. CountInv(s)'
  <2>1. /\ ses[s].recvs \in Nat /\ ses[s].stale \in Nat
        /\ ses[s].recvPendingCnt \in Int
    BY <1>2 DEF Loose
  <2> QED
    BY <1>5, <1>6, <1>7, <2>1, MaxRecvsType DEF CountInv
<1>12. SumInv(s)'
  <2>1. /\ ses'[s].recvs \in Nat /\ ses'[s].stale \in Nat
        /\ ses'[s].recvs + ses'[s].stale = ses[s].recvs + ses[s].stale
    BY <1>2, <1>5, <1>6 DEF Loose
  <2>2. t \in Workers /\ Posting(t)' => Posting(t)
    BY <1>2, <1>3, <1>4, RolesAssumption DEF Posting, Role, Loops, After
  <2> QED
    BY <1>3, <1>8, <2>1, <2>2, SumTurn
<1>13. CloseInv(s)'
  BY <1>1, <1>3, <1>4, <1>5, <1>6, <1>7, TurnOthers
    DEF CloseInv, Loops, After
<1>14. SesInv(s)'
  BY <1>9, <1>10, <1>11, <1>12, <1>13 DEF SesInv
<1>15. Settled(t, s, "post", B, f)
  BY <1>1, <1>3, <1>5, <1>6, <1>14 DEF Settled
<1> QED
  BY <1>15, TurnKeeps

LEMMA DisconnectKeeps ==
    ASSUME ClientInv, NEW t \in Threads, NEW s \in Sessions, has[t] = s,
           Disconnect(t)
    PROVE  ClientInv'
<1> DEFINE f == [ses[s] EXCEPT !.isConnected = FALSE]
<1>1. /\ TypeOK /\ ListInv /\ OwnInv /\ UNCHANGED process
      /\ "disconnect" \in Labels \ Loops /\ At(t, "disconnect")
  BY DEF ClientInv, Disconnect, Labels, Loops
<1>2. /\ ses[s] \in Loose /\ Role(t, "disconnect")
      /\ SesInv(s) /\ ses \in [Sessions -> Fields]
  BY <1>1, OnTurn
<1>3. PICK B : /\ Turn(t, s, "disconnect", B)
                /\ B = IF ses[s].isConnected THEN {"mark", "close"} ELSE {"mark", "release"}
  <2>1. \/ ses[s].isConnected /\ Go(t, s, <<"mark", "close">>)
        \/ ~ses[s].isConnected /\ Go(t, s, <<"mark", "release">>)
    BY DEF Disconnect, Then, Of
  <2>2. ASSUME Go(t, s, <<"mark", "close">>), ses[s].isConnected
        PROVE  Turn(t, s, "disconnect", {"mark", "close"})
    <3>1. Fits("disconnect", <<"mark", "close">>) /\ SetOf(<<"mark", "close">>) = {"mark", "close"}
      BY <1>1, FitsTwo, SetOfIs, LaterIs DEF Labels, Loops, After
    <3>2. \A a \in {"mark", "close"} : Role(t, a)
      BY <1>2, <2>2, RolesAssumption DEF Role, Threads
    <3>3. "reset" \notin {"mark", "close"}
      OBVIOUS
    <3> QED
      BY <1>1, <2>2, <3>1, <3>2, <3>3, GoFacts
  <2>3. ASSUME Go(t, s, <<"mark", "release">>), ~ses[s].isConnected
        PROVE  Turn(t, s, "disconnect", {"mark", "release"})
    <3>1. Fits("disconnect", <<"mark", "release">>) /\ SetOf(<<"mark", "release">>) = {"mark", "release"}
      BY <1>1, FitsTwo, SetOfIs, LaterIs DEF Labels, Loops, After
    <3>2. \A a \in {"mark", "release"} : Role(t, a)
      BY <1>2, <2>3, RolesAssumption DEF Role, Threads
    <3>3. "reset" \notin {"mark", "release"}
      OBVIOUS
    <3> QED
      BY <1>1, <2>3, <3>1, <3>2, <3>3, GoFacts
  <2> QED
    BY <2>1, <2>2, <2>3
<1>4. /\ Rest(t) \subseteq After
      /\ On(t) = {"disconnect"} \cup Rest(t) /\ On(t)' = B \cup Rest(t)
  BY <1>3, LaterIs DEF Turn
<1>5. f \in Loose /\ ses' = [ses EXCEPT ![s] = f] /\ ses'[s] = f
  BY <1>2 DEF Disconnect, Loose
<1>6. /\ ~f.isConnected
      /\ f.disconnecting = ses[s].disconnecting
      /\ f.socket = ses[s].socket
      /\ f.owner = ses[s].owner
      /\ f.recvPendingCnt = ses[s].recvPendingCnt
      /\ f.recvs = ses[s].recvs
      /\ f.stale = ses[s].stale
      /\ f.isSending = ses[s].isSending
      /\ f.listed = ses[s].listed
  BY <1>2 DEF Loose
<1> HIDE DEF f
<1>7. /\ raced' = raced /\ MakeInv(s) /\ LiveInv(s) /\ CountInv(s) /\ CloseInv(s)
  BY <1>1, <1>2 DEF process, SesInv
<1>8. Making(t)' => Making(t)
  BY <1>2, <1>3, <1>4, RolesAssumption DEF Making, Role, Loops, After
<1>9. MakeInv(s)'
  BY <1>3, <1>4, <1>5, <1>6, <1>7, <1>8, MakeStep DEF MakeInv, Making, Loops, After
<1>10. LiveInv(s)'
  BY <1>1, <1>2, <1>3, <1>4, <1>5, <1>6, <1>7, RolesAssumption, TurnOthers
    DEF LiveInv, MakeInv, Chained, Making, Role, Loops, After
<1>11. CountInv(s)'
  <2>1. /\ ses[s].recvs \in Nat /\ ses[s].stale \in Nat
        /\ ses[s].recvPendingCnt \in Int
    BY <1>2 DEF Loose
  <2> QED
    BY <1>5, <1>6, <1>7, <2>1, MaxRecvsType DEF CountInv
<1>12. SumInv(s)'
  <2>1. /\ ses'[s].recvs \in Nat /\ ses'[s].stale \in Nat
        /\ ses'[s].recvs + ses'[s].stale = ses[s].recvs + ses[s].stale
    BY <1>2, <1>5, <1>6 DEF Loose
  <2>2. t \in Workers /\ Posting(t)' => Posting(t)
    BY <1>2, <1>3, <1>4, RolesAssumption DEF Posting, Role, Loops, After
  <2> QED
    BY <1>3, <1>8, <2>1, <2>2, SumTurn
<1>13. CloseInv(s)'
  BY <1>1, <1>3, <1>4, <1>5, <1>6, <1>7, TurnOthers
    DEF CloseInv, Loops, After
<1>14. SesInv(s)'
  BY <1>9, <1>10, <1>11, <1>12, <1>13 DEF SesInv
<1>15. Settled(t, s, "disconnect", B, f)
  BY <1>1, <1>3, <1>5, <1>6, <1>14 DEF Settled
<1> QED
  BY <1>15, TurnKeeps

LEMMA MarkKeeps ==
    ASSUME ClientInv, NEW t \in Threads, NEW s \in Sessions, has[t] = s,
           Mark(t)
    PROVE  ClientInv'
<1> DEFINE f == [ses[s] EXCEPT !.disconnecting = TRUE]
<1>1. /\ TypeOK /\ ListInv /\ OwnInv /\ UNCHANGED process
      /\ "mark" \in Labels \ Loops /\ At(t, "mark")
  BY DEF ClientInv, Mark, Labels, Loops
<1>2. /\ ses[s] \in Loose /\ Role(t, "mark")
      /\ SesInv(s) /\ ses \in [Sessions -> Fields]
  BY <1>1, OnTurn
<1> DEFINE B == {}
<1>3. Turn(t, s, "mark", B)
  <2>1. Go(t, s, <<>>)
    BY DEF Mark, Then
  <2>2. Fits("mark", <<>>) /\ SetOf(<<>>) = B
    BY <1>1, FitsNone, SetOfIs
  <2> QED
    BY <1>1, <2>1, <2>2, GoFacts
<1>4. /\ Rest(t) \subseteq {"close"} \cup After
      /\ On(t) = {"mark"} \cup Rest(t) /\ On(t)' = B \cup Rest(t)
  BY <1>3, LaterIs DEF Turn
<1>5. f \in Loose /\ ses' = [ses EXCEPT ![s] = f] /\ ses'[s] = f
  BY <1>2 DEF Mark, Loose
<1>6. /\ f.isConnected = ses[s].isConnected
      /\ f.disconnecting
      /\ f.socket = ses[s].socket
      /\ f.owner = ses[s].owner
      /\ f.recvPendingCnt = ses[s].recvPendingCnt
      /\ f.recvs = ses[s].recvs
      /\ f.stale = ses[s].stale
      /\ f.isSending = ses[s].isSending
      /\ f.listed = ses[s].listed
  BY <1>2 DEF Loose
<1> HIDE DEF f
<1>7. /\ raced' = raced /\ MakeInv(s) /\ LiveInv(s) /\ CountInv(s) /\ CloseInv(s)
  BY <1>1, <1>2 DEF process, SesInv
<1>8. Making(t)' => Making(t)
  BY <1>2, <1>3, <1>4, RolesAssumption DEF Making, Role, Loops, After
<1>9. MakeInv(s)'
  BY <1>3, <1>4, <1>5, <1>6, <1>7, <1>8, MakeStep DEF MakeInv, Making, Loops, After
<1>10. LiveInv(s)'
  BY <1>1, <1>2, <1>3, <1>4, <1>5, <1>6, <1>7, RolesAssumption, TurnOthers
    DEF LiveInv, MakeInv, Chained, Making, Role, Loops, After
<1>11. CountInv(s)'
  <2>1. /\ ses[s].recvs \in Nat /\ ses[s].stale \in Nat
        /\ ses[s].recvPendingCnt \in Int
    BY <1>2 DEF Loose
  <2> QED
    BY <1>5, <1>6, <1>7, <2>1, MaxRecvsType DEF CountInv
<1>12. SumInv(s)'
  <2>1. /\ ses'[s].recvs \in Nat /\ ses'[s].stale \in Nat
        /\ ses'[s].recvs + ses'[s].stale = ses[s].recvs + ses[s].stale
    BY <1>2, <1>5, <1>6 DEF Loose
  <2>2. t \in Workers /\ Posting(t)' => Posting(t)
    BY <1>2, <1>3, <1>4, RolesAssumption DEF Posting, Role, Loops, After
  <2> QED
    BY <1>3, <1>8, <2>1, <2>2, SumTurn
<1>13. CloseInv(s)'
  BY <1>1, <1>3, <1>4, <1>5, <1>6, <1>7, TurnOthers
    DEF CloseInv, Loops, After
<1>14. SesInv(s)'
  BY <1>9, <1>10, <1>11, <1>12, <1>13 DEF SesInv
<1>15. Settled(t, s, "mark", B, f)
  BY <1>1, <1>3, <1>5, <1>6, <1>14 DEF Settled
<1> QED
  BY <1>15, TurnKeeps

LEMMA CloseKeeps ==
    ASSUME ClientInv, NEW t \in Threads, NEW s \in Sessions, has[t] = s,
           Close(t)
    PROVE  ClientInv'
<1> DEFINE f == [ses[s] EXCEPT !.socket = "none", !.recvs = 0,
                             !.stale = ses[s].stale + ses[s].recvs]
<1>1. /\ TypeOK /\ ListInv /\ OwnInv /\ UNCHANGED process
      /\ "close" \in Labels \ Loops /\ At(t, "close")
  BY DEF ClientInv, Close, Labels, Loops
<1>2. /\ ses[s] \in Loose /\ Role(t, "close")
      /\ SesInv(s) /\ ses \in [Sessions -> Fields]
  BY <1>1, OnTurn
<1> DEFINE B == {"release"}
<1>3. Turn(t, s, "close", B)
  <2>1. Go(t, s, <<"release">>)
    BY DEF Close, Then
  <2>2. Fits("close", <<"release">>) /\ SetOf(<<"release">>) = B
    BY <1>1, FitsOne, SetOfIs, LaterIs DEF Labels, Loops, After
  <2>3. \A a \in {"release"} : Role(t, a)
    BY <1>2, RolesAssumption DEF Role, Threads
  <2>4. "reset" \notin {"release"}
    OBVIOUS
  <2> QED
    BY <1>1, <2>1, <2>2, <2>3, <2>4, GoFacts
<1>4. /\ Rest(t) \subseteq After
      /\ On(t) = {"close"} \cup Rest(t) /\ On(t)' = B \cup Rest(t)
  BY <1>3, LaterIs DEF Turn
<1>5. f \in Loose /\ ses' = [ses EXCEPT ![s] = f] /\ ses'[s] = f
  <2>1. /\ ses[s].recvs \in Nat /\ ses[s].stale \in Nat
        /\ ses[s].stale + ses[s].recvs \in Nat
    BY <1>2 DEF Loose
  <2>2. f \in Loose
    BY <1>2, <2>1 DEF Loose
  <2>3. ses' = [ses EXCEPT ![s] = f]
    BY DEF Close, Of
  <2> HIDE DEF f
  <2> QED
    BY <1>2, <2>2, <2>3
<1>6. /\ f.isConnected = ses[s].isConnected
      /\ f.disconnecting = ses[s].disconnecting
      /\ f.socket = "none"
      /\ f.owner = ses[s].owner
      /\ f.recvPendingCnt = ses[s].recvPendingCnt
      /\ f.recvs = 0
      /\ f.stale = ses[s].stale + ses[s].recvs
      /\ f.isSending = ses[s].isSending
      /\ f.listed = ses[s].listed
  BY <1>2 DEF Loose
<1> HIDE DEF f
<1>7. /\ raced' = raced /\ MakeInv(s) /\ LiveInv(s) /\ CountInv(s) /\ CloseInv(s)
  BY <1>1, <1>2 DEF process, SesInv
<1>8. Making(t)' => Making(t)
  BY <1>2, <1>3, <1>4, RolesAssumption DEF Making, Role, Loops, After
<1>9. MakeInv(s)'
  BY <1>3, <1>4, <1>5, <1>6, <1>7, <1>8, MakeStep DEF MakeInv, Making, Loops, After
<1>10. LiveInv(s)'
  BY <1>1, <1>2, <1>3, <1>4, <1>5, <1>6, <1>7, RolesAssumption, TurnOthers
    DEF LiveInv, MakeInv, Chained, Making, Role, Loops, After
<1>11. CountInv(s)'
  <2>1. /\ ses[s].recvs \in Nat /\ ses[s].stale \in Nat
        /\ ses[s].recvPendingCnt \in Int
    BY <1>2 DEF Loose
  <2> QED
    BY <1>5, <1>6, <1>7, <2>1, MaxRecvsType DEF CountInv
<1>12. SumInv(s)'
  <2>1. /\ ses'[s].recvs \in Nat /\ ses'[s].stale \in Nat
        /\ ses'[s].recvs + ses'[s].stale = ses[s].recvs + ses[s].stale
    BY <1>2, <1>5, <1>6 DEF Loose
  <2>2. t \in Workers /\ Posting(t)' => Posting(t)
    BY <1>2, <1>3, <1>4, RolesAssumption DEF Posting, Role, Loops, After
  <2> QED
    BY <1>3, <1>8, <2>1, <2>2, SumTurn
<1>13. CloseInv(s)'
  BY <1>1, <1>3, <1>4, <1>5, <1>6, <1>7, TurnOthers
    DEF CloseInv, Loops, After
<1>14. SesInv(s)'
  BY <1>9, <1>10, <1>11, <1>12, <1>13 DEF SesInv
<1>15. Settled(t, s, "close", B, f)
  BY <1>1, <1>3, <1>5, <1>6, <1>14 DEF Settled
<1> QED
  BY <1>15, TurnKeeps

LEMMA TryReleaseKeeps ==
    ASSUME ClientInv, NEW t \in Threads, NEW s \in Sessions, has[t] = s,
           TryRelease(t)
    PROVE  ClientInv'
<1> DEFINE f == Released(ses[s])
<1>1. /\ TypeOK /\ ListInv /\ OwnInv /\ UNCHANGED process
      /\ "release" \in Labels \ Loops /\ At(t, "release")
  BY DEF ClientInv, TryRelease, Labels, Loops
<1>2. /\ ses[s] \in Loose /\ Role(t, "release")
      /\ SesInv(s) /\ ses \in [Sessions -> Fields]
  BY <1>1, OnTurn
<1> DEFINE B == {}
<1>3. Turn(t, s, "release", B)
  <2>1. Go(t, s, <<>>)
    BY DEF TryRelease, Then
  <2>2. Fits("release", <<>>) /\ SetOf(<<>>) = B
    BY <1>1, FitsNone, SetOfIs
  <2> QED
    BY <1>1, <2>1, <2>2, GoFacts
<1>4. /\ Rest(t) \subseteq After
      /\ On(t) = {"release"} \cup Rest(t) /\ On(t)' = B \cup Rest(t)
  BY <1>3, LaterIs DEF Turn
<1>5. f \in Loose /\ ses' = [ses EXCEPT ![s] = f] /\ ses'[s] = f
  BY <1>2 DEF TryRelease, Loose, Released
<1>6. /\ f.isConnected = ses[s].isConnected
      /\ f.disconnecting = ses[s].disconnecting
      /\ f.socket = ses[s].socket
      /\ ~ses[s].disconnecting => f.owner = ses[s].owner
      /\ f.recvPendingCnt = ses[s].recvPendingCnt
      /\ f.recvs = ses[s].recvs
      /\ f.stale = ses[s].stale
      /\ f.isSending = ses[s].isSending
      /\ ~ses[s].disconnecting => f.listed = ses[s].listed
  BY <1>2 DEF Loose, Released
<1> HIDE DEF f
<1>7. /\ raced' = raced /\ MakeInv(s) /\ LiveInv(s) /\ CountInv(s) /\ CloseInv(s)
  BY <1>1, <1>2 DEF process, SesInv
<1>8. Making(t)' => Making(t)
  BY <1>2, <1>3, <1>4, RolesAssumption DEF Making, Role, Loops, After
<1>9. MakeInv(s)'
  BY <1>3, <1>4, <1>5, <1>6, <1>7, <1>8, MakeStep DEF MakeInv, Making, Loops, After
<1>10. LiveInv(s)'
  BY <1>1, <1>2, <1>3, <1>4, <1>5, <1>6, <1>7, RolesAssumption, TurnOthers
    DEF LiveInv, MakeInv, Chained, Making, Role, Loops, After
<1>11. CountInv(s)'
  <2>1. /\ ses[s].recvs \in Nat /\ ses[s].stale \in Nat
        /\ ses[s].recvPendingCnt \in Int
    BY <1>2 DEF Loose
  <2> QED
    BY <1>5, <1>6, <1>7, <2>1, MaxRecvsType DEF CountInv
<1>12. SumInv(s)'
  <2>1. /\ ses'[s].recvs \in Nat /\ ses'[s].stale \in Nat
        /\ ses'[s].recvs + ses'[s].stale = ses[s].recvs + ses[s].stale
    BY <1>2, <1>5, <1>6 DEF Loose
  <2>2. t \in Workers /\ Posting(t)' => Posting(t)
    BY <1>2, <1>3, <1>4, RolesAssumption DEF Posting, Role, Loops, After
  <2> QED
    BY <1>3, <1>8, <2>1, <2>2, SumTurn
<1>13. CloseInv(s)'
  BY <1>1, <1>3, <1>4, <1>5, <1>6, <1>7, TurnOthers
    DEF CloseInv, Loops, After
<1>14. SesInv(s)'
  BY <1>9, <1>10, <1>11, <1>12, <1>13 DEF SesInv
<1>15. Settled(t, s, "release", B, f)
  BY <1>1, <1>3, <1>5, <1>6, <1>14 DEF Settled
<1> QED
  BY <1>15, TurnKeeps

LEMMA ZeroKeeps ==
    ASSUME ClientInv, NEW t \in Threads, NEW s \in Sessions, has[t] = s,
           Zero(t)
    PROVE  ClientInv'
<1> DEFINE f == ses[s]
<1>1. /\ TypeOK /\ ListInv /\ OwnInv /\ UNCHANGED process
      /\ "zero" \in Labels \ Loops /\ At(t, "zero")
  BY DEF ClientInv, Zero, Labels, Loops
<1>2. /\ ses[s] \in Loose /\ Role(t, "zero")
      /\ SesInv(s) /\ ses \in [Sessions -> Fields]
  BY <1>1, OnTurn
<1>3. PICK B : /\ Turn(t, s, "zero", B)
                /\ \/ B = {"disconnect", "release"}
                   \/ ses[s].socket = "none" /\ B = {"rearm"}
  <2>1. \/ ses[s].socket # "none" /\ Go(t, s, <<"disconnect", "release">>)
        \/ ses[s].socket = "none" /\ Go(t, s, <<"rearm">>)
    BY DEF Zero, Then, Of
  <2>2. ASSUME Go(t, s, <<"disconnect", "release">>), ses[s].socket # "none"
        PROVE  Turn(t, s, "zero", {"disconnect", "release"})
    <3>1. Fits("zero", <<"disconnect", "release">>) /\ SetOf(<<"disconnect", "release">>) = {"disconnect", "release"}
      BY <1>1, FitsTwo, SetOfIs, LaterIs DEF Labels, Loops, After
    <3>2. \A a \in {"disconnect", "release"} : Role(t, a)
      BY <1>2, <2>2, RolesAssumption DEF Role, Threads
    <3>3. "reset" \notin {"disconnect", "release"}
      OBVIOUS
    <3> QED
      BY <1>1, <2>2, <3>1, <3>2, <3>3, GoFacts
  <2>3. ASSUME Go(t, s, <<"rearm">>), ses[s].socket = "none"
        PROVE  Turn(t, s, "zero", {"rearm"})
    <3>1. Fits("zero", <<"rearm">>) /\ SetOf(<<"rearm">>) = {"rearm"}
      BY <1>1, FitsOne, SetOfIs, LaterIs DEF Labels, Loops, After
    <3>2. \A a \in {"rearm"} : Role(t, a)
      BY <1>2, <2>3, RolesAssumption DEF Role, Threads
    <3>3. "reset" \notin {"rearm"}
      OBVIOUS
    <3> QED
      BY <1>1, <2>3, <3>1, <3>2, <3>3, GoFacts
  <2> QED
    BY <2>1, <2>2, <2>3
<1>4. /\ Rest(t) \subseteq After
      /\ On(t) = {"zero"} \cup Rest(t) /\ On(t)' = B \cup Rest(t)
  BY <1>3, LaterIs DEF Turn
<1>5. f \in Loose /\ ses' = [ses EXCEPT ![s] = f] /\ ses'[s] = f
  BY <1>2 DEF Zero
<1>6. /\ f.isConnected = ses[s].isConnected
      /\ f.disconnecting = ses[s].disconnecting
      /\ f.socket = ses[s].socket
      /\ f.owner = ses[s].owner
      /\ f.recvPendingCnt = ses[s].recvPendingCnt
      /\ f.recvs = ses[s].recvs
      /\ f.stale = ses[s].stale
      /\ f.isSending = ses[s].isSending
      /\ f.listed = ses[s].listed
  BY <1>2 DEF Loose
<1> HIDE DEF f
<1>7. /\ raced' = raced /\ MakeInv(s) /\ LiveInv(s) /\ CountInv(s) /\ CloseInv(s)
  BY <1>1, <1>2 DEF process, SesInv
<1>8. Making(t)' => Making(t)
  BY <1>2, <1>3, <1>4, RolesAssumption DEF Making, Role, Loops, After
<1>9. MakeInv(s)'
  BY <1>3, <1>4, <1>5, <1>6, <1>7, <1>8, MakeStep DEF MakeInv, Making, Loops, After
<1>10. LiveInv(s)'
  BY <1>1, <1>2, <1>3, <1>4, <1>5, <1>6, <1>7, RolesAssumption, TurnOthers
    DEF LiveInv, MakeInv, Chained, Making, Role, Loops, After
<1>11. CountInv(s)'
  <2>1. /\ ses[s].recvs \in Nat /\ ses[s].stale \in Nat
        /\ ses[s].recvPendingCnt \in Int
    BY <1>2 DEF Loose
  <2> QED
    BY <1>5, <1>6, <1>7, <2>1, MaxRecvsType DEF CountInv
<1>12. SumInv(s)'
  <2>1. /\ ses'[s].recvs \in Nat /\ ses'[s].stale \in Nat
        /\ ses'[s].recvs + ses'[s].stale = ses[s].recvs + ses[s].stale
    BY <1>2, <1>5, <1>6 DEF Loose
  <2>2. t \in Workers /\ Posting(t)' => Posting(t)
    BY <1>2, <1>3, <1>4, RolesAssumption DEF Posting, Role, Loops, After
  <2> QED
    BY <1>3, <1>8, <2>1, <2>2, SumTurn
<1>13. CloseInv(s)'
  BY <1>1, <1>3, <1>4, <1>5, <1>6, <1>7, TurnOthers
    DEF CloseInv, Loops, After
<1>14. SesInv(s)'
  BY <1>9, <1>10, <1>11, <1>12, <1>13 DEF SesInv
<1>15. Settled(t, s, "zero", B, f)
  BY <1>1, <1>3, <1>5, <1>6, <1>14 DEF Settled
<1> QED
  BY <1>15, TurnKeeps

LEMMA RearmKeeps ==
    ASSUME ClientInv, NEW t \in Threads, NEW s \in Sessions, has[t] = s,
           Rearm(t)
    PROVE  ClientInv'
<1> DEFINE f == ses[s]
<1>1. /\ TypeOK /\ ListInv /\ OwnInv /\ UNCHANGED process
      /\ "rearm" \in Labels \ Loops /\ At(t, "rearm")
  BY DEF ClientInv, Rearm, Labels, Loops
<1>2. /\ ses[s] \in Loose /\ Role(t, "rearm")
      /\ SesInv(s) /\ ses \in [Sessions -> Fields]
  BY <1>1, OnTurn
<1>3. PICK B : /\ Turn(t, s, "rearm", B)
                /\ \/ B = {"post"}
                   \/ ~(ses[s].isConnected /\ ~ses[s].disconnecting) /\ B = {}
                   \/ ~(ses[s].isConnected /\ ~ses[s].disconnecting) /\ B = {"release"}
  <2>1. \/ ses[s].isConnected /\ ~ses[s].disconnecting /\ Go(t, s, <<"post">>)
        \/ ~(ses[s].isConnected /\ ~ses[s].disconnecting) /\ Go(t, s, <<>>)
        \/ ~(ses[s].isConnected /\ ~ses[s].disconnecting) /\ Go(t, s, <<"release">>)
    BY DEF Rearm, Then, Of
  <2>2. ASSUME Go(t, s, <<"post">>), ses[s].isConnected /\ ~ses[s].disconnecting
        PROVE  Turn(t, s, "rearm", {"post"})
    <3>1. Fits("rearm", <<"post">>) /\ SetOf(<<"post">>) = {"post"}
      BY <1>1, FitsOne, SetOfIs, LaterIs DEF Labels, Loops, After
    <3>2. \A a \in {"post"} : Role(t, a)
      BY <1>2, <2>2, RolesAssumption DEF Role, Threads
    <3>3. "reset" \notin {"post"}
      OBVIOUS
    <3> QED
      BY <1>1, <2>2, <3>1, <3>2, <3>3, GoFacts
  <2>3. ASSUME Go(t, s, <<>>), ~(ses[s].isConnected /\ ~ses[s].disconnecting)
        PROVE  Turn(t, s, "rearm", {})
    <3>1. Fits("rearm", <<>>) /\ SetOf(<<>>) = {}
      BY <1>1, FitsNone, SetOfIs
    <3>2. \A a \in {} : Role(t, a)
      BY <1>2, <2>3, RolesAssumption DEF Role, Threads
    <3>3. "reset" \notin {}
      OBVIOUS
    <3> QED
      BY <1>1, <2>3, <3>1, <3>2, <3>3, GoFacts
  <2>4. ASSUME Go(t, s, <<"release">>), ~(ses[s].isConnected /\ ~ses[s].disconnecting)
        PROVE  Turn(t, s, "rearm", {"release"})
    <3>1. Fits("rearm", <<"release">>) /\ SetOf(<<"release">>) = {"release"}
      BY <1>1, FitsOne, SetOfIs, LaterIs DEF Labels, Loops, After
    <3>2. \A a \in {"release"} : Role(t, a)
      BY <1>2, <2>4, RolesAssumption DEF Role, Threads
    <3>3. "reset" \notin {"release"}
      OBVIOUS
    <3> QED
      BY <1>1, <2>4, <3>1, <3>2, <3>3, GoFacts
  <2> QED
    BY <2>1, <2>2, <2>3, <2>4
<1>4. /\ Rest(t) \subseteq After
      /\ On(t) = {"rearm"} \cup Rest(t) /\ On(t)' = B \cup Rest(t)
  BY <1>3, LaterIs DEF Turn
<1>5. f \in Loose /\ ses' = [ses EXCEPT ![s] = f] /\ ses'[s] = f
  BY <1>2 DEF Rearm
<1>6. /\ f.isConnected = ses[s].isConnected
      /\ f.disconnecting = ses[s].disconnecting
      /\ f.socket = ses[s].socket
      /\ f.owner = ses[s].owner
      /\ f.recvPendingCnt = ses[s].recvPendingCnt
      /\ f.recvs = ses[s].recvs
      /\ f.stale = ses[s].stale
      /\ f.isSending = ses[s].isSending
      /\ f.listed = ses[s].listed
  BY <1>2 DEF Loose
<1> HIDE DEF f
<1>7. /\ raced' = raced /\ MakeInv(s) /\ LiveInv(s) /\ CountInv(s) /\ CloseInv(s)
  BY <1>1, <1>2 DEF process, SesInv
<1>8. Making(t)' => Making(t)
  BY <1>2, <1>3, <1>4, RolesAssumption DEF Making, Role, Loops, After
<1>9. MakeInv(s)'
  BY <1>3, <1>4, <1>5, <1>6, <1>7, <1>8, MakeStep DEF MakeInv, Making, Loops, After
<1>10. LiveInv(s)'
  BY <1>1, <1>2, <1>3, <1>4, <1>5, <1>6, <1>7, RolesAssumption, TurnOthers
    DEF LiveInv, MakeInv, Chained, Making, Role, Loops, After
<1>11. CountInv(s)'
  <2>1. /\ ses[s].recvs \in Nat /\ ses[s].stale \in Nat
        /\ ses[s].recvPendingCnt \in Int
    BY <1>2 DEF Loose
  <2> QED
    BY <1>5, <1>6, <1>7, <2>1, MaxRecvsType DEF CountInv
<1>12. SumInv(s)'
  <2>1. /\ ses'[s].recvs \in Nat /\ ses'[s].stale \in Nat
        /\ ses'[s].recvs + ses'[s].stale = ses[s].recvs + ses[s].stale
    BY <1>2, <1>5, <1>6 DEF Loose
  <2>2. t \in Workers /\ Posting(t)' => Posting(t)
    BY <1>2, <1>3, <1>4, RolesAssumption DEF Posting, Role, Loops, After
  <2> QED
    BY <1>3, <1>8, <2>1, <2>2, SumTurn
<1>13. CloseInv(s)'
  BY <1>1, <1>3, <1>4, <1>5, <1>6, <1>7, TurnOthers
    DEF CloseInv, Loops, After
<1>14. SesInv(s)'
  BY <1>9, <1>10, <1>11, <1>12, <1>13 DEF SesInv
<1>15. Settled(t, s, "rearm", B, f)
  BY <1>1, <1>3, <1>5, <1>6, <1>14 DEF Settled
<1> QED
  BY <1>15, TurnKeeps

LEMMA SendOkKeeps ==
    ASSUME ClientInv, NEW t \in Threads, NEW s \in Sessions, has[t] = s,
           t = Sender, SendOk
    PROVE  ClientInv'
<1> DEFINE f == IF ses[s].isConnected /\ ses[s].socket \in {"live", "dead"}
                 THEN [ses[s] EXCEPT !.isSending = TRUE] ELSE ses[s]
<1>1. /\ TypeOK /\ ListInv /\ OwnInv /\ UNCHANGED process
      /\ "send" \in Labels \ Loops /\ At(t, "send")
  BY DEF ClientInv, SendOk, Labels, Loops
<1>2. /\ ses[s] \in Loose /\ Role(t, "send")
      /\ SesInv(s) /\ ses \in [Sessions -> Fields]
  BY <1>1, OnTurn
<1> DEFINE B == {}
<1>3. Turn(t, s, "send", B)
  <2>1. Go(t, s, <<>>)
    BY DEF SendOk, Then
  <2>2. Fits("send", <<>>) /\ SetOf(<<>>) = B
    BY <1>1, FitsNone, SetOfIs
  <2> QED
    BY <1>1, <2>1, <2>2, GoFacts
<1>4. /\ Rest(t) \subseteq Loops
      /\ On(t) = {"send"} \cup Rest(t) /\ On(t)' = B \cup Rest(t)
  BY <1>3, LaterIs DEF Turn
<1>5. f \in Loose /\ ses' = [ses EXCEPT ![s] = f] /\ ses'[s] = f
  BY <1>2 DEF SendOk, Loose, Of
<1>6. /\ f.isConnected = ses[s].isConnected
      /\ f.disconnecting = ses[s].disconnecting
      /\ f.socket = ses[s].socket
      /\ f.owner = ses[s].owner
      /\ f.recvPendingCnt = ses[s].recvPendingCnt
      /\ f.recvs = ses[s].recvs
      /\ f.stale = ses[s].stale
      /\ f.isSending \in BOOLEAN
      /\ f.listed = ses[s].listed
  BY <1>2 DEF Loose
<1> HIDE DEF f
<1>7. /\ raced' = raced /\ MakeInv(s) /\ LiveInv(s) /\ CountInv(s) /\ CloseInv(s)
  BY <1>1, <1>2 DEF process, SesInv
<1>8. Making(t)' => Making(t)
  BY <1>2, <1>3, <1>4, RolesAssumption DEF Making, Role, Loops, After
<1>9. MakeInv(s)'
  BY <1>3, <1>4, <1>5, <1>6, <1>7, <1>8, MakeStep DEF MakeInv, Making, Loops, After
<1>10. LiveInv(s)'
  BY <1>1, <1>2, <1>3, <1>4, <1>5, <1>6, <1>7, RolesAssumption, TurnOthers
    DEF LiveInv, MakeInv, Chained, Making, Role, Loops, After
<1>11. CountInv(s)'
  <2>1. /\ ses[s].recvs \in Nat /\ ses[s].stale \in Nat
        /\ ses[s].recvPendingCnt \in Int
    BY <1>2 DEF Loose
  <2> QED
    BY <1>5, <1>6, <1>7, <2>1, MaxRecvsType DEF CountInv
<1>12. SumInv(s)'
  <2>1. /\ ses'[s].recvs \in Nat /\ ses'[s].stale \in Nat
        /\ ses'[s].recvs + ses'[s].stale = ses[s].recvs + ses[s].stale
    BY <1>2, <1>5, <1>6 DEF Loose
  <2>2. t \in Workers /\ Posting(t)' => Posting(t)
    BY <1>2, <1>3, <1>4, RolesAssumption DEF Posting, Role, Loops, After
  <2> QED
    BY <1>3, <1>8, <2>1, <2>2, SumTurn
<1>13. CloseInv(s)'
  BY <1>1, <1>3, <1>4, <1>5, <1>6, <1>7, TurnOthers
    DEF CloseInv, Loops, After
<1>14. SesInv(s)'
  BY <1>9, <1>10, <1>11, <1>12, <1>13 DEF SesInv
<1>15. Settled(t, s, "send", B, f)
  BY <1>1, <1>3, <1>5, <1>6, <1>14 DEF Settled
<1> QED
  BY <1>15, TurnKeeps

LEMMA SendFailsKeeps ==
    ASSUME ClientInv, NEW t \in Threads, NEW s \in Sessions, has[t] = s,
           t = Sender, SendFails
    PROVE  ClientInv'
<1> DEFINE f == ses[s]
<1>1. /\ TypeOK /\ ListInv /\ OwnInv /\ UNCHANGED process
      /\ "send" \in Labels \ Loops /\ At(t, "send")
  BY DEF ClientInv, SendFails, Labels, Loops
<1>2. /\ ses[s] \in Loose /\ Role(t, "send")
      /\ SesInv(s) /\ ses \in [Sessions -> Fields]
  BY <1>1, OnTurn
<1> DEFINE B == {"disconnect"}
<1>3. Turn(t, s, "send", B)
  <2>1. Go(t, s, <<"disconnect">>)
    BY DEF SendFails, Then
  <2>2. Fits("send", <<"disconnect">>) /\ SetOf(<<"disconnect">>) = B
    BY <1>1, FitsOne, SetOfIs, LaterIs DEF Labels, Loops, After
  <2>3. \A a \in B : Role(t, a)
    BY <1>2 DEF Role
  <2>4. "reset" \notin B
    OBVIOUS
  <2> QED
    BY <1>1, <2>1, <2>2, <2>3, <2>4, GoFacts
<1>4. /\ Rest(t) \subseteq Loops
      /\ On(t) = {"send"} \cup Rest(t) /\ On(t)' = B \cup Rest(t)
  BY <1>3, LaterIs DEF Turn
<1>5. f \in Loose /\ ses' = [ses EXCEPT ![s] = f] /\ ses'[s] = f
  BY <1>2 DEF SendFails
<1>6. /\ f.isConnected = ses[s].isConnected
      /\ f.disconnecting = ses[s].disconnecting
      /\ f.socket = ses[s].socket
      /\ f.owner = ses[s].owner
      /\ f.recvPendingCnt = ses[s].recvPendingCnt
      /\ f.recvs = ses[s].recvs
      /\ f.stale = ses[s].stale
      /\ f.isSending = ses[s].isSending
      /\ f.listed = ses[s].listed
  BY <1>2 DEF Loose
<1> HIDE DEF f
<1>7. /\ raced' = raced /\ MakeInv(s) /\ LiveInv(s) /\ CountInv(s) /\ CloseInv(s)
  BY <1>1, <1>2 DEF process, SesInv
<1>8. Making(t)' => Making(t)
  BY <1>2, <1>3, <1>4, RolesAssumption DEF Making, Role, Loops, After
<1>9. MakeInv(s)'
  BY <1>3, <1>4, <1>5, <1>6, <1>7, <1>8, MakeStep DEF MakeInv, Making, Loops, After
<1>10. LiveInv(s)'
  BY <1>1, <1>2, <1>3, <1>4, <1>5, <1>6, <1>7, RolesAssumption, TurnOthers
    DEF LiveInv, MakeInv, Chained, Making, Role, Loops, After
<1>11. CountInv(s)'
  <2>1. /\ ses[s].recvs \in Nat /\ ses[s].stale \in Nat
        /\ ses[s].recvPendingCnt \in Int
    BY <1>2 DEF Loose
  <2> QED
    BY <1>5, <1>6, <1>7, <2>1, MaxRecvsType DEF CountInv
<1>12. SumInv(s)'
  <2>1. /\ ses'[s].recvs \in Nat /\ ses'[s].stale \in Nat
        /\ ses'[s].recvs + ses'[s].stale = ses[s].recvs + ses[s].stale
    BY <1>2, <1>5, <1>6 DEF Loose
  <2>2. t \in Workers /\ Posting(t)' => Posting(t)
    BY <1>2, <1>3, <1>4, RolesAssumption DEF Posting, Role, Loops, After
  <2> QED
    BY <1>3, <1>8, <2>1, <2>2, SumTurn
<1>13. CloseInv(s)'
  BY <1>1, <1>3, <1>4, <1>5, <1>6, <1>7, TurnOthers
    DEF CloseInv, Loops, After
<1>14. SesInv(s)'
  BY <1>9, <1>10, <1>11, <1>12, <1>13 DEF SesInv
<1>15. Settled(t, s, "send", B, f)
  BY <1>1, <1>3, <1>5, <1>6, <1>14 DEF Settled
<1> QED
  BY <1>15, TurnKeeps

-----------------------------------------------------------------------------
(* The steps of the workers and of the connect threads                     *)

\* A session that nobody works on is as good as new.
LEMMA FreshInv ==
    ASSUME NEW s \in Sessions, ses[s] = Fresh, \A t \in Threads : has[t] # s
    PROVE  SesInv(s)
<1>1. /\ ses[s].isConnected = FALSE /\ ses[s].socket = "none"
      /\ ses[s].recvs = 0 /\ ses[s].stale = 0 /\ ses[s].recvPendingCnt = 0
  BY DEF Fresh
<1>2. MakeInv(s) /\ LiveInv(s) /\ CloseInv(s)
  BY <1>1 DEF MakeInv, LiveInv, CloseInv
<1>3. CountInv(s)
  BY <1>1, MaxRecvsType DEF CountInv
<1>4. SumInv(s)
  <2>1. Tokens(s) = {} /\ Maker(s) = 0
    BY DEF Tokens, Maker, Threads
  <2> QED
    BY <1>1, <2>1, MaxRecvsType, FS_EmptySet DEF SumInv
<1> QED
  BY <1>2, <1>3, <1>4 DEF SesInv

LEMMA FreshInvNext ==
    ASSUME NEW s \in Sessions, ses'[s] = Fresh, \A t \in Threads : has'[t] # s
    PROVE  SesInv(s)'
<1>1. /\ ses'[s].isConnected = FALSE /\ ses'[s].socket = "none"
      /\ ses'[s].recvs = 0 /\ ses'[s].stale = 0 /\ ses'[s].recvPendingCnt = 0
  BY DEF Fresh
<1>2. MakeInv(s)' /\ LiveInv(s)' /\ CloseInv(s)'
  BY <1>1 DEF MakeInv, LiveInv, CloseInv
<1>3. CountInv(s)'
  BY <1>1, MaxRecvsType DEF CountInv
<1>4. SumInv(s)'
  <2>1. Tokens(s)' = {} /\ Maker(s)' = 0
    BY DEF Tokens, Maker, Threads
  <2> QED
    BY <1>1, <2>1, MaxRecvsType, FS_EmptySet DEF SumInv
<1> QED
  BY <1>2, <1>3, <1>4 DEF SesInv

\* A thread that is at the label of its loop works on nothing.
LEMMA OnLoop ==
    ASSUME ClientInv, NEW t \in Threads, NEW label \in Loops, At(t, label)
    PROVE  /\ has[t] = None /\ On(t) = {label} /\ Role(t, label)
           /\ Rest(t) = {}
<1>1. TypeOK /\ ListInv /\ label \in Labels
  BY DEF ClientInv, Loops, Labels
<1>2. /\ todo[t] \in Seq(Labels) /\ todo[t] # <<>> /\ Head(todo[t]) = label
      /\ InOrder(todo[t]) /\ EndsInLoop(todo[t])
  BY <1>1 DEF At, TypeOK, ListInv
<1>3. On(t) = {label} \cup Rest(t) /\ Rest(t) \subseteq Later[label]
  BY <1>1, <1>2, FitsNone, Spliced DEF On, Rest
<1>4. Rest(t) = {}
  BY <1>3, LaterIs DEF Loops
<1>5. ~Busy(t)
  BY <1>3, <1>4 DEF Busy
<1> QED
  BY <1>1, <1>3, <1>4, <1>5 DEF ListInv

\* A session that a recv or a send is out on is not in the pool.
LEMMA OutOfPool ==
    ASSUME ClientInv, NEW s \in Sessions,
           ses[s].recvs > 0 \/ ses[s].stale > 0 \/ ses[s].isSending \/ ses[s].socket # "none"
    PROVE  s \notin pool
  BY DEF ClientInv, OwnInv, Fresh

\* Only the fields of s change.
LEMMA FieldKeeps ==
    ASSUME ClientInv, NEW s \in Sessions, s \notin pool, NEW f \in Loose,
           UNCHANGED process, UNCHANGED <<todo, has>>,
           ses' = [ses EXCEPT ![s] = f], f.isConnected = ses[s].isConnected,
           f.recvs = ses[s].recvs, f.stale = ses[s].stale,
           f.recvPendingCnt = ses[s].recvPendingCnt,
           MakeInv(s)', LiveInv(s)', CloseInv(s)'
    PROVE  ClientInv'
<1>1. TypeOK /\ ListInv /\ OwnInv /\ EndInv /\ \A r \in Sessions : SesInv(r)
  BY DEF ClientInv
<1>2. /\ UNCHANGED <<stage, running, pool, left, local, clientSessions>>
      /\ UNCHANGED <<rest, raced, visited>>
  BY DEF process, lists
<1>3. /\ \A t \in Threads : On(t)' = On(t) /\ has'[t] = has[t] /\ todo'[t] = todo[t]
      /\ \A t \in Threads : (Making(t)' <=> Making(t)) /\ (Posting(t)' <=> Posting(t))
  BY DEF On, Making, Posting
<1>4. ses'[s] = f
  BY <1>1 DEF TypeOK
<1>5. CountInv(s)'
  BY <1>1, <1>4 DEF SesInv, CountInv
<1>6. SumInv(s)'
  <2>1. Tokens(s)' = Tokens(s) /\ Maker(s)' = Maker(s)
    BY <1>3 DEF Tokens, Maker, Threads
  <2> QED
    BY <1>1, <1>4, <2>1 DEF SesInv, SumInv
<1>7. /\ ses' \in [Sessions -> Fields]
      /\ \A r \in Sessions \ {s} : ses'[r] = ses[r]
  <2>1. ses \in [Sessions -> Fields]
    BY <1>1 DEF TypeOK
  <2> QED
    BY <1>1, <1>5, <1>6, <2>1, SesType
<1>8. TypeOK'
  BY <1>1, <1>2, <1>7 DEF TypeOK
<1>9. ListInv'
  BY <1>1, <1>3 DEF ListInv, Busy
<1>10. OwnInv'
  BY <1>1, <1>2, <1>7 DEF OwnInv, TypeOK
<1>11. ASSUME NEW r \in Sessions
       PROVE  SesInv(r)'
  <2>1. CASE r = s
    BY <1>5, <1>6, <2>1 DEF SesInv
  <2>2. CASE r # s
    <3>1. \A t \in Threads : /\ (Making(t)' <=> Making(t))
                             /\ (Chained(t)' <=> Chained(t))
      BY <1>3 DEF Making, Chained
    <3>2. ses'[r] = ses[r] /\ raced' = raced /\ SesInv(r)
      BY <1>1, <1>2, <1>7, <2>2
    <3>3. Tokens(r)' = Tokens(r) /\ Maker(r)' = Maker(r)
      BY <1>3 DEF Tokens, Maker, Threads
    <3>4. MakeInv(r)' /\ CountInv(r)' /\ SumInv(r)' /\ CloseInv(r)'
      BY <1>3, <3>1, <3>2, <3>3 DEF MakeInv, CountInv, SumInv, CloseInv, SesInv
    <3>5. LiveInv(r)'
      BY <1>3, <3>1, <3>2 DEF LiveInv, SesInv
    <3> QED
      BY <3>4, <3>5 DEF SesInv
  <2> QED
    BY <2>1, <2>2
<1>12. EndInv'
  <2>1. \A r \in Sessions : ses'[r].isConnected = ses[r].isConnected
    BY <1>4, <1>7
  <2>2. visited \subseteq Sessions /\ Main \in Threads /\ Sender \in Threads
    BY <1>1 DEF TypeOK, Threads
  <2> QED
    BY <1>1, <1>2, <1>3, <2>1, <2>2 DEF EndInv, Threads
<1> QED
  BY <1>8, <1>9, <1>10, <1>11, <1>12 DEF ClientInv

LEMMA ServerClosesKeeps ==
    ASSUME ClientInv, NEW s \in Sessions, ServerCloses(s)
    PROVE  ClientInv'
<1> DEFINE f == [ses[s] EXCEPT !.socket = "dead"]
<1>1. /\ SesInv(s) /\ ses[s] \in Loose /\ ses[s].socket = "live"
      /\ UNCHANGED process /\ UNCHANGED <<todo, has>>
      /\ ses \in [Sessions -> Fields]
  BY FieldsAreLoose DEF ClientInv, TypeOK, ServerCloses
<1>2. /\ f \in Loose /\ ses' = [ses EXCEPT ![s] = f] /\ ses'[s] = f
  BY <1>1 DEF ServerCloses, Loose
<1>3. /\ f.isConnected = ses[s].isConnected /\ f.socket = "dead"
      /\ f.disconnecting = ses[s].disconnecting /\ f.owner = ses[s].owner
      /\ f.recvs = ses[s].recvs /\ f.stale = ses[s].stale
      /\ f.recvPendingCnt = ses[s].recvPendingCnt
      /\ f.isSending = ses[s].isSending /\ f.listed = ses[s].listed
  BY <1>1 DEF Loose
<1> HIDE DEF f
<1>4. /\ \A t \in Threads : /\ On(t)' = On(t) /\ has'[t] = has[t]
                            /\ Making(t)' <=> Making(t)
                            /\ Chained(t)' <=> Chained(t)
      /\ raced' = raced
  BY <1>1 DEF On, Making, Chained, process
<1>5. MakeInv(s)'
  BY <1>1, <1>2, <1>3, <1>4 DEF MakeInv, SesInv
<1>6. LiveInv(s)'
  BY <1>1, <1>2, <1>3, <1>4 DEF LiveInv, SesInv
<1>7. CloseInv(s)'
  BY <1>1, <1>2, <1>3, <1>4 DEF CloseInv, SesInv
<1>8. s \notin pool
  BY <1>1, OutOfPool
<1> QED
  BY <1>1, <1>2, <1>3, <1>5, <1>6, <1>7, <1>8, FieldKeeps

\* A list with one label more.
LEMMA Appended ==
    /\ \A a \in Labels : Append(<<a>>, "poll") = <<a, "poll">>
    /\ Append(<<"disconnect", "release">>, "poll")
          = <<"disconnect", "release", "poll">>
<1>1. "poll" \in Labels /\ "disconnect" \in Labels /\ "release" \in Labels
  BY DEF Labels
<1>2. ASSUME NEW a \in Labels
      PROVE  Append(<<a>>, "poll") = <<a, "poll">>
  <2> DEFINE p == <<a>>
             q == <<a, "poll">>
             r == Append(p, "poll")
  <2>1. /\ p \in Seq(Labels) /\ Len(p) = 1 /\ p[1] = a
        /\ q \in Seq(Labels) /\ Len(q) = 2 /\ q[1] = a /\ q[2] = "poll"
    BY <1>1
  <2> HIDE DEF p, q
  <2>2. /\ r \in Seq(Labels) /\ Len(r) = 2 /\ r[1] = a /\ r[2] = "poll"
    BY <1>1, <2>1, AppendProperties
  <2> HIDE DEF r
  <2>3. Len(q) = Len(r) /\ \A i \in 1..Len(q) : q[i] = r[i]
    BY <2>1, <2>2
  <2>4. r = q
    BY <2>1, <2>2, <2>3, SeqEqual
  <2> QED
    BY <2>4 DEF p, q, r
<1>3. Append(<<"disconnect", "release">>, "poll") = <<"disconnect", "release", "poll">>
  <2> DEFINE p == <<"disconnect", "release">>
             q == <<"disconnect", "release", "poll">>
             r == Append(p, "poll")
  <2>1. /\ p \in Seq(Labels) /\ Len(p) = 2
        /\ p[1] = "disconnect" /\ p[2] = "release"
        /\ q \in Seq(Labels) /\ Len(q) = 3
        /\ q[1] = "disconnect" /\ q[2] = "release" /\ q[3] = "poll"
    BY <1>1
  <2> HIDE DEF p, q
  <2>2. /\ r \in Seq(Labels) /\ Len(r) = 3
        /\ r[1] = "disconnect" /\ r[2] = "release" /\ r[3] = "poll"
    <3>1. /\ r \in Seq(Labels) /\ Len(r) = Len(p) + 1
          /\ \A i \in 1..Len(p) : r[i] = p[i]
          /\ r[Len(p) + 1] = "poll"
      <4>1. p \in Seq(Labels)
        BY <2>1
      <4> QED
        BY <1>1, <4>1, AppendProperties
    <3> HIDE DEF r
    <3>2. 1 \in 1..Len(p) /\ 2 \in 1..Len(p) /\ Len(p) + 1 = 3
      BY <2>1
    <3> QED
      BY <2>1, <3>1, <3>2
  <2> HIDE DEF r
  <2>3. Len(q) = Len(r) /\ \A i \in 1..Len(q) : q[i] = r[i]
    BY <2>1, <2>2
  <2>4. r = q
    BY <2>1, <2>2, <2>3, SeqEqual
  <2> QED
    BY <2>4 DEF p, q, r
<1> QED
  BY <1>2, <1>3

\* What a completion puts on the list of a worker.
LEMMA PollTurn ==
    ASSUME ClientInv, NEW w \in Workers, At(w, "poll"), NEW s \in Sessions,
           NEW body \in {<<"release">>, <<"zero">>, <<"rearm">>,
                         <<"disconnect", "release">>, <<"disconnect">>},
           Go(w, s, Append(body, "poll"))
    PROVE  /\ Turn(w, s, "poll", SetOf(body) \cup {"poll"})
           /\ On(w) = {"poll"} /\ On(w)' = SetOf(body) \cup {"poll"}
           /\ has[w] = None /\ has'[w] = s
           /\ SetOf(body) \in {{"release"}, {"zero"}, {"rearm"},
                               {"disconnect", "release"}, {"disconnect"}}
<1> DEFINE Full == Append(body, "poll")
<1>1. /\ TypeOK /\ ListInv /\ w \in Threads /\ "poll" \in Loops
      /\ "poll" \in Labels
  BY DEF ClientInv, Threads, Loops, Labels
<1>2. /\ has[w] = None /\ On(w) = {"poll"} /\ Rest(w) = {}
  BY <1>1, OnLoop
<1>3. /\ SetOf(Full) = SetOf(body) \cup {"poll"}
      /\ Fits("poll", Full)
      /\ SetOf(body) \in {{"release"}, {"zero"}, {"rearm"},
                          {"disconnect", "release"}, {"disconnect"}}
  <2>1. ASSUME NEW a \in {"release", "zero", "rearm", "disconnect"},
               body = <<a>>
        PROVE  /\ Full = <<a, "poll">> /\ SetOf(body) = {a}
               /\ SetOf(Full) = {a, "poll"} /\ Fits("poll", Full)
    <3>1. Full = <<a, "poll">>
      BY <2>1, Appended DEF Labels
    <3>2. /\ a \in Labels /\ "poll" \in Later[a]
          /\ Later["poll"] = {}
      BY LaterIs DEF Labels, After, Loops
    <3>3. Fits("poll", <<a, "poll">>)
      BY <1>1, <3>2, FitsTwo
    <3> HIDE DEF Full
    <3> QED
      BY <2>1, <3>1, <3>3, SetOfIs
  <2>2. ASSUME body = <<"disconnect", "release">>
        PROVE  /\ SetOf(body) = {"disconnect", "release"}
               /\ SetOf(Full) = {"disconnect", "release", "poll"}
               /\ Fits("poll", Full)
    <3>1. Full = <<"disconnect", "release", "poll">>
      BY <2>2, Appended
    <3>2. /\ "disconnect" \in Labels /\ "release" \in Labels
          /\ "release" \in Later["disconnect"] /\ "poll" \in Later["disconnect"]
          /\ "poll" \in Later["release"] /\ Later["poll"] = {}
      BY LaterIs DEF Labels, After, Loops
    <3>3. Fits("poll", <<"disconnect", "release", "poll">>)
      BY <1>1, <3>2, FitsThree
    <3> HIDE DEF Full
    <3> QED
      BY <2>2, <3>1, <3>3, SetOfIs
  <2> QED
    BY <2>1, <2>2
<1>4. \A a \in SetOf(Full) : Role(w, a) /\ a # "reset"
  <2>1. /\ Role(w, "poll") /\ Role(w, "release") /\ Role(w, "zero")
        /\ Role(w, "rearm") /\ Role(w, "disconnect")
    BY RolesAssumption DEF Role
  <2> QED
    BY <1>3, <2>1
<1>5. Turn(w, s, "poll", SetOf(Full))
  <2> HIDE DEF Full
  <2>1. Go(w, s, Full)
    BY DEF Full
  <2> QED
    BY <1>1, <1>3, <1>4, <2>1, GoFacts
<1>6. On(w)' = SetOf(body) \cup {"poll"}
  BY <1>2, <1>3, <1>5 DEF Turn
<1>7. has'[w] = s
  BY <1>3, <1>5, <1>6, TurnOthers, <1>1 DEF Loops
<1> QED
  BY <1>2, <1>3, <1>5, <1>6, <1>7

\* A worker that takes a completion of s is not among those that have s.
LEMMA TakesStep ==
    ASSUME ClientInv, NEW w \in Workers, NEW s \in Sessions, has[w] = None,
           NEW B, Turn(w, s, "poll", B), UNCHANGED process
    PROVE  /\ \A t \in Threads \ {w} :
                 /\ has'[t] = has[t] /\ On(t)' = On(t)
                 /\ Making(t)' <=> Making(t)
                 /\ Chained(t)' <=> Chained(t)
           /\ w \in Threads /\ \A t \in Threads : has[t] = s => t # w
           /\ ~Making(w) /\ ~Making(w)' /\ raced' = raced
           /\ MakeInv(s) /\ LiveInv(s) /\ CountInv(s) /\ SumInv(s) /\ CloseInv(s)
           /\ Only(w, s)
  BY TurnOthers, TurnIsOnly, NoneAssumption
    DEF Making, ClientInv, SesInv, process, Threads

LEMMA CompleteRecvKeeps ==
    ASSUME ClientInv, NEW w \in Workers, CompleteRecv(w)
    PROVE  ClientInv'
<1>1. PICK s \in Sessions, of \in {"recvs", "stale"}, what \in {"zero", "data"} :
         /\ ses[s][of] > 0
         /\ ses' = [ses EXCEPT ![s][of] = @ - 1, ![s].owner = FALSE,
                               ![s].recvPendingCnt = @ - 1]
         /\ \E body \in IF ~ses[s].owner THEN {<<"release">>}
                         ELSE IF what = "zero" THEN {<<"zero">>}
                         ELSE {<<"rearm">>, <<"disconnect", "release">>} :
               Go(w, s, Append(body, "poll"))
  BY DEF CompleteRecv
<1>2. /\ At(w, "poll") /\ UNCHANGED process /\ TypeOK /\ ListInv /\ OwnInv
      /\ ses[s] \in Loose /\ ses \in [Sessions -> Fields]
  BY FieldsAreLoose DEF CompleteRecv, ClientInv, TypeOK
<1>3. PICK body \in {<<"release">>, <<"zero">>, <<"rearm">>,
                     <<"disconnect", "release">>} :
         /\ Go(w, s, Append(body, "poll"))
         /\ ses[s].owner => body # <<"release">>
  BY <1>1
<1>4. PICK B \in {{"release"}, {"zero"}, {"rearm"}, {"disconnect", "release"}} :
         /\ Turn(w, s, "poll", B \cup {"poll"})
         /\ On(w) = {"poll"} /\ On(w)' = B \cup {"poll"}
         /\ has[w] = None /\ has'[w] = s
         /\ ses[s].owner => B # {"release"}
  <2>1. SetOf(body) \in {{"release"}, {"zero"}, {"rearm"}, {"disconnect", "release"}}
    BY SetOfIs
  <2>2. ses[s].owner => SetOf(body) # {"release"}
    <3>1. ses[s].owner => \/ body = <<"zero">> \/ body = <<"rearm">>
                          \/ body = <<"disconnect", "release">>
      BY <1>3
    <3>2. /\ SetOf(<<"zero">>) = {"zero"} /\ SetOf(<<"rearm">>) = {"rearm"}
          /\ SetOf(<<"disconnect", "release">>) = {"disconnect", "release"}
      BY SetOfIs
    <3> QED
      BY <3>1, <3>2
  <2>3. /\ Turn(w, s, "poll", SetOf(body) \cup {"poll"})
        /\ On(w) = {"poll"} /\ On(w)' = SetOf(body) \cup {"poll"}
        /\ has[w] = None /\ has'[w] = s
    BY <1>2, <1>3, PollTurn
  <2> QED
    BY <2>1, <2>2, <2>3
<1>5. PICK f \in Loose :
         /\ ses' = [ses EXCEPT ![s] = f] /\ ses'[s] = f
         /\ f.isConnected = ses[s].isConnected /\ f.socket = ses[s].socket
         /\ f.disconnecting = ses[s].disconnecting /\ f.owner = FALSE
         /\ \/ f.recvs = ses[s].recvs - 1 /\ f.stale = ses[s].stale /\ ses[s].recvs > 0
            \/ f.recvs = ses[s].recvs /\ f.stale = ses[s].stale - 1 /\ ses[s].stale > 0
         /\ f.recvPendingCnt = ses[s].recvPendingCnt - 1
         /\ f.isSending = ses[s].isSending /\ f.listed = ses[s].listed
  <2>1. CASE of = "recvs"
    <3> DEFINE f == [ses[s] EXCEPT !.recvs = @ - 1, !.owner = FALSE,
                                   !.recvPendingCnt = @ - 1]
    <3>1. ses[s].recvs > 0
      BY <1>1, <2>1
    <3>3. ses[s].recvs - 1 \in Nat /\ ses[s].recvPendingCnt - 1 \in Int
      BY <1>2, <3>1 DEF Loose
    <3>2. ses' = [ses EXCEPT ![s] = f]
      BY <1>1, <1>2, <2>1
    <3>4. /\ f \in Loose /\ f.isConnected = ses[s].isConnected
          /\ f.socket = ses[s].socket /\ f.owner = FALSE
          /\ f.disconnecting = ses[s].disconnecting
          /\ f.recvs = ses[s].recvs - 1
          /\ f.stale = ses[s].stale
          /\ f.recvPendingCnt = ses[s].recvPendingCnt - 1
          /\ f.isSending = ses[s].isSending /\ f.listed = ses[s].listed
      BY <1>2, <3>3 DEF Loose
    <3> HIDE DEF f
    <3>5. ses'[s] = f
      BY <1>2, <3>2
    <3> QED
      BY <3>1, <3>2, <3>4, <3>5
  <2>2. CASE of = "stale"
    <3> DEFINE f == [ses[s] EXCEPT !.stale = @ - 1, !.owner = FALSE,
                                   !.recvPendingCnt = @ - 1]
    <3>1. ses[s].stale > 0
      BY <1>1, <2>2
    <3>3. ses[s].stale - 1 \in Nat /\ ses[s].recvPendingCnt - 1 \in Int
      BY <1>2, <3>1 DEF Loose
    <3>2. ses' = [ses EXCEPT ![s] = f]
      BY <1>1, <1>2, <2>2
    <3>4. /\ f \in Loose /\ f.isConnected = ses[s].isConnected
          /\ f.socket = ses[s].socket /\ f.owner = FALSE
          /\ f.disconnecting = ses[s].disconnecting
          /\ f.stale = ses[s].stale - 1
          /\ f.recvs = ses[s].recvs
          /\ f.recvPendingCnt = ses[s].recvPendingCnt - 1
          /\ f.isSending = ses[s].isSending /\ f.listed = ses[s].listed
      BY <1>2, <3>3 DEF Loose
    <3> HIDE DEF f
    <3>5. ses'[s] = f
      BY <1>2, <3>2
    <3> QED
      BY <3>1, <3>2, <3>4, <3>5
  <2> QED
    BY <1>1, <2>1, <2>2
<1>6. /\ ses[s].recvs \in Nat /\ ses[s].stale \in Nat
      /\ ses[s].recvPendingCnt \in Int
      /\ f.recvs \in Nat /\ f.stale \in Nat
  BY <1>2 DEF Loose
<1>7. /\ \A t \in Threads \ {w} :
            /\ has'[t] = has[t] /\ On(t)' = On(t)
            /\ Making(t)' <=> Making(t)
            /\ Chained(t)' <=> Chained(t)
      /\ w \in Threads /\ \A t \in Threads : has[t] = s => t # w
      /\ ~Making(w) /\ ~Making(w)' /\ raced' = raced
      /\ MakeInv(s) /\ LiveInv(s) /\ CountInv(s) /\ SumInv(s) /\ CloseInv(s)
      /\ Only(w, s)
  BY <1>2, <1>4, TakesStep
<1>8. MakeInv(s)'
  BY <1>5, <1>6, <1>7 DEF MakeInv
<1>9. LiveInv(s)'
  <2> SUFFICES ASSUME s \notin raced, ses[s].isConnected
               PROVE  LiveInv(s)'
    BY <1>5, <1>7 DEF LiveInv
  <2>1. /\ ~ses[s].disconnecting /\ ses[s].socket # "none" /\ ses[s].stale = 0
        /\ ses[s].recvs = 1 /\ ses[s].recvPendingCnt = 1 /\ ses[s].owner
        /\ f.recvs = 0 /\ f.stale = 0 /\ f.recvPendingCnt = 0
        /\ \A t \in Threads : has[t] = s =>
              ~Chained(t) /\ "mark" \notin On(t) /\ "close" \notin On(t)
    BY <1>5, <1>6, <1>7 DEF LiveInv
  <2>2. \A t \in Threads : has'[t] = s =>
           /\ "mark" \notin On(t)' /\ "close" \notin On(t)'
           /\ Chained(t)' => t = w
    BY <1>4, <1>7, <2>1
  <2>3. Chained(w)' \/ "disconnect" \in On(w)'
    BY <1>4, <2>1 DEF Chained
  <2>4. \/ ses[s].socket = "new" \/ ses[s].listed
        \/ \E t \in Threads :
              has[t] = s /\ ("register" \in On(t) \/ "activate" \in On(t))
    BY <1>7 DEF LiveInv
  <2>5. \/ ses[s].socket = "new" \/ ses[s].listed
        \/ \E t \in Threads :
              has'[t] = s /\ ("register" \in On(t)' \/ "activate" \in On(t)')
    BY <1>7, <2>4
  <2> QED
    BY <1>4, <1>5, <1>7, <2>1, <2>2, <2>3, <2>5 DEF LiveInv
<1>10. CountInv(s)'
  BY <1>5, <1>6, <1>7, MaxRecvsType DEF CountInv
<1>11. SumInv(s)'
  <2>1. /\ Made(w, s) = 0 /\ Made(w, s)' = 0 /\ Token(w, s) = 0
        /\ Token(w, s)' \in {0, 1}
    BY <1>7 DEF Made, Token
  <2>2. ses'[s].recvs + ses'[s].stale + Token(w, s)' + Made(w, s)'
           <= ses[s].recvs + ses[s].stale + Token(w, s) + Made(w, s)
    BY <1>5, <1>6, <2>1
  <2> QED
    BY <1>2, <1>5, <1>6, <1>7, <2>1, <2>2, SumStep
<1>12. CloseInv(s)'
  BY <1>5, <1>7 DEF CloseInv
<1>13. SesInv(s)' /\ s \notin pool
  BY <1>5, <1>8, <1>9, <1>10, <1>11, <1>12, OutOfPool DEF SesInv
<1>14. Settled(w, s, "poll", B \cup {"poll"}, f)
  BY <1>2, <1>4, <1>5, <1>13 DEF Settled
<1> QED
  BY <1>7, <1>14, TurnKeeps

LEMMA CompleteSendKeeps ==
    ASSUME ClientInv, NEW w \in Workers, CompleteSend(w)
    PROVE  ClientInv'
<1>1. PICK s \in Sessions :
         /\ ses[s].isSending
         /\ ses' = [ses EXCEPT ![s].isSending = FALSE]
         /\ \/ UNCHANGED <<todo, has>>
            \/ Go(w, s, <<"disconnect", "poll">>)
  BY DEF CompleteSend
<1>2. /\ At(w, "poll") /\ UNCHANGED process /\ SesInv(s)
      /\ TypeOK /\ ListInv /\ OwnInv
      /\ ses[s] \in Loose /\ ses \in [Sessions -> Fields]
  BY FieldsAreLoose DEF CompleteSend, ClientInv, TypeOK
<1> DEFINE f == [ses[s] EXCEPT !.isSending = FALSE]
<1>3. /\ f \in Loose /\ ses' = [ses EXCEPT ![s] = f] /\ ses'[s] = f
  BY <1>1, <1>2 DEF Loose
<1>4. /\ f.isConnected = ses[s].isConnected /\ f.socket = ses[s].socket
      /\ f.disconnecting = ses[s].disconnecting /\ f.owner = ses[s].owner
      /\ f.recvs = ses[s].recvs /\ f.stale = ses[s].stale
      /\ f.recvPendingCnt = ses[s].recvPendingCnt
      /\ ~f.isSending /\ f.listed = ses[s].listed
  BY <1>2 DEF Loose
<1> HIDE DEF f
<1>5. s \notin pool
  BY <1>1, OutOfPool
<1>6. CASE UNCHANGED <<todo, has>>
  <2>1. /\ \A t \in Threads : /\ On(t)' = On(t) /\ has'[t] = has[t]
                              /\ Making(t)' <=> Making(t)
                              /\ Chained(t)' <=> Chained(t)
        /\ raced' = raced
    BY <1>2, <1>6 DEF On, Making, Chained, process
  <2>2. MakeInv(s)'
    BY <1>2, <1>3, <1>4, <2>1 DEF MakeInv, SesInv
  <2>3. LiveInv(s)'
    BY <1>2, <1>3, <1>4, <2>1 DEF LiveInv, SesInv
  <2>4. CloseInv(s)'
    BY <1>2, <1>3, <1>4, <2>1 DEF CloseInv, SesInv
  <2> QED
    BY <1>2, <1>3, <1>4, <1>5, <1>6, <2>2, <2>3, <2>4, FieldKeeps
<1>7. CASE Go(w, s, <<"disconnect", "poll">>)
  <2> DEFINE B == {"disconnect", "poll"}
  <2>1. /\ Turn(w, s, "poll", B) /\ On(w)' = B
        /\ has[w] = None /\ has'[w] = s
    <3>1. Append(<<"disconnect">>, "poll") = <<"disconnect", "poll">>
      BY Appended DEF Labels
    <3>2. SetOf(<<"disconnect">>) \cup {"poll"} = B
      BY SetOfIs
    <3>3. Go(w, s, Append(<<"disconnect">>, "poll"))
      BY <1>7, <3>1
    <3>4. /\ Turn(w, s, "poll", SetOf(<<"disconnect">>) \cup {"poll"})
          /\ On(w)' = SetOf(<<"disconnect">>) \cup {"poll"}
          /\ has[w] = None /\ has'[w] = s
      BY <1>2, <3>3, PollTurn
    <3> QED
      BY <3>2, <3>4
  <2>2. /\ \A t \in Threads \ {w} :
              /\ has'[t] = has[t] /\ On(t)' = On(t)
              /\ Making(t)' <=> Making(t)
              /\ Chained(t)' <=> Chained(t)
        /\ w \in Threads /\ \A t \in Threads : has[t] = s => t # w
        /\ ~Making(w) /\ ~Making(w)' /\ raced' = raced
        /\ MakeInv(s) /\ LiveInv(s) /\ CountInv(s) /\ SumInv(s) /\ CloseInv(s)
        /\ Only(w, s)
    BY <1>2, <2>1, TakesStep
  <2>3. MakeInv(s)'
    BY <1>1, <1>3, <1>4, <2>2 DEF MakeInv
  <2>4. ~Chained(w)'
    BY <2>1 DEF Chained
  <2>5. LiveInv(s)'
    BY <1>3, <1>4, <2>1, <2>2, <2>4 DEF LiveInv
  <2>6. CountInv(s)'
    BY <1>3, <1>4, <2>2 DEF CountInv
  <2>7. SumInv(s)'
    <3>1. /\ Made(w, s) = 0 /\ Made(w, s)' = 0
          /\ Token(w, s) = 0 /\ Token(w, s)' = 0
      BY <2>1, <2>2 DEF Made, Token, Posting
    <3>2. ses[s].recvs \in Nat /\ ses[s].stale \in Nat
      BY <1>2 DEF Loose
    <3> QED
      BY <1>2, <1>3, <1>4, <2>2, <3>1, <3>2, SumStep
  <2>8. CloseInv(s)'
    BY <1>3, <1>4, <2>2 DEF CloseInv
  <2>9. SesInv(s)'
    BY <2>3, <2>5, <2>6, <2>7, <2>8 DEF SesInv
  <2>10. Settled(w, s, "poll", B, f)
    BY <1>2, <1>3, <1>4, <1>5, <2>1, <2>9 DEF Settled
  <2> QED
    BY <2>2, <2>10, TurnKeeps
<1> QED
  BY <1>1, <1>6, <1>7

LEMMA AcquireKeeps ==
    ASSUME ClientInv, NEW c \in Connectors, Acquire(c)
    PROVE  ClientInv'
<1>1. PICK s \in pool : /\ pool' = pool \ {s}
                        /\ Go(c, s, <<"socket", "connect", "acquire">>)
  BY DEF Acquire
<1>2. /\ TypeOK /\ ListInv /\ OwnInv /\ EndInv /\ \A r \in Sessions : SesInv(r)
      /\ At(c, "acquire") /\ c \in Threads /\ "acquire" \in Loops
      /\ "acquire" \in Labels
  BY DEF ClientInv, Acquire, Threads, Loops, Labels
<1>3. /\ left[c] > 0 /\ left' = [left EXCEPT ![c] = @ - 1]
      /\ UNCHANGED <<stage, running, local, clientSessions>>
      /\ UNCHANGED <<rest, raced, visited>> /\ ses' = ses
  BY DEF Acquire
<1>4. has[c] = None /\ On(c) = {"acquire"} /\ Rest(c) = {}
  BY <1>2, OnLoop
<1>5. s \in Sessions /\ s # None
  BY <1>2, NoneAssumption DEF TypeOK
<1> DEFINE B == {"socket", "connect", "acquire"}
<1>6. Turn(c, s, "acquire", B)
  <2>1. /\ "socket" \in Labels /\ "connect" \in Labels
        /\ "connect" \in Later["socket"] /\ "acquire" \in Later["socket"]
        /\ "acquire" \in Later["connect"] /\ Later["acquire"] = {}
    BY LaterIs DEF Labels, Loops
  <2>2. Fits("acquire", <<"socket", "connect", "acquire">>)
    BY <1>2, <2>1, FitsThree
  <2>3. SetOf(<<"socket", "connect", "acquire">>) = B
    BY SetOfIs
  <2>4. \A a \in B : Role(c, a) /\ a # "reset"
    BY RolesAssumption DEF Role
  <2> QED
    BY <1>1, <1>2, <1>5, <2>2, <2>3, <2>4, GoFacts
<1>7. /\ On(c)' = B
      /\ \A u \in Threads \ {c} :
            has'[u] = has[u] /\ On(u)' = On(u) /\ todo'[u] = todo[u]
  BY <1>4, <1>6 DEF Turn
<1>8. has'[c] = s
  BY <1>2, <1>6, <1>7, TurnOthers DEF Loops
<1> HIDE DEF B
<1>9. \A u \in Threads : has[u] # s
  BY <1>1, <1>2 DEF OwnInv
<1>10. TypeOK'
  <2>1. left' \in [Connectors -> 0..PerThread]
    BY <1>2, <1>3, BoundsAssumption DEF TypeOK
  <2> QED
    BY <1>1, <1>2, <1>3, <1>6, <2>1 DEF TypeOK, Turn
<1>11. OwnInv'
  <2>1. \A d \in Connectors : d \in Threads
    BY DEF Threads
  <2>2. Sender \in Threads /\ Main \in Threads /\ c \notin {Sender, Main}
    BY RolesAssumption DEF Threads
  <2>3. /\ s \notin clientSessions /\ \A d \in Connectors : s \notin local[d]
    BY <1>1, <1>2 DEF OwnInv
  <2> QED
    BY <1>1, <1>2, <1>3, <1>7, <1>8, <1>9, <2>1, <2>2, <2>3 DEF OwnInv
<1>12. SesInv(s)'
  <2>1. /\ ses'[s] = Fresh
        /\ ses'[s].isConnected = FALSE /\ ses'[s].socket = "none"
        /\ ses'[s].recvs = 0 /\ ses'[s].stale = 0 /\ ses'[s].recvPendingCnt = 0
        /\ ~ses'[s].disconnecting /\ ~ses'[s].isSending
    BY <1>1, <1>2, <1>3 DEF OwnInv, Fresh
  <2>2. \A u \in Threads : has'[u] = s => u = c
    BY <1>7, <1>9
  <2>3. "socket" \in On(c)'
    BY <1>7 DEF B
  <2>4. MakeInv(s)'
    BY <2>1, <2>2, <2>3 DEF MakeInv
  <2>5. LiveInv(s)' /\ CloseInv(s)'
    BY <2>1 DEF LiveInv, CloseInv
  <2>6. CountInv(s)'
    BY <2>1, MaxRecvsType DEF CountInv
  <2>7. SumInv(s)'
    <3>1. Tokens(s)' = {}
      BY <2>2, RolesAssumption DEF Tokens, Threads
    <3>2. Maker(s)' \in {0, 1}
      BY DEF Maker
    <3>3. MaxRecvs >= 1
      BY FiniteAssumption, FS_CardinalityType, BoundsAssumption DEF MaxRecvs
    <3> QED
      BY <2>1, <3>1, <3>2, <3>3, MaxRecvsType, FS_EmptySet DEF SumInv
  <2> QED
    BY <2>4, <2>5, <2>6, <2>7 DEF SesInv
<1>13. \A r \in Sessions : SesInv(r)'
  <2>1. Only(c, s)
    BY <1>2, <1>4, <1>5, <1>6, TurnIsOnly
  <2> QED
    BY <1>2, <1>3, <1>5, <1>12, <2>1, Elsewhere
<1>14. EndInv'
  <2>1. c # Main /\ c # Sender /\ Main \in Threads /\ Sender \in Threads
    BY RolesAssumption DEF Threads
  <2>2. todo[c] # <<>>
    BY <1>2 DEF At
  <2>3. stage # "cleared"
    BY <1>2, <2>2 DEF EndInv
  <2> QED
    BY <1>2, <1>3, <1>7, <2>1, <2>3 DEF EndInv
<1> QED
  BY <1>6, <1>10, <1>11, <1>13, <1>14 DEF ClientInv, Turn

LEMMA ConnectFailsKeeps ==
    ASSUME ClientInv, NEW t \in Threads, NEW s \in Sessions, has[t] = s,
           ConnectFails(t)
    PROVE  ClientInv'
<1>1. /\ TypeOK /\ ListInv /\ OwnInv /\ EndInv /\ \A r \in Sessions : SesInv(r)
      /\ "connect" \in Labels \ Loops /\ At(t, "connect")
  BY DEF ClientInv, ConnectFails, Labels, Loops
<1>2. /\ ses[s] \in Loose /\ Role(t, "connect")
      /\ SesInv(s) /\ ses \in [Sessions -> Fields] /\ s # None
  BY <1>1, OnTurn, NoneAssumption
<1>3. Turn(t, s, "connect", {})
  <2>1. Go(t, s, <<>>)
    BY DEF ConnectFails, Then
  <2>2. Fits("connect", <<>>) /\ SetOf(<<>>) = {}
    BY <1>1, FitsNone, SetOfIs
  <2> QED
    BY <1>1, <2>1, <2>2, GoFacts
<1>4. /\ Rest(t) \subseteq Loops
      /\ On(t) = {"connect"} \cup Rest(t) /\ On(t)' = Rest(t)
      /\ has'[t] = None
  BY <1>3, LaterIs DEF Turn, Busy
<1>5. /\ Making(t) /\ ~Making(t)' /\ ~Chained(t) /\ ~Chained(t)'
      /\ t \notin Workers /\ t \in Connectors \cup {Sender}
  BY <1>2, <1>4, RolesAssumption DEF Making, Chained, Role, Loops
<1>6. CASE t \notin Connectors
  <2>1. UNCHANGED process /\ ses' = ses
    BY <1>6 DEF ConnectFails, process, lists
  <2>2. ses' = [ses EXCEPT ![s] = ses[s]] /\ ses'[s] = ses[s]
    BY <1>2, <2>1
  <2>3. /\ raced' = raced /\ MakeInv(s) /\ LiveInv(s) /\ CountInv(s) /\ CloseInv(s)
    BY <1>2, <2>1 DEF process, SesInv
  <2>4. MakeInv(s)'
    BY <1>3, <1>5, <2>3, MakeStep
  <2>5. LiveInv(s)'
    BY <1>1, <1>2, <1>3, <1>4, <1>5, <2>2, <2>3, TurnOthers
      DEF LiveInv, MakeInv, Loops
  <2>6. CountInv(s)'
    BY <2>2, <2>3 DEF CountInv
  <2>7. SumInv(s)'
    <3>1. /\ ses'[s].recvs \in Nat /\ ses'[s].stale \in Nat
      BY <1>2, <2>2 DEF Loose
    <3> QED
      BY <1>3, <1>5, <2>2, <3>1, SumTurn
  <2>8. CloseInv(s)'
    BY <1>3, <1>4, <2>2, <2>3, TurnOthers DEF CloseInv, Loops
  <2>9. SesInv(s)'
    BY <2>4, <2>5, <2>6, <2>7, <2>8 DEF SesInv
  <2>10. Settled(t, s, "connect", {}, ses[s])
    BY <1>2, <1>3, <2>1, <2>2, <2>9 DEF Settled
  <2> QED
    BY <2>10, TurnKeeps
<1>7. CASE t \in Connectors
  <2>1. /\ pool' = pool \cup {s} /\ ses' = [ses EXCEPT ![s] = Fresh]
        /\ UNCHANGED <<stage, running, left, local, clientSessions>>
        /\ UNCHANGED <<rest, raced, visited>>
    BY <1>7 DEF ConnectFails
  <2>2. /\ s \notin clientSessions /\ s \notin raced
        /\ \A d \in Connectors : s \notin local[d]
    BY <1>1, <1>2, <1>7 DEF OwnInv
  <2>3. \A u \in Threads : has[u] = s => u = t
    BY <1>2, <1>5, <2>2 DEF SesInv, MakeInv
  <2>4. /\ \A u \in Threads \ {t} :
              has'[u] = has[u] /\ On(u)' = On(u) /\ todo'[u] = todo[u]
        /\ \A u \in Threads : has'[u] # s
    BY <1>2, <1>3, <1>4, <2>3 DEF Turn
  <2>5. ses'[s] = Fresh /\ \A r \in Sessions \ {s} : ses'[r] = ses[r]
    BY <1>2, <2>1
  <2>6. SesInv(s)'
    BY <2>4, <2>5, FreshInvNext
  <2>7. \A r \in Sessions : SesInv(r)'
    <3>1. Only(t, s)
      BY <1>3, TurnIsOnly
    <3> QED
      BY <1>1, <2>1, <2>5, <2>6, <3>1, Elsewhere
  <2>8. TypeOK'
    <3>1. Fresh \in Fields
      <4>1. Fresh \in Loose
        BY DEF Fresh, Loose
      <4>2. /\ Fresh.recvPendingCnt = 0 /\ Fresh.recvs = 0 /\ Fresh.stale = 0
        BY DEF Fresh
      <4> QED
        BY <4>1, <4>2, FieldsFit, MaxRecvsType
    <3>2. ses' \in [Sessions -> Fields]
      BY <1>2, <2>1, <3>1
    <3> QED
      BY <1>1, <1>3, <2>1, <3>2 DEF TypeOK, Turn
  <2>9. OwnInv'
    <3>1. \A d \in Connectors : d \in Threads
      BY DEF Threads
    <3>2. Sender \in Threads /\ Main \in Threads /\ t \notin {Sender, Main}
      BY <1>7, RolesAssumption DEF Threads
    <3>3. None \notin pool'
      BY <1>1, <1>2, <2>1, NoneAssumption DEF TypeOK
    <3>4. pool \subseteq Sessions
      BY <1>1 DEF TypeOK
    <3> QED
      BY <1>1, <1>4, <1>7, <2>1, <2>2, <2>4, <2>5, <3>1, <3>2, <3>3, <3>4
        DEF OwnInv
  <2>10. EndInv'
    <3>1. Sender \in Threads /\ Main \in Threads /\ t \notin {Sender, Main}
      BY <1>7, RolesAssumption DEF Threads
    <3>2. todo[t] # <<>>
      BY <1>1 DEF At
    <3>3. stage # "cleared"
      BY <1>1, <1>7, <3>2 DEF EndInv
    <3>4. s \notin visited /\ visited \subseteq Sessions
      BY <1>1, <2>2 DEF TypeOK
    <3> QED
      BY <1>1, <2>1, <2>4, <2>5, <3>1, <3>3, <3>4 DEF EndInv
  <2> QED
    BY <1>3, <2>7, <2>8, <2>9, <2>10 DEF ClientInv, Turn
<1> QED
  BY <1>6, <1>7

-----------------------------------------------------------------------------
(* Steps on no session                                                     *)

\* No session changes, and threads give up or keep the labels of their loops
\* and `keep' only.
Quiet ==
    /\ UNCHANGED <<ses, raced>>
    /\ \A t \in Threads :
          /\ \A a \in Labels \ (Loops \cup {"keep"}) : a \in On(t)' <=> a \in On(t)
          /\ \/ has'[t] = has[t]
             \/ has'[t] = None /\ On(t) \subseteq Loops \cup {"keep"}

LEMMA QuietKeeps ==
    ASSUME ListInv, \A s \in Sessions : SesInv(s), Quiet
    PROVE  \A s \in Sessions : SesInv(s)'
<1> SUFFICES ASSUME NEW s \in Sessions
             PROVE  SesInv(s)'
  OBVIOUS
<1>1. /\ SesInv(s) /\ ses'[s] = ses[s] /\ raced' = raced /\ s # None
  BY NoneAssumption DEF Quiet
<1>2. \A t \in Threads :
         /\ "socket" \in On(t)' <=> "socket" \in On(t)
         /\ "connect" \in On(t)' <=> "connect" \in On(t)
         /\ "register" \in On(t)' <=> "register" \in On(t)
         /\ "recv" \in On(t)' <=> "recv" \in On(t)
         /\ "post" \in On(t)' <=> "post" \in On(t)
         /\ "zero" \in On(t)' <=> "zero" \in On(t)
         /\ "rearm" \in On(t)' <=> "rearm" \in On(t)
         /\ "reset" \in On(t)' <=> "reset" \in On(t)
         /\ "mark" \in On(t)' <=> "mark" \in On(t)
         /\ "close" \in On(t)' <=> "close" \in On(t)
         /\ "activate" \in On(t)' <=> "activate" \in On(t)
         /\ "disconnect" \in On(t)' <=> "disconnect" \in On(t)
  BY DEF Quiet, Labels, Loops
<1>3. \A t \in Threads : /\ Making(t)' <=> Making(t)
                         /\ Chained(t)' <=> Chained(t)
                         /\ Posting(t)' <=> Posting(t)
  BY <1>2 DEF Making, Chained, Posting
<1>4. \A t \in Threads : has'[t] = s => has[t] = s
  BY <1>1 DEF Quiet
<1>5. \A t \in Threads : has[t] = s =>
         \/ has'[t] = s
         \/ /\ ~Making(t) /\ ~Chained(t) /\ ~Posting(t)
            /\ "disconnect" \notin On(t) /\ "register" \notin On(t)
            /\ "activate" \notin On(t) /\ "close" \notin On(t)
  BY <1>1 DEF Quiet, Making, Chained, Posting, Loops
<1>6. MakeInv(s)'
  BY <1>1, <1>2, <1>3, <1>4 DEF SesInv, MakeInv
<1>7. LiveInv(s)'
  BY <1>1, <1>2, <1>3, <1>4, <1>5 DEF SesInv, LiveInv
<1>8. CountInv(s)'
  BY <1>1 DEF SesInv, CountInv
<1>9. SumInv(s)'
  <2>1. Tokens(s)' = Tokens(s)
    BY <1>3, <1>4, <1>5 DEF Tokens, Threads
  <2>2. Maker(s)' = Maker(s)
    BY <1>3, <1>4, <1>5 DEF Maker
  <2> QED
    BY <1>1, <2>1, <2>2 DEF SesInv, SumInv
<1>10. CloseInv(s)'
  BY <1>1, <1>2, <1>4, <1>5 DEF SesInv, CloseInv
<1> QED
  BY <1>6, <1>7, <1>8, <1>9, <1>10 DEF SesInv

\* A turn that is quiet.
LEMMA TurnIsQuiet ==
    ASSUME NEW t \in Threads, NEW s, NEW label \in Loops \cup {"keep"},
           NEW B \in SUBSET Loops, Turn(t, s, label, B), has[t] \in {s, None},
           label \in Loops => has[t] = None,
           UNCHANGED <<ses, raced>>
    PROVE  Quiet /\ has'[t] = None
<1>1. Rest(t) \subseteq Loops
  BY LaterIs DEF Turn, Loops
<1>2. On(t) \subseteq Loops \cup {"keep"} /\ On(t)' \subseteq Loops
  BY <1>1 DEF Turn
<1>3. has'[t] = None
  BY <1>2 DEF Turn, Busy
<1> QED
  BY <1>2, <1>3 DEF Quiet, Turn

\* Only the lists and the threads' own variables change.
LEMMA KeepKeeps ==
    ASSUME ClientInv, NEW c \in Connectors, Keep(c)
    PROVE  ClientInv'
<1>1. /\ TypeOK /\ ListInv /\ OwnInv /\ EndInv /\ \A r \in Sessions : SesInv(r)
      /\ "keep" \in Labels \ Loops /\ At(c, "keep") /\ c \in Threads
  BY DEF ClientInv, Keep, Labels, Loops, Threads
<1>2. PICK s \in Sessions : has[c] = s
  BY <1>1, OnTurn
<1>3. /\ local' = [local EXCEPT ![c] = @ \cup {s}] /\ Go(c, s, <<>>)
      /\ UNCHANGED <<stage, running, pool, left, clientSessions>>
      /\ UNCHANGED <<rest, raced, visited>> /\ ses' = ses
  BY <1>2 DEF Keep, Then
<1>4. Turn(c, s, "keep", {})
  <2>1. Fits("keep", <<>>) /\ SetOf(<<>>) = {}
    BY <1>1, FitsNone, SetOfIs
  <2> QED
    BY <1>1, <1>3, <2>1, GoFacts
<1>5. Quiet /\ has'[c] = None
  BY <1>1, <1>2, <1>3, <1>4, TurnIsQuiet
<1>6. /\ \A u \in Threads \ {c} : has'[u] = has[u] /\ todo'[u] = todo[u] /\ On(u)' = On(u)
      /\ c \notin {Sender, Main} /\ {Sender, Main} \subseteq Threads
  BY <1>4, RolesAssumption DEF Turn, Threads
<1>7. TypeOK'
  BY <1>1, <1>3, <1>4 DEF TypeOK, Turn
<1>8. OwnInv'
  <2>1. /\ local \in [Connectors -> SUBSET Sessions] /\ None \notin pool /\ s # None
    BY <1>1, NoneAssumption DEF TypeOK
  <2>2. \A d \in Connectors :
           /\ d \in Threads
           /\ local'[d] = IF d = c THEN local[d] \cup {s} ELSE local[d]
    BY <1>3, <2>1 DEF Threads
  <2>3. s \notin pool /\ \A d \in Connectors : has[d] = s => d = c
    BY <1>1, <1>2, <2>1 DEF OwnInv
  <2>4. /\ \A u \in Threads : has'[u] \in {has[u], None}
        /\ \A d \in Connectors : has'[d] # None => d # c /\ has'[d] = has[d]
        /\ has'[Sender] = has[Sender] /\ has'[Main] = has[Main]
    BY <1>5, <1>6, <2>2
  <2>5. \A d \in Connectors : local'[d] \cap pool = {}
    BY <1>1, <2>2, <2>3 DEF OwnInv
  <2>6. \A d \in Connectors : has'[d] # None =>
           /\ has'[d] \notin clientSessions
           /\ \A e \in Connectors :
                 has'[d] \notin local'[e] /\ (has'[e] = has'[d] => e = d)
    <3> SUFFICES ASSUME NEW d \in Connectors, has'[d] # None
                 PROVE  /\ has'[d] \notin clientSessions
                        /\ \A e \in Connectors :
                              /\ has'[d] \notin local'[e]
                              /\ has'[e] = has'[d] => e = d
      OBVIOUS
    <3>1. d # c /\ has'[d] = has[d] /\ has[d] # None
      BY <2>4
    <3>2. /\ has[d] \notin clientSessions /\ has[d] # s
          /\ \A e \in Connectors : has[d] \notin local[e] /\ (has[e] = has[d] => e = d)
      BY <1>1, <2>3, <3>1 DEF OwnInv
    <3> QED
      BY <2>2, <2>4, <3>1, <3>2
  <2>7. \A u \in Threads : has'[u] \notin pool
    BY <1>1, <2>1, <2>4 DEF OwnInv
  <2> QED
    BY <1>1, <1>3, <2>4, <2>5, <2>6, <2>7 DEF OwnInv
<1>9. EndInv'
  <2>1. todo[c] # <<>>
    BY <1>1 DEF At
  <2>2. stage # "cleared"
    BY <1>1, <2>1 DEF EndInv
  <2> QED
    BY <1>1, <1>3, <1>6, <2>2 DEF EndInv
<1> QED
  BY <1>1, <1>4, <1>5, <1>7, <1>8, <1>9, QuietKeeps DEF ClientInv, Turn

\* A thread that works on nothing drops the label of its loop, or keeps it.
LEMMA LoopTurn ==
    ASSUME ClientInv, NEW t \in Threads, NEW label \in Loops, At(t, label),
           NEW body \in {<<>>, <<label>>}, Then(t, body)
    PROVE  /\ has' = has /\ ListInv' /\ has[t] = None
           /\ todo' \in [Threads -> Seq(Labels)]
           /\ \A u \in Threads \ {t} : On(u)' = On(u) /\ todo'[u] = todo[u]
           /\ UNCHANGED <<ses, raced>> => Quiet
<1>1. /\ TypeOK /\ ListInv /\ label \in Labels
  BY DEF ClientInv, Loops, Labels
<1>2. has[t] = None /\ On(t) = {label} /\ Role(t, label)
  BY OnLoop
<1>3. Fits(label, body) /\ SetOf(body) \in {{}, {label}}
  BY <1>1, FitsNone, FitsOne, SetOfIs
<1>4. Turn(t, None, label, SetOf(body))
  <2>1. Go(t, None, body)
    BY <1>2 DEF Then
  <2>2. \A a \in SetOf(body) : Role(t, a) /\ a \in Loops /\ a # "reset"
    BY <1>2, <1>3 DEF Loops
  <2> QED
    BY <1>1, <1>3, <2>1, <2>2, GoStep
<1>5. has' = has
  <2>1. /\ has \in [Threads -> Sessions \cup {None}]
        /\ has' \in [Threads -> Sessions \cup {None}]
        /\ \A u \in Threads : has'[u] = has[u]
    BY <1>1, <1>2, <1>4 DEF TypeOK, Turn
  <2> QED
    BY <2>1
<1>6. UNCHANGED <<ses, raced>> => Quiet
  BY <1>2, <1>3, <1>4, TurnIsQuiet
<1> QED
  BY <1>2, <1>4, <1>5, <1>6 DEF Turn

LEMMA MergeKeeps ==
    ASSUME ClientInv, NEW c \in Connectors, Merge(c)
    PROVE  ClientInv'
<1>1. /\ TypeOK /\ ListInv /\ OwnInv /\ EndInv /\ \A r \in Sessions : SesInv(r)
      /\ "acquire" \in Loops /\ At(c, "acquire") /\ c \in Threads
  BY DEF ClientInv, Merge, Loops, Threads
<1>2. /\ clientSessions' = clientSessions \cup local[c]
      /\ local' = [local EXCEPT ![c] = {}] /\ Then(c, <<>>)
      /\ UNCHANGED <<stage, running, pool, left>>
      /\ UNCHANGED <<rest, raced, visited>> /\ ses' = ses
  BY DEF Merge
<1>3. /\ has' = has /\ ListInv' /\ Quiet /\ todo' \in [Threads -> Seq(Labels)]
      /\ \A u \in Threads \ {c} : On(u)' = On(u) /\ todo'[u] = todo[u]
  BY <1>1, <1>2, LoopTurn
<1>4. TypeOK'
  BY <1>1, <1>2, <1>3 DEF TypeOK
<1>5. OwnInv'
  <2>1. \A d \in Connectors : local'[d] \subseteq local[d]
    BY <1>1, <1>2 DEF TypeOK
  <2>2. \A d \in Connectors : has[d] # None => has[d] \notin clientSessions'
    BY <1>1, <1>2 DEF OwnInv
  <2>3. clientSessions' \cap pool = {} /\ clientSessions \subseteq clientSessions'
    BY <1>1, <1>2 DEF OwnInv
  <2> QED
    BY <1>1, <1>2, <1>3, <2>1, <2>2, <2>3 DEF OwnInv
<1>6. EndInv'
  <2>1. todo[c] # <<>> /\ c \notin {Sender, Main} /\ {Sender, Main} \subseteq Threads
    BY <1>1, RolesAssumption DEF At, Threads
  <2>2. stage # "cleared"
    BY <1>1, <2>1 DEF EndInv
  <2> QED
    BY <1>1, <1>2, <1>3, <2>1, <2>2 DEF EndInv
<1> QED
  BY <1>1, <1>3, <1>4, <1>5, <1>6, QuietKeeps DEF ClientInv

\* Nothing changes that OwnInv is about.
LEMMA OwnKept ==
    ASSUME OwnInv, UNCHANGED <<pool, local, clientSessions, has, raced, ses>>
    PROVE  OwnInv'
  BY DEF OwnInv

LEMMA ReturnKeeps ==
    ASSUME ClientInv, NEW w \in Workers, Return(w)
    PROVE  ClientInv'
<1>1. /\ TypeOK /\ ListInv /\ OwnInv /\ EndInv /\ \A r \in Sessions : SesInv(r)
      /\ "poll" \in Loops /\ At(w, "poll") /\ w \in Threads
  BY DEF ClientInv, Return, Loops, Threads
<1>2. /\ UNCHANGED <<stage, running, pool, left, local, clientSessions>>
      /\ UNCHANGED <<rest, raced, visited>> /\ ses' = ses /\ Then(w, <<>>)
  BY DEF Return, process, lists
<1>3. /\ has' = has /\ ListInv' /\ Quiet /\ todo' \in [Threads -> Seq(Labels)]
      /\ \A u \in Threads \ {w} : On(u)' = On(u) /\ todo'[u] = todo[u]
  BY <1>1, <1>2, LoopTurn
<1>4. TypeOK'
  BY <1>1, <1>2, <1>3 DEF TypeOK
<1>5. EndInv'
  <2>1. todo[w] # <<>> /\ w \notin {Sender, Main} /\ {Sender, Main} \subseteq Threads
    BY <1>1, RolesAssumption DEF At, Threads
  <2>2. stage # "cleared"
    BY <1>1, <2>1 DEF EndInv
  <2> QED
    BY <1>1, <1>2, <1>3, <2>1, <2>2 DEF EndInv
<1> QED
  BY <1>1, <1>2, <1>3, <1>4, <1>5, QuietKeeps, OwnKept DEF ClientInv

LEMMA PassKeeps ==
    ASSUME ClientInv, Pass
    PROVE  ClientInv'
<1>1. /\ TypeOK /\ ListInv /\ OwnInv /\ EndInv /\ \A r \in Sessions : SesInv(r)
      /\ "each" \in Loops /\ At(Sender, "each") /\ Sender \in Threads
  BY DEF ClientInv, Pass, Loops, Threads
<1>2. /\ UNCHANGED <<stage, running, pool, left, local, clientSessions>>
      /\ UNCHANGED <<raced, visited>> /\ ses' = ses
      /\ rest' \in {clientSessions, {}}
      /\ Then(Sender, <<>>) \/ Then(Sender, <<"each">>)
  BY DEF Pass, lists
<1>3. /\ has' = has /\ ListInv' /\ Quiet /\ todo' \in [Threads -> Seq(Labels)]
      /\ \A u \in Threads \ {Sender} : On(u)' = On(u) /\ todo'[u] = todo[u]
  BY <1>1, <1>2, LoopTurn
<1>4. TypeOK'
  BY <1>1, <1>2, <1>3 DEF TypeOK
<1>5. EndInv'
  <2>1. todo[Sender] # <<>>
    BY <1>1 DEF At
  <2>2. stage \in {"serving", "join sender"}
    BY <1>1, <2>1 DEF EndInv, TypeOK
  <2> QED
    BY <1>1, <1>2, <1>3, <2>2 DEF EndInv
<1> QED
  BY <1>1, <1>2, <1>3, <1>4, <1>5, QuietKeeps, OwnKept DEF ClientInv

-----------------------------------------------------------------------------
(* The steps of the send thread and of End                                 *)

\* The send thread or the main thread takes the next session of its loop.
LEMMA NextOne ==
    ASSUME ClientInv, NEW t \in {Sender, Main}, has[t] = None,
           NEW s \in rest, rest' = rest \ {s}, NEW label,
           NEW B, Turn(t, s, label, B), label \in Loops,
           B \subseteq {"send", "each", "reset", "socket", "connect", "disconnect", "end"},
           "socket" \in B \/ "connect" \in B => "reset" \in B,
           t = Main => todo[Sender] = <<>>,
           UNCHANGED <<stage, running, lists, raced, visited, ses>>
    PROVE  TypeOK' /\ OwnInv' /\ \A r \in Sessions : SesInv(r)'
<1>1. /\ TypeOK /\ ListInv /\ OwnInv /\ \A r \in Sessions : SesInv(r)
      /\ UNCHANGED <<stage, running, pool, left, local, clientSessions>>
      /\ UNCHANGED <<raced, visited, ses>> /\ t \in Threads
  BY DEF ClientInv, lists, Threads
<1>2. s \in clientSessions /\ s \in Sessions /\ s # None /\ s \notin pool
  BY <1>1, NoneAssumption DEF TypeOK, OwnInv
<1>3. Rest(t) = {} /\ On(t) = {label} /\ On(t)' = B
  BY LaterIs DEF Turn, Loops
<1>4. /\ \A u \in Threads \ {t} :
            /\ has'[u] = has[u] /\ On(u)' = On(u)
            /\ Making(u)' <=> Making(u)
            /\ Chained(u)' <=> Chained(u)
            /\ Posting(u)' <=> Posting(u)
      /\ has'[t] \in {s, None}
      /\ ListInv' /\ todo' \in [Threads -> Seq(Labels)]
      /\ has' \in [Threads -> Sessions \cup {None}]
  BY DEF Turn, Making, Chained, Posting
<1>5. TypeOK'
  BY <1>1, <1>4 DEF TypeOK
<1>6. OwnInv'
  <2>1. \A d \in Connectors : d \in Threads /\ d # t
    BY RolesAssumption DEF Threads
  <2>2. Sender \in Threads /\ Main \in Threads
    BY DEF Threads
  <2>3. None \notin pool
    BY <1>1, NoneAssumption DEF TypeOK
  <2> QED
    BY <1>1, <1>2, <1>4, <2>1, <2>2, <2>3 DEF OwnInv
<1>7. ~Making(t)' /\ ~Chained(t)' /\ ~Chained(t) /\ ~Making(t)
      /\ "mark" \notin B /\ "close" \notin B
  BY <1>3 DEF Making, Chained, Loops
<1>8. \A u \in Threads : has[u] = s => ~Making(u)
  <2>1. \A u \in Threads : Making(u) => u \in Connectors \cup {Sender}
    BY <1>1, RolesAssumption DEF ListInv, Making, Role, Threads
  <2>2. \A u \in Connectors : has[u] # s
    BY <1>1, <1>2 DEF OwnInv
  <2>3. t = Main => ~Making(Sender)
    BY SetOfIs DEF Making, On
  <2> QED
    BY <1>7, <2>1, <2>2, <2>3
<1>9. /\ MakeInv(s) /\ LiveInv(s) /\ CountInv(s) /\ SumInv(s) /\ CloseInv(s)
      /\ ses'[s] = ses[s] /\ raced' = raced
  BY <1>1, <1>2 DEF SesInv
<1>10. \A u \in Threads : has[u] = s => u # t /\ has'[u] = s
  BY <1>2, <1>4
<1>11. MakeInv(s)'
  BY <1>4, <1>7, <1>8, <1>9 DEF MakeInv
<1>12. LiveInv(s)'
  <2> SUFFICES ASSUME s \notin raced, ses[s].isConnected
               PROVE  LiveInv(s)'
    BY <1>9 DEF LiveInv
  <2>1. \A u \in Threads : has'[u] = s =>
           /\ "mark" \notin On(u)' /\ "close" \notin On(u)'
           /\ Chained(u)' => has[u] = s /\ Chained(u)
    BY <1>3, <1>4, <1>7, <1>9 DEF LiveInv
  <2>2. \A u \in Threads : has[u] = s =>
           /\ has'[u] = s /\ On(u)' = On(u) /\ (Chained(u)' <=> Chained(u))
    BY <1>4, <1>10
  <2> QED
    BY <1>9, <2>1, <2>2 DEF LiveInv
<1>13. CountInv(s)'
  BY <1>9 DEF CountInv
<1>14. SumInv(s)'
  <2>1. \A u \in Threads : /\ has'[u] = s /\ Making(u)' <=> has[u] = s /\ Making(u)
    BY <1>4, <1>7
  <2>2. \A w \in Workers : w # t /\ w \in Threads
    BY RolesAssumption DEF Threads
  <2>3. Tokens(s)' = Tokens(s)
    BY <1>4, <2>2 DEF Tokens
  <2>4. Maker(s)' = Maker(s)
    BY <2>1 DEF Maker
  <2> QED
    BY <1>9, <2>3, <2>4 DEF SumInv
<1>15. CloseInv(s)'
  BY <1>4, <1>9, <1>10 DEF CloseInv
<1>16. SesInv(s)'
  BY <1>11, <1>12, <1>13, <1>14, <1>15 DEF SesInv
<1>17. Only(t, s)
  BY <1>1, <1>2, TurnIsOnly
<1> QED
  BY <1>1, <1>2, <1>5, <1>6, <1>16, <1>17, Elsewhere

LEMMA EachKeeps ==
    ASSUME ClientInv, Each
    PROVE  ClientInv'
<1>1. PICK s \in rest :
         /\ rest' = rest \ {s}
         /\ \/ Go(Sender, s, <<"send", "each">>)
            \/ Go(Sender, s, <<"reset", "socket", "connect", "each">>)
  BY DEF Each
<1>2. /\ TypeOK /\ ListInv /\ EndInv /\ "each" \in Loops /\ At(Sender, "each")
      /\ Sender \in Threads /\ "each" \in Labels
      /\ UNCHANGED <<stage, running, lists, raced, visited, ses>>
  BY DEF ClientInv, Each, Loops, Labels, Threads
<1>3. s \in Sessions /\ has[Sender] = None
  BY <1>2, OnLoop DEF TypeOK
<1>4. PICK B \in {{"send", "each"}, {"reset", "socket", "connect", "each"}} :
         Turn(Sender, s, "each", B)
  <2>1. /\ {"send", "reset", "socket", "connect"} \subseteq Labels
        /\ "each" \in Later["send"] /\ Later["each"] = {}
        /\ "socket" \in Later["reset"] /\ "connect" \in Later["reset"]
        /\ "each" \in Later["reset"] /\ "connect" \in Later["socket"]
        /\ "each" \in Later["socket"] /\ "each" \in Later["connect"]
    BY LaterIs DEF Labels, Loops
  <2>2. \A a \in {"send", "each", "reset", "socket", "connect"} : Role(Sender, a)
    BY RolesAssumption DEF Role
  <2>3. ASSUME Go(Sender, s, <<"send", "each">>)
        PROVE  Turn(Sender, s, "each", {"send", "each"})
    <3>1. Fits("each", <<"send", "each">>)
      BY <1>2, <2>1, FitsTwo
    <3>2. SetOf(<<"send", "each">>) = {"send", "each"}
      BY SetOfIs
    <3> QED
      BY <1>2, <1>3, <2>2, <2>3, <3>1, <3>2, GoFacts
  <2>4. ASSUME Go(Sender, s, <<"reset", "socket", "connect", "each">>)
        PROVE  Turn(Sender, s, "each", {"reset", "socket", "connect", "each"})
    <3>1. Fits("each", <<"reset", "socket", "connect", "each">>)
      BY <1>2, <2>1, FitsFour
    <3>2. SetOf(<<"reset", "socket", "connect", "each">>)
             = {"reset", "socket", "connect", "each"}
      BY SetOfIs
    <3> QED
      BY <1>2, <1>3, <2>2, <2>4, <3>1, <3>2, GoFacts
  <2> QED
    BY <1>1, <2>3, <2>4
<1>5. TypeOK' /\ OwnInv' /\ \A r \in Sessions : SesInv(r)'
  <2>1. /\ B \subseteq {"send", "each", "reset", "socket", "connect", "disconnect", "end"}
        /\ "socket" \in B \/ "connect" \in B => "reset" \in B
    OBVIOUS
  <2>2. Sender # Main
    BY RolesAssumption
  <2> QED
    BY <1>1, <1>2, <1>3, <1>4, <2>1, <2>2, NextOne
<1>6. EndInv'
  <2>1. todo[Sender] # <<>>
    BY <1>2 DEF At
  <2>2. stage \in {"serving", "join sender"}
    BY <1>2, <2>1 DEF EndInv, TypeOK
  <2>3. stage' = stage /\ has'[Main] = has[Main]
    BY <1>2, <1>4, RolesAssumption DEF Turn, Threads
  <2> QED
    BY <1>2, <2>2, <2>3 DEF EndInv
<1> QED
  BY <1>4, <1>5, <1>6 DEF ClientInv, Turn

LEMMA DisconnectNextKeeps ==
    ASSUME ClientInv, DisconnectNext
    PROVE  ClientInv'
<1>1. PICK s \in rest : rest' = rest \ {s} /\ Go(Main, s, <<"disconnect", "end">>)
  BY DEF DisconnectNext
<1>2. /\ TypeOK /\ ListInv /\ EndInv /\ "end" \in Loops /\ At(Main, "end")
      /\ Main \in Threads /\ "end" \in Labels /\ stage = "disconnect"
      /\ UNCHANGED <<stage, running, lists, raced, visited, ses>>
  BY DEF ClientInv, DisconnectNext, Loops, Labels, Threads
<1>3. s \in Sessions /\ has[Main] = None /\ s # None
  BY <1>2, OnLoop, NoneAssumption DEF TypeOK
<1> DEFINE B == {"disconnect", "end"}
<1>4. Turn(Main, s, "end", B)
  <2>1. /\ "disconnect" \in Labels /\ "end" \in Later["disconnect"]
        /\ Later["end"] = {}
    BY LaterIs DEF Labels, After, Loops
  <2>2. Fits("end", <<"disconnect", "end">>)
    BY <1>2, <2>1, FitsTwo
  <2>3. SetOf(<<"disconnect", "end">>) = B
    BY SetOfIs
  <2>4. \A a \in B : Role(Main, a) /\ a # "reset"
    BY DEF Role
  <2> QED
    BY <1>1, <1>2, <1>3, <2>2, <2>3, <2>4, GoFacts
<1>5. /\ todo[Sender] = <<>> /\ Sender # Main /\ Sender \in Threads
  BY <1>2, RolesAssumption DEF EndInv, Threads
<1>6. TypeOK' /\ OwnInv' /\ \A r \in Sessions : SesInv(r)'
  <2>1. /\ B \subseteq {"send", "each", "reset", "socket", "connect", "disconnect", "end"}
        /\ "socket" \in B \/ "connect" \in B => "reset" \in B
    OBVIOUS
  <2> QED
    BY <1>1, <1>2, <1>3, <1>4, <1>5, <2>1, NextOne
<1>7. EndInv'
  <2>1. "disconnect" \in On(Main)' /\ has'[Main] = s
    <3>1. "disconnect" \in On(Main)'
      BY <1>4 DEF Turn
    <3> QED
      BY <1>2, <1>4, <3>1, TurnOthers DEF Loops
  <2>2. todo'[Sender] = <<>>
    BY <1>4, <1>5 DEF Turn
  <2>3. \A r \in visited \ rest : ~ses[r].isConnected
    <3>1. \A r \in visited : r # None
      BY <1>2, NoneAssumption DEF TypeOK
    <3> QED
      BY <1>2, <1>3, <3>1 DEF EndInv
  <2> QED
    BY <1>1, <1>2, <2>1, <2>2, <2>3 DEF EndInv
<1> QED
  BY <1>4, <1>6, <1>7 DEF ClientInv, Turn

LEMMA ResetKeeps ==
    ASSUME ClientInv, Reset
    PROVE  ClientInv'
<1>1. /\ TypeOK /\ ListInv /\ OwnInv /\ EndInv /\ \A r \in Sessions : SesInv(r)
      /\ "reset" \in Labels \ Loops /\ At(Sender, "reset") /\ Sender \in Threads
      /\ UNCHANGED <<stage, running, lists, rest, visited>>
  BY DEF ClientInv, Reset, Labels, Loops, Threads
<1>2. PICK s \in Sessions : has[Sender] = s
  BY <1>1, OnTurn
<1>3. /\ ses[s] \in Loose /\ ses \in [Sessions -> Fields]
      /\ "reset" \in On(Sender)
  BY <1>1, <1>2, OnTurn
<1> DEFINE f == Cleared(ses[s])
<1>4. /\ ses[s].stale + ses[s].recvs <= MaxStale
      /\ ses' = [ses EXCEPT ![s] = f] /\ ses'[s] = f
      /\ raced' = IF InUse(s) THEN raced \cup {s} ELSE raced \ {s}
      /\ Go(Sender, s, <<>>)
  BY <1>2, <1>3 DEF Reset, Then
<1>5. /\ f \in Loose /\ ~f.isConnected /\ ~f.disconnecting /\ f.socket = "none"
      /\ f.recvPendingCnt = 0 /\ f.recvs = 0
      /\ f.stale = ses[s].stale + ses[s].recvs
      /\ f.isSending = ses[s].isSending
      /\ ses[s].stale \in Nat /\ ses[s].recvs \in Nat
  <2>1. /\ ses[s].stale \in Nat /\ ses[s].recvs \in Nat
        /\ ses[s].isSending \in BOOLEAN
    BY <1>3 DEF Loose
  <2> DEFINE a == ses[s].stale + ses[s].recvs
             b == ses[s].isSending
  <2>2. a \in Nat /\ b \in BOOLEAN
    BY <2>1
  <2>3. f = [Fresh EXCEPT !.managed = FALSE, !.isSending = b, !.stale = a]
    BY DEF Cleared
  <2> HIDE DEF f, a, b
  <2>4. /\ f \in Loose /\ ~f.isConnected /\ ~f.disconnecting
        /\ f.socket = "none" /\ f.recvPendingCnt = 0 /\ f.recvs = 0
        /\ f.stale = a /\ f.isSending = b
    <3>1. /\ Fresh \in Loose /\ ~Fresh.isConnected /\ ~Fresh.disconnecting
          /\ Fresh.socket = "none" /\ Fresh.recvPendingCnt = 0 /\ Fresh.recvs = 0
      BY DEF Loose, Fresh
    <3>2. f \in Loose
      BY <2>2, <2>3, <3>1 DEF Loose
    <3>3. /\ f.isConnected = Fresh.isConnected
          /\ f.disconnecting = Fresh.disconnecting
          /\ f.socket = Fresh.socket /\ f.recvPendingCnt = Fresh.recvPendingCnt
          /\ f.recvs = Fresh.recvs
      BY <2>3, <3>1 DEF Loose
    <3>4. f.stale = a /\ f.isSending = b
      BY <2>3, <3>1 DEF Loose
    <3> QED
      BY <3>1, <3>2, <3>3, <3>4
  <2> QED
    BY <2>1, <2>4 DEF a, b
<1> HIDE DEF f
<1>6. Turn(Sender, s, "reset", {})
  <2>1. Fits("reset", <<>>) /\ SetOf(<<>>) = {}
    BY <1>1, FitsNone, SetOfIs
  <2> QED
    BY <1>1, <1>4, <2>1, GoFacts
<1>7. /\ \A u \in Threads \ {Sender} :
            /\ has'[u] = has[u] /\ On(u)' = On(u) /\ todo'[u] = todo[u]
            /\ Making(u)' <=> Making(u)
      /\ has'[Sender] \in {s, None}
  BY <1>6 DEF Turn, Making
<1>8. "socket" \in On(Sender)' /\ has'[Sender] = s
  <2>1. "socket" \in On(Sender)
    BY <1>1, <1>3 DEF ListInv
  <2>2. "socket" \in On(Sender)'
    BY <1>6, <2>1 DEF Turn
  <2> QED
    BY <1>1, <1>6, <2>2, TurnOthers DEF Loops
<1>9. MakeInv(s)'
  <2> SUFFICES ASSUME s \notin raced'
               PROVE  MakeInv(s)'
    BY DEF MakeInv
  <2>1. ~InUse(s)
    BY <1>4
  <2>2. /\ f.stale = 0 /\ ~f.isSending
        /\ \A u \in Threads \ {Sender} : has[u] # s
    BY <1>5, <2>1 DEF InUse
  <2> QED
    BY <1>4, <1>5, <1>7, <1>8, <2>2 DEF MakeInv
<1>10. LiveInv(s)' /\ CloseInv(s)'
  BY <1>4, <1>5 DEF LiveInv, CloseInv
<1>11. CountInv(s)'
  BY <1>4, <1>5, MaxRecvsType DEF CountInv
<1>12. SumInv(s)'
  <2>1. /\ Cardinality(Tokens(s)') \in Nat
        /\ Cardinality(Tokens(s)') <= Cardinality(Workers)
        /\ Cardinality(Workers) \in Nat
    BY TokensAre
  <2>2. Maker(s)' \in {0, 1}
    BY DEF Maker
  <2> QED
    BY <1>4, <1>5, <2>1, <2>2, MaxRecvsType DEF SumInv, MaxRecvs
<1>13. SesInv(s)'
  BY <1>9, <1>10, <1>11, <1>12 DEF SesInv
<1>14. /\ ses' \in [Sessions -> Fields]
       /\ \A r \in Sessions \ {s} : ses'[r] = ses[r] /\ (r \in raced' <=> r \in raced)
  BY <1>1, <1>3, <1>4, <1>5, <1>11, <1>12, SesType
<1>15. \A r \in Sessions : SesInv(r)'
  <2>1. Only(Sender, s)
    BY <1>1, <1>2, <1>6, TurnIsOnly
  <2> QED
    BY <1>1, <1>13, <1>14, <2>1, Elsewhere
<1>16. TypeOK'
  BY <1>1, <1>4, <1>6, <1>14 DEF TypeOK, Turn, lists
<1>17. OwnInv'
  <2>1. s \in clientSessions /\ s \notin pool /\ s # None
    BY <1>1, <1>2, NoneAssumption DEF OwnInv
  <2>2. \A d \in Connectors : d \in Threads /\ d # Sender
    BY RolesAssumption DEF Threads
  <2>3. Main \in Threads /\ Main # Sender
    BY RolesAssumption DEF Threads
  <2>4. \A r \in pool : ses'[r] = ses[r]
    BY <1>1, <1>14, <2>1 DEF TypeOK
  <2>5. raced' \subseteq raced \cup {s}
    BY <1>4
  <2>6. /\ UNCHANGED <<pool, local, clientSessions>>
        /\ \A u \in Threads : has'[u] = has[u]
    BY <1>1, <1>2, <1>7, <1>8 DEF lists
  <2> QED
    BY <1>1, <2>1, <2>2, <2>3, <2>4, <2>5, <2>6 DEF OwnInv
<1>18. EndInv'
  <2>1. todo[Sender] # <<>>
    BY <1>1 DEF At
  <2>2. stage \in {"serving", "join sender"}
    BY <1>1, <2>1 DEF EndInv, TypeOK
  <2>3. stage' = stage /\ has'[Main] = has[Main]
    BY <1>1, <1>7, RolesAssumption DEF Threads
  <2> QED
    BY <1>1, <2>2, <2>3 DEF EndInv
<1> QED
  BY <1>6, <1>15, <1>16, <1>17, <1>18 DEF ClientInv, Turn

\* The steps of End that start and join the loops.
LEMMA StageKeeps ==
    ASSUME ClientInv, End \/ JoinSender \/ DisconnectDone \/ JoinThreads
    PROVE  ClientInv'
<1>1. /\ TypeOK /\ ListInv /\ OwnInv /\ EndInv /\ \A r \in Sessions : SesInv(r)
  BY DEF ClientInv
<1>2. /\ UNCHANGED <<pool, left, local, clientSessions>>
      /\ UNCHANGED <<raced, ses, todo, has>>
  BY DEF End, JoinSender, DisconnectDone, JoinThreads, lists
<1>3. todo[Main] = <<"end">>
  BY DEF End, JoinSender, DisconnectDone, JoinThreads, Moves
<1>4. has[Main] = None
  <2>1. On(Main) = {"end"} /\ Main \in Threads
    BY <1>3, SetOfIs DEF On, Threads
  <2> QED
    BY <1>1, <2>1 DEF ListInv, Busy, Loops
<1>5. ListInv'
  <2>1. \A t \in Threads : On(t)' = On(t)
    BY <1>2 DEF On
  <2> QED
    BY <1>1, <1>2, <2>1 DEF ListInv, Busy
<1>6. Quiet
  BY <1>2 DEF Quiet, On
<1>7. CASE End
  <2>1. /\ stage = "serving" /\ stage' = "join sender" /\ running' = FALSE
        /\ UNCHANGED <<rest, visited>>
    BY <1>7 DEF End, Moves
  <2>2. TypeOK'
    BY <1>1, <1>2, <2>1 DEF TypeOK, Stages
  <2>3. EndInv'
    BY <1>2, <1>4, <2>1 DEF EndInv
  <2> QED
    BY <1>1, <1>2, <1>5, <1>6, <2>2, <2>3, QuietKeeps, OwnKept DEF ClientInv
<1>8. CASE JoinSender
  <2>1. /\ stage' = "disconnect" /\ todo[Sender] = <<>> /\ running' = running
        /\ rest' = clientSessions /\ visited' = clientSessions
    BY <1>8 DEF JoinSender, Moves
  <2>2. TypeOK'
    BY <1>1, <1>2, <2>1 DEF TypeOK, Stages
  <2>3. EndInv'
    BY <1>2, <2>1 DEF EndInv
  <2> QED
    BY <1>1, <1>2, <1>5, <1>6, <2>2, <2>3, QuietKeeps, OwnKept DEF ClientInv
<1>9. CASE DisconnectDone
  <2>1. /\ stage = "disconnect" /\ stage' = "join threads" /\ rest = {}
        /\ UNCHANGED <<running, rest, visited>>
    BY <1>9 DEF DisconnectDone, Moves
  <2>2. TypeOK'
    BY <1>1, <1>2, <2>1 DEF TypeOK, Stages
  <2>3. \A s \in visited : ~ses[s].isConnected
    <3>1. \A s \in visited : s # None
      BY <1>1, NoneAssumption DEF TypeOK
    <3> QED
      BY <1>1, <1>4, <2>1, <3>1 DEF EndInv
  <2>4. EndInv'
    BY <1>1, <1>2, <1>4, <2>1, <2>3 DEF EndInv
  <2> QED
    BY <1>1, <1>2, <1>5, <1>6, <2>2, <2>4, QuietKeeps, OwnKept DEF ClientInv
<1>10. CASE JoinThreads
  <2>1. /\ stage = "join threads" /\ stage' = "cleared"
        /\ UNCHANGED <<running, rest, visited>>
        /\ \A t \in Connectors \cup Workers : todo[t] = <<>>
    BY <1>10 DEF JoinThreads, Moves
  <2>2. TypeOK'
    BY <1>1, <1>2, <2>1 DEF TypeOK, Stages
  <2>3. EndInv'
    BY <1>1, <1>2, <1>4, <2>1 DEF EndInv
  <2> QED
    BY <1>1, <1>2, <1>5, <1>6, <2>2, <2>3, QuietKeeps, OwnKept DEF ClientInv
<1> QED
  BY <1>7, <1>8, <1>9, <1>10

LEMMA StutterKeeps ==
    ASSUME ClientInv, UNCHANGED vars
    PROVE  ClientInv'
<1>1. /\ TypeOK /\ ListInv /\ OwnInv /\ EndInv /\ \A r \in Sessions : SesInv(r)
  BY DEF ClientInv
<1>2. /\ UNCHANGED <<stage, running, pool, left, local, clientSessions>>
      /\ UNCHANGED <<rest, raced, visited, ses, todo, has>>
  BY DEF vars, process, lists
<1>3. \A t \in Threads : On(t)' = On(t)
  BY <1>2 DEF On
<1>4. Quiet
  BY <1>2, <1>3 DEF Quiet
<1>5. TypeOK' /\ ListInv' /\ EndInv'
  <2>1. TypeOK'
    BY <1>1, <1>2 DEF TypeOK
  <2>2. ListInv'
    BY <1>1, <1>2, <1>3 DEF ListInv, Busy
  <2>3. EndInv'
    BY <1>1, <1>2, <1>3 DEF EndInv, On
  <2> QED
    BY <2>1, <2>2, <2>3
<1> QED
  BY <1>1, <1>2, <1>4, <1>5, QuietKeeps, OwnKept DEF ClientInv

-----------------------------------------------------------------------------
(* The invariant                                                           *)

LEMMA InitInv == Init => ClientInv
<1> SUFFICES ASSUME Init
             PROVE  ClientInv
  OBVIOUS
<1>1. /\ stage = "serving" /\ rest = {} /\ visited = {} /\ raced = {}
      /\ running = TRUE /\ pool = Sessions /\ clientSessions = {}
      /\ left = [c \in Connectors |-> PerThread]
      /\ local = [c \in Connectors |-> {}]
      /\ ses = [s \in Sessions |-> Fresh]
      /\ has = [t \in Threads |-> None]
  BY DEF Init, Initialized, Started
<1>2. \A t \in Threads :
         \E a \in Loops : todo[t] = <<a>> /\ Role(t, a)
  <2>1. /\ \A c \in Connectors : todo[c] = <<"acquire">> /\ Role(c, "acquire")
        /\ \A w \in Workers : todo[w] = <<"poll">> /\ Role(w, "poll")
        /\ todo[Sender] = <<"each">> /\ Role(Sender, "each")
        /\ todo[Main] = <<"end">> /\ Role(Main, "end")
    BY RolesAssumption DEF Init, Started, Threads, Role
  <2> QED
    BY <2>1 DEF Loops, Threads
<1>3. \A t \in Threads : \E a \in Loops : On(t) = {a} /\ Role(t, a)
  BY <1>2, SetOfIs DEF On
<1>4. TypeOK
  <2>1. Fresh \in Fields
    <3>1. Fresh \in Loose
      BY DEF Fresh, Loose
    <3>2. /\ Fresh.recvPendingCnt = 0 /\ Fresh.recvs = 0 /\ Fresh.stale = 0
      BY DEF Fresh
    <3> QED
      BY <3>1, <3>2, FieldsFit, MaxRecvsType
  <2>2. todo \in [Threads -> Seq(Labels)]
    <3>1. \A a \in Loops : <<a>> \in Seq(Labels)
      BY DEF Loops, Labels
    <3>2. \A t \in Threads : todo[t] \in Seq(Labels)
      BY <1>2, <3>1
    <3>3. todo = [t \in Threads |-> todo[t]]
      BY DEF Init, Started
    <3> QED
      BY <3>2, <3>3
  <2> QED
    BY <1>1, <2>1, <2>2, BoundsAssumption DEF TypeOK, Stages
<1>5. ListInv
  <2>1. \A a \in Loops : InOrder(<<a>>) /\ EndsInLoop(<<a>>)
    BY DEF InOrder, EndsInLoop
  <2>2. \A t \in Threads : InOrder(todo[t]) /\ EndsInLoop(todo[t])
    BY <1>2, <2>1
  <2>3. \A t \in Threads : has[t] = None /\ ~Busy(t)
    BY <1>1, <1>3 DEF Busy
  <2>4. \A t \in Threads : "reset" \notin On(t)
    BY <1>3 DEF Loops
  <2> QED
    BY <1>3, <2>2, <2>3, <2>4 DEF ListInv
<1>6. OwnInv
  BY <1>1, NoneAssumption DEF OwnInv, Threads
<1>7. \A s \in Sessions : SesInv(s)
  BY <1>1, NoneAssumption, FreshInv
<1>8. EndInv
  BY <1>1 DEF EndInv, Threads
<1> QED
  BY <1>4, <1>5, <1>6, <1>7, <1>8 DEF ClientInv

\* A session step of a thread is one of a session.
LEMMA SessionStepKeeps ==
    ASSUME ClientInv, NEW t \in Threads, SessionStep(t)
    PROVE  ClientInv'
<1>1. PICK label \in Labels \ Loops : At(t, label)
  BY DEF SessionStep, CreateSocket, ConnectOk, ConnectFails, Register, Activate,
         RegisterRecv, PostOk, PostFails, Disconnect, Mark, Close, TryRelease,
         Labels, Loops
<1>2. PICK s \in Sessions : has[t] = s
  BY <1>1, OnTurn
<1> QED
  BY <1>2, CreateSocketKeeps, ConnectOkKeeps, ConnectFailsKeeps, RegisterKeeps,
     ActivateKeeps, RegisterRecvKeeps, PostOkKeeps, PostFailsKeeps,
     DisconnectKeeps, MarkKeeps, CloseKeeps, TryReleaseKeeps
  DEF SessionStep

LEMMA WorkerStepKeeps ==
    ASSUME ClientInv, NEW w \in Workers, WorkerStep(w)
    PROVE  ClientInv'
<1>1. w \in Threads
  BY DEF Threads
<1>2. CASE Return(w)
  BY <1>2, ReturnKeeps
<1>3. CASE CompleteRecv(w)
  BY <1>3, CompleteRecvKeeps
<1>4. CASE CompleteSend(w)
  BY <1>4, CompleteSendKeeps
<1>5. CASE Zero(w) \/ Rearm(w)
  <2>1. PICK label \in Labels \ Loops : At(w, label)
    BY <1>5 DEF Zero, Rearm, Labels, Loops
  <2>2. PICK s \in Sessions : has[w] = s
    BY <1>1, <2>1, OnTurn
  <2> QED
    BY <1>1, <1>5, <2>2, ZeroKeeps, RearmKeeps
<1> QED
  BY <1>2, <1>3, <1>4, <1>5 DEF WorkerStep

LEMMA SendStepKeeps ==
    ASSUME ClientInv, SendStep
    PROVE  ClientInv'
<1>1. CASE Pass
  BY <1>1, PassKeeps
<1>2. CASE Each
  BY <1>2, EachKeeps
<1>3. CASE Reset
  BY <1>3, ResetKeeps
<1>4. CASE SendOk \/ SendFails
  <2>1. Sender \in Threads /\ At(Sender, "send") /\ "send" \in Labels \ Loops
    BY <1>4 DEF SendOk, SendFails, Labels, Loops, Threads
  <2>2. PICK s \in Sessions : has[Sender] = s
    BY <2>1, OnTurn
  <2> QED
    BY <1>4, <2>1, <2>2, SendOkKeeps, SendFailsKeeps
<1> QED
  BY <1>1, <1>2, <1>3, <1>4 DEF SendStep

LEMMA NextInv == ClientInv /\ [Next]_vars => ClientInv'
<1> SUFFICES ASSUME ClientInv, [Next]_vars
             PROVE  ClientInv'
  OBVIOUS
<1>1. ASSUME NEW c \in Connectors, ConnectStep(c)
      PROVE  ClientInv'
  BY <1>1, AcquireKeeps, KeepKeeps, MergeKeeps DEF ConnectStep
<1>2. ASSUME NEW t \in Threads, SessionStep(t)
      PROVE  ClientInv'
  BY <1>2, SessionStepKeeps
<1>3. ASSUME NEW w \in Workers, WorkerStep(w)
      PROVE  ClientInv'
  BY <1>3, WorkerStepKeeps
<1>4. CASE SendStep
  BY <1>4, SendStepKeeps
<1>5. CASE End \/ EndStep
  BY <1>5, StageKeeps, DisconnectNextKeeps DEF EndStep
<1>6. ASSUME NEW s \in Sessions, ServerCloses(s)
      PROVE  ClientInv'
  BY <1>6, ServerClosesKeeps
<1>7. CASE UNCHANGED vars
  BY <1>7, StutterKeeps
<1> QED
  BY <1>1, <1>2, <1>3, <1>4, <1>5, <1>6, <1>7 DEF Next

\* ClientInv is an invariant of the client.
THEOREM Inductive == Spec => []ClientInv
<1>1. Init => ClientInv
  BY InitInv
<1>2. ClientInv /\ [Next]_vars => ClientInv'
  BY NextInv
<1> QED
  BY <1>1, <1>2, PTL DEF Spec

LEMMA InvAsNew == ClientInv => AsNew
<1> SUFFICES ASSUME ClientInv
             PROVE  AsNew
  OBVIOUS
<1>1. TypeOK /\ \A s \in Sessions : LiveInv(s)
  BY DEF ClientInv, SesInv
<1>2. ASSUME NEW s \in Sessions \ (raced \cup pool), Idle(s), ses[s].isConnected
      PROVE  /\ ~ses[s].disconnecting /\ ses[s].socket # "none" /\ ses[s].stale = 0
             /\ ses[s].socket # "new" =>
                   /\ ses[s].recvs = 1 /\ ses[s].recvPendingCnt = 1
                   /\ ses[s].owner /\ ses[s].listed
  BY <1>1, <1>2 DEF LiveInv, Idle
<1> QED
  BY <1>1, <1>2 DEF AsNew

\* Once a session that Reset found unused is connected again and no thread works
\* on it, it has one recv in the kernel, is counted and listed, and nothing is
\* left of the connection it lost, whatever the workers, the connect threads and
\* End do in the meantime (Client::ReconnectSession, Session::Reset).
THEOREM AsNewHolds == Spec => []AsNew
<1>1. Spec => []ClientInv
  BY Inductive
<1>2. ClientInv => AsNew
  BY InvAsNew
<1> QED
  BY <1>1, <1>2, PTL

LEMMA InvEndsDown == ClientInv => EndsDown
<1> SUFFICES ASSUME ClientInv, stage = "cleared", NEW s \in visited
             PROVE  ~ses[s].isConnected /\ ses[s].socket = "none"
  BY DEF EndsDown
<1>1. /\ TypeOK /\ EndInv /\ s \in Sessions /\ CloseInv(s)
      /\ ~ses[s].isConnected
  BY DEF ClientInv, TypeOK, SesInv, EndInv
<1>2. \A t \in Threads : has[t] = s => "close" \notin On(t)
  <2>1. /\ \A t \in Connectors \cup Workers \cup {Sender} : todo[t] = <<>>
        /\ has[Main] = None /\ s # None
    BY <1>1, NoneAssumption DEF EndInv
  <2>2. \A t \in Connectors \cup Workers \cup {Sender} : On(t) = {}
    BY <2>1, SetOfIs DEF On
  <2> QED
    BY <2>1, <2>2 DEF Threads
<1> QED
  BY <1>1, <1>2 DEF CloseInv

\* When Client::End has joined the threads, the sessions its loop went over are
\* down and without a socket: no thread has revived one or has still to close it.
THEOREM EndsDownHolds == Spec => []EndsDown
<1>1. Spec => []ClientInv
  BY Inductive
<1>2. ClientInv => EndsDown
  BY InvEndsDown
<1> QED
  BY <1>1, <1>2, PTL

=============================================================================
