-------------------------- MODULE ChatWindows_proofs --------------------------
(***************************************************************************)
(* Theorems about ChatWindows.  A packet on its way to a window will change *)
(* what the window shows, so the invariants speak of the window together   *)
(* with its sequence of packets: what holds of the last packet that tells  *)
(* it a view, or of the window when there is none.  They are written with  *)
(* operators on sequences, whose lemmas come first.                        *)
(***************************************************************************)
EXTENDS ChatWindows, SequenceTheorems, TLAPS

-----------------------------------------------------------------------------
(* The inductive invariant                                                 *)

\* The packets that change the view, and those that empty the chat.
Tells == {"LOGIN_OK", "ENTER_OK", "LEAVE_OK"}
Clears == {"ENTER_OK", "LEAVE_OK"}

\* No packet of s has its id in ids from the position i on.
NoneFrom(s, i, ids) == \A j \in i .. Len(s) : s[j].id \notin ids
Mute(s) == NoneFrom(s, 1, Tells)

\* The packet p says that the session is in room r.
Says(p, r) == IF p.id = "ENTER_OK" THEN p.room = r /\ r # 0 ELSE r = 0

\* The view v with the room cur is that of a session in room r, or will be when
\* the packets s are handled.
Agrees(s, r, cur, v) ==
    /\ \A i \in 1 .. Len(s) : s[i].id \in Tells /\ NoneFrom(s, i + 1, Tells)
                                 => Says(s[i], r)
    /\ Mute(s) => cur = r /\ v = IF r = 0 THEN "rooms" ELSE "chat"

\* LOGIN_OK leaves the room alone, but it comes first.
LoginFirst(s, cur) == \A i \in 1 .. Len(s) : s[i].id = "LOGIN_OK" =>
    cur = 0 /\ \A j \in 1 .. i - 1 : s[j].id \notin Tells

\* A line or packet of room r, or of a sender in S.
Of(p, r, S) == p.room = r \/ p.from \in S

\* The lines that stay when s is handled are of room r or from S.
Belong(s, lines, r, S) ==
    /\ \A i \in 1 .. Len(s) : s[i].id = "S_CHAT" /\ NoneFrom(s, i + 1, Clears)
                                 => Of(s[i], r, S)
    /\ NoneFrom(s, 1, Clears) => \A k \in 1 .. Len(lines) : Of(lines[k], r, S)

\* The messages of a sender are in order in lines and after them in s, where each
\* has a sender and a room.
Signed(p) == p.from # None /\ p.room # 0
Ordered(lines, s) ==
    /\ \A i, j \in 1 .. Len(lines) : i < j /\ lines[i].from = lines[j].from
                                        => lines[i].n < lines[j].n
    /\ \A i, j \in 1 .. Len(s) :
          i < j /\ s[i].id = "S_CHAT" /\ s[j].id = "S_CHAT" /\ s[i].from = s[j].from
             => s[i].n < s[j].n
    /\ \A i \in 1 .. Len(lines), j \in 1 .. Len(s) :
          s[j].id = "S_CHAT" /\ lines[i].from = s[j].from => lines[i].n < s[j].n
    /\ \A i \in 1 .. Len(s) : s[i].id = "S_CHAT" => Signed(s[i])

\* Those of c among them have numbers below n.
Below(lines, s, c, n) ==
    /\ \A i \in 1 .. Len(lines) : lines[i].from = c => lines[i].n < n
    /\ \A i \in 1 .. Len(s) : s[i].id = "S_CHAT" /\ s[i].from = c => s[i].n < n

\* The counters and their bounds.  A receive loop whose connection is lost will
\* raise one more Disconnected.
Lost(w) == w \in reading /\ ~(link[w] = "up" /\ isConnected[w])
CountInv ==
    /\ asked \in [Clients -> Nat] /\ said \in [Clients -> Nat] /\ losses \in 0 .. MaxLosses
    /\ \A c \in Clients : said[c] <= asked[c] /\ asked[c] <= Budget(c)
    /\ \A w \in Windows : raising[w] + (IF Lost(w) THEN 1 ELSE 0) <= losses

\* The states of a window's connection.
LinkInv ==
    /\ \A w \in connecting : link[w] = "none" /\ w \notin reading /\ view[w] = "login"
    /\ \A w \in Windows : /\ link[w] = "up" => w \in reading
                          /\ view[w] = "login" => currentRoomId[w] = 0

\* What the handler or OnDisconnected of session c has yet to do.
Sends(c) == [op : {"send"},
             packet : {p \in Packets({"S_CHAT"}) : p.from = c /\ p.room # 0},
             to : SUBSET Clients]
Sending1(c) == isConnected[c] /\ \E item \in Sends(c) : work[c] = <<item>>
Entering(c) ==
    /\ isConnected[c] /\ authenticated[c]
    /\ \E r \in Rooms :
          \/ /\ room[c] # 0
             /\ work[c] = <<Item("vacate", room[c]), Item("occupy", r), Item("entered", r)>>
          \/ room[c] = 0 /\ work[c] = <<Item("occupy", r), Item("entered", r)>>
          \/ room[c] = r /\ work[c] = <<Item("entered", r)>>
Leaving(c) ==
    /\ isConnected[c] /\ authenticated[c]
    /\ \/ room[c] # 0 /\ work[c] = <<Item("vacate", room[c]), Item("left", room[c])>>
       \/ room[c] = 0 /\ \E r \in Rooms : work[c] = <<Item("left", r)>>
Closing(c) ==
    /\ ~isConnected[c]
    /\ \/ room[c] # 0 /\ work[c] = <<Item("vacate", room[c]), Item("gone", 0)>>
       \/ room[c] = 0 /\ work[c] = <<Item("gone", 0)>>
PlanOf(c) ==
    /\ \/ work[c] = <<>> \/ Sending1(c) \/ Entering(c) \/ Leaving(c) \/ Closing(c)
    /\ ~isConnected[c] /\ work[c] = <<>> => ~authenticated[c]
    /\ ~authenticated[c] => room[c] = 0
PlanInv == \A c \in Clients : PlanOf(c)

\* The session has told its window where it is.
Up(w) == link[w] = "up" /\ isConnected[w]
Told(w) == work[w] = <<>> \/ Does(w, "send")

ViewOf(w) == Up(w) =>
    /\ LoginFirst(in[w], currentRoomId[w])
    /\ ~authenticated[w] => Mute(in[w]) /\ view[w] = "login" /\ currentRoomId[w] = 0
    /\ authenticated[w] /\ Told(w) => Agrees(in[w], room[w], currentRoomId[w], view[w])
ViewInv == \A w \in Windows \ late : ViewOf(w)

\* A broadcast that still has to reach w is for its room, or had copied w.
CopyOf(d, w) == Does(d, "send") /\ w \in Head(work[d]).to
                   => Of(Head(work[d]).packet, room[w], overlap[w])
CopyInv == \A d \in Clients, w \in Windows : CopyOf(d, w)
LineOf(w) == Up(w) /\ Told(w) /\ room[w] # 0
                => Belong(in[w], chatLines[w], room[w], overlap[w])
LineInv == \A w \in Windows : LineOf(w)

\* The messages of a sender rise from the lines of a window to what it enters.
Chats(s) == {i \in 1 .. Len(s) : s[i].id = "C_CHAT_REQ"}
AskOf(c) ==
    /\ \A i \in Chats(out[c]) : out[c][i].n <= said[c]
    /\ \A i, j \in Chats(out[c]) : i < j => out[c][i].n < out[c][j].n
    /\ Does(c, "send") => /\ Head(work[c]).packet.n <= said[c]
                          /\ \A i \in Chats(out[c]) : Head(work[c]).packet.n < out[c][i].n
AskInv == \A c \in Clients : AskOf(c)
OrderOf(w, c) ==
    /\ Below(chatLines[w], in[w], c, said[c] + 1)
    /\ \A i \in Chats(out[c]) : Below(chatLines[w], in[w], c, out[c][i].n)
    /\ Does(c, "send") /\ w \in Head(work[c]).to
          => Below(chatLines[w], in[w], c, Head(work[c]).packet.n)
OrderInv == \A w \in Windows : /\ Ordered(chatLines[w], in[w])
                               /\ \A c \in Clients : OrderOf(w, c)

ChatInv == /\ TypeOK /\ CountInv /\ LinkInv /\ PlanInv /\ ViewInv /\ CopyInv
           /\ LineInv /\ AskInv /\ OrderInv

-----------------------------------------------------------------------------
(* Packets added to a sequence and taken from it                           *)

\* The elements of a sequence to which t is added.
LEMMA Concat ==
    ASSUME NEW S, NEW s \in Seq(S), NEW t \in Seq(S)
    PROVE  /\ s \o t \in Seq(S) /\ Len(s \o t) = Len(s) + Len(t)
           /\ Len(s) \in Nat /\ Len(t) \in Nat
           /\ \A i \in 1 .. Len(s) : (s \o t)[i] = s[i] /\ s[i] \in S
           /\ \A i \in 1 .. Len(t) : (s \o t)[Len(s) + i] = t[i] /\ t[i] \in S
           /\ \A i \in Len(s) + 1 .. Len(s) + Len(t) : (s \o t)[i] = t[i - Len(s)]
  OBVIOUS

\* The elements of a sequence whose head is taken.
LEMMA Rest ==
    ASSUME NEW S, NEW s \in Seq(S), s # <<>>
    PROVE  /\ Tail(s) \in Seq(S) /\ Len(s) \in Nat \ {0} /\ Len(Tail(s)) = Len(s) - 1
           /\ Head(s) = s[1] /\ Head(s) \in S
           /\ \A i \in 1 .. Len(s) - 1 : Tail(s)[i] = s[i + 1]
           /\ \A i \in 2 .. Len(s) : s[i] = Tail(s)[i - 1] /\ i - 1 \in 1 .. Len(s) - 1
           /\ \A i \in 1 .. Len(s) : s[i] \in S
  OBVIOUS

\* A list of up to three items, and one in front of a list.
LEMMA Lists ==
    ASSUME NEW S, NEW x \in S, NEW y \in S, NEW z \in S
    PROVE  /\ <<x>> # <<>> /\ Head(<<x>>) = x /\ Tail(<<x>>) = <<>>
           /\ <<x, y>> # <<>> /\ Head(<<x, y>>) = x /\ Tail(<<x, y>>) = <<y>>
           /\ <<x, y, z>> # <<>> /\ Head(<<x, y, z>>) = x
           /\ Tail(<<x, y, z>>) = <<y, z>>
           /\ <<x>> \o <<y>> = <<x, y>> /\ <<x>> \o <<y, z>> = <<x, y, z>>
           /\ <<>> \o <<y>> = <<y>> /\ <<>> \o <<y, z>> = <<y, z>>
           /\ <<x>> \o <<>> = <<x>>
           /\ <<>> \in Seq(S) /\ <<x>> \in Seq(S) /\ <<x, y>> \in Seq(S)
           /\ <<x, y, z>> \in Seq(S)
<1>1. /\ <<x>> # <<>> /\ Head(<<x>>) = x /\ Tail(<<x>>) = <<>>
      /\ <<x, y>> # <<>> /\ Head(<<x, y>>) = x /\ Tail(<<x, y>>) = <<y>>
      /\ <<x, y, z>> # <<>> /\ Head(<<x, y, z>>) = x
      /\ Tail(<<x, y, z>>) = <<y, z>>
  OBVIOUS
<1>2. <<x>> \o <<y>> = <<x, y>> /\ <<x>> \o <<y, z>> = <<x, y, z>>
  <2>1. /\ <<x>> \in Seq(S) /\ <<y>> \in Seq(S) /\ <<y, z>> \in Seq(S)
        /\ <<x, y>> \in Seq(S) /\ <<x, y, z>> \in Seq(S)
    OBVIOUS
  <2>2. <<x>> \o <<y>> = <<x, y>>
    <3> DEFINE l == <<x>> \o <<y>>
    <3>1. l \in Seq(S) /\ Len(l) = 2 /\ l[1] = x /\ l[2] = y
      BY <2>1, Concat
    <3> DEFINE m == <<x, y>>
    <3>2. m \in Seq(S) /\ Len(m) = 2 /\ m[1] = x /\ m[2] = y
      OBVIOUS
    <3> HIDE DEF l, m
    <3>3. \A i \in 1 .. Len(l) : l[i] = m[i]
      BY <3>1, <3>2
    <3>4. l = m
      BY <3>1, <3>2, <3>3, SeqEqual
    <3> QED
      BY <3>4 DEF l, m
  <2>3. <<x>> \o <<y, z>> = <<x, y, z>>
    <3> DEFINE l == <<x>> \o <<y, z>>
    <3>1. l \in Seq(S) /\ Len(l) = 3 /\ l[1] = x /\ l[2] = y /\ l[3] = z
      BY <2>1, Concat
    <3> DEFINE m == <<x, y, z>>
    <3>2. m \in Seq(S) /\ Len(m) = 3 /\ m[1] = x /\ m[2] = y /\ m[3] = z
      OBVIOUS
    <3> HIDE DEF l, m
    <3>3. \A i \in 1 .. Len(l) : l[i] = m[i]
      BY <3>1, <3>2
    <3>4. l = m
      BY <3>1, <3>2, <3>3, SeqEqual
    <3> QED
      BY <3>4 DEF l, m
  <2> QED
    BY <2>2, <2>3
<1>3. <<>> \o <<y>> = <<y>> /\ <<>> \o <<y, z>> = <<y, z>> /\ <<x>> \o <<>> = <<x>>
  OBVIOUS
<1>4. /\ <<>> \in Seq(S) /\ <<x>> \in Seq(S) /\ <<x, y>> \in Seq(S)
      /\ <<x, y, z>> \in Seq(S)
  OBVIOUS
<1> QED
  BY <1>1, <1>2, <1>3, <1>4

\* Whether a packet of some kind is still to come, after an addition and after
\* the head is taken.
LEMMA NoneAdd ==
    ASSUME NEW S, NEW s \in Seq(S), NEW t \in Seq(S), NEW ids
    PROVE  /\ NoneFrom(s \o t, 1, ids) <=> NoneFrom(s, 1, ids) /\ NoneFrom(t, 1, ids)
           /\ \A i \in 1 .. Len(s) : NoneFrom(s \o t, i + 1, ids)
                                        <=> NoneFrom(s, i + 1, ids) /\ NoneFrom(t, 1, ids)
           /\ \A i \in 1 .. Len(t) : NoneFrom(s \o t, Len(s) + i + 1, ids)
                                        <=> NoneFrom(t, i + 1, ids)
<1> DEFINE u == s \o t
<1>1. /\ Len(u) = Len(s) + Len(t) /\ Len(s) \in Nat /\ Len(t) \in Nat
      /\ \A i \in 1 .. Len(s) : u[i] = s[i]
      /\ \A i \in 1 .. Len(t) : u[Len(s) + i] = t[i]
      /\ \A i \in Len(s) + 1 .. Len(s) + Len(t) : u[i] = t[i - Len(s)]
  BY Concat
<1> HIDE DEF u
<1>2. ASSUME NEW i \in 1 .. Len(s) + 1
      PROVE  NoneFrom(u, i, ids) <=> NoneFrom(s, i, ids) /\ NoneFrom(t, 1, ids)
  <2>1. ASSUME NoneFrom(u, i, ids), NEW j \in i .. Len(s)
        PROVE  s[j].id \notin ids
    BY <1>1, <2>1 DEF NoneFrom
  <2>2. ASSUME NoneFrom(u, i, ids), NEW j \in 1 .. Len(t)
        PROVE  t[j].id \notin ids
    <3>1. Len(s) + j \in i .. Len(u) /\ u[Len(s) + j] = t[j]
      BY <1>1
    <3> QED
      BY <2>2, <3>1 DEF NoneFrom
  <2>3. ASSUME NoneFrom(s, i, ids), NoneFrom(t, 1, ids), NEW j \in i .. Len(u)
        PROVE  u[j].id \notin ids
    <3>1. CASE j \in i .. Len(s)
      BY <1>1, <2>3, <3>1 DEF NoneFrom
    <3>2. CASE j \notin i .. Len(s)
      <4>1. j \in Len(s) + 1 .. Len(s) + Len(t) /\ j - Len(s) \in 1 .. Len(t)
        BY <1>1, <3>2
      <4> QED
        BY <1>1, <2>3, <4>1 DEF NoneFrom
    <3> QED
      BY <3>1, <3>2
  <2> QED
    BY <2>1, <2>2, <2>3 DEF NoneFrom
<1>3. ASSUME NEW i \in 1 .. Len(t)
      PROVE  NoneFrom(u, Len(s) + i + 1, ids) <=> NoneFrom(t, i + 1, ids)
  <2>1. ASSUME NoneFrom(u, Len(s) + i + 1, ids), NEW j \in i + 1 .. Len(t)
        PROVE  t[j].id \notin ids
    <3>1. Len(s) + j \in Len(s) + i + 1 .. Len(u) /\ u[Len(s) + j] = t[j]
      BY <1>1
    <3> QED
      BY <2>1, <3>1 DEF NoneFrom
  <2>2. ASSUME NoneFrom(t, i + 1, ids), NEW j \in Len(s) + i + 1 .. Len(u)
        PROVE  u[j].id \notin ids
    <3>1. j - Len(s) \in i + 1 .. Len(t) /\ u[j] = t[j - Len(s)]
      BY <1>1
    <3> QED
      BY <2>2, <3>1 DEF NoneFrom
  <2> QED
    BY <2>1, <2>2 DEF NoneFrom
<1>4. \A i \in 1 .. Len(s) : i + 1 \in 1 .. Len(s) + 1
  BY <1>1
<1>5. 1 \in 1 .. Len(s) + 1
  BY <1>1
<1> QED
  BY <1>2, <1>3, <1>4, <1>5 DEF u

\* The same after the head is taken.
LEMMA NoneRest ==
    ASSUME NEW S, NEW s \in Seq(S), s # <<>>, NEW ids
    PROVE  /\ NoneFrom(s, 1, ids) <=> Head(s).id \notin ids /\ NoneFrom(Tail(s), 1, ids)
           /\ \A i \in 1 .. Len(s) : NoneFrom(Tail(s), i, ids) <=> NoneFrom(s, i + 1, ids)
<1> DEFINE t == Tail(s)
<1>1. /\ Len(s) \in Nat \ {0} /\ Len(t) = Len(s) - 1 /\ Head(s) = s[1]
      /\ \A i \in 1 .. Len(s) - 1 : t[i] = s[i + 1]
      /\ \A i \in 2 .. Len(s) : s[i] = t[i - 1]
  BY Rest
<1> HIDE DEF t
<1>2. ASSUME NEW i \in 1 .. Len(s)
      PROVE  NoneFrom(t, i, ids) <=> NoneFrom(s, i + 1, ids)
  <2>1. ASSUME NoneFrom(t, i, ids), NEW j \in i + 1 .. Len(s)
        PROVE  s[j].id \notin ids
    <3>1. j - 1 \in i .. Len(t) /\ s[j] = t[j - 1]
      BY <1>1
    <3> QED
      BY <2>1, <3>1 DEF NoneFrom
  <2>2. ASSUME NoneFrom(s, i + 1, ids), NEW j \in i .. Len(t)
        PROVE  t[j].id \notin ids
    <3>1. j + 1 \in i + 1 .. Len(s) /\ t[j] = s[j + 1]
      BY <1>1
    <3> QED
      BY <2>2, <3>1 DEF NoneFrom
  <2> QED
    BY <2>1, <2>2 DEF NoneFrom
<1>3. NoneFrom(s, 1, ids) <=> Head(s).id \notin ids /\ NoneFrom(s, 2, ids)
  <2>1. \A j \in 1 .. Len(s) : j = 1 \/ j \in 2 .. Len(s)
    BY <1>1
  <2>2. 1 \in 1 .. Len(s) /\ \A j \in 2 .. Len(s) : j \in 1 .. Len(s)
    BY <1>1
  <2> QED
    BY <1>1, <2>1, <2>2 DEF NoneFrom
<1>4. 1 \in 1 .. Len(s) /\ 1 + 1 = 2
  BY <1>1
<1>5. NoneFrom(t, 1, ids) <=> NoneFrom(s, 2, ids)
  BY <1>2, <1>4
<1> QED
  BY <1>2, <1>3, <1>5 DEF t

\* What a window will show, when packets are added that tell it nothing or
\* where the session is.
LEMMA AgreesAdd ==
    ASSUME NEW S, NEW s \in Seq(S), NEW t \in Seq(S), NEW r, NEW cur, NEW v
    PROVE  /\ Agrees(s, r, cur, v) /\ Mute(t) => Agrees(s \o t, r, cur, v)
           /\ t # <<>> /\ t[1].id \in Tells /\ NoneFrom(t, 2, Tells) /\ Says(t[1], r)
                 => Agrees(s \o t, r, cur, v)
<1> DEFINE u == s \o t
<1>1. /\ Len(u) = Len(s) + Len(t) /\ Len(s) \in Nat /\ Len(t) \in Nat
      /\ \A i \in 1 .. Len(s) : u[i] = s[i]
      /\ \A i \in 1 .. Len(t) : u[Len(s) + i] = t[i]
  BY Concat
<1>2. /\ Mute(u) <=> Mute(s) /\ Mute(t)
      /\ \A i \in 1 .. Len(s) : NoneFrom(u, i + 1, Tells)
                                   <=> NoneFrom(s, i + 1, Tells) /\ Mute(t)
      /\ \A i \in 1 .. Len(t) : NoneFrom(u, Len(s) + i + 1, Tells)
                                   <=> NoneFrom(t, i + 1, Tells)
  BY NoneAdd DEF Mute
<1> HIDE DEF u
<1>3. \A i \in 1 .. Len(u) : i \in 1 .. Len(s)
                             \/ (i - Len(s) \in 1 .. Len(t) /\ i = Len(s) + (i - Len(s)))
  BY <1>1
<1>4. ASSUME Agrees(s, r, cur, v), Mute(t)
      PROVE  Agrees(u, r, cur, v)
  <2>1. ASSUME NEW i \in 1 .. Len(u), u[i].id \in Tells, NoneFrom(u, i + 1, Tells)
        PROVE  Says(u[i], r)
    <3>1. CASE i \in 1 .. Len(s)
      BY <1>1, <1>2, <1>4, <2>1, <3>1 DEF Agrees
    <3>2. ASSUME NEW k \in 1 .. Len(t), i = Len(s) + k PROVE FALSE
      BY <1>1, <1>4, <2>1, <3>2 DEF Mute, NoneFrom
    <3> QED
      BY <1>3, <3>1, <3>2
  <2> QED
    BY <1>2, <1>4, <2>1 DEF Agrees
<1>5. ASSUME t # <<>>, t[1].id \in Tells, NoneFrom(t, 2, Tells), Says(t[1], r)
      PROVE  Agrees(u, r, cur, v)
  <2>1. 1 \in 1 .. Len(t) /\ ~Mute(t)
    BY <1>1, <1>5, EmptySeq DEF Mute, NoneFrom
  <2>2. ASSUME NEW i \in 1 .. Len(u), u[i].id \in Tells, NoneFrom(u, i + 1, Tells)
        PROVE  Says(u[i], r)
    <3>1. CASE i \in 1 .. Len(s)
      BY <1>2, <2>1, <2>2, <3>1
    <3>2. ASSUME NEW k \in 1 .. Len(t), i = Len(s) + k PROVE Says(u[i], r)
      <4>1. k = 1 \/ k \in 2 .. Len(t)
        OBVIOUS
      <4> QED
        BY <1>1, <1>5, <2>2, <3>2, <4>1 DEF NoneFrom
    <3> QED
      BY <1>3, <3>1, <3>2
  <2> QED
    BY <1>2, <2>1, <2>2 DEF Agrees
<1> QED
  BY <1>4, <1>5 DEF u

\* LOGIN_OK stays first when other packets follow.
LEMMA LoginAdd ==
    ASSUME NEW S, NEW s \in Seq(S), NEW t \in Seq(S), NEW cur
    PROVE  /\ LoginFirst(s, cur) /\ NoneFrom(t, 1, {"LOGIN_OK"}) => LoginFirst(s \o t, cur)
           /\ Mute(s) /\ cur = 0 /\ NoneFrom(t, 2, {"LOGIN_OK"}) => LoginFirst(s \o t, cur)
<1> DEFINE u == s \o t
<1>1. /\ Len(u) = Len(s) + Len(t) /\ Len(s) \in Nat /\ Len(t) \in Nat
      /\ \A i \in 1 .. Len(s) : u[i] = s[i]
      /\ \A i \in 1 .. Len(t) : u[Len(s) + i] = t[i]
  BY Concat
<1> HIDE DEF u
<1>2. \A i \in 1 .. Len(u) : i \in 1 .. Len(s)
                             \/ (i - Len(s) \in 1 .. Len(t) /\ i = Len(s) + (i - Len(s)))
  BY <1>1
<1>3. ASSUME LoginFirst(s, cur), NoneFrom(t, 1, {"LOGIN_OK"}),
             NEW i \in 1 .. Len(u), u[i].id = "LOGIN_OK"
      PROVE  cur = 0 /\ \A j \in 1 .. i - 1 : u[j].id \notin Tells
  <2>1. i \in 1 .. Len(s)
    BY <1>1, <1>2, <1>3 DEF NoneFrom
  <2>2. u[i] = s[i] /\ \A j \in 1 .. i - 1 : u[j] = s[j]
    BY <1>1, <2>1
  <2> QED
    BY <1>3, <2>1, <2>2 DEF LoginFirst
<1>4. ASSUME Mute(s), cur = 0, NoneFrom(t, 2, {"LOGIN_OK"}),
             NEW i \in 1 .. Len(u), u[i].id = "LOGIN_OK"
      PROVE  \A j \in 1 .. i - 1 : u[j].id \notin Tells
  <2>1. CASE i \in 1 .. Len(s)
    BY <1>1, <1>4, <2>1 DEF Mute, NoneFrom
  <2>2. ASSUME NEW k \in 1 .. Len(t), i = Len(s) + k
        PROVE  \A j \in 1 .. i - 1 : u[j].id \notin Tells
    <3>1. k = 1 \/ k \in 2 .. Len(t)
      OBVIOUS
    <3>2. k = 1
      BY <1>1, <1>4, <2>2, <3>1 DEF NoneFrom
    <3>3. \A j \in 1 .. i - 1 : j \in 1 .. Len(s)
      BY <1>1, <2>2, <3>2
    <3> QED
      BY <1>1, <1>4, <3>3 DEF Mute, NoneFrom
  <2> QED
    BY <1>2, <2>1, <2>2
<1> QED
  BY <1>3, <1>4 DEF u, LoginFirst

\* What it will show when it has handled the head.
LEMMA AgreesRest ==
    ASSUME NEW S, NEW s \in Seq(S), s # <<>>, NEW r, NEW cur, NEW v,
           Agrees(s, r, cur, v), LoginFirst(s, cur)
    PROVE  /\ Head(s).id \notin Tells => Agrees(Tail(s), r, cur, v)
           /\ Head(s).id = "LOGIN_OK" => Agrees(Tail(s), r, cur, "rooms")
           /\ Head(s).id = "ENTER_OK" => Agrees(Tail(s), r, Head(s).room, "chat")
           /\ Head(s).id = "LEAVE_OK" => Agrees(Tail(s), r, 0, "rooms")
<1>1. /\ Len(s) \in Nat \ {0} /\ Len(Tail(s)) = Len(s) - 1 /\ Head(s) = s[1]
      /\ \A i \in 1 .. Len(s) - 1 : Tail(s)[i] = s[i + 1]
  BY Rest
<1>2. /\ Mute(s) <=> Head(s).id \notin Tells /\ Mute(Tail(s))
      /\ \A i \in 1 .. Len(s) : NoneFrom(Tail(s), i, Tells) <=> NoneFrom(s, i + 1, Tells)
  BY NoneRest DEF Mute
<1>3. \A i \in 1 .. Len(Tail(s)) : Tail(s)[i].id \in Tells /\ NoneFrom(Tail(s), i + 1, Tells)
                                      => Says(Tail(s)[i], r)
  <2>1. \A i \in 1 .. Len(Tail(s)) : /\ i + 1 \in 1 .. Len(s)
                                     /\ Tail(s)[i] = s[i + 1]
    BY <1>1
  <2> QED
    BY <1>2, <2>1 DEF Agrees
<1>4. Mute(Tail(s)) /\ Head(s).id \in Tells => Says(Head(s), r)
  <2>1. 1 \in 1 .. Len(s)
    BY <1>1
  <2>2. Mute(Tail(s)) => NoneFrom(s, 1 + 1, Tells)
    BY <1>2, <2>1 DEF Mute
  <2> QED
    BY <1>1, <2>1, <2>2 DEF Agrees
<1>5. Head(s).id = "LOGIN_OK" => cur = 0
  BY <1>1 DEF LoginFirst
<1>6. {"LOGIN_OK", "ENTER_OK", "LEAVE_OK"} \subseteq Tells
  BY DEF Tells
<1>7. /\ Head(s).id = "LOGIN_OK" /\ Mute(Tail(s)) => r = 0
      /\ Head(s).id = "ENTER_OK" /\ Mute(Tail(s)) => Head(s).room = r /\ r # 0
      /\ Head(s).id = "LEAVE_OK" /\ Mute(Tail(s)) => r = 0
  BY <1>4, <1>6 DEF Says
<1> QED
  BY <1>2, <1>3, <1>5, <1>7 DEF Agrees

\* ... and when the head is taken; after a telling packet there is none.
LEMMA LoginRest ==
    ASSUME NEW S, NEW s \in Seq(S), s # <<>>, NEW cur, LoginFirst(s, cur)
    PROVE  /\ LoginFirst(Tail(s), cur)
           /\ Head(s).id \in Tells => \A c : LoginFirst(Tail(s), c)
<1>1. /\ Len(s) \in Nat \ {0} /\ Len(Tail(s)) = Len(s) - 1 /\ Head(s) = s[1]
      /\ \A i \in 1 .. Len(s) - 1 : Tail(s)[i] = s[i + 1]
  BY Rest
<1>2. \A i \in 1 .. Len(Tail(s)) : i + 1 \in 1 .. Len(s) /\ Tail(s)[i] = s[i + 1]
  BY <1>1
<1>3. ASSUME NEW i \in 1 .. Len(Tail(s)), Tail(s)[i].id = "LOGIN_OK"
      PROVE  /\ cur = 0 /\ \A j \in 1 .. i - 1 : Tail(s)[j].id \notin Tells
             /\ Head(s).id \notin Tells
  <2>1. cur = 0 /\ \A j \in 1 .. i : s[j].id \notin Tells
    BY <1>2, <1>3 DEF LoginFirst
  <2>2. \A j \in 1 .. i - 1 : j + 1 \in 1 .. i /\ j \in 1 .. Len(Tail(s))
    BY <1>1
  <2>3. 1 \in 1 .. i
    OBVIOUS
  <2> QED
    BY <1>1, <1>2, <2>1, <2>2, <2>3
<1> QED
  BY <1>3 DEF LoginFirst

\* The lines that stay, when packets of the right room are added, when the chat
\* will be emptied, and when the head is handled.
LEMMA BelongAdd ==
    ASSUME NEW S, NEW s \in Seq(S), NEW t \in Seq(S), NEW lines, NEW r, NEW O
    PROVE  /\ Belong(s, lines, r, O)
              /\ (\A i \in 1 .. Len(t) : t[i].id = "S_CHAT" => Of(t[i], r, O))
                 => Belong(s \o t, lines, r, O)
           /\ t # <<>> /\ t[1].id \in Clears /\ NoneFrom(t, 1, {"S_CHAT"})
                 => Belong(s \o t, lines, r, O)
<1> DEFINE u == s \o t
<1>1. /\ Len(u) = Len(s) + Len(t) /\ Len(s) \in Nat /\ Len(t) \in Nat
      /\ \A i \in 1 .. Len(s) : u[i] = s[i]
      /\ \A i \in 1 .. Len(t) : u[Len(s) + i] = t[i]
  BY Concat
<1>2. /\ NoneFrom(u, 1, Clears) <=> NoneFrom(s, 1, Clears) /\ NoneFrom(t, 1, Clears)
      /\ \A i \in 1 .. Len(s) : NoneFrom(u, i + 1, Clears)
                                   <=> NoneFrom(s, i + 1, Clears) /\ NoneFrom(t, 1, Clears)
  BY NoneAdd
<1> HIDE DEF u
<1>3. \A i \in 1 .. Len(u) : i \in 1 .. Len(s)
                             \/ (i - Len(s) \in 1 .. Len(t) /\ i = Len(s) + (i - Len(s)))
  BY <1>1
<1>4. ASSUME Belong(s, lines, r, O),
             \A i \in 1 .. Len(t) : t[i].id = "S_CHAT" => Of(t[i], r, O)
      PROVE  Belong(u, lines, r, O)
  <2>1. ASSUME NEW i \in 1 .. Len(u), u[i].id = "S_CHAT", NoneFrom(u, i + 1, Clears)
        PROVE  Of(u[i], r, O)
    <3>1. CASE i \in 1 .. Len(s)
      BY <1>1, <1>2, <1>4, <2>1, <3>1 DEF Belong
    <3>2. ASSUME NEW k \in 1 .. Len(t), i = Len(s) + k PROVE Of(u[i], r, O)
      <4>1. u[i] = t[k]
        BY <1>1, <3>2
      <4> QED
        BY <1>4, <2>1, <4>1
    <3> QED
      BY <1>3, <3>1, <3>2
  <2> QED
    BY <1>2, <1>4, <2>1 DEF Belong
<1>5. ASSUME t # <<>>, t[1].id \in Clears, NoneFrom(t, 1, {"S_CHAT"})
      PROVE  Belong(u, lines, r, O)
  <2>1. ~NoneFrom(t, 1, Clears)
    <3>1. 1 \in 1 .. Len(t)
      BY <1>1, <1>5, EmptySeq
    <3> QED
      BY <1>5, <3>1 DEF NoneFrom
  <2>2. ASSUME NEW i \in 1 .. Len(u), u[i].id = "S_CHAT", NoneFrom(u, i + 1, Clears)
        PROVE  FALSE
    <3>1. CASE i \in 1 .. Len(s)
      BY <1>2, <2>1, <2>2, <3>1
    <3>2. ASSUME NEW k \in 1 .. Len(t), i = Len(s) + k PROVE FALSE
      <4>1. u[i] = t[k]
        BY <1>1, <3>2
      <4> QED
        BY <1>5, <2>2, <4>1 DEF NoneFrom
    <3> QED
      BY <1>3, <3>1, <3>2
  <2> QED
    BY <1>2, <2>1, <2>2 DEF Belong
<1> QED
  BY <1>4, <1>5 DEF u

\* The lines that stay, when the head is handled.
LEMMA BelongRest ==
    ASSUME NEW S, NEW s \in Seq(S), s # <<>>, NEW L, NEW lines \in Seq(L), NEW l \in L,
           NEW r, NEW O, Belong(s, lines, r, O)
    PROVE  /\ Head(s).id \notin Clears => Belong(Tail(s), lines, r, O)
           /\ Head(s).id \in Clears => Belong(Tail(s), <<>>, r, O)
           /\ Head(s).id = "S_CHAT" /\ l.room = Head(s).room /\ l.from = Head(s).from
                 => Belong(Tail(s), Append(lines, l), r, O)
<1> DEFINE t == Tail(s)
<1>1. /\ Len(s) \in Nat \ {0} /\ Len(t) = Len(s) - 1 /\ Head(s) = s[1]
      /\ \A i \in 1 .. Len(s) - 1 : t[i] = s[i + 1]
  BY Rest
<1>2. /\ NoneFrom(s, 1, Clears) <=> Head(s).id \notin Clears /\ NoneFrom(t, 1, Clears)
      /\ \A i \in 1 .. Len(s) : NoneFrom(t, i, Clears) <=> NoneFrom(s, i + 1, Clears)
  BY NoneRest
<1> HIDE DEF t
<1>3. \A i \in 1 .. Len(t) : t[i].id = "S_CHAT" /\ NoneFrom(t, i + 1, Clears)
                                => Of(t[i], r, O)
  <2>1. \A i \in 1 .. Len(t) : i + 1 \in 1 .. Len(s) /\ t[i] = s[i + 1]
    BY <1>1
  <2> QED
    BY <1>2, <2>1 DEF Belong
<1>4. Head(s).id \notin Clears => Belong(t, lines, r, O)
  BY <1>2, <1>3 DEF Belong
<1>5. Belong(t, <<>>, r, O) \/ Head(s).id \notin Clears
  <2>1. \A k \in 1 .. Len(<<>>) : FALSE
    OBVIOUS
  <2> QED
    BY <1>3, <2>1 DEF Belong
<1>6. ASSUME Head(s).id = "S_CHAT", l.room = Head(s).room, l.from = Head(s).from
      PROVE  Belong(t, Append(lines, l), r, O)
  <2>1. Head(s).id \notin Clears
    BY <1>6 DEF Clears
  <2>2. /\ Len(Append(lines, l)) = Len(lines) + 1 /\ Len(lines) \in Nat
        /\ \A k \in 1 .. Len(lines) : Append(lines, l)[k] = lines[k]
        /\ Append(lines, l)[Len(lines) + 1] = l
    OBVIOUS
  <2>3. NoneFrom(t, 1, Clears) => Of(l, r, O)
    <3>1. 1 \in 1 .. Len(s)
      BY <1>1
    <3>2. NoneFrom(t, 1, Clears) => NoneFrom(s, 1 + 1, Clears)
      BY <1>2, <3>1
    <3>3. NoneFrom(t, 1, Clears) => Of(s[1], r, O)
      BY <1>1, <1>6, <3>1, <3>2 DEF Belong
    <3> QED
      BY <1>1, <1>6, <3>3 DEF Of
  <2>4. ASSUME NoneFrom(t, 1, Clears), NEW k \in 1 .. Len(Append(lines, l))
        PROVE  Of(Append(lines, l)[k], r, O)
    <3>1. CASE k \in 1 .. Len(lines)
      BY <1>2, <2>1, <2>2, <2>4, <3>1 DEF Belong
    <3>2. CASE k = Len(lines) + 1
      BY <2>2, <2>3, <2>4, <3>2
    <3> QED
      BY <2>2, <3>1, <3>2
  <2> QED
    BY <1>3, <2>4 DEF Belong
<1> QED
  BY <1>4, <1>5, <1>6 DEF t

\* Without lines it is the packets that count.
LEMMA BelongEmpty ==
    ASSUME NEW s, NEW lines, NEW r, NEW O, Belong(s, lines, r, O)
    PROVE  Belong(s, <<>>, r, O)
<1>1. \A k \in 1 .. Len(<<>>) : FALSE
  OBVIOUS
<1> QED
  BY <1>1 DEF Belong

\* The order of the messages, when packets are added that are no messages, when
\* one is added, and when the head is handled.
LEMMA OrderAdd ==
    ASSUME NEW S, NEW s \in Seq(S), NEW t \in Seq(S), NEW lines,
           Ordered(lines, s), \A i \in 1 .. Len(s) : s[i].n \in Nat,
           \/ NoneFrom(t, 1, {"S_CHAT"})
           \/ /\ Len(t) = 1
              /\ t[1].id = "S_CHAT" => Signed(t[1]) /\ Below(lines, s, t[1].from, t[1].n)
    PROVE  Ordered(lines, s \o t)
<1> DEFINE u == s \o t
<1>1. /\ Len(u) = Len(s) + Len(t) /\ Len(s) \in Nat /\ Len(t) \in Nat
      /\ \A i \in 1 .. Len(s) : u[i] = s[i]
      /\ \A i \in 1 .. Len(t) : u[Len(s) + i] = t[i]
  BY Concat
<1> HIDE DEF u
<1>2. ASSUME NEW i \in 1 .. Len(u), u[i].id = "S_CHAT", i \notin 1 .. Len(s)
      PROVE  /\ i = Len(s) + 1 /\ i = Len(u) /\ Signed(u[i])
             /\ Below(lines, s, u[i].from, u[i].n)
  <2>1. i - Len(s) \in 1 .. Len(t) /\ u[i] = t[i - Len(s)]
    <3>1. i - Len(s) \in 1 .. Len(t) /\ i = Len(s) + (i - Len(s))
      BY <1>1, <1>2
    <3> QED
      BY <1>1, <3>1
  <2>2. ~NoneFrom(t, 1, {"S_CHAT"})
    BY <1>2, <2>1 DEF NoneFrom
  <2>3. /\ Len(t) = 1
        /\ t[1].id = "S_CHAT" => Signed(t[1]) /\ Below(lines, s, t[1].from, t[1].n)
    BY <2>2
  <2>4. i - Len(s) = 1
    BY <1>1, <2>1, <2>3
  <2> QED
    BY <1>1, <1>2, <2>1, <2>3, <2>4
<1>3. ASSUME NEW i \in 1 .. Len(u), NEW j \in 1 .. Len(u), i < j,
             u[i].id = "S_CHAT", u[j].id = "S_CHAT", u[i].from = u[j].from
      PROVE  u[i].n < u[j].n
  <2>1. i \in 1 .. Len(s)
    BY <1>1, <1>2, <1>3
  <2>2. CASE j \in 1 .. Len(s)
    BY <1>1, <1>3, <2>1, <2>2 DEF Ordered
  <2>3. CASE j \notin 1 .. Len(s)
    BY <1>1, <1>2, <1>3, <2>1, <2>3 DEF Below
  <2> QED
    BY <2>2, <2>3
<1>4. ASSUME NEW i \in 1 .. Len(lines), NEW j \in 1 .. Len(u),
             u[j].id = "S_CHAT", lines[i].from = u[j].from
      PROVE  lines[i].n < u[j].n
  <2>1. CASE j \in 1 .. Len(s)
    BY <1>1, <1>4, <2>1 DEF Ordered
  <2>2. CASE j \notin 1 .. Len(s)
    BY <1>2, <1>4, <2>2 DEF Below
  <2> QED
    BY <2>1, <2>2
<1>5. ASSUME NEW i \in 1 .. Len(u), u[i].id = "S_CHAT" PROVE Signed(u[i])
  BY <1>1, <1>2, <1>5 DEF Ordered
<1>6. Ordered(lines, u)
  BY <1>3, <1>4, <1>5 DEF Ordered
<1> QED
  BY <1>6 DEF u

\* The numbers of a sender stay below n when the added ones are.
LEMMA BelowAdd ==
    ASSUME NEW S, NEW s \in Seq(S), NEW t \in Seq(S), NEW lines, NEW c, NEW n,
           Below(lines, s, c, n),
           \A i \in 1 .. Len(t) : t[i].id = "S_CHAT" /\ t[i].from = c => t[i].n < n
    PROVE  Below(lines, s \o t, c, n)
<1> DEFINE u == s \o t
<1>1. /\ Len(u) = Len(s) + Len(t) /\ Len(s) \in Nat /\ Len(t) \in Nat
      /\ \A i \in 1 .. Len(s) : u[i] = s[i]
      /\ \A i \in 1 .. Len(t) : u[Len(s) + i] = t[i]
  BY Concat
<1> HIDE DEF u
<1>2. ASSUME NEW i \in 1 .. Len(u), u[i].id = "S_CHAT", u[i].from = c
      PROVE  u[i].n < n
  <2>1. CASE i \in 1 .. Len(s)
    BY <1>1, <1>2, <2>1 DEF Below
  <2>2. CASE i \notin 1 .. Len(s)
    <3>1. i - Len(s) \in 1 .. Len(t) /\ i = Len(s) + (i - Len(s))
      BY <1>1, <2>2
    <3>2. u[i] = t[i - Len(s)]
      BY <1>1, <3>1
    <3> QED
      BY <1>2, <3>1, <3>2
  <2> QED
    BY <2>1, <2>2
<1>3. Below(lines, u, c, n)
  BY <1>2 DEF Below
<1> QED
  BY <1>3 DEF u

\* The order of the messages, when the head is shown or dropped.
LEMMA OrderRest ==
    ASSUME NEW S, NEW s \in Seq(S), s # <<>>, NEW L, NEW lines \in Seq(L), NEW l \in L,
           Ordered(lines, s)
    PROVE  /\ Ordered(lines, Tail(s))
           /\ Head(s).id = "S_CHAT" /\ l.from = Head(s).from /\ l.n = Head(s).n
                 => Ordered(Append(lines, l), Tail(s))
<1> DEFINE t == Tail(s)
           ls == Append(lines, l)
<1>1. /\ Len(s) \in Nat \ {0} /\ Len(t) = Len(s) - 1 /\ Head(s) = s[1]
      /\ \A i \in 1 .. Len(s) - 1 : t[i] = s[i + 1]
  BY Rest
<1>2. /\ Len(ls) = Len(lines) + 1 /\ Len(lines) \in Nat
      /\ \A k \in 1 .. Len(lines) : ls[k] = lines[k]
      /\ ls[Len(lines) + 1] = l
  OBVIOUS
<1> HIDE DEF t, ls
<1>3. \A i \in 1 .. Len(t) : i + 1 \in 2 .. Len(s) /\ i + 1 \in 1 .. Len(s)
                             /\ t[i] = s[i + 1]
  BY <1>1
<1>4. \A i, j \in 1 .. Len(t) : i < j => i + 1 < j + 1
  OBVIOUS
<1>5. Ordered(lines, t)
  BY <1>3, <1>4 DEF Ordered
<1>6. ASSUME Head(s).id = "S_CHAT", l.from = Head(s).from, l.n = Head(s).n
      PROVE  Ordered(ls, t)
  <2>1. 1 \in 1 .. Len(s) /\ \A i \in 1 .. Len(t) : 1 < i + 1
    BY <1>1
  <2>2. \A i \in 1 .. Len(ls) : i \in 1 .. Len(lines) \/ i = Len(lines) + 1
    BY <1>2
  <2>3. \A i \in 1 .. Len(lines) : lines[i].from = l.from => lines[i].n < l.n
    BY <1>1, <1>6, <2>1 DEF Ordered
  <2>4. \A j \in 1 .. Len(t) : t[j].id = "S_CHAT" /\ l.from = t[j].from => l.n < t[j].n
    <3>1. ASSUME NEW j \in 1 .. Len(t), t[j].id = "S_CHAT", l.from = t[j].from
          PROVE  l.n < t[j].n
      <4>1. s[1].n < s[j + 1].n
        BY <1>1, <1>3, <1>6, <2>1, <3>1 DEF Ordered
      <4> QED
        BY <1>1, <1>3, <1>6, <4>1
    <3> QED
      BY <3>1
  <2>5. ASSUME NEW i \in 1 .. Len(ls), NEW j \in 1 .. Len(ls), i < j,
               ls[i].from = ls[j].from
        PROVE  ls[i].n < ls[j].n
    <3>1. i \in 1 .. Len(lines)
      BY <1>2, <2>5
    <3> QED
      BY <1>2, <1>5, <2>2, <2>3, <2>5, <3>1 DEF Ordered
  <2>6. ASSUME NEW i \in 1 .. Len(ls), NEW j \in 1 .. Len(t),
               t[j].id = "S_CHAT", ls[i].from = t[j].from
        PROVE  ls[i].n < t[j].n
    BY <1>2, <1>5, <2>2, <2>4, <2>6 DEF Ordered
  <2> QED
    BY <1>5, <2>5, <2>6 DEF Ordered
<1> QED
  BY <1>5, <1>6 DEF t, ls

\* The numbers of a sender, when the head is shown or dropped.
LEMMA BelowRest ==
    ASSUME NEW S, NEW s \in Seq(S), s # <<>>, NEW L, NEW lines \in Seq(L), NEW l \in L,
           NEW c, NEW n, Below(lines, s, c, n)
    PROVE  /\ Below(lines, Tail(s), c, n)
           /\ Head(s).id = "S_CHAT" /\ l.from = Head(s).from /\ l.n = Head(s).n
                 => Below(Append(lines, l), Tail(s), c, n)
<1> DEFINE t == Tail(s)
           ls == Append(lines, l)
<1>1. /\ Len(s) \in Nat \ {0} /\ Len(t) = Len(s) - 1 /\ Head(s) = s[1]
      /\ \A i \in 1 .. Len(s) - 1 : t[i] = s[i + 1]
  BY Rest
<1>2. /\ Len(ls) = Len(lines) + 1 /\ Len(lines) \in Nat
      /\ \A k \in 1 .. Len(lines) : ls[k] = lines[k]
      /\ ls[Len(lines) + 1] = l
  OBVIOUS
<1> HIDE DEF t, ls
<1>3. \A i \in 1 .. Len(t) : i + 1 \in 1 .. Len(s) /\ t[i] = s[i + 1]
  BY <1>1
<1>4. Below(lines, t, c, n)
  BY <1>3 DEF Below
<1>5. ASSUME Head(s).id = "S_CHAT", l.from = Head(s).from, l.n = Head(s).n
      PROVE  Below(ls, t, c, n)
  <2>1. \A i \in 1 .. Len(ls) : i \in 1 .. Len(lines) \/ i = Len(lines) + 1
    BY <1>2
  <2>2. l.from = c => l.n < n
    BY <1>1, <1>5 DEF Below
  <2> QED
    BY <1>2, <1>4, <2>1, <2>2 DEF Below
<1> QED
  BY <1>4, <1>5 DEF t, ls

\* Fewer lines or packets do no harm, nor does a larger bound.
LEMMA Fewer ==
    ASSUME NEW lines, NEW s
    PROVE  /\ Ordered(lines, s) => Ordered(<<>>, s) /\ Ordered(lines, <<>>)
           /\ \A c, n : Below(lines, s, c, n) => Below(<<>>, s, c, n)
                                                 /\ Below(lines, <<>>, c, n)
<1>1. 1 .. Len(<<>>) = {}
  OBVIOUS
<1> QED
  BY <1>1 DEF Ordered, Below

\* What is below n is below a greater number.
LEMMA BelowMore ==
    ASSUME NEW lines, NEW s, NEW c, NEW n \in Nat, NEW m \in Nat, n <= m,
           Below(lines, s, c, n), \A i \in 1 .. Len(lines) : lines[i].n \in Nat,
           \A i \in 1 .. Len(s) : s[i].n \in Nat
    PROVE  Below(lines, s, c, m)
  BY DEF Below

-----------------------------------------------------------------------------
(* What a session has yet to do                                            *)

\* The op and the room of an item, and the heads of lists.
LEMMA ItemOps == \A p, a : Item(p, a).op = p /\ Item(p, a).room = a
  BY DEF Item

\* The parts of lists of up to three items.
LEMMA Heads ==
    /\ \A x : <<x>> # <<>> /\ Head(<<x>>) = x /\ Tail(<<x>>) = <<>>
    /\ \A x, y : <<x, y>> # <<>> /\ Head(<<x, y>>) = x /\ Tail(<<x, y>>) = <<y>>
    /\ \A x, y, z : /\ <<x, y, z>> # <<>> /\ Head(<<x, y, z>>) = x
                    /\ Tail(<<x, y, z>>) = <<y, z>>
  OBVIOUS

\* What the head of the list says of the rest of it and of the session.
LEMMA PlanCases ==
    ASSUME NEW c \in Clients, PlanOf(c), TypeOK
    PROVE  /\ Does(c, "vacate") =>
                 /\ room[c] # 0
                 /\ \/ /\ isConnected[c] /\ authenticated[c]
                       /\ \E r \in Rooms : Tail(work[c]) = <<Item("occupy", r), Item("entered", r)>>
                    \/ /\ isConnected[c] /\ authenticated[c]
                       /\ Tail(work[c]) = <<Item("left", room[c])>>
                    \/ ~isConnected[c] /\ Tail(work[c]) = <<Item("gone", 0)>>
           /\ Does(c, "occupy") =>
                 /\ room[c] = 0 /\ isConnected[c] /\ authenticated[c]
                 /\ Head(work[c]).room \in Rooms
                 /\ Tail(work[c]) = <<Item("entered", Head(work[c]).room)>>
           /\ Does(c, "entered") =>
                 /\ isConnected[c] /\ authenticated[c]
                 /\ room[c] \in Rooms /\ Head(work[c]).room = room[c]
                 /\ Tail(work[c]) = <<>>
           /\ Does(c, "left") =>
                 /\ room[c] = 0 /\ isConnected[c] /\ authenticated[c]
                 /\ Tail(work[c]) = <<>>
           /\ Does(c, "gone") =>
                 /\ room[c] = 0 /\ ~isConnected[c] /\ Tail(work[c]) = <<>>
           /\ Does(c, "send") =>
                 /\ isConnected[c] /\ Head(work[c]) \in Sends(c) /\ Tail(work[c]) = <<>>
<1> DEFINE h == Head(work[c])
           t == Tail(work[c])
<1>1. CASE work[c] = <<>>
  BY <1>1 DEF Does
<1>2. CASE Sending1(c)
  <2>1. PICK item \in Sends(c) : work[c] = <<item>>
    BY <1>2 DEF Sending1
  <2>2. item.op = "send" /\ h = item /\ t = <<>>
    BY <2>1 DEF Sends
  <2> QED
    BY <1>2, <2>1, <2>2 DEF Does, Sending1
<1>3. CASE Entering(c)
  <2>1. PICK r \in Rooms :
           \/ /\ room[c] # 0
              /\ work[c] = <<Item("vacate", room[c]), Item("occupy", r), Item("entered", r)>>
           \/ room[c] = 0 /\ work[c] = <<Item("occupy", r), Item("entered", r)>>
           \/ room[c] = r /\ work[c] = <<Item("entered", r)>>
    BY <1>3 DEF Entering
  <2>2. \/ /\ room[c] # 0 /\ h.op = "vacate"
           /\ t = <<Item("occupy", r), Item("entered", r)>>
        \/ room[c] = 0 /\ h.op = "occupy" /\ h.room = r /\ t = <<Item("entered", r)>>
        \/ room[c] = r /\ h.op = "entered" /\ h.room = r /\ t = <<>>
    <3>1. CASE /\ room[c] # 0
               /\ work[c] = <<Item("vacate", room[c]), Item("occupy", r), Item("entered", r)>>
      <4>1. h = Item("vacate", room[c]) /\ t = <<Item("occupy", r), Item("entered", r)>>
        BY <3>1, Heads
      <4> QED
        BY <3>1, <4>1, ItemOps
    <3>2. CASE room[c] = 0 /\ work[c] = <<Item("occupy", r), Item("entered", r)>>
      <4>1. h = Item("occupy", r) /\ t = <<Item("entered", r)>>
        BY <3>2, Heads
      <4> QED
        BY <3>2, <4>1, ItemOps
    <3>3. CASE room[c] = r /\ work[c] = <<Item("entered", r)>>
      <4>1. h = Item("entered", r) /\ t = <<>>
        BY <3>3, Heads
      <4> QED
        BY <3>3, <4>1, ItemOps
    <3> QED
      BY <2>1, <3>1, <3>2, <3>3
  <2> QED
    BY <1>3, <2>2 DEF Does, Entering
<1>4. CASE Leaving(c)
  <2>1. \/ /\ room[c] # 0 /\ h.op = "vacate" /\ t = <<Item("left", room[c])>>
        \/ room[c] = 0 /\ h.op = "left" /\ t = <<>>
    <3>1. CASE room[c] # 0 /\ work[c] = <<Item("vacate", room[c]), Item("left", room[c])>>
      <4>1. h = Item("vacate", room[c]) /\ t = <<Item("left", room[c])>>
        BY <3>1, Heads
      <4> QED
        BY <3>1, <4>1, ItemOps
    <3>2. ASSUME room[c] = 0, NEW r \in Rooms, work[c] = <<Item("left", r)>>
          PROVE  h.op = "left" /\ t = <<>>
      <4>1. h = Item("left", r) /\ t = <<>>
        BY <3>2, Heads
      <4> QED
        BY <4>1, ItemOps
    <3> QED
      BY <1>4, <3>1, <3>2 DEF Leaving
  <2> QED
    BY <1>4, <2>1 DEF Does, Leaving
<1>5. CASE Closing(c)
  <2>1. \/ /\ room[c] # 0 /\ h.op = "vacate" /\ t = <<Item("gone", 0)>>
        \/ room[c] = 0 /\ h.op = "gone" /\ t = <<>>
    <3>1. CASE room[c] # 0 /\ work[c] = <<Item("vacate", room[c]), Item("gone", 0)>>
      <4>1. h = Item("vacate", room[c]) /\ t = <<Item("gone", 0)>>
        BY <3>1, Heads
      <4> QED
        BY <3>1, <4>1, ItemOps
    <3>2. CASE room[c] = 0 /\ work[c] = <<Item("gone", 0)>>
      <4>1. h = Item("gone", 0) /\ t = <<>>
        BY <3>2, Heads
      <4> QED
        BY <3>2, <4>1, ItemOps
    <3> QED
      BY <1>5, <3>1, <3>2 DEF Closing
  <2> QED
    BY <1>5, <2>1 DEF Does, Closing
<1> QED
  BY <1>1, <1>2, <1>3, <1>4, <1>5 DEF PlanOf

-----------------------------------------------------------------------------
(* What a step of one client leaves alone                                  *)

\* Nothing of another client changes but for the packets on its way.
Others(c) ==
    /\ \A d \in Clients \ {c} :
          /\ link'[d] = link[d] /\ out'[d] = out[d] /\ work'[d] = work[d]
          /\ isConnected'[d] = isConnected[d] /\ authenticated'[d] = authenticated[d]
          /\ room'[d] = room[d] /\ said'[d] = said[d]
    /\ \A w \in Windows \ {c} :
          /\ view'[w] = view[w] /\ currentRoomId'[w] = currentRoomId[w]
          /\ chatLines'[w] = chatLines[w] /\ overlap'[w] = overlap[w]
          /\ w \in late' <=> w \in late

\* Packets are added to those of window w: at most one of them is a message, sent
\* by c, of the right room and above the numbers that c's messages have there.
Comes(c, w, t) ==
    /\ t \in Seq(Packets(Answers)) /\ in'[w] = in[w] \o t
    /\ \A i \in 1 .. Len(t) : t[i].id = "S_CHAT" =>
          /\ Len(t) = 1 /\ t[i].from = c /\ Signed(t[i])
          /\ Of(t[i], room[w], overlap[w])
          /\ Below(chatLines[w], in[w], c, t[i].n)

\* They tell another window nothing of its session.
Adds(c, w, t) == Comes(c, w, t) /\ Mute(t)

\* What then still holds of the others.
OthersHold(c) ==
    /\ \A d \in Clients \ {c} : PlanOf(d)' /\ AskOf(d)'
    /\ \A w \in Windows \ {c} : LineOf(w)' /\ (w \notin late' => ViewOf(w)')
                                /\ Ordered(chatLines[w], in[w])'
    /\ \A d \in Clients \ {c}, w \in Windows \ {c} : CopyOf(d, w)' /\ OrderOf(w, d)'

\* The types of a window's packets and lines; their numbers are natural.
LEMMA Numbers ==
    ASSUME TypeOK, NEW w \in Windows
    PROVE  /\ in[w] \in Seq(Packets(Answers)) /\ chatLines[w] \in Seq(Lines)
           /\ \A i \in 1 .. Len(in[w]) : in[w][i] \in Packets(Answers) /\ in[w][i].n \in Nat
           /\ \A i \in 1 .. Len(chatLines[w]) : chatLines[w][i] \in Lines
                                                /\ chatLines[w][i].n \in Nat
<1>1. in[w] \in Seq(Packets(Answers)) /\ chatLines[w] \in Seq(Lines)
  BY DEF TypeOK
<1>2. \A p \in Packets(Answers) : p.n \in Nat
  BY DEF Packets, Said
<1>3. \A p \in Lines : p.n \in Nat
  BY DEF Lines, Said
<1>4. \A i \in 1 .. Len(in[w]) : in[w][i] \in Packets(Answers)
  BY <1>1, ElementOfSeq
<1>5. \A i \in 1 .. Len(chatLines[w]) : chatLines[w][i] \in Lines
  BY <1>1, ElementOfSeq
<1> QED
  BY <1>1, <1>2, <1>3, <1>4, <1>5

\* What c adds to the packets of w keeps the view of w ...
LEMMA AddsView ==
    ASSUME TypeOK, NEW c \in Clients, NEW w \in Windows, NEW t, Adds(c, w, t), ViewOf(w),
           Up(w)' => Up(w), Told(w)' => Told(w),
           view'[w] = view[w], currentRoomId'[w] = currentRoomId[w],
           authenticated'[w] = authenticated[w], room'[w] = room[w]
    PROVE  ViewOf(w)'
<1>1. in[w] \in Seq(Packets(Answers)) /\ t \in Seq(Packets(Answers)) /\ Mute(t)
      /\ in'[w] = in[w] \o t
  BY Numbers DEF Adds, Comes
<1>2. SUFFICES ASSUME Up(w)'
               PROVE  /\ LoginFirst(in'[w], currentRoomId'[w])
                      /\ ~authenticated'[w] => /\ Mute(in'[w]) /\ view'[w] = "login"
                                               /\ currentRoomId'[w] = 0
                      /\ authenticated'[w] /\ Told(w)' =>
                            Agrees(in'[w], room'[w], currentRoomId'[w], view'[w])
  BY DEF ViewOf
<1>3. NoneFrom(t, 1, {"LOGIN_OK"})
  BY <1>1 DEF Mute, NoneFrom, Tells
<1>4. LoginFirst(in[w] \o t, currentRoomId[w])
  BY <1>1, <1>2, <1>3, LoginAdd DEF ViewOf
<1>5. Mute(in[w]) => Mute(in[w] \o t)
  BY <1>1, NoneAdd DEF Mute
<1>6. authenticated[w] /\ Told(w) => Agrees(in[w] \o t, room[w], currentRoomId[w], view[w])
  BY <1>1, <1>2, AgreesAdd DEF ViewOf
<1> QED
  BY <1>1, <1>2, <1>4, <1>5, <1>6 DEF ViewOf

\* ... its lines ...
LEMMA AddsLines ==
    ASSUME TypeOK, NEW c \in Clients, NEW w \in Windows, NEW t, Adds(c, w, t), LineOf(w),
           Up(w)' => Up(w), Told(w)' => Told(w), chatLines'[w] = chatLines[w],
           overlap'[w] = overlap[w], room'[w] = room[w]
    PROVE  LineOf(w)'
<1>1. /\ in[w] \in Seq(Packets(Answers)) /\ t \in Seq(Packets(Answers))
      /\ in'[w] = in[w] \o t
      /\ \A i \in 1 .. Len(t) : t[i].id = "S_CHAT" => Of(t[i], room[w], overlap[w])
  BY Numbers DEF Adds, Comes
<1>2. Belong(in[w], chatLines[w], room[w], overlap[w])
         => Belong(in[w] \o t, chatLines[w], room[w], overlap[w])
  BY <1>1, BelongAdd
<1> QED
  BY <1>1, <1>2 DEF LineOf

\* ... and the order of the messages.
LEMMA AddsOrder ==
    ASSUME TypeOK, NEW c \in Clients, NEW w \in Windows, NEW t, Comes(c, w, t),
           chatLines'[w] = chatLines[w]
    PROVE  /\ Ordered(chatLines[w], in[w]) => Ordered(chatLines[w], in[w])'
           /\ \A d, n : d # c /\ Below(chatLines[w], in[w], d, n)
                           => Below(chatLines'[w], in'[w], d, n)
           /\ \A n : Below(chatLines[w], in[w], c, n)
                     /\ (\A i \in 1 .. Len(t) : t[i].id = "S_CHAT" => t[i].n < n)
                        => Below(chatLines'[w], in'[w], c, n)
<1>1. /\ in[w] \in Seq(Packets(Answers)) /\ t \in Seq(Packets(Answers))
      /\ in'[w] = in[w] \o t
      /\ \A i \in 1 .. Len(in[w]) : in[w][i].n \in Nat
      /\ \A i \in 1 .. Len(t) : t[i].id = "S_CHAT" =>
          /\ Len(t) = 1 /\ t[i].from = c /\ Signed(t[i])
          /\ Below(chatLines[w], in[w], c, t[i].n)
  BY Numbers DEF Comes
<1>2. \/ NoneFrom(t, 1, {"S_CHAT"})
      \/ /\ Len(t) = 1
         /\ t[1].id = "S_CHAT" => /\ Signed(t[1])
                                  /\ Below(chatLines[w], in[w], t[1].from, t[1].n)
  BY <1>1 DEF NoneFrom
<1>3. Ordered(chatLines[w], in[w]) => Ordered(chatLines[w], in[w] \o t)
  BY <1>1, <1>2, OrderAdd
<1>4. ASSUME NEW d, NEW n, d # c, Below(chatLines[w], in[w], d, n)
      PROVE  Below(chatLines[w], in[w] \o t, d, n)
  BY <1>1, <1>4, BelowAdd
<1>5. ASSUME NEW n, Below(chatLines[w], in[w], c, n),
             \A i \in 1 .. Len(t) : t[i].id = "S_CHAT" => t[i].n < n
      PROVE  Below(chatLines[w], in[w] \o t, c, n)
  BY <1>1, <1>5, BelowAdd
<1> QED
  BY <1>1, <1>3, <1>4, <1>5

\* The predicates of the others are kept when c only adds to their packets.
LEMMA OthersKeep ==
    ASSUME ChatInv, NEW c \in Clients, Others(c),
           \A w \in Windows \ {c} : \E t : Adds(c, w, t)
    PROVE  OthersHold(c)
<1>1. TypeOK /\ PlanInv /\ ViewInv /\ CopyInv /\ LineInv /\ AskInv /\ OrderInv
  BY DEF ChatInv
<1>2. Windows \subseteq Clients
  BY DEF Clients
<1>3. ASSUME NEW d \in Clients \ {c} PROVE PlanOf(d)'
  <2>1. PlanOf(d)
    BY <1>1 DEF PlanInv
  <2> QED
    BY <2>1 DEF Others, PlanOf, Sending1, Entering, Leaving, Closing
<1>4. ASSUME NEW d \in Clients \ {c} PROVE AskOf(d)'
  <2>1. AskOf(d)
    BY <1>1 DEF AskInv
  <2> QED
    BY <2>1 DEF Others, AskOf, Does
<1>5. ASSUME NEW w \in Windows \ {c}
      PROVE  /\ LineOf(w)' /\ (w \notin late' => ViewOf(w)')
             /\ Ordered(chatLines[w], in[w])'
             /\ \A d \in Clients \ {c} : OrderOf(w, d)'
  <2>1. PICK t : Adds(c, w, t)
    OBVIOUS
  <2>2. /\ Up(w)' => Up(w)
        /\ Told(w)' => Told(w)
    BY <1>2 DEF Others, Up, Told, Does
  <2>3. w \in Clients \ {c}
    BY <1>2
  <2>4. LineOf(w)'
    BY <1>1, <2>1, <2>2, <2>3, AddsLines DEF Others, LineInv
  <2>5. w \notin late' => ViewOf(w)'
    BY <1>1, <2>1, <2>2, <2>3, AddsView DEF Others, ViewInv
  <2>6. Ordered(chatLines[w], in[w])'
    BY <1>1, <2>1, AddsOrder DEF Others, Adds, OrderInv
  <2>7. ASSUME NEW d \in Clients \ {c} PROVE OrderOf(w, d)'
    <3>1. OrderOf(w, d)
      BY <1>1 DEF OrderInv
    <3>2. \A n : Below(chatLines[w], in[w], d, n) => Below(chatLines'[w], in'[w], d, n)
      BY <1>1, <2>1, AddsOrder DEF Others, Adds
    <3> QED
      BY <3>1, <3>2 DEF Others, OrderOf, Does
  <2> QED
    BY <2>4, <2>5, <2>6, <2>7
<1>6. ASSUME NEW d \in Clients \ {c}, NEW w \in Windows \ {c} PROVE CopyOf(d, w)'
  <2>1. CopyOf(d, w)
    BY <1>1 DEF CopyInv
  <2> QED
    BY <1>2, <2>1 DEF Others, CopyOf, Does
<1> QED
  BY <1>3, <1>4, <1>5, <1>6 DEF OthersHold

-----------------------------------------------------------------------------
(* The packets that a session sends                                        *)

\* Nothing is added.
LEMMA EmptyAdd == ASSUME NEW S, NEW s \in Seq(S) PROVE s \o <<>> = s
  OBVIOUS

\* The windows and the consoles are clients.
LEMMA Windowed == Windows \subseteq Clients /\ Consoles \subseteq Clients /\ None \notin Clients
  BY ClientsAssumption DEF Clients

\* The bounds are numbers.
LEMMA Bounds == /\ WindowBudget \in Nat /\ ConsoleBudget \in Nat /\ MaxQueued \in Nat
                /\ MaxLosses \in Nat /\ 0 \in Said
                /\ \A c \in Clients : Budget(c) \in Said
  BY BoundsAssumption DEF Said, Budget

\* The fields and the type of a packet without content.
LEMMA PlainId == \A id : /\ Plain(id).id = id /\ Plain(id).from = None
                         /\ Plain(id).room = 0 /\ Plain(id).n = 0
  BY DEF Plain, Packet

LEMMA PlainType == \A ids : \A id \in ids : Plain(id) \in Packets(ids)
  BY Bounds DEF Plain, Packet, Packets

\* A list of one or two packets without content.
LEMMA PlainList ==
    ASSUME NEW a \in Answers, NEW b \in Answers
    PROVE  /\ <<Plain(a)>> \in Seq(Packets(Answers))
           /\ <<Plain(a), Plain(b)>> \in Seq(Packets(Answers))
           /\ Len(<<Plain(a)>>) = 1 /\ <<Plain(a)>>[1].id = a
           /\ Len(<<Plain(a), Plain(b)>>) = 2
           /\ <<Plain(a), Plain(b)>>[1].id = a /\ <<Plain(a), Plain(b)>>[2].id = b
<1>1. Plain(a) \in Packets(Answers) /\ Plain(b) \in Packets(Answers)
  BY PlainType
<1>2. Plain(a).id = a /\ Plain(b).id = b
  BY PlainId
<1> DEFINE p == Plain(a)
           q == Plain(b)
<1> HIDE DEF p, q
<1>3. /\ p \in Packets(Answers) /\ q \in Packets(Answers) /\ p.id = a /\ q.id = b
         => /\ <<p>> \in Seq(Packets(Answers)) /\ <<p, q>> \in Seq(Packets(Answers))
            /\ Len(<<p>>) = 1 /\ <<p>>[1].id = a /\ Len(<<p, q>>) = 2
            /\ <<p, q>>[1].id = a /\ <<p, q>>[2].id = b
  OBVIOUS
<1> QED
  BY <1>1, <1>2, <1>3 DEF p, q

\* What SendPackets adds to whom.
LEMMA Sent ==
    ASSUME TypeOK, NEW S, NEW t \in Seq(Packets(Answers)), SendPackets(S, t)
    PROVE  /\ in' \in [Windows -> Seq(Packets(Answers))]
           /\ \A w \in Windows : /\ w \in S /\ Up(w) => in'[w] = in[w] \o t
                                 /\ ~(w \in S /\ Up(w)) => in'[w] = in[w]
<1>1. \A w \in Windows : in[w] \in Seq(Packets(Answers))
  BY DEF TypeOK
<1>2. \A w \in Windows : in[w] \o t \in Seq(Packets(Answers))
  BY <1>1, Concat
<1>3. \A w \in Windows : in'[w] = IF w \in S /\ Up(w) THEN in[w] \o t ELSE in[w]
  BY DEF SendPackets, Receiving, Up
<1> QED
  BY <1>1, <1>2, <1>3 DEF SendPackets, Receiving

\* Nothing, and packets that tell the others nothing of their sessions.
LEMMA AddsNothing ==
    ASSUME TypeOK, NEW c, NEW w \in Windows, in'[w] = in[w]
    PROVE  Adds(c, w, <<>>)
<1>1. in[w] \in Seq(Packets(Answers))
  BY DEF TypeOK
<1>2. <<>> \in Seq(Packets(Answers)) /\ 1 .. Len(<<>>) = {}
  OBVIOUS
<1>3. in'[w] = in[w] \o <<>>
  BY <1>1, EmptyAdd
<1> QED
  BY <1>2, <1>3 DEF Adds, Comes, Mute, NoneFrom

\* A packet without content tells another window nothing.
LEMMA AddsPlain ==
    ASSUME TypeOK, NEW c, NEW w \in Windows, NEW id \in Answers \ (Tells \cup {"S_CHAT"}),
           in'[w] = in[w] \o <<Plain(id)>>
    PROVE  Adds(c, w, <<Plain(id)>>)
<1>1. /\ <<Plain(id)>> \in Seq(Packets(Answers)) /\ Len(<<Plain(id)>>) = 1
      /\ <<Plain(id)>>[1].id = id
  BY PlainList
<1>2. \A i \in 1 .. Len(<<Plain(id)>>) : <<Plain(id)>>[i].id = id
  BY <1>1
<1> QED
  BY <1>1, <1>2 DEF Adds, Comes, Mute, NoneFrom

-----------------------------------------------------------------------------
(* What remains to be shown of the client that takes the step              *)

\* The numbers above which no message of c for window w is yet.
Pend(c, w) ==
    {said[c] + 1} \cup {out[c][i].n : i \in Chats(out[c])}
    \cup (IF Does(c, "send") /\ w \in Head(work[c]).to THEN {Head(work[c]).packet.n}
                                                      ELSE {})

\* OrderOf in terms of the pending numbers.
LEMMA PendOrder ==
    ASSUME NEW c, NEW w
    PROVE  OrderOf(w, c) <=> \A n \in Pend(c, w) : Below(chatLines[w], in[w], c, n)
  BY DEF OrderOf, Pend

\* The predicates of c, and of the pairs it belongs to.
Own(c) ==
    /\ PlanOf(c)' /\ AskOf(c)'
    /\ \A w \in Windows : CopyOf(c, w)' /\ OrderOf(w, c)'
    /\ c \in Windows => /\ LineOf(c)' /\ (c \notin late' => ViewOf(c)')
                        /\ Ordered(chatLines[c], in[c])'
                        /\ \A d \in Clients : CopyOf(d, c)' /\ OrderOf(c, d)'

ClientsInv == PlanInv /\ ViewInv /\ CopyInv /\ LineInv /\ AskInv /\ OrderInv

\* The invariant, from the predicates of c and what c adds for the others.
LEMMA OwnKeeps ==
    ASSUME ChatInv, NEW c \in Clients, Others(c),
           \A w \in Windows \ {c} : \E t : Adds(c, w, t), Own(c)
    PROVE  ClientsInv'
<1>1. OthersHold(c)
  BY OthersKeep
<1>2. PlanInv'
  BY <1>1 DEF OthersHold, Own, PlanInv
<1>3. AskInv'
  BY <1>1 DEF OthersHold, Own, AskInv
<1>4. ViewInv'
  BY <1>1, Windowed DEF OthersHold, Own, ViewInv
<1>5. LineInv'
  BY <1>1, Windowed DEF OthersHold, Own, LineInv
<1>6. CopyInv'
  BY <1>1, Windowed DEF OthersHold, Own, CopyInv
<1>7. OrderInv'
  BY <1>1, Windowed DEF OthersHold, Own, OrderInv
<1> QED
  BY <1>2, <1>3, <1>4, <1>5, <1>6, <1>7 DEF ClientsInv

\* The requests of c after one of them is taken up or all are lost.
LEMMA FewerAsked ==
    ASSUME TypeOK, NEW c \in Clients, AskOf(c), said'[c] = said[c], ~Does(c, "send")',
           \/ out'[c] = out[c]
           \/ out[c] # <<>> /\ out'[c] = Tail(out[c])
           \/ out'[c] = <<>>
    PROVE  AskOf(c)' /\ \A w : Pend(c, w)' \subseteq Pend(c, w)
<1> DEFINE s == out[c]
           t == out'[c]
<1>1. s \in Seq(Packets(Requests))
  BY DEF TypeOK
<1>2. \E k \in {0, 1} : \A i \in Chats(t) : i + k \in Chats(s) /\ t[i] = s[i + k]
  <2>1. CASE t = s
    <3>1. \A i \in Chats(s) : i + 0 = i
      BY <1>1 DEF Chats
    <3> QED
      BY <2>1, <3>1
  <2>2. CASE s # <<>> /\ t = Tail(s)
    <3> HIDE DEF s, t
    <3>1. /\ Len(s) \in Nat \ {0} /\ Len(t) = Len(s) - 1
          /\ \A i \in 1 .. Len(s) - 1 : t[i] = s[i + 1]
      BY <1>1, <2>2, Rest
    <3>2. \A i \in Chats(t) : i + 1 \in Chats(s) /\ t[i] = s[i + 1]
      BY <3>1 DEF Chats
    <3> QED
      BY <3>2
  <2>3. CASE t = <<>>
    <3>1. Chats(<<>>) = {}
      BY DEF Chats
    <3> QED
      BY <2>3, <3>1
  <2> QED
    BY <2>1, <2>2, <2>3
<1>3. PICK k \in {0, 1} : \A i \in Chats(t) : i + k \in Chats(s) /\ t[i] = s[i + k]
  BY <1>2
<1>4. \A i \in Chats(t) : t[i].n <= said[c]
  BY <1>3 DEF AskOf
<1>5. \A i, j \in Chats(t) : i < j => t[i].n < t[j].n
  <2>1. \A i \in Chats(t) : i \in Nat
    BY DEF Chats
  <2>2. \A i, j \in Chats(t) : i < j => i + k < j + k
    BY <2>1
  <2> QED
    BY <1>3, <2>2 DEF AskOf
<1>6. AskOf(c)'
  BY <1>4, <1>5 DEF AskOf
<1>7. {t[i].n : i \in Chats(t)} \subseteq {s[i].n : i \in Chats(s)}
  BY <1>3
<1>8. ASSUME NEW w PROVE Pend(c, w)' \subseteq Pend(c, w)
  <2>1. Pend(c, w)' = {said[c] + 1} \cup {t[i].n : i \in Chats(t)}
    BY DEF Pend
  <2> QED
    BY <1>7, <2>1 DEF Pend
<1> QED
  BY <1>6, <1>8

\* A step of the thread that works for session c.
LEMMA SessionKeeps ==
    ASSUME ChatInv, NEW c \in Clients, Others(c),
           \A w \in Windows : chatLines'[w] = chatLines[w],
           \A w \in Windows : \E t : /\ Comes(c, w, t) /\ (w # c => Mute(t))
                                     /\ \A i \in 1 .. Len(t) : t[i].id = "S_CHAT" =>
                                           \A n \in Pend(c, w)' : t[i].n < n,
           \A w \in Windows : Pend(c, w)' \subseteq Pend(c, w),
           PlanOf(c)', AskOf(c)', \A w \in Windows : CopyOf(c, w)',
           c \in Windows => /\ LineOf(c)' /\ (c \notin late' => ViewOf(c)')
                            /\ \A d \in Clients \ {c} : CopyOf(d, c)'
    PROVE  ClientsInv'
<1>1. TypeOK /\ OrderInv
  BY DEF ChatInv
<1>2. \A w \in Windows \ {c} : \E t : Adds(c, w, t)
  BY DEF Adds
<1>3. ASSUME NEW w \in Windows
      PROVE  /\ Ordered(chatLines[w], in[w])' /\ OrderOf(w, c)'
             /\ w = c => \A d \in Clients \ {c} : OrderOf(w, d)'
  <2>1. PICK t : /\ Comes(c, w, t)
                 /\ \A i \in 1 .. Len(t) : t[i].id = "S_CHAT" =>
                       \A n \in Pend(c, w)' : t[i].n < n
    OBVIOUS
  <2>2. /\ Ordered(chatLines[w], in[w]) => Ordered(chatLines[w], in[w])'
        /\ \A d, n : d # c /\ Below(chatLines[w], in[w], d, n)
                           => Below(chatLines'[w], in'[w], d, n)
        /\ \A n : Below(chatLines[w], in[w], c, n)
                     /\ (\A i \in 1 .. Len(t) : t[i].id = "S_CHAT" => t[i].n < n)
                        => Below(chatLines'[w], in'[w], c, n)
    BY <1>1, <2>1, AddsOrder
  <2>3. Ordered(chatLines[w], in[w])'
    BY <1>1, <2>2 DEF OrderInv
  <2>4. \A n \in Pend(c, w) : Below(chatLines[w], in[w], c, n)
    BY <1>1, PendOrder DEF OrderInv
  <2>5. \A n \in Pend(c, w)' : Below(chatLines'[w], in'[w], c, n)
    BY <2>1, <2>2, <2>4
  <2>6. OrderOf(w, c)'
    BY <2>5 DEF OrderOf, Pend
  <2>7. ASSUME NEW d \in Clients \ {c} PROVE OrderOf(w, d)'
    <3>1. OrderOf(w, d)
      BY <1>1 DEF OrderInv
    <3> QED
      BY <2>2, <3>1 DEF Others, OrderOf, Does
  <2> QED
    BY <2>3, <2>6, <2>7
<1>4. Own(c)
  BY <1>3 DEF Own
<1> QED
  BY <1>2, <1>4, OwnKeeps

-----------------------------------------------------------------------------
(* The types of what the handlers make                                     *)

\* The items of the handlers.
LEMMA ItemTypes ==
    /\ \A op \in {"vacate", "occupy", "entered", "left", "gone"}, r \in Rooms \cup {0} :
          Item(op, r) \in Items
    /\ \A p \in Packets({"S_CHAT"}), S \in SUBSET Clients : Send(p, S) \in Items
    /\ Rooms \subseteq Nat /\ 0 \notin Rooms
<1>1. \A op \in {"vacate", "occupy", "entered", "left", "gone"}, r \in Rooms \cup {0} :
          Item(op, r) \in Items
  BY DEF Item, Items
<1>2. \A p \in Packets({"S_CHAT"}), S \in SUBSET Clients : Send(p, S) \in Items
  BY DEF Send, Items
<1> QED
  BY <1>1, <1>2, RoomsAssumption

\* The items that begin with leaving the room.
LEMMA Plans ==
    ASSUME TypeOK, NEW c \in Clients, NEW x \in Items, NEW y \in Items
    PROVE  /\ LeaveRoom(c) \o <<x>> = IF room[c] = 0 THEN <<x>>
                                      ELSE <<Item("vacate", room[c]), x>>
           /\ LeaveRoom(c) \o <<x, y>> = IF room[c] = 0 THEN <<x, y>>
                                         ELSE <<Item("vacate", room[c]), x, y>>
           /\ LeaveRoom(c) \o <<x>> \in Seq(Items) /\ LeaveRoom(c) \o <<x, y>> \in Seq(Items)
<1> DEFINE v == Item("vacate", room[c])
<1>1. v \in Items
  BY ItemTypes DEF TypeOK
<1> HIDE DEF v
<1>2. /\ <<v>> \o <<x>> = <<v, x>> /\ <<v>> \o <<x, y>> = <<v, x, y>>
      /\ <<>> \o <<x>> = <<x>> /\ <<>> \o <<x, y>> = <<x, y>>
      /\ <<x>> \in Seq(Items) /\ <<x, y>> \in Seq(Items)
      /\ <<v, x>> \in Seq(Items) /\ <<v, x, y>> \in Seq(Items)
  BY <1>1, Lists
<1>3. LeaveRoom(c) = IF room[c] = 0 THEN <<>> ELSE <<v>>
  BY DEF LeaveRoom, v
<1>4. CASE room[c] = 0
  BY <1>2, <1>3, <1>4
<1>5. CASE room[c] # 0
  BY <1>2, <1>3, <1>5 DEF v
<1> QED
  BY <1>4, <1>5

\* The head of what a session has to do, and of what it has received.
LEMMA HeadTypes ==
    ASSUME TypeOK, NEW c \in Clients
    PROVE  /\ work[c] \in Seq(Items)
           /\ work[c] # <<>> => Head(work[c]) \in Items /\ Tail(work[c]) \in Seq(Items)
           /\ out[c] \in Seq(Packets(Requests))
           /\ out[c] # <<>> => /\ Head(out[c]) \in Packets(Requests)
                               /\ Tail(out[c]) \in Seq(Packets(Requests))
<1>1. work[c] \in Seq(Items) /\ out[c] \in Seq(Packets(Requests))
  BY DEF TypeOK
<1> QED
  BY <1>1, Rest

-----------------------------------------------------------------------------
(* The types, counters and links after a step of the server                *)

\* The parts of TypeOK that a step of session c may change.
ServerTypes ==
    /\ link \in [Clients -> Links]
    /\ in \in [Windows -> Seq(Packets(Answers))]
    /\ out \in [Clients -> Seq(Packets(Requests))]
    /\ isConnected \in [Clients -> BOOLEAN]
    /\ authenticated \in [Clients -> BOOLEAN]
    /\ room \in [Clients -> Rooms \cup {0}]
    /\ nicknames \subseteq Clients
    /\ work \in [Clients -> Seq(Items)]
    /\ overlap \in [Windows -> SUBSET Clients]

\* The types of what the server changes.
LEMMA ServerTyped ==
    ASSUME TypeOK, UNCHANGED <<window, loop>>, ServerTypes'
    PROVE  TypeOK'
  BY DEF TypeOK, ServerTypes, window, loop

\* A request that is answered at once.
LEMMA AnswerTyped ==
    ASSUME TypeOK, NEW c \in Clients, NEW id \in Answers, Answer(c, id)
    PROVE  /\ in' \in [Windows -> Seq(Packets(Answers))]
           /\ authenticated' = authenticated /\ nicknames' = nicknames /\ work' = work
           /\ \A w \in Windows : /\ w = c /\ Up(c) => in'[w] = in[w] \o <<Plain(id)>>
                                 /\ ~(w = c /\ Up(c)) => in'[w] = in[w]
<1>1. <<Plain(id)>> \in Seq(Packets(Answers))
  BY PlainList
<1>2. SendPackets({c}, <<Plain(id)>>)
  BY DEF Answer, SendPacket
<1>3. /\ in' \in [Windows -> Seq(Packets(Answers))]
      /\ \A w \in Windows : /\ w \in {c} /\ Up(w) => in'[w] = in[w] \o <<Plain(id)>>
                            /\ ~(w \in {c} /\ Up(w)) => in'[w] = in[w]
  BY <1>1, <1>2, Sent
<1> QED
  BY <1>3 DEF Answer

\* A request that takes several items.
LEMMA BeginTyped ==
    ASSUME TypeOK, NEW c \in Clients, NEW items \in Seq(Items), Begin(c, items)
    PROVE  /\ work' \in [Clients -> Seq(Items)] /\ work'[c] = items
           /\ in' = in /\ authenticated' = authenticated /\ nicknames' = nicknames
  BY DEF Begin, Todo, TypeOK

\* What is common to the handlers.
LEMMA HandlesTyped ==
    ASSUME TypeOK, NEW c \in Clients, NEW id, Handles(c, id)
    PROVE  /\ out' \in [Clients -> Seq(Packets(Requests))]
           /\ out[c] # <<>> /\ out'[c] = Tail(out[c])
           /\ isConnected[c] /\ work[c] = <<>>
           /\ link' = link /\ isConnected' = isConnected /\ room' = room
           /\ overlap' = overlap /\ UNCHANGED <<window, loop, counts>>
           /\ \A d \in Clients \ {c} : out'[d] = out[d]
<1>1. Tail(out[c]) \in Seq(Packets(Requests))
  BY HeadTypes DEF Handles
<1>2. out' = [out EXCEPT ![c] = Tail(out[c])] /\ out[c] # <<>>
  BY DEF Handles
<1> QED
  BY <1>1, <1>2 DEF Handles, TypeOK

-----------------------------------------------------------------------------
(* The handlers of the server                                              *)

\* The counters, when nothing is asked or lost.
LEMMA CountsStay ==
    ASSUME CountInv, LinkInv, UNCHANGED <<link, isConnected, window, loop, counts>>
    PROVE  CountInv' /\ LinkInv'
<1>1. CountInv'
  BY DEF CountInv, Lost, loop, counts
<1>2. LinkInv'
  BY DEF LinkInv, window, loop
<1> QED
  BY <1>1, <1>2

\* The parts of the invariant that are about one client.
LEMMA Parts ==
    ASSUME ChatInv, NEW c \in Clients
    PROVE  /\ TypeOK /\ CountInv /\ LinkInv /\ PlanOf(c) /\ AskOf(c)
           /\ \A w \in Windows : CopyOf(c, w) /\ OrderOf(w, c)
           /\ c \in Windows => /\ LineOf(c) /\ (c \notin late => ViewOf(c))
                               /\ Ordered(chatLines[c], in[c])
                               /\ \A d \in Clients : CopyOf(d, c) /\ OrderOf(c, d)
<1>1. TypeOK /\ CountInv /\ LinkInv /\ PlanOf(c) /\ AskOf(c)
  BY DEF ChatInv, PlanInv, AskInv
<1>2. \A w \in Windows : CopyOf(c, w) /\ OrderOf(w, c)
  BY DEF ChatInv, CopyInv, OrderInv
<1>3. c \in Windows => /\ LineOf(c) /\ (c \notin late => ViewOf(c))
                       /\ Ordered(chatLines[c], in[c])
                       /\ \A d \in Clients : CopyOf(d, c) /\ OrderOf(c, d)
  BY DEF ChatInv, LineInv, ViewInv, CopyInv, OrderInv
<1> QED
  BY <1>1, <1>2, <1>3

\* One packet without content, or none, is added to those of each window.
LEMMA PlainAdded ==
    ASSUME TypeOK, NEW c \in Clients, NEW id \in Answers \ (Tells \cup {"S_CHAT"}),
           NEW w \in Windows, in'[w] = in[w] \/ in'[w] = in[w] \o <<Plain(id)>>
    PROVE  \E t : Adds(c, w, t) /\ \A i \in 1 .. Len(t) : t[i].id # "S_CHAT"
<1>1. CASE in'[w] = in[w]
  <2>1. Adds(c, w, <<>>)
    BY <1>1, AddsNothing
  <2>2. 1 .. Len(<<>>) = {}
    OBVIOUS
  <2> QED
    BY <2>1, <2>2
<1>2. CASE in'[w] = in[w] \o <<Plain(id)>>
  <2>1. Adds(c, w, <<Plain(id)>>)
    BY <1>2, AddsPlain
  <2>2. Len(<<Plain(id)>>) = 1 /\ <<Plain(id)>>[1].id = id
    BY PlainList
  <2>3. \A i \in 1 .. Len(<<Plain(id)>>) : <<Plain(id)>>[i].id # "S_CHAT"
    BY <2>2
  <2> QED
    BY <2>1, <2>3
<1> QED
  BY <1>1, <1>2

\* A packet that is answered at once.
LEMMA AnswerKeeps ==
    ASSUME ChatInv, NEW c \in Clients, NEW id, Handles(c, id),
           NEW a \in Answers \ (Tells \cup {"S_CHAT"}), Answer(c, a)
    PROVE  ChatInv'
<1>1. /\ TypeOK /\ CountInv /\ LinkInv /\ PlanOf(c) /\ AskOf(c)
      /\ \A w \in Windows : CopyOf(c, w) /\ OrderOf(w, c)
      /\ c \in Windows => /\ LineOf(c) /\ (c \notin late => ViewOf(c))
                          /\ \A d \in Clients : CopyOf(d, c)
  BY Parts
<1>2. /\ out' \in [Clients -> Seq(Packets(Requests))]
      /\ out[c] # <<>> /\ out'[c] = Tail(out[c])
      /\ isConnected[c] /\ work[c] = <<>>
      /\ link' = link /\ isConnected' = isConnected /\ room' = room
      /\ overlap' = overlap /\ UNCHANGED <<window, loop, counts>>
      /\ \A d \in Clients \ {c} : out'[d] = out[d]
  BY <1>1, HandlesTyped
<1>3. /\ in' \in [Windows -> Seq(Packets(Answers))]
      /\ authenticated' = authenticated /\ nicknames' = nicknames /\ work' = work
      /\ \A w \in Windows : in'[w] = in[w] \/ in'[w] = in[w] \o <<Plain(a)>>
  BY <1>1, AnswerTyped
<1>4. TypeOK'
  BY <1>1, <1>2, <1>3, ServerTyped DEF ServerTypes, TypeOK
<1>5. CountInv' /\ LinkInv'
  BY <1>1, <1>2, CountsStay
<1>6. Others(c)
  BY <1>2, <1>3 DEF Others, window, loop, counts
<1>7. \A w \in Windows :
         \E t : Adds(c, w, t) /\ \A i \in 1 .. Len(t) : t[i].id # "S_CHAT"
  BY <1>1, <1>3, PlainAdded
<1>8. ~Does(c, "send")'
  BY <1>2, <1>3 DEF Does
<1>9. AskOf(c)' /\ \A w \in Windows : Pend(c, w)' \subseteq Pend(c, w)
  BY <1>1, <1>2, <1>8, FewerAsked DEF counts
<1>10. PlanOf(c)'
  BY <1>1, <1>2, <1>3 DEF PlanOf, Sending1, Entering, Leaving, Closing
<1>11. \A w \in Windows : CopyOf(c, w)'
  BY <1>8 DEF CopyOf
<1>12. ASSUME c \in Windows
       PROVE  LineOf(c)' /\ (c \notin late' => ViewOf(c)')
  <2>1. PICK t : Adds(c, c, t)
    BY <1>7, <1>12
  <2>2. (Up(c)' => Up(c)) /\ (Told(c)' => Told(c))
    BY <1>2, <1>3 DEF Up, Told, Does
  <2>3. LineOf(c)'
    BY <1>1, <1>2, <1>12, <2>1, <2>2, AddsLines DEF window
  <2>4. c \notin late' => ViewOf(c)'
    BY <1>1, <1>2, <1>3, <1>12, <2>1, <2>2, AddsView DEF window, loop
  <2> QED
    BY <2>3, <2>4
<1>13. c \in Windows => \A d \in Clients \ {c} : CopyOf(d, c)'
  BY <1>1, <1>2, <1>3 DEF CopyOf, Does
<1>14. \A w \in Windows : chatLines'[w] = chatLines[w]
  BY <1>2 DEF window
<1>15. \A w \in Windows : \E t : /\ Comes(c, w, t) /\ (w # c => Mute(t))
                                 /\ \A i \in 1 .. Len(t) : t[i].id = "S_CHAT" =>
                                       \A n \in Pend(c, w)' : t[i].n < n
  BY <1>7 DEF Adds
<1>16. ClientsInv'
  BY <1>6, <1>9, <1>10, <1>11, <1>12, <1>13, <1>14, <1>15, SessionKeeps
<1> QED
  BY <1>4, <1>5, <1>16 DEF ChatInv, ClientsInv

\* A packet whose handler starts on its items.
LEMMA BeginKeeps ==
    ASSUME ChatInv, NEW c \in Clients, NEW id, Handles(c, id),
           NEW items \in Seq(Items), Begin(c, items), PlanOf(c)', AskOf(c)',
           \A w \in Windows : CopyOf(c, w)' /\ Pend(c, w)' \subseteq Pend(c, w)
    PROVE  ChatInv'
<1>1. /\ TypeOK /\ CountInv /\ LinkInv
      /\ c \in Windows => /\ LineOf(c) /\ (c \notin late => ViewOf(c))
                          /\ \A d \in Clients : CopyOf(d, c)
  BY Parts
<1>2. /\ out' \in [Clients -> Seq(Packets(Requests))]
      /\ isConnected[c] /\ work[c] = <<>>
      /\ link' = link /\ isConnected' = isConnected /\ room' = room
      /\ overlap' = overlap /\ UNCHANGED <<window, loop, counts>>
      /\ \A d \in Clients \ {c} : out'[d] = out[d]
  BY <1>1, HandlesTyped
<1>3. /\ work' \in [Clients -> Seq(Items)]
      /\ in' = in /\ authenticated' = authenticated /\ nicknames' = nicknames
      /\ \A d \in Clients \ {c} : work'[d] = work[d]
  <2>1. /\ work' \in [Clients -> Seq(Items)]
        /\ in' = in /\ authenticated' = authenticated /\ nicknames' = nicknames
    BY <1>1, BeginTyped
  <2> QED
    BY <1>1, <2>1 DEF Begin, Todo, TypeOK
<1>4. TypeOK'
  BY <1>1, <1>2, <1>3, ServerTyped DEF ServerTypes, TypeOK
<1>5. CountInv' /\ LinkInv'
  BY <1>1, <1>2, CountsStay
<1>6. Others(c)
  BY <1>2, <1>3 DEF Others, window, loop, counts
<1>7. \A w \in Windows : Adds(c, w, <<>>)
  BY <1>1, <1>3, AddsNothing
<1>8. 1 .. Len(<<>>) = {}
  OBVIOUS
<1>9. ASSUME c \in Windows
      PROVE  LineOf(c)' /\ (c \notin late' => ViewOf(c)')
  <2>1. (Up(c)' => Up(c)) /\ (Told(c)' => Told(c))
    BY <1>2 DEF Up, Told
  <2>2. LineOf(c)'
    BY <1>1, <1>2, <1>7, <1>9, <2>1, AddsLines DEF window
  <2>3. c \notin late' => ViewOf(c)'
    BY <1>1, <1>2, <1>3, <1>7, <1>9, <2>1, AddsView DEF window, loop
  <2> QED
    BY <2>2, <2>3
<1>10. c \in Windows => \A d \in Clients \ {c} : CopyOf(d, c)'
  BY <1>1, <1>2, <1>3 DEF CopyOf, Does
<1>11. \A w \in Windows : chatLines'[w] = chatLines[w]
  BY <1>2 DEF window
<1>12. \A w \in Windows : \E t : /\ Comes(c, w, t) /\ (w # c => Mute(t))
                                 /\ \A i \in 1 .. Len(t) : t[i].id = "S_CHAT" =>
                                       \A n \in Pend(c, w)' : t[i].n < n
  BY <1>7, <1>8 DEF Adds
<1>13. ClientsInv'
  BY <1>6, <1>9, <1>10, <1>11, <1>12, SessionKeeps
<1> QED
  BY <1>4, <1>5, <1>13 DEF ChatInv, ClientsInv

LEMMA RoomListKeeps ==
    ASSUME ChatInv, NEW c \in Clients, HandleRoomList(c) PROVE ChatInv'
<1>1. Handles(c, "C_ROOM_LIST_REQ")
  BY DEF HandleRoomList
<1>2. Answer(c, "LIST") \/ Answer(c, "S_ERROR")
  BY DEF HandleRoomList
<1>3. /\ "LIST" \in Answers \ (Tells \cup {"S_CHAT"})
      /\ "S_ERROR" \in Answers \ (Tells \cup {"S_CHAT"})
  BY DEF Answers, Tells
<1> QED
  BY <1>1, <1>2, <1>3, AnswerKeeps

\* A plan whose head is not a broadcast.
LEMMA NoSend ==
    ASSUME TypeOK, NEW c \in Clients, AskOf(c), said'[c] = said[c],
           work'[c] = <<>> \/ Head(work'[c]).op # "send",
           \/ out'[c] = out[c]
           \/ out[c] # <<>> /\ out'[c] = Tail(out[c])
           \/ out'[c] = <<>>
    PROVE  /\ ~Does(c, "send")' /\ AskOf(c)'
           /\ \A w \in Windows : CopyOf(c, w)' /\ Pend(c, w)' \subseteq Pend(c, w)
<1>1. ~Does(c, "send")'
  BY DEF Does
<1>2. AskOf(c)' /\ \A w \in Windows : Pend(c, w)' \subseteq Pend(c, w)
  BY <1>1, FewerAsked
<1> QED
  BY <1>1, <1>2 DEF CopyOf

LEMMA EnterKeeps ==
    ASSUME ChatInv, NEW c \in Clients, HandleEnterRoom(c) PROVE ChatInv'
<1> DEFINE r == Head(out[c]).room
           x == Item("occupy", r)
           y == Item("entered", r)
           v == Item("vacate", room[c])
<1>1. TypeOK /\ PlanOf(c) /\ AskOf(c)
  BY Parts
<1>2. Handles(c, "C_ROOM_ENTER_REQ")
  BY DEF HandleEnterRoom
<1>3. /\ out[c] # <<>> /\ out'[c] = Tail(out[c]) /\ isConnected[c] /\ work[c] = <<>>
      /\ isConnected' = isConnected /\ room' = room /\ said'[c] = said[c]
  BY <1>1, <1>2, HandlesTyped DEF counts
<1>4. CASE authenticated[c] /\ r \in Rooms /\ Begin(c, LeaveRoom(c) \o <<x, y>>)
  <2>1. x \in Items /\ y \in Items
    BY <1>4, ItemTypes
  <2> DEFINE items == LeaveRoom(c) \o <<x, y>>
  <2>2. items \in Seq(Items) /\ items = IF room[c] = 0 THEN <<x, y>> ELSE <<v, x, y>>
    BY <1>1, <2>1, Plans
  <2>3. Begin(c, items)
    BY <1>4
  <2> HIDE DEF items
  <2>4. work'[c] = items /\ authenticated' = authenticated
    BY <1>1, <2>2, <2>3, BeginTyped
  <2>5. PlanOf(c)'
    <3>1. Entering(c)'
      <4>1. CASE room[c] = 0
        BY <1>3, <1>4, <2>2, <2>4, <4>1 DEF Entering
      <4>2. CASE room[c] # 0
        BY <1>3, <1>4, <2>2, <2>4, <4>2 DEF Entering
      <4> QED
        BY <4>1, <4>2
    <3> QED
      BY <1>3, <1>4, <2>4, <3>1 DEF PlanOf
  <2>6. Head(work'[c]).op # "send"
    <3>1. Head(items) = x \/ Head(items) = v
      <4> HIDE DEF x, y, v
      <4> QED
        BY <2>2, Heads
    <3> QED
      BY <2>4, <3>1, ItemOps
  <2>7. AskOf(c)' /\ \A w \in Windows : CopyOf(c, w)' /\ Pend(c, w)' \subseteq Pend(c, w)
    BY <1>1, <1>3, <2>6, NoSend
  <2> QED
    BY <1>2, <2>2, <2>3, <2>5, <2>7, BeginKeeps
<1>5. CASE Answer(c, "ENTER_FAIL")
  <2>1. "ENTER_FAIL" \in Answers \ (Tells \cup {"S_CHAT"})
    BY DEF Answers, Tells
  <2> QED
    BY <1>2, <1>5, <2>1, AnswerKeeps
<1> QED
  BY <1>4, <1>5 DEF HandleEnterRoom

LEMMA LeaveKeeps ==
    ASSUME ChatInv, NEW c \in Clients, HandleLeaveRoom(c) PROVE ChatInv'
<1> DEFINE x == Item("left", room[c])
           v == Item("vacate", room[c])
<1>1. TypeOK /\ PlanOf(c) /\ AskOf(c)
  BY Parts
<1>2. Handles(c, "C_ROOM_LEAVE_REQ")
  BY DEF HandleLeaveRoom
<1>3. /\ out[c] # <<>> /\ out'[c] = Tail(out[c]) /\ isConnected[c] /\ work[c] = <<>>
      /\ isConnected' = isConnected /\ room' = room /\ said'[c] = said[c]
  BY <1>1, <1>2, HandlesTyped DEF counts
<1>4. CASE room[c] # 0 /\ Begin(c, LeaveRoom(c) \o <<x>>)
  <2>1. x \in Items
    BY <1>1, ItemTypes DEF TypeOK
  <2> DEFINE items == LeaveRoom(c) \o <<x>>
  <2>2. items \in Seq(Items) /\ items = <<v, x>>
    BY <1>1, <1>4, <2>1, Plans
  <2>3. Begin(c, items)
    BY <1>4
  <2> HIDE DEF items
  <2>4. work'[c] = items /\ authenticated' = authenticated
    BY <1>1, <2>2, <2>3, BeginTyped
  <2>5. PlanOf(c)'
    <3>1. authenticated[c]
      BY <1>1, <1>4 DEF PlanOf, TypeOK
    <3>2. Leaving(c)'
      BY <1>3, <1>4, <2>2, <2>4, <3>1 DEF Leaving
    <3> QED
      BY <1>3, <2>4, <3>1, <3>2 DEF PlanOf
  <2>6. Head(work'[c]).op # "send"
    <3>1. Head(items) = v
      <4> HIDE DEF x, v
      <4> QED
        BY <2>2, Heads
    <3> QED
      BY <2>4, <3>1, ItemOps
  <2>7. AskOf(c)' /\ \A w \in Windows : CopyOf(c, w)' /\ Pend(c, w)' \subseteq Pend(c, w)
    BY <1>1, <1>3, <2>6, NoSend
  <2> QED
    BY <1>2, <2>2, <2>3, <2>5, <2>7, BeginKeeps
<1>5. CASE Answer(c, "LEAVE_FAIL")
  <2>1. "LEAVE_FAIL" \in Answers \ (Tells \cup {"S_CHAT"})
    BY DEF Answers, Tells
  <2> QED
    BY <1>2, <1>5, <2>1, AnswerKeeps
<1> QED
  BY <1>4, <1>5 DEF HandleLeaveRoom

LEMMA ChatKeeps ==
    ASSUME ChatInv, NEW c \in Clients, HandleChat(c) PROVE ChatInv'
<1> DEFINE s == out[c]
           p == Packet("S_CHAT", c, room[c], Head(s).n)
           x == Send(p, Members(room[c]))
<1>1. TypeOK /\ PlanOf(c) /\ AskOf(c)
  BY Parts
<1>2. Handles(c, "C_CHAT_REQ")
  BY DEF HandleChat
<1>3. /\ s # <<>> /\ out'[c] = Tail(s) /\ isConnected[c] /\ work[c] = <<>>
      /\ isConnected' = isConnected /\ room' = room /\ said' = said /\ overlap' = overlap
  BY <1>1, <1>2, HandlesTyped DEF counts
<1>4. CASE room[c] # 0 /\ Begin(c, <<x>>)
  <2>1. /\ p \in Packets({"S_CHAT"}) /\ p.from = c /\ p.room = room[c] /\ p.n = Head(s).n
        /\ p.id = "S_CHAT"
    <3>1. Head(s) \in Packets(Requests)
      BY <1>1, <1>3, HeadTypes
    <3>2. Head(s).n \in Said
      BY <3>1 DEF Packets
    <3> QED
      BY <1>1, <3>2 DEF Packet, Packets, TypeOK
  <2>2. x.op = "send" /\ x.packet = p /\ x.to = Members(room[c])
    BY DEF Send
  <2>3. x \in Sends(c) /\ x \in Items
    BY <1>4, <2>1, ItemTypes DEF Send, Sends, Members
  <2> HIDE DEF x
  <2>4. <<x>> \in Seq(Items) /\ <<x>> # <<>> /\ Head(<<x>>) = x
    BY <2>3, Lists
  <2>5. work'[c] = <<x>> /\ authenticated' = authenticated
    BY <1>1, <1>4, <2>4, BeginTyped
  <2>6. PlanOf(c)'
    <3>1. authenticated[c]
      BY <1>1, <1>4 DEF PlanOf, TypeOK
    <3>2. Sending1(c)'
      <4>1. Sends(c)' = Sends(c)
        BY DEF Sends
      <4> QED
        BY <1>3, <2>3, <2>5, <4>1 DEF Sending1
    <3> QED
      BY <1>3, <2>5, <3>1, <3>2 DEF PlanOf
  <2>7. ASSUME NEW w \in Windows PROVE CopyOf(c, w)'
    <3>1. w \in Members(room[c]) => room[w] = p.room
      BY <2>1 DEF Members
    <3> QED
      BY <1>3, <2>2, <2>4, <2>5, <3>1 DEF CopyOf, Of
  <2>8. /\ Len(s) \in Nat \ {0} /\ Head(s) = s[1] /\ s[1].id = "C_CHAT_REQ"
        /\ Len(Tail(s)) = Len(s) - 1
        /\ \A i \in 1 .. Len(s) - 1 : Tail(s)[i] = s[i + 1]
    <3>1. s \in Seq(Packets(Requests))
      BY <1>1 DEF TypeOK
    <3>2. Head(s).id = "C_CHAT_REQ"
      BY <1>2 DEF Handles
    <3> HIDE DEF s
    <3>3. Head(s) = s[1]
      BY <1>3, <3>1, Rest
    <3> QED
      BY <1>3, <3>1, <3>2, <3>3, Rest
  <2>9. /\ 1 \in Chats(s)
        /\ \A i \in Chats(Tail(s)) : i + 1 \in Chats(s) /\ i \in Nat \ {0} /\ Tail(s)[i] = s[i + 1]
    BY <2>8 DEF Chats
  <2>10. AskOf(c)'
    <3> DEFINE m == Tail(s)
    <3>1. /\ \A i \in Chats(s) : s[i].n <= said[c]
          /\ \A i, j \in Chats(s) : i < j => s[i].n < s[j].n
      BY <1>1 DEF AskOf
    <3>2. out'[c] = m /\ said'[c] = said[c] /\ Head(work'[c]).packet.n = s[1].n
      BY <1>3, <2>1, <2>2, <2>4, <2>5, <2>8
    <3>3. /\ 1 \in Chats(s)
          /\ \A i \in Chats(m) : i + 1 \in Chats(s) /\ i \in Nat \ {0} /\ m[i] = s[i + 1]
      BY <2>9
    <3> HIDE DEF s, m
    <3>4. s[1].n <= said[c]
      BY <3>1, <3>3
    <3>5. ASSUME NEW i \in Chats(m) PROVE s[1].n < m[i].n /\ m[i].n <= said[c]
      <4>1. i + 1 \in Chats(s) /\ 1 < i + 1 /\ m[i] = s[i + 1]
        BY <3>3
      <4> QED
        BY <3>1, <3>3, <4>1
    <3>6. ASSUME NEW i \in Chats(m), NEW j \in Chats(m), i < j PROVE m[i].n < m[j].n
      <4>1. /\ i + 1 \in Chats(s) /\ j + 1 \in Chats(s) /\ i + 1 < j + 1
            /\ m[i] = s[i + 1] /\ m[j] = s[j + 1]
        BY <3>3, <3>6
      <4> QED
        BY <3>1, <4>1
    <3> QED
      BY <3>2, <3>4, <3>5, <3>6 DEF AskOf
  <2>11. ASSUME NEW w \in Windows PROVE Pend(c, w)' \subseteq Pend(c, w)
    <3>1. Pend(c, w)' \subseteq {said[c] + 1} \cup {Tail(s)[i].n : i \in Chats(Tail(s))}
                                \cup {s[1].n}
      <4>1. out'[c] = Tail(s) /\ said'[c] = said[c] /\ Head(work'[c]).packet.n = s[1].n
        BY <1>3, <2>1, <2>2, <2>4, <2>5, <2>8
      <4> HIDE DEF s
      <4> QED
        BY <4>1 DEF Pend
    <3>2. {Tail(s)[i].n : i \in Chats(Tail(s))} \subseteq {s[i].n : i \in Chats(s)}
      BY <2>9
    <3>3. s[1].n \in {s[i].n : i \in Chats(s)}
      BY <2>9
    <3> QED
      BY <3>1, <3>2, <3>3 DEF Pend
  <2> QED
    BY <1>2, <1>4, <2>4, <2>6, <2>7, <2>10, <2>11, BeginKeeps
<1>5. CASE Answer(c, "S_ERROR")
  <2>1. "S_ERROR" \in Answers \ (Tells \cup {"S_CHAT"})
    BY DEF Answers, Tells
  <2> QED
    BY <1>2, <1>5, <2>1, AnswerKeeps
<1> QED
  BY <1>4, <1>5 DEF HandleChat

LEMMA LoginKeeps ==
    ASSUME ChatInv, NEW c \in Clients, HandleLogin(c) PROVE ChatInv'
<1> DEFINE t == <<Plain("LOGIN_OK"), Plain("LIST")>>
<1>1. /\ TypeOK /\ CountInv /\ LinkInv /\ PlanOf(c) /\ AskOf(c)
      /\ c \in Windows => /\ c \notin late => ViewOf(c)
                          /\ \A d \in Clients : CopyOf(d, c)
  BY Parts
<1>2. Handles(c, "C_LOGIN_REQ")
  BY DEF HandleLogin
<1>3. /\ out' \in [Clients -> Seq(Packets(Requests))]
      /\ out[c] # <<>> /\ out'[c] = Tail(out[c])
      /\ isConnected[c] /\ work[c] = <<>>
      /\ link' = link /\ isConnected' = isConnected /\ room' = room
      /\ overlap' = overlap /\ UNCHANGED <<window, loop, counts>>
      /\ \A d \in Clients \ {c} : out'[d] = out[d]
  BY <1>1, <1>2, HandlesTyped
<1>4. CASE /\ ~authenticated[c] /\ work' = work
           /\ authenticated' = [authenticated EXCEPT ![c] = TRUE]
           /\ nicknames' = nicknames \cup {c}
           /\ SendPackets({c}, t)
  <2>1. /\ t \in Seq(Packets(Answers)) /\ Len(t) = 2 /\ t # <<>>
        /\ t[1].id = "LOGIN_OK" /\ t[2].id = "LIST"
    <3>1. "LOGIN_OK" \in Answers /\ "LIST" \in Answers
      BY DEF Answers
    <3>2. /\ t \in Seq(Packets(Answers)) /\ Len(t) = 2
          /\ t[1].id = "LOGIN_OK" /\ t[2].id = "LIST"
      BY <3>1, PlainList
    <3>3. t # <<>>
      BY <3>2
    <3> QED
      BY <3>2, <3>3
  <2> HIDE DEF t
  <2>2. /\ in' \in [Windows -> Seq(Packets(Answers))]
        /\ \A w \in Windows : /\ w = c /\ Up(c) => in'[w] = in[w] \o t
                              /\ ~(w = c /\ Up(c)) => in'[w] = in[w]
    <3>1. /\ in' \in [Windows -> Seq(Packets(Answers))]
          /\ \A w \in Windows : /\ w \in {c} /\ Up(w) => in'[w] = in[w] \o t
                                /\ ~(w \in {c} /\ Up(w)) => in'[w] = in[w]
      BY <1>1, <1>4, <2>1, Sent
    <3> QED
      BY <3>1
  <2>3. TypeOK'
    BY <1>1, <1>3, <1>4, <2>2, ServerTyped DEF ServerTypes, TypeOK
  <2>4. CountInv' /\ LinkInv'
    BY <1>1, <1>3, CountsStay
  <2>5. room[c] = 0 /\ authenticated'[c]
    BY <1>1, <1>4 DEF PlanOf, TypeOK
  <2>6. Others(c)
    BY <1>3, <1>4 DEF Others, window, loop, counts
  <2>7. ~Does(c, "send")'
    BY <1>3, <1>4 DEF Does
  <2>8. AskOf(c)' /\ \A w \in Windows : Pend(c, w)' \subseteq Pend(c, w)
    BY <1>1, <1>3, <2>7, FewerAsked DEF counts
  <2>9. PlanOf(c)'
    BY <1>3, <1>4, <2>5 DEF PlanOf
  <2>10. \A w \in Windows : CopyOf(c, w)'
    BY <2>7 DEF CopyOf
  <2>11. \A w \in Windows : w # c \/ ~Up(c) => Adds(c, w, <<>>)
    BY <1>1, <2>2, AddsNothing
  <2>12. 1 .. Len(<<>>) = {} /\ \A i \in 1 .. Len(t) : t[i].id # "S_CHAT"
    BY <2>1
  <2>13. c \in Windows /\ Up(c) => Comes(c, c, t)
    BY <2>1, <2>2, <2>12 DEF Comes
  <2>14. \A w \in Windows : \E u : /\ Comes(c, w, u) /\ (w # c => Mute(u))
                                   /\ \A i \in 1 .. Len(u) : u[i].id = "S_CHAT" =>
                                         \A n \in Pend(c, w)' : u[i].n < n
    <3>1. TAKE w \in Windows
    <3>2. CASE w # c \/ ~Up(c)
      BY <2>11, <2>12, <3>2 DEF Adds
    <3>3. CASE w = c /\ Up(c)
      BY <2>12, <2>13, <3>3
    <3> QED
      BY <3>2, <3>3
  <2>15. ASSUME c \in Windows
         PROVE  LineOf(c)' /\ (c \notin late' => ViewOf(c)')
    <3>1. LineOf(c)'
      BY <1>3, <2>5 DEF LineOf
    <3>2. ASSUME c \notin late, Up(c) PROVE ViewOf(c)'
      <4>1. /\ Mute(in[c]) /\ view[c] = "login" /\ currentRoomId[c] = 0
        BY <1>1, <1>4, <2>15, <3>2 DEF ViewOf
      <4>2. in[c] \in Seq(Packets(Answers)) /\ in'[c] = in[c] \o t
        BY <1>1, <2>2, <2>15, <3>2 DEF TypeOK
      <4>3. NoneFrom(t, 2, {"LOGIN_OK"}) /\ NoneFrom(t, 2, Tells)
        BY <2>1 DEF NoneFrom, Tells
      <4>4. LoginFirst(in'[c], currentRoomId[c])
        BY <2>1, <4>1, <4>2, <4>3, LoginAdd
      <4>5. t[1].id \in Tells /\ Says(t[1], 0)
        BY <2>1 DEF Tells, Says
      <4>6. Agrees(in'[c], room[c], currentRoomId[c], view[c])
        BY <2>1, <2>5, <4>2, <4>3, <4>5, AgreesAdd
      <4> QED
        BY <1>3, <2>5, <4>4, <4>6 DEF ViewOf, window
    <3>3. ~Up(c) => ViewOf(c)'
      BY <1>3 DEF ViewOf, Up
    <3> QED
      BY <1>3, <3>1, <3>2, <3>3 DEF loop
  <2>16. c \in Windows => \A d \in Clients \ {c} : CopyOf(d, c)'
    BY <1>1, <1>3, <1>4 DEF CopyOf, Does
  <2>17. \A w \in Windows : chatLines'[w] = chatLines[w]
    BY <1>3 DEF window
  <2>18. ClientsInv'
    BY <2>6, <2>8, <2>9, <2>10, <2>14, <2>15, <2>16, <2>17, SessionKeeps
  <2> QED
    BY <2>3, <2>4, <2>18 DEF ChatInv, ClientsInv
<1>5. CASE Answer(c, "LOGIN_FAIL")
  <2>1. "LOGIN_FAIL" \in Answers \ (Tells \cup {"S_CHAT"})
    BY DEF Answers, Tells
  <2> QED
    BY <1>2, <1>5, <2>1, AnswerKeeps
<1> QED
  BY <1>4, <1>5 DEF HandleLogin

-----------------------------------------------------------------------------
(* The items of the handlers                                               *)

\* The items that are left when the first is done.
LEMMA DoneTyped ==
    ASSUME TypeOK, NEW c \in Clients, work[c] # <<>>, Done(c)
    PROVE  /\ work' \in [Clients -> Seq(Items)] /\ work'[c] = Tail(work[c])
           /\ \A d \in Clients \ {c} : work'[d] = work[d]
<1>1. Tail(work[c]) \in Seq(Items)
  BY HeadTypes
<1> QED
  BY <1>1 DEF Done, Todo, TypeOK

\* A list of items of a handler begins with no broadcast.
LEMMA TailNoSend ==
    ASSUME TypeOK, NEW c \in Clients, PlanOf(c), work[c] # <<>>,
           work'[c] = Tail(work[c])
    PROVE  work'[c] = <<>> \/ Head(work'[c]).op # "send"
<1>1. \A r, q : /\ Head(<<Item("occupy", r), Item("entered", q)>>).op = "occupy"
                /\ Head(<<Item("left", r)>>).op = "left"
                /\ Head(<<Item("gone", r)>>).op = "gone"
                /\ Head(<<Item("entered", r)>>).op = "entered"
  BY Heads, ItemOps
<1>2. Head(work[c]).op \in {"vacate", "occupy", "entered", "left", "gone", "send"}
  <2>1. Head(work[c]) \in Items
    BY HeadTypes
  <2> QED
    BY <2>1 DEF Items
<1>3. CASE Does(c, "vacate")
  BY <1>1, <1>3, PlanCases
<1>4. CASE Does(c, "occupy")
  BY <1>1, <1>4, PlanCases
<1>5. CASE Does(c, "entered") \/ Does(c, "left") \/ Does(c, "gone") \/ Does(c, "send")
  BY <1>5, PlanCases
<1> QED
  BY <1>2, <1>3, <1>4, <1>5 DEF Does

LEMMA VacateKeeps ==
    ASSUME ChatInv, NEW c \in Clients, Vacate(c) PROVE ChatInv'
<1> DEFINE S == Members(room[c]) \ {c}
<1>1. /\ TypeOK /\ CountInv /\ LinkInv /\ PlanOf(c) /\ AskOf(c) /\ PlanInv
      /\ c \in Windows => /\ c \notin late => ViewOf(c)
                          /\ \A d \in Clients : CopyOf(d, c)
  BY Parts DEF ChatInv
<1>2. /\ Does(c, "vacate") /\ work[c] # <<>>
      /\ link' = link /\ out' = out /\ isConnected' = isConnected
      /\ authenticated' = authenticated /\ nicknames' = nicknames
      /\ UNCHANGED <<window, loop, counts>>
      /\ room' = [room EXCEPT ![c] = 0]
      /\ overlap' = [w \in Windows |-> overlap[w] \cup IF w = c THEN Sending(c) ELSE {}]
  BY DEF Vacate, Does
<1>3. /\ work' \in [Clients -> Seq(Items)] /\ work'[c] = Tail(work[c])
      /\ \A d \in Clients \ {c} : work'[d] = work[d]
  BY <1>1, <1>2, DoneTyped DEF Vacate
<1>4. /\ in' \in [Windows -> Seq(Packets(Answers))]
      /\ \A w \in Windows : in'[w] = in[w] \/ in'[w] = in[w] \o <<Plain("NOTICE")>>
      /\ c \in Windows => in'[c] = in[c]
  <2>1. <<Plain("NOTICE")>> \in Seq(Packets(Answers))
    <3>1. "NOTICE" \in Answers
      BY DEF Answers
    <3> QED
      BY <3>1, PlainList
  <2>2. SendPackets(S, <<Plain("NOTICE")>>)
    BY DEF Vacate, SendPacket
  <2>3. c \notin S
    OBVIOUS
  <2> HIDE DEF S
  <2>4. /\ in' \in [Windows -> Seq(Packets(Answers))]
        /\ \A w \in Windows : /\ w \in S /\ Up(w) => in'[w] = in[w] \o <<Plain("NOTICE")>>
                              /\ ~(w \in S /\ Up(w)) => in'[w] = in[w]
    BY <1>1, <2>1, <2>2, Sent
  <2> QED
    BY <2>3, <2>4
<1>5. TypeOK'
  <2>1. overlap' \in [Windows -> SUBSET Clients] /\ room' \in [Clients -> Rooms \cup {0}]
    BY <1>1, <1>2 DEF Sending, TypeOK
  <2> QED
    BY <1>1, <1>2, <1>3, <1>4, <2>1, ServerTyped DEF ServerTypes, TypeOK
<1>6. CountInv' /\ LinkInv'
  BY <1>1, <1>2, CountsStay
<1>7. Others(c)
  <2>1. \A d \in Clients \ {c} : room'[d] = room[d]
    BY <1>1, <1>2 DEF TypeOK
  <2>2. \A w \in Windows \ {c} : overlap'[w] = overlap[w]
    BY <1>2
  <2> QED
    BY <1>2, <1>3, <2>1, <2>2 DEF Others, window, loop, counts
<1>8. \A w \in Windows :
         \E t : Adds(c, w, t) /\ \A i \in 1 .. Len(t) : t[i].id # "S_CHAT"
  <2>1. "NOTICE" \in Answers \ (Tells \cup {"S_CHAT"})
    BY DEF Answers, Tells
  <2> QED
    BY <1>1, <1>4, <2>1, PlainAdded
<1>9. /\ ~Does(c, "send")' /\ AskOf(c)'
      /\ \A w \in Windows : CopyOf(c, w)' /\ Pend(c, w)' \subseteq Pend(c, w)
  <2>1. work'[c] = <<>> \/ Head(work'[c]).op # "send"
    BY <1>1, <1>2, <1>3, TailNoSend
  <2> QED
    BY <1>1, <1>2, <2>1, NoSend DEF counts
<1>10. /\ room[c] \in Rooms /\ room'[c] = 0
  <2>1. room[c] # 0
    BY <1>1, <1>2, PlanCases
  <2> QED
    BY <1>1, <1>2, <2>1 DEF TypeOK
<1>11. PlanOf(c)' /\ work'[c] # <<>>
  <2>1. CASE /\ isConnected[c] /\ authenticated[c]
             /\ \E r \in Rooms : Tail(work[c]) = <<Item("occupy", r), Item("entered", r)>>
    <3>1. Entering(c)' /\ work'[c] # <<>>
      BY <1>2, <1>3, <1>10, <2>1, Heads DEF Entering
    <3> QED
      BY <1>2, <1>10, <2>1, <3>1 DEF PlanOf
  <2>2. CASE /\ isConnected[c] /\ authenticated[c]
             /\ Tail(work[c]) = <<Item("left", room[c])>>
    <3>1. Leaving(c)' /\ work'[c] # <<>>
      BY <1>2, <1>3, <1>10, <2>2, Heads DEF Leaving
    <3> QED
      BY <1>2, <1>10, <2>2, <3>1 DEF PlanOf
  <2>3. CASE ~isConnected[c] /\ Tail(work[c]) = <<Item("gone", 0)>>
    <3>1. Closing(c)' /\ work'[c] # <<>>
      BY <1>2, <1>3, <1>10, <2>3, Heads DEF Closing
    <3> QED
      BY <1>2, <1>10, <2>3, <3>1 DEF PlanOf
  <2> QED
    BY <1>1, <1>2, <2>1, <2>2, <2>3, PlanCases
<1>12. ~Told(c)'
  BY <1>9, <1>11 DEF Told
<1>13. ASSUME c \in Windows
       PROVE  LineOf(c)' /\ (c \notin late' => ViewOf(c)')
  BY <1>1, <1>2, <1>4, <1>12, <1>13 DEF LineOf, ViewOf, Up, window, loop
<1>14. ASSUME c \in Windows, NEW d \in Clients \ {c} PROVE CopyOf(d, c)'
  <2>1. ASSUME Does(d, "send"), c \in Head(work[d]).to
        PROVE  Of(Head(work[d]).packet, 0, overlap'[c])
    <3>1. d \in overlap'[c]
      BY <1>2, <1>14, <2>1 DEF Sending
    <3>2. PlanOf(d)
      BY <1>1 DEF PlanInv
    <3>3. Head(work[d]) \in Sends(d)
      BY <1>1, <2>1, <3>2, PlanCases
    <3>4. Head(work[d]).packet.from = d
      BY <3>3 DEF Sends
    <3> QED
      BY <3>1, <3>4 DEF Of
  <2> QED
    BY <1>3, <1>10, <2>1 DEF CopyOf, Does
<1>15. \A w \in Windows : chatLines'[w] = chatLines[w]
  BY <1>2 DEF window
<1>16. \A w \in Windows : \E t : /\ Comes(c, w, t) /\ (w # c => Mute(t))
                                 /\ \A i \in 1 .. Len(t) : t[i].id = "S_CHAT" =>
                                       \A n \in Pend(c, w)' : t[i].n < n
  BY <1>8 DEF Adds
<1>17. ClientsInv'
  BY <1>7, <1>9, <1>11, <1>13, <1>14, <1>15, <1>16, SessionKeeps
<1> QED
  BY <1>5, <1>6, <1>17 DEF ChatInv, ClientsInv

LEMMA OccupyKeeps ==
    ASSUME ChatInv, NEW c \in Clients, Occupy(c) PROVE ChatInv'
<1> DEFINE r == Head(work[c]).room
<1>1. /\ TypeOK /\ CountInv /\ LinkInv /\ PlanOf(c) /\ AskOf(c) /\ PlanInv
      /\ c \in Windows => /\ c \notin late => ViewOf(c)
                          /\ \A d \in Clients : CopyOf(d, c)
  BY Parts DEF ChatInv
<1>2. /\ Does(c, "occupy") /\ work[c] # <<>>
      /\ link' = link /\ in' = in /\ out' = out /\ isConnected' = isConnected
      /\ authenticated' = authenticated /\ nicknames' = nicknames
      /\ overlap' = overlap /\ UNCHANGED <<window, loop, counts>>
      /\ room' = [room EXCEPT ![c] = r]
  BY DEF Occupy, Does, links
<1>3. /\ work' \in [Clients -> Seq(Items)] /\ work'[c] = Tail(work[c])
      /\ \A d \in Clients \ {c} : work'[d] = work[d]
  BY <1>1, <1>2, DoneTyped DEF Occupy
<1>4. /\ room[c] = 0 /\ isConnected[c] /\ authenticated[c] /\ r \in Rooms
      /\ Tail(work[c]) = <<Item("entered", r)>>
  BY <1>1, <1>2, PlanCases
<1> HIDE DEF r
<1>5. TypeOK'
  BY <1>1, <1>2, <1>3, <1>4, ServerTyped DEF ServerTypes, TypeOK
<1>6. CountInv' /\ LinkInv'
  BY <1>1, <1>2, CountsStay
<1>7. Others(c)
  <2>1. \A d \in Clients \ {c} : room'[d] = room[d]
    BY <1>1, <1>2 DEF TypeOK
  <2> QED
    BY <1>2, <1>3, <2>1 DEF Others, window, loop, counts
<1>8. \A w \in Windows : Adds(c, w, <<>>)
  BY <1>1, <1>2, AddsNothing
<1>9. /\ ~Does(c, "send")' /\ AskOf(c)'
      /\ \A w \in Windows : CopyOf(c, w)' /\ Pend(c, w)' \subseteq Pend(c, w)
  <2>1. work'[c] = <<>> \/ Head(work'[c]).op # "send"
    BY <1>1, <1>2, <1>3, TailNoSend
  <2> QED
    BY <1>1, <1>2, <2>1, NoSend DEF counts
<1>10. room'[c] = r
  BY <1>1, <1>2 DEF TypeOK
<1>11. PlanOf(c)' /\ work'[c] # <<>>
  <2>1. Entering(c)' /\ work'[c] # <<>>
    BY <1>2, <1>3, <1>4, <1>10, Heads DEF Entering
  <2> QED
    BY <1>2, <1>4, <2>1 DEF PlanOf
<1>12. ~Told(c)'
  BY <1>9, <1>11 DEF Told
<1>13. ASSUME c \in Windows
       PROVE  LineOf(c)' /\ (c \notin late' => ViewOf(c)')
  BY <1>1, <1>2, <1>4, <1>12, <1>13 DEF LineOf, ViewOf, Up, window, loop
<1>14. ASSUME c \in Windows, NEW d \in Clients \ {c} PROVE CopyOf(d, c)'
  <2>1. ASSUME Does(d, "send"), c \in Head(work[d]).to
        PROVE  Of(Head(work[d]).packet, r, overlap[c])
    <3>1. Of(Head(work[d]).packet, 0, overlap[c])
      BY <1>1, <1>4, <1>14, <2>1 DEF CopyOf
    <3>2. PlanOf(d)
      BY <1>1 DEF PlanInv
    <3>3. Head(work[d]) \in Sends(d)
      BY <1>1, <2>1, <3>2, PlanCases
    <3>4. Head(work[d]).packet.room # 0
      BY <3>3 DEF Sends
    <3> QED
      BY <3>1, <3>4 DEF Of
  <2> QED
    BY <1>2, <1>3, <1>10, <2>1 DEF CopyOf, Does
<1>15. \A w \in Windows : chatLines'[w] = chatLines[w]
  BY <1>2 DEF window
<1>16. \A w \in Windows : \E t : /\ Comes(c, w, t) /\ (w # c => Mute(t))
                                 /\ \A i \in 1 .. Len(t) : t[i].id = "S_CHAT" =>
                                       \A n \in Pend(c, w)' : t[i].n < n
  <2>1. 1 .. Len(<<>>) = {}
    OBVIOUS
  <2> QED
    BY <1>8, <2>1 DEF Adds
<1>17. ClientsInv'
  BY <1>7, <1>9, <1>11, <1>13, <1>14, <1>15, <1>16, SessionKeeps
<1> QED
  BY <1>5, <1>6, <1>17 DEF ChatInv, ClientsInv

\* Steps of the session after which the connection is not up.
LEMMA EndKeeps ==
    ASSUME ChatInv, NEW c \in Clients, TypeOK', CountInv', LinkInv', Others(c), in' = in,
           PlanOf(c)', AskOf(c)', ~Does(c, "send")', ~isConnected'[c], room' = room,
           overlap' = overlap, UNCHANGED window,
           \A w \in Windows : Pend(c, w)' \subseteq Pend(c, w)
    PROVE  ChatInv'
<1>1. /\ TypeOK
      /\ c \in Windows => \A d \in Clients : CopyOf(d, c)
  BY Parts
<1>2. \A w \in Windows : Adds(c, w, <<>>)
  BY <1>1, AddsNothing
<1>3. \A w \in Windows : \E t : /\ Comes(c, w, t) /\ (w # c => Mute(t))
                                /\ \A i \in 1 .. Len(t) : t[i].id = "S_CHAT" =>
                                      \A n \in Pend(c, w)' : t[i].n < n
  <2>1. 1 .. Len(<<>>) = {}
    OBVIOUS
  <2> QED
    BY <1>2, <2>1 DEF Adds
<1>4. \A w \in Windows : CopyOf(c, w)'
  BY DEF CopyOf
<1>5. ASSUME c \in Windows PROVE LineOf(c)' /\ (c \notin late' => ViewOf(c)')
  BY DEF LineOf, ViewOf, Up
<1>6. ASSUME c \in Windows, NEW d \in Clients \ {c} PROVE CopyOf(d, c)'
  BY <1>1, <1>6 DEF CopyOf, Does, Others
<1>7. \A w \in Windows : chatLines'[w] = chatLines[w]
  BY DEF window
<1>8. ClientsInv'
  BY <1>3, <1>4, <1>5, <1>6, <1>7, SessionKeeps
<1> QED
  BY <1>8 DEF ChatInv, ClientsInv

LEMMA GoneKeeps ==
    ASSUME ChatInv, NEW c \in Clients, Gone(c) PROVE ChatInv'
<1>1. TypeOK /\ CountInv /\ LinkInv /\ PlanOf(c) /\ AskOf(c)
  BY Parts
<1>2. /\ Does(c, "gone") /\ work[c] # <<>>
      /\ in' = in /\ isConnected' = isConnected /\ room' = room
      /\ overlap' = overlap /\ UNCHANGED <<window, loop, counts>>
      /\ out' = [out EXCEPT ![c] = <<>>]
      /\ link' = [link EXCEPT ![c] = IF @ = "up" THEN "fin" ELSE @]
      /\ nicknames' \subseteq nicknames
      /\ authenticated' = [authenticated EXCEPT ![c] = FALSE]
  BY DEF Gone, Does
<1>3. /\ work' \in [Clients -> Seq(Items)] /\ work'[c] = Tail(work[c])
      /\ \A d \in Clients \ {c} : work'[d] = work[d]
  BY <1>1, <1>2, DoneTyped DEF Gone
<1>4. room[c] = 0 /\ ~isConnected[c] /\ Tail(work[c]) = <<>>
  BY <1>1, <1>2, PlanCases
<1>5. TypeOK'
  <2>1. out' \in [Clients -> Seq(Packets(Requests))]
    <3>1. <<>> \in Seq(Packets(Requests))
      OBVIOUS
    <3> QED
      BY <1>1, <1>2, <3>1 DEF TypeOK
  <2>2. link' \in [Clients -> Links] /\ nicknames' \subseteq Clients
    BY <1>1, <1>2 DEF TypeOK, Links
  <2> QED
    BY <1>1, <1>2, <1>3, <2>1, <2>2, ServerTyped DEF ServerTypes, TypeOK
<1>6. \A w \in Windows : /\ w # c => link'[w] = link[w]
                         /\ link[w] = "none" => link'[w] = "none"
                         /\ link'[w] = "up" => link[w] = "up"
  BY <1>1, <1>2, Windowed DEF TypeOK
<1>7. CountInv'
  <2>1. \A w \in Windows : Lost(w)' => Lost(w)
    BY <1>1, <1>2, <1>4, <1>6 DEF Lost, loop, TypeOK
  <2> QED
    BY <1>1, <1>2, <2>1 DEF CountInv, loop, counts, TypeOK
<1>8. LinkInv'
  BY <1>1, <1>2, <1>6 DEF LinkInv, window, loop, TypeOK
<1>9. Others(c)
  <2>1. \A d \in Clients \ {c} : /\ link'[d] = link[d] /\ out'[d] = out[d]
                                 /\ authenticated'[d] = authenticated[d]
    BY <1>1, <1>2 DEF TypeOK
  <2> QED
    BY <1>2, <1>3, <2>1 DEF Others, window, loop, counts
<1>10. out'[c] = <<>> /\ work'[c] = <<>> /\ authenticated'[c] = FALSE
  BY <1>1, <1>2, <1>3, <1>4 DEF TypeOK
<1>11. /\ ~Does(c, "send")' /\ AskOf(c)'
       /\ \A w \in Windows : CopyOf(c, w)' /\ Pend(c, w)' \subseteq Pend(c, w)
  BY <1>1, <1>2, <1>10, NoSend DEF counts
<1>12. PlanOf(c)'
  BY <1>2, <1>4, <1>10 DEF PlanOf
<1> QED
  BY <1>2, <1>4, <1>5, <1>7, <1>8, <1>9, <1>11, <1>12, EndKeeps

LEMMA DisconnectKeeps ==
    ASSUME ChatInv, NEW c \in Clients, ServerDisconnects(c) PROVE ChatInv'
<1> DEFINE x == Item("gone", 0)
           v == Item("vacate", room[c])
           items == LeaveRoom(c) \o <<x>>
<1>1. TypeOK /\ CountInv /\ LinkInv /\ PlanOf(c) /\ AskOf(c)
  BY Parts
<1>2. /\ isConnected[c] /\ work[c] = <<>>
      /\ in' = in /\ out' = out /\ link' = link /\ room' = room
      /\ authenticated' = authenticated /\ nicknames' = nicknames /\ overlap' = overlap
      /\ asked' = asked /\ said' = said /\ UNCHANGED <<window, loop>>
      /\ isConnected' = [isConnected EXCEPT ![c] = FALSE]
      /\ work' = [work EXCEPT ![c] = items]
      /\ Loses(c)
  BY DEF ServerDisconnects, Todo, links
<1>3. items \in Seq(Items) /\ items = IF room[c] = 0 THEN <<x>> ELSE <<v, x>>
  <2>1. x \in Items
    BY ItemTypes
  <2> QED
    BY <1>1, <2>1, Plans
<1>4. (Head(items) = x \/ Head(items) = v) /\ items # <<>>
  <2> HIDE DEF x, v, items
  <2> QED
    BY <1>3, Heads
<1> HIDE DEF items
<1>5. /\ work' \in [Clients -> Seq(Items)] /\ work'[c] = items
      /\ ~isConnected'[c] /\ isConnected' \in [Clients -> BOOLEAN]
      /\ \A d \in Clients \ {c} : work'[d] = work[d] /\ isConnected'[d] = isConnected[d]
  BY <1>1, <1>2, <1>3 DEF TypeOK
<1>6. TypeOK'
  BY <1>1, <1>2, <1>5, ServerTyped DEF ServerTypes, TypeOK
<1>7. CountInv'
  <2>1. losses' \in 0 .. MaxLosses /\ losses <= losses'
        /\ (link[c] = "up" => losses' = losses + 1)
    BY <1>1, <1>2, Bounds DEF CountInv, Loses
  <2>2. ASSUME NEW w \in Windows
        PROVE  raising'[w] + (IF Lost(w)' THEN 1 ELSE 0) <= losses'
    <3>1. raising'[w] = raising[w] /\ raising[w] \in Nat /\ losses \in Nat /\ losses' \in Nat
      BY <1>1, <1>2, <2>1 DEF TypeOK, CountInv, loop
    <3>2. raising[w] + (IF Lost(w) THEN 1 ELSE 0) <= losses
      BY <1>1 DEF CountInv
    <3>3. Lost(w)' => Lost(w) \/ (w = c /\ link[c] = "up")
      BY <1>2, <1>5, Windowed DEF Lost, loop
    <3>4. CASE Lost(w)
      BY <2>1, <3>1, <3>2, <3>4
    <3>5. CASE w = c /\ link[c] = "up"
      BY <2>1, <3>1, <3>2, <3>5
    <3>6. CASE ~Lost(w)'
      BY <2>1, <3>1, <3>2, <3>6
    <3> QED
      BY <3>3, <3>4, <3>5, <3>6
  <2> QED
    BY <1>1, <1>2, <2>1, <2>2 DEF CountInv
<1>8. LinkInv'
  BY <1>1, <1>2 DEF LinkInv, window, loop
<1>9. Others(c)
  BY <1>2, <1>5 DEF Others, window, loop
<1>10. /\ ~Does(c, "send")' /\ AskOf(c)'
       /\ \A w \in Windows : CopyOf(c, w)' /\ Pend(c, w)' \subseteq Pend(c, w)
  <2>1. Head(work'[c]).op # "send"
    BY <1>4, <1>5, ItemOps
  <2> QED
    BY <1>1, <1>2, <2>1, NoSend
<1>11. PlanOf(c)'
  <2>1. Closing(c)'
    BY <1>2, <1>3, <1>5 DEF Closing
  <2>2. ~authenticated[c] => room[c] = 0
    BY <1>1 DEF PlanOf
  <2> QED
    BY <1>2, <1>4, <1>5, <2>1, <2>2 DEF PlanOf
<1> QED
  BY <1>2, <1>5, <1>6, <1>7, <1>8, <1>9, <1>10, <1>11, EndKeeps

\* A packet of the broadcast, and what is left of the broadcast.
LEMMA SendNextDoes ==
    ASSUME ChatInv, NEW c \in Clients, SendNext(c)
    PROVE  \E d \in Clients, p \in Packets(Answers), T \in SUBSET Clients :
              /\ p.id = "S_CHAT" /\ p.from = c /\ p.room # 0 /\ p = Head(work[c]).packet
              /\ d \in Head(work[c]).to /\ T = Head(work[c]).to \ {d}
              /\ SendPackets({d}, <<p>>)
              /\ work' \in [Clients -> Seq(Items)]
              /\ \A e \in Clients \ {c} : work'[e] = work[e]
              /\ \/ T = {} /\ work'[c] = <<>>
                 \/ \E item \in Sends(c) : /\ work'[c] = <<item>> /\ item.op = "send"
                                           /\ item.packet = p /\ item.to = T
<1> DEFINE item == Head(work[c])
<1>1. TypeOK /\ PlanOf(c)
  BY Parts
<1>2. Does(c, "send")
  BY DEF SendNext
<1>3. item \in Sends(c) /\ Tail(work[c]) = <<>>
  BY <1>1, <1>2, PlanCases
<1>4. PICK d \in item.to :
         /\ SendPackets({d}, <<item.packet>>)
         /\ Todo(c, IF item.to = {d} THEN Tail(work[c])
                    ELSE <<[item EXCEPT !.to = @ \ {d}]>> \o Tail(work[c]))
  BY DEF SendNext
<1> DEFINE T == item.to \ {d}
           rest == [item EXCEPT !.to = T]
           p == item.packet
<1>5. /\ rest \in Sends(c) /\ rest.op = "send" /\ rest.packet = p /\ rest.to = T
      /\ T \in SUBSET Clients /\ d \in Clients
      /\ p \in Packets(Answers) /\ p.id = "S_CHAT" /\ p.from = c /\ p.room # 0
  <2> HIDE DEF item
  <2> QED
    BY <1>3 DEF Sends, Packets, Answers
<1>6. Sends(c) \subseteq Items
  BY DEF Sends, Items
<1>7. <<rest>> \o <<>> = <<rest>> /\ <<rest>> \in Seq(Items) /\ <<>> \in Seq(Items)
  <2> HIDE DEF rest
  <2> QED
    BY <1>5, <1>6, Lists
<1>8. /\ item.to = {d} => Todo(c, <<>>)
      /\ item.to # {d} => Todo(c, <<rest>>)
  <2>1. rest = [item EXCEPT !.to = @ \ {d}]
    OBVIOUS
  <2> HIDE DEF rest, item
  <2> QED
    BY <1>3, <1>4, <1>7, <2>1
<1>9. /\ work' \in [Clients -> Seq(Items)]
      /\ \A e \in Clients \ {c} : work'[e] = work[e]
      /\ item.to = {d} => work'[c] = <<>>
      /\ item.to # {d} => work'[c] = <<rest>>
  <2> HIDE DEF rest, item
  <2> QED
    BY <1>1, <1>7, <1>8 DEF Todo, TypeOK
<1>10. item.to = {d} => T = {}
  OBVIOUS
<1> QED
  BY <1>4, <1>5, <1>9, <1>10

LEMMA SendNextKeeps ==
    ASSUME ChatInv, NEW c \in Clients, SendNext(c) PROVE ChatInv'
<1>1. /\ TypeOK /\ CountInv /\ LinkInv /\ PlanOf(c) /\ AskOf(c)
      /\ \A w \in Windows : CopyOf(c, w) /\ OrderOf(w, c)
      /\ c \in Windows => /\ LineOf(c) /\ (c \notin late => ViewOf(c))
                          /\ \A d \in Clients : CopyOf(d, c)
  BY Parts
<1>2. /\ Does(c, "send")
      /\ link' = link /\ out' = out /\ isConnected' = isConnected /\ room' = room
      /\ authenticated' = authenticated /\ nicknames' = nicknames /\ overlap' = overlap
      /\ UNCHANGED <<window, loop, counts>>
  BY DEF SendNext
<1>3. isConnected[c]
  BY <1>1, <1>2, PlanCases
<1>4. PICK d \in Clients, p \in Packets(Answers), T \in SUBSET Clients :
         /\ p.id = "S_CHAT" /\ p.from = c /\ p.room # 0 /\ p = Head(work[c]).packet
         /\ d \in Head(work[c]).to /\ T = Head(work[c]).to \ {d}
         /\ SendPackets({d}, <<p>>)
         /\ work' \in [Clients -> Seq(Items)]
         /\ \A e \in Clients \ {c} : work'[e] = work[e]
         /\ \/ T = {} /\ work'[c] = <<>>
            \/ \E item \in Sends(c) : /\ work'[c] = <<item>> /\ item.op = "send"
                                      /\ item.packet = p /\ item.to = T
  BY SendNextDoes
<1>5. /\ <<p>> \in Seq(Packets(Answers)) /\ 1 .. Len(<<p>>) = {1} /\ Len(<<p>>) = 1
      /\ <<p>>[1] = p
  OBVIOUS
<1>6. /\ in' \in [Windows -> Seq(Packets(Answers))]
      /\ \A w \in Windows : \/ in'[w] = in[w]
                            \/ w = d /\ in'[w] = in[w] \o <<p>>
  <2>1. /\ in' \in [Windows -> Seq(Packets(Answers))]
        /\ \A w \in Windows : /\ w \in {d} /\ Up(w) => in'[w] = in[w] \o <<p>>
                              /\ ~(w \in {d} /\ Up(w)) => in'[w] = in[w]
    BY <1>1, <1>4, <1>5, Sent
  <2> QED
    BY <2>1
<1>7. /\ Does(c, "send")' => Head(work'[c]).packet = p /\ Head(work'[c]).to = T
      /\ Does(c, "send")' \/ work'[c] = <<>>
  BY <1>4, Heads DEF Does
<1>8. TypeOK'
  BY <1>1, <1>2, <1>4, <1>6, ServerTyped DEF ServerTypes, TypeOK
<1>9. CountInv' /\ LinkInv'
  BY <1>1, <1>2, CountsStay
<1>10. Others(c)
  BY <1>2, <1>4 DEF Others, window, loop, counts
<1>11. AskOf(c)'
  BY <1>1, <1>2, <1>4, <1>7 DEF AskOf, counts
<1>12. \A w : Pend(c, w)' \subseteq Pend(c, w)
  <2>1. \A w : w \in T => w \in Head(work[c]).to
    BY <1>4
  <2> QED
    BY <1>2, <1>4, <1>7, <2>1 DEF Pend, counts
<1>13. \A n \in Pend(c, d)' : p.n < n
  <2>1. Pend(c, d)' \subseteq {said[c] + 1} \cup {out[c][i].n : i \in Chats(out[c])}
    BY <1>2, <1>4, <1>7 DEF Pend, counts
  <2>2. /\ p.n <= said[c] /\ p.n \in Int
        /\ \A i \in Chats(out[c]) : p.n < out[c][i].n
    <3>1. p.n \in Said
      BY DEF Packets
    <3> QED
      BY <1>1, <1>2, <1>4, <3>1, Bounds DEF AskOf, Said
  <2>3. said[c] \in Int
    BY <1>1 DEF CountInv
  <2>4. p.n < said[c] + 1
    BY <2>2, <2>3
  <2> QED
    BY <2>1, <2>2, <2>4
<1>14. PlanOf(c)'
  <2>1. Sends(c)' = Sends(c)
    BY DEF Sends
  <2>2. work'[c] # <<>> => Sending1(c)'
    BY <1>2, <1>3, <1>4, <2>1 DEF Sending1
  <2>3. ~authenticated[c] => room[c] = 0
    BY <1>1 DEF PlanOf
  <2> QED
    BY <1>2, <1>3, <2>2, <2>3 DEF PlanOf
<1>15. \A w \in Windows : CopyOf(c, w)'
  BY <1>1, <1>2, <1>4, <1>7 DEF CopyOf
<1>16. ASSUME NEW w \in Windows
       PROVE  \E t : /\ Adds(c, w, t)
                     /\ \A i \in 1 .. Len(t) : t[i].id = "S_CHAT" =>
                           \A n \in Pend(c, w)' : t[i].n < n
  <2>1. CASE in'[w] = in[w]
    <3>1. Adds(c, w, <<>>) /\ 1 .. Len(<<>>) = {}
      BY <1>1, <2>1, AddsNothing
    <3> QED
      BY <3>1
  <2>2. CASE w = d /\ in'[w] = in[w] \o <<p>>
    <3>1. Of(p, room[w], overlap[w]) /\ Below(chatLines[w], in[w], c, p.n)
      BY <1>1, <1>2, <1>4, <2>2 DEF CopyOf, OrderOf
    <3>2. Mute(<<p>>) /\ Signed(p)
      BY <1>4, <1>5, Windowed DEF Mute, NoneFrom, Tells, Signed
    <3>3. Adds(c, w, <<p>>)
      BY <1>4, <1>5, <2>2, <3>1, <3>2 DEF Adds, Comes
    <3> QED
      BY <1>5, <1>13, <2>2, <3>3
  <2> QED
    BY <1>6, <2>1, <2>2
<1>17. ASSUME c \in Windows
       PROVE  LineOf(c)' /\ (c \notin late' => ViewOf(c)')
  <2>1. PICK t : Adds(c, c, t)
    BY <1>16, <1>17
  <2>2. (Up(c)' => Up(c)) /\ Told(c)
    BY <1>2 DEF Up, Told
  <2>3. LineOf(c)'
    BY <1>1, <1>2, <1>17, <2>1, <2>2, AddsLines DEF window
  <2>4. c \notin late' => ViewOf(c)'
    BY <1>1, <1>2, <1>17, <2>1, <2>2, AddsView DEF window, loop
  <2> QED
    BY <2>3, <2>4
<1>18. c \in Windows => \A e \in Clients \ {c} : CopyOf(e, c)'
  BY <1>1, <1>2, <1>4 DEF CopyOf, Does
<1>19. \A w \in Windows : chatLines'[w] = chatLines[w]
  BY <1>2 DEF window
<1>20. \A w \in Windows : \E t : /\ Comes(c, w, t) /\ (w # c => Mute(t))
                                 /\ \A i \in 1 .. Len(t) : t[i].id = "S_CHAT" =>
                                       \A n \in Pend(c, w)' : t[i].n < n
  BY <1>16 DEF Adds
<1>21. ClientsInv'
  BY <1>10, <1>11, <1>12, <1>14, <1>15, <1>17, <1>18, <1>19, <1>20, SessionKeeps
<1> QED
  BY <1>8, <1>9, <1>21 DEF ChatInv, ClientsInv

\* The answer t that tells the session's own window where it is.
LEMMA TellKeeps ==
    ASSUME ChatInv, NEW c \in Clients, work[c] # <<>>, Tail(work[c]) = <<>>, Done(c),
           UNCHANGED <<link, out, isConnected, authenticated, room, nicknames, window, loop,
                       counts, overlap>>,
           isConnected[c], authenticated[c], NEW t \in Seq(Packets(Answers)), t # <<>>,
           t[1].id \in Clears, NoneFrom(t, 2, Tells), Says(t[1], room[c]),
           \A i \in 1 .. Len(t) : t[i].id \notin {"S_CHAT", "LOGIN_OK"},
           in' \in [Windows -> Seq(Packets(Answers))],
           \A w \in Windows \ {c} : in'[w] = in[w] \/ in'[w] = in[w] \o <<Plain("NOTICE")>>,
           c \in Windows => in'[c] = IF Up(c) THEN in[c] \o t ELSE in[c]
    PROVE  ChatInv'
<1>1. /\ TypeOK /\ CountInv /\ LinkInv /\ PlanOf(c) /\ AskOf(c)
      /\ c \in Windows => /\ c \notin late => ViewOf(c)
                          /\ \A d \in Clients : CopyOf(d, c)
  BY Parts
<1>2. /\ work' \in [Clients -> Seq(Items)] /\ work'[c] = <<>>
      /\ \A d \in Clients \ {c} : work'[d] = work[d]
  BY <1>1, DoneTyped
<1>3. TypeOK'
  BY <1>1, <1>2, ServerTyped DEF ServerTypes, TypeOK
<1>4. CountInv' /\ LinkInv'
  BY <1>1, CountsStay
<1>5. Others(c)
  BY <1>2 DEF Others, window, loop, counts
<1>6. /\ ~Does(c, "send")' /\ AskOf(c)'
      /\ \A w \in Windows : CopyOf(c, w)' /\ Pend(c, w)' \subseteq Pend(c, w)
  BY <1>1, <1>2, NoSend DEF counts
<1>7. PlanOf(c)'
  BY <1>2 DEF PlanOf
<1>8. ASSUME c \in Windows, Up(c)
      PROVE  /\ Comes(c, c, t) /\ LineOf(c)' /\ (c \notin late' => ViewOf(c)')
  <2>1. in[c] \in Seq(Packets(Answers)) /\ in'[c] = in[c] \o t
    BY <1>1, <1>8 DEF TypeOK
  <2>2. Comes(c, c, t)
    BY <2>1 DEF Comes
  <2>3. NoneFrom(t, 1, {"S_CHAT"}) /\ NoneFrom(t, 1, {"LOGIN_OK"}) /\ t[1].id \in Tells
    BY DEF NoneFrom, Clears, Tells
  <2>4. Belong(in'[c], chatLines[c], room[c], overlap[c])
    BY <2>1, <2>3, BelongAdd
  <2>5. ASSUME c \notin late PROVE ViewOf(c)'
    <3>1. LoginFirst(in[c], currentRoomId[c])
      BY <1>1, <1>8, <2>5 DEF ViewOf
    <3>2. LoginFirst(in'[c], currentRoomId[c])
      BY <2>1, <2>3, <3>1, LoginAdd
    <3>3. Agrees(in'[c], room[c], currentRoomId[c], view[c])
      BY <2>1, <2>3, AgreesAdd
    <3> QED
      BY <3>2, <3>3 DEF ViewOf, window
  <2> QED
    BY <2>2, <2>4, <2>5 DEF LineOf, window, loop
<1>9. ASSUME c \in Windows, ~Up(c)
      PROVE  LineOf(c)' /\ ViewOf(c)'
  BY <1>9 DEF LineOf, ViewOf, Up
<1>10. c \in Windows => \A d \in Clients \ {c} : CopyOf(d, c)'
  BY <1>1, <1>2 DEF CopyOf, Does
<1>11. \A w \in Windows : chatLines'[w] = chatLines[w]
  BY DEF window
<1>12. ASSUME NEW w \in Windows
       PROVE  \E u : /\ Comes(c, w, u) /\ (w # c => Mute(u))
                     /\ \A i \in 1 .. Len(u) : u[i].id = "S_CHAT" =>
                           \A n \in Pend(c, w)' : u[i].n < n
  <2>1. CASE w # c
    <3>1. "NOTICE" \in Answers \ (Tells \cup {"S_CHAT"})
      BY DEF Answers, Tells
    <3>2. \E u : Adds(c, w, u) /\ \A i \in 1 .. Len(u) : u[i].id # "S_CHAT"
      BY <1>1, <2>1, <3>1, PlainAdded
    <3> QED
      BY <3>2 DEF Adds
  <2>2. CASE w = c /\ Up(c)
    BY <1>8, <2>2
  <2>3. CASE w = c /\ ~Up(c)
    <3>1. Adds(c, w, <<>>) /\ 1 .. Len(<<>>) = {}
      BY <1>1, <2>3, AddsNothing
    <3> QED
      BY <3>1 DEF Adds
  <2> QED
    BY <2>1, <2>2, <2>3
<1>13. ClientsInv'
  BY <1>5, <1>6, <1>7, <1>8, <1>9, <1>10, <1>11, <1>12, SessionKeeps
<1> QED
  BY <1>3, <1>4, <1>13 DEF ChatInv, ClientsInv

\* One packet added after another.
LEMMA Joined ==
    ASSUME NEW S, NEW s \in Seq(S), NEW x \in S, NEW y \in S
    PROVE  s \o <<x>> \o <<y>> = s \o <<x, y>>
<1> DEFINE a == <<x>>
           b == <<y>>
<1>1. a \in Seq(S) /\ b \in Seq(S)
  OBVIOUS
<1>2. a \o b = <<x, y>>
  <2> DEFINE l == a \o b
             m == <<x, y>>
  <2>1. l \in Seq(S) /\ Len(l) = 2 /\ l[1] = x /\ l[2] = y
    BY <1>1, Concat
  <2>2. m \in Seq(S) /\ Len(m) = 2 /\ m[1] = x /\ m[2] = y
    OBVIOUS
  <2> HIDE DEF l, m
  <2>3. \A i \in 1 .. Len(l) : l[i] = m[i]
    BY <2>1, <2>2
  <2>4. l = m
    BY <2>1, <2>2, <2>3, SeqEqual
  <2> QED
    BY <2>4 DEF l, m
<1>3. (s \o a) \o b = s \o (a \o b)
  BY <1>1, ConcatAssociative
<1> QED
  BY <1>2, <1>3

LEMMA ReportKeeps ==
    ASSUME ChatInv, NEW c \in Clients, Report(c) PROVE ChatInv'
<1>1. TypeOK /\ PlanOf(c)
  BY Parts
<1>2. /\ Done(c)
      /\ UNCHANGED <<link, out, isConnected, authenticated, room, nicknames, window, loop,
                     counts, overlap>>
  BY DEF Report
<1>3. /\ "LEAVE_OK" \in Answers /\ "NOTICE" \in Answers /\ "LEAVE_OK" \in Clears
      /\ "ENTER_OK" \in Answers
  BY DEF Answers, Clears
<1>4. CASE Does(c, "left") /\ SendPacket({c}, "LEAVE_OK")
  <2> DEFINE t == <<Plain("LEAVE_OK")>>
  <2>1. /\ t \in Seq(Packets(Answers)) /\ Len(t) = 1 /\ t[1].id = "LEAVE_OK" /\ t # <<>>
    <3>1. t \in Seq(Packets(Answers)) /\ Len(t) = 1 /\ t[1].id = "LEAVE_OK"
      BY <1>3, PlainList
    <3> QED
      BY <3>1
  <2>2. SendPackets({c}, t)
    BY <1>4 DEF SendPacket
  <2> HIDE DEF t
  <2>3. work[c] # <<>> /\ Tail(work[c]) = <<>> /\ room[c] = 0 /\ isConnected[c]
        /\ authenticated[c]
    BY <1>1, <1>4, PlanCases DEF Does
  <2>4. /\ in' \in [Windows -> Seq(Packets(Answers))]
        /\ \A w \in Windows \ {c} : in'[w] = in[w]
        /\ c \in Windows => in'[c] = IF Up(c) THEN in[c] \o t ELSE in[c]
    <3>1. /\ in' \in [Windows -> Seq(Packets(Answers))]
          /\ \A w \in Windows : /\ w \in {c} /\ Up(w) => in'[w] = in[w] \o t
                                /\ ~(w \in {c} /\ Up(w)) => in'[w] = in[w]
      BY <1>1, <2>1, <2>2, Sent
    <3> QED
      BY <3>1
  <2>5. t[1].id \in Clears /\ NoneFrom(t, 2, Tells) /\ Says(t[1], room[c])
    BY <1>3, <2>1, <2>3 DEF NoneFrom, Says
  <2>6. \A i \in 1 .. Len(t) : t[i].id \notin {"S_CHAT", "LOGIN_OK"}
    BY <2>1
  <2> QED
    BY <1>2, <2>1, <2>3, <2>4, <2>5, <2>6, TellKeeps
<1>5. CASE Does(c, "entered")
  <2> DEFINE r == Head(work[c]).room
             answer == Packet("ENTER_OK", None, r, 0)
             notice == Plain("NOTICE")
             t == <<answer, notice>>
  <2>1. /\ isConnected[c] /\ authenticated[c] /\ room[c] \in Rooms /\ r = room[c]
        /\ Tail(work[c]) = <<>> /\ work[c] # <<>>
    BY <1>1, <1>5, PlanCases DEF Does
  <2>2. in' = [w \in Windows |->
                 IF ~Receiving(w) THEN in[w]
                 ELSE in[w] \o (IF w = c THEN <<answer>> ELSE <<>>)
                            \o (IF room[w] = r THEN <<notice>> ELSE <<>>)]
    <3>1. ~Does(c, "left")
      BY <1>5 DEF Does
    <3> QED
      BY <3>1 DEF Report
  <2>3. /\ answer \in Packets(Answers) /\ answer.id = "ENTER_OK" /\ answer.room = r
        /\ notice \in Packets(Answers) /\ notice.id = "NOTICE"
    <3>1. answer \in Packets(Answers) /\ answer.id = "ENTER_OK" /\ answer.room = r
      BY <1>3, <2>1, Bounds DEF Packet, Packets
    <3> QED
      BY <1>3, <3>1, PlainType, PlainId
  <2>4. \A w \in Windows : Receiving(w) <=> Up(w)
    BY DEF Receiving, Up
  <2> HIDE DEF r, answer, notice
  <2>5. /\ t \in Seq(Packets(Answers)) /\ Len(t) = 2 /\ t # <<>>
        /\ t[1] = answer /\ t[2] = notice
        /\ <<answer>> \in Seq(Packets(Answers)) /\ <<notice>> \in Seq(Packets(Answers))
        /\ <<>> \in Seq(Packets(Answers))
    BY <2>3
  <2> HIDE DEF t
  <2>6. ASSUME NEW w \in Windows
        PROVE  /\ w = c => in'[w] = IF Up(w) THEN in[w] \o t ELSE in[w]
               /\ w # c => in'[w] = in[w] \/ in'[w] = in[w] \o <<notice>>
               /\ in'[w] \in Seq(Packets(Answers))
    <3>1. in[w] \in Seq(Packets(Answers))
      BY <1>1 DEF TypeOK
    <3>2. /\ in[w] \o <<>> = in[w]
          /\ in[w] \o <<answer>> \o <<notice>> = in[w] \o t
          /\ in[w] \o t \in Seq(Packets(Answers))
          /\ in[w] \o <<notice>> \in Seq(Packets(Answers))
      <4>1. in[w] \o <<>> = in[w]
        BY <3>1, EmptyAdd
      <4>2. in[w] \o <<answer>> \o <<notice>> = in[w] \o t
        BY <2>3, <3>1, Joined DEF t
      <4>3. in[w] \o t \in Seq(Packets(Answers))
            /\ in[w] \o <<notice>> \in Seq(Packets(Answers))
        BY <2>5, <3>1, Concat
      <4> QED
        BY <4>1, <4>2, <4>3
    <3>3. CASE ~Up(w)
      BY <2>2, <2>4, <3>1, <3>3
    <3>4. CASE Up(w) /\ w = c
      BY <2>1, <2>2, <2>4, <3>2, <3>4
    <3>5. CASE Up(w) /\ w # c
      BY <2>2, <2>4, <3>1, <3>2, <3>5
    <3> QED
      BY <3>3, <3>4, <3>5
  <2>7. in' \in [Windows -> Seq(Packets(Answers))]
    BY <2>2, <2>6
  <2>8. t[1].id \in Clears /\ NoneFrom(t, 2, Tells) /\ Says(t[1], room[c])
    BY <2>1, <2>3, <2>5, ItemTypes DEF NoneFrom, Says, Clears, Tells
  <2>9. \A i \in 1 .. Len(t) : t[i].id \notin {"S_CHAT", "LOGIN_OK"}
    BY <2>3, <2>5
  <2>10. \A w \in Windows \ {c} : in'[w] = in[w] \/ in'[w] = in[w] \o <<Plain("NOTICE")>>
    BY <2>6 DEF notice
  <2> QED
    BY <1>2, <2>1, <2>5, <2>6, <2>7, <2>8, <2>9, <2>10, TellKeeps
<1> QED
  BY <1>4, <1>5 DEF Report

-----------------------------------------------------------------------------
(* The steps of a client                                                   *)

\* The numbers of the pending messages.
LEMMA PendNat ==
    ASSUME TypeOK, CountInv, NEW c \in Clients, NEW v, NEW n \in Pend(c, v)
    PROVE  n \in Nat
<1>1. said[c] + 1 \in Nat
  BY DEF CountInv
<1>2. ASSUME NEW i \in Chats(out[c]) PROVE out[c][i].n \in Nat
  <2>1. out[c] \in Seq(Packets(Requests)) /\ i \in 1 .. Len(out[c])
    BY DEF TypeOK, Chats
  <2>2. out[c][i] \in Packets(Requests)
    BY <2>1, ElementOfSeq
  <2> QED
    BY <2>2 DEF Packets, Said
<1>3. ASSUME Does(c, "send") PROVE Head(work[c]).packet.n \in Nat
  <2>1. Head(work[c]) \in Items /\ Head(work[c]).op = "send"
    BY <1>3, HeadTypes DEF Does
  <2>2. Head(work[c]).packet \in Packets({"S_CHAT"})
    BY <2>1 DEF Items
  <2> QED
    BY <2>2 DEF Packets, Said
<1> QED
  BY <1>1, <1>2, <1>3 DEF Pend

\* The messages in a sequence of requests to which one is added.
LEMMA ChatsAppend ==
    ASSUME NEW S, NEW s \in Seq(S), NEW p \in S
    PROVE  /\ \A i \in Chats(Append(s, p)) :
                 \/ i \in Chats(s) /\ Append(s, p)[i] = s[i] /\ i < Len(s) + 1
                 \/ i = Len(s) + 1 /\ Append(s, p)[i] = p /\ p.id = "C_CHAT_REQ"
           /\ \A i \in Chats(s) : i \in 1 .. Len(s)
<1> DEFINE t == Append(s, p)
<1>1. /\ Len(t) = Len(s) + 1 /\ Len(s) \in Nat
      /\ \A i \in 1 .. Len(s) : t[i] = s[i]
      /\ t[Len(s) + 1] = p
  OBVIOUS
<1> HIDE DEF t
<1>2. \A i \in Chats(t) : \/ i \in Chats(s) /\ t[i] = s[i] /\ i < Len(s) + 1
                          \/ i = Len(s) + 1 /\ t[i] = p /\ p.id = "C_CHAT_REQ"
  BY <1>1 DEF Chats
<1> QED
  BY <1>2 DEF Chats, t

\* Client c enters p, if it has a connection for it.
AsksFor(c, p) ==
    /\ out'[c] = out[c] \/ out'[c] = Append(out[c], p)
    /\ \/ p.id # "C_CHAT_REQ" /\ said'[c] = said[c]
       \/ p.n = said[c] + 1 /\ said'[c] = said[c] + 1

Grows(c) == \A v : \A n \in Pend(c, v)' : n \in Nat /\ \E m \in Pend(c, v) : m <= n

\* A client asks for something more.
LEMMA AskMore ==
    ASSUME TypeOK, CountInv, NEW c \in Clients, AskOf(c), work'[c] = work[c],
           NEW p \in Packets(Requests), AsksFor(c, p)
    PROVE  AskOf(c)' /\ Grows(c)
<1> DEFINE s == out[c]
           t == out'[c]
<1>1. s \in Seq(Packets(Requests)) /\ said[c] \in Nat
  BY DEF TypeOK, CountInv
<1>2. said[c] <= said'[c] /\ said'[c] \in Nat
  BY <1>1 DEF AsksFor
<1>3. \A i \in Chats(t) : \/ i \in Chats(s) /\ t[i] = s[i]
                          \/ /\ t[i].n = said[c] + 1 /\ said'[c] = said[c] + 1
                             /\ \A j \in Chats(t) : j # i => /\ j \in Chats(s) /\ t[j] = s[j]
                                                            /\ j < i
  <2>1. CASE t = s
    BY <2>1
  <2>2. CASE t = Append(s, p)
    <3> HIDE DEF s, t
    <3>1. \A i \in Chats(t) :
             \/ i \in Chats(s) /\ t[i] = s[i] /\ i < Len(s) + 1
             \/ i = Len(s) + 1 /\ t[i] = p /\ p.id = "C_CHAT_REQ"
      BY <1>1, <2>2, ChatsAppend
    <3> QED
      BY <3>1 DEF AsksFor
  <2> QED
    BY <2>1, <2>2 DEF AsksFor
<1>4. Does(c, "send")' = Does(c, "send") /\ Head(work'[c]) = Head(work[c])
  BY DEF Does
<1>5. /\ \A i \in Chats(s) : s[i].n <= said[c] /\ s[i].n \in Int
      /\ \A i, j \in Chats(s) : i < j => s[i].n < s[j].n
      /\ Does(c, "send") => /\ Head(work[c]).packet.n <= said[c]
                            /\ Head(work[c]).packet.n \in Int
                            /\ \A i \in Chats(s) : Head(work[c]).packet.n < s[i].n
  <2>1. \A i \in Chats(s) : s[i].n \in Nat
    <3>1. \A v : \A i \in Chats(s) : s[i].n \in Pend(c, v)
      BY DEF Pend
    <3> QED
      BY <3>1, PendNat
  <2>2. Does(c, "send") => Head(work[c]).packet.n \in Nat
    <3>1. ASSUME Does(c, "send") PROVE Head(work[c]) \in Items /\ Head(work[c]).op = "send"
      BY <3>1, HeadTypes DEF Does
    <3> QED
      BY <3>1 DEF Items, Packets, Said
  <2> QED
    BY <2>1, <2>2 DEF AskOf
<1> HIDE DEF s, t
<1>6. \A i \in Chats(t) : t[i].n <= said'[c] /\ t[i].n \in Nat
  <2>1. TAKE i \in Chats(t)
  <2>2. CASE i \in Chats(s) /\ t[i] = s[i]
    <3>1. s[i].n \in Nat
      <4>1. \A v : s[i].n \in Pend(c, v)
        BY <2>2 DEF Pend, s
      <4> QED
        BY <4>1, PendNat
    <3> QED
      BY <1>1, <1>2, <1>5, <2>2, <3>1
  <2>3. CASE t[i].n = said[c] + 1 /\ said'[c] = said[c] + 1
    BY <1>1, <2>3
  <2> QED
    BY <1>3, <2>2, <2>3
<1>7. ASSUME NEW i \in Chats(t), NEW j \in Chats(t), i < j PROVE t[i].n < t[j].n
  <2>0. i \in Nat /\ j \in Nat
    BY DEF Chats
  <2>1. CASE j \in Chats(s) /\ t[j] = s[j]
    <3>1. i \in Chats(s) /\ t[i] = s[i]
      BY <1>3, <1>7, <2>0
    <3> QED
      BY <1>5, <1>7, <2>1, <3>1
  <2>2. CASE /\ t[j].n = said[c] + 1
             /\ \A k \in Chats(t) : k # j => k \in Chats(s) /\ t[k] = s[k] /\ k < j
    <3>1. i \in Chats(s) /\ t[i] = s[i]
      BY <1>7, <2>0, <2>2
    <3> QED
      BY <1>1, <1>5, <2>2, <3>1
  <2> QED
    BY <1>3, <2>1, <2>2
<1>8. AskOf(c)'
  <2>1. Does(c, "send") => /\ Head(work[c]).packet.n <= said'[c]
                           /\ \A i \in Chats(t) : Head(work[c]).packet.n < t[i].n
    BY <1>1, <1>2, <1>3, <1>5
  <2> QED
    BY <1>4, <1>6, <1>7, <2>1 DEF AskOf, t
<1>9. Grows(c)
  <2>1. SUFFICES ASSUME NEW v, NEW n \in Pend(c, v)'
                 PROVE  n \in Nat /\ \E m \in Pend(c, v) : m <= n
    BY DEF Grows
  <2>2. said[c] + 1 \in Pend(c, v)
    BY DEF Pend
  <2>3. CASE n = said'[c] + 1
    BY <1>1, <1>2, <2>2, <2>3
  <2>4. ASSUME NEW i \in Chats(t), n = t[i].n
        PROVE  n \in Nat /\ \E m \in Pend(c, v) : m <= n
    <3>1. n \in Nat
      BY <1>6, <2>4
    <3>2. CASE i \in Chats(s) /\ t[i] = s[i]
      <4>1. n \in Pend(c, v)
        BY <2>4, <3>2 DEF Pend, s
      <4> QED
        BY <3>1, <4>1
    <3>3. CASE t[i].n = said[c] + 1
      BY <1>1, <2>2, <2>4, <3>3
    <3> QED
      BY <1>3, <3>1, <3>2, <3>3
  <2>5. CASE /\ Does(c, "send") /\ v \in Head(work[c]).to
             /\ n = Head(work[c]).packet.n
    <3>1. n \in Pend(c, v)
      BY <2>5 DEF Pend
    <3>2. n \in Nat
      BY <3>1, PendNat
    <3> QED
      BY <3>1, <3>2
  <2> QED
    BY <1>4, <2>3, <2>4, <2>5 DEF Pend, t
<1> QED
  BY <1>8, <1>9

\* The requests of a client are dropped.
LEMMA AskLess ==
    ASSUME TypeOK, CountInv, NEW c \in Clients, AskOf(c), work'[c] = work[c],
           said'[c] = said[c], out'[c] = out[c] \/ Chats(out'[c]) = {}
    PROVE  AskOf(c)' /\ Grows(c)
<1>1. AskOf(c)'
  BY DEF AskOf, Does
<1>2. \A v : Pend(c, v)' \subseteq Pend(c, v)
  BY DEF Pend, Does
<1>3. \A v : \A n \in Pend(c, v) : n \in Nat /\ n <= n
  <2>1. \A v : \A n \in Pend(c, v) : n \in Nat
    BY PendNat
  <2> QED
    BY <2>1
<1> QED
  BY <1>1, <1>2, <1>3 DEF Grows

\* The order of the messages in a window does not get worse.
KeepsOrder(w) ==
    /\ Ordered(chatLines[w], in[w])'
    /\ \A d, n : Below(chatLines[w], in[w], d, n) => Below(chatLines'[w], in'[w], d, n)

\* A step of client c, which sends no packet to a window.
LEMMA ClientKeeps ==
    ASSUME ChatInv, NEW c \in Clients, TypeOK', CountInv', LinkInv', Others(c),
           \A v \in Windows \ {c} : in'[v] = in[v],
           work' = work, room' = room, overlap' = overlap,
           PlanOf(c)', AskOf(c)', Grows(c),
           c \in Windows => LineOf(c)' /\ (c \notin late' => ViewOf(c)') /\ KeepsOrder(c)
    PROVE  ChatInv'
<1>1. /\ TypeOK /\ CountInv
      /\ \A v \in Windows : CopyOf(c, v) /\ OrderOf(v, c)
      /\ c \in Windows => \A d \in Clients : CopyOf(d, c) /\ OrderOf(c, d)
  BY Parts
<1>2. \A v \in Windows \ {c} : Adds(c, v, <<>>)
  BY <1>1, AddsNothing
<1>3. ASSUME NEW v \in Windows PROVE OrderOf(v, c)'
  <2>1. SUFFICES ASSUME NEW n \in Pend(c, v)'
                 PROVE  Below(chatLines'[v], in'[v], c, n)
    BY DEF OrderOf, Pend
  <2>2. PICK m \in Pend(c, v) : n \in Nat /\ m <= n
    BY <2>1 DEF Grows
  <2>3. m \in Nat
    BY <1>1, <2>2, PendNat
  <2>4. Below(chatLines[v], in[v], c, m)
    BY <1>1, <2>2, PendOrder
  <2>5. Below(chatLines[v], in[v], c, n)
    BY <1>1, <2>2, <2>3, <2>4, Numbers, BelowMore
  <2>6. CASE v = c
    BY <2>5, <2>6 DEF KeepsOrder
  <2>7. CASE v # c
    BY <2>5, <2>7 DEF Others
  <2> QED
    BY <2>6, <2>7
<1>4. ASSUME c \in Windows, NEW d \in Clients \ {c} PROVE OrderOf(c, d)'
  <2>1. OrderOf(c, d)
    BY <1>1, <1>4
  <2>2. out'[d] = out[d] /\ said'[d] = said[d] /\ work'[d] = work[d]
    BY DEF Others
  <2> QED
    BY <1>4, <2>1, <2>2 DEF OrderOf, KeepsOrder, Does
<1>5. \A v \in Windows : CopyOf(c, v)'
  BY <1>1 DEF CopyOf, Does
<1>6. c \in Windows => \A d \in Clients : CopyOf(d, c)'
  BY <1>1 DEF CopyOf, Does
<1>7. Own(c)
  BY <1>3, <1>4, <1>5, <1>6 DEF Own, KeepsOrder
<1>8. ClientsInv'
  BY <1>2, <1>7, OwnKeeps
<1> QED
  BY <1>8 DEF ChatInv, ClientsInv

\* The counters, when a client asks.
LEMMA AskedCounts ==
    ASSUME CountInv, NEW c \in Clients, Asks(c),
           said' = said \/ said' = [said EXCEPT ![c] = @ + 1],
           \A w \in Windows : raising'[w] + (IF Lost(w)' THEN 1 ELSE 0) <= losses
    PROVE  CountInv' /\ said[c] + 1 \in Said
<1>1. /\ asked \in [Clients -> Nat] /\ said \in [Clients -> Nat]
      /\ asked[c] < Budget(c) /\ asked' = [asked EXCEPT ![c] = @ + 1] /\ losses' = losses
      /\ said[c] <= asked[c]
  BY DEF CountInv, Asks
<1>2. Budget(c) \in Nat /\ (\A n \in Nat : n <= Budget(c) => n \in Said)
  BY Bounds DEF Said, Budget
<1>3. \A d \in Clients : said'[d] <= asked'[d] /\ asked'[d] <= Budget(d)
  <2>1. TAKE d \in Clients
  <2>2. said[d] <= asked[d] /\ asked[d] <= Budget(d)
    BY DEF CountInv
  <2>3. Budget(d) = Budget(d)'
    BY DEF Budget
  <2>4. CASE d = c
    BY <1>1, <1>2, <2>4
  <2>5. CASE d # c
    BY <1>1, <2>2, <2>5
  <2> QED
    BY <2>4, <2>5
<1>4. asked' \in [Clients -> Nat] /\ said' \in [Clients -> Nat]
  BY <1>1
<1>5. said[c] + 1 \in Said
  BY <1>1, <1>2
<1>6. CountInv'
  BY <1>1, <1>3, <1>4 DEF CountInv, Budget
<1> QED
  BY <1>5, <1>6

\* The requests of the clients.
LEMMA RequestTypes ==
    ASSUME NEW n \in Said, NEW r \in Rooms \cup {0}
    PROVE  /\ Packet("C_ROOM_ENTER_REQ", None, r, 0) \in Packets(Requests)
           /\ Packet("C_CHAT_REQ", None, 0, n) \in Packets(Requests)
           /\ Plain("C_LOGIN_REQ") \in Packets(Requests)
           /\ Plain("C_ROOM_LEAVE_REQ") \in Packets(Requests)
           /\ Plain("C_ROOM_LIST_REQ") \in Packets(Requests)
           /\ Packet("C_ROOM_ENTER_REQ", None, r, 0).id = "C_ROOM_ENTER_REQ"
           /\ Packet("C_CHAT_REQ", None, 0, n).n = n
<1>1. /\ "C_ROOM_ENTER_REQ" \in Requests /\ "C_CHAT_REQ" \in Requests
      /\ "C_LOGIN_REQ" \in Requests /\ "C_ROOM_LEAVE_REQ" \in Requests
      /\ "C_ROOM_LIST_REQ" \in Requests
  BY DEF Requests
<1>2. /\ Packet("C_ROOM_ENTER_REQ", None, r, 0) \in Packets(Requests)
      /\ Packet("C_CHAT_REQ", None, 0, n) \in Packets(Requests)
  BY <1>1, Bounds DEF Packet, Packets
<1>3. /\ Packet("C_ROOM_ENTER_REQ", None, r, 0).id = "C_ROOM_ENTER_REQ"
      /\ Packet("C_CHAT_REQ", None, 0, n).n = n
  BY DEF Packet
<1> QED
  BY <1>1, <1>2, <1>3, PlainType

\* The type of the requests, with one more or none.
LEMMA OutTyped ==
    ASSUME TypeOK, NEW c \in Clients, NEW p \in Packets(Requests),
           out' = out \/ out' = [out EXCEPT ![c] = Append(@, p)]
    PROVE  /\ out' \in [Clients -> Seq(Packets(Requests))]
           /\ out'[c] = out[c] \/ out'[c] = Append(out[c], p)
           /\ \A d \in Clients \ {c} : out'[d] = out[d]
<1>1. out \in [Clients -> Seq(Packets(Requests))]
  BY DEF TypeOK
<1>2. Append(out[c], p) \in Seq(Packets(Requests))
  BY <1>1
<1> QED
  BY <1>1, <1>2

LEMMA CommandKeeps ==
    ASSUME ChatInv, NEW k \in Consoles, Command(k) PROVE ChatInv'
<1>1. k \in Clients /\ k \notin Windows
  BY ClientsAssumption DEF Clients
<1>2. TypeOK /\ CountInv /\ LinkInv /\ PlanOf(k) /\ AskOf(k)
  BY <1>1, Parts
<1>3. /\ Asks(k)
      /\ UNCHANGED <<link, in, server, window, loop, overlap>>
  BY DEF Command
<1>4. PICK p \in {Packet("C_ROOM_ENTER_REQ", None, r, 0) : r \in Rooms \cup {0}}
                 \cup {Plain("C_ROOM_LEAVE_REQ"), Packet("C_CHAT_REQ", None, 0, said[k] + 1)} :
         /\ out' = [out EXCEPT ![k] = Append(@, p)]
         /\ said' = IF p.id = "C_CHAT_REQ" THEN [said EXCEPT ![k] = @ + 1] ELSE said
  BY DEF Command
<1>5. CountInv' /\ said[k] + 1 \in Said
  <2>1. \A w \in Windows : raising'[w] + (IF Lost(w)' THEN 1 ELSE 0) <= losses
    BY <1>2, <1>3 DEF CountInv, Lost, server, loop
  <2> QED
    BY <1>1, <1>2, <1>3, <1>4, <2>1, AskedCounts
<1>6. p \in Packets(Requests) /\ (p.id = "C_CHAT_REQ" => p.n = said[k] + 1)
  <2>1. PICK r \in Rooms \cup {0} :
           \/ p = Packet("C_ROOM_ENTER_REQ", None, r, 0) \/ p = Plain("C_ROOM_LEAVE_REQ")
           \/ p = Packet("C_CHAT_REQ", None, 0, said[k] + 1)
    BY <1>4
  <2>2. Plain("C_ROOM_LEAVE_REQ").id # "C_CHAT_REQ"
    BY PlainId
  <2> QED
    BY <1>5, <2>1, <2>2, RequestTypes
<1>7. /\ out' \in [Clients -> Seq(Packets(Requests))] /\ out'[k] = Append(out[k], p)
      /\ \A d \in Clients \ {k} : out'[d] = out[d]
  <2>1. out \in [Clients -> Seq(Packets(Requests))]
    BY <1>2 DEF TypeOK
  <2> QED
    BY <1>1, <1>2, <1>4, <1>6, <2>1, OutTyped
<1>8. /\ \A d \in Clients \ {k} : said'[d] = said[d]
      /\ said'[k] = IF p.id = "C_CHAT_REQ" THEN said[k] + 1 ELSE said[k]
  BY <1>1, <1>2, <1>4 DEF CountInv
<1>9. TypeOK'
  BY <1>2, <1>3, <1>7 DEF TypeOK, server, window, loop
<1>10. LinkInv'
  BY <1>2, <1>3 DEF LinkInv, window, loop
<1>11. Others(k)
  BY <1>3, <1>7, <1>8 DEF Others, server, window, loop
<1>12. AskOf(k)' /\ Grows(k)
  <2>1. work'[k] = work[k]
    BY <1>3 DEF server
  <2>2. AsksFor(k, p)
    BY <1>6, <1>7, <1>8 DEF AsksFor
  <2> QED
    BY <1>1, <1>2, <1>6, <2>1, <2>2, AskMore
<1>13. PlanOf(k)'
  BY <1>2, <1>3 DEF server, PlanOf, Sending1, Entering, Leaving, Closing
<1> QED
  BY <1>1, <1>3, <1>5, <1>9, <1>10, <1>11, <1>12, <1>13, ClientKeeps DEF server

LEMMA ConsoleDisconnectsKeeps ==
    ASSUME ChatInv, NEW k \in Consoles, ConsoleDisconnects(k) PROVE ChatInv'
<1>1. k \in Clients /\ k \notin Windows
  BY ClientsAssumption DEF Clients
<1>2. TypeOK /\ CountInv /\ LinkInv /\ PlanOf(k) /\ AskOf(k)
  BY <1>1, Parts
<1>3. /\ UNCHANGED <<in, out, server, window, loop, asked, said, overlap>> /\ Loses(k)
      /\ link' = [link EXCEPT ![k] = "none"]
  BY DEF ConsoleDisconnects
<1>4. /\ link' \in [Clients -> Links] /\ \A d \in Clients \ {k} : link'[d] = link[d]
  BY <1>1, <1>2, <1>3 DEF TypeOK, Links
<1>5. \A w \in Windows : link'[w] = link[w]
  BY <1>1, <1>4, Windowed
<1>6. TypeOK'
  BY <1>2, <1>3, <1>4 DEF TypeOK, server, window, loop
<1>7. CountInv'
  <2>1. losses' \in 0 .. MaxLosses /\ losses <= losses' /\ losses \in Nat
    BY <1>2, <1>3, Bounds DEF CountInv, Loses
  <2>2. ASSUME NEW w \in Windows
        PROVE  raising'[w] + (IF Lost(w)' THEN 1 ELSE 0) <= losses'
    <3>1. Lost(w)' <=> Lost(w)
      BY <1>3, <1>5 DEF Lost, server, loop
    <3>2. raising[w] + (IF Lost(w) THEN 1 ELSE 0) <= losses /\ raising[w] \in Nat
      BY <1>2 DEF CountInv, TypeOK
    <3>3. raising'[w] = raising[w]
      BY <1>3 DEF loop
    <3> QED
      BY <2>1, <3>1, <3>2, <3>3
  <2> QED
    BY <1>2, <1>3, <2>1, <2>2 DEF CountInv
<1>8. LinkInv'
  BY <1>2, <1>3, <1>5 DEF LinkInv, window, loop, TypeOK
<1>9. Others(k)
  BY <1>3, <1>4 DEF Others, server, window, loop
<1>10. AskOf(k)' /\ Grows(k)
  BY <1>1, <1>2, <1>3, AskLess DEF server
<1>11. PlanOf(k)'
  BY <1>2, <1>3 DEF server, PlanOf, Sending1, Entering, Leaving, Closing
<1> QED
  BY <1>1, <1>3, <1>6, <1>7, <1>8, <1>9, <1>10, <1>11, ClientKeeps DEF server

\* A step of a window that neither receives nor shows anything new while the
\* connection is up.
LEMMA StillKeeps ==
    ASSUME ChatInv, NEW w \in Windows, TypeOK', CountInv', LinkInv', Others(w),
           UNCHANGED <<in, chatLines, server, overlap>>, AskOf(w)', Grows(w),
           w \notin late' => w \notin late,
           Up(w)' => Up(w) /\ view'[w] = view[w] /\ currentRoomId'[w] = currentRoomId[w]
    PROVE  ChatInv'
<1>1. w \in Clients
  BY Windowed
<1>2. TypeOK /\ PlanOf(w) /\ LineOf(w) /\ (w \notin late => ViewOf(w))
      /\ Ordered(chatLines[w], in[w])
  BY <1>1, Parts
<1>3. PlanOf(w)'
  BY <1>2 DEF server, PlanOf, Sending1, Entering, Leaving, Closing
<1>4. /\ work'[w] = work[w] /\ room'[w] = room[w] /\ authenticated'[w] = authenticated[w]
      /\ in'[w] = in[w] /\ chatLines'[w] = chatLines[w] /\ overlap'[w] = overlap[w]
  BY DEF server
<1>5. Told(w)' <=> Told(w)
  BY <1>4 DEF Told, Does
<1>6. LineOf(w)'
  BY <1>2, <1>4, <1>5 DEF LineOf
<1>7. w \notin late' => ViewOf(w)'
  BY <1>2, <1>4, <1>5 DEF ViewOf
<1>8. KeepsOrder(w)
  BY <1>2, <1>4 DEF KeepsOrder
<1> QED
  BY <1>1, <1>3, <1>6, <1>7, <1>8, ClientKeeps DEF server

\* The counters when raising'[w] has grown by at most k.
LEMMA RaisingCounts ==
    ASSUME TypeOK, CountInv, NEW w \in Windows, raising' \in [Windows -> Int],
           \A v \in Windows \ {w} : raising'[v] = raising[v] /\ (Lost(v)' <=> Lost(v)),
           raising'[w] + (IF Lost(w)' THEN 1 ELSE 0)
              <= raising[w] + (IF Lost(w) THEN 1 ELSE 0)
    PROVE  \A v \in Windows : raising'[v] + (IF Lost(v)' THEN 1 ELSE 0) <= losses
<1>1. losses \in Nat /\ \A v \in Windows : raising[v] \in Nat
  BY DEF CountInv, TypeOK
<1>2. \A v \in Windows : raising[v] + (IF Lost(v) THEN 1 ELSE 0) <= losses
  BY DEF CountInv
<1>3. \A v \in Windows : raising'[v] \in Int
  OBVIOUS
<1>4. ASSUME NEW v \in Windows
      PROVE  raising'[v] + (IF Lost(v)' THEN 1 ELSE 0)
                <= raising[v] + (IF Lost(v) THEN 1 ELSE 0)
  BY <1>1, <1>3
<1> QED
  BY <1>1, <1>2, <1>3, <1>4

\* Within the bound of its type, too.
LEMMA RaisingTyped ==
    ASSUME CountInv, raising' \in [Windows -> Nat],
           \A v \in Windows : raising'[v] + (IF Lost(v)' THEN 1 ELSE 0) <= losses
    PROVE  raising' \in [Windows -> 0 .. MaxLosses]
<1>1. losses \in 0 .. MaxLosses /\ MaxLosses \in Nat
  BY Bounds DEF CountInv
<1>2. \A v \in Windows : raising'[v] \in 0 .. MaxLosses
  <2>1. TAKE v \in Windows
  <2>2. raising'[v] \in Nat /\ raising'[v] <= losses
    BY <1>1
  <2> QED
    BY <1>1, <2>2
<1> QED
  BY <1>2

LEMMA LoginConnectKeeps ==
    ASSUME ChatInv, NEW w \in Windows, LoginConnect(w) PROVE ChatInv'
<1>1. w \in Clients
  BY Windowed
<1>2. TypeOK /\ CountInv /\ LinkInv /\ AskOf(w)
  BY <1>1, Parts
<1>3. /\ Asks(w) /\ view[w] = "login" /\ ~Connected(w)
      /\ loginEnabled' = [loginEnabled EXCEPT ![w] = FALSE]
      /\ connecting' = connecting \cup {w}
      /\ link' = [link EXCEPT ![w] = "none"]
      /\ reading' = reading \ {w}
      /\ raising' \in {raising, IF w \in reading THEN [raising EXCEPT ![w] = @ + 1]
                                        ELSE raising}
      /\ UNCHANGED <<in, out, server, view, currentRoomId, chatLines, late, said, overlap>>
  BY DEF LoginConnect, Dispose
<1>4. /\ link' \in [Clients -> Links] /\ link'[w] = "none"
      /\ \A d \in Clients \ {w} : link'[d] = link[d]
  BY <1>1, <1>2, <1>3 DEF TypeOK, Links
<1>5. /\ raising' \in [Windows -> Nat]
      /\ \A v \in Windows \ {w} : raising'[v] = raising[v]
      /\ raising'[w] <= raising[w] + (IF w \in reading THEN 1 ELSE 0)
  BY <1>2, <1>3 DEF TypeOK
<1>6. \A v \in Windows : raising'[v] + (IF Lost(v)' THEN 1 ELSE 0) <= losses
  <2>1. \A v \in Windows \ {w} : Lost(v)' <=> Lost(v)
    BY <1>3, <1>4, Windowed DEF Lost, server
  <2>2. ~Lost(w)' /\ (w \in reading => Lost(w))
    BY <1>3 DEF Lost, Connected
  <2>3. raising[w] \in Nat /\ raising'[w] \in Nat
    BY <1>2, <1>5 DEF TypeOK
  <2>4. raising'[w] + (IF Lost(w)' THEN 1 ELSE 0)
           <= raising[w] + (IF Lost(w) THEN 1 ELSE 0)
    BY <1>5, <2>2, <2>3
  <2> QED
    BY <1>2, <1>5, <2>1, <2>4, RaisingCounts
<1>7. CountInv'
  BY <1>1, <1>2, <1>3, <1>6, AskedCounts
<1>8. TypeOK'
  <2>1. raising' \in [Windows -> 0 .. MaxLosses]
    BY <1>2, <1>5, <1>6, RaisingTyped
  <2> QED
    BY <1>2, <1>3, <1>4, <2>1 DEF TypeOK, server
<1>9. LinkInv'
  <2>1. \A v \in connecting' : /\ link'[v] = "none" /\ v \notin reading' /\ view'[v] = "login"
    <3>1. TAKE v \in connecting'
    <3>2. CASE v = w
      BY <1>3, <1>4, <3>2
    <3>3. CASE v # w
      BY <1>2, <1>3, <1>4, <3>3, Windowed DEF LinkInv, TypeOK
    <3> QED
      BY <3>2, <3>3
  <2>2. \A v \in Windows : /\ link'[v] = "up" => v \in reading'
                           /\ view'[v] = "login" => currentRoomId'[v] = 0
    BY <1>2, <1>3, <1>4, Windowed DEF LinkInv
  <2> QED
    BY <2>1, <2>2 DEF LinkInv
<1>10. Others(w)
  BY <1>3, <1>4 DEF Others, server
<1>11. AskOf(w)' /\ Grows(w)
  BY <1>1, <1>2, <1>3, AskLess DEF server
<1>12. ~Up(w)'
  BY <1>4 DEF Up
<1> QED
  BY <1>3, <1>7, <1>8, <1>9, <1>10, <1>11, <1>12, StillKeeps

LEMMA LoginFailsKeeps ==
    ASSUME ChatInv, NEW w \in Windows, LoginFails(w) PROVE ChatInv'
<1>1. w \in Clients
  BY Windowed
<1>2. TypeOK /\ CountInv /\ LinkInv /\ AskOf(w)
  BY <1>1, Parts
<1>3. /\ w \in connecting /\ connecting' = connecting \ {w}
      /\ loginEnabled' = [loginEnabled EXCEPT ![w] = TRUE]
      /\ UNCHANGED <<links, server, view, currentRoomId, chatLines, reading,
                     raising, late, counts, overlap>>
  BY DEF LoginFails
<1>4. TypeOK'
  BY <1>2, <1>3 DEF TypeOK, links, server
<1>5. CountInv'
  BY <1>2, <1>3 DEF CountInv, Lost, links, server, counts
<1>6. LinkInv'
  BY <1>2, <1>3 DEF LinkInv, links
<1>7. Others(w)
  BY <1>3 DEF Others, links, server, counts
<1>8. AskOf(w)' /\ Grows(w)
  BY <1>1, <1>2, <1>3, AskLess DEF links, server, counts
<1>9. ~Up(w)'
  BY <1>2, <1>3 DEF LinkInv, Up, links
<1> QED
  BY <1>3, <1>4, <1>5, <1>6, <1>7, <1>8, <1>9, StillKeeps DEF links

LEMMA ReadFailsKeeps ==
    ASSUME ChatInv, NEW w \in Windows, ReadFails(w) PROVE ChatInv'
<1>1. w \in Clients
  BY Windowed
<1>2. TypeOK /\ CountInv /\ LinkInv /\ AskOf(w)
  BY <1>1, Parts
<1>3. /\ w \in reading /\ link[w] \in {"fin", "reset", "dead"}
      /\ link' = link \/ link' = [link EXCEPT ![w] = "dead"]
      /\ reading' = reading \ {w}
      /\ raising' = [raising EXCEPT ![w] = @ + 1]
      /\ UNCHANGED <<in, out, server, window, connecting, late, counts, overlap>>
  BY DEF ReadFails
<1>4. /\ link' \in [Clients -> Links] /\ link'[w] \in {"fin", "reset", "dead"}
      /\ \A d \in Clients \ {w} : link'[d] = link[d]
  BY <1>1, <1>2, <1>3 DEF TypeOK, Links
<1>5. /\ raising' \in [Windows -> Nat] /\ raising'[w] = raising[w] + 1
      /\ \A v \in Windows \ {w} : raising'[v] = raising[v]
  BY <1>2, <1>3 DEF TypeOK
<1>6. \A v \in Windows : raising'[v] + (IF Lost(v)' THEN 1 ELSE 0) <= losses
  <2>1. \A v \in Windows \ {w} : Lost(v)' <=> Lost(v)
    BY <1>3, <1>4, Windowed DEF Lost, server
  <2>2. ~Lost(w)' /\ Lost(w)
    BY <1>3 DEF Lost
  <2>3. raising[w] \in Nat
    BY <1>2 DEF TypeOK
  <2>4. raising'[w] + (IF Lost(w)' THEN 1 ELSE 0)
           <= raising[w] + (IF Lost(w) THEN 1 ELSE 0)
    BY <1>5, <2>2, <2>3
  <2> QED
    BY <1>2, <1>5, <2>1, <2>4, RaisingCounts
<1>7. CountInv'
  BY <1>2, <1>3, <1>6 DEF CountInv, counts
<1>8. TypeOK'
  <2>1. raising' \in [Windows -> 0 .. MaxLosses]
    BY <1>2, <1>5, <1>6, RaisingTyped
  <2> QED
    BY <1>2, <1>3, <1>4, <2>1 DEF TypeOK, server, window
<1>9. LinkInv'
  <2>1. \A v \in connecting : v # w
    BY <1>2, <1>3 DEF LinkInv
  <2> QED
    BY <1>2, <1>3, <1>4, <2>1, Windowed DEF LinkInv, window, TypeOK
<1>10. Others(w)
  BY <1>3, <1>4 DEF Others, server, window, counts
<1>11. AskOf(w)' /\ Grows(w)
  BY <1>1, <1>2, <1>3, AskLess DEF server, counts
<1>12. ~Up(w)'
  BY <1>4 DEF Up
<1> QED
  BY <1>3, <1>7, <1>8, <1>9, <1>10, <1>11, <1>12, StillKeeps DEF window

\* What a write does to the connection and to what is on its way.
LEMMA WriteDoes ==
    ASSUME TypeOK, NEW w \in Windows, NEW p \in Packets(Requests), Write(w, p)
    PROVE  /\ link' \in [Clients -> Links] /\ out' \in [Clients -> Seq(Packets(Requests))]
           /\ in' = in
           /\ \A d \in Clients \ {w} : link'[d] = link[d] /\ out'[d] = out[d]
           /\ link'[w] = "up" <=> link[w] = "up"
           /\ link[w] = "none" => link'[w] = "none"
           /\ out'[w] = out[w] \/ out'[w] = Append(out[w], p)
<1>1. w \in Clients
  BY Windowed
<1>2. /\ link' = [link EXCEPT ![w] = CASE @ = "fin" -> "reset" [] @ = "reset" -> "dead"
                                        [] OTHER -> @]
      /\ out' = out \/ out' = [out EXCEPT ![w] = Append(@, p)]
      /\ in' = in
  BY DEF Write
<1>3. /\ out' \in [Clients -> Seq(Packets(Requests))]
      /\ out'[w] = out[w] \/ out'[w] = Append(out[w], p)
      /\ \A d \in Clients \ {w} : out'[d] = out[d]
  BY <1>1, <1>2, OutTyped
<1>4. /\ link' \in [Clients -> Links]
      /\ \A d \in Clients \ {w} : link'[d] = link[d]
      /\ link'[w] = "up" <=> link[w] = "up"
      /\ link[w] = "none" => link'[w] = "none"
  BY <1>1, <1>2 DEF TypeOK, Links
<1> QED
  BY <1>2, <1>3, <1>4

\* A request of window w: p is written, or the view goes back to the login.
LEMMA RequestKeeps ==
    ASSUME ChatInv, NEW w \in Windows, Asks(w), NEW p \in Packets(Requests),
           link' \in [Clients -> Links], out' \in [Clients -> Seq(Packets(Requests))],
           view' \in [Windows -> Views], currentRoomId' \in [Windows -> Rooms \cup {0}],
           loginEnabled' \in [Windows -> BOOLEAN],
           UNCHANGED <<in, server, chatLines, loop, overlap>>, w \notin connecting,
           \A d \in Clients \ {w} : link'[d] = link[d] /\ out'[d] = out[d],
           \A v \in Windows \ {w} : view'[v] = view[v] /\ currentRoomId'[v] = currentRoomId[v],
           link'[w] = "up" <=> link[w] = "up",
           \/ view'[w] = view[w] /\ currentRoomId'[w] = currentRoomId[w]
           \/ view'[w] = "login" /\ currentRoomId'[w] = 0 /\ link[w] # "up",
           out'[w] = out[w] \/ out'[w] = Append(out[w], p),
           \/ said' = said /\ p.id # "C_CHAT_REQ"
           \/ said' = [said EXCEPT ![w] = @ + 1] /\ p.n = said[w] + 1
    PROVE  ChatInv'
<1>1. w \in Clients
  BY Windowed
<1>2. TypeOK /\ CountInv /\ LinkInv /\ AskOf(w)
  BY <1>1, Parts
<1>3. TypeOK'
  BY <1>2 DEF TypeOK, server, loop
<1>4. CountInv'
  <2>1. \A v \in Windows : Lost(v)' <=> Lost(v)
    BY Windowed DEF Lost, server, loop
  <2>2. \A v \in Windows : raising'[v] + (IF Lost(v)' THEN 1 ELSE 0) <= losses
    BY <1>2, <2>1 DEF CountInv, loop
  <2> QED
    BY <1>1, <1>2, <2>2, AskedCounts
<1>5. LinkInv'
  BY <1>2, Windowed DEF LinkInv, loop, TypeOK
<1>6. said'[w] = said[w] \/ said'[w] = said[w] + 1
  BY <1>1, <1>2 DEF CountInv
<1>7. Others(w)
  <2>1. \A d \in Clients \ {w} : said'[d] = said[d]
    BY <1>1, <1>2 DEF CountInv
  <2> QED
    BY <2>1 DEF Others, server, loop
<1>8. AskOf(w)' /\ Grows(w)
  <2>1. AsksFor(w, p)
    BY <1>1, <1>2 DEF AsksFor, CountInv
  <2> QED
    BY <1>1, <1>2, <2>1, AskMore DEF server
<1>9. Up(w)' => Up(w) /\ view'[w] = view[w] /\ currentRoomId'[w] = currentRoomId[w]
  BY DEF Up, server
<1> QED
  BY <1>3, <1>4, <1>5, <1>7, <1>8, <1>9, StillKeeps DEF loop

LEMMA LoginAgainKeeps ==
    ASSUME ChatInv, NEW w \in Windows, LoginAgain(w) PROVE ChatInv'
<1> DEFINE p == Plain("C_LOGIN_REQ")
<1>1. TypeOK
  BY DEF ChatInv
<1>2. /\ Asks(w) /\ w \notin connecting /\ Write(w, p)
      /\ loginEnabled' = [loginEnabled EXCEPT ![w] = link[w] = "reset"]
      /\ UNCHANGED <<server, view, currentRoomId, chatLines, loop, said, overlap>>
  BY DEF LoginAgain
<1>3. p \in Packets(Requests) /\ p.id # "C_CHAT_REQ"
  <2>1. "C_LOGIN_REQ" \in Requests
    BY DEF Requests
  <2> QED
    BY <2>1, PlainType, PlainId
<1> HIDE DEF p
<1>4. /\ link' \in [Clients -> Links] /\ out' \in [Clients -> Seq(Packets(Requests))]
      /\ in' = in
      /\ \A d \in Clients \ {w} : link'[d] = link[d] /\ out'[d] = out[d]
      /\ link'[w] = "up" <=> link[w] = "up"
      /\ out'[w] = out[w] \/ out'[w] = Append(out[w], p)
  BY <1>1, <1>2, <1>3, WriteDoes
<1>5. /\ view' \in [Windows -> Views] /\ currentRoomId' \in [Windows -> Rooms \cup {0}]
      /\ loginEnabled' \in [Windows -> BOOLEAN]
  BY <1>1, <1>2 DEF TypeOK
<1> QED
  BY <1>2, <1>3, <1>4, <1>5, RequestKeeps

\* What SendSafe(w, p) does, in the terms of RequestKeeps.
LEMMA SendSafeDoes ==
    ASSUME TypeOK, NEW w \in Windows, NEW p \in Packets(Requests), SendSafe(w, p)
    PROVE  /\ link' \in [Clients -> Links] /\ out' \in [Clients -> Seq(Packets(Requests))]
           /\ view' \in [Windows -> Views] /\ currentRoomId' \in [Windows -> Rooms \cup {0}]
           /\ loginEnabled' \in [Windows -> BOOLEAN] /\ in' = in
           /\ \A d \in Clients \ {w} : link'[d] = link[d] /\ out'[d] = out[d]
           /\ \A v \in Windows \ {w} : view'[v] = view[v]
                                       /\ currentRoomId'[v] = currentRoomId[v]
           /\ link'[w] = "up" <=> link[w] = "up"
           /\ \/ view'[w] = view[w] /\ currentRoomId'[w] = currentRoomId[w]
              \/ view'[w] = "login" /\ currentRoomId'[w] = 0 /\ link[w] # "up"
           /\ out'[w] = out[w] \/ out'[w] = Append(out[w], p)
<1>1. CASE Connected(w)
  <2>1. Write(w, p) /\ UNCHANGED <<view, currentRoomId, loginEnabled>>
    BY <1>1 DEF SendSafe
  <2>2. /\ link' \in [Clients -> Links] /\ out' \in [Clients -> Seq(Packets(Requests))]
        /\ in' = in
        /\ \A d \in Clients \ {w} : link'[d] = link[d] /\ out'[d] = out[d]
        /\ link'[w] = "up" <=> link[w] = "up"
        /\ out'[w] = out[w] \/ out'[w] = Append(out[w], p)
    BY <2>1, WriteDoes
  <2>3. /\ view \in [Windows -> Views] /\ currentRoomId \in [Windows -> Rooms \cup {0}]
        /\ loginEnabled \in [Windows -> BOOLEAN]
    BY DEF TypeOK
  <2> QED
    BY <2>1, <2>2, <2>3
<1>2. CASE ~Connected(w)
  <2>1. /\ view' = [view EXCEPT ![w] = "login"]
        /\ currentRoomId' = [currentRoomId EXCEPT ![w] = 0]
        /\ loginEnabled' = [loginEnabled EXCEPT ![w] = TRUE]
        /\ UNCHANGED links
    BY <1>2 DEF SendSafe, ShowLoginView, Show
  <2>2. link[w] # "up"
    BY <1>2 DEF Connected
  <2> QED
    BY <2>1, <2>2 DEF TypeOK, links, Views
<1> QED
  BY <1>1, <1>2

LEMMA AskKeeps ==
    ASSUME ChatInv, NEW w \in Windows, Ask(w) PROVE ChatInv'
<1>1. TypeOK /\ CountInv /\ LinkInv
  BY DEF ChatInv
<1>2. /\ Asks(w) /\ view[w] # "login"
      /\ UNCHANGED <<server, chatLines, loop, overlap>>
  BY DEF Ask
<1>3. w \notin connecting
  BY <1>1, <1>2 DEF LinkInv
<1>4. said[w] + 1 \in Said /\ 0 \in Rooms \cup {0}
  <2>1. /\ said[w] \in Nat /\ said[w] <= asked[w] /\ asked[w] < Budget(w)
        /\ asked[w] \in Nat
    BY <1>1, <1>2, Windowed DEF CountInv, Asks
  <2>2. Budget(w) \in Nat /\ (\A n \in Nat : n <= Budget(w) => n \in Said)
    BY Bounds DEF Said, Budget
  <2>3. said[w] + 1 \in Nat /\ said[w] + 1 <= Budget(w)
    BY <2>1, <2>2
  <2> QED
    BY <2>2, <2>3
<1>5. PICK p \in Packets(Requests) :
         /\ SendSafe(w, p)
         /\ \/ said' = said /\ p.id # "C_CHAT_REQ"
            \/ said' = [said EXCEPT ![w] = @ + 1] /\ p.n = said[w] + 1
  <2>1. CASE /\ \E r \in Rooms : SendSafe(w, Packet("C_ROOM_ENTER_REQ", None, r, 0))
             /\ UNCHANGED said
    <3>1. PICK r \in Rooms : SendSafe(w, Packet("C_ROOM_ENTER_REQ", None, r, 0))
      BY <2>1
    <3> DEFINE q == Packet("C_ROOM_ENTER_REQ", None, r, 0)
    <3>2. q \in Packets(Requests) /\ q.id # "C_CHAT_REQ"
      BY <1>4, RequestTypes
    <3> QED
      BY <2>1, <3>1, <3>2
  <2>2. CASE SendSafe(w, Plain("C_ROOM_LEAVE_REQ")) /\ UNCHANGED said
    <3> DEFINE q == Plain("C_ROOM_LEAVE_REQ")
    <3>1. q \in Packets(Requests) /\ q.id # "C_CHAT_REQ"
      BY <1>4, RequestTypes, PlainId
    <3> QED
      BY <2>2, <3>1
  <2>3. CASE /\ SendSafe(w, Packet("C_CHAT_REQ", None, 0, said[w] + 1))
             /\ said' = [said EXCEPT ![w] = @ + 1]
    <3> DEFINE q == Packet("C_CHAT_REQ", None, 0, said[w] + 1)
    <3>1. q \in Packets(Requests) /\ q.n = said[w] + 1
      BY <1>4, RequestTypes
    <3> QED
      BY <2>3, <3>1
  <2> QED
    BY <2>1, <2>2, <2>3 DEF Ask
<1>6. /\ link' \in [Clients -> Links] /\ out' \in [Clients -> Seq(Packets(Requests))]
      /\ view' \in [Windows -> Views] /\ currentRoomId' \in [Windows -> Rooms \cup {0}]
      /\ loginEnabled' \in [Windows -> BOOLEAN] /\ in' = in
      /\ \A d \in Clients \ {w} : link'[d] = link[d] /\ out'[d] = out[d]
      /\ \A v \in Windows \ {w} : view'[v] = view[v]
                                  /\ currentRoomId'[v] = currentRoomId[v]
      /\ link'[w] = "up" <=> link[w] = "up"
      /\ \/ view'[w] = view[w] /\ currentRoomId'[w] = currentRoomId[w]
         \/ view'[w] = "login" /\ currentRoomId'[w] = 0 /\ link[w] # "up"
      /\ out'[w] = out[w] \/ out'[w] = Append(out[w], p)
  BY <1>1, <1>5, SendSafeDoes
<1> QED
  BY <1>2, <1>3, <1>5, <1>6, RequestKeeps

LEMMA NetworkResetKeeps ==
    ASSUME ChatInv, NEW w \in Windows, NetworkReset(w) PROVE ChatInv'
<1>1. w \in Clients
  BY Windowed
<1>2. /\ TypeOK /\ CountInv /\ LinkInv /\ AskOf(w) /\ PlanOf(w)
      /\ Ordered(chatLines[w], in[w])
  BY <1>1, Parts
<1>3. /\ link[w] = "up" /\ link' = [link EXCEPT ![w] = "reset"]
      /\ losses < MaxLosses /\ losses' = losses + 1
      /\ in' = [in EXCEPT ![w] = <<>>] /\ out' = [out EXCEPT ![w] = <<>>]
      /\ UNCHANGED <<server, window, loop, asked, said, overlap>>
  BY DEF NetworkReset, Loses
<1>4. /\ link' \in [Clients -> Links] /\ link'[w] = "reset"
      /\ \A d \in Clients \ {w} : link'[d] = link[d]
  BY <1>1, <1>2, <1>3 DEF TypeOK, Links
<1>5. /\ in' \in [Windows -> Seq(Packets(Answers))] /\ in'[w] = <<>>
      /\ out' \in [Clients -> Seq(Packets(Requests))] /\ out'[w] = <<>>
      /\ \A v \in Windows \ {w} : in'[v] = in[v]
      /\ \A d \in Clients \ {w} : out'[d] = out[d]
  <2>1. <<>> \in Seq(Packets(Answers)) /\ <<>> \in Seq(Packets(Requests))
    OBVIOUS
  <2> QED
    BY <1>1, <1>2, <1>3, <2>1 DEF TypeOK
<1>6. TypeOK'
  BY <1>2, <1>3, <1>4, <1>5 DEF TypeOK, server, window, loop
<1>7. CountInv'
  <2>1. losses \in Nat /\ losses' \in 0 .. MaxLosses
    BY <1>2, <1>3, Bounds DEF CountInv
  <2>2. ASSUME NEW v \in Windows
        PROVE  raising'[v] + (IF Lost(v)' THEN 1 ELSE 0) <= losses'
    <3>1. raising[v] + (IF Lost(v) THEN 1 ELSE 0) <= losses /\ raising[v] \in Nat
      BY <1>2 DEF CountInv, TypeOK
    <3>2. raising'[v] = raising[v]
      BY <1>3 DEF loop
    <3> QED
      BY <1>3, <2>1, <3>1, <3>2
  <2> QED
    BY <1>2, <1>3, <2>1, <2>2 DEF CountInv
<1>8. LinkInv'
  BY <1>2, <1>3, <1>4, Windowed DEF LinkInv, window, loop, TypeOK
<1>9. Others(w)
  BY <1>3, <1>4, <1>5 DEF Others, server, window, loop
<1>10. AskOf(w)' /\ Grows(w)
  <2>1. Chats(<<>>) = {}
    BY DEF Chats
  <2> QED
    BY <1>1, <1>2, <1>3, <1>5, <2>1, AskLess DEF server
<1>11. PlanOf(w)'
  BY <1>2, <1>3 DEF server, PlanOf, Sending1, Entering, Leaving, Closing
<1>12. LineOf(w)' /\ ViewOf(w)'
  BY <1>4 DEF LineOf, ViewOf, Up
<1>13. KeepsOrder(w)
  BY <1>2, <1>3, <1>5, Fewer DEF KeepsOrder, window
<1> QED
  BY <1>1, <1>3, <1>5, <1>6, <1>7, <1>8, <1>9, <1>10, <1>11, <1>12, <1>13, ClientKeeps
     DEF server

LEMMA LoginConnectedKeeps ==
    ASSUME ChatInv, NEW w \in Windows, LoginConnected(w) PROVE ChatInv'
<1> DEFINE p == Plain("C_LOGIN_REQ")
<1>1. w \in Clients
  BY Windowed
<1>2. /\ TypeOK /\ CountInv /\ LinkInv /\ AskOf(w) /\ PlanOf(w)
      /\ Ordered(chatLines[w], in[w])
  BY <1>1, Parts
<1>3. /\ w \in connecting /\ ~isConnected[w] /\ work[w] = <<>>
      /\ connecting' = connecting \ {w} /\ reading' = reading \cup {w}
      /\ late' = late \ {w}
      /\ link' = [link EXCEPT ![w] = "up"]
      /\ in' = [in EXCEPT ![w] = <<>>] /\ out' = [out EXCEPT ![w] = <<p>>]
      /\ isConnected' = [isConnected EXCEPT ![w] = TRUE]
      /\ UNCHANGED <<authenticated, room, nicknames, work, window, raising, counts, overlap>>
  BY DEF LoginConnected
<1>4. ~authenticated[w] /\ room[w] = 0 /\ view[w] = "login" /\ currentRoomId[w] = 0
  BY <1>2, <1>3 DEF PlanOf, LinkInv
<1>5. p \in Packets(Requests) /\ p.id # "C_CHAT_REQ"
  <2>1. "C_LOGIN_REQ" \in Requests
    BY DEF Requests
  <2> QED
    BY <2>1, PlainType, PlainId
<1> HIDE DEF p
<1>6. /\ link' \in [Clients -> Links] /\ link'[w] = "up"
      /\ isConnected' \in [Clients -> BOOLEAN] /\ isConnected'[w]
      /\ \A d \in Clients \ {w} : link'[d] = link[d] /\ isConnected'[d] = isConnected[d]
  BY <1>1, <1>2, <1>3 DEF TypeOK, Links
<1>7. /\ in' \in [Windows -> Seq(Packets(Answers))] /\ in'[w] = <<>>
      /\ out' \in [Clients -> Seq(Packets(Requests))] /\ out'[w] = <<p>>
      /\ \A v \in Windows \ {w} : in'[v] = in[v]
      /\ \A d \in Clients \ {w} : out'[d] = out[d]
  <2>1. <<>> \in Seq(Packets(Answers)) /\ <<p>> \in Seq(Packets(Requests))
    BY <1>5
  <2> QED
    BY <1>1, <1>2, <1>3, <2>1 DEF TypeOK
<1>8. TypeOK'
  BY <1>2, <1>3, <1>6, <1>7 DEF TypeOK, window
<1>9. CountInv'
  <2>1. \A v \in Windows : Lost(v)' => Lost(v)
    BY <1>3, <1>6, Windowed DEF Lost
  <2>2. ASSUME NEW v \in Windows
        PROVE  raising'[v] + (IF Lost(v)' THEN 1 ELSE 0) <= losses'
    <3>1. raising[v] + (IF Lost(v) THEN 1 ELSE 0) <= losses /\ raising[v] \in Nat
          /\ losses \in Nat
      BY <1>2 DEF CountInv, TypeOK
    <3> QED
      BY <1>3, <2>1, <3>1 DEF counts
  <2> QED
    BY <1>2, <1>3, <2>2 DEF CountInv, counts
<1>10. LinkInv'
  BY <1>2, <1>3, <1>6, Windowed DEF LinkInv, window, TypeOK
<1>11. Others(w)
  BY <1>3, <1>6, <1>7 DEF Others, window, counts
<1>12. AskOf(w)' /\ Grows(w)
  <2>1. Chats(<<p>>) = {}
    BY <1>5 DEF Chats
  <2> QED
    BY <1>1, <1>2, <1>3, <1>7, <2>1, AskLess DEF counts
<1>13. PlanOf(w)'
  BY <1>3, <1>4, <1>6 DEF PlanOf
<1>14. LineOf(w)'
  BY <1>3, <1>4 DEF LineOf
<1>15. ViewOf(w)'
  <2>1. Mute(<<>>) /\ \A r : LoginFirst(<<>>, r)
    BY DEF Mute, NoneFrom, LoginFirst
  <2> QED
    BY <1>3, <1>4, <1>7, <2>1 DEF ViewOf, window
<1>16. KeepsOrder(w)
  BY <1>2, <1>3, <1>7, Fewer DEF KeepsOrder, window
<1> QED
  BY <1>1, <1>3, <1>7, <1>8, <1>9, <1>10, <1>11, <1>12, <1>13, <1>14, <1>15, <1>16,
     ClientKeeps

LEMMA OnDisconnectedKeeps ==
    ASSUME ChatInv, NEW w \in Windows, OnDisconnected(w) PROVE ChatInv'
<1>1. w \in Clients
  BY Windowed
<1>2. /\ TypeOK /\ CountInv /\ LinkInv /\ AskOf(w) /\ PlanOf(w) /\ LineOf(w)
      /\ Ordered(chatLines[w], in[w])
  BY <1>1, Parts
<1>3. /\ raising[w] > 0 /\ raising' = [raising EXCEPT ![w] = @ - 1]
      /\ view' = [view EXCEPT ![w] = "login"]
      /\ currentRoomId' = [currentRoomId EXCEPT ![w] = 0]
      /\ loginEnabled' = [loginEnabled EXCEPT ![w] = TRUE]
      /\ chatLines' = [chatLines EXCEPT ![w] = <<>>]
      /\ late' = IF w \in reading THEN late \cup {w} ELSE late
      /\ UNCHANGED <<links, server, connecting, reading, counts, overlap>>
  BY DEF OnDisconnected, ShowLoginView, Show
<1>4. /\ raising' \in [Windows -> Nat] /\ raising'[w] <= raising[w]
      /\ \A v \in Windows \ {w} : raising'[v] = raising[v]
  BY <1>2, <1>3 DEF TypeOK
<1>5. \A v \in Windows : raising'[v] + (IF Lost(v)' THEN 1 ELSE 0) <= losses
  <2>1. \A v \in Windows : Lost(v)' <=> Lost(v)
    BY <1>3 DEF Lost, links, server
  <2>2. raising[w] \in Nat /\ raising'[w] \in Nat
    BY <1>2, <1>4 DEF TypeOK
  <2>3. raising'[w] + (IF Lost(w)' THEN 1 ELSE 0)
           <= raising[w] + (IF Lost(w) THEN 1 ELSE 0)
    BY <1>4, <2>1, <2>2
  <2> QED
    BY <1>2, <1>4, <2>1, <2>3, RaisingCounts
<1>6. CountInv'
  BY <1>2, <1>3, <1>5 DEF CountInv, counts
<1>7. chatLines' \in [Windows -> Seq(Lines)] /\ chatLines'[w] = <<>>
      /\ \A v \in Windows \ {w} : chatLines'[v] = chatLines[v]
  <2>1. <<>> \in Seq(Lines)
    OBVIOUS
  <2> QED
    BY <1>2, <1>3, <2>1 DEF TypeOK
<1>8. TypeOK'
  <2>1. raising' \in [Windows -> 0 .. MaxLosses]
    BY <1>2, <1>4, <1>5, RaisingTyped
  <2>2. "login" \in Views
    BY DEF Views
  <2> QED
    BY <1>2, <1>3, <1>7, <2>1, <2>2 DEF TypeOK, links, server
<1>9. LinkInv'
  BY <1>2, <1>3 DEF LinkInv, links, TypeOK
<1>10. Others(w)
  BY <1>2, <1>3, <1>7 DEF Others, links, server, counts, TypeOK
<1>11. AskOf(w)' /\ Grows(w)
  BY <1>1, <1>2, <1>3, AskLess DEF links, server, counts
<1>12. PlanOf(w)'
  BY <1>2, <1>3 DEF server, PlanOf, Sending1, Entering, Leaving, Closing
<1>13. LineOf(w)'
  <2>1. /\ work'[w] = work[w] /\ room'[w] = room[w] /\ overlap'[w] = overlap[w]
        /\ in'[w] = in[w] /\ link'[w] = link[w] /\ isConnected'[w] = isConnected[w]
    BY <1>3 DEF server, links
  <2>2. (Up(w)' <=> Up(w)) /\ (Told(w)' <=> Told(w))
    BY <2>1 DEF Up, Told, Does
  <2> QED
    BY <1>2, <1>7, <2>1, <2>2, BelongEmpty DEF LineOf
<1>14. w \notin late' => ViewOf(w)'
  BY <1>2, <1>3 DEF LinkInv, ViewOf, Up, links, server
<1>15. KeepsOrder(w)
  BY <1>2, <1>3, <1>7, Fewer DEF KeepsOrder, links
<1> QED
  BY <1>1, <1>3, <1>6, <1>8, <1>9, <1>10, <1>11, <1>12, <1>13, <1>14, <1>15, ClientKeeps
     DEF server, links

-----------------------------------------------------------------------------
(* The packets that a window handles                                       *)

\* The line of a message.
LineOfPacket(p) == [from |-> p.from, room |-> p.room, n |-> p.n]

\* What the window shows after the first packet on its way.
Shows(w, p) ==
    \/ /\ p.id \notin Tells \cup {"S_CHAT"}
       /\ view'[w] = view[w] /\ currentRoomId'[w] = currentRoomId[w]
       /\ chatLines'[w] = chatLines[w]
    \/ /\ p.id = "LOGIN_OK"
       /\ view'[w] = "rooms" /\ currentRoomId'[w] = currentRoomId[w]
       /\ chatLines'[w] = chatLines[w]
    \/ /\ p.id = "ENTER_OK"
       /\ view'[w] = "chat" /\ currentRoomId'[w] = p.room /\ chatLines'[w] = <<>>
    \/ /\ p.id = "LEAVE_OK"
       /\ view'[w] = "rooms" /\ currentRoomId'[w] = 0 /\ chatLines'[w] = <<>>
    \/ /\ p.id = "S_CHAT"
       /\ view'[w] = view[w] /\ currentRoomId'[w] = currentRoomId[w]
       /\ chatLines'[w] = Append(chatLines[w], LineOfPacket(p))

\* A packet of the chat is a line.
LEMMA LineTypes ==
    ASSUME TypeOK, NEW w \in Windows, in[w] # <<>>, Ordered(chatLines[w], in[w])
    PROVE  /\ Head(in[w]) \in Packets(Answers) /\ Tail(in[w]) \in Seq(Packets(Answers))
           /\ Head(in[w]).id = "S_CHAT" => LineOfPacket(Head(in[w])) \in Lines
<1> DEFINE s == in[w]
           p == Head(s)
<1>1. s \in Seq(Packets(Answers))
  BY DEF TypeOK
<1>2. p \in Packets(Answers) /\ Tail(s) \in Seq(Packets(Answers)) /\ p = s[1]
      /\ 1 \in 1 .. Len(s)
  <2> HIDE DEF s
  <2>1. p \in Packets(Answers) /\ Tail(s) \in Seq(Packets(Answers)) /\ p = s[1]
        /\ Len(s) \in Nat \ {0}
    BY <1>1, Rest DEF s
  <2> QED
    BY <2>1
<1>3. p.id = "S_CHAT" => p.from # None /\ p.room # 0
  BY <1>2 DEF Ordered, Signed
<1>4. p.id = "S_CHAT" => LineOfPacket(p) \in Lines
  BY <1>2, <1>3 DEF LineOfPacket, Packets, Lines
<1> QED
  BY <1>2, <1>4

\* With any line, the lines of a window are lines.
LEMMA MoreLines ==
    ASSUME NEW S, NEW s \in Seq(S), NEW x PROVE s \in Seq(S \cup {x})
  OBVIOUS

\* The view, when the first packet is shown ...
LEMMA ShowsView ==
    ASSUME TypeOK, NEW w \in Windows, in[w] # <<>>, in'[w] = Tail(in[w]),
           Shows(w, Head(in[w])), ViewOf(w), Up(w)' => Up(w), Told(w)' => Told(w),
           authenticated'[w] = authenticated[w], room'[w] = room[w]
    PROVE  ViewOf(w)'
<1> DEFINE s == in[w]
           p == Head(s)
<1>1. s \in Seq(Packets(Answers)) /\ s # <<>>
  BY DEF TypeOK
<1>2. SUFFICES ASSUME Up(w)'
               PROVE  /\ LoginFirst(Tail(s), currentRoomId'[w])
                      /\ ~authenticated'[w] => /\ Mute(Tail(s)) /\ view'[w] = "login"
                                               /\ currentRoomId'[w] = 0
                      /\ authenticated'[w] /\ Told(w)' =>
                            Agrees(Tail(s), room'[w], currentRoomId'[w], view'[w])
  BY DEF ViewOf
<1>3. /\ LoginFirst(s, currentRoomId[w])
      /\ ~authenticated[w] => Mute(s) /\ view[w] = "login" /\ currentRoomId[w] = 0
      /\ authenticated[w] /\ Told(w) => Agrees(s, room[w], currentRoomId[w], view[w])
  BY <1>2 DEF ViewOf
<1>4. Mute(s) <=> p.id \notin Tells /\ Mute(Tail(s))
  <2> HIDE DEF s
  <2> QED
    BY <1>1, NoneRest DEF Mute
<1>5. /\ LoginFirst(Tail(s), currentRoomId[w])
      /\ p.id \in Tells => \A r : LoginFirst(Tail(s), r)
  <2> HIDE DEF s
  <2> QED
    BY <1>1, <1>3, LoginRest
<1>6. LoginFirst(Tail(s), currentRoomId'[w])
  BY <1>5 DEF Shows, Tells
<1>7. ~authenticated[w] => /\ Mute(Tail(s)) /\ view'[w] = "login" /\ currentRoomId'[w] = 0
  BY <1>3, <1>4 DEF Shows, Tells
<1>8. ASSUME authenticated[w], Told(w)
      PROVE  Agrees(Tail(s), room[w], currentRoomId'[w], view'[w])
  <2>1. Agrees(s, room[w], currentRoomId[w], view[w])
    BY <1>3, <1>8
  <2>2. /\ p.id \notin Tells => Agrees(Tail(s), room[w], currentRoomId[w], view[w])
        /\ p.id = "LOGIN_OK" => Agrees(Tail(s), room[w], currentRoomId[w], "rooms")
        /\ p.id = "ENTER_OK" => Agrees(Tail(s), room[w], p.room, "chat")
        /\ p.id = "LEAVE_OK" => Agrees(Tail(s), room[w], 0, "rooms")
    <3> HIDE DEF s
    <3> QED
      BY <1>1, <1>3, <2>1, AgreesRest
  <2>3. "S_CHAT" \notin Tells
    BY DEF Tells
  <2> QED
    BY <2>2, <2>3 DEF Shows
<1> QED
  BY <1>6, <1>7, <1>8

\* ... the lines of the chat ...
LEMMA ShowsLines ==
    ASSUME TypeOK, NEW w \in Windows, in[w] # <<>>, in'[w] = Tail(in[w]),
           Shows(w, Head(in[w])), LineOf(w), Ordered(chatLines[w], in[w]),
           Up(w)' => Up(w), Told(w)' => Told(w),
           room'[w] = room[w], overlap'[w] = overlap[w]
    PROVE  LineOf(w)'
<1> DEFINE s == in[w]
           p == Head(s)
           l == LineOfPacket(p)
           ls == chatLines[w]
           o == overlap[w]
<1>1. s \in Seq(Packets(Answers)) /\ s # <<>> /\ ls \in Seq(Lines)
  BY DEF TypeOK
<1>2. SUFFICES ASSUME Belong(s, ls, room[w], o)
               PROVE  Belong(Tail(s), chatLines'[w], room[w], o)
  BY DEF LineOf
<1>3. l.room = p.room /\ l.from = p.from
  BY DEF LineOfPacket
<1>4. ls \in Seq(Lines \cup {l}) /\ l \in Lines \cup {l}
  <2> HIDE DEF l, ls
  <2> QED
    BY <1>1, MoreLines
<1>5. /\ p.id \notin Clears => Belong(Tail(s), ls, room[w], o)
      /\ p.id \in Clears => Belong(Tail(s), <<>>, room[w], o)
      /\ p.id = "S_CHAT" => Belong(Tail(s), Append(ls, l), room[w], o)
  <2> HIDE DEF s, l, ls, o
  <2> QED
    BY <1>1, <1>2, <1>3, <1>4, BelongRest
<1>6. p.id \in Clears => p.id \in Tells /\ p.id # "LOGIN_OK" /\ p.id # "S_CHAT"
  BY DEF Clears, Tells
<1>7. /\ p.id = "S_CHAT" => chatLines'[w] = Append(ls, l)
      /\ p.id \in Clears => chatLines'[w] = <<>>
      /\ p.id \notin Clears \cup {"S_CHAT"} => chatLines'[w] = ls
  BY <1>6 DEF Shows, Clears, Tells
<1> QED
  BY <1>5, <1>7

\* ... and their order.
LEMMA ShowsOrder ==
    ASSUME TypeOK, NEW w \in Windows, in[w] # <<>>, in'[w] = Tail(in[w]),
           Shows(w, Head(in[w])), Ordered(chatLines[w], in[w])
    PROVE  KeepsOrder(w)
<1> DEFINE s == in[w]
           p == Head(s)
           l == LineOfPacket(p)
           ls == chatLines[w]
<1>1. s \in Seq(Packets(Answers)) /\ s # <<>> /\ ls \in Seq(Lines) /\ Ordered(ls, s)
  BY DEF TypeOK
<1>2. l.n = p.n /\ l.from = p.from
  BY DEF LineOfPacket
<1>3. ls \in Seq(Lines \cup {l}) /\ l \in Lines \cup {l}
  <2> HIDE DEF l, ls
  <2> QED
    BY <1>1, MoreLines
<1>4. /\ p.id = "S_CHAT" => chatLines'[w] = Append(ls, l)
      /\ p.id # "S_CHAT" => chatLines'[w] = ls \/ chatLines'[w] = <<>>
  BY DEF Shows, Tells
<1> DEFINE t == Tail(s)
           ls2 == chatLines'[w]
<1>5. in'[w] = t
  OBVIOUS
<1>6. /\ p.id = "S_CHAT" => ls2 = Append(ls, l)
      /\ p.id # "S_CHAT" => ls2 = ls \/ ls2 = <<>>
  BY <1>4
<1>7. Ordered(ls2, t)
  <2> HIDE DEF s, l, ls, ls2
  <2>1. /\ Ordered(ls, t)
        /\ p.id = "S_CHAT" => Ordered(Append(ls, l), t)
    BY <1>1, <1>2, <1>3, OrderRest
  <2>2. Ordered(<<>>, t)
    BY <2>1, Fewer
  <2> QED
    BY <1>6, <2>1, <2>2
<1>8. ASSUME NEW d, NEW n, Below(ls, s, d, n) PROVE Below(ls2, t, d, n)
  <2> HIDE DEF s, l, ls, ls2
  <2>1. /\ Below(ls, t, d, n)
        /\ p.id = "S_CHAT" => Below(Append(ls, l), t, d, n)
    BY <1>1, <1>2, <1>3, <1>8, BelowRest
  <2>2. Below(<<>>, t, d, n)
    BY <2>1, Fewer
  <2> QED
    BY <1>6, <2>1, <2>2
<1> QED
  BY <1>5, <1>7, <1>8 DEF KeepsOrder

\* The window handles the first packet p on its way.
LEMMA ReceiveKeeps ==
    ASSUME ChatInv, NEW w \in Windows, NEW id, Receives(w, id), Shows(w, Head(in[w])),
           link' \in [Clients -> Links], out' \in [Clients -> Seq(Packets(Requests))],
           view' \in [Windows -> Views], currentRoomId' \in [Windows -> Rooms \cup {0}],
           loginEnabled' \in [Windows -> BOOLEAN], chatLines' \in [Windows -> Seq(Lines)],
           \A d \in Clients \ {w} : link'[d] = link[d] /\ out'[d] = out[d],
           \A v \in Windows \ {w} : /\ view'[v] = view[v] /\ chatLines'[v] = chatLines[v]
                                    /\ currentRoomId'[v] = currentRoomId[v],
           link'[w] = "up" <=> link[w] = "up",
           out'[w] = out[w] \/ out'[w] = Append(out[w], Plain("C_ROOM_LIST_REQ"))
    PROVE  ChatInv'
<1>1. w \in Clients
  BY Windowed
<1>2. /\ TypeOK /\ CountInv /\ LinkInv /\ AskOf(w) /\ PlanOf(w) /\ LineOf(w)
      /\ Ordered(chatLines[w], in[w]) /\ (w \notin late => ViewOf(w))
  BY <1>1, Parts
<1>3. /\ w \in reading /\ in[w] # <<>> /\ in' = [in EXCEPT ![w] = Tail(@)]
      /\ UNCHANGED <<server, loop, counts, overlap>>
  BY DEF Receives
<1>4. Tail(in[w]) \in Seq(Packets(Answers)) /\ w \notin connecting
  BY <1>2, <1>3, LineTypes DEF LinkInv
<1>5. /\ in' \in [Windows -> Seq(Packets(Answers))] /\ in'[w] = Tail(in[w])
      /\ \A v \in Windows \ {w} : in'[v] = in[v]
  BY <1>2, <1>3, <1>4 DEF TypeOK
<1>6. TypeOK'
  BY <1>2, <1>3, <1>5 DEF TypeOK, server, loop
<1>7. CountInv'
  <2>1. \A v \in Windows : Lost(v)' <=> Lost(v)
    BY <1>3, Windowed DEF Lost, server, loop
  <2> QED
    BY <1>2, <1>3, <2>1 DEF CountInv, loop, counts
<1>8. LinkInv'
  <2>1. view'[w] = "login" => currentRoomId'[w] = 0
    BY <1>2 DEF LinkInv, Shows
  <2> QED
    BY <1>2, <1>3, <1>4, <2>1, Windowed DEF LinkInv, loop, TypeOK
<1>9. Others(w)
  BY <1>3 DEF Others, server, loop, counts
<1>10. AskOf(w)' /\ Grows(w)
  <2>1. "C_ROOM_LIST_REQ" \in Requests
    BY DEF Requests
  <2> DEFINE p == Plain("C_ROOM_LIST_REQ")
  <2>2. p \in Packets(Requests) /\ p.id # "C_CHAT_REQ"
    BY <2>1, PlainType, PlainId
  <2>3. AsksFor(w, p)
    BY <1>3, <2>2 DEF AsksFor, counts
  <2> HIDE DEF p
  <2> QED
    BY <1>1, <1>2, <1>3, <2>2, <2>3, AskMore DEF server
<1>11. PlanOf(w)'
  BY <1>2, <1>3 DEF server, PlanOf, Sending1, Entering, Leaving, Closing
<1>12. /\ work' = work /\ room'[w] = room[w] /\ overlap'[w] = overlap[w]
       /\ isConnected'[w] = isConnected[w] /\ authenticated'[w] = authenticated[w]
  BY <1>3 DEF server
<1>13. (Up(w)' => Up(w)) /\ (Told(w)' => Told(w))
  BY <1>12 DEF Up, Told, Does
<1>14. LineOf(w)'
  BY <1>2, <1>3, <1>5, <1>12, <1>13, ShowsLines
<1>15. w \notin late' => ViewOf(w)'
  BY <1>2, <1>3, <1>5, <1>12, <1>13, ShowsView DEF loop
<1>16. KeepsOrder(w)
  BY <1>2, <1>3, <1>5, ShowsOrder
<1> QED
  BY <1>1, <1>3, <1>5, <1>6, <1>7, <1>8, <1>9, <1>10, <1>11, <1>12, <1>14, <1>15, <1>16,
     ClientKeeps DEF server

\* Each handler shows its packet.
LEMMA HandlePacketKeeps ==
    ASSUME ChatInv, NEW w \in Windows, HandlePacket(w) PROVE ChatInv'
<1>1. /\ TypeOK /\ Ordered(chatLines[w], in[w]) /\ w \in Clients
  BY Windowed, Parts
<1>2. /\ link \in [Clients -> Links] /\ out \in [Clients -> Seq(Packets(Requests))]
      /\ view \in [Windows -> Views] /\ currentRoomId \in [Windows -> Rooms \cup {0}]
      /\ loginEnabled \in [Windows -> BOOLEAN] /\ chatLines \in [Windows -> Seq(Lines)]
  BY <1>1 DEF TypeOK
<1>3. "rooms" \in Views /\ "chat" \in Views /\ "reset" \in Links
  BY DEF Views, Links
<1>4. in[w] # <<>> => /\ Head(in[w]) \in Packets(Answers)
                      /\ Head(in[w]).room \in Rooms \cup {0}
                      /\ Head(in[w]).id = "S_CHAT" => LineOfPacket(Head(in[w])) \in Lines
  BY <1>1, LineTypes DEF Packets
<1>5. CASE HandleLoginRes(w)
  <2>1. PICK id \in {"LOGIN_OK", "LOGIN_FAIL"} : Receives(w, id)
    BY <1>5 DEF HandleLoginRes
  <2>2. in[w] # <<>> /\ Head(in[w]).id = id
    BY <2>1 DEF Receives
  <2>3. /\ id = "LOGIN_OK" => view' = [view EXCEPT ![w] = "rooms"]
        /\ id = "LOGIN_FAIL" => view' = view
        /\ loginEnabled' = [loginEnabled EXCEPT ![w] = TRUE]
        /\ UNCHANGED <<link, out, currentRoomId, chatLines>>
    BY <1>5, <2>2 DEF HandleLoginRes, Receives, Show
  <2>4. Shows(w, Head(in[w]))
    BY <1>2, <2>1, <2>2, <2>3 DEF Shows, Tells
  <2> QED
    BY <1>2, <1>3, <2>1, <2>3, <2>4, ReceiveKeeps
<1>6. CASE HandleRoomEnterRes(w)
  <2>1. /\ Receives(w, "ENTER_OK") /\ in[w] # <<>> /\ Head(in[w]).id = "ENTER_OK"
        /\ currentRoomId' = [currentRoomId EXCEPT ![w] = Head(in[w]).room]
        /\ chatLines' = [chatLines EXCEPT ![w] = <<>>]
        /\ view' = [view EXCEPT ![w] = "chat"]
        /\ UNCHANGED <<link, out, loginEnabled>>
    BY <1>6 DEF HandleRoomEnterRes, Receives, Show
  <2>2. Shows(w, Head(in[w]))
    BY <1>2, <2>1 DEF Shows, Tells
  <2>3. /\ currentRoomId' \in [Windows -> Rooms \cup {0}]
        /\ chatLines' \in [Windows -> Seq(Lines)]
    BY <1>2, <1>4, <2>1
  <2> QED
    BY <1>2, <1>3, <2>1, <2>2, <2>3, ReceiveKeeps
<1>7. CASE HandleRoomLeaveRes(w)
  <2> DEFINE p == Plain("C_ROOM_LIST_REQ")
  <2>1. /\ Receives(w, "LEAVE_OK") /\ in[w] # <<>> /\ Head(in[w]).id = "LEAVE_OK"
        /\ currentRoomId' = [currentRoomId EXCEPT ![w] = 0]
        /\ chatLines' = [chatLines EXCEPT ![w] = <<>>]
        /\ view' = [view EXCEPT ![w] = "rooms"]
        /\ link' = [link EXCEPT ![w] = IF @ = "fin" THEN "reset" ELSE @]
        /\ out' = out \/ out' = [out EXCEPT ![w] = Append(@, p)]
        /\ UNCHANGED loginEnabled
    BY <1>7 DEF HandleRoomLeaveRes, Receives, Show
  <2>2. Shows(w, Head(in[w]))
    BY <1>2, <2>1 DEF Shows, Tells
  <2>3. /\ currentRoomId' \in [Windows -> Rooms \cup {0}]
        /\ chatLines' \in [Windows -> Seq(Lines)]
    BY <1>2, <2>1
  <2>4. /\ link' \in [Clients -> Links] /\ (link'[w] = "up" <=> link[w] = "up")
        /\ \A d \in Clients \ {w} : link'[d] = link[d]
    BY <1>1, <1>2, <1>3, <2>1
  <2>5. p \in Packets(Requests)
    BY Bounds, RequestTypes
  <2>6. /\ out' \in [Clients -> Seq(Packets(Requests))]
        /\ out'[w] = out[w] \/ out'[w] = Append(out[w], p)
        /\ \A d \in Clients \ {w} : out'[d] = out[d]
    <3> HIDE DEF p
    <3> QED
      BY <1>1, <2>1, <2>5, OutTyped
  <2> QED
    BY <1>2, <1>3, <2>1, <2>2, <2>3, <2>4, <2>6, ReceiveKeeps
<1>8. CASE HandleChatLine(w)
  <2> DEFINE l == LineOfPacket(Head(in[w]))
  <2>1. /\ Receives(w, "S_CHAT") /\ in[w] # <<>> /\ Head(in[w]).id = "S_CHAT"
        /\ chatLines' = [chatLines EXCEPT ![w] = Append(@, l)]
        /\ UNCHANGED <<link, out, view, currentRoomId, loginEnabled>>
    BY <1>8 DEF HandleChatLine, Receives, LineOfPacket
  <2>2. Shows(w, Head(in[w]))
    BY <1>2, <2>1 DEF Shows, Tells
  <2>3. l \in Lines
    BY <1>4, <2>1
  <2>4. chatLines' \in [Windows -> Seq(Lines)]
    <3> HIDE DEF l
    <3>1. Append(chatLines[w], l) \in Seq(Lines)
      BY <1>2, <2>3
    <3> QED
      BY <1>2, <2>1, <3>1
  <2>5. \A v \in Windows \ {w} : chatLines'[v] = chatLines[v]
    BY <1>2, <2>1
  <2> QED
    BY <1>2, <1>3, <2>1, <2>2, <2>4, <2>5, ReceiveKeeps
<1>9. CASE RoomCounts(w) \/ RoomUser(w) \/ Failure(w)
  <2>1. PICK id \in {"LIST", "NOTICE", "ENTER_FAIL", "LEAVE_FAIL", "S_ERROR"} :
           Receives(w, id)
    BY <1>9 DEF RoomCounts, RoomUser, Failure, Ignore
  <2>2. UNCHANGED <<link, out, window>> /\ in[w] # <<>> /\ Head(in[w]).id = id
    BY <1>9, <2>1 DEF RoomCounts, RoomUser, Failure, Ignore, Receives
  <2>3. Shows(w, Head(in[w]))
    BY <2>1, <2>2 DEF Shows, Tells, window
  <2> QED
    BY <1>2, <2>1, <2>2, <2>3, ReceiveKeeps DEF window
<1> QED
  BY <1>5, <1>6, <1>7, <1>8, <1>9 DEF HandlePacket

-----------------------------------------------------------------------------
(* The theorems                                                            *)

\* A window that has not logged in yet has nothing on its way and no lines.
LEMMA InitHolds == ASSUME Init PROVE ChatInv
<1>1. /\ link = [c \in Clients |-> IF c \in Consoles THEN "up" ELSE "none"]
      /\ isConnected = [c \in Clients |-> c \in Consoles]
      /\ in = [w \in Windows |-> <<>>] /\ out = [c \in Clients |-> <<>>]
      /\ authenticated = [c \in Clients |-> c \in Consoles]
      /\ room = [c \in Clients |-> 0] /\ nicknames = Consoles
      /\ work = [c \in Clients |-> <<>>]
      /\ view = [w \in Windows |-> "login"] /\ currentRoomId = [w \in Windows |-> 0]
      /\ loginEnabled = [w \in Windows |-> TRUE]
      /\ chatLines = [w \in Windows |-> <<>>]
      /\ connecting = {} /\ reading = {} /\ late = {}
      /\ raising = [w \in Windows |-> 0] /\ asked = [c \in Clients |-> 0]
      /\ losses = 0 /\ said = [c \in Clients |-> 0]
      /\ overlap = [w \in Windows |-> {}]
  BY DEF Init
<1>2. \A w \in Windows : w \in Clients /\ w \notin Consoles
  BY ClientsAssumption DEF Clients
<1>3. TypeOK
  <2>1. /\ link \in [Clients -> Links] /\ view \in [Windows -> Views]
    BY <1>1 DEF Links, Views
  <2>2. /\ in \in [Windows -> Seq(Packets(Answers))]
        /\ out \in [Clients -> Seq(Packets(Requests))]
        /\ work \in [Clients -> Seq(Items)] /\ chatLines \in [Windows -> Seq(Lines)]
    BY <1>1
  <2>3. /\ isConnected \in [Clients -> BOOLEAN] /\ authenticated \in [Clients -> BOOLEAN]
        /\ room \in [Clients -> Rooms \cup {0}] /\ nicknames \subseteq Clients
        /\ currentRoomId \in [Windows -> Rooms \cup {0}]
        /\ loginEnabled \in [Windows -> BOOLEAN]
        /\ connecting \subseteq Windows /\ reading \subseteq Windows
        /\ late \subseteq Windows /\ overlap \in [Windows -> SUBSET Clients]
    BY <1>1, Windowed
  <2>4. raising \in [Windows -> 0 .. MaxLosses]
    BY <1>1, Bounds
  <2> QED
    BY <2>1, <2>2, <2>3, <2>4 DEF TypeOK
<1>4. CountInv
  <2>1. \A c \in Clients : Budget(c) \in Nat
    BY Bounds DEF Said
  <2>2. \A w \in Windows : ~Lost(w)
    BY <1>1 DEF Lost
  <2> QED
    BY <1>1, <2>1, <2>2, Bounds DEF CountInv
<1>5. LinkInv
  BY <1>1, <1>2 DEF LinkInv
<1>6. \A c \in Clients : work[c] = <<>> /\ ~Does(c, "send") /\ out[c] = <<>>
  BY <1>1 DEF Does
<1>7. PlanInv /\ CopyInv
  BY <1>1, <1>6 DEF PlanInv, PlanOf, CopyInv, CopyOf
<1>8. ViewInv /\ LineInv
  BY <1>1, <1>2 DEF ViewInv, ViewOf, LineInv, LineOf, Up
<1>9. AskInv /\ OrderInv
  <2>1. Len(<<>>) = 0
    OBVIOUS
  <2>2. \A c \in Clients : Chats(out[c]) = {}
    BY <1>6, <2>1 DEF Chats
  <2>3. \A w \in Windows : Ordered(chatLines[w], in[w])
                           /\ \A c, n : Below(chatLines[w], in[w], c, n)
    BY <1>1, <2>1 DEF Ordered, Below
  <2> QED
    BY <1>6, <2>2, <2>3 DEF AskInv, AskOf, OrderInv, OrderOf
<1> QED
  BY <1>3, <1>4, <1>5, <1>7, <1>8, <1>9 DEF ChatInv

\* Nothing happens.
LEMMA StutterKeeps == ASSUME ChatInv, UNCHANGED vars PROVE ChatInv'
<1>1. UNCHANGED <<links, server, window, loop, counts, overlap>>
  BY DEF vars
<1>2. UNCHANGED <<link, in, out, isConnected, authenticated, room, nicknames, work, view,
                  currentRoomId, loginEnabled, chatLines, connecting, reading, raising,
                  late, asked, losses, said, overlap>>
  BY <1>1 DEF links, server, window, loop, counts
<1>3. TypeOK' /\ CountInv' /\ LinkInv'
  BY <1>2 DEF ChatInv, TypeOK, CountInv, LinkInv, Lost
<1>4. PlanInv'
  BY <1>2 DEF ChatInv, PlanInv, PlanOf, Sending1, Entering, Leaving, Closing
<1>5. ViewInv' /\ LineInv'
  BY <1>2 DEF ChatInv, ViewInv, ViewOf, LineInv, LineOf, Up, Told, Does
<1>6. CopyInv' /\ AskInv' /\ OrderInv'
  BY <1>2 DEF ChatInv, CopyInv, CopyOf, AskInv, AskOf, OrderInv, OrderOf, Does
<1> QED
  BY <1>3, <1>4, <1>5, <1>6 DEF ChatInv

\* The invariant is inductive.
LEMMA StepKeeps == ASSUME ChatInv, [Next]_vars PROVE ChatInv'
<1>1. ASSUME NEW c \in Clients, ServerStep(c) PROVE ChatInv'
  <2>1. CASE Handle(c)
    BY <2>1, LoginKeeps, RoomListKeeps, EnterKeeps, LeaveKeeps, ChatKeeps DEF Handle
  <2>2. CASE ~Handle(c)
    BY <1>1, <2>2, VacateKeeps, OccupyKeeps, ReportKeeps, SendNextKeeps, GoneKeeps
       DEF ServerStep
  <2> QED
    BY <2>1, <2>2
<1>2. ASSUME NEW w \in Windows, Receive(w) PROVE ChatInv'
  BY <1>2, LoginConnectedKeeps, LoginFailsKeeps, HandlePacketKeeps, ReadFailsKeeps,
     OnDisconnectedKeeps DEF Receive, Await
<1>3. ASSUME NEW c \in Clients, ServerDisconnects(c) PROVE ChatInv'
  BY <1>3, DisconnectKeeps
<1>4. ASSUME NEW w \in Windows, NetworkReset(w) \/ Login(w) \/ Ask(w) PROVE ChatInv'
  BY <1>4, NetworkResetKeeps, LoginConnectKeeps, LoginAgainKeeps, AskKeeps DEF Login
<1>5. ASSUME NEW k \in Consoles, Command(k) \/ ConsoleDisconnects(k) PROVE ChatInv'
  BY <1>5, CommandKeeps, ConsoleDisconnectsKeeps
<1>6. CASE UNCHANGED vars
  BY <1>6, StutterKeeps
<1> QED
  BY <1>1, <1>2, <1>3, <1>4, <1>5, <1>6 DEF Next, Program

\* The strengthened invariant of windows, consoles and their sessions, for every
\* number of clients, rooms, requests and losses: the counters, the states of a
\* connection, the plan of a handler, what a window shows or is about to show,
\* and the order of the messages on their way to it.
THEOREM ChatAlways == Spec => []ChatInv
<1>1. Init => ChatInv
  BY InitHolds
<1>2. ChatInv /\ [Next]_vars => ChatInv'
  BY StepKeeps
<1> QED
  BY <1>1, <1>2, PTL DEF Spec
\* When nothing is on its way between a window and its session, the window shows
\* the view and the room of the session at the server, after any interleaving of
\* the handlers with the packets on their way, of connections lost and regained,
\* and whatever the other clients do; the fields of both ends keep their types.
\* A window that a Disconnected event of an older connection reached is excepted.
THEOREM RoomAgreesHolds == Spec => []RoomAgrees
<1>1. ChatInv => RoomAgrees
  <2>1. SUFFICES ASSUME ChatInv, NEW w \in Windows \ late, Quiet(w)
                 PROVE  /\ currentRoomId[w] = room[w]
                        /\ view[w] = IF ~authenticated[w] THEN "login"
                                     ELSE IF room[w] = 0 THEN "rooms" ELSE "chat"
    BY DEF RoomAgrees, ChatInv
  <2>2. Up(w) /\ Told(w) /\ in[w] = <<>>
    BY <2>1 DEF Quiet, Up, Told
  <2>3. ViewOf(w) /\ PlanOf(w)
    BY <2>1, Windowed, Parts
  <2>4. Mute(in[w])
    BY <2>2 DEF Mute, NoneFrom
  <2>5. CASE ~authenticated[w]
    BY <2>2, <2>3, <2>5 DEF ViewOf, PlanOf
  <2>6. CASE authenticated[w]
    <3>1. Agrees(in[w], room[w], currentRoomId[w], view[w])
      BY <2>2, <2>3, <2>6 DEF ViewOf
    <3> QED
      BY <2>4, <2>6, <3>1 DEF Agrees
  <2> QED
    BY <2>5, <2>6
<1> QED
  BY <1>1, ChatAlways, PTL

\* Then every line of its chat is of the room of its session, or of a sender
\* whose Broadcast had copied the window's session when it left a room.
THEOREM OwnLinesHolds == Spec => []OwnLines
<1>1. ChatInv => OwnLines
  <2>1. SUFFICES ASSUME ChatInv, NEW w \in Windows \ late, Quiet(w), view[w] = "chat",
                        NEW i \in 1 .. Len(chatLines[w])
                 PROVE  chatLines[w][i].room = room[w] \/ chatLines[w][i].from \in overlap[w]
    BY DEF OwnLines
  <2>2. Up(w) /\ Told(w) /\ in[w] = <<>>
    BY <2>1 DEF Quiet, Up, Told
  <2>3. ViewOf(w) /\ LineOf(w)
    BY <2>1, Windowed, Parts
  <2>4. NoneFrom(in[w], 1, Tells) /\ NoneFrom(in[w], 1, Clears)
    BY <2>2 DEF NoneFrom
  <2>5. authenticated[w]
    BY <2>1, <2>2, <2>3 DEF ViewOf
  <2>6. room[w] # 0
    BY <2>1, <2>2, <2>3, <2>4, <2>5 DEF ViewOf, Agrees, Mute
  <2>7. Belong(in[w], chatLines[w], room[w], overlap[w])
    BY <2>2, <2>3, <2>6 DEF LineOf
  <2> QED
    BY <2>4, <2>7 DEF Belong, Of
<1> QED
  BY <1>1, ChatAlways, PTL

\* A window shows the messages of one sender in the order in which the sender
\* entered them: across the request queue of its session, the loop of Broadcast,
\* changes of room and connections that are lost and regained.
THEOREM SenderOrderHolds == Spec => []SenderOrder
<1>1. ChatInv => SenderOrder
  BY DEF ChatInv, OrderInv, Ordered, SenderOrder
<1> QED
  BY <1>1, ChatAlways, PTL
=============================================================================
