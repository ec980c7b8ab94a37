------------------------- MODULE ChatPresence_proofs -------------------------
(***************************************************************************)
(* Proofs about ChatPresence for any number of sessions, rooms, names and  *)
(* packets.                                                                *)
(*                                                                         *)
(* The argument: while a session is connected only its handler touches its *)
(* fields and its place in the rooms, and what the handler has yet to do   *)
(* tells how far they agree (Story).  A name belongs to the session that   *)
(* has it, or is being given it, until the session's closer has logged it  *)
(* out (Held); a session is in late as soon as its handler and its closer  *)
(* can overlap, and only such a session may lose a name it was granted     *)
(* without giving it back (LostLate).                                      *)
(***************************************************************************)
EXTENDS ChatPresence, FiniteSetTheorems, SequenceTheorems,
        WellFoundedInduction, TLAPS

-----------------------------------------------------------------------------
(* What actors have to do                                                  *)

Put(label, rest) == <<label>> \o rest
One(label) == Put(label, <<>>)

\* LeaveRoom after the room is left, then `rest'; EnterRoom and HandleChat end
\* like the last steps of it.
Leaving1(rest) == Put("send", rest)
Leaving2(rest) == Put("copy", Leaving1(rest))
Leaving3(rest) == Put("count", Leaving2(rest))
Leaving4(rest) == Put("unset", Leaving3(rest))
Leaving5(rest) == Put("vacate", Leaving4(rest))
LeavingFrom(rest) == {Leaving2(rest), Leaving3(rest), Leaving4(rest),
                      Leaving5(rest)}
Leaving(rest) == {Leaving1(rest)} \cup LeavingFrom(rest)

\* HandleLogin after the name is reserved.
Login1 == One("list")
Login2 == Put("authenticate", Login1)
Login3 == Put("name", Login2)

\* EnterRoom.
Join4 == Put("inroom", Leaving3(<<>>))
Join5 == Put("count", Join4)
Join6 == Put("set", Join5)
Join7 == Put("occupy", Join6)
Move == Put("leave", Join7)

\* HandleLeaveRoom after LeaveRoom.
Quit1 == One("left")

\* OnDisconnected.
Down1 == One("forget")
Down2 == Put("rename", Down1)
Down3 == Put("restart", Down2)
Down4 == Put("logout", Down3)
Down5 == Put("depart", Down4)
Exit == Put("leave", Down4)

\* A handler with a room in the local roomId, and with a room id to enter.
Located == LeavingFrom(<<>>) \cup LeavingFrom(Join7) \cup LeavingFrom(Quit1)
           \cup {Join4, Join5, Join6}
Headed == Leaving(Join7) \cup {Join7, Move}

Free == {<<>>, One("login"), One("reserve"), Login3, Login2, Login1,
         One("enter"), One("admit"), One("quit"), One("remove"), Quit1,
         One("chat"), One("find")}

HandlerPlans ==
    Located \cup Headed \cup Leaving(<<>>) \cup Leaving(Quit1) \cup Free

Before == Leaving(Down4) \cup {Down5, Down4, Exit}
After == {Down3, Down2, Down1, <<>>}

-----------------------------------------------------------------------------
(* The inductive invariant                                                 *)

Plan(s) ==
    /\ todo[Handler(s)] \in HandlerPlans
    /\ todo[Closer(s)] \in Before \cup After
    /\ todo[Handler(s)] \in Located => from[Handler(s)] \in Rooms
    /\ todo[Handler(s)] \in Headed => goal[s] \in Rooms
    /\ todo[Closer(s)] \in LeavingFrom(Down4) => from[Closer(s)] \in Rooms
PlanInv == \A s \in Sessions : Plan(s)

\* Nobody tears down a session that is connected.
Link(s) == connected[s] => alive[s] /\ Idle(Closer(s))
LinkInv == \A s \in Sessions : Link(s)

\* The rooms that know s, and whether this is what currentRoomId says.
In(s) == {r \in Rooms : s \in members[r]}
Placed(s) == In(s) = {currentRoomId[s]} \cap Rooms

Named(s) == state[s] # "Connected" /\ nickname[s] # None
Calm(s) == /\ Placed(s)
           /\ state[s] = "Connected" <=> nickname[s] = None
           /\ state[s] = "InRoom" <=> currentRoomId[s] # 0

\* The plans of a handler between whose steps the fields agree.
CalmPlans == {<<>>, One("login"), One("enter"), One("quit"), One("chat"),
              One("find"), Login1, Leaving3(<<>>), Leaving2(<<>>),
              Leaving1(<<>>)}

\* What the fields of a connected session are while its handler has todo to do.
Outside(s) == /\ todo[Handler(s)] \in {One("reserve"), Login3}
              /\ Calm(s) /\ state[s] = "Connected"
Naming(s) == /\ todo[Handler(s)] = Login2
             /\ Placed(s) /\ currentRoomId[s] = 0
             /\ state[s] = "Connected" /\ nickname[s] # None
Inside(s) == /\ todo[Handler(s)] \in {One("admit"), One("remove"), Move}
             /\ Calm(s) /\ Named(s)
             /\ todo[Handler(s)] = One("admit") \/ currentRoomId[s] # 0
Going(s) == /\ todo[Handler(s)] \in {Leaving5(Join7), Leaving5(Quit1)}
            /\ Calm(s) /\ Named(s) /\ from[Handler(s)] = currentRoomId[s]
Gone(s) == /\ todo[Handler(s)] \in {Leaving4(Join7), Leaving4(Quit1)}
           /\ In(s) = {} /\ Named(s)
Nowhere(s) == /\ todo[Handler(s)] \in
                    {Leaving3(Join7), Leaving2(Join7), Leaving1(Join7), Join7,
                     Leaving3(Quit1), Leaving2(Quit1), Leaving1(Quit1), Quit1}
              /\ In(s) = {} /\ currentRoomId[s] = 0 /\ Named(s)
Arriving(s) == /\ todo[Handler(s)] = Join6
               /\ In(s) = {goal[s]} /\ Named(s) /\ goal[s] \in Rooms
Arrived(s) == /\ todo[Handler(s)] \in {Join5, Join4}
              /\ Placed(s) /\ currentRoomId[s] # 0 /\ Named(s)

Story(s) == \/ todo[Handler(s)] \in CalmPlans /\ Calm(s)
            \/ Outside(s) \/ Naming(s) \/ Inside(s) \/ Going(s)
            \/ Gone(s) \/ Nowhere(s) \/ Arriving(s) \/ Arrived(s)
StoryInv == \A s \in Sessions : connected[s] => Story(s)

\* OnDisconnected has logged s out, and the names that are reserved for s.
LoggedOut(s) == ~connected[s] /\ todo[Closer(s)] \in After
Naming3(s) == At(Handler(s), "name")
Held(s, n) == /\ n # None
              /\ \/ nickname[s] = n /\ ~LoggedOut(s)
                 \/ asked[s] = n /\ Naming3(s)

Reserved == \A s \in Sessions :
               /\ nickname[s] # None /\ ~LoggedOut(s) => nickname[s] \in nicknames
               /\ Naming3(s) => asked[s] \in nicknames
Apart == \A s, t \in Sessions, n \in nicknames :
            Held(s, n) /\ Held(t, n) => s = t
Fresh == \A s \in Sessions : Naming3(s) =>
            /\ asked[s] # None
            /\ LoggedOut(s) \/ nickname[s] # asked[s]
\* Login has given the name away, and it is still held or was lost late.
LostLate(s, n) == s \in late /\ <<s, n>> \in granted
Owned == /\ \A s \in Sessions : \A n : Held(s, n) => <<s, n>> \in granted
         /\ \A n \in nicknames : \E s \in Sessions : Held(s, n) \/ LostLate(s, n)
Late(s) == ~connected[s] /\ ~Idle(Handler(s)) => s \in late
LateInv == \A s \in Sessions : Late(s)
NamesInv == /\ IsFiniteSet(nicknames)
            /\ Reserved /\ Apart /\ Fresh /\ Owned /\ LateInv

ChatInv == TypeOK /\ PlanInv /\ LinkInv /\ StoryInv /\ NamesInv

-----------------------------------------------------------------------------
(* Lists of labels                                                         *)

LEMMA PutProperties ==
    ASSUME NEW x \in Labels, NEW r \in Seq(Labels)
    PROVE  /\ Put(x, r) \in Seq(Labels) /\ Put(x, r) # <<>>
           /\ Head(Put(x, r)) = x /\ Tail(Put(x, r)) = r
<1> DEFINE a == <<x>>
<1>1. a \in Seq(Labels) /\ Len(a) = 1 /\ a[1] = x
  OBVIOUS
<1>2. /\ Put(x, r) \in Seq(Labels) /\ Len(Put(x, r)) = 1 + Len(r)
      /\ \A i \in 1..1 + Len(r) :
            Put(x, r)[i] = IF i <= 1 THEN a[i] ELSE r[i - 1]
  BY <1>1, ConcatProperties DEF Put
<1>3. Len(r) \in Nat /\ Len(<<>>) = 0
  BY LenProperties
<1>4. Put(x, r) # <<>>
  BY <1>2, <1>3
<1>5. Put(x, r)[1] = x
  BY <1>1, <1>2, <1>3
<1>6. Head(Put(x, r)) = x
  BY <1>4, <1>5
<1>7. /\ Tail(Put(x, r)) \in Seq(Labels)
      /\ Len(Tail(Put(x, r))) = Len(Put(x, r)) - 1
      /\ \A i \in 1..Len(Tail(Put(x, r))) :
            Tail(Put(x, r))[i] = Put(x, r)[i + 1]
  BY <1>2, <1>4, HeadTailProperties
<1>8. Len(Tail(Put(x, r))) = Len(r)
  BY <1>2, <1>3, <1>7
<1>9. ASSUME NEW i \in 1..Len(Tail(Put(x, r)))
      PROVE  Tail(Put(x, r))[i] = r[i]
  BY <1>2, <1>3, <1>7, <1>8, <1>9
<1>10. Tail(Put(x, r)) = r
  BY <1>7, <1>8, <1>9, SeqEqual
<1> QED
  BY <1>2, <1>4, <1>6, <1>10

LEMMA Labelled ==
    /\ "login" \in Labels /\ "reserve" \in Labels /\ "name" \in Labels
    /\ "authenticate" \in Labels /\ "list" \in Labels /\ "enter" \in Labels
    /\ "admit" \in Labels /\ "occupy" \in Labels /\ "set" \in Labels
    /\ "inroom" \in Labels /\ "count" \in Labels /\ "quit" \in Labels
    /\ "remove" \in Labels /\ "leave" \in Labels /\ "vacate" \in Labels
    /\ "unset" \in Labels /\ "left" \in Labels /\ "chat" \in Labels
    /\ "find" \in Labels /\ "copy" \in Labels /\ "send" \in Labels
    /\ "depart" \in Labels /\ "logout" \in Labels /\ "restart" \in Labels
    /\ "rename" \in Labels /\ "forget" \in Labels
  BY DEF Labels

LEMMA Nil == <<>> \in Seq(Labels)
  OBVIOUS

LEMMA OneProperties ==
    ASSUME NEW x \in Labels
    PROVE  /\ One(x) \in Seq(Labels) /\ One(x) # <<>>
           /\ Head(One(x)) = x /\ Tail(One(x)) = <<>> /\ One(x) = <<x>>
<1>1. <<x>> \in Seq(Labels)
  OBVIOUS
<1> QED
  BY <1>1, Nil, PutProperties, ConcatEmptySeq DEF One, Put

LEMMA LeavingProperties ==
    ASSUME NEW r \in Seq(Labels)
    PROVE  /\ Leaving1(r) \in Seq(Labels) /\ Leaving1(r) # <<>>
           /\ Head(Leaving1(r)) = "send" /\ Tail(Leaving1(r)) = r
           /\ Leaving2(r) \in Seq(Labels) /\ Leaving2(r) # <<>>
           /\ Head(Leaving2(r)) = "copy" /\ Tail(Leaving2(r)) = Leaving1(r)
           /\ Leaving3(r) \in Seq(Labels) /\ Leaving3(r) # <<>>
           /\ Head(Leaving3(r)) = "count" /\ Tail(Leaving3(r)) = Leaving2(r)
           /\ Leaving4(r) \in Seq(Labels) /\ Leaving4(r) # <<>>
           /\ Head(Leaving4(r)) = "unset" /\ Tail(Leaving4(r)) = Leaving3(r)
           /\ Leaving5(r) \in Seq(Labels) /\ Leaving5(r) # <<>>
           /\ Head(Leaving5(r)) = "vacate" /\ Tail(Leaving5(r)) = Leaving4(r)
<1>1. /\ Leaving1(r) \in Seq(Labels) /\ Leaving1(r) # <<>>
      /\ Head(Leaving1(r)) = "send" /\ Tail(Leaving1(r)) = r
  BY Labelled, PutProperties DEF Leaving1
<1>2. /\ Leaving2(r) \in Seq(Labels) /\ Leaving2(r) # <<>>
      /\ Head(Leaving2(r)) = "copy" /\ Tail(Leaving2(r)) = Leaving1(r)
  BY <1>1, Labelled, PutProperties DEF Leaving2
<1>3. /\ Leaving3(r) \in Seq(Labels) /\ Leaving3(r) # <<>>
      /\ Head(Leaving3(r)) = "count" /\ Tail(Leaving3(r)) = Leaving2(r)
  BY <1>2, Labelled, PutProperties DEF Leaving3
<1>4. /\ Leaving4(r) \in Seq(Labels) /\ Leaving4(r) # <<>>
      /\ Head(Leaving4(r)) = "unset" /\ Tail(Leaving4(r)) = Leaving3(r)
  BY <1>3, Labelled, PutProperties DEF Leaving4
<1>5. /\ Leaving5(r) \in Seq(Labels) /\ Leaving5(r) # <<>>
      /\ Head(Leaving5(r)) = "vacate" /\ Tail(Leaving5(r)) = Leaving4(r)
  BY <1>4, Labelled, PutProperties DEF Leaving5
<1> QED
  BY <1>1, <1>2, <1>3, <1>4, <1>5

LEMMA LoginProperties ==
    /\ Login1 \in Seq(Labels) /\ Login1 # <<>>
    /\ Head(Login1) = "list" /\ Tail(Login1) = <<>>
    /\ Login2 \in Seq(Labels) /\ Login2 # <<>>
    /\ Head(Login2) = "authenticate" /\ Tail(Login2) = Login1
    /\ Login3 \in Seq(Labels) /\ Login3 # <<>>
    /\ Head(Login3) = "name" /\ Tail(Login3) = Login2
<1>1. /\ Login1 \in Seq(Labels) /\ Login1 # <<>>
      /\ Head(Login1) = "list" /\ Tail(Login1) = <<>>
  BY Labelled, OneProperties DEF Login1
<1>2. /\ Login2 \in Seq(Labels) /\ Login2 # <<>>
      /\ Head(Login2) = "authenticate" /\ Tail(Login2) = Login1
  BY <1>1, Labelled, PutProperties DEF Login2
<1>3. /\ Login3 \in Seq(Labels) /\ Login3 # <<>>
      /\ Head(Login3) = "name" /\ Tail(Login3) = Login2
  BY <1>2, Labelled, PutProperties DEF Login3
<1> QED
  BY <1>1, <1>2, <1>3

LEMMA JoinProperties ==
    /\ Join4 \in Seq(Labels) /\ Join4 # <<>>
    /\ Head(Join4) = "inroom" /\ Tail(Join4) = Leaving3(<<>>)
    /\ Join5 \in Seq(Labels) /\ Join5 # <<>>
    /\ Head(Join5) = "count" /\ Tail(Join5) = Join4
    /\ Join6 \in Seq(Labels) /\ Join6 # <<>>
    /\ Head(Join6) = "set" /\ Tail(Join6) = Join5
    /\ Join7 \in Seq(Labels) /\ Join7 # <<>>
    /\ Head(Join7) = "occupy" /\ Tail(Join7) = Join6
    /\ Move \in Seq(Labels) /\ Move # <<>>
    /\ Head(Move) = "leave" /\ Tail(Move) = Join7
<1>3. Leaving3(<<>>) \in Seq(Labels)
  BY Nil, LeavingProperties
<1>4. /\ Join4 \in Seq(Labels) /\ Join4 # <<>>
      /\ Head(Join4) = "inroom" /\ Tail(Join4) = Leaving3(<<>>)
  BY <1>3, Labelled, PutProperties DEF Join4
<1>5. /\ Join5 \in Seq(Labels) /\ Join5 # <<>>
      /\ Head(Join5) = "count" /\ Tail(Join5) = Join4
  BY <1>4, Labelled, PutProperties DEF Join5
<1>6. /\ Join6 \in Seq(Labels) /\ Join6 # <<>>
      /\ Head(Join6) = "set" /\ Tail(Join6) = Join5
  BY <1>5, Labelled, PutProperties DEF Join6
<1>7. /\ Join7 \in Seq(Labels) /\ Join7 # <<>>
      /\ Head(Join7) = "occupy" /\ Tail(Join7) = Join6
  BY <1>6, Labelled, PutProperties DEF Join7
<1>8. /\ Move \in Seq(Labels) /\ Move # <<>>
      /\ Head(Move) = "leave" /\ Tail(Move) = Join7
  BY <1>7, Labelled, PutProperties DEF Move
<1> QED
  BY <1>4, <1>5, <1>6, <1>7, <1>8

LEMMA DownProperties ==
    /\ Down1 \in Seq(Labels) /\ Down1 # <<>>
    /\ Head(Down1) = "forget" /\ Tail(Down1) = <<>>
    /\ Down2 \in Seq(Labels) /\ Down2 # <<>>
    /\ Head(Down2) = "rename" /\ Tail(Down2) = Down1
    /\ Down3 \in Seq(Labels) /\ Down3 # <<>>
    /\ Head(Down3) = "restart" /\ Tail(Down3) = Down2
    /\ Down4 \in Seq(Labels) /\ Down4 # <<>>
    /\ Head(Down4) = "logout" /\ Tail(Down4) = Down3
    /\ Down5 \in Seq(Labels) /\ Down5 # <<>>
    /\ Head(Down5) = "depart" /\ Tail(Down5) = Down4
    /\ Exit \in Seq(Labels) /\ Exit # <<>>
    /\ Head(Exit) = "leave" /\ Tail(Exit) = Down4
<1>1. /\ Down1 \in Seq(Labels) /\ Down1 # <<>>
      /\ Head(Down1) = "forget" /\ Tail(Down1) = <<>>
  BY Labelled, OneProperties DEF Down1
<1>2. /\ Down2 \in Seq(Labels) /\ Down2 # <<>>
      /\ Head(Down2) = "rename" /\ Tail(Down2) = Down1
  BY <1>1, Labelled, PutProperties DEF Down2
<1>3. /\ Down3 \in Seq(Labels) /\ Down3 # <<>>
      /\ Head(Down3) = "restart" /\ Tail(Down3) = Down2
  BY <1>2, Labelled, PutProperties DEF Down3
<1>4. /\ Down4 \in Seq(Labels) /\ Down4 # <<>>
      /\ Head(Down4) = "logout" /\ Tail(Down4) = Down3
  BY <1>3, Labelled, PutProperties DEF Down4
<1>5. /\ Down5 \in Seq(Labels) /\ Down5 # <<>>
      /\ Head(Down5) = "depart" /\ Tail(Down5) = Down4
  BY <1>4, Labelled, PutProperties DEF Down5
<1>6. /\ Exit \in Seq(Labels) /\ Exit # <<>>
      /\ Head(Exit) = "leave" /\ Tail(Exit) = Down4
  BY <1>4, Labelled, PutProperties DEF Exit
<1> QED
  BY <1>1, <1>2, <1>3, <1>4, <1>5, <1>6

LEMMA SingleProperties ==
    /\ One("login") \in Seq(Labels) /\ One("login") # <<>>
    /\ Head(One("login")) = "login" /\ Tail(One("login")) = <<>>
    /\ One("reserve") \in Seq(Labels) /\ One("reserve") # <<>>
    /\ Head(One("reserve")) = "reserve" /\ Tail(One("reserve")) = <<>>
    /\ One("enter") \in Seq(Labels) /\ One("enter") # <<>>
    /\ Head(One("enter")) = "enter" /\ Tail(One("enter")) = <<>>
    /\ One("admit") \in Seq(Labels) /\ One("admit") # <<>>
    /\ Head(One("admit")) = "admit" /\ Tail(One("admit")) = <<>>
    /\ One("quit") \in Seq(Labels) /\ One("quit") # <<>>
    /\ Head(One("quit")) = "quit" /\ Tail(One("quit")) = <<>>
    /\ One("remove") \in Seq(Labels) /\ One("remove") # <<>>
    /\ Head(One("remove")) = "remove" /\ Tail(One("remove")) = <<>>
    /\ Quit1 \in Seq(Labels) /\ Quit1 # <<>>
    /\ Head(Quit1) = "left" /\ Tail(Quit1) = <<>>
    /\ One("chat") \in Seq(Labels) /\ One("chat") # <<>>
    /\ Head(One("chat")) = "chat" /\ Tail(One("chat")) = <<>>
    /\ One("find") \in Seq(Labels) /\ One("find") # <<>>
    /\ Head(One("find")) = "find" /\ Tail(One("find")) = <<>>
  BY Labelled, OneProperties DEF Quit1

LEMMA Listed ==
    ASSUME NEW x \in Labels, NEW q \in Seq(Labels), NEW t \in Seq(Labels),
           Len(t) = Len(q) + 1, t[1] = x, \A i \in 1..Len(q) : t[i + 1] = q[i]
    PROVE  t = Put(x, q)
<1> DEFINE a == <<x>>
<1>1. a \in Seq(Labels) /\ Len(a) = 1 /\ a[1] = x
  OBVIOUS
<1>2. /\ Put(x, q) \in Seq(Labels) /\ Len(Put(x, q)) = 1 + Len(q)
      /\ \A i \in 1..1 + Len(q) :
            Put(x, q)[i] = IF i <= 1 THEN a[i] ELSE q[i - 1]
  BY <1>1, ConcatProperties DEF Put
<1>3. Len(q) \in Nat
  BY LenProperties
<1>4. ASSUME NEW i \in 1..Len(t)
      PROVE  t[i] = Put(x, q)[i]
  <2>1. i \in 1..1 + Len(q)
    BY <1>3
  <2>2. CASE i = 1
    BY <1>1, <1>2, <2>1, <2>2
  <2>3. CASE i # 1
    <3>1. i - 1 \in 1..Len(q) /\ (i - 1) + 1 = i /\ ~(i <= 1)
      BY <1>3, <2>1, <2>3
    <3>2. t[i] = q[i - 1]
      BY <3>1
    <3> QED
      BY <1>2, <2>1, <3>1, <3>2
  <2> QED
    BY <2>2, <2>3
<1> QED
  BY <1>2, <1>3, <1>4, SeqEqual

LEMMA Listed2 ==
    ASSUME NEW a \in Labels, NEW b \in Labels
    PROVE  <<a, b>> = Put(a, <<b>>)
<1> DEFINE t == <<a, b>>
           q == <<b>>
<1>1. /\ t \in Seq(Labels) /\ q \in Seq(Labels) /\ Len(t) = 2 /\ Len(q) = 1
      /\ t[1] = a /\ \A i \in 1..1 : t[i + 1] = q[i]
  OBVIOUS
<1> HIDE DEF t, q
<1>2. Len(t) = Len(q) + 1 /\ \A i \in 1..Len(q) : t[i + 1] = q[i]
  BY <1>1
<1>3. t = Put(a, q)
  BY <1>1, <1>2, Listed
<1> QED
  BY <1>3 DEF t, q

LEMMA Listed3 ==
    ASSUME NEW a \in Labels, NEW b \in Labels, NEW c \in Labels
    PROVE  <<a, b, c>> = Put(a, <<b, c>>)
<1> DEFINE t == <<a, b, c>>
           q == <<b, c>>
<1>1. /\ t \in Seq(Labels) /\ q \in Seq(Labels) /\ Len(t) = 3 /\ Len(q) = 2
      /\ t[1] = a /\ \A i \in 1..2 : t[i + 1] = q[i]
  OBVIOUS
<1> HIDE DEF t, q
<1>2. Len(t) = Len(q) + 1 /\ \A i \in 1..Len(q) : t[i + 1] = q[i]
  BY <1>1
<1>3. t = Put(a, q)
  BY <1>1, <1>2, Listed
<1> QED
  BY <1>3 DEF t, q

LEMMA Listed4 ==
    ASSUME NEW a \in Labels, NEW b \in Labels, NEW c \in Labels,
           NEW d \in Labels
    PROVE  <<a, b, c, d>> = Put(a, <<b, c, d>>)
<1> DEFINE t == <<a, b, c, d>>
           q == <<b, c, d>>
<1>1. /\ t \in Seq(Labels) /\ q \in Seq(Labels) /\ Len(t) = 4 /\ Len(q) = 3
      /\ t[1] = a /\ \A i \in 1..3 : t[i + 1] = q[i]
  OBVIOUS
<1> HIDE DEF t, q
<1>2. Len(t) = Len(q) + 1 /\ \A i \in 1..Len(q) : t[i + 1] = q[i]
  BY <1>1
<1>3. t = Put(a, q)
  BY <1>1, <1>2, Listed
<1> QED
  BY <1>3 DEF t, q

LEMMA Listed5 ==
    ASSUME NEW a \in Labels, NEW b \in Labels, NEW c \in Labels,
           NEW d \in Labels, NEW e \in Labels
    PROVE  <<a, b, c, d, e>> = Put(a, <<b, c, d, e>>)
<1> DEFINE t == <<a, b, c, d, e>>
           q == <<b, c, d, e>>
<1>1. /\ t \in Seq(Labels) /\ q \in Seq(Labels) /\ Len(t) = 5 /\ Len(q) = 4
      /\ t[1] = a /\ \A i \in 1..4 : t[i + 1] = q[i]
  OBVIOUS
<1> HIDE DEF t, q
<1>2. Len(t) = Len(q) + 1 /\ \A i \in 1..Len(q) : t[i + 1] = q[i]
  BY <1>1
<1>3. t = Put(a, q)
  BY <1>1, <1>2, Listed
<1> QED
  BY <1>3 DEF t, q

LEMMA Listed6 ==
    ASSUME NEW a \in Labels, NEW b \in Labels, NEW c \in Labels,
           NEW d \in Labels, NEW e \in Labels, NEW f \in Labels
    PROVE  <<a, b, c, d, e, f>> = Put(a, <<b, c, d, e, f>>)
<1> DEFINE t == <<a, b, c, d, e, f>>
           q == <<b, c, d, e, f>>
<1>1. /\ t \in Seq(Labels) /\ q \in Seq(Labels) /\ Len(t) = 6 /\ Len(q) = 5
      /\ t[1] = a /\ \A i \in 1..5 : t[i + 1] = q[i]
  OBVIOUS
<1> HIDE DEF t, q
<1>2. Len(t) = Len(q) + 1 /\ \A i \in 1..Len(q) : t[i + 1] = q[i]
  BY <1>1
<1>3. t = Put(a, q)
  BY <1>1, <1>2, Listed
<1> QED
  BY <1>3 DEF t, q

LEMMA ListedJoin ==
    Join = Put("occupy", <<"set", "count", "inroom", "count", "copy", "send">>)
<1> DEFINE q == <<"set", "count", "inroom", "count", "copy", "send">>
<1>1. /\ Join \in Seq(Labels) /\ q \in Seq(Labels) /\ Len(Join) = 7 /\ Len(q) = 6
      /\ Join[1] = "occupy" /\ \A i \in 1..6 : Join[i + 1] = q[i]
  BY Labelled DEF Join
<1> HIDE DEF q
<1>2. Len(Join) = Len(q) + 1 /\ \A i \in 1..Len(q) : Join[i + 1] = q[i]
  BY <1>1
<1>3. Join = Put("occupy", q)
  BY <1>1, <1>2, Labelled, Listed
<1> QED
  BY <1>3 DEF q

\* The calls of the actions make these lists.
LEMMA Calls ==
    /\ <<"name", "authenticate", "list">> = Login3
    /\ Join = Join7
    /\ <<"leave">> \o Join = Move
    /\ <<"count", "copy", "send">> = Leaving3(<<>>)
    /\ <<"copy", "send">> = Leaving2(<<>>)
    /\ <<"depart", "logout", "restart", "rename", "forget">> = Down5
<1>a. /\ "set" \in Labels /\ "count" \in Labels /\ "inroom" \in Labels
      /\ "copy" \in Labels /\ "send" \in Labels
  BY Labelled
<1>1. <<"name", "authenticate", "list">> = Login3
  <2>1. One("list") = <<"list">>
    BY OneProperties, Labelled
  <2>2. <<"authenticate", "list">> = Login2
    BY <2>1, Listed2, Labelled DEF Login2, Login1
  <2>3. <<"name", "authenticate", "list">>
        = Put("name", <<"authenticate", "list">>)
    BY Listed3, Labelled
  <2> QED
    BY <2>2, <2>3 DEF Login3
<1>2. <<"copy", "send">> = Leaving2(<<>>)
  BY Listed2, OneProperties, Labelled DEF Leaving2, Leaving1, One
<1>3. <<"count", "copy", "send">> = Leaving3(<<>>)
  BY <1>2, Listed3, Labelled DEF Leaving3
<1>4. <<"inroom", "count", "copy", "send">> = Join4
  BY <1>3, Listed4, Labelled DEF Join4
<1>5. <<"count", "inroom", "count", "copy", "send">> = Join5
  <2>1. <<"count", "inroom", "count", "copy", "send">>
        = Put("count", <<"inroom", "count", "copy", "send">>)
    BY <1>a, Listed5
  <2> QED
    BY <1>4, <2>1 DEF Join5
<1>6. <<"set", "count", "inroom", "count", "copy", "send">> = Join6
  <2>1. <<"set", "count", "inroom", "count", "copy", "send">>
        = Put("set", <<"count", "inroom", "count", "copy", "send">>)
    BY <1>a, Listed6
  <2> QED
    BY <1>5, <2>1 DEF Join6
<1>7. Join = Join7
  <2>1. Join = Put("occupy",
                   <<"set", "count", "inroom", "count", "copy", "send">>)
    BY ListedJoin
  <2> QED
    BY <1>6, <2>1 DEF Join7
<1>8. <<"leave">> \o Join = Move
  BY <1>7 DEF Move, Put
<1>9. <<"depart", "logout", "restart", "rename", "forget">> = Down5
  <2>0. One("forget") = <<"forget">>
    BY OneProperties, Labelled
  <2>1. <<"rename", "forget">> = Down2
    BY <2>0, Listed2, Labelled DEF Down2, Down1
  <2>2. <<"restart", "rename", "forget">> = Down3
    BY <2>1, Listed3, Labelled DEF Down3
  <2>3. <<"logout", "restart", "rename", "forget">> = Down4
    BY <2>2, Listed4, Labelled DEF Down4
  <2>4. <<"depart", "logout", "restart", "rename", "forget">>
        = Put("depart", <<"logout", "restart", "rename", "forget">>)
    <3>1. /\ "depart" \in Labels /\ "logout" \in Labels /\ "restart" \in Labels
          /\ "rename" \in Labels /\ "forget" \in Labels
      BY Labelled
    <3> QED
      BY <3>1, Listed5
  <2> QED
    BY <2>3, <2>4 DEF Down5
<1> QED
  BY <1>1, <1>2, <1>3, <1>7, <1>8, <1>9

\* What LeaveRoom has to do, and then its caller.
LEMMA LeaveCalls ==
    ASSUME NEW r \in Seq(Labels)
    PROVE  /\ (<<"vacate", "unset", "count", "copy", "send">> \o <<>>) \o r
                 = Leaving5(r)
           /\ (<<"vacate", "unset", "count", "copy", "send">> \o <<"left">>)
                 \o <<>> = Leaving5(Quit1)
<1>1. ASSUME NEW x \in Labels, NEW p \in Seq(Labels), NEW q \in Seq(Labels)
      PROVE  Put(x, p) \o q = Put(x, p \o q)
  <2>1. <<x>> \in Seq(Labels)
    BY OneProperties
  <2> QED
    BY <2>1, ConcatAssociative DEF Put
<1>2. /\ Leaving1(<<>>) \in Seq(Labels) /\ Leaving2(<<>>) \in Seq(Labels)
      /\ Leaving3(<<>>) \in Seq(Labels) /\ Leaving4(<<>>) \in Seq(Labels)
      /\ Leaving5(<<>>) \in Seq(Labels)
  BY Nil, LeavingProperties
<1>3. ASSUME NEW q \in Seq(Labels)
      PROVE  Leaving5(<<>>) \o q = Leaving5(q)
  <2>0. <<>> \o q = q
    BY ConcatEmptySeq
  <2>1. Leaving1(<<>>) \o q = Leaving1(q)
    <3>1. "send" \in Labels /\ <<>> \in Seq(Labels)
      BY <1>2, Nil, Labelled
    <3>2. Put("send", <<>>) \o q = Put("send", <<>> \o q)
      BY <1>1, <3>1
    <3> QED
      BY <2>0, <3>2 DEF Leaving1
  <2>2. Leaving2(<<>>) \o q = Leaving2(q)
    <3>1. "copy" \in Labels /\ Leaving1(<<>>) \in Seq(Labels)
      BY <1>2, Nil, Labelled
    <3>2. Put("copy", Leaving1(<<>>)) \o q = Put("copy", Leaving1(<<>>) \o q)
      BY <1>1, <3>1
    <3> QED
      BY <2>1, <3>2 DEF Leaving2
  <2>3. Leaving3(<<>>) \o q = Leaving3(q)
    <3>1. "count" \in Labels /\ Leaving2(<<>>) \in Seq(Labels)
      BY <1>2, Nil, Labelled
    <3>2. Put("count", Leaving2(<<>>)) \o q = Put("count", Leaving2(<<>>) \o q)
      BY <1>1, <3>1
    <3> QED
      BY <2>2, <3>2 DEF Leaving3
  <2>4. Leaving4(<<>>) \o q = Leaving4(q)
    <3>1. "unset" \in Labels /\ Leaving3(<<>>) \in Seq(Labels)
      BY <1>2, Nil, Labelled
    <3>2. Put("unset", Leaving3(<<>>)) \o q = Put("unset", Leaving3(<<>>) \o q)
      BY <1>1, <3>1
    <3> QED
      BY <2>3, <3>2 DEF Leaving4
  <2>5. Leaving5(<<>>) \o q = Leaving5(q)
    <3>1. "vacate" \in Labels /\ Leaving4(<<>>) \in Seq(Labels)
      BY <1>2, Nil, Labelled
    <3>2. Put("vacate", Leaving4(<<>>)) \o q = Put("vacate", Leaving4(<<>>) \o q)
      BY <1>1, <3>1
    <3> QED
      BY <2>4, <3>2 DEF Leaving5
  <2> QED
    BY <2>5
<1>4. <<"vacate", "unset", "count", "copy", "send">> = Leaving5(<<>>)
  <2>1. <<"count", "copy", "send">> = Leaving3(<<>>)
    BY Calls
  <2>2. <<"unset", "count", "copy", "send">> = Leaving4(<<>>)
    BY <2>1, Listed4, Labelled DEF Leaving4
  <2>3. <<"vacate", "unset", "count", "copy", "send">>
        = Put("vacate", <<"unset", "count", "copy", "send">>)
    <3>1. /\ "vacate" \in Labels /\ "unset" \in Labels /\ "count" \in Labels
          /\ "copy" \in Labels /\ "send" \in Labels
      BY Labelled
    <3> QED
      BY <3>1, Listed5
  <2> QED
    BY <2>2, <2>3 DEF Leaving5
<1>5. <<"left">> = Quit1 /\ Quit1 \in Seq(Labels) /\ Leaving5(Quit1) \in Seq(Labels)
  BY OneProperties, LeavingProperties, Labelled DEF Quit1
<1> QED
  BY <1>2, <1>3, <1>4, <1>5, ConcatEmptySeq

-----------------------------------------------------------------------------
(* Plans                                                                   *)

LEMMA Rests == /\ <<>> \in Seq(Labels) /\ Join7 \in Seq(Labels)
               /\ Quit1 \in Seq(Labels) /\ Down4 \in Seq(Labels)
  BY Nil, JoinProperties, SingleProperties, DownProperties

LEMMA PlansAreLists ==
    HandlerPlans \subseteq Seq(Labels) /\ Before \cup After \subseteq Seq(Labels)
<1>1. \A r \in Seq(Labels) : Leaving(r) \subseteq Seq(Labels)
  BY LeavingProperties DEF Leaving, LeavingFrom
<1>2. /\ Leaving(<<>>) \subseteq Seq(Labels) /\ Leaving(Join7) \subseteq Seq(Labels)
      /\ Leaving(Quit1) \subseteq Seq(Labels) /\ Leaving(Down4) \subseteq Seq(Labels)
  BY <1>1, Rests
<1>3. \A r : LeavingFrom(r) \subseteq Leaving(r)
  BY DEF Leaving
<1>4. Located \subseteq Seq(Labels) /\ Headed \subseteq Seq(Labels)
  BY <1>2, <1>3, JoinProperties DEF Located, Headed
<1>5. HandlerPlans \subseteq Seq(Labels)
  BY <1>2, <1>4, Nil, LoginProperties, SingleProperties DEF HandlerPlans, Free
<1>6. Before \cup After \subseteq Seq(Labels)
  BY <1>2, Nil, DownProperties DEF Before, After
<1> QED
  BY <1>5, <1>6

\* The plans of a handler, one by one.
LEMMA HandlerPlan ==
    ASSUME NEW p \in HandlerPlans
    PROVE  \/ p \in {<<>>, One("login"), One("reserve"), Login3, Login2, Login1,
                     One("enter"), One("admit"), One("quit"), One("remove"),
                     Quit1, One("chat"), One("find"), Move, Join7, Join6, Join5,
                     Join4}
           \/ p \in {Leaving1(<<>>), Leaving1(Join7), Leaving1(Quit1)}
           \/ p \in {Leaving2(<<>>), Leaving2(Join7), Leaving2(Quit1)}
           \/ p \in {Leaving3(<<>>), Leaving3(Join7), Leaving3(Quit1)}
           \/ p \in {Leaving4(<<>>), Leaving4(Join7), Leaving4(Quit1)}
           \/ p \in {Leaving5(<<>>), Leaving5(Join7), Leaving5(Quit1)}
  BY DEF HandlerPlans, Free, Located, Headed, Leaving, LeavingFrom

LEMMA HandlerHead ==
    ASSUME NEW p \in HandlerPlans, p # <<>>
    PROVE  /\ Head(p) = "login" => p = One("login")
           /\ Head(p) = "reserve" => p = One("reserve")
           /\ Head(p) = "name" => p = Login3
           /\ Head(p) = "authenticate" => p = Login2
           /\ Head(p) = "list" => p = Login1
           /\ Head(p) = "enter" => p = One("enter")
           /\ Head(p) = "admit" => p = One("admit")
           /\ Head(p) = "occupy" => p = Join7
           /\ Head(p) = "set" => p = Join6
           /\ Head(p) = "inroom" => p = Join4
           /\ Head(p) = "quit" => p = One("quit")
           /\ Head(p) = "remove" => p = One("remove")
           /\ Head(p) = "left" => p = Quit1
           /\ Head(p) = "chat" => p = One("chat")
           /\ Head(p) = "find" => p = One("find")
           /\ Head(p) = "leave" => p = Move
           /\ Head(p) = "vacate" =>
                 p \in {Leaving5(<<>>), Leaving5(Join7), Leaving5(Quit1)}
           /\ Head(p) = "unset" =>
                 p \in {Leaving4(<<>>), Leaving4(Join7), Leaving4(Quit1)}
           /\ Head(p) = "count" =>
                 p \in {Leaving3(<<>>), Leaving3(Join7), Leaving3(Quit1), Join5}
           /\ Head(p) = "copy" =>
                 p \in {Leaving2(<<>>), Leaving2(Join7), Leaving2(Quit1)}
           /\ Head(p) = "send" =>
                 p \in {Leaving1(<<>>), Leaving1(Join7), Leaving1(Quit1)}
<1>1. \A r \in {<<>>, Join7, Quit1} :
         /\ Head(Leaving1(r)) = "send" /\ Head(Leaving2(r)) = "copy"
         /\ Head(Leaving3(r)) = "count" /\ Head(Leaving4(r)) = "unset"
         /\ Head(Leaving5(r)) = "vacate"
  BY Rests, LeavingProperties
<1>2. CASE p \in {One("login"), One("reserve"), Login3, Login2, Login1,
                  One("enter"), One("admit"), One("quit"), One("remove"),
                  Quit1, One("chat"), One("find"), Move, Join7, Join6, Join5,
                  Join4}
  BY <1>2, SingleProperties, LoginProperties, JoinProperties
<1>3. CASE p \in {Leaving1(<<>>), Leaving1(Join7), Leaving1(Quit1)}
  <2>1. Head(p) = "send"
    BY <1>1, <1>3
  <2> QED
    BY <1>3, <2>1
<1>4. CASE p \in {Leaving2(<<>>), Leaving2(Join7), Leaving2(Quit1)}
  <2>1. Head(p) = "copy"
    BY <1>1, <1>4
  <2> QED
    BY <1>4, <2>1
<1>5. CASE p \in {Leaving3(<<>>), Leaving3(Join7), Leaving3(Quit1)}
  <2>1. Head(p) = "count"
    BY <1>1, <1>5
  <2> QED
    BY <1>5, <2>1
<1>6. CASE p \in {Leaving4(<<>>), Leaving4(Join7), Leaving4(Quit1)}
  <2>1. Head(p) = "unset"
    BY <1>1, <1>6
  <2> QED
    BY <1>6, <2>1
<1>7. CASE p \in {Leaving5(<<>>), Leaving5(Join7), Leaving5(Quit1)}
  <2>1. Head(p) = "vacate"
    BY <1>1, <1>7
  <2> QED
    BY <1>7, <2>1
<1> QED
  BY <1>2, <1>3, <1>4, <1>5, <1>6, <1>7, HandlerPlan

LEMMA CloserHead ==
    ASSUME NEW p \in Before \cup After, p # <<>>
    PROVE  /\ Head(p) = "depart" => p = Down5
           /\ Head(p) = "logout" => p = Down4
           /\ Head(p) = "restart" => p = Down3
           /\ Head(p) = "rename" => p = Down2
           /\ Head(p) = "forget" => p = Down1
           /\ Head(p) = "leave" => p = Exit
           /\ Head(p) = "vacate" => p = Leaving5(Down4)
           /\ Head(p) = "unset" => p = Leaving4(Down4)
           /\ Head(p) = "count" => p = Leaving3(Down4)
           /\ Head(p) = "copy" => p = Leaving2(Down4)
           /\ Head(p) = "send" => p = Leaving1(Down4)
<1>1. p \in {Down1, Down2, Down3, Down4, Down5, Exit, Leaving1(Down4),
             Leaving2(Down4), Leaving3(Down4), Leaving4(Down4), Leaving5(Down4)}
  BY DEF Before, After, Leaving, LeavingFrom
<1>2. /\ Head(Leaving1(Down4)) = "send" /\ Head(Leaving2(Down4)) = "copy"
      /\ Head(Leaving3(Down4)) = "count" /\ Head(Leaving4(Down4)) = "unset"
      /\ Head(Leaving5(Down4)) = "vacate"
  BY Rests, LeavingProperties
<1> QED
  BY <1>1, <1>2, DownProperties

\* Not logged out yet is not logged out.
LEMMA BeforeAfter == Before \cap After = {}
<1>1. \A p \in Before : p # <<>> /\ Head(p) \in
         {"depart", "logout", "leave", "vacate", "unset", "count", "copy", "send"}
  <2>1. /\ Leaving1(Down4) # <<>> /\ Head(Leaving1(Down4)) = "send"
        /\ Leaving2(Down4) # <<>> /\ Head(Leaving2(Down4)) = "copy"
        /\ Leaving3(Down4) # <<>> /\ Head(Leaving3(Down4)) = "count"
        /\ Leaving4(Down4) # <<>> /\ Head(Leaving4(Down4)) = "unset"
        /\ Leaving5(Down4) # <<>> /\ Head(Leaving5(Down4)) = "vacate"
    BY Rests, LeavingProperties
  <2> QED
    BY <2>1, DownProperties DEF Before, Leaving, LeavingFrom
<1>2. \A p \in After : p = <<>> \/ Head(p) \in {"restart", "rename", "forget"}
  BY DownProperties DEF After
<1> QED
  BY <1>1, <1>2

LEMMA ActorFacts ==
    /\ \A s \in Sessions : Handler(s) \in Actors /\ Closer(s) \in Actors
    /\ \A s, t \in Sessions : /\ Handler(s) # Closer(t)
                              /\ Handler(s) = Handler(t) => s = t
                              /\ Closer(s) = Closer(t) => s = t
    /\ \A s \in Sessions : Handler(s)[2] = s /\ Closer(s)[2] = s
    /\ \A a \in Actors : \E s \in Sessions : a = Handler(s) \/ a = Closer(s)
  BY DEF Actors, Handler, Closer

LEMMA Distinct ==
    /\ \A p \in Located :
          p # <<>> /\ Head(p) \in {"vacate", "unset", "count", "copy",
                                   "inroom", "set"}
    /\ \A p \in Headed :
          p # <<>> /\ Head(p) \in {"vacate", "unset", "count", "copy", "send",
                                   "occupy", "leave"}
<1>1. \A r \in {<<>>, Join7, Quit1} :
         /\ Leaving1(r) # <<>> /\ Head(Leaving1(r)) = "send"
         /\ Leaving2(r) # <<>> /\ Head(Leaving2(r)) = "copy"
         /\ Leaving3(r) # <<>> /\ Head(Leaving3(r)) = "count"
         /\ Leaving4(r) # <<>> /\ Head(Leaving4(r)) = "unset"
         /\ Leaving5(r) # <<>> /\ Head(Leaving5(r)) = "vacate"
  BY Rests, LeavingProperties
<1>2. \A r \in {<<>>, Join7, Quit1} : \A p \in LeavingFrom(r) :
         p # <<>> /\ Head(p) \in {"vacate", "unset", "count", "copy"}
  BY <1>1 DEF LeavingFrom
<1>3. \A p \in Leaving(Join7) :
         p # <<>> /\ Head(p) \in {"vacate", "unset", "count", "copy", "send"}
  BY <1>1, <1>2 DEF Leaving
<1>4. \A p \in Located :
         p # <<>> /\ Head(p) \in {"vacate", "unset", "count", "copy",
                                  "inroom", "set"}
  BY <1>2, JoinProperties DEF Located
<1>5. \A p \in Headed :
         p # <<>> /\ Head(p) \in {"vacate", "unset", "count", "copy", "send",
                                  "occupy", "leave"}
  BY <1>3, JoinProperties DEF Headed
<1> QED
  BY <1>4, <1>5

LEMMA FreeIsFree == \A p \in Free : p \notin Located /\ p \notin Headed
<1>1. \A p \in Free : p = <<>> \/ Head(p) \in
         {"login", "reserve", "name", "authenticate", "list", "enter", "admit",
          "quit", "remove", "left", "chat", "find"}
  BY SingleProperties, LoginProperties DEF Free
<1> QED
  BY <1>1, Distinct

\* Who has something else to do afterwards does not go on to enter a room.
LEMMA Unheaded ==
    ASSUME NEW r \in {<<>>, Quit1}
    PROVE  /\ Leaving1(r) \notin Headed /\ Leaving2(r) \notin Headed
           /\ Leaving3(r) \notin Headed /\ Leaving4(r) \notin Headed
           /\ Leaving5(r) \notin Headed
<1>1. r \in Seq(Labels) /\ Join7 \in Seq(Labels) /\ r # Join7
  BY Rests, JoinProperties, SingleProperties
<1>2. ASSUME NEW q \in {r, Join7}
      PROVE  /\ Head(Leaving1(q)) = "send" /\ Tail(Leaving1(q)) = q
             /\ Head(Leaving2(q)) = "copy" /\ Tail(Leaving2(q)) = Leaving1(q)
             /\ Head(Leaving3(q)) = "count" /\ Tail(Leaving3(q)) = Leaving2(q)
             /\ Head(Leaving4(q)) = "unset" /\ Tail(Leaving4(q)) = Leaving3(q)
             /\ Head(Leaving5(q)) = "vacate" /\ Tail(Leaving5(q)) = Leaving4(q)
  <2>1. q \in Seq(Labels)
    BY <1>1
  <2> QED
    BY <2>1, LeavingProperties
<1>3. /\ Leaving1(r) # Leaving1(Join7) /\ Leaving2(r) # Leaving2(Join7)
      /\ Leaving3(r) # Leaving3(Join7) /\ Leaving4(r) # Leaving4(Join7)
      /\ Leaving5(r) # Leaving5(Join7)
  <2>1. Leaving1(r) # Leaving1(Join7)
    BY <1>1, <1>2
  <2>2. Leaving2(r) # Leaving2(Join7)
    BY <1>2, <2>1
  <2>3. Leaving3(r) # Leaving3(Join7)
    BY <1>2, <2>2
  <2>4. Leaving4(r) # Leaving4(Join7)
    BY <1>2, <2>3
  <2>5. Leaving5(r) # Leaving5(Join7)
    BY <1>2, <2>4
  <2> QED
    BY <2>1, <2>2, <2>3, <2>4, <2>5
<1>4. Headed = {Leaving1(Join7), Leaving2(Join7), Leaving3(Join7),
                Leaving4(Join7), Leaving5(Join7), Join7, Move}
  BY DEF Headed, Leaving, LeavingFrom
<1> HIDE DEF Headed
<1>5. Head(Join7) = "occupy" /\ Head(Move) = "leave"
  BY JoinProperties
<1> QED
  BY <1>2, <1>3, <1>4, <1>5

-----------------------------------------------------------------------------
(* What steps leave alone                                                  *)

\* A step leaves alone what the invariant says of session t.
Untouched(t) ==
    /\ connected'[t] = connected[t] /\ alive'[t] = alive[t]
    /\ state'[t] = state[t] /\ nickname'[t] = nickname[t]
    /\ currentRoomId'[t] = currentRoomId[t]
    /\ todo'[Handler(t)] = todo[Handler(t)]
    /\ todo'[Closer(t)] = todo[Closer(t)]
    /\ from'[Handler(t)] = from[Handler(t)]
    /\ from'[Closer(t)] = from[Closer(t)]
    /\ asked'[t] = asked[t] /\ goal'[t] = goal[t]
    /\ connected[t] => In(t)' = In(t)

LEMMA StoryUntouched ==
    ASSUME NEW t \in Sessions, Untouched(t), connected[t], Story(t)
    PROVE  Story(t)'
<1>1. /\ todo'[Handler(t)] = todo[Handler(t)]
      /\ state'[t] = state[t] /\ nickname'[t] = nickname[t]
      /\ currentRoomId'[t] = currentRoomId[t] /\ goal'[t] = goal[t]
      /\ from'[Handler(t)] = from[Handler(t)] /\ In(t)' = In(t)
  BY DEF Untouched
<1>2. Calm(t)' <=> Calm(t)
  BY <1>1 DEF Calm, Placed
<1>3. Named(t)' <=> Named(t)
  BY <1>1 DEF Named
<1>4. Placed(t)' <=> Placed(t)
  BY <1>1 DEF Placed
<1>5. /\ Outside(t)' <=> Outside(t)
      /\ Naming(t)' <=> Naming(t)
      /\ Inside(t)' <=> Inside(t)
      /\ Going(t)' <=> Going(t)
      /\ Gone(t)' <=> Gone(t)
      /\ Nowhere(t)' <=> Nowhere(t)
      /\ Arriving(t)' <=> Arriving(t)
      /\ Arrived(t)' <=> Arrived(t)
  BY <1>1, <1>2, <1>3, <1>4
     DEF Outside, Naming, Inside, Going, Gone, Nowhere, Arriving, Arrived
<1> QED
  BY <1>1, <1>2, <1>5 DEF Story

\* What is left to show of a step of session s.
LEMMA Kept ==
    ASSUME ChatInv, NEW s \in Sessions,
           \A t \in Sessions \ {s} : Untouched(t),
           late \subseteq late',
           TypeOK', Plan(s)', Link(s)', connected'[s] => Story(s)', Late(s)',
           IsFiniteSet(nicknames)', Reserved', Apart', Fresh', Owned'
    PROVE  ChatInv'
<1>1. ASSUME NEW t \in Sessions
      PROVE  Plan(t)'
  BY <1>1 DEF ChatInv, PlanInv, Plan, Untouched
<1>2. ASSUME NEW t \in Sessions
      PROVE  Link(t)'
  BY <1>2 DEF ChatInv, LinkInv, Link, Idle, Untouched
<1>3. ASSUME NEW t \in Sessions, connected'[t]
      PROVE  Story(t)'
  <2>1. CASE t = s
    BY <1>3, <2>1
  <2>2. CASE t # s
    <3>1. Untouched(t) /\ connected[t] /\ Story(t)
      BY <1>3, <2>2 DEF ChatInv, StoryInv, Untouched
    <3> QED
      BY <3>1, StoryUntouched
  <2> QED
    BY <2>1, <2>2
<1>4. ASSUME NEW t \in Sessions
      PROVE  Late(t)'
  BY <1>4 DEF ChatInv, NamesInv, LateInv, Late, Idle, Untouched
<1>5. PlanInv' /\ LinkInv' /\ LateInv'
  BY <1>1, <1>2, <1>4 DEF PlanInv, LinkInv, LateInv
<1>6. StoryInv'
  BY <1>3 DEF StoryInv
<1> QED
  BY <1>5, <1>6 DEF ChatInv, NamesInv

\* A step that neither gives nor takes names.
LEMMA NamesKept ==
    ASSUME ChatInv, NEW s \in Sessions,
           \A t \in Sessions \ {s} : Untouched(t),
           nicknames' = nicknames, granted' = granted, late \subseteq late',
           nickname'[s] = nickname[s] \/ LoggedOut(s),
           Naming3(s)' <=> Naming3(s), LoggedOut(s)' <=> LoggedOut(s),
           Naming3(s) => asked'[s] = asked[s]
    PROVE  IsFiniteSet(nicknames)' /\ Reserved' /\ Apart' /\ Fresh' /\ Owned'
<1>1. ASSUME NEW t \in Sessions
      PROVE  /\ nickname'[t] = nickname[t] \/ LoggedOut(t)
             /\ Naming3(t)' <=> Naming3(t)
             /\ LoggedOut(t)' <=> LoggedOut(t)
             /\ Naming3(t) => asked'[t] = asked[t]
  <2>1. CASE t = s
    BY <2>1
  <2>2. CASE t # s
    BY <2>2 DEF Untouched, Naming3, At, LoggedOut
  <2> QED
    BY <2>1, <2>2
<1>2. ASSUME NEW t \in Sessions, NEW n
      PROVE  Held(t, n)' <=> Held(t, n)
  BY <1>1 DEF Held
<1>3. Reserved'
  BY <1>1 DEF ChatInv, NamesInv, Reserved
<1>4. Fresh'
  BY <1>1 DEF ChatInv, NamesInv, Fresh
<1>5. Apart'
  BY <1>2 DEF ChatInv, NamesInv, Apart
<1>6. Owned'
  <2>1. \A t, n : LostLate(t, n) => LostLate(t, n)'
    BY DEF LostLate
  <2> QED
    BY <1>2, <2>1 DEF ChatInv, NamesInv, Owned
<1> QED
  BY <1>3, <1>4, <1>5, <1>6 DEF ChatInv, NamesInv

LEMMA Turns ==
    ASSUME TypeOK, NEW a \in Actors, NEW q \in Seq(Labels),
           todo' = [todo EXCEPT ![a] = q]
    PROVE  /\ todo'[a] = q
           /\ \A b \in Actors : b # a => todo'[b] = todo[b]
           /\ todo' \in [Actors -> Seq(Labels)]
  BY DEF TypeOK

LEMMA VacatePlans ==
    /\ \A p \in HandlerPlans :
          p # <<>> /\ Head(p) \in {"vacate", "copy"} => p \in Located
    /\ \A p \in Before \cup After :
          p # <<>> /\ Head(p) \in {"vacate", "copy"} => p \in LeavingFrom(Down4)
<1>1. ASSUME NEW p \in HandlerPlans, p # <<>>, Head(p) \in {"vacate", "copy"}
      PROVE  p \in Located
  BY <1>1, HandlerHead DEF Located, LeavingFrom
<1>2. ASSUME NEW p \in Before \cup After, p # <<>>,
             Head(p) \in {"vacate", "copy"}
      PROVE  p \in LeavingFrom(Down4)
  BY <1>2, CloserHead DEF LeavingFrom
<1> QED
  BY <1>1, <1>2

LEMMA VacateKnows ==
    ASSUME PlanInv'
    PROVE  (\A a \in Actors : At(a, "vacate") \/ At(a, "copy")
                                 => from[a] \in Rooms)'
<1>1. ASSUME NEW s \in Sessions,
             At(Handler(s), "vacate")' \/ At(Handler(s), "copy")'
      PROVE  from'[Handler(s)] \in Rooms
  BY <1>1, VacatePlans DEF At, PlanInv, Plan
<1>2. ASSUME NEW s \in Sessions,
             At(Closer(s), "vacate")' \/ At(Closer(s), "copy")'
      PROVE  from'[Closer(s)] \in Rooms
  BY <1>2, VacatePlans DEF At, PlanInv, Plan
<1> QED
  BY <1>1, <1>2, ActorFacts

\* A step of the handler of s that neither gives nor takes names.
LEMMA HandlerKept ==
    ASSUME ChatInv, NEW s \in Sessions, NEW q \in HandlerPlans,
           todo[Handler(s)] # <<>>,
           todo[Handler(s)] # Login3, q # Login3,
           todo' = [todo EXCEPT ![Handler(s)] = q],
           UNCHANGED <<connected, alive, nickname, users, asked, goal, requests,
                       late>>,
           state' \in [Sessions -> {"Connected", "Authenticated", "InRoom"}],
           \A t \in Sessions \ {s} : state'[t] = state[t],
           currentRoomId' \in [Sessions -> Rooms \cup {0}],
           \A t \in Sessions \ {s} : currentRoomId'[t] = currentRoomId[t],
           from' \in [Actors -> Rooms \cup {0}],
           \A b \in Actors : b # Handler(s) => from'[b] = from[b],
           members' \in [Rooms -> SUBSET Sessions],
           \A t \in Sessions \ {s} : connected[t] => In(t)' = In(t),
           targets' \in [Actors -> SUBSET Sessions],
           q \in Located => from'[Handler(s)] \in Rooms,
           q \in Headed => goal[s] \in Rooms,
           connected[s] => Story(s)'
    PROVE  ChatInv'
<1> DEFINE h == Handler(s)
<1>1. TypeOK /\ h \in Actors /\ q \in Seq(Labels)
  BY ActorFacts, PlansAreLists DEF ChatInv
<1>2. /\ todo'[h] = q
      /\ \A b \in Actors : b # h => todo'[b] = todo[b]
      /\ todo' \in [Actors -> Seq(Labels)]
  BY <1>1, Turns
<1>3. ASSUME NEW t \in Sessions \ {s}
      PROVE  Untouched(t)
  <2>1. /\ Handler(t) \in Actors /\ Closer(t) \in Actors
        /\ Handler(t) # h /\ Closer(t) # h
    BY ActorFacts
  <2> QED
    BY <1>2, <2>1 DEF Untouched
<1>4. Closer(s) \in Actors /\ Closer(s) # h
  BY ActorFacts
<1>5. Plan(s) /\ Link(s)
  BY DEF ChatInv, PlanInv, LinkInv
<1>6. Plan(s)'
  BY <1>2, <1>4, <1>5 DEF Plan
<1>7. Link(s)'
  BY <1>2, <1>4, <1>5 DEF Link, Idle
<1>8. Late(s)'
  BY DEF ChatInv, NamesInv, LateInv, Late, Idle
<1>9. ASSUME NEW t \in Sessions
      PROVE  Plan(t)'
  BY <1>3, <1>6, <1>9 DEF ChatInv, PlanInv, Plan, Untouched
<1>10. (\A a \in Actors : At(a, "vacate") \/ At(a, "copy")
                             => from[a] \in Rooms)'
  BY <1>9, VacateKnows DEF PlanInv
<1>11. TypeOK'
  BY <1>1, <1>2, <1>10 DEF TypeOK, users, Guests
<1>12. /\ Naming3(s)' <=> Naming3(s)
       /\ LoggedOut(s)' <=> LoggedOut(s)
  <2>1. ~Naming3(s)
    BY <1>5, HandlerHead DEF Naming3, At, Plan
  <2>2. ~Naming3(s)'
    BY <1>2, HandlerHead DEF Naming3, At
  <2>3. LoggedOut(s)' <=> LoggedOut(s)
    BY <1>2, <1>4 DEF LoggedOut
  <2> QED
    BY <2>1, <2>2, <2>3
<1>13. IsFiniteSet(nicknames)' /\ Reserved' /\ Apart' /\ Fresh' /\ Owned'
  BY <1>3, <1>12, NamesKept DEF users
<1> QED
  BY <1>3, <1>6, <1>7, <1>8, <1>11, <1>13, Kept

\* A step of the closer of s that does not log out.
LEMMA CloserKept ==
    ASSUME ChatInv, NEW s \in Sessions, NEW q,
           todo[Closer(s)] # <<>>,
           \/ todo[Closer(s)] \in Before /\ q \in Before
           \/ todo[Closer(s)] \in After /\ q \in After,
           todo' = [todo EXCEPT ![Closer(s)] = q],
           UNCHANGED <<connected, alive, nickname, users, asked, goal, requests,
                       late>>,
           state' \in [Sessions -> {"Connected", "Authenticated", "InRoom"}],
           \A t \in Sessions \ {s} : state'[t] = state[t],
           currentRoomId' \in [Sessions -> Rooms \cup {0}],
           \A t \in Sessions \ {s} : currentRoomId'[t] = currentRoomId[t],
           from' \in [Actors -> Rooms \cup {0}],
           \A b \in Actors : b # Closer(s) => from'[b] = from[b],
           members' \in [Rooms -> SUBSET Sessions],
           \A t \in Sessions \ {s} : connected[t] => In(t)' = In(t),
           targets' \in [Actors -> SUBSET Sessions],
           q \in LeavingFrom(Down4) => from'[Closer(s)] \in Rooms
    PROVE  ChatInv'
<1> DEFINE c == Closer(s)
<1>1. TypeOK /\ c \in Actors /\ q \in Seq(Labels)
  BY ActorFacts, PlansAreLists DEF ChatInv
<1>2. /\ todo'[c] = q
      /\ \A b \in Actors : b # c => todo'[b] = todo[b]
      /\ todo' \in [Actors -> Seq(Labels)]
  BY <1>1, Turns
<1>3. ASSUME NEW t \in Sessions \ {s}
      PROVE  Untouched(t)
  <2>1. /\ Handler(t) \in Actors /\ Closer(t) \in Actors
        /\ Handler(t) # c /\ Closer(t) # c
    BY ActorFacts
  <2> QED
    BY <1>2, <2>1 DEF Untouched
<1>4. Handler(s) \in Actors /\ Handler(s) # c
  BY ActorFacts
<1>5. Plan(s) /\ Link(s)
  BY DEF ChatInv, PlanInv, LinkInv
<1>6. Plan(s)'
  BY <1>2, <1>4, <1>5 DEF Plan
<1>7. ~connected'[s] /\ Link(s)'
  BY <1>5 DEF Link, Idle
<1>8. Late(s)'
  BY <1>2, <1>4 DEF ChatInv, NamesInv, LateInv, Late, Idle
<1>9. ASSUME NEW t \in Sessions
      PROVE  Plan(t)'
  BY <1>3, <1>6, <1>9 DEF ChatInv, PlanInv, Plan, Untouched
<1>10. (\A a \in Actors : At(a, "vacate") \/ At(a, "copy")
                             => from[a] \in Rooms)'
  BY <1>9, VacateKnows DEF PlanInv
<1>11. TypeOK'
  BY <1>1, <1>2, <1>10 DEF TypeOK, users, Guests
<1>12. /\ Naming3(s)' <=> Naming3(s)
       /\ LoggedOut(s)' <=> LoggedOut(s)
  <2>1. Naming3(s)' <=> Naming3(s)
    BY <1>2, <1>4 DEF Naming3, At
  <2>2. LoggedOut(s)' <=> LoggedOut(s)
    BY <1>2, BeforeAfter DEF LoggedOut
  <2> QED
    BY <2>1, <2>2
<1>13. IsFiniteSet(nicknames)' /\ Reserved' /\ Apart' /\ Fresh' /\ Owned'
  BY <1>3, <1>12, NamesKept DEF users
<1> QED
  BY <1>3, <1>6, <1>7, <1>8, <1>11, <1>13, Kept

-----------------------------------------------------------------------------
(* The steps of a handler                                                  *)

LEMMA LeavingFacts ==
    \A r \in {<<>>, Join7, Quit1, Down4} :
       /\ Leaving1(r) # <<>> /\ Head(Leaving1(r)) = "send"
       /\ Leaving2(r) # <<>> /\ Head(Leaving2(r)) = "copy"
       /\ Leaving3(r) # <<>> /\ Head(Leaving3(r)) = "count"
       /\ Leaving4(r) # <<>> /\ Head(Leaving4(r)) = "unset"
       /\ Leaving5(r) # <<>> /\ Head(Leaving5(r)) = "vacate"
       /\ Tail(Leaving1(r)) = r /\ Tail(Leaving2(r)) = Leaving1(r)
       /\ Tail(Leaving3(r)) = Leaving2(r) /\ Tail(Leaving4(r)) = Leaving3(r)
       /\ Tail(Leaving5(r)) = Leaving4(r)
       /\ Leaving1(r) \in Seq(Labels) /\ Leaving2(r) \in Seq(Labels)
       /\ Leaving3(r) \in Seq(Labels) /\ Leaving4(r) \in Seq(Labels)
  BY Rests, LeavingProperties

\* Which part of the story the next label belongs to.
LEMMA StoryAt ==
    ASSUME NEW s \in Sessions, Story(s), todo[Handler(s)] # <<>>
    PROVE  LET label == Head(todo[Handler(s)])
           IN  /\ label \in {"login", "enter", "quit", "chat", "find", "list"}
                     => Calm(s)
               /\ label \in {"reserve", "name"} => Outside(s)
               /\ label = "authenticate" => Naming(s)
               /\ label \in {"admit", "remove", "leave"} => Inside(s)
               /\ label = "vacate" => Going(s)
               /\ label = "unset" => Gone(s)
               /\ label \in {"occupy", "left"} => Nowhere(s)
               /\ label = "set" => Arriving(s)
               /\ label = "inroom" => Arrived(s)
               /\ label \in {"count", "copy", "send"} =>
                     \/ todo[Handler(s)] \in CalmPlans /\ Calm(s)
                     \/ Nowhere(s)
                     \/ Arrived(s) /\ todo[Handler(s)] = Join5
<1> DEFINE p == todo[Handler(s)]
<1>1. CASE p \in CalmPlans /\ Calm(s)
  <2>1. Head(p) \in {"login", "enter", "quit", "chat", "find", "list", "count",
                     "copy", "send"}
    BY <1>1, SingleProperties, LoginProperties, LeavingFacts DEF CalmPlans
  <2> QED
    BY <1>1, <2>1
<1>2. CASE Outside(s)
  <2>1. Head(p) \in {"reserve", "name"}
    BY <1>2, SingleProperties, LoginProperties DEF Outside
  <2> QED
    BY <1>2, <2>1
<1>3. CASE Naming(s)
  <2>1. Head(p) = "authenticate"
    BY <1>3, LoginProperties DEF Naming
  <2> QED
    BY <1>3, <2>1
<1>4. CASE Inside(s)
  <2>1. Head(p) \in {"admit", "remove", "leave"}
    BY <1>4, SingleProperties, JoinProperties DEF Inside
  <2> QED
    BY <1>4, <2>1
<1>5. CASE Going(s)
  <2>1. Head(p) = "vacate"
    BY <1>5, LeavingFacts DEF Going
  <2> QED
    BY <1>5, <2>1
<1>6. CASE Gone(s)
  <2>1. Head(p) = "unset"
    BY <1>6, LeavingFacts DEF Gone
  <2> QED
    BY <1>6, <2>1
<1>7. CASE Nowhere(s)
  <2>1. \A r \in {Join7, Quit1} :
           p \in {Leaving3(r), Leaving2(r), Leaving1(r)}
              => Head(p) \in {"count", "copy", "send"}
    BY LeavingFacts
  <2>2. p = Join7 => Head(p) = "occupy"
    BY JoinProperties
  <2>3. p = Quit1 => Head(p) = "left"
    BY SingleProperties
  <2>4. Head(p) \in {"count", "copy", "send", "occupy", "left"}
    BY <1>7, <2>1, <2>2, <2>3 DEF Nowhere
  <2> QED
    BY <1>7, <2>4
<1>8. CASE Arriving(s)
  <2>1. Head(p) = "set"
    BY <1>8, JoinProperties DEF Arriving
  <2> QED
    BY <1>8, <2>1
<1>9. CASE Arrived(s)
  <2>1. \/ p = Join5 /\ Head(p) = "count"
        \/ p = Join4 /\ Head(p) = "inroom"
    BY <1>9, JoinProperties DEF Arrived
  <2> QED
    BY <1>9, <2>1
<1> QED
  BY <1>1, <1>2, <1>3, <1>4, <1>5, <1>6, <1>7, <1>8, <1>9 DEF Story

LEMMA CalmSame ==
    ASSUME NEW s \in Sessions, Calm(s), UNCHANGED <<fields, members>>
    PROVE  Calm(s)'
  BY DEF Calm, Placed, In, fields

LEMMA LoginKeeps ==
    ASSUME ChatInv, NEW s \in Sessions, Login(s)
    PROVE  ChatInv'
<1> DEFINE h == Handler(s)
<1>1. todo[h] = One("login") /\ todo[h] # <<>> /\ Head(todo[h]) = "login"
  BY HandlerHead DEF Login, At, ChatInv, PlanInv, Plan
<1>2. Tail(todo[h]) = <<>> /\ todo[h] # Login3
  BY <1>1, SingleProperties, LoginProperties
<1>3. PICK q \in {<<>>, One("reserve")} :
         /\ todo' = [todo EXCEPT ![h] = q]
         /\ q # <<>> => state[s] = "Connected"
  <2>1. <<>> \o <<>> = <<>> /\ <<"reserve">> \o <<>> = One("reserve")
    BY Nil, ConcatEmptySeq DEF One, Put
  <2> QED
    BY <1>2, <2>1 DEF Login, Then
<1>4. q \in Free /\ q # Login3 /\ q \in HandlerPlans
  BY SingleProperties, LoginProperties DEF Free, HandlerPlans
<1>5. ASSUME connected[s]
      PROVE  Story(s)'
  <2>1. Story(s) /\ h \in Actors /\ TypeOK
    BY <1>5, ActorFacts DEF ChatInv, StoryInv
  <2>2. Calm(s) /\ todo'[h] = q
    BY <1>1, <1>3, <2>1, StoryAt DEF TypeOK
  <2>3. Calm(s)' /\ state' = state
    BY <2>2, CalmSame DEF Login, fields
  <2> QED
    BY <1>3, <2>2, <2>3 DEF Story, Outside, CalmPlans
<1>6. ChatInv /\ TypeOK
  BY DEF ChatInv
<1> QED
  BY <1>1, <1>2, <1>3, <1>4, <1>5, <1>6, FreeIsFree, HandlerKept
     DEF Login, fields, locals, users, TypeOK, In
\* Expired entries of the rooms' maps are none of a session that is alive.
LEMMA LiveSame ==
    ASSUME TypeOK, NEW t \in Sessions, alive[t],
           \A r \in Rooms : \/ members'[r] = members[r]
                            \/ members'[r] = Live(members[r])
    PROVE  In(t)' = In(t)
  BY DEF In, Live, TypeOK

LEMMA AuthenticateKeeps ==
    ASSUME ChatInv, NEW s \in Sessions, Authenticate(s)
    PROVE  ChatInv'
<1> DEFINE h == Handler(s)
<1>1. todo[h] = Login2 /\ todo[h] # <<>> /\ Head(todo[h]) = "authenticate"
  BY HandlerHead DEF Authenticate, At, ChatInv, PlanInv, Plan
<1>2. Tail(todo[h]) = Login1 /\ todo[h] # Login3
  BY <1>1, LoginProperties
<1>3. todo' = [todo EXCEPT ![h] = Login1]
  BY <1>2, LoginProperties, ConcatEmptySeq DEF Authenticate, Then
<1>4. Login1 \in Free /\ Login1 # Login3 /\ Login1 \in HandlerPlans
  BY LoginProperties DEF Free, HandlerPlans
<1>5. ASSUME connected[s]
      PROVE  Story(s)'
  <2>1. Story(s) /\ h \in Actors /\ TypeOK
    BY <1>5, ActorFacts DEF ChatInv, StoryInv
  <2>2. Naming(s) /\ todo'[h] = Login1
    BY <1>1, <1>3, <2>1, StoryAt DEF TypeOK
  <2>3. Calm(s)'
    BY <2>1, <2>2 DEF Calm, Placed, In, Naming, Authenticate, TypeOK
  <2> QED
    BY <2>2, <2>3 DEF Story, CalmPlans
<1>6. ChatInv /\ TypeOK
  BY DEF ChatInv
<1> QED
  BY <1>1, <1>2, <1>3, <1>4, <1>5, <1>6, FreeIsFree, HandlerKept
     DEF Authenticate, fields, locals, users, TypeOK, In

LEMMA ListKeeps ==
    ASSUME ChatInv, NEW s \in Sessions, List(s)
    PROVE  ChatInv'
<1> DEFINE h == Handler(s)
<1>1. todo[h] = Login1 /\ todo[h] # <<>> /\ Head(todo[h]) = "list"
  BY HandlerHead DEF List, At, ChatInv, PlanInv, Plan
<1>2. Tail(todo[h]) = <<>> /\ todo[h] # Login3
  BY <1>1, LoginProperties
<1>3. todo' = [todo EXCEPT ![h] = <<>>]
  BY <1>2, Nil, ConcatEmptySeq DEF List, Then
<1>4. <<>> \in Free /\ <<>> # Login3 /\ <<>> \in HandlerPlans
  BY LoginProperties DEF Free, HandlerPlans
<1>5. ChatInv /\ TypeOK
  BY DEF ChatInv
<1>6. members' \in [Rooms -> SUBSET Sessions]
  BY <1>5 DEF List, Live, TypeOK
<1>7. ASSUME NEW t \in Sessions, connected[t]
      PROVE  In(t)' = In(t)
  <2>1. alive[t]
    BY <1>7 DEF ChatInv, LinkInv, Link
  <2>2. \A r \in Rooms : \/ members'[r] = members[r]
                         \/ members'[r] = Live(members[r])
    BY DEF List
  <2> QED
    BY <1>5, <2>1, <2>2, LiveSame
<1>8. ASSUME connected[s]
      PROVE  Story(s)'
  <2>1. Story(s) /\ h \in Actors
    BY <1>8, ActorFacts DEF ChatInv, StoryInv
  <2>2. Calm(s) /\ todo'[h] = <<>>
    BY <1>1, <1>3, <1>5, <2>1, StoryAt DEF TypeOK
  <2>3. Calm(s)'
    BY <1>7, <1>8, <2>2 DEF Calm, Placed, List, fields
  <2> QED
    BY <2>2, <2>3 DEF Story, CalmPlans
<1> QED
  BY <1>1, <1>2, <1>3, <1>4, <1>5, <1>6, <1>7, <1>8, FreeIsFree, HandlerKept
     DEF List, fields, locals, users, TypeOK

LEMMA EnterKeeps ==
    ASSUME ChatInv, NEW s \in Sessions, Enter(s)
    PROVE  ChatInv'
<1> DEFINE h == Handler(s)
<1>1. todo[h] = One("enter") /\ todo[h] # <<>> /\ Head(todo[h]) = "enter"
  BY HandlerHead DEF Enter, At, ChatInv, PlanInv, Plan
<1>2. Tail(todo[h]) = <<>> /\ todo[h] # Login3
  BY <1>1, SingleProperties, LoginProperties
<1>3. PICK q \in {<<>>, One("admit")} :
         /\ todo' = [todo EXCEPT ![h] = q]
         /\ q # <<>> => state[s] # "Connected"
  <2>1. <<>> \o <<>> = <<>> /\ <<"admit">> \o <<>> = One("admit")
    BY Nil, ConcatEmptySeq DEF One, Put
  <2> QED
    BY <1>2, <2>1 DEF Enter, Then
<1>4. q \in Free /\ q # Login3 /\ q \in HandlerPlans
  BY SingleProperties, LoginProperties DEF Free, HandlerPlans
<1>5. ASSUME connected[s]
      PROVE  Story(s)'
  <2>1. Story(s) /\ h \in Actors /\ TypeOK
    BY <1>5, ActorFacts DEF ChatInv, StoryInv
  <2>2. Calm(s) /\ todo'[h] = q
    BY <1>1, <1>3, <2>1, StoryAt DEF TypeOK
  <2>3. Calm(s)' /\ state' = state /\ nickname' = nickname
    BY <2>2, CalmSame DEF Enter, fields
  <2>4. ASSUME q = One("admit")
        PROVE  Inside(s)'
    <3>1. Named(s)'
      BY <1>3, <2>2, <2>3, <2>4, SingleProperties DEF Calm, Named
    <3> QED
      BY <2>2, <2>3, <2>4, <3>1 DEF Inside
  <2> QED
    BY <1>3, <2>2, <2>3, <2>4 DEF Story, CalmPlans
<1>6. ChatInv /\ TypeOK
  BY DEF ChatInv
<1> QED
  BY <1>1, <1>2, <1>3, <1>4, <1>5, <1>6, FreeIsFree, HandlerKept
     DEF Enter, fields, locals, users, TypeOK, In

LEMMA AdmitKeeps ==
    ASSUME ChatInv, NEW s \in Sessions, Admit(s)
    PROVE  ChatInv'
<1> DEFINE h == Handler(s)
<1>1. todo[h] = One("admit") /\ todo[h] # <<>> /\ Head(todo[h]) = "admit"
  BY HandlerHead DEF Admit, At, ChatInv, PlanInv, Plan
<1>2. Tail(todo[h]) = <<>> /\ todo[h] # Login3
  BY <1>1, SingleProperties, LoginProperties
<1>3. PICK q \in {<<>>, Move, Join7} :
         /\ todo' = [todo EXCEPT ![h] = q]
         /\ q # <<>> => goal[s] \in Rooms
         /\ q = Move => currentRoomId[s] # 0
         /\ q = Join7 => currentRoomId[s] = 0
  <2>1. /\ <<>> \o <<>> = <<>> /\ (<<"leave">> \o Join) \o <<>> = Move
        /\ Join \o <<>> = Join7
    BY Nil, Calls, JoinProperties, ConcatEmptySeq
  <2>2. Move # Join7
    BY JoinProperties
  <2> QED
    BY <1>2, <2>1, <2>2, JoinProperties DEF Admit, Then
<1>4. q # Login3 /\ q \in HandlerPlans
  BY JoinProperties, LoginProperties DEF Free, Headed, HandlerPlans
<1>5. q \notin Located
  BY Distinct, JoinProperties
<1>6. q \in Headed => q # <<>>
  BY Distinct
<1>7. ASSUME connected[s]
      PROVE  Story(s)'
  <2>1. Story(s) /\ h \in Actors /\ TypeOK
    BY <1>7, ActorFacts DEF ChatInv, StoryInv
  <2>2. Inside(s) /\ todo'[h] = q
    BY <1>1, <1>3, <2>1, StoryAt DEF TypeOK
  <2>3. Calm(s) /\ Named(s)
    BY <2>2 DEF Inside
  <2>4. Calm(s)' /\ Named(s)' /\ In(s)' = In(s) /\ currentRoomId' = currentRoomId
    BY <2>3, CalmSame DEF Admit, fields, Named, In
  <2>5. CASE q = <<>>
    BY <2>2, <2>4, <2>5 DEF Story, CalmPlans
  <2>6. CASE q = Move
    BY <1>3, <2>2, <2>4, <2>6 DEF Story, Inside
  <2>7. CASE q = Join7
    <3>1. In(s) = {}
      BY <1>3, <2>3, <2>7, RoomsAssumption DEF Calm, Placed
    <3> QED
      BY <1>3, <2>2, <2>4, <2>7, <3>1 DEF Story, Nowhere
  <2> QED
    BY <2>5, <2>6, <2>7
<1>8. ChatInv /\ TypeOK
  BY DEF ChatInv
<1> QED
  BY <1>1, <1>2, <1>3, <1>4, <1>5, <1>6, <1>7, <1>8, HandlerKept
     DEF Admit, fields, locals, users, TypeOK, In

LEMMA OccupyKeeps ==
    ASSUME ChatInv, NEW s \in Sessions, Occupy(s)
    PROVE  ChatInv'
<1> DEFINE h == Handler(s)
<1>1. todo[h] = Join7 /\ todo[h] # <<>> /\ Head(todo[h]) = "occupy"
  BY HandlerHead DEF Occupy, At, ChatInv, PlanInv, Plan
<1>2. Tail(todo[h]) = Join6 /\ todo[h] # Login3
  BY <1>1, JoinProperties, LoginProperties
<1>3. todo' = [todo EXCEPT ![h] = Join6]
  BY <1>2, JoinProperties, ConcatEmptySeq DEF Occupy, Then
<1>4. Join6 # Login3 /\ Join6 \in HandlerPlans /\ Join6 \notin Headed
  BY JoinProperties, LoginProperties, Distinct DEF Located, HandlerPlans
<1>5. ChatInv /\ TypeOK /\ h \in Actors
  BY ActorFacts DEF ChatInv
<1>6. goal[s] \in Rooms
  BY <1>1 DEF ChatInv, PlanInv, Plan, Headed
<1>7. members' \in [Rooms -> SUBSET Sessions]
  BY <1>5 DEF Occupy, TypeOK
<1>8. \A t \in Sessions \ {s} : In(t)' = In(t)
  BY <1>5 DEF Occupy, TypeOK, In
<1>9. ASSUME connected[s]
      PROVE  Story(s)'
  <2>1. Story(s)
    BY <1>9 DEF ChatInv, StoryInv
  <2>2. Nowhere(s) /\ todo'[h] = Join6
    BY <1>1, <1>3, <1>5, <2>1, StoryAt DEF TypeOK
  <2>3. In(s)' = {goal[s]}
    BY <1>5, <1>6, <2>2 DEF Nowhere, In, Occupy, TypeOK
  <2>4. Named(s)' /\ goal' = goal
    BY <2>2 DEF Nowhere, Named, Occupy, fields
  <2> QED
    BY <1>6, <2>2, <2>3, <2>4 DEF Story, Arriving
<1> QED
  BY <1>1, <1>2, <1>3, <1>4, <1>5, <1>6, <1>7, <1>8, <1>9, HandlerKept
     DEF Occupy, fields, users, TypeOK

LEMMA SetRoomKeeps ==
    ASSUME ChatInv, NEW s \in Sessions, SetRoom(s)
    PROVE  ChatInv'
<1> DEFINE h == Handler(s)
<1>1. todo[h] = Join6 /\ todo[h] # <<>> /\ Head(todo[h]) = "set"
  BY HandlerHead DEF SetRoom, At, ChatInv, PlanInv, Plan
<1>2. Tail(todo[h]) = Join5 /\ todo[h] # Login3
  BY <1>1, JoinProperties, LoginProperties
<1>3. todo' = [todo EXCEPT ![h] = Join5]
  BY <1>2, JoinProperties, ConcatEmptySeq DEF SetRoom, Then
<1>4. Join5 # Login3 /\ Join5 \in HandlerPlans
  BY JoinProperties, LoginProperties DEF Located, HandlerPlans
<1>5. Join5 \notin Headed
  <2>1. Join5 \notin {Join7, Move}
    BY JoinProperties
  <2>2. Head(Join4) = "inroom" /\ Head(Leaving2(Join7)) = "copy"
    BY JoinProperties, LeavingFacts
  <2>3. Join5 # Leaving3(Join7)
    BY <2>2, JoinProperties, LeavingFacts
  <2>4. Join5 \notin {Leaving1(Join7), Leaving2(Join7), Leaving4(Join7),
                      Leaving5(Join7)}
    BY JoinProperties, LeavingFacts
  <2> QED
    BY <2>1, <2>3, <2>4 DEF Headed, Leaving, LeavingFrom
<1>6. ChatInv /\ TypeOK /\ h \in Actors
  BY ActorFacts DEF ChatInv
<1>7. from[h] \in Rooms
  BY <1>1 DEF ChatInv, PlanInv, Plan, Located
<1>8. ASSUME connected[s]
      PROVE  Story(s)'
  <2>1. Story(s)
    BY <1>8 DEF ChatInv, StoryInv
  <2>2. Arriving(s) /\ todo'[h] = Join5
    BY <1>1, <1>3, <1>6, <2>1, StoryAt DEF TypeOK
  <2>3. In(s)' = {goal[s]} /\ currentRoomId'[s] = goal[s] /\ goal[s] \in Rooms
    BY <1>6, <2>2 DEF Arriving, In, SetRoom, TypeOK
  <2>4. Named(s)'
    BY <2>2 DEF Arriving, Named, SetRoom
  <2>5. Placed(s)' /\ currentRoomId'[s] # 0
    BY <2>3, RoomsAssumption DEF Placed
  <2> QED
    BY <2>2, <2>4, <2>5 DEF Story, Arrived
<1> QED
  BY <1>1, <1>2, <1>3, <1>4, <1>5, <1>6, <1>7, <1>8, HandlerKept
     DEF SetRoom, locals, users, TypeOK, In
LEMMA InRoomKeeps ==
    ASSUME ChatInv, NEW s \in Sessions, InRoom(s)
    PROVE  ChatInv'
<1> DEFINE h == Handler(s)
<1>1. todo[h] = Join4 /\ todo[h] # <<>> /\ Head(todo[h]) = "inroom"
  BY HandlerHead DEF InRoom, At, ChatInv, PlanInv, Plan
<1>2. Tail(todo[h]) = Leaving3(<<>>) /\ todo[h] # Login3
  BY <1>1, JoinProperties, LoginProperties
<1>3. todo' = [todo EXCEPT ![h] = Leaving3(<<>>)]
  BY <1>2, Rests, LeavingProperties, ConcatEmptySeq DEF InRoom, Then
<1>4. Leaving3(<<>>) # Login3 /\ Leaving3(<<>>) \in HandlerPlans
  BY LeavingFacts, LoginProperties DEF LeavingFrom, Located, HandlerPlans
<1>5. Leaving3(<<>>) \notin Headed
  BY Unheaded
<1>6. ChatInv /\ TypeOK /\ h \in Actors
  BY ActorFacts DEF ChatInv
<1>7. from[h] \in Rooms
  BY <1>1 DEF ChatInv, PlanInv, Plan, Located
<1>8. ASSUME connected[s]
      PROVE  Story(s)'
  <2>1. Story(s)
    BY <1>8 DEF ChatInv, StoryInv
  <2>2. Arrived(s) /\ todo'[h] = Leaving3(<<>>)
    BY <1>1, <1>3, <1>6, <2>1, StoryAt DEF TypeOK
  <2>3. Calm(s)'
    BY <1>6, <2>2 DEF Arrived, Named, Calm, Placed, In, InRoom, TypeOK
  <2> QED
    BY <2>2, <2>3 DEF Story, CalmPlans
<1> QED
  BY <1>1, <1>2, <1>3, <1>4, <1>5, <1>6, <1>7, <1>8, HandlerKept
     DEF InRoom, locals, users, TypeOK, In

LEMMA QuitKeeps ==
    ASSUME ChatInv, NEW s \in Sessions, Quit(s)
    PROVE  ChatInv'
<1> DEFINE h == Handler(s)
<1>1. todo[h] = One("quit") /\ todo[h] # <<>> /\ Head(todo[h]) = "quit"
  BY HandlerHead DEF Quit, At, ChatInv, PlanInv, Plan
<1>2. Tail(todo[h]) = <<>> /\ todo[h] # Login3
  BY <1>1, SingleProperties, LoginProperties
<1>3. PICK q \in {<<>>, One("remove")} :
         /\ todo' = [todo EXCEPT ![h] = q]
         /\ q # <<>> => Joined(s)
  <2>1. <<>> \o <<>> = <<>> /\ <<"remove">> \o <<>> = One("remove")
    BY Nil, ConcatEmptySeq DEF One, Put
  <2> QED
    BY <1>2, <2>1 DEF Quit, Then
<1>4. q \in Free /\ q # Login3 /\ q \in HandlerPlans
  BY SingleProperties, LoginProperties DEF Free, HandlerPlans
<1>5. ASSUME connected[s]
      PROVE  Story(s)'
  <2>1. Story(s) /\ h \in Actors /\ TypeOK
    BY <1>5, ActorFacts DEF ChatInv, StoryInv
  <2>2. Calm(s) /\ todo'[h] = q
    BY <1>1, <1>3, <2>1, StoryAt DEF TypeOK
  <2>3. Calm(s)' /\ UNCHANGED <<state, nickname, currentRoomId>>
    BY <2>2, CalmSame DEF Quit, fields
  <2>4. ASSUME q = One("remove")
        PROVE  Inside(s)'
    <3>1. Named(s)' /\ currentRoomId'[s] # 0
      BY <1>3, <2>2, <2>3, <2>4, SingleProperties DEF Calm, Named, Joined
    <3> QED
      BY <2>2, <2>3, <2>4, <3>1 DEF Inside
  <2> QED
    BY <1>3, <2>2, <2>3, <2>4 DEF Story, CalmPlans
<1>6. ChatInv /\ TypeOK
  BY DEF ChatInv
<1> QED
  BY <1>1, <1>2, <1>3, <1>4, <1>5, <1>6, FreeIsFree, HandlerKept
     DEF Quit, fields, locals, users, TypeOK, In

LEMMA LeftKeeps ==
    ASSUME ChatInv, NEW s \in Sessions, Left(s)
    PROVE  ChatInv'
<1> DEFINE h == Handler(s)
<1>1. todo[h] = Quit1 /\ todo[h] # <<>> /\ Head(todo[h]) = "left"
  BY HandlerHead DEF Left, At, ChatInv, PlanInv, Plan
<1>2. Tail(todo[h]) = <<>> /\ todo[h] # Login3
  BY <1>1, SingleProperties, LoginProperties
<1>3. todo' = [todo EXCEPT ![h] = <<>>]
  BY <1>2, Nil, ConcatEmptySeq DEF Left, Then
<1>4. <<>> \in Free /\ <<>> # Login3 /\ <<>> \in HandlerPlans
  BY LoginProperties DEF Free, HandlerPlans
<1>5. ASSUME connected[s]
      PROVE  Story(s)'
  <2>1. Story(s) /\ h \in Actors /\ TypeOK
    BY <1>5, ActorFacts DEF ChatInv, StoryInv
  <2>2. Nowhere(s) /\ todo'[h] = <<>>
    BY <1>1, <1>3, <2>1, StoryAt DEF TypeOK
  <2>3. In(s)' = {} /\ {0} \cap Rooms = {}
    BY <2>2, RoomsAssumption DEF Nowhere, In, Left
  <2>4. Placed(s)'
    BY <2>2, <2>3 DEF Nowhere, Placed, Left
  <2>5. Calm(s)'
    BY <2>1, <2>2, <2>4 DEF Calm, Nowhere, Named, Left, TypeOK
  <2> QED
    BY <2>2, <2>5 DEF Story, CalmPlans
<1>6. ChatInv /\ TypeOK
  BY DEF ChatInv
<1> QED
  BY <1>1, <1>2, <1>3, <1>4, <1>5, <1>6, FreeIsFree, HandlerKept
     DEF Left, locals, users, TypeOK, In

LEMMA ChatKeeps ==
    ASSUME ChatInv, NEW s \in Sessions, Chat(s)
    PROVE  ChatInv'
<1> DEFINE h == Handler(s)
<1>1. todo[h] = One("chat") /\ todo[h] # <<>> /\ Head(todo[h]) = "chat"
  BY HandlerHead DEF Chat, At, ChatInv, PlanInv, Plan
<1>2. Tail(todo[h]) = <<>> /\ todo[h] # Login3
  BY <1>1, SingleProperties, LoginProperties
<1>3. PICK q \in {<<>>, One("find")} : todo' = [todo EXCEPT ![h] = q]
  <2>1. <<>> \o <<>> = <<>> /\ <<"find">> \o <<>> = One("find")
    BY Nil, ConcatEmptySeq DEF One, Put
  <2> QED
    BY <1>2, <2>1 DEF Chat, Then
<1>4. q \in Free /\ q # Login3 /\ q \in HandlerPlans
  BY SingleProperties, LoginProperties DEF Free, HandlerPlans
<1>5. ASSUME connected[s]
      PROVE  Story(s)'
  <2>1. Story(s) /\ h \in Actors /\ TypeOK
    BY <1>5, ActorFacts DEF ChatInv, StoryInv
  <2>2. Calm(s) /\ todo'[h] = q
    BY <1>1, <1>3, <2>1, StoryAt DEF TypeOK
  <2>3. Calm(s)'
    BY <2>2, CalmSame DEF Chat
  <2> QED
    BY <1>3, <2>2, <2>3 DEF Story, CalmPlans
<1>6. ChatInv /\ TypeOK
  BY DEF ChatInv
<1> QED
  BY <1>1, <1>2, <1>3, <1>4, <1>5, <1>6, FreeIsFree, HandlerKept
     DEF Chat, fields, locals, users, TypeOK, In

LEMMA FindKeeps ==
    ASSUME ChatInv, NEW s \in Sessions, Find(s)
    PROVE  ChatInv'
<1> DEFINE h == Handler(s)
<1>1. todo[h] = One("find") /\ todo[h] # <<>> /\ Head(todo[h]) = "find"
  BY HandlerHead DEF Find, At, ChatInv, PlanInv, Plan
<1>2. Tail(todo[h]) = <<>> /\ todo[h] # Login3
  BY <1>1, SingleProperties, LoginProperties
<1>3. PICK q \in {<<>>, Leaving2(<<>>)} :
         /\ todo' = [todo EXCEPT ![h] = q]
         /\ q # <<>> => currentRoomId[s] \in Rooms
  <2>1. /\ <<>> \o <<>> = <<>>
        /\ <<"copy", "send">> \o <<>> = Leaving2(<<>>)
    BY Nil, Calls, LeavingProperties, ConcatEmptySeq
  <2> QED
    BY <1>2, <2>1 DEF Find, Then
<1>4. q # Login3 /\ q \in HandlerPlans
  BY LeavingFacts, LoginProperties DEF Free, Located, LeavingFrom, HandlerPlans
<1>5. q \notin Headed /\ (q \in Located => q # <<>>)
  BY Unheaded, Distinct
<1>6. ChatInv /\ TypeOK /\ h \in Actors
  BY ActorFacts DEF ChatInv
<1>7. from'[h] = currentRoomId[s]
  BY <1>6 DEF Find, TypeOK
<1>8. ASSUME connected[s]
      PROVE  Story(s)'
  <2>1. Story(s)
    BY <1>8 DEF ChatInv, StoryInv
  <2>2. Calm(s) /\ todo'[h] = q
    BY <1>1, <1>3, <1>6, <2>1, StoryAt DEF TypeOK
  <2>3. Calm(s)'
    BY <2>2, CalmSame DEF Find
  <2> QED
    BY <1>3, <2>2, <2>3 DEF Story, CalmPlans
<1> QED
  BY <1>1, <1>2, <1>3, <1>4, <1>5, <1>6, <1>7, <1>8, HandlerKept
     DEF Find, fields, users, TypeOK, In
\* LeaveRoom of a handler, by EnterRoom or HandleLeaveRoom: r is what follows
\* if the room is left, q what follows if it is not.
LEMMA HandlerLeaves ==
    ASSUME ChatInv, NEW s \in Sessions, NEW after, NEW r \in {Join7, Quit1},
           NEW q \in {Join7, <<>>},
           todo[Handler(s)] \in {Move, One("remove")},
           Tail(todo[Handler(s)]) = q, LeaveRoom(Handler(s), after),
           (<<"vacate", "unset", "count", "copy", "send">> \o after) \o q
              = Leaving5(r),
           r = Join7 \/ q = Join7 => todo[Handler(s)] = Move
    PROVE  ChatInv'
<1> DEFINE h == Handler(s)
<1>1. ChatInv /\ TypeOK /\ h \in Actors /\ h[2] = s
  BY ActorFacts DEF ChatInv
<1>2. todo[h] # <<>> /\ todo[h] # Login3
  BY JoinProperties, SingleProperties, LoginProperties
<1>3. <<>> \o q = q
  BY Rests, ConcatEmptySeq
<1>4. PICK p \in {q, Leaving5(r)} :
         /\ todo' = [todo EXCEPT ![h] = p]
         /\ currentRoomId[s] \in Rooms => p = Leaving5(r)
         /\ currentRoomId[s] \notin Rooms => p = q
  BY <1>1, <1>3 DEF LeaveRoom, Then
<1>5. p # Login3 /\ p \in HandlerPlans
  <2>1. q # Login3 /\ Leaving5(r) # Login3
    BY LeavingFacts, JoinProperties, LoginProperties
  <2>2. q \in HandlerPlans
    BY DEF Free, Headed, HandlerPlans
  <2>3. Leaving5(r) \in HandlerPlans
    BY DEF Located, LeavingFrom, HandlerPlans
  <2> QED
    BY <2>1, <2>2, <2>3
<1>6. q \notin Located
  BY Distinct, JoinProperties
<1>7. from'[h] = currentRoomId[s]
  BY <1>1 DEF LeaveRoom, TypeOK
<1>8. p \in Located => from'[h] \in Rooms
  BY <1>4, <1>6, <1>7
<1>9. p \in Headed => goal[s] \in Rooms
  <2>1. CASE todo[h] = Move
    BY <2>1 DEF ChatInv, PlanInv, Plan, Headed
  <2>2. CASE todo[h] # Move
    <3>1. r = Quit1 /\ q = <<>>
      BY <2>2
    <3> QED
      BY <1>4, <3>1, Unheaded, Distinct
  <2> QED
    BY <2>1, <2>2
<1>10. ASSUME connected[s]
       PROVE  Story(s)'
  <2>1. Story(s)
    BY <1>10 DEF ChatInv, StoryInv
  <2>2. Inside(s)
    BY <1>2, <2>1, StoryAt, JoinProperties, SingleProperties
  <2>3. currentRoomId[s] \in Rooms
    BY <1>1, <2>2, JoinProperties, SingleProperties DEF Inside, TypeOK
  <2>4. p = Leaving5(r) /\ todo'[h] = p
    BY <1>1, <1>4, <2>3 DEF TypeOK
  <2>5. Calm(s) /\ Named(s)
    BY <2>2 DEF Inside
  <2>6. Calm(s)' /\ Named(s)' /\ currentRoomId' = currentRoomId
    BY <2>5, CalmSame DEF LeaveRoom, fields, Named
  <2> QED
    BY <1>7, <2>4, <2>6 DEF Story, Going
<1> QED
  BY <1>1, <1>2, <1>4, <1>5, <1>7, <1>8, <1>9, <1>10, HandlerKept
     DEF LeaveRoom, fields, users, TypeOK, In

LEMMA LeaveKeeps ==
    ASSUME ChatInv, NEW s \in Sessions, Leave(Handler(s))
    PROVE  ChatInv'
<1>1. todo[Handler(s)] = Move
  BY HandlerHead DEF Leave, At, ChatInv, PlanInv, Plan
<1>2. Tail(todo[Handler(s)]) = Join7
  BY <1>1, JoinProperties
<1>3. (<<"vacate", "unset", "count", "copy", "send">> \o <<>>) \o Join7
      = Leaving5(Join7)
  BY LeaveCalls, JoinProperties
<1>4. LeaveRoom(Handler(s), <<>>)
  BY DEF Leave
<1> QED
  BY <1>1, <1>2, <1>3, <1>4, HandlerLeaves

LEMMA RemoveKeeps ==
    ASSUME ChatInv, NEW s \in Sessions, Remove(s)
    PROVE  ChatInv'
<1>1. todo[Handler(s)] = One("remove")
  BY HandlerHead DEF Remove, At, ChatInv, PlanInv, Plan
<1>2. Tail(todo[Handler(s)]) = <<>>
  BY <1>1, SingleProperties
<1>3. (<<"vacate", "unset", "count", "copy", "send">> \o <<"left">>) \o <<>>
      = Leaving5(Quit1)
  BY LeaveCalls, Nil
<1>4. LeaveRoom(Handler(s), <<"left">>)
  BY DEF Remove
<1>5. Quit1 # Join7 /\ <<>> # Join7
  BY JoinProperties, SingleProperties
<1> QED
  BY <1>1, <1>2, <1>3, <1>4, <1>5, HandlerLeaves

LEMMA VacateKeeps ==
    ASSUME ChatInv, NEW s \in Sessions, Vacate(Handler(s))
    PROVE  ChatInv'
<1> DEFINE h == Handler(s)
<1>1. ChatInv /\ TypeOK /\ h \in Actors /\ h[2] = s
  BY ActorFacts DEF ChatInv
<1>2. PICK r \in {<<>>, Join7, Quit1} :
         todo[h] = Leaving5(r) /\ Head(todo[h]) = "vacate"
  BY HandlerHead DEF Vacate, At, ChatInv, PlanInv, Plan
<1>3. /\ Tail(todo[h]) = Leaving4(r) /\ Leaving4(r) \in Seq(Labels)
      /\ todo[h] # <<>> /\ todo[h] # Login3
  BY <1>2, LeavingFacts, LoginProperties
<1>4. todo' = [todo EXCEPT ![h] = Leaving4(r)]
  BY <1>3, ConcatEmptySeq DEF Vacate, Then
<1>5. Leaving4(r) # Login3 /\ Leaving4(r) \in HandlerPlans
  BY LeavingFacts, LoginProperties
     DEF Located, LeavingFrom, HandlerPlans
<1>6. from[h] \in Rooms
  BY <1>2 DEF ChatInv, PlanInv, Plan, Located, LeavingFrom
<1>7. Leaving4(r) \in Headed => goal[s] \in Rooms
  <2>1. CASE r = Join7
    BY <1>2, <2>1 DEF ChatInv, PlanInv, Plan, Headed, Leaving, LeavingFrom
  <2>2. CASE r \in {<<>>, Quit1}
    BY <2>2, Unheaded
  <2> QED
    BY <2>1, <2>2
<1>8. members' \in [Rooms -> SUBSET Sessions]
  BY <1>1 DEF Vacate, TypeOK
<1>9. \A t \in Sessions \ {s} : In(t)' = In(t)
  BY <1>1 DEF Vacate, TypeOK, In
<1>10. ASSUME connected[s]
       PROVE  Story(s)'
  <2>1. Story(s)
    BY <1>10 DEF ChatInv, StoryInv
  <2>2. Going(s) /\ todo'[h] = Leaving4(r)
    BY <1>1, <1>2, <1>3, <1>4, <2>1, StoryAt DEF TypeOK
  <2>3. Leaving4(r) \in {Leaving4(Join7), Leaving4(Quit1)}
    BY <1>2, <2>2, LeavingFacts DEF Going
  <2>4. In(s)' = {}
    <3>1. In(s) \subseteq {from[h]}
      BY <2>2 DEF Going, Calm, Placed
    <3> QED
      BY <1>1, <1>6, <3>1 DEF In, Vacate, TypeOK
  <2>5. Named(s)'
    BY <2>2 DEF Going, Named, Vacate, fields
  <2> QED
    BY <2>2, <2>3, <2>4, <2>5 DEF Story, Gone
<1> QED
  BY <1>1, <1>2, <1>3, <1>4, <1>5, <1>6, <1>7, <1>8, <1>9, <1>10, HandlerKept
     DEF Vacate, fields, locals, users, TypeOK

LEMMA UnsetKeeps ==
    ASSUME ChatInv, NEW s \in Sessions, Unset(Handler(s))
    PROVE  ChatInv'
<1> DEFINE h == Handler(s)
<1>1. ChatInv /\ TypeOK /\ h \in Actors /\ h[2] = s
  BY ActorFacts DEF ChatInv
<1>2. PICK r \in {<<>>, Join7, Quit1} :
         todo[h] = Leaving4(r) /\ Head(todo[h]) = "unset"
  BY HandlerHead DEF Unset, At, ChatInv, PlanInv, Plan
<1>3. /\ Tail(todo[h]) = Leaving3(r) /\ Leaving3(r) \in Seq(Labels)
      /\ todo[h] # <<>> /\ todo[h] # Login3
  BY <1>2, LeavingFacts, LoginProperties
<1>4. todo' = [todo EXCEPT ![h] = Leaving3(r)]
  BY <1>3, ConcatEmptySeq DEF Unset, Then
<1>5. Leaving3(r) # Login3 /\ Leaving3(r) \in HandlerPlans
  BY LeavingFacts, LoginProperties
     DEF Located, LeavingFrom, HandlerPlans
<1>6. from[h] \in Rooms
  BY <1>2 DEF ChatInv, PlanInv, Plan, Located, LeavingFrom
<1>7. Leaving3(r) \in Headed => goal[s] \in Rooms
  <2>1. CASE r = Join7
    BY <1>2, <2>1 DEF ChatInv, PlanInv, Plan, Headed, Leaving, LeavingFrom
  <2>2. CASE r \in {<<>>, Quit1}
    BY <2>2, Unheaded
  <2> QED
    BY <2>1, <2>2
<1>8. ASSUME connected[s]
      PROVE  Story(s)'
  <2>1. Story(s)
    BY <1>8 DEF ChatInv, StoryInv
  <2>2. Gone(s) /\ todo'[h] = Leaving3(r)
    BY <1>1, <1>2, <1>3, <1>4, <2>1, StoryAt DEF TypeOK
  <2>3. Leaving3(r) \in {Leaving3(Join7), Leaving3(Quit1)}
    BY <1>2, <2>2, LeavingFacts DEF Gone
  <2>4. In(s)' = {} /\ Named(s)' /\ currentRoomId'[s] = 0
    BY <1>1, <2>2 DEF Gone, In, Named, Unset, TypeOK
  <2> QED
    BY <2>2, <2>3, <2>4 DEF Story, Nowhere
<1> QED
  BY <1>1, <1>2, <1>3, <1>4, <1>5, <1>6, <1>7, <1>8, HandlerKept
     DEF Unset, locals, users, TypeOK, In

\* Counting, copying and sending leave the session where it is.
LEMMA OnlookKeeps ==
    ASSUME ChatInv, NEW s \in Sessions, NEW r \in {<<>>, Join7, Quit1},
           NEW q \in HandlerPlans,
           \/ todo[Handler(s)] = Leaving3(r) /\ q = Leaving2(r)
           \/ todo[Handler(s)] = Leaving2(r) /\ q = Leaving1(r)
           \/ todo[Handler(s)] = Leaving1(r) /\ q = r
           \/ todo[Handler(s)] = Join5 /\ q = Join4,
           Then(Handler(s), <<>>),
           \A o \in Rooms : \/ members'[o] = members[o]
                            \/ members'[o] = Live(members[o]),
           members' \in [Rooms -> SUBSET Sessions],
           targets' \in [Actors -> SUBSET Sessions],
           from' \in [Actors -> Rooms \cup {0}],
           \A b \in Actors : b # Handler(s) => from'[b] = from[b],
           Head(todo[Handler(s)]) # "send" =>
              from'[Handler(s)] = from[Handler(s)],
           UNCHANGED <<connected, alive, fields, users, asked, goal, requests,
                       late>>
    PROVE  ChatInv'
<1> DEFINE h == Handler(s)
<1>1. ChatInv /\ TypeOK /\ h \in Actors
  BY ActorFacts DEF ChatInv
<1>a. /\ Leaving1(r) # <<>> /\ Head(Leaving1(r)) = "send"
      /\ Leaving2(r) # <<>> /\ Head(Leaving2(r)) = "copy"
      /\ Leaving3(r) # <<>> /\ Head(Leaving3(r)) = "count"
      /\ Tail(Leaving1(r)) = r /\ Tail(Leaving2(r)) = Leaving1(r)
      /\ Tail(Leaving3(r)) = Leaving2(r)
  BY LeavingFacts
<1>b. Login3 # <<>> /\ Head(Login3) = "name"
  BY LoginProperties
<1>2. /\ Tail(todo[h]) = q /\ todo[h] # <<>> /\ todo[h] # Login3
      /\ Head(todo[h]) \in {"count", "copy", "send"}
  BY <1>a, <1>b, JoinProperties
<1>3. q # Login3
  <2>1. r # Login3
    BY <1>b, JoinProperties, SingleProperties
  <2> QED
    BY <1>a, <1>b, <2>1, JoinProperties
<1>4. todo' = [todo EXCEPT ![h] = q]
  <2>1. <<>> \o q = q
    BY PlansAreLists, ConcatEmptySeq
  <2> QED
    BY <1>2, <2>1 DEF Then
<1>5. q \in Located => from'[h] \in Rooms
  <2>1. CASE todo[h] = Leaving3(r) \/ todo[h] = Join5
    <3>1. todo[h] \in Located /\ Head(todo[h]) = "count"
      BY <2>1, LeavingFacts, JoinProperties DEF Located, LeavingFrom
    <3> QED
      BY <3>1 DEF ChatInv, PlanInv, Plan
  <2>2. CASE todo[h] = Leaving2(r) /\ q = Leaving1(r)
    BY <2>2, Distinct, LeavingFacts
  <2>3. CASE todo[h] = Leaving1(r) /\ q = r
    BY <2>3, Distinct, JoinProperties, SingleProperties
  <2> QED
    BY <2>1, <2>2, <2>3
<1>6. q \in Headed => goal[s] \in Rooms
  <2>1. CASE r = Join7 /\ todo[h] # Join5
    <3>1. todo[h] \in Headed
      BY <2>1 DEF Headed, Leaving, LeavingFrom
    <3> QED
      BY <3>1 DEF ChatInv, PlanInv, Plan
  <2>2. CASE r \in {<<>>, Quit1} /\ todo[h] # Join5
    <3>1. r \notin Headed
      BY <2>2, Distinct, SingleProperties
    <3>2. Leaving1(r) \notin Headed /\ Leaving2(r) \notin Headed
      BY <2>2, Unheaded
    <3> QED
      BY <2>2, <3>1, <3>2
  <2>3. CASE todo[h] = Join5
    <3>1. q = Join4
      BY <1>2, <2>3, JoinProperties
    <3> QED
      BY <3>1, Distinct, JoinProperties
  <2> QED
    BY <2>1, <2>2, <2>3
<1>7. ASSUME NEW t \in Sessions, connected[t]
      PROVE  In(t)' = In(t)
  <2>1. alive[t]
    BY <1>7 DEF ChatInv, LinkInv, Link
  <2> QED
    BY <1>1, <2>1, LiveSame
<1>8. ASSUME connected[s]
      PROVE  Story(s)'
  <2>1. Story(s) /\ todo'[h] = q /\ In(s)' = In(s)
    BY <1>1, <1>4, <1>7, <1>8 DEF ChatInv, StoryInv, TypeOK
  <2>2. \/ todo[h] \in CalmPlans /\ Calm(s)
        \/ Nowhere(s)
        \/ Arrived(s) /\ todo[h] = Join5
    BY <1>2, <2>1, StoryAt
  <2>3. CASE todo[h] \in CalmPlans /\ Calm(s)
    <3>1. q \in CalmPlans
      <4>1. todo[h] \in {Leaving3(<<>>), Leaving2(<<>>), Leaving1(<<>>)}
        BY <1>2, <2>3, SingleProperties, LoginProperties DEF CalmPlans
      <4>2. /\ Tail(Leaving1(<<>>)) = <<>>
            /\ Tail(Leaving2(<<>>)) = Leaving1(<<>>)
            /\ Tail(Leaving3(<<>>)) = Leaving2(<<>>)
        BY LeavingFacts
      <4> QED
        BY <1>2, <4>1, <4>2 DEF CalmPlans
    <3>2. Calm(s)'
      BY <2>1, <2>3 DEF Calm, Placed, fields
    <3> QED
      BY <2>1, <3>1, <3>2 DEF Story
  <2>4. CASE Nowhere(s)
    <3>1. q \in {Leaving2(Join7), Leaving1(Join7), Join7,
                 Leaving2(Quit1), Leaving1(Quit1), Quit1}
      <4>1. todo[h] \in {Leaving3(Join7), Leaving2(Join7), Leaving1(Join7),
                         Leaving3(Quit1), Leaving2(Quit1), Leaving1(Quit1)}
        BY <1>2, <2>4, JoinProperties, SingleProperties DEF Nowhere
      <4> QED
        BY <1>2, <4>1, LeavingFacts
    <3>2. Named(s)' /\ currentRoomId'[s] = 0 /\ In(s)' = {}
      BY <2>1, <2>4 DEF Nowhere, Named, fields
    <3> QED
      BY <2>1, <3>1, <3>2 DEF Story, Nowhere
  <2>5. CASE Arrived(s) /\ todo[h] = Join5
    <3>1. q = Join4
      BY <1>2, <2>5, JoinProperties
    <3>2. Named(s)' /\ currentRoomId'[s] # 0 /\ Placed(s)'
      BY <2>1, <2>5 DEF Arrived, Named, Placed, fields
    <3> QED
      BY <2>1, <3>1, <3>2 DEF Story, Arrived
  <2> QED
    BY <2>2, <2>3, <2>4, <2>5
<1> QED
  BY <1>1, <1>2, <1>3, <1>4, <1>5, <1>6, <1>7, <1>8, HandlerKept
     DEF fields, users, TypeOK
LEMMA CountKeeps ==
    ASSUME ChatInv, NEW s \in Sessions, Count(Handler(s))
    PROVE  ChatInv'
<1> DEFINE h == Handler(s)
<1>1. TypeOK /\ h \in Actors
  BY ActorFacts DEF ChatInv
<1>2. PICK r \in {<<>>, Join7, Quit1}, q \in HandlerPlans :
         \/ todo[h] = Leaving3(r) /\ q = Leaving2(r)
         \/ todo[h] = Join5 /\ q = Join4
  <2>1. todo[h] \in {Leaving3(<<>>), Leaving3(Join7), Leaving3(Quit1), Join5}
    BY HandlerHead DEF Count, At, ChatInv, PlanInv, Plan
  <2>2. /\ Leaving2(<<>>) \in HandlerPlans /\ Leaving2(Join7) \in HandlerPlans
        /\ Leaving2(Quit1) \in HandlerPlans /\ Join4 \in HandlerPlans
    BY DEF HandlerPlans, Located, LeavingFrom
  <2> QED
    BY <2>1, <2>2
<1>3. members' \in [Rooms -> SUBSET Sessions]
  BY <1>1 DEF Count, Live, TypeOK
<1>4. \A o \in Rooms : \/ members'[o] = members[o]
                       \/ members'[o] = Live(members[o])
  BY <1>1 DEF Count, TypeOK
<1> QED
  BY <1>1, <1>2, <1>3, <1>4, OnlookKeeps DEF Count, locals, TypeOK

LEMMA CopyKeeps ==
    ASSUME ChatInv, NEW s \in Sessions, Copy(Handler(s))
    PROVE  ChatInv'
<1> DEFINE h == Handler(s)
<1>1. TypeOK /\ h \in Actors
  BY ActorFacts DEF ChatInv
<1>2. PICK r \in {<<>>, Join7, Quit1}, q \in HandlerPlans :
         todo[h] = Leaving2(r) /\ q = Leaving1(r)
  <2>1. todo[h] \in {Leaving2(<<>>), Leaving2(Join7), Leaving2(Quit1)}
    BY HandlerHead DEF Copy, At, ChatInv, PlanInv, Plan
  <2>2. /\ Leaving1(<<>>) \in HandlerPlans /\ Leaving1(Join7) \in HandlerPlans
        /\ Leaving1(Quit1) \in HandlerPlans
    BY DEF HandlerPlans, Headed, Leaving
  <2> QED
    BY <2>1, <2>2
<1>3. from[h] \in Rooms
  BY <1>2 DEF ChatInv, PlanInv, Plan, Located, LeavingFrom
<1>4. members' \in [Rooms -> SUBSET Sessions]
  BY <1>1 DEF Copy, Live, TypeOK
<1>5. \A o \in Rooms : \/ members'[o] = members[o]
                       \/ members'[o] = Live(members[o])
  BY <1>1 DEF Copy, TypeOK
<1>6. targets' \in [Actors -> SUBSET Sessions]
  BY <1>1, <1>3 DEF Copy, Live, TypeOK
<1> QED
  BY <1>1, <1>2, <1>4, <1>5, <1>6, OnlookKeeps DEF Copy, TypeOK

LEMMA SendKeeps ==
    ASSUME ChatInv, NEW s \in Sessions, Send(Handler(s))
    PROVE  ChatInv'
<1> DEFINE h == Handler(s)
<1>1. TypeOK /\ h \in Actors
  BY ActorFacts DEF ChatInv
<1>2. PICK r \in {<<>>, Join7, Quit1}, q \in HandlerPlans :
         todo[h] = Leaving1(r) /\ q = r
  <2>1. todo[h] \in {Leaving1(<<>>), Leaving1(Join7), Leaving1(Quit1)}
    BY HandlerHead DEF Send, At, ChatInv, PlanInv, Plan
  <2>2. <<>> \in HandlerPlans /\ Join7 \in HandlerPlans /\ Quit1 \in HandlerPlans
    BY DEF HandlerPlans, Headed, Free
  <2> QED
    BY <2>1, <2>2
<1>3. Head(todo[h]) = "send"
  BY DEF Send, At
<1>4. targets' \in [Actors -> SUBSET Sessions]
  BY <1>1 DEF Send, TypeOK
<1>5. from' \in [Actors -> Rooms \cup {0}]
      /\ \A b \in Actors : b # h => from'[b] = from[b]
  BY <1>1 DEF Send, TypeOK
<1>6. /\ Then(h, <<>>)
      /\ UNCHANGED <<connected, alive, fields, users, members, asked, goal,
                     requests, late>>
  BY DEF Send
<1>7. members' \in [Rooms -> SUBSET Sessions]
      /\ \A o \in Rooms : members'[o] = members[o]
  BY <1>1, <1>6 DEF TypeOK
<1> QED
  BY <1>2, <1>3, <1>4, <1>5, <1>6, <1>7, OnlookKeeps

-----------------------------------------------------------------------------
(* The steps of a closer                                                   *)

LEMMA DepartKeeps ==
    ASSUME ChatInv, NEW s \in Sessions, Depart(s)
    PROVE  ChatInv'
<1> DEFINE c == Closer(s)
<1>1. ChatInv /\ TypeOK /\ c \in Actors
  BY ActorFacts DEF ChatInv
<1>2. todo[c] = Down5 /\ todo[c] # <<>> /\ Tail(todo[c]) = Down4
  <2>1. todo[c] = Down5
    BY CloserHead DEF Depart, At, ChatInv, PlanInv, Plan
  <2> QED
    BY <2>1, DownProperties
<1>3. PICK q \in {Exit, Down4} : todo' = [todo EXCEPT ![c] = q]
  <2>1. <<>> \o Down4 = Down4 /\ <<"leave">> \o Down4 = Exit
    BY DownProperties, ConcatEmptySeq DEF Exit, Put
  <2> QED
    BY <1>2, <2>1 DEF Depart, Then
<1>4. todo[c] \in Before /\ q \in Before
  BY <1>2 DEF Before
<1>5. q \notin LeavingFrom(Down4)
  BY LeavingFacts, DownProperties DEF LeavingFrom
<1> QED
  BY <1>1, <1>2, <1>3, <1>4, <1>5, CloserKept
     DEF Depart, fields, locals, users, TypeOK, In

LEMMA RestartKeeps ==
    ASSUME ChatInv, NEW s \in Sessions, Restart(s)
    PROVE  ChatInv'
<1> DEFINE c == Closer(s)
<1>1. ChatInv /\ TypeOK /\ c \in Actors
  BY ActorFacts DEF ChatInv
<1>2. todo[c] = Down3 /\ todo[c] # <<>> /\ Tail(todo[c]) = Down2
  <2>1. todo[c] = Down3
    BY CloserHead DEF Restart, At, ChatInv, PlanInv, Plan
  <2> QED
    BY <2>1, DownProperties
<1>3. todo' = [todo EXCEPT ![c] = Down2]
  <2>1. <<>> \o Down2 = Down2
    BY DownProperties, ConcatEmptySeq
  <2> QED
    BY <1>2, <2>1 DEF Restart, Then
<1>4. todo[c] \in After /\ Down2 \in After
  BY <1>2 DEF After
<1>5. Down2 \notin LeavingFrom(Down4)
  BY LeavingFacts, DownProperties DEF LeavingFrom
<1> QED
  BY <1>1, <1>2, <1>3, <1>4, <1>5, CloserKept
     DEF Restart, locals, users, TypeOK, In

LEMMA ForgetKeeps ==
    ASSUME ChatInv, NEW s \in Sessions, Forget(s)
    PROVE  ChatInv'
<1> DEFINE c == Closer(s)
<1>1. ChatInv /\ TypeOK /\ c \in Actors
  BY ActorFacts DEF ChatInv
<1>2. todo[c] = Down1 /\ todo[c] # <<>> /\ Tail(todo[c]) = <<>>
  <2>1. todo[c] = Down1
    BY CloserHead DEF Forget, At, ChatInv, PlanInv, Plan
  <2> QED
    BY <2>1, DownProperties
<1>3. todo' = [todo EXCEPT ![c] = <<>>]
  <2>1. <<>> \o <<>> = <<>>
    BY Nil, ConcatEmptySeq
  <2> QED
    BY <1>2, <2>1 DEF Forget, Then
<1>4. todo[c] \in After /\ <<>> \in After
  BY <1>2 DEF After
<1>5. <<>> \notin LeavingFrom(Down4)
  BY LeavingFacts DEF LeavingFrom
<1> QED
  BY <1>1, <1>2, <1>3, <1>4, <1>5, CloserKept
     DEF Forget, locals, users, TypeOK, In

LEMMA CloserLeaves ==
    ASSUME ChatInv, NEW s \in Sessions, Leave(Closer(s))
    PROVE  ChatInv'
<1> DEFINE c == Closer(s)
<1>1. ChatInv /\ TypeOK /\ c \in Actors /\ c[2] = s
  BY ActorFacts DEF ChatInv
<1>2. todo[c] = Exit /\ todo[c] # <<>> /\ Tail(todo[c]) = Down4
  <2>1. todo[c] = Exit
    BY CloserHead DEF Leave, At, ChatInv, PlanInv, Plan
  <2> QED
    BY <2>1, DownProperties
<1>3. PICK q \in {Leaving5(Down4), Down4} :
         /\ todo' = [todo EXCEPT ![c] = q]
         /\ currentRoomId[s] \notin Rooms => q = Down4
  <2>1. /\ <<>> \o Down4 = Down4
        /\ (<<"vacate", "unset", "count", "copy", "send">> \o <<>>) \o Down4
              = Leaving5(Down4)
    BY DownProperties, ConcatEmptySeq, LeaveCalls
  <2> QED
    BY <1>1, <1>2, <2>1 DEF Leave, LeaveRoom, Then
<1>4. todo[c] \in Before /\ q \in Before
  BY <1>2 DEF Before, Leaving, LeavingFrom
<1>5. Down4 \notin LeavingFrom(Down4)
  BY LeavingFacts, DownProperties DEF LeavingFrom
<1>6. from'[c] = currentRoomId[s]
  BY <1>1 DEF Leave, LeaveRoom, TypeOK
<1>7. q \in LeavingFrom(Down4) => from'[c] \in Rooms
  BY <1>3, <1>5, <1>6
<1> QED
  BY <1>1, <1>2, <1>3, <1>4, <1>7, CloserKept
     DEF Leave, LeaveRoom, fields, users, TypeOK, In

LEMMA CloserRooms ==
    ASSUME ChatInv, NEW s \in Sessions,
           \/ Vacate(Closer(s)) \/ Unset(Closer(s)) \/ Count(Closer(s))
           \/ Copy(Closer(s)) \/ Send(Closer(s))
    PROVE  ChatInv'
<1> DEFINE c == Closer(s)
<1>1. ChatInv /\ TypeOK /\ c \in Actors /\ c[2] = s
  BY ActorFacts DEF ChatInv
<1>2. todo[c] \in Before \cup After /\ todo[c] # <<>>
  BY DEF Vacate, Unset, Count, Copy, Send, At, ChatInv, PlanInv, Plan
<1>3. /\ Leaving1(Down4) \in Before /\ Leaving2(Down4) \in Before
      /\ Leaving3(Down4) \in Before /\ Leaving4(Down4) \in Before
      /\ Leaving5(Down4) \in Before /\ Down4 \in Before
  BY DEF Before, Leaving, LeavingFrom
<1>4. /\ <<>> \o Leaving4(Down4) = Leaving4(Down4)
      /\ <<>> \o Leaving3(Down4) = Leaving3(Down4)
      /\ <<>> \o Leaving2(Down4) = Leaving2(Down4)
      /\ <<>> \o Leaving1(Down4) = Leaving1(Down4)
      /\ <<>> \o Down4 = Down4
  BY <1>3, PlansAreLists, ConcatEmptySeq
<1>5. /\ Tail(Leaving5(Down4)) = Leaving4(Down4)
      /\ Tail(Leaving4(Down4)) = Leaving3(Down4)
      /\ Tail(Leaving3(Down4)) = Leaving2(Down4)
      /\ Tail(Leaving2(Down4)) = Leaving1(Down4)
      /\ Tail(Leaving1(Down4)) = Down4
  BY LeavingFacts
<1>6. todo[c] \in LeavingFrom(Down4) => from[c] \in Rooms
  BY DEF ChatInv, PlanInv, Plan
<1>7. ~connected[s]
  BY <1>2 DEF ChatInv, LinkInv, Link, Idle
<1>8. Down4 \notin LeavingFrom(Down4) /\ Leaving1(Down4) \notin LeavingFrom(Down4)
  BY LeavingFacts, DownProperties DEF LeavingFrom
<1>9. ASSUME \A r \in Rooms : \/ members'[r] = members[r]
                              \/ members'[r] = Live(members[r])
      PROVE  \A t \in Sessions : connected[t] => In(t)' = In(t)
  BY <1>1, <1>9, LiveSame DEF ChatInv, LinkInv, Link
<1>10. CASE Vacate(c)
  <2>1. todo[c] = Leaving5(Down4)
    BY <1>2, <1>10, CloserHead DEF Vacate, At
  <2>2. todo' = [todo EXCEPT ![c] = Leaving4(Down4)]
    BY <1>4, <1>5, <1>10, <2>1 DEF Vacate, Then
  <2>3. from[c] \in Rooms
    BY <1>6, <2>1 DEF LeavingFrom
  <2>4. members' \in [Rooms -> SUBSET Sessions]
    BY <1>1, <1>10 DEF Vacate, TypeOK
  <2>5. \A t \in Sessions \ {s} : In(t)' = In(t)
    BY <1>1, <1>10 DEF Vacate, In, TypeOK
  <2> QED
    BY <1>1, <1>2, <1>3, <1>10, <2>1, <2>2, <2>3, <2>4, <2>5, CloserKept
       DEF Vacate, fields, locals, users, TypeOK
<1>11. CASE Unset(c)
  <2>1. todo[c] = Leaving4(Down4)
    BY <1>2, <1>11, CloserHead DEF Unset, At
  <2>2. todo' = [todo EXCEPT ![c] = Leaving3(Down4)]
    BY <1>4, <1>5, <1>11, <2>1 DEF Unset, Then
  <2>3. from[c] \in Rooms
    BY <1>6, <2>1 DEF LeavingFrom
  <2> QED
    BY <1>1, <1>2, <1>3, <1>11, <2>1, <2>2, <2>3, CloserKept
       DEF Unset, locals, users, TypeOK, In
<1>12. CASE Count(c)
  <2>1. todo[c] = Leaving3(Down4)
    BY <1>2, <1>12, CloserHead DEF Count, At
  <2>2. todo' = [todo EXCEPT ![c] = Leaving2(Down4)]
    BY <1>4, <1>5, <1>12, <2>1 DEF Count, Then
  <2>3. from[c] \in Rooms
    BY <1>6, <2>1 DEF LeavingFrom
  <2>4. members' \in [Rooms -> SUBSET Sessions]
    BY <1>1, <1>12 DEF Count, Live, TypeOK
  <2>5. \A t \in Sessions \ {s} : connected[t] => In(t)' = In(t)
    BY <1>1, <1>9, <1>12 DEF Count, TypeOK
  <2> QED
    BY <1>1, <1>2, <1>3, <1>12, <2>1, <2>2, <2>3, <2>4, <2>5, CloserKept
       DEF Count, fields, locals, users, TypeOK
<1>13. CASE Copy(c)
  <2>1. todo[c] = Leaving2(Down4)
    BY <1>2, <1>13, CloserHead DEF Copy, At
  <2>2. todo' = [todo EXCEPT ![c] = Leaving1(Down4)]
    BY <1>4, <1>5, <1>13, <2>1 DEF Copy, Then
  <2>3. from[c] \in Rooms
    BY <1>6, <2>1 DEF LeavingFrom
  <2>4. members' \in [Rooms -> SUBSET Sessions]
    BY <1>1, <1>13 DEF Copy, Live, TypeOK
  <2>5. \A t \in Sessions \ {s} : connected[t] => In(t)' = In(t)
    BY <1>1, <1>9, <1>13 DEF Copy, TypeOK
  <2>6. targets' \in [Actors -> SUBSET Sessions]
    BY <1>1, <1>13, <2>3 DEF Copy, Live, TypeOK
  <2> QED
    BY <1>1, <1>2, <1>3, <1>8, <1>13, <2>1, <2>2, <2>4, <2>5, <2>6, CloserKept
       DEF Copy, fields, users, TypeOK
<1>14. CASE Send(c)
  <2>1. todo[c] = Leaving1(Down4)
    BY <1>2, <1>14, CloserHead DEF Send, At
  <2>2. todo' = [todo EXCEPT ![c] = Down4]
    BY <1>4, <1>5, <1>14, <2>1 DEF Send, Then
  <2>3. targets' \in [Actors -> SUBSET Sessions]
    BY <1>1, <1>14 DEF Send, TypeOK
  <2>4. from' \in [Actors -> Rooms \cup {0}]
        /\ \A b \in Actors : b # c => from'[b] = from[b]
    BY <1>1, <1>14 DEF Send, TypeOK
  <2>5. todo[c] # <<>> /\ todo[c] \in Before
    BY <1>2, <1>3, <2>1
  <2>6. /\ UNCHANGED <<connected, alive, nickname, users, asked, goal, requests,
                      late>>
        /\ UNCHANGED <<state, currentRoomId, members>>
    BY <1>14 DEF Send, fields
  <2>7. \A t \in Sessions : In(t)' = In(t)
    BY <2>6 DEF In
  <2> QED
    BY <1>1, <1>3, <1>8, <2>2, <2>3, <2>4, <2>5, <2>6, <2>7, CloserKept
       DEF TypeOK
<1> QED
  BY <1>10, <1>11, <1>12, <1>13, <1>14

-----------------------------------------------------------------------------
(* Packets, and the end of a session                                       *)

LEMMA StoryIdle ==
    ASSUME NEW s \in Sessions, Story(s), todo[Handler(s)] = <<>>
    PROVE  Calm(s)
<1>1. <<>> \notin {One("reserve"), Login3, Login2, One("admit"), One("remove"),
                   Move, Join7, Join6, Join5, Join4, Quit1}
  BY SingleProperties, LoginProperties, JoinProperties
<1>2. \A r \in {Join7, Quit1} :
         <<>> \notin {Leaving1(r), Leaving2(r), Leaving3(r), Leaving4(r),
                      Leaving5(r)}
  BY LeavingFacts
<1> QED
  BY <1>1, <1>2
     DEF Story, Outside, Naming, Inside, Going, Gone, Nowhere, Arriving, Arrived

LEMMA RequestKept ==
    ASSUME ChatInv, NEW s \in Sessions,
           NEW label \in {"login", "enter", "list", "quit", "chat"},
           Begin(s, <<label>>),
           asked' \in [Sessions -> Nicknames \cup Guests \cup {None}],
           \A t \in Sessions \ {s} : asked'[t] = asked[t],
           goal' \in [Sessions -> Rooms \cup {0}],
           \A t \in Sessions \ {s} : goal'[t] = goal[t]
    PROVE  ChatInv'
<1> DEFINE h == Handler(s)
           q == <<label>>
<1>1. ChatInv /\ TypeOK /\ h \in Actors
  BY ActorFacts DEF ChatInv
<1>2. /\ q \in Free /\ q \in CalmPlans /\ q # <<>>
      /\ Head(q) # "name" /\ q \in Seq(Labels)
  BY Labelled, OneProperties DEF Free, CalmPlans, Login1
<1> HIDE DEF q
<1>3. todo[h] = <<>> /\ todo' = [todo EXCEPT ![h] = q]
  BY DEF Begin, Request, Idle, q
<1>4. /\ todo'[h] = q
      /\ \A b \in Actors : b # h => todo'[b] = todo[b]
      /\ todo' \in [Actors -> Seq(Labels)]
  BY <1>1, <1>2, <1>3, Turns
<1>5. /\ UNCHANGED <<connected, alive, fields, users, members, from, targets>>
      /\ late \subseteq late' /\ late' \subseteq Sessions
      /\ connected[s] \/ s \in late'
  BY <1>1 DEF Begin, Request, TypeOK
<1>6. ASSUME NEW t \in Sessions \ {s}
      PROVE  Untouched(t)
  <2>1. /\ Handler(t) \in Actors /\ Closer(t) \in Actors
        /\ Handler(t) # h /\ Closer(t) # h
    BY ActorFacts
  <2> QED
    BY <1>4, <1>5, <2>1 DEF Untouched, fields, In
<1>7. Closer(s) \in Actors /\ Closer(s) # h
  BY ActorFacts
<1>8. Plan(s)'
  BY <1>2, <1>4, <1>5, <1>7, FreeIsFree
     DEF ChatInv, PlanInv, Plan, HandlerPlans
<1>9. Link(s)'
  BY <1>4, <1>5, <1>7 DEF ChatInv, LinkInv, Link, Idle
<1>10. Late(s)'
  BY <1>5 DEF Late
<1>11. ASSUME connected'[s]
       PROVE  Story(s)'
  <2>1. Story(s)
    BY <1>5, <1>11 DEF ChatInv, StoryInv
  <2>2. Calm(s)'
    BY <1>3, <1>5, <2>1, StoryIdle, CalmSame
  <2> QED
    BY <1>2, <1>4, <2>2 DEF Story, CalmPlans
<1>12. ASSUME NEW t \in Sessions
       PROVE  Plan(t)'
  BY <1>6, <1>8, <1>12 DEF ChatInv, PlanInv, Plan, Untouched
<1>13. (\A a \in Actors : At(a, "vacate") \/ At(a, "copy")
                             => from[a] \in Rooms)'
  BY <1>12, VacateKnows DEF PlanInv
<1>14. requests' \in 0..MaxRequests
  BY <1>1, RequestsAssumption DEF Begin, Request, TypeOK
<1>15. TypeOK'
  <2>1. /\ UNCHANGED <<connected, alive, state, nickname, currentRoomId,
                      nicknames, guestId, granted, members, from, targets>>
        /\ Guests' = Guests
    BY <1>5 DEF fields, users, Guests
  <2> QED
    BY <1>1, <1>4, <1>5, <1>13, <1>14, <2>1 DEF TypeOK
<1>16. /\ ~Naming3(s)' /\ ~Naming3(s)
       /\ LoggedOut(s)' <=> LoggedOut(s)
  BY <1>2, <1>3, <1>4, <1>5, <1>7 DEF Naming3, At, LoggedOut
<1>17. IsFiniteSet(nicknames)' /\ Reserved' /\ Apart' /\ Fresh' /\ Owned'
  BY <1>5, <1>6, <1>16, NamesKept DEF fields, users
<1> QED
  BY <1>5, <1>6, <1>8, <1>9, <1>10, <1>11, <1>15, <1>17, Kept

LEMMA OnRecvPacketKeeps ==
    ASSUME ChatInv, NEW s \in Sessions, OnRecvPacket(s)
    PROVE  ChatInv'
<1>1. TypeOK
  BY DEF ChatInv
<1>2. CASE RequestLogin(s)
  <2>1. /\ asked' \in [Sessions -> Nicknames \cup Guests \cup {None}]
        /\ \A t \in Sessions \ {s} : asked'[t] = asked[t]
    BY <1>1, <1>2 DEF RequestLogin, TypeOK
  <2>2. /\ goal' \in [Sessions -> Rooms \cup {0}]
        /\ \A t \in Sessions \ {s} : goal'[t] = goal[t]
    BY <1>1, <1>2 DEF RequestLogin, TypeOK
  <2>3. Begin(s, <<"login">>)
    BY <1>2 DEF RequestLogin
  <2> QED
    BY <2>1, <2>2, <2>3, RequestKept
<1>3. CASE RequestEnter(s)
  <2>1. /\ asked' \in [Sessions -> Nicknames \cup Guests \cup {None}]
        /\ \A t \in Sessions \ {s} : asked'[t] = asked[t]
    BY <1>1, <1>3 DEF RequestEnter, TypeOK
  <2>2. /\ goal' \in [Sessions -> Rooms \cup {0}]
        /\ \A t \in Sessions \ {s} : goal'[t] = goal[t]
    BY <1>1, <1>3 DEF RequestEnter, TypeOK
  <2>3. Begin(s, <<"enter">>)
    BY <1>3 DEF RequestEnter
  <2> QED
    BY <2>1, <2>2, <2>3, RequestKept
<1>4. CASE RequestOther(s)
  <2>1. /\ asked' \in [Sessions -> Nicknames \cup Guests \cup {None}]
        /\ \A t \in Sessions \ {s} : asked'[t] = asked[t]
    BY <1>1, <1>4 DEF RequestOther, TypeOK
  <2>2. /\ goal' \in [Sessions -> Rooms \cup {0}]
        /\ \A t \in Sessions \ {s} : goal'[t] = goal[t]
    BY <1>1, <1>4 DEF RequestOther, TypeOK
  <2>3. PICK label \in {"list", "quit", "chat"} : Begin(s, <<label>>)
    BY <1>4 DEF RequestOther
  <2> QED
    BY <2>1, <2>2, <2>3, RequestKept
<1> QED
  BY <1>2, <1>3, <1>4 DEF OnRecvPacket

LEMMA DisconnectKeeps ==
    ASSUME ChatInv, NEW s \in Sessions, Disconnect(s)
    PROVE  ChatInv'
<1> DEFINE c == Closer(s)
<1>1. ChatInv /\ TypeOK /\ c \in Actors
  BY ActorFacts DEF ChatInv
<1>2. todo' = [todo EXCEPT ![c] = Down5]
  BY Calls DEF Disconnect
<1>3. /\ todo'[c] = Down5
      /\ \A b \in Actors : b # c => todo'[b] = todo[b]
      /\ todo' \in [Actors -> Seq(Labels)]
  BY <1>1, <1>2, DownProperties, Turns
<1>4. /\ UNCHANGED <<alive, fields, users, members, locals, requests>>
      /\ late \subseteq late' /\ late' \subseteq Sessions
      /\ Idle(Handler(s)) \/ s \in late'
  BY <1>1 DEF Disconnect, TypeOK
<1>5. /\ connected[s]
      /\ ~connected'[s]
      /\ \A t \in Sessions \ {s} : connected'[t] = connected[t]
      /\ connected' \in [Sessions -> BOOLEAN]
  BY <1>1 DEF Disconnect, TypeOK
<1>6. ASSUME NEW t \in Sessions \ {s}
      PROVE  Untouched(t)
  <2>1. /\ Handler(t) \in Actors /\ Closer(t) \in Actors
        /\ Handler(t) # c /\ Closer(t) # c
    BY ActorFacts
  <2> QED
    BY <1>3, <1>4, <1>5, <2>1 DEF Untouched, fields, locals, In
<1>7. Handler(s) \in Actors /\ Handler(s) # c
  BY ActorFacts
<1>8. Down5 \in Before /\ Down5 \notin LeavingFrom(Down4) /\ Down5 \notin After
  BY LeavingFacts, DownProperties, BeforeAfter DEF Before, LeavingFrom
<1>9. Plan(s)'
  BY <1>3, <1>4, <1>7, <1>8 DEF ChatInv, PlanInv, Plan, locals
<1>10. Link(s)' /\ Late(s)'
  BY <1>3, <1>4, <1>5, <1>7 DEF Link, Late, Idle
<1>11. ASSUME NEW t \in Sessions
       PROVE  Plan(t)'
  BY <1>6, <1>9, <1>11 DEF ChatInv, PlanInv, Plan, Untouched
<1>12. (\A a \in Actors : At(a, "vacate") \/ At(a, "copy")
                             => from[a] \in Rooms)'
  BY <1>11, VacateKnows DEF PlanInv
<1>13. TypeOK'
  <2>1. /\ UNCHANGED <<alive, state, nickname, currentRoomId, nicknames, guestId,
                      granted, members, asked, goal, from, targets, requests>>
        /\ Guests' = Guests
    BY <1>4 DEF fields, users, locals, Guests
  <2>2. late' \subseteq Sessions
    BY <1>1 DEF Disconnect, TypeOK
  <2>3. (connected \in [Sessions -> BOOLEAN])'
    BY <1>5
  <2>6. (todo \in [Actors -> Seq(Labels)])'
    BY <1>3
  <2>4. /\ (alive \in [Sessions -> BOOLEAN])'
        /\ (state \in [Sessions -> {"Connected", "Authenticated", "InRoom"}])'
        /\ (nickname \in [Sessions -> Nicknames \cup Guests \cup {None}])'
        /\ (currentRoomId \in [Sessions -> Rooms \cup {0}])'
        /\ (nicknames \subseteq Nicknames \cup Guests)'
        /\ (guestId \in Nat \ {0})'
        /\ (granted \subseteq Sessions \X (Nicknames \cup Guests))'
        /\ (members \in [Rooms -> SUBSET Sessions])'
    BY <1>1, <2>1 DEF TypeOK
  <2>5. /\ (asked \in [Sessions -> Nicknames \cup Guests \cup {None}])'
        /\ (goal \in [Sessions -> Rooms \cup {0}])'
        /\ (from \in [Actors -> Rooms \cup {0}])'
        /\ (targets \in [Actors -> SUBSET Sessions])'
        /\ (requests \in 0..MaxRequests)'
    BY <1>1, <2>1 DEF TypeOK
  <2> QED
    BY <1>12, <2>2, <2>3, <2>4, <2>5, <2>6 DEF TypeOK
<1>14. /\ Naming3(s)' <=> Naming3(s)
       /\ ~LoggedOut(s)' /\ ~LoggedOut(s)
  BY <1>3, <1>5, <1>7, <1>8 DEF Naming3, At, LoggedOut
<1>15. IsFiniteSet(nicknames)' /\ Reserved' /\ Apart' /\ Fresh' /\ Owned'
  BY <1>4, <1>6, <1>14, NamesKept DEF fields, users, locals
<1> QED
  BY <1>4, <1>5, <1>6, <1>9, <1>10, <1>13, <1>15, Kept

LEMMA PoolKeeps ==
    ASSUME ChatInv, NEW s \in Sessions, Pool(s)
    PROVE  ChatInv'
<1>1. ChatInv /\ TypeOK
  BY DEF ChatInv
<1>2. ASSUME NEW t \in Sessions \ {s}
      PROVE  Untouched(t)
  BY <1>1 DEF Pool, Untouched, In, locals, TypeOK
<1>3. ~connected[s] /\ connected' = connected
  BY DEF Pool
<1>4. Plan(s)' /\ Link(s)' /\ Late(s)'
  BY <1>3 DEF Pool, ChatInv, PlanInv, Plan, Link, NamesInv, LateInv, Late, Idle,
              locals
<1>5. (\A a \in Actors : At(a, "vacate") \/ At(a, "copy") => from[a] \in Rooms)'
  BY <1>1 DEF Pool, TypeOK, At, locals
<1>6. TypeOK'
  <2>1. /\ UNCHANGED <<connected, nicknames, guestId, granted, members, todo, asked,
                      goal, from, targets, requests, late>>
        /\ Guests' = Guests
    BY DEF Pool, users, locals, Guests
  <2>2. /\ alive' \in [Sessions -> BOOLEAN]
        /\ state' \in [Sessions -> {"Connected", "Authenticated", "InRoom"}]
        /\ nickname' \in [Sessions -> Nicknames \cup Guests \cup {None}]
        /\ currentRoomId' \in [Sessions -> Rooms \cup {0}]
    BY <1>1 DEF Pool, TypeOK
  <2> QED
    BY <1>1, <1>5, <2>1, <2>2 DEF TypeOK
<1>7. /\ Naming3(s)' <=> Naming3(s)
      /\ LoggedOut(s)' <=> LoggedOut(s)
      /\ LoggedOut(s)
  BY DEF Pool, Naming3, At, LoggedOut, Idle, After
<1>8. IsFiniteSet(nicknames)' /\ Reserved' /\ Apart' /\ Fresh' /\ Owned'
  BY <1>2, <1>7, NamesKept DEF Pool, users, locals
<1> QED
  BY <1>2, <1>3, <1>4, <1>6, <1>8, Kept DEF Pool

-----------------------------------------------------------------------------
(* Names                                                                   *)

\* A set of numbers has a least one.
LEMMA Least ==
    ASSUME NEW T \in SUBSET Nat, T # {}
    PROVE  \E x \in T : \A y \in T : x <= y
<1>1. PICK x \in T : \A y \in T : ~(<<y, x>> \in OpToRel(<, Nat))
  BY NatLessThanWellFounded, WFMin
<1>2. \A y \in T : ~(y < x)
  BY <1>1 DEF OpToRel
<1> QED
  BY <1>2

\* UserManager has a number left for a guest.
LEMMA FreeGuestIsFree ==
    ASSUME TypeOK, IsFiniteSet(nicknames)
    PROVE  /\ FreeGuest \in Nat \ {0} /\ FreeGuest >= guestId
           /\ Guest(FreeGuest) \notin nicknames
<1> DEFINE I == guestId .. guestId + Cardinality(nicknames)
           T == {k \in I : Guest(k) \notin nicknames}
           f == [k \in I |-> Guest(k)]
<1>1. guestId \in Nat \ {0} /\ Cardinality(nicknames) \in Nat
  BY FS_CardinalityType DEF TypeOK
<1>2. IsFiniteSet(I) /\ Cardinality(nicknames) < Cardinality(I)
  BY <1>1, FS_Interval
<1>3. T # {}
  <2>1. SUFFICES ASSUME T = {}
                 PROVE  FALSE
    OBVIOUS
  <2>2. f \in [I -> nicknames]
    BY <2>1
  <2>3. IsFiniteSet(nicknames)
    OBVIOUS
  <2>4. \E x, y \in I : x # y /\ f[x] = f[y]
    <3> HIDE DEF I, f
    <3> QED
      BY <1>2, <2>2, <2>3, FS_PigeonHole
  <2> QED
    BY <2>4 DEF Guest
<1>4. T \in SUBSET Nat
  BY <1>1
<1>5. PICK k \in T : \A j \in T : k <= j
  BY <1>3, <1>4, Least
<1>6. /\ k \in I /\ Guest(k) \notin nicknames
      /\ \A j \in guestId .. k - 1 : Guest(j) \in nicknames
  <2>1. ASSUME NEW j \in guestId .. k - 1
        PROVE  Guest(j) \in nicknames
    <3>1. j \in I /\ ~(k <= j)
      BY <1>1
    <3> QED
      BY <1>5, <3>1
  <2> QED
    BY <2>1
<1>7. FreeGuest \in I /\ Guest(FreeGuest) \notin nicknames
  BY <1>6 DEF FreeGuest
<1> QED
  BY <1>1, <1>7

LEMMA RenameKeeps ==
    ASSUME ChatInv, NEW s \in Sessions, Rename(s)
    PROVE  ChatInv'
<1> DEFINE c == Closer(s)
<1>1. ChatInv /\ TypeOK /\ c \in Actors
  BY ActorFacts DEF ChatInv
<1>2. todo[c] = Down2 /\ todo[c] # <<>> /\ Tail(todo[c]) = Down1
  <2>1. todo[c] = Down2
    BY CloserHead DEF Rename, At, ChatInv, PlanInv, Plan
  <2> QED
    BY <2>1, DownProperties
<1>3. todo' = [todo EXCEPT ![c] = Down1]
  <2>1. <<>> \o Down1 = Down1
    BY DownProperties, ConcatEmptySeq
  <2> QED
    BY <1>2, <2>1 DEF Rename, Then
<1>4. /\ todo'[c] = Down1
      /\ \A b \in Actors : b # c => todo'[b] = todo[b]
      /\ todo' \in [Actors -> Seq(Labels)]
  BY <1>1, <1>3, DownProperties, Turns
<1>5. ASSUME NEW t \in Sessions \ {s}
      PROVE  Untouched(t)
  <2>1. /\ Handler(t) \in Actors /\ Closer(t) \in Actors
        /\ Handler(t) # c /\ Closer(t) # c
    BY ActorFacts
  <2>2. nickname'[t] = nickname[t]
    BY <1>1 DEF Rename, TypeOK
  <2> QED
    BY <1>4, <2>1, <2>2 DEF Rename, Untouched, locals, In
<1>6. Handler(s) \in Actors /\ Handler(s) # c
  BY ActorFacts
<1>7. ~connected[s] /\ ~connected'[s]
  BY <1>2 DEF ChatInv, LinkInv, Link, Idle, Rename
<1>8. Down1 \in After /\ Down2 \in After /\ Down1 \notin LeavingFrom(Down4)
  BY LeavingFacts, DownProperties DEF After, LeavingFrom
<1>9. Plan(s)' /\ Link(s)' /\ Late(s)'
  BY <1>4, <1>6, <1>7, <1>8
     DEF ChatInv, PlanInv, Plan, Link, NamesInv, LateInv, Late, Idle, Rename,
         locals
<1>10. ASSUME NEW t \in Sessions
       PROVE  Plan(t)'
  BY <1>5, <1>9, <1>10 DEF ChatInv, PlanInv, Plan, Untouched
<1>11. (\A a \in Actors : At(a, "vacate") \/ At(a, "copy")
                             => from[a] \in Rooms)'
  BY <1>10, VacateKnows DEF PlanInv
<1>12. TypeOK'
  <2>1. nickname' \in [Sessions -> Nicknames \cup Guests \cup {None}]
    BY <1>1 DEF Rename, TypeOK
  <2>2. Guests' = Guests
    BY DEF Rename, users, Guests
  <2> QED
    BY <1>1, <1>4, <1>11, <2>1, <2>2 DEF TypeOK, Rename, users, locals
<1>13. /\ Naming3(s)' <=> Naming3(s)
       /\ LoggedOut(s)' /\ LoggedOut(s)
  BY <1>2, <1>4, <1>6, <1>7, <1>8 DEF Naming3, At, LoggedOut
<1>14. IsFiniteSet(nicknames)' /\ Reserved' /\ Apart' /\ Fresh' /\ Owned'
  BY <1>5, <1>13, NamesKept DEF Rename, users, locals
<1> QED
  BY <1>5, <1>7, <1>9, <1>12, <1>14, Kept DEF Rename

LEMMA LogoutKeeps ==
    ASSUME ChatInv, NEW s \in Sessions, Logout(s)
    PROVE  ChatInv'
<1> DEFINE c == Closer(s)
           gone == nickname[s]
<1>1. ChatInv /\ TypeOK /\ c \in Actors
  BY ActorFacts DEF ChatInv
<1>2. todo[c] = Down4 /\ todo[c] # <<>> /\ Tail(todo[c]) = Down3
  <2>1. todo[c] = Down4
    BY CloserHead DEF Logout, At, ChatInv, PlanInv, Plan
  <2> QED
    BY <2>1, DownProperties
<1>3. todo' = [todo EXCEPT ![c] = Down3]
  <2>1. <<>> \o Down3 = Down3
    BY DownProperties, ConcatEmptySeq
  <2> QED
    BY <1>2, <2>1 DEF Logout, Then
<1>4. /\ todo'[c] = Down3
      /\ \A b \in Actors : b # c => todo'[b] = todo[b]
      /\ todo' \in [Actors -> Seq(Labels)]
  BY <1>1, <1>3, DownProperties, Turns
<1>5. /\ UNCHANGED <<connected, alive, state, nickname, currentRoomId, guestId,
                     granted, members, asked, goal, from, targets, requests,
                     late>>
      /\ nicknames' = nicknames \ {gone}
  BY DEF Logout, fields, locals
<1>6. ASSUME NEW t \in Sessions \ {s}
      PROVE  Untouched(t)
  <2>1. /\ Handler(t) \in Actors /\ Closer(t) \in Actors
        /\ Handler(t) # c /\ Closer(t) # c
    BY ActorFacts
  <2> QED
    BY <1>4, <1>5, <2>1 DEF Untouched, In
<1>7. Handler(s) \in Actors /\ Handler(s) # c
  BY ActorFacts
<1>8. ~connected[s] /\ ~connected'[s]
  BY <1>2, <1>5 DEF ChatInv, LinkInv, Link, Idle
<1>9. /\ Down3 \in After /\ Down4 \in Before /\ Down4 \notin After
      /\ Down3 \notin LeavingFrom(Down4)
  BY LeavingFacts, DownProperties, BeforeAfter DEF After, Before, LeavingFrom
<1>10. Plan(s)' /\ Link(s)' /\ Late(s)'
  BY <1>4, <1>5, <1>7, <1>8, <1>9
     DEF ChatInv, PlanInv, Plan, Link, NamesInv, LateInv, Late, Idle
<1>11. ASSUME NEW t \in Sessions
       PROVE  Plan(t)'
  BY <1>6, <1>10, <1>11 DEF ChatInv, PlanInv, Plan, Untouched
<1>12. (\A a \in Actors : At(a, "vacate") \/ At(a, "copy")
                             => from[a] \in Rooms)'
  BY <1>11, VacateKnows DEF PlanInv
<1>13. TypeOK'
  <2>1. Guests' = Guests
    BY <1>5 DEF Guests
  <2> QED
    BY <1>1, <1>4, <1>5, <1>12, <2>1 DEF TypeOK
<1>14. ~LoggedOut(s) /\ LoggedOut(s)'
  BY <1>2, <1>4, <1>8, <1>9 DEF LoggedOut
<1>15. ASSUME NEW t \in Sessions
       PROVE  /\ Naming3(t)' <=> Naming3(t)
              /\ t # s => (LoggedOut(t)' <=> LoggedOut(t))
  BY <1>4, <1>6, <1>7 DEF Naming3, At, LoggedOut, Untouched
<1>16. IsFiniteSet(nicknames)'
  BY <1>5, FS_RemoveElement DEF ChatInv, NamesInv
<1>17. ASSUME NEW t \in Sessions, NEW n, n # None,
              \/ nickname[t] = n /\ t # s /\ ~LoggedOut(t)
              \/ asked[t] = n /\ Naming3(t)
       PROVE  n # gone
  <2>1. SUFFICES ASSUME n = gone
                 PROVE  FALSE
    OBVIOUS
  <2>2. Held(s, n) /\ n \in nicknames
    BY <1>14, <1>17, <2>1 DEF Held, ChatInv, NamesInv, Reserved
  <2>3. Held(t, n)
    BY <1>17 DEF Held
  <2>4. t = s
    BY <2>2, <2>3 DEF ChatInv, NamesInv, Apart
  <2> QED
    BY <1>14, <1>17, <2>1, <2>4 DEF ChatInv, NamesInv, Fresh
<1>18. Reserved'
  <2>1. ASSUME NEW t \in Sessions, nickname'[t] # None, ~LoggedOut(t)'
        PROVE  nickname'[t] \in nicknames'
    <3>1. t # s /\ ~LoggedOut(t)
      BY <1>14, <1>15, <2>1
    <3>2. nickname[t] \in nicknames
      BY <1>5, <2>1, <3>1 DEF ChatInv, NamesInv, Reserved
    <3> QED
      BY <1>5, <1>17, <2>1, <3>1, <3>2
  <2>2. ASSUME NEW t \in Sessions, Naming3(t)'
        PROVE  asked'[t] \in nicknames'
    <3>1. asked[t] \in nicknames /\ asked[t] # None /\ Naming3(t)
      BY <1>15, <2>2 DEF ChatInv, NamesInv, Reserved, Fresh
    <3> QED
      BY <1>5, <1>17, <3>1
  <2> QED
    BY <2>1, <2>2 DEF Reserved
<1>19. ASSUME NEW t \in Sessions, NEW n, Held(t, n)'
       PROVE  Held(t, n)
  BY <1>5, <1>14, <1>15, <1>19 DEF Held
<1>20. Apart'
  BY <1>5, <1>19 DEF ChatInv, NamesInv, Apart
<1>21. Fresh'
  BY <1>5, <1>14, <1>15 DEF ChatInv, NamesInv, Fresh
<1>22. Owned'
  <2>1. ASSUME NEW n \in nicknames'
        PROVE  \E t \in Sessions : Held(t, n)' \/ LostLate(t, n)'
    <3>1. PICK t \in Sessions : Held(t, n) \/ LostLate(t, n)
      BY <1>5, <2>1 DEF ChatInv, NamesInv, Owned
    <3>2. CASE Held(t, n)
      <4>1. Held(t, n)'
        BY <1>5, <1>15, <2>1, <3>2 DEF Held
      <4> QED
        BY <4>1
    <3>3. CASE LostLate(t, n)
      BY <1>5, <3>3 DEF LostLate
    <3> QED
      BY <3>1, <3>2, <3>3
  <2>2. ASSUME NEW t \in Sessions, NEW n, Held(t, n)'
        PROVE  <<t, n>> \in granted'
    BY <1>5, <1>19, <2>2 DEF ChatInv, NamesInv, Owned
  <2> QED
    BY <2>1, <2>2 DEF Owned
<1> QED
  BY <1>5, <1>6, <1>8, <1>10, <1>13, <1>16, <1>18, <1>20, <1>21, <1>22, Kept

LEMMA NameKeeps ==
    ASSUME ChatInv, NEW s \in Sessions, Name(s)
    PROVE  ChatInv'
<1> DEFINE h == Handler(s)
           old == nickname[s]
<1>1. ChatInv /\ TypeOK /\ h \in Actors
  BY ActorFacts DEF ChatInv
<1>2. /\ todo[h] = Login3 /\ todo[h] # <<>> /\ Tail(todo[h]) = Login2
      /\ Head(todo[h]) = "name"
  <2>1. todo[h] = Login3
    BY HandlerHead DEF Name, At, ChatInv, PlanInv, Plan
  <2> QED
    BY <2>1, LoginProperties
<1>3. todo' = [todo EXCEPT ![h] = Login2]
  <2>1. <<>> \o Login2 = Login2
    BY LoginProperties, ConcatEmptySeq
  <2> QED
    BY <1>2, <2>1 DEF Name, Then
<1>4. /\ todo'[h] = Login2
      /\ \A b \in Actors : b # h => todo'[b] = todo[b]
      /\ todo' \in [Actors -> Seq(Labels)]
  BY <1>1, <1>3, LoginProperties, Turns
<1>5. /\ UNCHANGED <<connected, alive, state, currentRoomId, nicknames, guestId,
                     granted, members, asked, goal, from, targets, requests, late>>
      /\ nickname'[s] = asked[s]
      /\ \A t \in Sessions \ {s} : nickname'[t] = nickname[t]
      /\ nickname' \in [Sessions -> Nicknames \cup Guests \cup {None}]
  BY <1>1 DEF Name, users, locals, TypeOK
<1>6. ASSUME NEW t \in Sessions \ {s}
      PROVE  Untouched(t)
  <2>1. /\ Handler(t) \in Actors /\ Closer(t) \in Actors
        /\ Handler(t) # h /\ Closer(t) # h
    BY ActorFacts
  <2> QED
    BY <1>4, <1>5, <2>1 DEF Untouched, In
<1>7. Closer(s) \in Actors /\ Closer(s) # h
  BY ActorFacts
<1>8. Login2 \in Free /\ Login2 \in HandlerPlans
  BY DEF Free, HandlerPlans
<1>9. Plan(s)' /\ Link(s)' /\ Late(s)'
  BY <1>2, <1>4, <1>5, <1>7, <1>8, FreeIsFree
     DEF ChatInv, PlanInv, Plan, LinkInv, Link, NamesInv, LateInv, Late, Idle
<1>10. ASSUME NEW t \in Sessions
       PROVE  Plan(t)'
  BY <1>6, <1>9, <1>10 DEF ChatInv, PlanInv, Plan, Untouched
<1>11. (\A a \in Actors : At(a, "vacate") \/ At(a, "copy")
                             => from[a] \in Rooms)'
  BY <1>10, VacateKnows DEF PlanInv
<1>12. TypeOK'
  <2>1. Guests' = Guests
    BY <1>5 DEF Guests
  <2> QED
    BY <1>1, <1>4, <1>5, <1>11, <2>1 DEF TypeOK
<1>13. ASSUME NEW t \in Sessions
       PROVE  /\ LoggedOut(t)' <=> LoggedOut(t)
              /\ t # s => (Naming3(t)' <=> Naming3(t))
  BY <1>4, <1>5, <1>6, <1>7 DEF Naming3, At, LoggedOut, Untouched
<1>14. Naming3(s) /\ ~Naming3(s)'
  BY <1>2, <1>4, LoginProperties DEF Naming3, At
<1>15. asked[s] # None /\ asked[s] \in nicknames
  BY <1>14 DEF ChatInv, NamesInv, Fresh, Reserved
<1>16. connected[s] => Outside(s)
  BY <1>2, StoryAt DEF ChatInv, StoryInv
<1>17. ASSUME connected'[s]
       PROVE  Story(s)'
  <2>1. Outside(s)
    BY <1>5, <1>16, <1>17
  <2>2. Placed(s)' /\ currentRoomId'[s] = 0
    BY <1>5, <2>1 DEF Outside, Calm, Placed, In
  <2>3. Naming(s)'
    BY <1>4, <1>5, <1>15, <2>1, <2>2 DEF Naming, Outside
  <2> QED
    BY <2>3 DEF Story
<1>18. ASSUME NEW t \in Sessions, NEW n, Held(t, n)'
       PROVE  Held(t, n)
  <2>1. CASE t = s
    BY <1>5, <1>13, <1>14, <1>18, <2>1 DEF Held
  <2>2. CASE t # s
    BY <1>5, <1>13, <1>18, <2>2 DEF Held
  <2> QED
    BY <2>1, <2>2
<1>19. Reserved'
  <2>1. ASSUME NEW t \in Sessions, nickname'[t] # None, ~LoggedOut(t)'
        PROVE  nickname'[t] \in nicknames'
    BY <1>5, <1>13, <1>15, <2>1 DEF ChatInv, NamesInv, Reserved
  <2>2. ASSUME NEW t \in Sessions, Naming3(t)'
        PROVE  asked'[t] \in nicknames'
    BY <1>5, <1>13, <1>14, <2>2 DEF ChatInv, NamesInv, Reserved
  <2> QED
    BY <2>1, <2>2 DEF Reserved
<1>20. Apart'
  BY <1>5, <1>18 DEF ChatInv, NamesInv, Apart
<1>21. Fresh'
  BY <1>5, <1>13, <1>14 DEF ChatInv, NamesInv, Fresh
<1>22. Owned'
  <2>1. ASSUME NEW n \in nicknames'
        PROVE  \E t \in Sessions : Held(t, n)' \/ LostLate(t, n)'
    <3>1. PICK t \in Sessions : Held(t, n) \/ LostLate(t, n)
      BY <1>5, <2>1 DEF ChatInv, NamesInv, Owned
    <3>2. CASE LostLate(t, n)
      BY <1>5, <3>2 DEF LostLate
    <3>3. CASE Held(t, n) /\ t # s
      <4>1. Held(t, n)'
        BY <1>5, <1>13, <3>3 DEF Held
      <4> QED
        BY <4>1
    <3>4. CASE Held(t, n) /\ t = s /\ connected[s]
      <4>2. nickname[s] = None
        BY <1>16, <3>4 DEF Outside, Calm
      <4>3. asked[s] = n
        BY <3>4, <4>2 DEF Held
      <4>4. ~LoggedOut(s)'
        BY <1>5, <3>4 DEF LoggedOut
      <4>5. Held(s, n)'
        BY <1>5, <1>15, <4>3, <4>4 DEF Held
      <4> QED
        BY <4>5
    <3>5. CASE Held(t, n) /\ t = s /\ ~connected[s]
      <4>1. s \in late
        BY <1>2, <3>5 DEF ChatInv, NamesInv, LateInv, Late, Idle
      <4>2. <<s, n>> \in granted
        BY <3>5 DEF ChatInv, NamesInv, Owned
      <4> QED
        BY <1>5, <4>1, <4>2 DEF LostLate
    <3> QED
      BY <3>1, <3>2, <3>3, <3>4, <3>5
  <2>2. ASSUME NEW t \in Sessions, NEW n, Held(t, n)'
        PROVE  <<t, n>> \in granted'
    BY <1>5, <1>18, <2>2 DEF ChatInv, NamesInv, Owned
  <2> QED
    BY <2>1, <2>2 DEF Owned
<1>23. IsFiniteSet(nicknames)'
  BY <1>5 DEF ChatInv, NamesInv
<1> QED
  BY <1>5, <1>6, <1>9, <1>12, <1>17, <1>19, <1>20, <1>21, <1>22, <1>23, Kept

LEMMA ReserveKeeps ==
    ASSUME ChatInv, NEW s \in Sessions, Reserve(s)
    PROVE  ChatInv'
<1> DEFINE h == Handler(s)
           n == IF asked[s] = None THEN Guest(FreeGuest) ELSE asked[s]
<1>1. ChatInv /\ TypeOK /\ h \in Actors /\ IsFiniteSet(nicknames)
  BY ActorFacts DEF ChatInv, NamesInv
<1>2. /\ todo[h] = One("reserve") /\ todo[h] # <<>> /\ Tail(todo[h]) = <<>>
      /\ Head(todo[h]) = "reserve"
  <2>1. todo[h] = One("reserve")
    BY HandlerHead DEF Reserve, At, ChatInv, PlanInv, Plan
  <2> QED
    BY <2>1, SingleProperties
<1>3. /\ n \in nicknames => todo' = [todo EXCEPT ![h] = <<>>]
      /\ n \notin nicknames => todo' = [todo EXCEPT ![h] = Login3]
  <2>1. /\ <<>> \o <<>> = <<>>
        /\ <<"name", "authenticate", "list">> \o <<>> = Login3
    BY Nil, Calls, LoginProperties, ConcatEmptySeq
  <2> QED
    BY <1>2, <2>1 DEF Reserve, Then
<1>4. PICK q \in {<<>>, Login3} :
         /\ todo' = [todo EXCEPT ![h] = q]
         /\ n \in nicknames => q = <<>>
         /\ n \notin nicknames => q = Login3
  BY <1>3
<1>5. q \in Free /\ q \in HandlerPlans /\ q \in Seq(Labels)
  BY PlansAreLists DEF Free, HandlerPlans
<1>6. /\ todo'[h] = q
      /\ \A b \in Actors : b # h => todo'[b] = todo[b]
      /\ todo' \in [Actors -> Seq(Labels)]
  BY <1>1, <1>4, <1>5, Turns
<1>7. /\ UNCHANGED <<connected, alive, state, nickname, currentRoomId, members,
                     goal, from, targets, requests, late>>
      /\ nicknames' = nicknames \cup {n}
      /\ n \in nicknames => granted' = granted
      /\ n \notin nicknames => granted' = granted \cup {<<s, n>>}
      /\ asked'[s] = n
      /\ \A t \in Sessions \ {s} : asked'[t] = asked[t]
  BY <1>1 DEF Reserve, fields, TypeOK
<1>8. /\ guestId' \in Nat \ {0} /\ n \in Nicknames \cup Guests' /\ n # None
      /\ Guests \subseteq Guests'
      /\ asked[s] = None => n \notin nicknames
  <2>1. CASE asked[s] = None
    <3>1. FreeGuest \in Nat \ {0} /\ n = Guest(FreeGuest) /\ n \notin nicknames
      BY <1>1, <2>1, FreeGuestIsFree
    <3>2. guestId' = FreeGuest + 1
      BY <2>1 DEF Reserve
    <3>3. FreeGuest >= guestId
      BY <1>1, FreeGuestIsFree
    <3>4. guestId \in Nat
      BY <1>1 DEF TypeOK
    <3>5. \A k \in 1 .. guestId - 1 : k \in 1 .. guestId' - 1
      BY <3>1, <3>2, <3>3, <3>4
    <3>6. Guests \subseteq Guests'
      BY <3>5 DEF Guests
    <3>7. FreeGuest \in 1 .. guestId' - 1
      BY <3>1, <3>2
    <3>8. n \in Guests'
      BY <3>1, <3>7 DEF Guests
    <3>9. n # None
      BY <3>1, GuestAssumption DEF Guest
    <3> QED
      BY <3>1, <3>2, <3>6, <3>8, <3>9
  <2>2. CASE asked[s] # None
    <3>1. guestId' = guestId /\ n = asked[s]
      BY <2>2 DEF Reserve
    <3>2. Guests' = Guests
      BY <3>1 DEF Guests
    <3> QED
      BY <1>1, <2>2, <3>1, <3>2 DEF TypeOK
  <2> QED
    BY <2>1, <2>2
<1> HIDE DEF n
<1>9. ASSUME NEW t \in Sessions \ {s}
      PROVE  Untouched(t)
  <2>1. /\ Handler(t) \in Actors /\ Closer(t) \in Actors
        /\ Handler(t) # h /\ Closer(t) # h
    BY ActorFacts
  <2> QED
    BY <1>6, <1>7, <2>1 DEF Untouched, In
<1>10. Closer(s) \in Actors /\ Closer(s) # h
  BY ActorFacts
<1>11. Plan(s)' /\ Link(s)' /\ Late(s)'
  BY <1>2, <1>5, <1>6, <1>7, <1>10, FreeIsFree
     DEF ChatInv, PlanInv, Plan, LinkInv, Link, NamesInv, LateInv, Late, Idle
<1>12. ASSUME NEW t \in Sessions
       PROVE  Plan(t)'
  BY <1>9, <1>11, <1>12 DEF ChatInv, PlanInv, Plan, Untouched
<1>13. (\A a \in Actors : At(a, "vacate") \/ At(a, "copy")
                             => from[a] \in Rooms)'
  BY <1>12, VacateKnows DEF PlanInv
<1>14. TypeOK'
  <2>1. asked' \in [Sessions -> Nicknames \cup Guests' \cup {None}]
    BY <1>1, <1>8 DEF Reserve, n, TypeOK
  <2>2. nickname' \in [Sessions -> Nicknames \cup Guests' \cup {None}]
    BY <1>1, <1>7, <1>8 DEF TypeOK
  <2>3. nicknames' \subseteq Nicknames \cup Guests'
    BY <1>1, <1>7, <1>8 DEF TypeOK
  <2>4. granted' \subseteq Sessions \X (Nicknames \cup Guests')
    BY <1>1, <1>7, <1>8 DEF TypeOK
  <2> QED
    BY <1>1, <1>6, <1>7, <1>8, <1>13, <2>1, <2>2, <2>3, <2>4 DEF TypeOK
<1>15. ASSUME connected'[s]
       PROVE  Story(s)'
  <2>1. Story(s)
    BY <1>7, <1>15 DEF ChatInv, StoryInv
  <2>2. Outside(s)
    BY <1>2, <2>1, StoryAt
  <2>3. Calm(s)' /\ state'[s] = "Connected"
    BY <1>7, <2>2 DEF Outside, Calm, Placed, In
  <2>4. CASE q = <<>>
    BY <1>6, <2>3, <2>4 DEF Story, CalmPlans
  <2>5. CASE q = Login3
    BY <1>6, <2>3, <2>5 DEF Story, Outside
  <2> QED
    BY <2>4, <2>5
<1>16. ASSUME NEW t \in Sessions
       PROVE  /\ LoggedOut(t)' <=> LoggedOut(t)
              /\ t # s => (Naming3(t)' <=> Naming3(t))
  BY <1>6, <1>7, <1>9, <1>10 DEF Naming3, At, LoggedOut, Untouched
<1>17. ~Naming3(s) /\ (Naming3(s)' => n \notin nicknames)
  BY <1>2, <1>4, <1>6 DEF Naming3, At
<1>18. IsFiniteSet(nicknames)' /\ Reserved' /\ Apart' /\ Fresh' /\ Owned'
  <2>1. CASE n \in nicknames
    <3>1. nicknames' = nicknames /\ granted' = granted /\ ~Naming3(s)'
      BY <1>7, <1>17, <2>1
    <3> QED
      BY <1>7, <1>9, <1>16, <1>17, <3>1, NamesKept
  <2>2. CASE n \notin nicknames
    <3>1. IsFiniteSet(nicknames)'
      BY <1>1, <1>7, FS_AddElement
    <3>2. Naming3(s)'
      BY <1>4, <1>6, <2>2, LoginProperties DEF Naming3, At
    <3>3. ASSUME NEW t \in Sessions
          PROVE  ~Held(t, n)
      BY <2>2 DEF Held, ChatInv, NamesInv, Reserved
    <3>4. ASSUME NEW t \in Sessions, NEW m
          PROVE  Held(t, m)' <=> Held(t, m) \/ (t = s /\ m = n)
      <4>1. CASE t = s
        BY <1>7, <1>8, <1>16, <1>17, <3>2, <4>1 DEF Held
      <4>2. CASE t # s
        BY <1>7, <1>16, <4>2 DEF Held
      <4> QED
        BY <4>1, <4>2
    <3>5. Reserved'
      <4>1. ASSUME NEW t \in Sessions, nickname'[t] # None, ~LoggedOut(t)'
            PROVE  nickname'[t] \in nicknames'
        BY <1>7, <1>16, <4>1 DEF ChatInv, NamesInv, Reserved
      <4>2. ASSUME NEW t \in Sessions, Naming3(t)'
            PROVE  asked'[t] \in nicknames'
        BY <1>7, <1>16, <4>2 DEF ChatInv, NamesInv, Reserved
      <4> QED
        BY <4>1, <4>2 DEF Reserved
    <3>6. ASSUME NEW t \in Sessions, NEW u \in Sessions, NEW m \in nicknames',
                 Held(t, m)', Held(u, m)'
          PROVE  t = u
      <4>1. CASE m = n
        BY <3>3, <3>4, <3>6, <4>1
      <4>2. CASE m # n
        <5>1. Held(t, m) /\ Held(u, m) /\ m \in nicknames
          BY <1>7, <3>4, <3>6, <4>2
        <5> QED
          BY <5>1 DEF ChatInv, NamesInv, Apart
      <4> QED
        BY <4>1, <4>2
    <3>7. Apart'
      BY <3>6 DEF Apart
    <3>8. Fresh'
      <4>1. LoggedOut(s) \/ nickname[s] # n
        BY <1>8, <3>3 DEF Held
      <4>2. ASSUME NEW t \in Sessions, Naming3(t)'
            PROVE  /\ asked'[t] # None
                   /\ LoggedOut(t)' \/ nickname'[t] # asked'[t]
        BY <1>7, <1>8, <1>16, <4>1, <4>2 DEF ChatInv, NamesInv, Fresh
      <4> QED
        BY <4>2 DEF Fresh
    <3>9. Owned'
      <4>1. ASSUME NEW m \in nicknames'
            PROVE  \E t \in Sessions : Held(t, m)' \/ LostLate(t, m)'
        <5>1. CASE m = n
          BY <3>4, <5>1
        <5>2. CASE m # n
          <6>1. m \in nicknames
            BY <1>7, <4>1, <5>2
          <6>2. PICK t \in Sessions : Held(t, m) \/ LostLate(t, m)
            BY <6>1 DEF ChatInv, NamesInv, Owned
          <6>3. LostLate(t, m) => LostLate(t, m)'
            BY <1>7, <2>2 DEF LostLate
          <6> QED
            BY <3>4, <6>2, <6>3
        <5> QED
          BY <5>1, <5>2
      <4>2. ASSUME NEW t \in Sessions, NEW m, Held(t, m)'
            PROVE  <<t, m>> \in granted'
        <5>1. CASE Held(t, m)
          BY <1>7, <2>2, <5>1 DEF ChatInv, NamesInv, Owned
        <5>2. CASE t = s /\ m = n
          BY <1>7, <2>2, <5>2
        <5> QED
          BY <3>4, <4>2, <5>1, <5>2
      <4> QED
        BY <4>1, <4>2 DEF Owned
    <3> QED
      BY <3>1, <3>5, <3>7, <3>8, <3>9
  <2> QED
    BY <2>1, <2>2
<1> QED
  BY <1>7, <1>9, <1>11, <1>14, <1>15, <1>18, Kept

-----------------------------------------------------------------------------
(* The invariant                                                           *)

LEMMA ChatInit == Init => ChatInv
<1> SUFFICES ASSUME Init
             PROVE  ChatInv
  OBVIOUS
<1>1. ASSUME NEW s \in Sessions
      PROVE  Handler(s) \in Actors /\ Closer(s) \in Actors
  BY ActorFacts
<1>2. \A a \in Actors : todo[a] = <<>> /\ ~At(a, "vacate") /\ ~At(a, "copy")
  BY DEF Init, At
<1>3. \A s \in Sessions : /\ todo[Handler(s)] = <<>> /\ todo[Closer(s)] = <<>>
                          /\ connected[s] /\ nickname[s] = None
  BY <1>1, <1>2 DEF Init
<1>4. TypeOK
  BY <1>2, Nil, RequestsAssumption DEF Init, TypeOK
<1>5. PlanInv
  <2>1. <<>> \notin Located /\ <<>> \notin Headed /\ <<>> \in HandlerPlans
        /\ <<>> \in After
    BY FreeIsFree DEF Free, HandlerPlans, After
  <2>2. <<>> \notin LeavingFrom(Down4)
    BY LeavingFacts DEF LeavingFrom
  <2> QED
    BY <1>3, <2>1, <2>2 DEF PlanInv, Plan
<1>6. LinkInv
  BY <1>3 DEF Init, LinkInv, Link, Idle
<1>7. StoryInv
  <2>1. ASSUME NEW s \in Sessions
        PROVE  Calm(s)
    BY RoomsAssumption DEF Init, Calm, Placed, In
  <2> QED
    BY <1>3, <2>1 DEF StoryInv, Story, CalmPlans
<1>8. NamesInv
  <2>1. IsFiniteSet(nicknames)
    BY FS_EmptySet DEF Init
  <2>2. \A s \in Sessions : ~Naming3(s)
    BY <1>3 DEF Naming3, At
  <2>3. \A s \in Sessions : \A n : ~Held(s, n)
    BY <1>3, <2>2 DEF Held
  <2>4. Owned
    BY <2>3 DEF Init, Owned
  <2> QED
    BY <1>3, <2>1, <2>2, <2>4
       DEF Init, NamesInv, Reserved, Apart, Fresh, LateInv, Late, Idle
<1> QED
  BY <1>4, <1>5, <1>6, <1>7, <1>8 DEF ChatInv

LEMMA ChatStutter == ChatInv /\ UNCHANGED vars => ChatInv'
<1> SUFFICES ASSUME ChatInv, UNCHANGED vars
             PROVE  ChatInv'
  OBVIOUS
<1>1. /\ UNCHANGED <<connected, alive, state, nickname, currentRoomId, nicknames,
                     guestId, granted, members, todo, asked, goal, from, targets,
                     requests, late>>
      /\ Guests' = Guests
  BY DEF vars, fields, users, locals, Guests
<1>2. ASSUME NEW t \in Sessions
      PROVE  Untouched(t)
  BY <1>1 DEF Untouched, In
<1>3. CASE Sessions = {}
  BY <1>1, <1>3 DEF ChatInv, TypeOK, At, PlanInv, LinkInv, StoryInv, NamesInv,
                    Reserved, Apart, Fresh, Owned, LateInv
<1>4. ASSUME NEW s \in Sessions
      PROVE  ChatInv'
  <2>1. TypeOK'
    BY <1>1 DEF ChatInv, TypeOK, At
  <2>2. Plan(s)' /\ Link(s)' /\ Late(s)'
    BY <1>1 DEF ChatInv, PlanInv, Plan, LinkInv, Link, NamesInv, LateInv, Late,
                Idle
  <2>3. connected'[s] => Story(s)'
    BY <1>1, <1>2, StoryUntouched DEF ChatInv, StoryInv
  <2>4. /\ Naming3(s)' <=> Naming3(s)
        /\ LoggedOut(s)' <=> LoggedOut(s)
    BY <1>1 DEF Naming3, At, LoggedOut
  <2>5. IsFiniteSet(nicknames)' /\ Reserved' /\ Apart' /\ Fresh' /\ Owned'
    BY <1>1, <1>2, <2>4, NamesKept
  <2> QED
    BY <1>1, <1>2, <2>1, <2>2, <2>3, <2>5, Kept
<1> QED
  BY <1>3, <1>4

LEMMA ChatInductive == ChatInv /\ [Next]_vars => ChatInv'
<1> SUFFICES ASSUME ChatInv, [Next]_vars
             PROVE  ChatInv'
  OBVIOUS
<1>1. ASSUME NEW s \in Sessions, HandlerStep(s)
      PROVE  ChatInv'
  <2>1. ASSUME RoomStep(Handler(s))
        PROVE  ChatInv'
    BY <2>1, LeaveKeeps, VacateKeeps, UnsetKeeps, CountKeeps, CopyKeeps,
       SendKeeps DEF RoomStep
  <2> QED
    BY <1>1, <2>1, LoginKeeps, ReserveKeeps, NameKeeps, AuthenticateKeeps,
       ListKeeps, EnterKeeps, AdmitKeeps, OccupyKeeps, SetRoomKeeps,
       InRoomKeeps, QuitKeeps, RemoveKeeps, LeftKeeps, ChatKeeps, FindKeeps
       DEF HandlerStep
<1>2. ASSUME NEW s \in Sessions, CloserStep(s)
      PROVE  ChatInv'
  <2>1. ASSUME RoomStep(Closer(s))
        PROVE  ChatInv'
    BY <2>1, CloserLeaves, CloserRooms DEF RoomStep
  <2> QED
    BY <1>2, <2>1, DepartKeeps, LogoutKeeps, RestartKeeps, RenameKeeps,
       ForgetKeeps DEF CloserStep
<1> QED
  BY <1>1, <1>2, OnRecvPacketKeeps, DisconnectKeeps, PoolKeeps, ChatStutter
     DEF Next

\* The fields of a connected session, its place in the rooms and its name
\* agree as far as its handler has come.
THEOREM ChatAlways == Spec => []ChatInv
<1> QED
  BY ChatInit, ChatInductive, PTL DEF Spec

\* A nickname that a connected session has is reserved for it alone (Reserve
\* under userLock, against Logout of sessions that are being torn down).
THEOREM NamesReservedHolds == Spec => []NamesReserved
<1>1. ChatInv => NamesReserved
  <2> SUFFICES ASSUME ChatInv, NEW s \in Sessions,
                      connected[s], nickname[s] # None
               PROVE  /\ nickname[s] \in nicknames
                      /\ \A t \in Sessions \ {s} :
                            connected[t] => nickname[t] # nickname[s]
    BY DEF NamesReserved
  <2>1. nickname[s] \in nicknames /\ Held(s, nickname[s])
    BY DEF ChatInv, NamesInv, Reserved, LoggedOut, Held
  <2>2. ASSUME NEW t \in Sessions \ {s}, connected[t],
               nickname[t] = nickname[s]
        PROVE  FALSE
    <3>1. Held(t, nickname[s])
      BY <2>2 DEF Held, LoggedOut
    <3> QED
      BY <2>1, <3>1 DEF ChatInv, NamesInv, Apart
  <2> QED
    BY <2>1, <2>2
<1> QED
  BY <1>1, ChatAlways, PTL

\* A connected session is never in two rooms, not even while EnterRoom moves it.
THEOREM OneRoomHolds == Spec => []OneRoom
<1>1. ChatInv => OneRoom
  <2> SUFFICES ASSUME ChatInv, NEW s \in Sessions, connected[s],
                      NEW q \in Rooms, NEW r \in Rooms,
                      s \in members[q], s \in members[r]
               PROVE  q = r
    BY DEF OneRoom, ChatInv
  <2>1. Story(s) /\ q \in In(s) /\ r \in In(s)
    BY DEF ChatInv, StoryInv, In
  <2>2. \E o : In(s) \subseteq {o}
    BY <2>1 DEF Story, Calm, Placed, Outside, Naming, Inside, Going, Gone,
                Nowhere, Arriving, Arrived
  <2> QED
    BY <2>1, <2>2
<1> QED
  BY <1>1, ChatAlways, PTL

\* Between two packets of a connected session its state, its nickname, its
\* currentRoomId and the rooms' maps tell the same story.
THEOREM StateAgreesHolds == Spec => []StateAgrees
<1>1. ChatInv => StateAgrees
  <2> SUFFICES ASSUME ChatInv, NEW s \in Sessions,
                      connected[s], Idle(Handler(s))
               PROVE  /\ state[s] = "Connected" <=> nickname[s] = None
                      /\ state[s] = "InRoom" <=> currentRoomId[s] # 0
                      /\ \A r \in Rooms :
                            s \in members[r] <=> currentRoomId[s] = r
    BY DEF StateAgrees
  <2>1. Calm(s)
    BY StoryIdle DEF ChatInv, StoryInv, Idle
  <2> QED
    BY <2>1 DEF Calm, Placed, In
<1> QED
  BY <1>1, ChatAlways, PTL

\* Every name in use belongs to a session, or Login gave it to one whose handler
\* overlapped its Disconnect: any other session gives its name back
\* (ChatSession.cpp, HandleLogin and OnDisconnected).
THEOREM NoGhostNamesHolds == Spec => []NoGhostNames
<1>1. ChatInv => NoGhostNames
  BY DEF ChatInv, NamesInv, Owned, Held, LostLate, NoGhostNames, Claims, Naming3
<1> QED
  BY <1>1, ChatAlways, PTL
=============================================================================
