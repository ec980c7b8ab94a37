---------------------------- MODULE ChatPresence ----------------------------
(***************************************************************************)
(* Who is logged in and who is in which room of the chat server            *)
(* (ChatSession, ChatRoomManager, ChatRoom and UserManager).  Every        *)
(* session has two actors that run at the same time: its handler, the      *)
(* PacketProcessor thread that runs OnRecvPacket (one at a time, see       *)
(* OneWorker of PacketSession), and its closer, the thread whose           *)
(* Disconnect found isConnected true and that runs OnDisconnected.         *)
(*                                                                         *)
(* The fields state, nickname and currentRoomId of a session are not       *)
(* protected; one action is one lock region of a room or of UserManager,   *)
(* or one access to such a field.  An actor works off a list of labels; a  *)
(* call replaces its label by the labels of the callee's body.             *)
(*                                                                         *)
(* A session here is one connection: SessionManager gives every activation *)
(* an id of its own, and the rooms know sessions by that id.               *)
(***************************************************************************)
EXTENDS Naturals, Sequences, FiniteSets

CONSTANTS Sessions,    \* connections, by session id
          Rooms,       \* the room ids, 1..CHAT_ROOM_COUNT
          Nicknames,   \* what clients ask to be called
          None,        \* the empty string
          MaxRequests  \* bound: packets of all clients

ASSUME RoomsAssumption == Rooms \subseteq Nat \ {0}
ASSUME NamesAssumption == None \notin Nicknames
\* CreateGuestNickname never gives out the empty string.
ASSUME GuestAssumption == None \notin {"Guest"} \X Nat
ASSUME RequestsAssumption == MaxRequests \in Nat

Actors == {"handler", "closer"} \X Sessions
Handler(s) == <<"handler", s>>
Closer(s) == <<"closer", s>>

VARIABLES connected,     \* isConnected of each session
          alive,         \* some shared_ptr to the session exists
          state,         \* ChatSessionState
          nickname,      \* the field of the session
          currentRoomId, \* 0 for none
          nicknames,     \* UserManager: the names in use
          guestId,       \* UserManager: the next guest number
          granted,       \* <<s, n>>: Login has given name n to session s
          members,       \* ChatRoom: the weak_ptrs in sessions
          todo,          \* labels each actor has yet to execute
          asked,         \* the nickname a session's login is about
          goal,          \* the room id a session's enter is about
          from,          \* local roomId of LeaveRoom and HandleChat
          targets,       \* local of Broadcast
          requests,      \* packets handled so far
          late           \* sessions a handler of which ran, or still runs,
                         \* when Disconnect had begun

fields == <<state, nickname, currentRoomId>>
users == <<nicknames, guestId, granted>>
locals == <<asked, goal, from, targets>>
vars == <<connected, alive, fields, users, members, todo, locals, requests,
          late>>

\* The name of guest k, and the guests that have been named so far.
Guest(k) == <<"Guest", k>>
Guests == {Guest(k) : k \in 1 .. guestId - 1}

Labels == {"login", "reserve", "name", "authenticate", "list", "enter",
           "admit", "occupy", "set", "inroom", "count", "quit", "remove", "leave",
           "vacate", "unset", "left", "chat", "find", "copy", "send", "depart",
           "logout", "restart", "rename", "forget"}

Idle(a) == todo[a] = <<>>
At(a, label) == todo[a] # <<>> /\ Head(todo[a]) = label

\* The types of the fields, the managers' maps and the locals.
TypeOK ==
    /\ connected \in [Sessions -> BOOLEAN]
    /\ alive \in [Sessions -> BOOLEAN]
    /\ state \in [Sessions -> {"Connected", "Authenticated", "InRoom"}]
    /\ nickname \in [Sessions -> Nicknames \cup Guests \cup {None}]
    /\ currentRoomId \in [Sessions -> Rooms \cup {0}]
    /\ nicknames \subseteq Nicknames \cup Guests
    /\ guestId \in Nat \ {0}
    /\ granted \subseteq Sessions \X (Nicknames \cup Guests)
    /\ members \in [Rooms -> SUBSET Sessions]
    /\ todo \in [Actors -> Seq(Labels)]
    /\ asked \in [Sessions -> Nicknames \cup Guests \cup {None}]
    /\ goal \in [Sessions -> Rooms \cup {0}]
    /\ from \in [Actors -> Rooms \cup {0}]
    /\ \A a \in Actors : At(a, "vacate") \/ At(a, "copy") => from[a] \in Rooms
    /\ targets \in [Actors -> SUBSET Sessions]
    /\ requests \in 0..MaxRequests
    /\ late \subseteq Sessions

Init == /\ connected = [s \in Sessions |-> TRUE]
        /\ alive = [s \in Sessions |-> TRUE]
        /\ state = [s \in Sessions |-> "Connected"]
        /\ nickname = [s \in Sessions |-> None]
        /\ currentRoomId = [s \in Sessions |-> 0]
        /\ nicknames = {}
        /\ guestId = 1
        /\ granted = {}
        /\ members = [r \in Rooms |-> {}]
        /\ todo = [a \in Actors |-> <<>>]
        /\ asked = [s \in Sessions |-> None]
        /\ goal = [s \in Sessions |-> 0]
        /\ from = [a \in Actors |-> 0]
        /\ targets = [a \in Actors |-> {}]
        /\ requests = 0
        /\ late = {}

\* Actor a executes its label and has `body' to do before it returns.
Then(a, body) == todo' = [todo EXCEPT ![a] = body \o Tail(@)]

Live(S) == {s \in S : alive[s]}

-----------------------------------------------------------------------------
\* A packet that the client has sent reaches OnRecvPacket, maybe after the
\* session is disconnected: ProcessPacket2 tests for that only afterwards.
Request(s) == /\ alive[s]
              /\ Idle(Handler(s))
              /\ requests < MaxRequests
              /\ requests' = requests + 1
              /\ late' = IF connected[s] THEN late ELSE late \cup {s}
              /\ UNCHANGED <<connected, alive, fields, users, members, from,
                             targets>>

Begin(s, body) == Request(s) /\ todo' = [todo EXCEPT ![Handler(s)] = body]

RequestLogin(s) == /\ Begin(s, <<"login">>)
                   /\ \E n \in Nicknames \cup {None} :
                         asked' = [asked EXCEPT ![s] = n]
                   /\ goal' = [goal EXCEPT ![s] = 0]

RequestEnter(s) == /\ Begin(s, <<"enter">>)
                   /\ \E r \in Rooms \cup {0} : goal' = [goal EXCEPT ![s] = r]
                   /\ asked' = [asked EXCEPT ![s] = None]

\* HandleRoomList, HandleLeaveRoom, HandleChat.
RequestOther(s) == /\ \E label \in {"list", "quit", "chat"} :
                         Begin(s, <<label>>)
                   /\ asked' = [asked EXCEPT ![s] = None]
                   /\ goal' = [goal EXCEPT ![s] = 0]

-----------------------------------------------------------------------------
(* ChatSession::HandleLogin                                                *)

Login(s) == LET h == Handler(s)
            IN  /\ At(h, "login")
                /\ Then(h, IF state[s] = "Connected" THEN <<"reserve">> ELSE <<>>)
                /\ UNCHANGED <<connected, alive, fields, users, members, locals,
                               requests, late>>

\* CreateGuestNickname: the first number from guestId on whose name is free.
FreeGuest == CHOOSE k \in guestId .. guestId + Cardinality(nicknames) :
                /\ Guest(k) \notin nicknames
                /\ \A j \in guestId .. k - 1 : Guest(j) \in nicknames

\* Mutant of Reserve: the name is not looked up.
ReserveBlindly(s) ==
    LET h == Handler(s)
        n == IF asked[s] = None THEN Guest(FreeGuest) ELSE asked[s]
    IN  /\ At(h, "reserve")
        /\ guestId' = IF asked[s] = None THEN FreeGuest + 1 ELSE guestId
        /\ nicknames' = nicknames \cup {n}
        /\ granted' = granted \cup {<<s, n>>}
        /\ asked' = [asked EXCEPT ![s] = n]
        /\ Then(h, <<"name", "authenticate", "list">>)
        /\ UNCHANGED <<connected, alive, fields, members, goal, from, targets,
                       requests, late>>

\* UserManager::Login, under userLock.
Reserve(s) ==
    LET h == Handler(s)
        n == IF asked[s] = None THEN Guest(FreeGuest) ELSE asked[s]
    IN  /\ At(h, "reserve")
        /\ guestId' = IF asked[s] = None THEN FreeGuest + 1 ELSE guestId
        /\ nicknames' = nicknames \cup {n}
        /\ granted' = IF n \in nicknames THEN granted ELSE granted \cup {<<s, n>>}
        /\ asked' = [asked EXCEPT ![s] = n]
        /\ Then(h, IF n \in nicknames THEN <<>>
                                      ELSE <<"name", "authenticate", "list">>)
        /\ UNCHANGED <<connected, alive, fields, members, goal, from, targets,
                       requests, late>>

Name(s) == LET h == Handler(s)
           IN  /\ At(h, "name")
               /\ nickname' = [nickname EXCEPT ![s] = asked[s]]
               /\ Then(h, <<>>)
               /\ UNCHANGED <<connected, alive, state, currentRoomId, users,
                              members, locals, requests, late>>

Authenticate(s) == LET h == Handler(s)
                   IN  /\ At(h, "authenticate")
                       /\ state' = [state EXCEPT ![s] = "Authenticated"]
                       /\ Then(h, <<>>)
                       /\ UNCHANGED <<connected, alive, nickname, currentRoomId,
                                      users, members, locals, requests, late>>

\* BuildRoomList counts the users of every room.  The expired entries that
\* GetUserCount erases stay expired, so one step may take all rooms.
List(s) == LET h == Handler(s)
           IN  /\ At(h, "list")
               /\ \/ /\ state[s] # "Connected"
                     /\ members' = [r \in Rooms |-> Live(members[r])]
                  \/ /\ state[s] = "Connected"
                     /\ UNCHANGED members
               /\ Then(h, <<>>)
               /\ UNCHANGED <<connected, alive, fields, users, locals, requests,
                              late>>

-----------------------------------------------------------------------------
(* ChatSession::HandleEnterRoom and ChatRoomManager::EnterRoom             *)

Enter(s) == LET h == Handler(s)
            IN  /\ At(h, "enter")
                /\ Then(h, IF state[s] = "Connected" THEN <<>> ELSE <<"admit">>)
                /\ UNCHANGED <<connected, alive, fields, users, members, locals,
                               requests, late>>

Join == <<"occupy", "set", "count", "inroom", "count", "copy", "send">>

\* Mutant of Admit: the old room is not left.
AdmitTwice(s) ==
    LET h == Handler(s)
    IN  /\ At(h, "admit")
        /\ Then(h, IF goal[s] \notin Rooms \/ goal[s] = currentRoomId[s]
                   THEN <<>> ELSE Join)
        /\ UNCHANGED <<connected, alive, fields, users, members, locals,
                       requests, late>>

Admit(s) ==
    LET h == Handler(s)
    IN  /\ At(h, "admit")
        /\ Then(h, IF goal[s] \notin Rooms \/ goal[s] = currentRoomId[s] THEN <<>>
                   ELSE IF currentRoomId[s] # 0 THEN <<"leave">> \o Join
                   ELSE Join)
        /\ UNCHANGED <<connected, alive, fields, users, members, locals,
                       requests, late>>

\* ChatRoom::Enter, under roomLock.
Occupy(s) == LET h == Handler(s)
             IN  /\ At(h, "occupy")
                 /\ members' = [members EXCEPT ![goal[s]] = @ \cup {s}]
                 /\ from' = [from EXCEPT ![h] = goal[s]]
                 /\ Then(h, <<>>)
                 /\ UNCHANGED <<connected, alive, fields, users, asked, goal,
                                targets, requests, late>>

SetRoom(s) == LET h == Handler(s)
              IN  /\ At(h, "set")
                  /\ currentRoomId' = [currentRoomId EXCEPT ![s] = goal[s]]
                  /\ Then(h, <<>>)
                  /\ UNCHANGED <<connected, alive, state, nickname, users,
                                 members, locals, requests, late>>

InRoom(s) == LET h == Handler(s)
             IN  /\ At(h, "inroom")
                 /\ state' = [state EXCEPT ![s] = "InRoom"]
                 /\ Then(h, <<>>)
                 /\ UNCHANGED <<connected, alive, nickname, currentRoomId, users,
                                members, locals, requests, late>>

-----------------------------------------------------------------------------
(* ChatRoomManager::LeaveRoom, by the handler or by the closer             *)

\* The room id is read; for an invalid one LeaveRoom returns false.  `after'
\* is what the caller does if it returns true.
LeaveRoom(a, after) ==
    LET r == currentRoomId[a[2]]
    IN  /\ from' = [from EXCEPT ![a] = r]
        /\ Then(a, IF r \in Rooms
                   THEN <<"vacate", "unset", "count", "copy", "send">> \o after
                   ELSE <<>>)
        /\ UNCHANGED <<connected, alive, fields, users, members, asked, goal,
                       targets, requests, late>>

Leave(a) == At(a, "leave") /\ LeaveRoom(a, <<>>)

\* ChatRoom::Leave, under roomLock.
Vacate(a) == /\ At(a, "vacate")
             /\ members' = [members EXCEPT ![from[a]] = @ \ {a[2]}]
             /\ Then(a, <<>>)
             /\ UNCHANGED <<connected, alive, fields, users, locals, requests,
                            late>>

Unset(a) == /\ At(a, "unset")
            /\ currentRoomId' = [currentRoomId EXCEPT ![a[2]] = 0]
            /\ Then(a, <<>>)
            /\ UNCHANGED <<connected, alive, state, nickname, users, members,
                           locals, requests, late>>

\* ChatRoom::GetUserCount, under roomLock.
Count(a) == /\ At(a, "count")
            /\ members' = [members EXCEPT ![from[a]] = Live(@)]
            /\ Then(a, <<>>)
            /\ UNCHANGED <<connected, alive, fields, users, locals, requests,
                           late>>

\* ChatRoom::Broadcast: the lock region.
Copy(a) == /\ At(a, "copy")
           /\ members' = [members EXCEPT ![from[a]] = Live(@)]
           /\ targets' = [targets EXCEPT ![a] = Live(members[from[a]])]
           /\ Then(a, <<>>)
           /\ UNCHANGED <<connected, alive, fields, users, asked, goal, from,
                          requests, late>>

\* The loop over the targets, which then go out of scope.
Send(a) == /\ At(a, "send")
           /\ targets' = [targets EXCEPT ![a] = {}]
           /\ from' = [from EXCEPT ![a] = 0]
           /\ Then(a, <<>>)
           /\ UNCHANGED <<connected, alive, fields, users, members, asked, goal,
                          requests, late>>

-----------------------------------------------------------------------------
(* ChatSession::HandleLeaveRoom and HandleChat                             *)

Joined(s) == state[s] = "InRoom" /\ currentRoomId[s] # 0

Quit(s) == LET h == Handler(s)
           IN  /\ At(h, "quit")
               /\ Then(h, IF Joined(s) THEN <<"remove">> ELSE <<>>)
               /\ UNCHANGED <<connected, alive, fields, users, members, locals,
                              requests, late>>

Remove(s) == At(Handler(s), "remove") /\ LeaveRoom(Handler(s), <<"left">>)

\* Mutant of Left: the session stays InRoom.
LeftInRoom(s) == LET h == Handler(s)
                 IN  /\ At(h, "left")
                     /\ Then(h, <<>>)
                     /\ UNCHANGED <<connected, alive, fields, users, members,
                                    locals, requests, late>>

Left(s) == LET h == Handler(s)
           IN  /\ At(h, "left")
               /\ state' = [state EXCEPT ![s] = "Authenticated"]
               /\ Then(h, <<>>)
               /\ UNCHANGED <<connected, alive, nickname, currentRoomId, users,
                              members, locals, requests, late>>

Chat(s) == LET h == Handler(s)
           IN  /\ At(h, "chat")
               /\ Then(h, IF Joined(s) THEN <<"find">> ELSE <<>>)
               /\ UNCHANGED <<connected, alive, fields, users, members, locals,
                              requests, late>>

\* currentRoomId is read again for GetRoom.
Find(s) == LET h == Handler(s)
           IN  /\ At(h, "find")
               /\ from' = [from EXCEPT ![h] = currentRoomId[s]]
               /\ Then(h, IF currentRoomId[s] \in Rooms THEN <<"copy", "send">>
                                                        ELSE <<>>)
               /\ UNCHANGED <<connected, alive, fields, users, members, asked,
                              goal, targets, requests, late>>

-----------------------------------------------------------------------------
(* Session::Disconnect and ChatSession::OnDisconnected                     *)

\* isConnected.exchange(false), by whoever is first.
Disconnect(s) ==
    /\ connected[s]
    /\ connected' = [connected EXCEPT ![s] = FALSE]
    /\ late' = IF Idle(Handler(s)) THEN late ELSE late \cup {s}
    /\ todo' = [todo EXCEPT ![Closer(s)] = <<"depart", "logout", "restart",
                                             "rename", "forget">>]
    /\ UNCHANGED <<alive, fields, users, members, locals, requests>>

Depart(s) == LET c == Closer(s)
             IN  /\ At(c, "depart")
                 /\ Then(c, IF currentRoomId[s] # 0 THEN <<"leave">> ELSE <<>>)
                 /\ UNCHANGED <<connected, alive, fields, users, members, locals,
                                requests, late>>

\* Mutant of Logout: the name stays in use.
LogoutNothing(s) == LET c == Closer(s)
                    IN  /\ At(c, "logout")
                        /\ Then(c, <<>>)
                        /\ UNCHANGED <<connected, alive, fields, users, members,
                                       locals, requests, late>>

\* UserManager::Logout, under userLock.
Logout(s) == LET c == Closer(s)
             IN  /\ At(c, "logout")
                 /\ nicknames' = nicknames \ {nickname[s]}
                 /\ Then(c, <<>>)
                 /\ UNCHANGED <<connected, alive, fields, guestId, granted,
                                members, locals, requests, late>>

Restart(s) == LET c == Closer(s)
              IN  /\ At(c, "restart")
                  /\ state' = [state EXCEPT ![s] = "Connected"]
                  /\ Then(c, <<>>)
                  /\ UNCHANGED <<connected, alive, nickname, currentRoomId,
                                 users, members, locals, requests, late>>

Rename(s) == LET c == Closer(s)
             IN  /\ At(c, "rename")
                 /\ nickname' = [nickname EXCEPT ![s] = None]
                 /\ Then(c, <<>>)
                 /\ UNCHANGED <<connected, alive, state, currentRoomId, users,
                                members, locals, requests, late>>

Forget(s) == LET c == Closer(s)
             IN  /\ At(c, "forget")
                 /\ currentRoomId' = [currentRoomId EXCEPT ![s] = 0]
                 /\ Then(c, <<>>)
                 /\ UNCHANGED <<connected, alive, state, nickname, users,
                                members, locals, requests, late>>

\* The last shared_ptr is gone: ChatSession::Reset, and the weak_ptrs expire.
Pool(s) == /\ alive[s]
           /\ ~connected[s]
           /\ Idle(Handler(s)) /\ Idle(Closer(s))
           /\ \A a \in Actors : s \notin targets[a]
           /\ alive' = [alive EXCEPT ![s] = FALSE]
           /\ state' = [state EXCEPT ![s] = "Connected"]
           /\ nickname' = [nickname EXCEPT ![s] = None]
           /\ currentRoomId' = [currentRoomId EXCEPT ![s] = 0]
           /\ UNCHANGED <<connected, users, members, todo, locals, requests,
                          late>>

-----------------------------------------------------------------------------
RoomStep(a) == \/ Leave(a) \/ Vacate(a) \/ Unset(a) \/ Count(a) \/ Copy(a)
               \/ Send(a)

HandlerStep(s) == \/ Login(s) \/ Reserve(s) \/ Name(s) \/ Authenticate(s)
                  \/ List(s) \/ Enter(s) \/ Admit(s) \/ Occupy(s) \/ SetRoom(s)
                  \/ InRoom(s) \/ Quit(s) \/ Remove(s) \/ Left(s) \/ Chat(s) \/ Find(s)
                  \/ RoomStep(Handler(s))

CloserStep(s) == \/ Depart(s) \/ Logout(s) \/ Restart(s) \/ Rename(s)
                 \/ Forget(s) \/ RoomStep(Closer(s))

OnRecvPacket(s) == RequestLogin(s) \/ RequestEnter(s) \/ RequestOther(s)

Next == \E s \in Sessions : \/ OnRecvPacket(s)
                            \/ HandlerStep(s)
                            \/ Disconnect(s)
                            \/ CloserStep(s)
                            \/ Pool(s)

Spec == Init /\ [][Next]_vars

-----------------------------------------------------------------------------
\* A nickname that a connected session has, or is being given, is reserved
\* for it alone: whatever sessions that are being torn down log out.
NamesReserved ==
    \A s \in Sessions : connected[s] /\ nickname[s] # None =>
        /\ nickname[s] \in nicknames
        /\ \A t \in Sessions \ {s} : connected[t] => nickname[t] # nickname[s]

\* A connected session is never in two rooms, not even while it moves.  (TypeOK
\* gives the types.)
OneRoom == TypeOK /\ \A s \in Sessions : connected[s] =>
               \A q, r \in Rooms : s \in members[q] /\ s \in members[r] => q = r

\* Between two packets of a connected session its state, its nickname, its
\* currentRoomId and the rooms' maps tell the same story.
StateAgrees ==
    \A s \in Sessions : connected[s] /\ Idle(Handler(s)) =>
        /\ state[s] = "Connected" <=> nickname[s] = None
        /\ state[s] = "InRoom" <=> currentRoomId[s] # 0
        /\ \A r \in Rooms : s \in members[r] <=> currentRoomId[s] = r

\* Every name in use belongs to a session, or Login gave it to one whose
\* handler overlapped its Disconnect: such a session may lose the names it was
\* given itself, and no other session's.
Claims(s, n) == \/ nickname[s] = n
                \/ asked[s] = n /\ At(Handler(s), "name")
NoGhostNames == \A n \in nicknames : \E s \in Sessions :
                    Claims(s, n) \/ (s \in late /\ <<s, n>> \in granted)
=============================================================================
