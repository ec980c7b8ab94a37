----------------------------- MODULE ChatWindows -----------------------------
(***************************************************************************)
(* Chat clients and their sessions at the server: the windows of           *)
(* ChatClientUI, whose view follows the packets of the server, and the     *)
(* consoles of ChatClient, which send requests and handle no answer        *)
(* (ChatClient::packetProcessor hides the global that ProcessRecv tests),  *)
(* so that what they receive fills packetBuffer until they disconnect.     *)
(*                                                                         *)
(* A connection is two sequences of packets.  The server handles the       *)
(* packets of a session one at a time (OneWorker of PacketSession); a      *)
(* handler is a list of items, one per lock region and per packet sent,    *)
(* and what follows in one thread without another seeing it is one item.   *)
(* A session is closed between two handlers and a window connects again    *)
(* only when the server is done with the old session (ChatPresence has     *)
(* neither restriction).  Every client asks for a nickname of its own.     *)
(* User counts, room lists and system lines have no content here.          *)
(***************************************************************************)
EXTENDS Integers, Sequences, FiniteSets

CONSTANTS Windows, Consoles,
          Rooms,       \* the room ids
          None,        \* no client
          WindowBudget, ConsoleBudget, \* bounds: requests of a client
          MaxQueued,   \* bound: requests the server has yet to take up
          MaxLosses    \* bound: connections that end

Clients == Windows \cup Consoles
Budget(c) == IF c \in Windows THEN WindowBudget ELSE ConsoleBudget
Said == 0 .. WindowBudget + ConsoleBudget
ASSUME ClientsAssumption == Windows \cap Consoles = {} /\ None \notin Clients
ASSUME RoomsAssumption == Rooms \subseteq Nat \ {0}
ASSUME BoundsAssumption == {WindowBudget, ConsoleBudget, MaxQueued, MaxLosses} \subseteq Nat

VARIABLES
    \* connections
    link,      \* how the client's socket is: see Links
    in, out,   \* packets to each window, and of each client to the server
    \* the server
    isConnected, \* of the session of the connection
    authenticated, \* state # Connected
    room,      \* currentRoomId, and the ChatRoom that has the session
    nicknames, \* UserManager
    work,      \* what the handler or OnDisconnected has yet to do
    \* the windows
    view, currentRoomId, loginEnabled, chatLines,
    connecting, \* LoginAsync awaits ConnectAsync
    reading,   \* ReceiveLoopAsync of the current connection runs
    raising,   \* Disconnected events the dispatcher has yet to run
    \* bookkeeping
    asked, losses,
    said,      \* messages each client has entered
    late,      \* windows a Disconnected of an older connection has reached
    overlap    \* per window, those whose Broadcast had copied it when it left

links == <<link, in, out>>
server == <<isConnected, authenticated, room, nicknames, work>>
window == <<view, currentRoomId, loginEnabled, chatLines>>
loop == <<connecting, reading, raising, late>>
counts == <<asked, losses, said>>
vars == <<links, server, window, loop, counts, overlap>>

\* The sockets; "fin": the server has closed, TcpClient.Connected is still true; "reset": an
\* access will fail; "dead": one has, Connected is false; "none": disposed.
Links == {"up", "fin", "reset", "dead", "none"}
Views == {"login", "rooms", "chat"}
Requests == {"C_LOGIN_REQ", "C_ROOM_LIST_REQ", "C_ROOM_ENTER_REQ",
             "C_ROOM_LEAVE_REQ", "C_CHAT_REQ"}
Answers == {"LOGIN_OK", "LOGIN_FAIL", "LIST", "ENTER_OK", "ENTER_FAIL",
            "LEAVE_OK", "LEAVE_FAIL", "NOTICE", "S_CHAT", "S_ERROR"}
Packet(id, from, r, n) == [id |-> id, from |-> from, room |-> r, n |-> n]
Plain(id) == Packet(id, None, 0, 0)
Packets(ids) == [id : ids, from : Clients \cup {None}, room : Rooms \cup {0},
                 n : Said]
Lines == [from : Clients, room : Rooms, n : Said]

Item(op, r) == [op |-> op, room |-> r]
Send(p, targets) == [op |-> "send", packet |-> p, to |-> targets]
Items == [op : {"vacate", "occupy", "entered", "left", "gone"}, room : Rooms \cup {0}]
            \cup [op : {"send"}, packet : Packets({"S_CHAT"}), to : SUBSET Clients]

\* The types of the fields and of what is under way.
TypeOK == /\ link \in [Clients -> Links]
          /\ in \in [Windows -> Seq(Packets(Answers))]
          /\ out \in [Clients -> Seq(Packets(Requests))]
          /\ isConnected \in [Clients -> BOOLEAN]
          /\ authenticated \in [Clients -> BOOLEAN]
          /\ room \in [Clients -> Rooms \cup {0}]
          /\ nicknames \subseteq Clients
          /\ work \in [Clients -> Seq(Items)]
          /\ view \in [Windows -> Views]
          /\ currentRoomId \in [Windows -> Rooms \cup {0}]
          /\ loginEnabled \in [Windows -> BOOLEAN]
          /\ chatLines \in [Windows -> Seq(Lines)]
          /\ connecting \subseteq Windows /\ reading \subseteq Windows
          /\ late \subseteq Windows
          /\ raising \in [Windows -> 0 .. MaxLosses]
          /\ overlap \in [Windows -> SUBSET Clients]

\* The windows are open; the consoles have connected and logged in.
Init == /\ link = [c \in Clients |-> IF c \in Consoles THEN "up" ELSE "none"]
        /\ isConnected = [c \in Clients |-> c \in Consoles]
        /\ in = [w \in Windows |-> <<>>] /\ out = [c \in Clients |-> <<>>]
        /\ authenticated = [c \in Clients |-> c \in Consoles]
        /\ room = [c \in Clients |-> 0]
        /\ nicknames = Consoles
        /\ work = [c \in Clients |-> <<>>]
        /\ view = [w \in Windows |-> "login"]
        /\ currentRoomId = [w \in Windows |-> 0]
        /\ loginEnabled = [w \in Windows |-> TRUE]
        /\ chatLines = [w \in Windows |-> <<>>]
        /\ connecting = {} /\ reading = {} /\ late = {}
        /\ raising = [w \in Windows |-> 0]
        /\ asked = [c \in Clients |-> 0]
        /\ losses = 0
        /\ said = [c \in Clients |-> 0]
        /\ overlap = [w \in Windows |-> {}]

-----------------------------------------------------------------------------
(* The server's handlers: ChatSession::OnRecvPacket                        *)

Todo(c, items) == work' = [work EXCEPT ![c] = items]

\* Session c is idle and its next packet is of kind id.
Handles(c, id) == /\ isConnected[c] /\ work[c] = <<>>
                  /\ out[c] # <<>> /\ Head(out[c]).id = id
                  /\ out' = [out EXCEPT ![c] = Tail(@)]
                  /\ UNCHANGED <<link, isConnected, room, window, loop, counts, overlap>>

\* ChatSession::SendPacket to the windows among S: nothing is sent by a session
\* that is disconnected, nor on a connection that is gone.  What a console
\* receives stays in its packetBuffer.
Receiving(w) == isConnected[w] /\ link[w] = "up"

\* Mutant: the send queue is a stack.
SendPacketsFirst(S, packets) ==
    in' = [w \in Windows |-> IF w \in S /\ Receiving(w) THEN packets \o in[w]
                                                       ELSE in[w]]

SendPackets(S, packets) ==
    in' = [w \in Windows |-> IF w \in S /\ Receiving(w) THEN in[w] \o packets ELSE in[w]]
SendPacket(S, id) == SendPackets(S, <<Plain(id)>>)

\* The packet is answered at once.
Answer(c, answer) == SendPacket({c}, answer) /\ UNCHANGED <<authenticated, nicknames, work>>

\* The packet takes several items.
Begin(c, items) == Todo(c, items) /\ UNCHANGED <<in, authenticated, nicknames>>

\* UserManager::Login, the fields of the session, the answer and the room list.
HandleLogin(c) ==
    /\ Handles(c, "C_LOGIN_REQ")
    /\ \/ /\ ~authenticated[c] /\ c \notin nicknames
          /\ authenticated' = [authenticated EXCEPT ![c] = TRUE]
          /\ nicknames' = nicknames \cup {c}
          /\ SendPackets({c}, <<Plain("LOGIN_OK"), Plain("LIST")>>)
          /\ UNCHANGED work
       \/ (authenticated[c] \/ c \in nicknames) /\ Answer(c, "LOGIN_FAIL")

HandleRoomList(c) == /\ Handles(c, "C_ROOM_LIST_REQ")
                     /\ Answer(c, IF authenticated[c] THEN "LIST" ELSE "S_ERROR")

\* ChatRoomManager::LeaveRoom, if there is a room to leave.
LeaveRoom(c) == IF room[c] = 0 THEN <<>> ELSE <<Item("vacate", room[c])>>

HandleEnterRoom(c) ==
    /\ Handles(c, "C_ROOM_ENTER_REQ")
    /\ LET r == Head(out[c]).room
           admitted == authenticated[c] /\ r \in Rooms /\ r # room[c]
       IN \/ /\ admitted
             /\ Begin(c, LeaveRoom(c) \o <<Item("occupy", r), Item("entered", r)>>)
          \/ ~admitted /\ Answer(c, "ENTER_FAIL")

HandleLeaveRoom(c) ==
    /\ Handles(c, "C_ROOM_LEAVE_REQ")
    /\ \/ room[c] # 0 /\ Begin(c, LeaveRoom(c) \o <<Item("left", room[c])>>)
       \/ room[c] = 0 /\ Answer(c, "LEAVE_FAIL")

\* Mutant: the broadcast is to the members of all rooms.
MembersOfAny(r) == {d \in Clients : room[d] # 0}

Members(r) == {d \in Clients : room[d] = r}

\* The copy that Broadcast makes under roomLock.
HandleChat(c) ==
    /\ Handles(c, "C_CHAT_REQ")
    /\ \/ /\ room[c] # 0
          /\ Begin(c, <<Send(Packet("S_CHAT", c, room[c], Head(out[c]).n), Members(room[c]))>>)
       \/ room[c] = 0 /\ Answer(c, "S_ERROR")

-----------------------------------------------------------------------------
(* The items of the handlers                                               *)

Does(c, op) == work[c] # <<>> /\ Head(work[c]).op = op
Done(c) == Todo(c, Tail(work[c]))

\* The sessions whose Broadcast still has to reach c.
Sending(c) == {d \in Clients : Does(d, "send") /\ c \in Head(work[d]).to}

\* ChatRoom::Leave, SetCurrentRoomId(0), and Broadcast to the others.
Vacate(c) == /\ Does(c, "vacate")
             /\ room' = [room EXCEPT ![c] = 0]
             /\ overlap' = [w \in Windows |-> overlap[w] \cup
                                                 IF w = c THEN Sending(c) ELSE {}]
             /\ SendPacket(Members(room[c]) \ {c}, "NOTICE")
             /\ Done(c)
             /\ UNCHANGED <<link, out, isConnected, authenticated, nicknames, window,
                            loop, counts>>

\* ChatRoom::Enter and SetCurrentRoomId.
Occupy(c) == /\ Does(c, "occupy")
             /\ room' = [room EXCEPT ![c] = Head(work[c]).room]
             /\ Done(c)
             /\ UNCHANGED <<links, isConnected, authenticated, nicknames, window, loop,
                            counts, overlap>>

\* The answers of HandleEnterRoom, with the broadcast of S_ROOM_USER_JOIN, and
\* of HandleLeaveRoom.
Report(c) == /\ \/ /\ Does(c, "entered")
                   /\ LET r == Head(work[c]).room
                          answer == Packet("ENTER_OK", None, r, 0)
                      IN in' = [w \in Windows |->
                                  IF ~Receiving(w) THEN in[w]
                                  ELSE in[w] \o (IF w = c THEN <<answer>> ELSE <<>>)
                                            \o (IF room[w] = r THEN <<Plain("NOTICE")>> ELSE <<>>)]
                \/ Does(c, "left") /\ SendPacket({c}, "LEAVE_OK")
             /\ Done(c)
             /\ UNCHANGED <<link, out, isConnected, authenticated, room, nicknames,
                            window, loop, counts, overlap>>

\* The loop of Broadcast over its targets, in the order of their session ids,
\* which is that of the connections and left open here.
SendNext(c) == /\ Does(c, "send")
               /\ LET item == Head(work[c]) IN
                  \E d \in item.to :
                     /\ SendPackets({d}, <<item.packet>>)
                     /\ Todo(c, IF item.to = {d} THEN Tail(work[c])
                                ELSE <<[item EXCEPT !.to = @ \ {d}]>> \o Tail(work[c]))
               /\ UNCHANGED <<link, out, isConnected, authenticated, room, nicknames,
                              window, loop, counts, overlap>>

-----------------------------------------------------------------------------
(* The end of a connection                                                 *)

\* The first end of a connection counts.
Loses(c) == IF link[c] = "up" THEN losses < MaxLosses /\ losses' = losses + 1
                              ELSE UNCHANGED losses

\* Session::Disconnect at the server, for a reason of its own or because the
\* connection is gone; ChatSession::OnDisconnected follows.
ServerDisconnects(c) ==
    /\ isConnected[c] /\ work[c] = <<>>
    /\ Loses(c)
    /\ isConnected' = [isConnected EXCEPT ![c] = FALSE]
    /\ Todo(c, LeaveRoom(c) \o <<Item("gone", 0)>>)
    /\ UNCHANGED <<links, authenticated, room, nicknames, window, loop, asked,
                   said, overlap>>

\* Logout and closesocket.
Gone(c) == /\ Does(c, "gone")
           /\ nicknames' = IF authenticated[c] THEN nicknames \ {c} ELSE nicknames
           /\ authenticated' = [authenticated EXCEPT ![c] = FALSE]
           /\ link' = [link EXCEPT ![c] = IF @ = "up" THEN "fin" ELSE @]
           /\ out' = [out EXCEPT ![c] = <<>>]
           /\ Done(c)
           /\ UNCHANGED <<in, isConnected, room, window, loop, counts, overlap>>

\* The network ends the connection of a window; what is on its way is lost.
NetworkReset(w) == /\ link[w] = "up" /\ Loses(w)
                   /\ link' = [link EXCEPT ![w] = "reset"]
                   /\ in' = [in EXCEPT ![w] = <<>>] /\ out' = [out EXCEPT ![w] = <<>>]
                   /\ UNCHANGED <<server, window, loop, asked, said, overlap>>

-----------------------------------------------------------------------------
(* ChatTcpClient and the requests of a window                              *)

Connected(w) == link[w] \in {"up", "fin", "reset"}

\* The views as functions of the window's variables.
Show(w, v) == view' = [view EXCEPT ![w] = v]
ShowLoginView(w) == /\ Show(w, "login")
                    /\ currentRoomId' = [currentRoomId EXCEPT ![w] = 0]
                    /\ loginEnabled' = [loginEnabled EXCEPT ![w] = TRUE]

\* NetworkStream.WriteAsync: a packet on its way, one for a peer that is gone
\* and answers by a reset, or an exception.
Write(w, p) ==
    /\ link' = [link EXCEPT ![w] = CASE @ = "fin" -> "reset" [] @ = "reset" -> "dead"
                                     [] OTHER -> @]
    /\ out' = IF link[w] = "up" THEN [out EXCEPT ![w] = Append(@, p)] ELSE out
    /\ UNCHANGED in

Asks(c) == /\ asked[c] < Budget(c) /\ Len(out[c]) < MaxQueued
           /\ asked' = [asked EXCEPT ![c] = @ + 1]
           /\ UNCHANGED losses

\* DisposeAsync: the receive loop is cancelled or sees an exception.
Dispose(w) == /\ link' = [link EXCEPT ![w] = "none"]
              /\ reading' = reading \ {w}
              /\ raising' \in {raising, IF w \in reading THEN [raising EXCEPT ![w] = @ + 1]
                                        ELSE raising}

\* LoginAsync, by the button or by the Enter key, up to ConnectAsync.  Only one
\* LoginAsync connects at a time here.
LoginConnect(w) == /\ Asks(w) /\ view[w] = "login" /\ w \notin connecting
                   /\ ~Connected(w)
                   /\ loginEnabled' = [loginEnabled EXCEPT ![w] = FALSE]
                   /\ connecting' = connecting \cup {w}
                   /\ Dispose(w)
                   /\ UNCHANGED <<in, out, server, view, currentRoomId, chatLines,
                                  late, said, overlap>>

\* ConnectAsync succeeds: the receive loop is started and the request sent.
LoginConnected(w) == /\ w \in connecting
                     /\ ~isConnected[w] /\ work[w] = <<>>
                     /\ connecting' = connecting \ {w}
                     /\ reading' = reading \cup {w}
                     /\ late' = late \ {w}
                     /\ link' = [link EXCEPT ![w] = "up"]
                     /\ in' = [in EXCEPT ![w] = <<>>]
                     /\ out' = [out EXCEPT ![w] = <<Plain("C_LOGIN_REQ")>>]
                     /\ isConnected' = [isConnected EXCEPT ![w] = TRUE]
                     /\ UNCHANGED <<authenticated, room, nicknames, work, window,
                                    raising, counts, overlap>>

LoginFails(w) == /\ w \in connecting
                 /\ connecting' = connecting \ {w}
                 /\ loginEnabled' = [loginEnabled EXCEPT ![w] = TRUE]
                 /\ UNCHANGED <<links, server, view, currentRoomId, chatLines, reading,
                                raising, late, counts, overlap>>

\* LoginAsync on a client that is connected.
LoginAgain(w) == /\ Asks(w) /\ view[w] = "login" /\ w \notin connecting
                 /\ Connected(w)
                 /\ Write(w, Plain("C_LOGIN_REQ"))
                 /\ loginEnabled' = [loginEnabled EXCEPT ![w] = link[w] = "reset"]
                 /\ UNCHANGED <<server, view, currentRoomId, chatLines, loop, said,
                                overlap>>

\* SendSafeAsync: the login view, or the packet.
SendSafe(w, p) == IF Connected(w)
                  THEN Write(w, p) /\ UNCHANGED <<view, currentRoomId, loginEnabled>>
                  ELSE ShowLoginView(w) /\ UNCHANGED links

\* The handlers of the room list and of the chat room.  The refresh button asks
\* for what HandleRoomLeaveRes asks for, and is left out.
Ask(w) == /\ Asks(w)
          /\ \/ /\ view[w] = "rooms"
                /\ \E r \in Rooms : SendSafe(w, Packet("C_ROOM_ENTER_REQ", None, r, 0))
                /\ UNCHANGED said
             \/ /\ view[w] = "chat"
                /\ SendSafe(w, Plain("C_ROOM_LEAVE_REQ"))
                /\ UNCHANGED said
             \/ /\ view[w] = "chat"
                /\ SendSafe(w, Packet("C_CHAT_REQ", None, 0, said[w] + 1))
                /\ said' = [said EXCEPT ![w] = @ + 1]
          /\ UNCHANGED <<server, chatLines, loop, overlap>>

-----------------------------------------------------------------------------
(* The receive loop and MainWindow::HandlePacket                           *)

\* The loop reads a packet and the dispatcher handles it.
Receives(w, id) == /\ w \in reading /\ link[w] \in {"up", "fin"}
                   /\ in[w] # <<>> /\ Head(in[w]).id = id
                   /\ in' = [in EXCEPT ![w] = Tail(@)]
                   /\ UNCHANGED <<server, loop, counts, overlap>>

\* Mutant: only a login that succeeds gives the button back.
HandleLoginResOK(w) ==
    /\ \/ /\ Receives(w, "LOGIN_OK") /\ Show(w, "rooms")
          /\ loginEnabled' = [loginEnabled EXCEPT ![w] = TRUE]
       \/ Receives(w, "LOGIN_FAIL") /\ UNCHANGED <<view, loginEnabled>>
    /\ UNCHANGED <<link, out, currentRoomId, chatLines>>

HandleLoginRes(w) == /\ \/ Receives(w, "LOGIN_OK") /\ Show(w, "rooms")
                        \/ Receives(w, "LOGIN_FAIL") /\ UNCHANGED view
                     /\ loginEnabled' = [loginEnabled EXCEPT ![w] = TRUE]
                     /\ UNCHANGED <<link, out, currentRoomId, chatLines>>

HandleRoomEnterRes(w) ==
    /\ Receives(w, "ENTER_OK")
    /\ currentRoomId' = [currentRoomId EXCEPT ![w] = Head(in[w]).room]
    /\ chatLines' = [chatLines EXCEPT ![w] = <<>>]
    /\ Show(w, "chat")
    /\ UNCHANGED <<link, out, loginEnabled>>

\* Mutant: the view changes, the room stays.
HandleRoomLeaveResKeeps(w) ==
    /\ Receives(w, "LEAVE_OK")
    /\ chatLines' = [chatLines EXCEPT ![w] = <<>>]
    /\ Show(w, "rooms")
    /\ UNCHANGED <<link, out, currentRoomId, loginEnabled>>

\* The window asks for the room list when it has left.
HandleRoomLeaveRes(w) ==
    /\ Receives(w, "LEAVE_OK")
    /\ currentRoomId' = [currentRoomId EXCEPT ![w] = 0]
    /\ chatLines' = [chatLines EXCEPT ![w] = <<>>]
    /\ Show(w, "rooms")
    /\ link' = [link EXCEPT ![w] = IF @ = "fin" THEN "reset" ELSE @]
    /\ out' = IF link[w] = "up" THEN [out EXCEPT ![w] = Append(@, Plain("C_ROOM_LIST_REQ"))]
              ELSE out
    /\ UNCHANGED loginEnabled

HandleChatLine(w) ==
    /\ Receives(w, "S_CHAT")
    /\ LET p == Head(in[w]) IN
       chatLines' = [chatLines EXCEPT ![w] =
                        Append(@, [from |-> p.from, room |-> p.room, n |-> p.n])]
    /\ UNCHANGED <<link, out, view, currentRoomId, loginEnabled>>

\* Packets that change only texts and user counts.
Ignore(w, ids) == /\ \E id \in ids : Receives(w, id)
                  /\ UNCHANGED <<link, out, window>>
RoomCounts(w) == Ignore(w, {"LIST"})
RoomUser(w) == Ignore(w, {"NOTICE"})
Failure(w) == Ignore(w, {"ENTER_FAIL", "LEAVE_FAIL", "S_ERROR"})

\* ReadExactAsync reads 0 bytes or fails; Disconnected is raised.
ReadFails(w) == /\ w \in reading
                /\ \/ link[w] = "fin" /\ in[w] = <<>> /\ UNCHANGED link
                   \/ /\ link[w] \in {"reset", "dead"}
                      /\ link' = [link EXCEPT ![w] = "dead"]
                /\ reading' = reading \ {w}
                /\ raising' = [raising EXCEPT ![w] = @ + 1]
                /\ UNCHANGED <<in, out, server, window, connecting, late, counts,
                               overlap>>

\* MainWindow::OnDisconnected.
OnDisconnected(w) == /\ raising[w] > 0
                     /\ raising' = [raising EXCEPT ![w] = @ - 1]
                     /\ ShowLoginView(w)
                     /\ chatLines' = [chatLines EXCEPT ![w] = <<>>]
                     /\ late' = IF w \in reading THEN late \cup {w} ELSE late
                     /\ UNCHANGED <<links, server, connecting, reading, counts,
                                    overlap>>

-----------------------------------------------------------------------------
(* ChatClient: the console                                                 *)

\* HandleCommand: enter (without a number: room 0), leave and say.  The answers
\* to rooms and to a second login stay in packetBuffer and change nothing.
Command(k) ==
    /\ Asks(k) /\ link[k] = "up"
    /\ \E p \in {Packet("C_ROOM_ENTER_REQ", None, r, 0) : r \in Rooms \cup {0}}
                 \cup {Plain("C_ROOM_LEAVE_REQ"), Packet("C_CHAT_REQ", None, 0, said[k] + 1)} :
          /\ out' = [out EXCEPT ![k] = Append(@, p)]
          /\ said' = IF p.id = "C_CHAT_REQ" THEN [said EXCEPT ![k] = @ + 1] ELSE said
    /\ UNCHANGED <<link, in, server, window, loop, overlap>>

\* Session::Disconnect of the console: its buffer is full, the server has
\* closed, or it ends (quit, ChatClient::End).
ConsoleDisconnects(k) == /\ Loses(k) /\ link[k] \in {"up", "fin"}
                         /\ link' = [link EXCEPT ![k] = "none"]
                         /\ UNCHANGED <<in, out, server, window, loop, asked, said, overlap>>

-----------------------------------------------------------------------------
Handle(c) == \/ HandleLogin(c) \/ HandleRoomList(c) \/ HandleEnterRoom(c)
             \/ HandleLeaveRoom(c) \/ HandleChat(c)
ServerStep(c) == \/ Handle(c) \/ Vacate(c) \/ Occupy(c) \/ Report(c)
                 \/ SendNext(c) \/ Gone(c)
Login(w) == LoginConnect(w) \/ LoginAgain(w)
Await(w) == LoginConnected(w) \/ LoginFails(w)
HandlePacket(w) == \/ HandleLoginRes(w) \/ HandleRoomEnterRes(w)
                   \/ HandleRoomLeaveRes(w) \/ HandleChatLine(w)
                   \/ RoomCounts(w) \/ RoomUser(w) \/ Failure(w)

Receive(w) == Await(w) \/ HandlePacket(w) \/ ReadFails(w) \/ OnDisconnected(w)
Program == \/ \E c \in Clients : ServerStep(c)
           \/ \E w \in Windows : Receive(w)
Next == \/ Program
        \/ \E c \in Clients : ServerDisconnects(c)
        \/ \E w \in Windows : NetworkReset(w) \/ Login(w) \/ Ask(w)
        \/ \E k \in Consoles : Command(k) \/ ConsoleDisconnects(k)

Spec == Init /\ [][Next]_vars

\* The server's workers run, awaited calls return, and the receive loop and the
\* dispatcher run, as long as one of them has something to do (which the bounds
\* make finite); nobody has to ask for anything or to lose a connection.
Fairness == WF_vars(Program)
FairSpec == Spec /\ Fairness

-----------------------------------------------------------------------------
\* The connection is up and nothing is on its way between window and server.
Quiet(w) == /\ link[w] = "up" /\ isConnected[w]
            /\ in[w] = <<>> /\ out[w] = <<>> /\ work[w] = <<>>

\* When nothing is on its way, the window shows what the server believes: the
\* login view before the login, the chat of the room that has the session, and
\* the room list in between; but for a window that a Disconnected event of an
\* older connection has put back to the login view.  (TypeOK gives the types.)
RoomAgrees == TypeOK /\ \A w \in Windows \ late : Quiet(w) =>
                 /\ currentRoomId[w] = room[w]
                 /\ view[w] = IF ~authenticated[w] THEN "login"
                              ELSE IF room[w] = 0 THEN "rooms" ELSE "chat"

\* Then the lines of the chat are of that room, but for those of a sender whose
\* broadcast had copied the window when it left a room.
OwnLines == \A w \in Windows \ late : Quiet(w) /\ view[w] = "chat" =>
               \A i \in 1 .. Len(chatLines[w]) :
                  chatLines[w][i].room = room[w] \/ chatLines[w][i].from \in overlap[w]

\* A window shows the messages of one sender in the order they were entered.
SenderOrder == \A w \in Windows : \A i, j \in 1 .. Len(chatLines[w]) :
                  i < j /\ chatLines[w][i].from = chatLines[w][j].from
                     => chatLines[w][i].n < chatLines[w][j].n

\* The login button comes back after every login, but for one on a connection
\* that the server has closed and whose receive loop is over.
Deaf(w) == link[w] \in {"fin", "reset"} /\ w \notin reading
LoginReturns == \A w \in Windows : []<>(loginEnabled[w] \/ Deaf(w))
=============================================================================
