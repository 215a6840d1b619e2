------------------------------ MODULE ChatGateway ------------------------------
(***************************************************************************)
(* The chat over socket.io: sockets join and leave rooms and send messages *)
(* to them.  Each handler changes the room at once, saves a chat row - a   *)
(* message, or the alert that a user came in or went out - and broadcasts  *)
(* it when the insert returns, at a time when other handlers have gone on. *)
(*                                                                         *)
(* A user has one socket and stands for it; a socket that disconnects does *)
(* not come back (socket.io gives another id).  Every event is handled     *)
(* once, and stands for the chat row it saves.                             *)
(***************************************************************************)
EXTENDS FiniteSets, Sequences, SequencesExt

CONSTANTS Sockets, Rooms,
          Unnamed,  \* the room whose name is empty
          Events,   \* bound: the events handled
          NoChat

VARIABLES connected,     \* the sockets of the namespace
          member,        \* the sockets in each room (the adapter's rooms)
          createdRooms,  \* the list the gateway keeps itself
          chat,          \* what each event is about
          step,          \* how far its handler is
          stored,        \* table chat, in order of insertion
          heard,         \* history: what each socket was sent
          overlap        \* history: pairs of events handled at the same time

chatVars == <<connected, member, createdRooms, chat, step, stored, heard, overlap>>

Chats == [op : {"join", "leave", "message"}, socket : Sockets, room : Rooms]

ChatTypeOK ==
  /\ connected \subseteq Sockets /\ createdRooms \subseteq Rooms
  /\ member \in [Rooms -> SUBSET connected]
  /\ chat \in [Events -> Chats \cup {NoChat}]
  /\ step \in [Events -> {"new", "saving", "saved", "done", "failed"}]
  /\ stored \in Seq(Events) /\ heard \in [Sockets -> Seq(Events)]
  /\ overlap \subseteq Events \X Events

ChatInit ==
  /\ connected = Sockets /\ createdRooms = {}
  /\ member = [r \in Rooms |-> {}]
  /\ chat = [e \in Events |-> NoChat] /\ step = [e \in Events |-> "new"]
  /\ stored = <<>> /\ heard = [s \in Sockets |-> <<>>] /\ overlap = {}

InFlight == {e \in Events : step[e] \in {"saving", "saved"}}

Handle(e, op, s, r) ==
  /\ s \in connected /\ step[e] = "new"
  /\ chat' = [chat EXCEPT ![e] = [op |-> op, socket |-> s, room |-> r]]
  /\ step' = [step EXCEPT ![e] = "saving"]
  /\ overlap' = overlap \cup ({e} \X InFlight) \cup (InFlight \X {e})
  /\ UNCHANGED <<connected, stored, heard>>

\* (mutant) The gateway does not listen to the adapter.
NotListening(left) == createdRooms

\* The adapter drops a room with its last socket and emits delete-room, which
\* the gateway takes off its list - but for the empty name, which it takes for
\* none.
afterInit(left) == createdRooms \ {r \in Rooms \ {Unnamed} : left[r] = {}}

-----------------------------------------------------------------------------
\* The list is a set here: the empty name is added by every join.
handleJoinRoom(e, s, r) ==
  /\ Handle(e, "join", s, r)
  /\ createdRooms' = createdRooms \cup {r}
  /\ member' = [member EXCEPT ![r] = @ \cup {s}]

\* (mutant) The others are told, and the socket stays.
handleLeaveRoomTold(e, s, r) ==
  Handle(e, "leave", s, r) /\ UNCHANGED <<member, createdRooms>>

handleLeaveRoom(e, s, r) ==
  /\ Handle(e, "leave", s, r)
  /\ member' = [member EXCEPT ![r] = @ \ {s}]
  /\ createdRooms' = afterInit(member')

\* The sender need not be in the room.
handleMessage(e, s, r) == Handle(e, "message", s, r) /\ UNCHANGED <<member, createdRooms>>

\* socket.io takes the socket out of its rooms; nobody is alerted.
handleDisconnect(s) ==
  /\ s \in connected /\ connected' = connected \ {s}
  /\ member' = [r \in Rooms |-> member[r] \ {s}]
  /\ createdRooms' = afterInit(member')
  /\ UNCHANGED <<chat, step, stored, heard, overlap>>

\* The insert is executed on some connection of the pool, or fails.
addChat(e) ==
  /\ step[e] = "saving"
  /\ \/ stored' = Append(stored, e) /\ step' = [step EXCEPT ![e] = "saved"]
     \/ UNCHANGED stored /\ step' = [step EXCEPT ![e] = "failed"]
  /\ UNCHANGED <<connected, member, createdRooms, chat, heard, overlap>>

\* A joining socket hears its own alert, the others are sent past their socket.
Hearers(e) == IF chat[e].op = "join" THEN member[chat[e].room]
              ELSE member[chat[e].room] \ {chat[e].socket}

\* (mutant) Broadcast some time after the handler has answered.
EmitLater(e) ==
  /\ \/ step[e] = "saved" /\ step' = [step EXCEPT ![e] = "done"] /\ UNCHANGED heard
     \/ /\ step[e] = "done" /\ step' = [step EXCEPT ![e] = "failed"]
        /\ heard' = [s \in Sockets |-> IF s \in Hearers(e) THEN Append(heard[s], e) ELSE heard[s]]
  /\ UNCHANGED <<connected, member, createdRooms, chat, stored, overlap>>

\* The insert has returned.
Emit(e) ==
  /\ step[e] = "saved" /\ step' = [step EXCEPT ![e] = "done"]
  /\ heard' = [s \in Sockets |-> IF s \in Hearers(e) THEN Append(heard[s], e) ELSE heard[s]]
  /\ UNCHANGED <<connected, member, createdRooms, chat, stored, overlap>>

\* The process dies: all sockets and the rooms with them; the rows stay.
Restart ==
  /\ connected' = {} /\ member' = [r \in Rooms |-> {}] /\ createdRooms' = {}
  /\ step' = [e \in Events |-> IF e \in InFlight THEN "failed" ELSE step[e]]
  /\ UNCHANGED <<chat, stored, heard, overlap>>

ChatNext ==
  \/ \E e \in Events : \/ addChat(e) \/ Emit(e)
                       \/ \E s \in Sockets, r \in Rooms :
                            handleJoinRoom(e, s, r) \/ handleLeaveRoom(e, s, r) \/ handleMessage(e, s, r)
  \/ \E s \in Sockets : handleDisconnect(s)
  \/ Restart

ChatSpec == ChatInit /\ [][ChatNext]_chatVars

-----------------------------------------------------------------------------
\* The gateway's list names the rooms that have a socket in them, whether those
\* were left, or lost their last socket by a disconnection - but for the room
\* whose name is empty, which stays on it.
CreatedRoomsAreOpen ==
  createdRooms \ {Unnamed} = {r \in Rooms \ {Unnamed} : member[r] # {}}

Precedes(sequence, d, e) ==
  \E i, j \in DOMAIN sequence : i < j /\ sequence[i] = d /\ sequence[j] = e

\* Chats are heard in the order in which the history shows them, unless their
\* handlers overlapped: a client that waits for each answer is never reordered.
HeardInOrder ==
  \A s \in Sockets, d, e \in Events :
    Precedes(heard[s], d, e) => Precedes(stored, d, e) \/ <<d, e>> \in overlap

\* e tells that s came into r, or went out.
IsAlert(e, s, r) == chat[e].op # "message" /\ chat[e].socket = s /\ chat[e].room = r

About(s, r) == {e \in Events : step[e] # "new" /\ IsAlert(e, s, r)}

\* What o heard last about s in r.
LastAlerts(o, s, r) ==
  {heard[o][i] : i \in {k \in DOMAIN heard[o] :
                          /\ IsAlert(heard[o][k], s, r)
                          /\ \A j \in DOMAIN heard[o] : j > k => ~IsAlert(heard[o][j], s, r)}}

\* o was in the room for all that was said about s, and nothing is left to say.
Settled(o, s, r) ==
  /\ o # s /\ s \in connected /\ o \in member[r]
  /\ \A e \in About(s, r) : step[e] = "done" /\ e \in ToSet(heard[o])

Tells(o, s, r) ==
  \A e \in LastAlerts(o, s, r) : (chat[e].op = "join") <=> s \in member[r]

\* The last alert about a user tells who is in the room, unless the handlers of
\* that user's coming and going overlapped.
AlertIsTrueOneByOne ==
  \A o, s \in Sockets, r \in Rooms :
    Settled(o, s, r) => Tells(o, s, r) \/ \E d, e \in About(s, r) : <<d, e>> \in overlap
=============================================================================
