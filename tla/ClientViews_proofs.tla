-------------------------- MODULE ClientViews_proofs --------------------------
(***************************************************************************)
(* Proofs about ChatGateway, for any number of sockets, rooms and events:  *)
(* the gateway's list of rooms is the rooms that are open, chats are heard *)
(* in the order of the history, and the last alert about a user is true -  *)
(* the latter two unless handlers overlapped.                              *)
(*                                                                         *)
(* The history variable overlap makes the exceptions exact, and the        *)
(* invariant shows why nothing else goes wrong: handlers in flight at the  *)
(* same time are in overlap (InFlightOverlap), so that of two others the   *)
(* one whose answer is out was stored before the other (AnsweredFirst),    *)
(* and of the comings and goings of one user at most one is under way,     *)
(* which is the latest (LatestIsTrue).                                     *)
(***************************************************************************)
EXTENDS MCClientViews, Listings_proofs, TLAPS

InFlightOverlap == \A d, e \in InFlight : d # e => <<d, e>> \in overlap

\* An event that was handled is about something.
HandledAreKnown == \A e \in Events : step[e] # "new" => chat[e] \in Chats

SavedAreStored == \A e \in Events : step[e] \in {"saved", "done"} => e \in ToSet(stored)

HeardAreDone == \A s \in Sockets : \A e \in ToSet(heard[s]) : step[e] = "done"

\* Of two handlers that did not overlap, the one that has broadcast its chat had
\* stored it before the other.
AnsweredFirst ==
  \A d, e \in Events : step[d] = "done" /\ step[e] = "saved" =>
    Precedes(stored, d, e) \/ <<d, e>> \in overlap

OneByOne(s, r) == \A d, e \in About(s, r) : <<d, e>> \notin overlap

HeardByAll(o, s, r) ==
  \A e \in About(s, r) : step[e] = "done" /\ e \in ToSet(heard[o])

\* When nothing about a user overlapped, what is still to be told about the user
\* is true already; and when nothing is, the last alert heard is.
LatestIsTrue ==
  \A s \in connected, r \in Rooms : OneByOne(s, r) =>
    /\ \A e \in About(s, r) \cap InFlight : (chat[e].op = "join") <=> s \in member[r]
    /\ \A o \in Sockets : HeardByAll(o, s, r) => Tells(o, s, r)

\* The conjuncts that say nothing about the rooms, and the invariant.
OrderInv == /\ InFlightOverlap /\ HandledAreKnown /\ SavedAreStored /\ HeardAreDone
            /\ AnsweredFirst /\ HeardInOrder

ChatInv == OrderInv /\ CreatedRoomsAreOpen /\ LatestIsTrue

-----------------------------------------------------------------------------
\* Sequences.

\* What is appended comes last, and the rest stays where it was.
LEMMA Appended ==
  ASSUME NEW q \in Seq(Events), NEW x \in Events
  PROVE  /\ Append(q, x) \in Seq(Events)
         /\ DOMAIN q = 1 .. Len(q) /\ Len(q) \in Nat
         /\ DOMAIN Append(q, x) = 1 .. Len(q) + 1
         /\ \A i \in 1 .. Len(q) : Append(q, x)[i] = q[i]
         /\ Append(q, x)[Len(q) + 1] = x
  OBVIOUS

LEMMA AppendedSet ==
  ASSUME NEW q \in Seq(Events), NEW x \in Events
  PROVE  ToSet(Append(q, x)) = ToSet(q) \cup {x}
  <1> DEFINE a == Append(q, x)
  <1>1. /\ DOMAIN q = 1 .. Len(q) /\ Len(q) \in Nat /\ DOMAIN a = 1 .. Len(q) + 1
        /\ \A i \in 1 .. Len(q) : a[i] = q[i]
        /\ a[Len(q) + 1] = x
    BY Appended
  <1> HIDE DEF a
  <1>2. ToSet(a) \subseteq ToSet(q) \cup {x}
    <2>1. \A i \in DOMAIN a : a[i] = x \/ (i \in DOMAIN q /\ a[i] = q[i])
      BY <1>1
    <2> QED
      BY <2>1 DEF ToSet
  <1>3. ToSet(q) \cup {x} \subseteq ToSet(a)
    <2>1. \A i \in DOMAIN q : i \in DOMAIN a /\ q[i] = a[i]
      BY <1>1
    <2>2. Len(q) + 1 \in DOMAIN a
      BY <1>1
    <2> QED
      BY <1>1, <2>1, <2>2 DEF ToSet
  <1> QED
    BY <1>2, <1>3 DEF a

\* The order of what is there already stays; what is appended comes after it.
LEMMA AppendedPrecedes ==
  ASSUME NEW q \in Seq(Events), NEW x \in Events, NEW d, NEW e
  PROVE  /\ Precedes(q, d, e) => Precedes(Append(q, x), d, e)
         /\ d \in ToSet(q) => Precedes(Append(q, x), d, x)
         /\ Precedes(Append(q, x), d, e) => Precedes(q, d, e) \/ (e = x /\ d \in ToSet(q))
  <1> DEFINE a == Append(q, x)
  <1>1. /\ DOMAIN q = 1 .. Len(q) /\ Len(q) \in Nat /\ DOMAIN a = 1 .. Len(q) + 1
        /\ \A i \in 1 .. Len(q) : a[i] = q[i]
        /\ a[Len(q) + 1] = x
    BY Appended
  <1> HIDE DEF a
  <1>2. Precedes(q, d, e) => Precedes(a, d, e)
    BY <1>1 DEF Precedes
  <1>3. ASSUME d \in ToSet(q)
        PROVE  Precedes(a, d, x)
    <2>1. PICK i \in DOMAIN q : q[i] = d
      BY <1>3 DEF ToSet
    <2> QED
      BY <1>1, <2>1 DEF Precedes
  <1>4. ASSUME Precedes(a, d, e)
        PROVE  Precedes(q, d, e) \/ (e = x /\ d \in ToSet(q))
    <2>1. PICK i, j \in DOMAIN a : i < j /\ a[i] = d /\ a[j] = e
      BY <1>4 DEF Precedes
    <2>2. i \in DOMAIN q /\ q[i] = d
      BY <1>1, <2>1
    <2>3. CASE j \in DOMAIN q
      BY <1>1, <2>1, <2>2, <2>3 DEF Precedes
    <2>4. CASE j = Len(q) + 1
      BY <1>1, <2>1, <2>2, <2>4 DEF ToSet
    <2> QED
      BY <1>1, <2>3, <2>4
  <1> QED
    BY <1>2, <1>3, <1>4 DEF a

-----------------------------------------------------------------------------
\* Types.

LEMMA ChatTypeInit == ChatInit => ChatTypeOK
  BY DEF ChatInit, ChatTypeOK

LEMMA HandleTyped ==
  ASSUME ChatTypeOK, NEW e \in Events, NEW op \in {"join", "leave", "message"},
         NEW s \in Sockets, NEW r \in Rooms, Handle(e, op, s, r)
  PROVE  /\ chat' \in [Events -> Chats \cup {NoChat}]
         /\ step' \in [Events -> {"new", "saving", "saved", "done", "failed"}]
         /\ overlap' \subseteq Events \X Events
         /\ UNCHANGED <<connected, stored, heard>>
  <1>1. [op |-> op, socket |-> s, room |-> r] \in Chats
    BY DEF Chats
  <1>2. InFlight \subseteq Events
    BY DEF InFlight
  <1> QED
    BY <1>1, <1>2 DEF Handle, ChatTypeOK

LEMMA HandlersTyped ==
  ASSUME ChatTypeOK, NEW e \in Events, NEW s \in Sockets, NEW r \in Rooms,
         handleJoinRoom(e, s, r) \/ handleLeaveRoom(e, s, r) \/ handleMessage(e, s, r)
  PROVE  ChatTypeOK'
  <1>1. \E op \in {"join", "leave", "message"} : Handle(e, op, s, r)
    BY DEF handleJoinRoom, handleLeaveRoom, handleMessage
  <1>2. s \in connected
    BY <1>1 DEF Handle
  <1>3. member' \in [Rooms -> SUBSET connected] /\ createdRooms' \subseteq Rooms
    BY <1>2 DEF handleJoinRoom, handleLeaveRoom, handleMessage, afterInit, ChatTypeOK
  <1> QED
    BY <1>1, <1>3, HandleTyped DEF ChatTypeOK

LEMMA ChatTypeNext == ChatTypeOK /\ [ChatNext]_chatVars => ChatTypeOK'
  <1> SUFFICES ASSUME ChatTypeOK, [ChatNext]_chatVars
               PROVE  ChatTypeOK'
    OBVIOUS
  <1>1. ASSUME NEW e \in Events, addChat(e)
        PROVE  ChatTypeOK'
    <2>1. Append(stored, e) \in Seq(Events)
      BY Appended DEF ChatTypeOK
    <2> QED
      BY <1>1, <2>1 DEF addChat, ChatTypeOK
  <1>2. ASSUME NEW e \in Events, Emit(e)
        PROVE  ChatTypeOK'
    <2>1. heard' \in [Sockets -> Seq(Events)]
      BY <1>2, Appended DEF Emit, ChatTypeOK
    <2> QED
      BY <1>2, <2>1 DEF Emit, ChatTypeOK
  <1>3. ASSUME NEW s \in Sockets, handleDisconnect(s)
        PROVE  ChatTypeOK'
    BY <1>3 DEF handleDisconnect, afterInit, ChatTypeOK
  <1>4. CASE Restart
    BY <1>4 DEF Restart, ChatTypeOK
  <1>5. CASE UNCHANGED chatVars
    BY <1>5 DEF chatVars, ChatTypeOK
  <1> QED
    BY <1>1, <1>2, <1>3, <1>4, <1>5, HandlersTyped DEF ChatNext

-----------------------------------------------------------------------------
\* What a handler does, whatever the event.

LEMMA HandleFacts ==
  ASSUME ChatTypeOK, NEW e \in Events, NEW op \in {"join", "leave", "message"},
         NEW s \in Sockets, NEW r \in Rooms, Handle(e, op, s, r)
  PROVE  /\ step[e] = "new" /\ step'[e] = "saving" /\ s \in connected
         /\ chat'[e] \in Chats
         /\ chat'[e].op = op /\ chat'[e].socket = s /\ chat'[e].room = r
         /\ \A d \in Events : d # e => step'[d] = step[d] /\ chat'[d] = chat[d]
         /\ InFlight' = InFlight \cup {e}
         /\ overlap \subseteq overlap'
         /\ \A d \in InFlight : <<d, e>> \in overlap' /\ <<e, d>> \in overlap'
         /\ UNCHANGED <<connected, stored, heard>>
  <1>1. [op |-> op, socket |-> s, room |-> r] \in Chats
    BY DEF Chats
  <1>2. /\ step[e] = "new" /\ step'[e] = "saving" /\ s \in connected
        /\ chat'[e] = [op |-> op, socket |-> s, room |-> r]
        /\ \A d \in Events : d # e => step'[d] = step[d] /\ chat'[d] = chat[d]
        /\ overlap' = overlap \cup ({e} \X InFlight) \cup (InFlight \X {e})
        /\ UNCHANGED <<connected, stored, heard>>
    BY DEF Handle, ChatTypeOK
  <1>3. InFlight' = InFlight \cup {e}
    BY <1>2 DEF InFlight
  <1> QED
    BY <1>1, <1>2, <1>3

LEMMA HandleKeepsOrder ==
  ASSUME ChatTypeOK, OrderInv, NEW e \in Events, NEW op \in {"join", "leave", "message"},
         NEW s \in Sockets, NEW r \in Rooms, Handle(e, op, s, r)
  PROVE  OrderInv'
  <1>1. /\ step[e] = "new" /\ step'[e] = "saving" /\ chat'[e] \in Chats
        /\ \A d \in Events : d # e => step'[d] = step[d] /\ chat'[d] = chat[d]
        /\ InFlight' = InFlight \cup {e}
        /\ overlap \subseteq overlap'
        /\ \A d \in InFlight : <<d, e>> \in overlap' /\ <<e, d>> \in overlap'
        /\ UNCHANGED <<connected, stored, heard>>
    BY HandleFacts
  <1>2. InFlightOverlap'
    BY <1>1 DEF OrderInv, InFlightOverlap
  <1>3. HandledAreKnown'
    BY <1>1 DEF OrderInv, HandledAreKnown
  <1>4. SavedAreStored'
    BY <1>1 DEF OrderInv, SavedAreStored
  <1>5. HeardAreDone'
    <2>1. \A o \in Sockets : ToSet(heard[o]) \subseteq Events
      BY DEF ChatTypeOK, ToSet
    <2> QED
      BY <1>1, <2>1 DEF OrderInv, HeardAreDone
  <1>6. AnsweredFirst'
    BY <1>1 DEF OrderInv, AnsweredFirst
  <1>7. HeardInOrder'
    BY <1>1 DEF OrderInv, HeardInOrder
  <1> QED
    BY <1>2, <1>3, <1>4, <1>5, <1>6, <1>7 DEF OrderInv

LEMMA AddChatKeepsOrder ==
  ASSUME ChatTypeOK, OrderInv, NEW e \in Events, addChat(e)
  PROVE  OrderInv'
  <1>1. /\ step[e] = "saving" /\ step'[e] \in {"saved", "failed"}
        /\ \A d \in Events : d # e => step'[d] = step[d]
        /\ UNCHANGED <<chat, heard, overlap>>
    BY DEF addChat, ChatTypeOK
  <1>2. step'[e] = "saved" => stored' = Append(stored, e)
    BY DEF addChat, ChatTypeOK
  <1>3. stored' \in {stored, Append(stored, e)}
    BY DEF addChat
  <1>4. stored \in Seq(Events)
    BY DEF ChatTypeOK
  <1>5. /\ ToSet(stored) \subseteq ToSet(stored')
        /\ \A d, f : Precedes(stored, d, f) => Precedes(stored', d, f)
    <2>1. /\ ToSet(stored) \subseteq ToSet(Append(stored, e))
          /\ \A d, f : Precedes(stored, d, f) => Precedes(Append(stored, e), d, f)
      BY <1>4, AppendedSet, AppendedPrecedes
    <2> QED
      BY <1>3, <2>1
  <1>6. step'[e] = "saved" => /\ e \in ToSet(stored')
                              /\ \A d \in ToSet(stored) : Precedes(stored', d, e)
    <2>1. /\ e \in ToSet(Append(stored, e))
          /\ \A d \in ToSet(stored) : Precedes(Append(stored, e), d, e)
      BY <1>4, AppendedSet, AppendedPrecedes
    <2> QED
      BY <1>2, <2>1
  <1>7. InFlightOverlap' /\ HandledAreKnown'
    BY <1>1 DEF OrderInv, InFlightOverlap, InFlight, HandledAreKnown
  <1>8. SavedAreStored'
    BY <1>1, <1>5, <1>6 DEF OrderInv, SavedAreStored
  <1>9. HeardAreDone'
    <2>1. \A o \in Sockets : ToSet(heard[o]) \subseteq Events
      BY DEF ChatTypeOK, ToSet
    <2> QED
      BY <1>1, <2>1 DEF OrderInv, HeardAreDone
  <1>10. AnsweredFirst'
    <2>1. ASSUME NEW d \in Events, NEW f \in Events, step'[d] = "done", step'[f] = "saved"
          PROVE  Precedes(stored', d, f) \/ <<d, f>> \in overlap'
      <3>1. d # e /\ step[d] = "done" /\ d \in ToSet(stored)
        BY <1>1, <2>1 DEF OrderInv, SavedAreStored
      <3>2. CASE f = e
        BY <1>6, <2>1, <3>1, <3>2
      <3>3. CASE f # e
        BY <1>1, <1>5, <2>1, <3>1, <3>3 DEF OrderInv, AnsweredFirst
      <3> QED
        BY <3>2, <3>3
    <2> QED
      BY <2>1 DEF AnsweredFirst
  <1>11. HeardInOrder'
    BY <1>1, <1>5 DEF OrderInv, HeardInOrder
  <1> QED
    BY <1>7, <1>8, <1>9, <1>10, <1>11 DEF OrderInv

\* Who hears of an event, and what.
LEMMA EmitFacts ==
  ASSUME ChatTypeOK, NEW e \in Events, Emit(e)
  PROVE  /\ step[e] = "saved" /\ step'[e] = "done"
         /\ \A d \in Events : d # e => step'[d] = step[d]
         /\ \A o \in Sockets : heard'[o] \in {heard[o], Append(heard[o], e)}
         /\ \A o \in Sockets : heard[o] \in Seq(Events) /\ ToSet(heard[o]) \subseteq Events
         /\ UNCHANGED <<connected, member, createdRooms, chat, stored, overlap>>
  BY DEF Emit, ChatTypeOK, ToSet

LEMMA EmitKeepsOrder ==
  ASSUME ChatTypeOK, OrderInv, NEW e \in Events, Emit(e)
  PROVE  OrderInv'
  <1>1. /\ step[e] = "saved" /\ step'[e] = "done"
        /\ \A d \in Events : d # e => step'[d] = step[d]
        /\ \A o \in Sockets : heard'[o] \in {heard[o], Append(heard[o], e)}
        /\ \A o \in Sockets : heard[o] \in Seq(Events) /\ ToSet(heard[o]) \subseteq Events
        /\ UNCHANGED <<connected, member, createdRooms, chat, stored, overlap>>
    BY EmitFacts
  <1>2. InFlightOverlap' /\ HandledAreKnown' /\ SavedAreStored'
    BY <1>1 DEF OrderInv, InFlightOverlap, InFlight, HandledAreKnown, SavedAreStored
  <1>3. HeardAreDone'
    <2>1. ASSUME NEW o \in Sockets, NEW d \in ToSet(heard'[o])
          PROVE  step'[d] = "done"
      <3>1. d \in ToSet(heard[o]) \cup {e}
        <4>1. ToSet(Append(heard[o], e)) = ToSet(heard[o]) \cup {e}
          BY <1>1, AppendedSet
        <4> QED
          BY <1>1, <2>1, <4>1
      <3> QED
        BY <1>1, <3>1 DEF OrderInv, HeardAreDone
    <2> QED
      BY <2>1 DEF HeardAreDone
  <1>4. AnsweredFirst'
    <2>1. ASSUME NEW d \in Events, NEW f \in Events, step'[d] = "done", step'[f] = "saved"
          PROVE  Precedes(stored, d, f) \/ <<d, f>> \in overlap
      <3>1. f # e /\ step[f] = "saved"
        BY <1>1, <2>1
      <3>2. CASE d = e
        BY <1>1, <3>1, <3>2 DEF OrderInv, InFlightOverlap, InFlight
      <3>3. CASE d # e
        BY <1>1, <2>1, <3>1, <3>3 DEF OrderInv, AnsweredFirst
      <3> QED
        BY <3>2, <3>3
    <2> QED
      BY <1>1, <2>1 DEF AnsweredFirst
  <1>5. HeardInOrder'
    <2>1. ASSUME NEW o \in Sockets, NEW d \in Events, NEW f \in Events,
                 Precedes(heard'[o], d, f)
          PROVE  Precedes(stored, d, f) \/ <<d, f>> \in overlap
      <3>1. Precedes(heard[o], d, f) \/ (f = e /\ d \in ToSet(heard[o]))
        <4>1. Precedes(Append(heard[o], e), d, f) =>
                Precedes(heard[o], d, f) \/ (f = e /\ d \in ToSet(heard[o]))
          BY <1>1, AppendedPrecedes
        <4> QED
          BY <1>1, <2>1, <4>1
      <3>2. CASE Precedes(heard[o], d, f)
        BY <3>2 DEF OrderInv, HeardInOrder
      <3>3. CASE f = e /\ d \in ToSet(heard[o])
        BY <1>1, <3>3 DEF OrderInv, HeardAreDone, AnsweredFirst
      <3> QED
        BY <3>1, <3>2, <3>3
    <2> QED
      BY <1>1, <2>1 DEF HeardInOrder
  <1> QED
    BY <1>2, <1>3, <1>4, <1>5 DEF OrderInv

LEMMA RestartKeepsOrder ==
  ASSUME ChatTypeOK, OrderInv, Restart
  PROVE  OrderInv'
  <1>1. /\ \A e \in Events : step'[e] = IF e \in InFlight THEN "failed" ELSE step[e]
        /\ UNCHANGED <<chat, stored, heard, overlap>>
    BY DEF Restart
  <1>2. \A e \in Events : /\ step'[e] \notin {"saving", "saved"}
                          /\ step'[e] = "done" <=> step[e] = "done"
                          /\ step'[e] = "new" <=> step[e] = "new"
    BY <1>1 DEF InFlight
  <1>3. \A o \in Sockets : ToSet(heard[o]) \subseteq Events
    BY DEF ChatTypeOK, ToSet
  <1> QED
    BY <1>1, <1>2, <1>3
    DEF OrderInv, InFlightOverlap, InFlight, HandledAreKnown, SavedAreStored, HeardAreDone,
        AnsweredFirst, HeardInOrder

-----------------------------------------------------------------------------
\* The rooms.

\* When sockets only leave, the adapter tells the gateway which rooms they closed.
LEMMA LeavingClosesRooms ==
  ASSUME ChatTypeOK, CreatedRoomsAreOpen,
         \A r \in Rooms : member'[r] \subseteq member[r],
         createdRooms' = afterInit(member')
  PROVE  CreatedRoomsAreOpen'
  BY DEF CreatedRoomsAreOpen, afterInit

LEMMA HandlersKeepRooms ==
  ASSUME ChatTypeOK, CreatedRoomsAreOpen, NEW e \in Events, NEW s \in Sockets, NEW r \in Rooms,
         handleJoinRoom(e, s, r) \/ handleLeaveRoom(e, s, r) \/ handleMessage(e, s, r)
  PROVE  CreatedRoomsAreOpen'
  <1>1. CASE handleJoinRoom(e, s, r)
    <2>1. /\ member'[r] # {}
          /\ \A q \in Rooms : q # r => member'[q] = member[q]
      BY <1>1 DEF handleJoinRoom, ChatTypeOK
    <2> QED
      BY <1>1, <2>1 DEF handleJoinRoom, CreatedRoomsAreOpen
  <1>2. CASE handleLeaveRoom(e, s, r)
    <2>1. \A q \in Rooms : member'[q] \subseteq member[q]
      BY <1>2 DEF handleLeaveRoom, ChatTypeOK
    <2> QED
      BY <1>2, <2>1, LeavingClosesRooms DEF handleLeaveRoom
  <1>3. CASE handleMessage(e, s, r)
    BY <1>3 DEF handleMessage, CreatedRoomsAreOpen
  <1> QED
    BY <1>1, <1>2, <1>3

-----------------------------------------------------------------------------
\* The last alert.

LEMMA QuietAlerts ==
  ASSUME NEW o \in Sockets, NEW s, NEW r, heard'[o] = heard[o],
         \A d \in ToSet(heard[o]) : chat'[d] = chat[d]
  PROVE  LastAlerts(o, s, r)' = LastAlerts(o, s, r)
  <1>1. \A i \in DOMAIN heard[o] : heard[o][i] \in ToSet(heard[o])
    BY DEF ToSet
  <1>2. \A i \in DOMAIN heard[o] : IsAlert(heard[o][i], s, r)' <=> IsAlert(heard[o][i], s, r)
    BY <1>1 DEF IsAlert
  <1> QED
    BY <1>2 DEF LastAlerts

\* Nothing is said about s in r, and s stays where it is.
LEMMA QuietKeepsLatest ==
  ASSUME NEW s \in Sockets, NEW r \in Rooms,
         LatestIsTrue, s \in connected,
         About(s, r)' = About(s, r), overlap \subseteq overlap',
         About(s, r) \cap InFlight' \subseteq InFlight,
         \A d \in About(s, r) : /\ step'[d] = "done" => step[d] = "done"
                                /\ chat'[d] = chat[d],
         s \in member'[r] <=> s \in member[r],
         \A o \in Sockets : /\ ToSet(heard'[o]) \cap About(s, r) \subseteq ToSet(heard[o])
                            /\ LastAlerts(o, s, r)' \subseteq LastAlerts(o, s, r) \cap About(s, r),
         OneByOne(s, r)'
  PROVE  /\ \A e \in About(s, r)' \cap InFlight' : (chat'[e].op = "join") <=> s \in member'[r]
         /\ \A o \in Sockets : HeardByAll(o, s, r)' => Tells(o, s, r)'
  <1>1. OneByOne(s, r)
    BY DEF OneByOne
  <1>2. /\ \A e \in About(s, r) \cap InFlight : (chat[e].op = "join") <=> s \in member[r]
        /\ \A o \in Sockets : HeardByAll(o, s, r) => Tells(o, s, r)
    BY <1>1 DEF LatestIsTrue
  <1>3. \A e \in About(s, r)' \cap InFlight' : (chat'[e].op = "join") <=> s \in member'[r]
    BY <1>2
  <1>4. ASSUME NEW o \in Sockets, HeardByAll(o, s, r)'
        PROVE  Tells(o, s, r)'
    <2>1. HeardByAll(o, s, r)
      BY <1>4 DEF HeardByAll
    <2>2. Tells(o, s, r)
      BY <1>2, <2>1
    <2> QED
      BY <2>2 DEF Tells
  <1> QED
    BY <1>3, <1>4

\* What was heard about somebody is about an event that was handled.
LEMMA LastAlertsAreAbout ==
  ASSUME ChatTypeOK, OrderInv, NEW o \in Sockets, NEW s, NEW r
  PROVE  LastAlerts(o, s, r) \subseteq About(s, r)
  <1>1. ToSet(heard[o]) \subseteq Events
    BY DEF ChatTypeOK, ToSet
  <1>2. \A d \in ToSet(heard[o]) : step[d] # "new"
    BY DEF OrderInv, HeardAreDone
  <1>3. \A i \in DOMAIN heard[o] : heard[o][i] \in ToSet(heard[o])
    BY DEF ToSet
  <1> QED
    BY <1>1, <1>2, <1>3 DEF LastAlerts, About

LEMMA HandleKeepsLatest ==
  ASSUME ChatTypeOK, OrderInv, LatestIsTrue,
         NEW e \in Events, NEW op \in {"join", "leave", "message"},
         NEW s \in Sockets, NEW r \in Rooms, Handle(e, op, s, r),
         \A q \in Sockets, m \in Rooms :
           op = "message" \/ q # s \/ m # r => (q \in member'[m] <=> q \in member[m]),
         op = "join" => s \in member'[r],
         op = "leave" => s \notin member'[r]
  PROVE  LatestIsTrue'
  <1>1. /\ step[e] = "new" /\ step'[e] = "saving"
        /\ chat'[e].op = op /\ chat'[e].socket = s /\ chat'[e].room = r
        /\ \A d \in Events : d # e => step'[d] = step[d] /\ chat'[d] = chat[d]
        /\ InFlight' = InFlight \cup {e}
        /\ overlap \subseteq overlap'
        /\ \A d \in InFlight : <<d, e>> \in overlap' /\ <<e, d>> \in overlap'
        /\ UNCHANGED <<connected, stored, heard>>
    BY HandleFacts
  <1>2. SUFFICES ASSUME NEW q \in connected', NEW m \in Rooms, OneByOne(q, m)'
                 PROVE  /\ \A d \in About(q, m)' \cap InFlight' :
                             (chat'[d].op = "join") <=> q \in member'[m]
                        /\ \A o \in Sockets : HeardByAll(o, q, m)' => Tells(o, q, m)'
    BY DEF LatestIsTrue
  <1>3. q \in connected /\ q \in Sockets
    BY <1>1 DEF ChatTypeOK
  <1>4. CASE op # "message" /\ q = s /\ m = r
    <2>1. About(q, m)' = About(q, m) \cup {e}
      BY <1>1, <1>4 DEF About, IsAlert
    <2>2. About(q, m) \cap InFlight = {}
      BY <1>1, <1>2, <2>1 DEF OneByOne
    <2>3. e \notin About(q, m)
      BY <1>1 DEF About
    <2>4. \A o \in Sockets : ~HeardByAll(o, q, m)'
      BY <1>1, <2>1 DEF HeardByAll
    <2> QED
      BY <1>1, <1>4, <2>1, <2>2, <2>4
  <1>5. CASE ~(op # "message" /\ q = s /\ m = r)
    <2>1. About(q, m)' = About(q, m) /\ e \notin About(q, m)
      BY <1>1, <1>5 DEF About, IsAlert
    <2>2. \A o \in Sockets : \A d \in ToSet(heard[o]) : d # e /\ d \in Events
      BY <1>1 DEF OrderInv, HeardAreDone, ChatTypeOK, ToSet
    <2>3. \A o \in Sockets : LastAlerts(o, q, m)' = LastAlerts(o, q, m)
      BY <1>1, <2>2, QuietAlerts
    <2>4. \A o \in Sockets : LastAlerts(o, q, m) \subseteq About(q, m)
      BY LastAlertsAreAbout
    <2>5. \A d \in About(q, m) : d \in Events
      BY DEF About
    <2>6. q \in member'[m] <=> q \in member[m]
      BY <1>3, <1>5
    <2> QED
      BY <1>1, <1>2, <1>3, <2>1, <2>3, <2>4, <2>5, <2>6, QuietKeepsLatest
  <1> QED
    BY <1>4, <1>5

LEMMA HandlersKeepLatest ==
  ASSUME ChatTypeOK, OrderInv, LatestIsTrue, NEW e \in Events, NEW s \in Sockets, NEW r \in Rooms,
         handleJoinRoom(e, s, r) \/ handleLeaveRoom(e, s, r) \/ handleMessage(e, s, r)
  PROVE  LatestIsTrue'
  <1>1. CASE handleJoinRoom(e, s, r)
    <2>1. /\ member'[r] = member[r] \cup {s}
          /\ \A m \in Rooms : m # r => member'[m] = member[m]
      BY <1>1 DEF handleJoinRoom, ChatTypeOK
    <2>2. Handle(e, "join", s, r)
      BY <1>1 DEF handleJoinRoom
    <2> QED
      BY <2>1, <2>2, HandleKeepsLatest
  <1>2. CASE handleLeaveRoom(e, s, r)
    <2>1. /\ member'[r] = member[r] \ {s}
          /\ \A m \in Rooms : m # r => member'[m] = member[m]
      BY <1>2 DEF handleLeaveRoom, ChatTypeOK
    <2>2. Handle(e, "leave", s, r)
      BY <1>2 DEF handleLeaveRoom
    <2> QED
      BY <2>1, <2>2, HandleKeepsLatest
  <1>3. CASE handleMessage(e, s, r)
    <2>1. Handle(e, "message", s, r) /\ UNCHANGED member
      BY <1>3 DEF handleMessage
    <2> QED
      BY <2>1, HandleKeepsLatest
  <1> QED
    BY <1>1, <1>2, <1>3

LEMMA AddChatKeepsLatest ==
  ASSUME ChatTypeOK, OrderInv, LatestIsTrue, NEW e \in Events, addChat(e)
  PROVE  LatestIsTrue'
  <1>1. /\ step[e] = "saving" /\ step'[e] \in {"saved", "failed"}
        /\ \A d \in Events : d # e => step'[d] = step[d]
        /\ UNCHANGED <<connected, member, chat, heard, overlap>>
    BY DEF addChat, ChatTypeOK
  <1>2. SUFFICES ASSUME NEW q \in connected', NEW m \in Rooms, OneByOne(q, m)'
                 PROVE  /\ \A d \in About(q, m)' \cap InFlight' :
                             (chat'[d].op = "join") <=> q \in member'[m]
                        /\ \A o \in Sockets : HeardByAll(o, q, m)' => Tells(o, q, m)'
    BY DEF LatestIsTrue
  <1>3. q \in connected /\ q \in Sockets
    BY <1>1 DEF ChatTypeOK
  <1>4. About(q, m)' = About(q, m)
    BY <1>1 DEF About, IsAlert
  <1>5. InFlight' \subseteq InFlight
    BY <1>1 DEF InFlight
  <1>6. \A o \in Sockets : /\ LastAlerts(o, q, m)' = LastAlerts(o, q, m)
                           /\ LastAlerts(o, q, m) \subseteq About(q, m)
    BY <1>1, QuietAlerts, LastAlertsAreAbout
  <1>7. \A d \in About(q, m) : /\ step'[d] = "done" => step[d] = "done"
                               /\ chat'[d] = chat[d]
    BY <1>1 DEF About
  <1> QED
    BY <1>1, <1>2, <1>3, <1>4, <1>5, <1>6, <1>7, QuietKeepsLatest

LEMMA EmitKeepsLatest ==
  ASSUME ChatTypeOK, OrderInv, LatestIsTrue, NEW e \in Events, Emit(e)
  PROVE  LatestIsTrue'
  <1>1. /\ step[e] = "saved" /\ step'[e] = "done"
        /\ \A d \in Events : d # e => step'[d] = step[d]
        /\ \A o \in Sockets : heard'[o] \in {heard[o], Append(heard[o], e)}
        /\ \A o \in Sockets : heard[o] \in Seq(Events) /\ ToSet(heard[o]) \subseteq Events
        /\ UNCHANGED <<connected, member, createdRooms, chat, stored, overlap>>
    BY EmitFacts
  <1>2. SUFFICES ASSUME NEW q \in connected', NEW m \in Rooms, OneByOne(q, m)'
                 PROVE  /\ \A d \in About(q, m)' \cap InFlight' :
                             (chat'[d].op = "join") <=> q \in member'[m]
                        /\ \A o \in Sockets : HeardByAll(o, q, m)' => Tells(o, q, m)'
    BY DEF LatestIsTrue
  <1>3. q \in connected /\ q \in Sockets
    BY <1>1 DEF ChatTypeOK
  <1>4. About(q, m)' = About(q, m)
    BY <1>1 DEF About, IsAlert
  <1>5. InFlight' = InFlight \ {e}
    BY <1>1 DEF InFlight
  <1>6. \A o \in Sockets : e \notin ToSet(heard[o])
    BY <1>1 DEF OrderInv, HeardAreDone
  <1>7. ASSUME NEW o \in Sockets, heard'[o] = Append(heard[o], e)
        PROVE  /\ ToSet(heard'[o]) = ToSet(heard[o]) \cup {e}
               /\ e \in About(q, m) => LastAlerts(o, q, m)' = {e}
               /\ e \notin About(q, m) => LastAlerts(o, q, m)' = LastAlerts(o, q, m)
    <2> DEFINE a == Append(heard[o], e)
               n == Len(heard[o])
    <2>1. /\ DOMAIN heard[o] = 1 .. n /\ n \in Nat /\ DOMAIN a = 1 .. n + 1
          /\ \A i \in 1 .. n : a[i] = heard[o][i]
          /\ a[n + 1] = e
      BY <1>1, Appended
    <2>2. ToSet(a) = ToSet(heard[o]) \cup {e}
      BY <1>1, AppendedSet
    <2>3. IsAlert(e, q, m) <=> e \in About(q, m)
      BY <1>1 DEF About
    <2>4. LastAlerts(o, q, m)' =
            {a[i] : i \in {k \in DOMAIN a : /\ IsAlert(a[k], q, m)
                                            /\ \A j \in DOMAIN a : j > k => ~IsAlert(a[j], q, m)}}
      BY <1>1, <1>7 DEF LastAlerts, IsAlert
    <2> HIDE DEF a, n
    <2>5. ASSUME e \in About(q, m)
          PROVE  LastAlerts(o, q, m)' = {e}
      <3>1. {k \in DOMAIN a : /\ IsAlert(a[k], q, m)
                              /\ \A j \in DOMAIN a : j > k => ~IsAlert(a[j], q, m)} = {n + 1}
        BY <2>1, <2>3, <2>5
      <3> QED
        BY <2>1, <2>4, <3>1
    <2>6. ASSUME e \notin About(q, m)
          PROVE  LastAlerts(o, q, m)' = LastAlerts(o, q, m)
      <3>1. {k \in DOMAIN a : /\ IsAlert(a[k], q, m)
                              /\ \A j \in DOMAIN a : j > k => ~IsAlert(a[j], q, m)}
            = {k \in DOMAIN heard[o] :
                 /\ IsAlert(heard[o][k], q, m)
                 /\ \A j \in DOMAIN heard[o] : j > k => ~IsAlert(heard[o][j], q, m)}
        BY <2>1, <2>3, <2>6
      <3>2. \A k \in DOMAIN heard[o] : a[k] = heard[o][k]
        BY <2>1
      <3> QED
        BY <2>4, <3>1, <3>2 DEF LastAlerts
    <2> QED
      BY <1>7, <2>2, <2>5, <2>6 DEF a
  <1>8. ASSUME NEW o \in Sockets, heard'[o] = heard[o]
        PROVE  LastAlerts(o, q, m)' = LastAlerts(o, q, m)
    BY <1>1, <1>8, QuietAlerts
  <1>9. \A o \in Sockets : LastAlerts(o, q, m) \subseteq About(q, m)
    BY LastAlertsAreAbout
  <1>10. CASE e \in About(q, m)
    <2>1. OneByOne(q, m)
      BY <1>1, <1>2, <1>4 DEF OneByOne
    <2>2. About(q, m) \cap InFlight = {e}
      <3>1. e \in InFlight
        BY <1>1 DEF InFlight
      <3>2. \A d \in About(q, m) \cap InFlight : d = e
        BY <1>10, <2>1, <3>1 DEF OrderInv, InFlightOverlap, OneByOne
      <3> QED
        BY <1>10, <3>1, <3>2
    <2>3. (chat[e].op = "join") <=> q \in member[m]
      BY <1>3, <2>1, <2>2 DEF LatestIsTrue
    <2>4. ASSUME NEW o \in Sockets, HeardByAll(o, q, m)'
          PROVE  Tells(o, q, m)'
      <3>1. e \in ToSet(heard'[o])
        BY <1>4, <1>10, <2>4 DEF HeardByAll
      <3>2. heard'[o] = Append(heard[o], e)
        BY <1>1, <1>6, <3>1
      <3>3. LastAlerts(o, q, m)' = {e}
        BY <1>7, <1>10, <3>2
      <3> QED
        BY <1>1, <2>3, <3>3 DEF Tells
    <2> QED
      BY <1>4, <1>5, <2>2, <2>4
  <1>11. CASE e \notin About(q, m)
    <2>1. \A o \in Sockets : /\ ToSet(heard'[o]) \cap About(q, m) \subseteq ToSet(heard[o])
                             /\ LastAlerts(o, q, m)' \subseteq LastAlerts(o, q, m) \cap About(q, m)
      BY <1>1, <1>7, <1>8, <1>9, <1>11
    <2>2. \A d \in About(q, m) : d \in Events /\ d # e
      BY <1>11 DEF About
    <2> QED
      BY <1>1, <1>2, <1>3, <1>4, <1>5, <2>1, <2>2, QuietKeepsLatest
  <1> QED
    BY <1>10, <1>11

LEMMA DisconnectKeepsLatest ==
  ASSUME ChatTypeOK, OrderInv, LatestIsTrue, NEW s \in Sockets, handleDisconnect(s)
  PROVE  LatestIsTrue'
  <1>1. /\ connected' = connected \ {s}
        /\ \A m \in Rooms : member'[m] = member[m] \ {s}
        /\ UNCHANGED <<chat, step, stored, heard, overlap>>
    BY DEF handleDisconnect
  <1>2. SUFFICES ASSUME NEW q \in connected', NEW m \in Rooms, OneByOne(q, m)'
                 PROVE  /\ \A d \in About(q, m)' \cap InFlight' :
                             (chat'[d].op = "join") <=> q \in member'[m]
                        /\ \A o \in Sockets : HeardByAll(o, q, m)' => Tells(o, q, m)'
    BY DEF LatestIsTrue
  <1>3. q \in connected /\ q \in Sockets /\ q # s
    BY <1>1 DEF ChatTypeOK
  <1>4. About(q, m)' = About(q, m) /\ InFlight' = InFlight
    BY <1>1 DEF About, IsAlert, InFlight
  <1>5. \A o \in Sockets : /\ LastAlerts(o, q, m)' = LastAlerts(o, q, m)
                           /\ LastAlerts(o, q, m) \subseteq About(q, m)
    BY <1>1, QuietAlerts, LastAlertsAreAbout
  <1>6. q \in member'[m] <=> q \in member[m]
    BY <1>1, <1>3
  <1> QED
    BY <1>1, <1>2, <1>3, <1>4, <1>5, <1>6, QuietKeepsLatest

-----------------------------------------------------------------------------
\* The theorems.

LEMMA ChatInvInit == ChatInit => ChatInv
  <1> SUFFICES ASSUME ChatInit
               PROVE  ChatInv
    OBVIOUS
  <1>1. /\ \A e \in Events : step[e] = "new"
        /\ \A s \in Sockets : heard[s] = <<>>
        /\ \A r \in Rooms : member[r] = {}
        /\ createdRooms = {}
    BY DEF ChatInit
  <1>2. InFlight = {} /\ \A s \in Sockets, r \in Rooms : About(s, r) = {}
    BY <1>1 DEF InFlight, About
  <1>3. \A s \in Sockets : ToSet(heard[s]) = {}
    BY <1>1 DEF ToSet
  <1>4. OrderInv
    BY <1>1, <1>2, <1>3
    DEF OrderInv, InFlightOverlap, HandledAreKnown, SavedAreStored, HeardAreDone,
        AnsweredFirst, HeardInOrder, Precedes
  <1>5. \A o, s \in Sockets, r \in Rooms : Tells(o, s, r)
    BY <1>1 DEF Tells, LastAlerts
  <1>6. LatestIsTrue
    BY <1>2, <1>5 DEF LatestIsTrue, ChatInit
  <1> QED
    BY <1>1, <1>4, <1>6 DEF ChatInv, CreatedRoomsAreOpen

LEMMA ChatInvNext == ChatTypeOK /\ ChatInv /\ [ChatNext]_chatVars => ChatInv'
  <1> SUFFICES ASSUME ChatTypeOK, ChatInv, [ChatNext]_chatVars
               PROVE  ChatInv'
    OBVIOUS
  <1> USE DEF ChatInv
  <1>1. ASSUME NEW e \in Events, NEW s \in Sockets, NEW r \in Rooms,
               handleJoinRoom(e, s, r) \/ handleLeaveRoom(e, s, r) \/ handleMessage(e, s, r)
        PROVE  ChatInv'
    <2>1. \E op \in {"join", "leave", "message"} : Handle(e, op, s, r)
      BY <1>1 DEF handleJoinRoom, handleLeaveRoom, handleMessage
    <2> QED
      BY <1>1, <2>1, HandleKeepsOrder, HandlersKeepRooms, HandlersKeepLatest
  <1>2. ASSUME NEW e \in Events, addChat(e)
        PROVE  ChatInv'
    <2>1. CreatedRoomsAreOpen'
      BY <1>2 DEF addChat, CreatedRoomsAreOpen
    <2> QED
      BY <1>2, <2>1, AddChatKeepsOrder, AddChatKeepsLatest
  <1>3. ASSUME NEW e \in Events, Emit(e)
        PROVE  ChatInv'
    <2>1. CreatedRoomsAreOpen'
      BY <1>3 DEF Emit, CreatedRoomsAreOpen
    <2> QED
      BY <1>3, <2>1, EmitKeepsOrder, EmitKeepsLatest
  <1>4. ASSUME NEW s \in Sockets, handleDisconnect(s)
        PROVE  ChatInv'
    <2>1. CreatedRoomsAreOpen'
      <3>1. \A r \in Rooms : member'[r] \subseteq member[r]
        BY <1>4 DEF handleDisconnect
      <3> QED
        BY <1>4, <3>1, LeavingClosesRooms DEF handleDisconnect
    <2>2. OrderInv'
      BY <1>4
      DEF handleDisconnect, OrderInv, InFlightOverlap, InFlight, HandledAreKnown,
          SavedAreStored, HeardAreDone, AnsweredFirst, HeardInOrder
    <2> QED
      BY <1>4, <2>1, <2>2, DisconnectKeepsLatest
  <1>5. CASE Restart
    <2>1. CreatedRoomsAreOpen' /\ LatestIsTrue'
      BY <1>5 DEF Restart, CreatedRoomsAreOpen, LatestIsTrue
    <2> QED
      BY <1>5, <2>1, RestartKeepsOrder
  <1>6. CASE UNCHANGED chatVars
    <2>1. OrderInv' /\ CreatedRoomsAreOpen'
      BY <1>6
      DEF chatVars, OrderInv, InFlightOverlap, InFlight, HandledAreKnown,
          SavedAreStored, HeardAreDone, AnsweredFirst, HeardInOrder, CreatedRoomsAreOpen
    <2>2. LatestIsTrue'
      BY <1>6
      DEF chatVars, LatestIsTrue, OneByOne, About, IsAlert, InFlight, HeardByAll, Tells, LastAlerts
    <2> QED
      BY <2>1, <2>2
  <1> QED
    BY <1>1, <1>2, <1>3, <1>4, <1>5, <1>6 DEF ChatNext

\* The inductive invariant, with the types.
THEOREM ChatInvariant == ChatSpec => [](ChatTypeOK /\ ChatInv)
  BY ChatTypeInit, ChatTypeNext, ChatInvInit, ChatInvNext, PTL DEF ChatSpec

\* The list of rooms the gateway keeps itself names exactly the rooms that have a
\* socket in them, however their sockets went (chats.gateway.ts, afterInit).
THEOREM CreatedRoomsAreOpenHolds == ChatSpec => []CreatedRoomsAreOpen
  <1>1. ChatInv => CreatedRoomsAreOpen
    BY DEF ChatInv
  <1> QED
    BY <1>1, ChatInvariant, PTL

\* Nobody hears two chats in another order than the history shows them, unless
\* their handlers overlapped, which saves each before it broadcasts it.
THEOREM HeardInOrderHolds == ChatSpec => []HeardInOrder
  <1>1. ChatInv => HeardInOrder
    BY DEF ChatInv, OrderInv
  <1> QED
    BY <1>1, ChatInvariant, PTL

\* Whoever was in a room for all that was said there about a user who is still
\* connected knows whether the user is in the room, unless the handlers of the
\* user's coming and going overlapped.
THEOREM AlertIsTrueOneByOneHolds == ChatSpec => []AlertIsTrueOneByOne
  <1>1. ChatTypeOK /\ ChatInv => AlertIsTrueOneByOne
    <2> SUFFICES ASSUME ChatTypeOK, ChatInv, NEW o \in Sockets, NEW s \in Sockets, NEW r \in Rooms,
                        Settled(o, s, r), OneByOne(s, r)
                 PROVE  Tells(o, s, r)
      BY DEF AlertIsTrueOneByOne, OneByOne
    <2>1. s \in connected /\ HeardByAll(o, s, r)
      BY DEF Settled, HeardByAll
    <2> QED
      BY <2>1 DEF ChatInv, LatestIsTrue
  <1> QED
    BY <1>1, ChatInvariant, PTL

\* Types of both components.
THEOREM ClientViewsTypesCorrect == MCSpec => []TypesOK
  <1> DEFINE All == ListingInv /\ ChatTypeOK
  <1>1. MCInit => All
    BY ListingInvInit, ChatTypeInit DEF MCInit
  <1>2. All /\ [MCNext]_<<part, listingVars, chatVars>> => All'
    <2>1. [MCNext]_<<part, listingVars, chatVars>> =>
            [ListingNext]_listingVars /\ [ChatNext]_chatVars
      BY DEF MCNext
    <2> QED
      BY <2>1, ListingInvNext, ChatTypeNext
  <1>3. All => TypesOK
    BY DEF ListingInv, TypesOK
  <1> QED
    BY <1>1, <1>2, <1>3, PTL DEF MCSpec
===============================================================================
