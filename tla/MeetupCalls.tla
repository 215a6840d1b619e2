----------------------------- MODULE MeetupCalls -----------------------------
(***************************************************************************)
(* The HTTP handlers that change meetups without going through the join    *)
(* queue: createMeetup, deleteMeetup, deleteJoin and addChat of            *)
(* MeetupsService, exitChatRoom of ChatRepository and deleteAdminMeetup of *)
(* AdminService.  Node runs them on one thread, but every "await" lets any *)
(* other handler run: a call is a chain of database statements, and each   *)
(* statement is one step.  A call that is refused at its first statement   *)
(* changes nothing and is left out.                                        *)
(***************************************************************************)
EXTENDS MeetupStore

CONSTANTS Handlers,     \* the requests the process serves concurrently
          Idle          \* a handler that serves no request

\* "at" names the statement the handler is about to send to the database,
\* "alone" is findJoinArr.length === 1 as exitChatRoom read it.
Points == {"deleteMeetup:delete", "deleteJoin:getJoin", "deleteJoin:getMeetup",
           "deleteJoin:delete", "addChat:softDelete", "exitChatRoom:commit"}
Calls == [at : Points, meetup : Meetups, user : Users, alone : BOOLEAN]

ASSUME IdleAssumption == Idle \notin Calls

VARIABLE call           \* call[h]: what handler h is doing

CallsTypeOK == call \in [Handlers -> Calls \cup {Idle}]

CallsInit == call = [h \in Handlers |-> Idle]

-----------------------------------------------------------------------------
At(h, point) == call[h] # Idle /\ call[h].at = point
Goto(h, point) == call' = [call EXCEPT ![h].at = point]
Return(h) == call' = [call EXCEPT ![h] = Idle]

\* A free handler accepts user u's request about meetup m and will next
\* execute the statement at "point".
Accept(h, point, m, u, alone) ==
  /\ call[h] = Idle
  /\ call' = [call EXCEPT ![h] =
                [at |-> point, meetup |-> m, user |-> u, alone |-> alone]]

\* POST api/meetups.
CreateMeetup(m, u, n) == InsertMeetup(m, u, n) /\ UNCHANGED call

\* DELETE api/meetups/:id, the read that checks the host.
DeleteMeetup(h, m, u) ==
  /\ Readable(m) /\ host[m] = u
  /\ Accept(h, "deleteMeetup:delete", m, u, FALSE)
  /\ UNCHANGED store

DeleteMeetupDelete(h) ==
  /\ At(h, "deleteMeetup:delete")
  /\ DeleteMeetupRow(call[h].meetup)
  /\ Return(h)

\* DELETE api/meetups/:id/join, the first of its two getMeetup.
DeleteJoin(h, m, u) ==
  /\ Readable(m)
  /\ Accept(h, "deleteJoin:getJoin", m, u, FALSE)
  /\ UNCHANGED store

DeleteJoinGetJoin(h) ==
  /\ At(h, "deleteJoin:getJoin")
  /\ IF call[h].user \in joins[call[h].meetup]
       THEN Goto(h, "deleteJoin:getMeetup")
       ELSE Return(h)                               \* BadRequest
  /\ UNCHANGED store

DeleteJoinGetMeetup(h) ==
  /\ At(h, "deleteJoin:getMeetup")
  /\ IF Readable(call[h].meetup) /\ host[call[h].meetup] # call[h].user
       THEN Goto(h, "deleteJoin:delete")
       ELSE Return(h)                               \* NotFound, Forbidden
  /\ UNCHANGED store

DeleteJoinDelete(h) ==
  /\ At(h, "deleteJoin:delete")
  /\ DeleteJoinRow(call[h].meetup, call[h].user)
  /\ Return(h)

\* POST api/meetups/:id/chat: the host closes the recruitment, which turns
\* the meetup into the chat room of its participants.
AddChat(h, m, u) ==
  /\ Readable(m) /\ host[m] = u
  /\ Accept(h, "addChat:softDelete", m, u, FALSE)
  /\ UNCHANGED store

AddChatSoftDelete(h) ==
  /\ At(h, "addChat:softDelete")
  /\ SoftDeleteMeetup(call[h].meetup)
  /\ Return(h)

\* DELETE api/chats/:id, the read of all joins of the meetup, open or not.
ExitChatRoom(h, m, u) ==
  /\ u \in joins[m]
  /\ Accept(h, "exitChatRoom:commit", m, u, Cardinality(joins[m]) = 1)
  /\ UNCHANGED store

\* Its transaction: the join, and the meetup when the read saw nobody else.
ExitChatRoomCommit(h) ==
  /\ At(h, "exitChatRoom:commit")
  /\ IF call[h].alone
       THEN DeleteMeetupRow(call[h].meetup)
       ELSE DeleteJoinRow(call[h].meetup, call[h].user)
  /\ Return(h)

\* DELETE admin/meetups/:id: the row it looks up first is not used.
DeleteAdminMeetup(m) ==
  /\ HasRow(m)
  /\ DeleteMeetupRow(m)
  /\ UNCHANGED call

\* A statement fails: the call ends with an error and no effect of its own
\* (exitChatRoom rolls back, every other call writes in its last statement).
CallFails(h) ==
  /\ call[h] # Idle
  /\ Return(h)
  /\ UNCHANGED store

CallsNext ==
  \/ \E m \in Meetups, u \in Users, n \in Headcounts : CreateMeetup(m, u, n)
  \/ \E h \in Handlers, m \in Meetups, u \in Users :
       \/ DeleteMeetup(h, m, u)
       \/ DeleteJoin(h, m, u)
       \/ AddChat(h, m, u)
       \/ ExitChatRoom(h, m, u)
  \/ \E h \in Handlers :
       \/ DeleteMeetupDelete(h)
       \/ DeleteJoinGetJoin(h)
       \/ DeleteJoinGetMeetup(h)
       \/ DeleteJoinDelete(h)
       \/ AddChatSoftDelete(h)
       \/ ExitChatRoomCommit(h)
       \/ CallFails(h)
  \/ \E m \in Meetups : DeleteAdminMeetup(m)
=============================================================================
