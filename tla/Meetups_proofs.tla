---------------------------- MODULE Meetups_proofs ----------------------------
(***************************************************************************)
(* Theorems about Meetups, for any number of users, meetups, requests,     *)
(* handlers and crashes.                                                   *)
(***************************************************************************)
EXTENDS Meetups, FiniteSetTheorems, TLAPS

\* The jobs Redis knows.
Queued == {queue[i] : i \in 1 .. Len(queue)}

\* A job has been sent, so that its ticket does not change any more; the
\* consumer's job is among those handed out.
JobsAreSent ==
  /\ \A r \in active \cup Queued : phase[r] # "new" /\ ticket[r] \in Tickets
  /\ pc # "idle" => job \in active

\* The join rows of a meetup are finite in number and belong to a row.
RowsAreSound ==
  \A m \in Meetups :
    /\ IsFiniteSet(joins[m])
    /\ ~HasRow(m) => joins[m] = {} /\ headcount[m] = 0

StoreInv == StoreTypeOK /\ RowsAreSound /\ Capacity
QueueInv == QueueTypeOK /\ JobsAreSent

\* A seat of the meetup is free, if the meetup exists.
SeatFree(m) == HasRow(m) => Cardinality(joins[m]) < headcount[m]

\* Between its reads and its insert the consumer keeps a seat reserved: any
\* other step can only free seats or remove the meetup.
SeatReserved == pc = "insert" => SeatFree(ticket[job].meetup)

IInv == StoreInv /\ CallsTypeOK /\ QueueInv /\ SeatReserved

-----------------------------------------------------------------------------
\* Sets of participants: adding one to a finite set adds at most one, and
\* removing some leaves at most as many.
LEMMA AddOne ==
  ASSUME NEW S, NEW x, IsFiniteSet(S)
  PROVE  /\ IsFiniteSet(S \cup {x})
         /\ Cardinality(S \cup {x}) <= Cardinality(S) + 1
         /\ Cardinality(S) \in Nat
         /\ Cardinality(S \cup {x}) \in Nat
  BY FS_AddElement, FS_CardinalityType

LEMMA RemoveOne ==
  ASSUME NEW S, NEW x, IsFiniteSet(S)
  PROVE  /\ IsFiniteSet(S \ {x})
         /\ Cardinality(S \ {x}) <= Cardinality(S)
         /\ Cardinality(S) \in Nat
         /\ Cardinality(S \ {x}) \in Nat
  <1>1. S \ {x} \subseteq S
    OBVIOUS
  <1> QED
    BY <1>1, FS_Subset, FS_CardinalityType

LEMMA EmptyAndSingleton ==
  /\ IsFiniteSet({}) /\ Cardinality({}) = 0
  /\ \A x : IsFiniteSet({x}) /\ Cardinality({x}) = 1
  BY FS_EmptySet, FS_Singleton

-----------------------------------------------------------------------------
\* The statements.

LEMMA InsertMeetupStep ==
  ASSUME StoreInv, NEW m \in Meetups, NEW u \in Users, NEW n \in Headcounts,
         InsertMeetup(m, u, n)
  PROVE  StoreInv' /\ \A x \in Meetups : SeatFree(x) => SeatFree(x)'
  <1>1. n \in HeadcountRange
    BY HeadcountsAssumption
  <1>2. StoreTypeOK'
    BY <1>1 DEF StoreInv, StoreTypeOK, InsertMeetup
  <1>3. \A x \in Meetups : x # m => /\ joins'[x] = joins[x]
                                    /\ headcount'[x] = headcount[x]
                                    /\ status'[x] = status[x]
    BY DEF StoreInv, StoreTypeOK, InsertMeetup
  <1>4. joins'[m] = {u} /\ headcount'[m] = n /\ status'[m] = "open"
    BY DEF StoreInv, StoreTypeOK, InsertMeetup
  <1>5. 1 < n /\ n \in Nat
    BY <1>1 DEF HeadcountRange
  <1>6. IsFiniteSet({u}) /\ Cardinality({u}) = 1
    BY EmptyAndSingleton
  <1>7. RowsAreSound'
    BY <1>3, <1>4, <1>6 DEF StoreInv, RowsAreSound, HasRow
  <1>8. Capacity'
    BY <1>3, <1>4, <1>5, <1>6 DEF StoreInv, Capacity
  <1>9. \A x \in Meetups : SeatFree(x) => SeatFree(x)'
    BY <1>3, <1>4, <1>5, <1>6 DEF SeatFree, HasRow
  <1> QED
    BY <1>2, <1>7, <1>8, <1>9 DEF StoreInv

LEMMA DeleteJoinRowStep ==
  ASSUME StoreInv, NEW m \in Meetups, NEW u \in Users, DeleteJoinRow(m, u)
  PROVE  StoreInv' /\ \A x \in Meetups : SeatFree(x) => SeatFree(x)'
  <1>1. StoreTypeOK'
    BY DEF StoreInv, StoreTypeOK, DeleteJoinRow
  <1>2. \A x \in Meetups : joins'[x] = joins[x] \/ joins'[x] = joins[x] \ {u}
    BY DEF StoreInv, StoreTypeOK, DeleteJoinRow
  <1>3. \A x \in Meetups : /\ IsFiniteSet(joins'[x])
                           /\ Cardinality(joins'[x]) <= Cardinality(joins[x])
                           /\ Cardinality(joins[x]) \in Nat
                           /\ Cardinality(joins'[x]) \in Nat
    <2> SUFFICES ASSUME NEW x \in Meetups
                 PROVE  /\ IsFiniteSet(joins'[x])
                        /\ Cardinality(joins'[x]) <= Cardinality(joins[x])
                        /\ Cardinality(joins[x]) \in Nat
                        /\ Cardinality(joins'[x]) \in Nat
      OBVIOUS
    <2>1. IsFiniteSet(joins[x])
      BY DEF StoreInv, RowsAreSound
    <2>2. /\ IsFiniteSet(joins[x] \ {u})
          /\ Cardinality(joins[x] \ {u}) <= Cardinality(joins[x])
          /\ Cardinality(joins[x]) \in Nat
          /\ Cardinality(joins[x] \ {u}) \in Nat
      BY <2>1, RemoveOne
    <2>3. CASE joins'[x] = joins[x]
      BY <2>1, <2>2, <2>3
    <2>4. CASE joins'[x] = joins[x] \ {u}
      BY <2>2, <2>4
    <2> QED
      BY <1>2, <2>3, <2>4
  <1>4. \A x \in Meetups : headcount[x] \in Nat
    BY DEF StoreInv, StoreTypeOK, HeadcountRange
  <1>5. UNCHANGED <<status, host, headcount>>
    BY DEF DeleteJoinRow
  <1>6. RowsAreSound'
    BY <1>2, <1>3, <1>5 DEF StoreInv, RowsAreSound, HasRow
  <1>7. Capacity'
    BY <1>3, <1>4, <1>5 DEF StoreInv, Capacity
  <1>8. \A x \in Meetups : SeatFree(x) => SeatFree(x)'
    BY <1>3, <1>4, <1>5 DEF SeatFree, HasRow
  <1> QED
    BY <1>1, <1>6, <1>7, <1>8 DEF StoreInv

LEMMA SoftDeleteMeetupStep ==
  ASSUME StoreInv, NEW m \in Meetups, SoftDeleteMeetup(m)
  PROVE  StoreInv' /\ \A x \in Meetups : SeatFree(x) => SeatFree(x)'
  <1>1. StoreTypeOK'
    BY DEF StoreInv, StoreTypeOK, SoftDeleteMeetup
  <1>2. \A x \in Meetups : HasRow(x)' <=> HasRow(x)
    BY DEF StoreInv, StoreTypeOK, SoftDeleteMeetup, HasRow, Readable
  <1>3. UNCHANGED <<host, headcount, joins>>
    BY DEF SoftDeleteMeetup
  <1> QED
    BY <1>1, <1>2, <1>3 DEF StoreInv, RowsAreSound, Capacity, SeatFree

LEMMA DeleteMeetupRowStep ==
  ASSUME StoreInv, NEW m \in Meetups, DeleteMeetupRow(m)
  PROVE  StoreInv' /\ \A x \in Meetups : SeatFree(x) => SeatFree(x)'
  <1>1. StoreTypeOK'
    BY DEF StoreInv, StoreTypeOK, DeleteMeetupRow, HeadcountRange
  <1>2. \A x \in Meetups : x # m => /\ joins'[x] = joins[x]
                                    /\ headcount'[x] = headcount[x]
                                    /\ status'[x] = status[x]
    BY DEF StoreInv, StoreTypeOK, DeleteMeetupRow
  <1>3. joins'[m] = {} /\ headcount'[m] = 0 /\ ~HasRow(m)'
    BY DEF StoreInv, StoreTypeOK, DeleteMeetupRow, HasRow
  <1>4. RowsAreSound'
    BY <1>2, <1>3, EmptyAndSingleton DEF StoreInv, RowsAreSound, HasRow
  <1>5. Capacity'
    <2>1. Cardinality(joins'[m]) = 0
      BY <1>3, EmptyAndSingleton
    <2> QED
      BY <1>2, <1>3, <2>1 DEF StoreInv, Capacity
  <1>6. \A x \in Meetups : SeatFree(x) => SeatFree(x)'
    BY <1>2, <1>3 DEF SeatFree, HasRow
  <1> QED
    BY <1>1, <1>4, <1>5, <1>6 DEF StoreInv

LEMMA InsertJoinStep ==
  ASSUME StoreInv, NEW m \in Meetups, NEW u \in Users, SeatFree(m),
         InsertJoin(m, u)
  PROVE  StoreInv'
  <1>1. StoreTypeOK'
    BY DEF StoreInv, StoreTypeOK, InsertJoin
  <1>2. /\ joins'[m] = joins[m] \cup {u}
        /\ \A x \in Meetups : x # m => joins'[x] = joins[x]
        /\ UNCHANGED <<status, host, headcount>>
        /\ HasRow(m)
    BY DEF StoreInv, StoreTypeOK, InsertJoin, CanInsertJoin
  <1>3. /\ IsFiniteSet(joins'[m])
        /\ Cardinality(joins'[m]) <= Cardinality(joins[m]) + 1
        /\ Cardinality(joins[m]) \in Nat /\ Cardinality(joins'[m]) \in Nat
    <2>1. IsFiniteSet(joins[m])
      BY DEF StoreInv, RowsAreSound
    <2>2. /\ IsFiniteSet(joins[m] \cup {u})
          /\ Cardinality(joins[m] \cup {u}) <= Cardinality(joins[m]) + 1
          /\ Cardinality(joins[m]) \in Nat
          /\ Cardinality(joins[m] \cup {u}) \in Nat
      BY <2>1, AddOne
    <2> QED
      BY <2>2, <1>2
  <1>4. RowsAreSound'
    BY <1>2, <1>3 DEF StoreInv, RowsAreSound, HasRow
  <1>5. headcount[m] \in Nat
    BY DEF StoreInv, StoreTypeOK, HeadcountRange
  <1>6. Cardinality(joins'[m]) <= headcount'[m]
    BY <1>2, <1>3, <1>5 DEF SeatFree
  <1>7. Capacity'
    BY <1>2, <1>6 DEF StoreInv, Capacity
  <1> QED
    BY <1>1, <1>4, <1>7 DEF StoreInv

-----------------------------------------------------------------------------
\* The handlers: whatever a call does, the rows stay sound and no seat the
\* consumer relies on is taken.

LEMMA CallsStep ==
  ASSUME StoreInv, CallsTypeOK, CallsNext
  PROVE  /\ StoreInv' /\ CallsTypeOK'
         /\ \A x \in Meetups : SeatFree(x) => SeatFree(x)'
  <1> DEFINE Goal == /\ StoreInv' /\ CallsTypeOK'
                     /\ \A x \in Meetups : SeatFree(x) => SeatFree(x)'
  <1>1. ASSUME UNCHANGED store
        PROVE  StoreInv' /\ \A x \in Meetups : SeatFree(x) => SeatFree(x)'
    BY <1>1 DEF store, StoreInv, StoreTypeOK, RowsAreSound, Capacity, SeatFree,
                HasRow
  <1>2. ASSUME NEW h \in Handlers, NEW point, At(h, point)
        PROVE  call[h] \in Calls /\ call[h].meetup \in Meetups
                                 /\ call[h].user \in Users
    BY <1>2 DEF CallsTypeOK, Calls, At
  <1>3. ASSUME NEW h \in Handlers, Return(h)
        PROVE  CallsTypeOK'
    BY <1>3 DEF CallsTypeOK, Return
  <1>4. ASSUME NEW h \in Handlers, NEW from, NEW point \in Points,
               At(h, from), Goto(h, point)
        PROVE  CallsTypeOK'
    BY <1>2, <1>4 DEF CallsTypeOK, Goto, Calls
  <1>5. ASSUME NEW h \in Handlers, NEW m \in Meetups, NEW u \in Users,
               NEW alone \in BOOLEAN, NEW point \in Points,
               Accept(h, point, m, u, alone)
        PROVE  CallsTypeOK'
    BY <1>5 DEF CallsTypeOK, Accept, Calls
  <1>6. ASSUME NEW m \in Meetups, NEW u \in Users, NEW n \in Headcounts,
               CreateMeetup(m, u, n)
        PROVE  Goal
    BY <1>6, InsertMeetupStep DEF CreateMeetup, CallsTypeOK
  <1>7. ASSUME NEW h \in Handlers, NEW m \in Meetups, NEW u \in Users,
               \/ DeleteMeetup(h, m, u)
               \/ DeleteJoin(h, m, u)
               \/ AddChat(h, m, u)
               \/ ExitChatRoom(h, m, u)
        PROVE  Goal
    <2>1. UNCHANGED store
      BY <1>7 DEF DeleteMeetup, DeleteJoin, AddChat, ExitChatRoom
    <2>2. PICK point \in Points, alone \in BOOLEAN :
            Accept(h, point, m, u, alone)
      <3>1. (Cardinality(joins[m]) = 1) \in BOOLEAN
        OBVIOUS
      <3> QED
        BY <1>7, <3>1
        DEF DeleteMeetup, DeleteJoin, AddChat, ExitChatRoom, Points
    <2> QED
      BY <1>1, <1>5, <2>1, <2>2
  <1>8. ASSUME NEW h \in Handlers, DeleteMeetupDelete(h)
        PROVE  Goal
    BY <1>8, <1>2, <1>3, DeleteMeetupRowStep DEF DeleteMeetupDelete
  <1>9. ASSUME NEW h \in Handlers,
               DeleteJoinGetJoin(h) \/ DeleteJoinGetMeetup(h)
        PROVE  Goal
    BY <1>9, <1>1, <1>3, <1>4
    DEF DeleteJoinGetJoin, DeleteJoinGetMeetup, Points
  <1>10. ASSUME NEW h \in Handlers, DeleteJoinDelete(h)
         PROVE  Goal
    BY <1>10, <1>2, <1>3, DeleteJoinRowStep DEF DeleteJoinDelete
  <1>11. ASSUME NEW h \in Handlers, AddChatSoftDelete(h)
         PROVE  Goal
    BY <1>11, <1>2, <1>3, SoftDeleteMeetupStep DEF AddChatSoftDelete
  <1>12. ASSUME NEW h \in Handlers, ExitChatRoomCommit(h)
         PROVE  Goal
    BY <1>12, <1>2, <1>3, DeleteJoinRowStep, DeleteMeetupRowStep
    DEF ExitChatRoomCommit
  <1>13. ASSUME NEW h \in Handlers, CallFails(h)
         PROVE  Goal
    BY <1>13, <1>1, <1>3 DEF CallFails
  <1>14. ASSUME NEW m \in Meetups, DeleteAdminMeetup(m)
         PROVE  Goal
    BY <1>14, DeleteMeetupRowStep DEF DeleteAdminMeetup, CallsTypeOK
  <1> QED
    BY <1>6, <1>7, <1>8, <1>9, <1>10, <1>11, <1>12, <1>13, <1>14 DEF CallsNext

-----------------------------------------------------------------------------
\* The join queue.

LEMMA TakeJobStep ==
  ASSUME QueueInv, TakeJob
  PROVE  QueueInv'
  <1>1. /\ queue \in Seq(Requests) /\ queue # <<>>
        /\ queue' = Tail(queue) /\ Head(queue) \in Queued
        /\ Head(queue) \in Requests
        /\ \A i \in 1 .. Len(queue') : queue'[i] \in Queued
    BY DEF QueueInv, QueueTypeOK, TakeJob, Queued
  <1>2. QueueTypeOK'
    BY <1>1 DEF QueueInv, QueueTypeOK, TakeJob, PCs, requests
  <1>3. JobsAreSent'
    BY <1>1 DEF QueueInv, JobsAreSent, TakeJob, Queued, requests
  <1> QED
    BY <1>2, <1>3 DEF QueueInv

LEMMA ConsumerStep ==
  ASSUME QueueInv,
         GetJoin \/ GetMeetup \/ AddJoinThrows \/ InsertSucceeds \/ Complete
  PROVE  QueueInv'
  <1> USE DEF QueueInv, QueueTypeOK, JobsAreSent, Queued, requests, redis, PCs
  <1>1. CASE GetJoin
    BY <1>1 DEF GetJoin, ReadPasses
  <1>2. CASE GetMeetup
    BY <1>2 DEF GetMeetup, ReadPasses
  <1>3. CASE AddJoinThrows
    BY <1>3 DEF AddJoinThrows
  <1>4. CASE InsertSucceeds
    BY <1>4 DEF InsertSucceeds
  <1>5. CASE Complete
    BY <1>5 DEF Complete
  <1> QED
    BY <1>1, <1>2, <1>3, <1>4, <1>5

LEMMA EmitResultStep ==
  ASSUME QueueInv, EmitResult
  PROVE  QueueInv'
  <1>1. /\ phase' \in [Requests -> Phases]
        /\ \A r \in Requests : phase[r] # "new" => phase'[r] # "new"
        /\ listeners' \in SUBSET Requests
    BY DEF QueueInv, QueueTypeOK, EmitResult, Emit, ListenersWithout, Phases,
           Answers
  <1>2. QueueTypeOK'
    BY <1>1 DEF QueueInv, QueueTypeOK, EmitResult, redis, PCs
  <1>3. JobsAreSent'
    BY <1>1 DEF QueueInv, QueueTypeOK, JobsAreSent, EmitResult, redis, Queued
  <1> QED
    BY <1>2, <1>3 DEF QueueInv

LEMMA RequestsStep ==
  ASSUME QueueInv, RequestsNext
  PROVE  QueueInv' /\ UNCHANGED consumer
                   /\ (pc # "idle" => ticket'[job] = ticket[job])
  <1> DEFINE Goal == QueueInv' /\ UNCHANGED consumer
                       /\ (pc # "idle" => ticket'[job] = ticket[job])
  <1>1. ASSUME NEW r \in Requests, NEW m \in Meetups, NEW u \in Users,
               NEW n \in Nonces, AddJoinQueue(r, m, u, n)
        PROVE  Goal
    <2>1. r \notin active \cup Queued
      BY <1>1 DEF AddJoinQueue, QueueInv, JobsAreSent
    <2>2. \A i \in 1 .. Len(queue') : queue'[i] \in Queued \cup {r}
      BY <1>1 DEF AddJoinQueue, QueueInv, QueueTypeOK, Queued
    <2>3. QueueTypeOK'
      BY <1>1 DEF AddJoinQueue, QueueInv, QueueTypeOK, Tickets, Phases, consumer
    <2>4. JobsAreSent'
      BY <1>1, <2>1, <2>2
      DEF AddJoinQueue, QueueInv, QueueTypeOK, JobsAreSent, Tickets, Queued,
          consumer
    <2> QED
      BY <1>1, <2>1, <2>3, <2>4
      DEF AddJoinQueue, QueueInv, QueueTypeOK, JobsAreSent, consumer
  <1>2. ASSUME NEW r \in Requests, WaitFinish(r) \/ Timeout(r)
        PROVE  Goal
    BY <1>2
    DEF WaitFinish, Timeout, ListenersWithout, QueueInv, QueueTypeOK,
        JobsAreSent, Queued, Phases, Answers, redis, consumer
  <1>3. ASSUME NEW r \in Requests, MoveStalledJob(r)
        PROVE  Goal
    <2>1. \A i \in 1 .. Len(queue') : queue'[i] \in Queued \cup {r}
      BY <1>3 DEF MoveStalledJob, QueueInv, QueueTypeOK, Queued
    <2>2. QueueTypeOK'
      BY <1>3 DEF MoveStalledJob, QueueInv, QueueTypeOK, requests, consumer
    <2>3. JobsAreSent'
      BY <1>3, <2>1
      DEF MoveStalledJob, QueueInv, QueueTypeOK, JobsAreSent, Queued, requests,
          consumer
    <2> QED
      BY <1>3, <2>2, <2>3 DEF MoveStalledJob, QueueInv, requests, consumer
  <1> QED
    BY <1>1, <1>2, <1>3 DEF RequestsNext

LEMMA CrashQueueStep ==
  ASSUME QueueInv, CrashQueue
  PROVE  QueueInv'
  BY DEF QueueInv, QueueTypeOK, JobsAreSent, Queued, CrashQueue, redis, Phases,
         PCs

-----------------------------------------------------------------------------
\* The inductive invariant.

\* What the consumer works on is a ticket that was sent.
LEMMA JobHasTicket ==
  ASSUME QueueInv, pc # "idle"
  PROVE  /\ job \in Requests
         /\ ticket[job].meetup \in Meetups
         /\ ticket[job].user \in Users
  BY DEF QueueInv, QueueTypeOK, JobsAreSent, Tickets

LEMMA InvInit == Init => IInv
  <1> SUFFICES ASSUME Init PROVE IInv
    OBVIOUS
  <1> USE DEF Init, StoreInit, CallsInit, QueueInit
  <1>1. StoreInv
    BY EmptyAndSingleton
    DEF StoreInv, StoreTypeOK, RowsAreSound, Capacity, HasRow, HeadcountRange
  <1>2. CallsTypeOK
    BY DEF CallsTypeOK
  <1>3. QueueInv
    BY MaxCrashesAssumption
    DEF QueueInv, QueueTypeOK, JobsAreSent, Queued, Phases, PCs
  <1>4. SeatReserved
    BY DEF SeatReserved
  <1> QED
    BY <1>1, <1>2, <1>3, <1>4 DEF IInv

LEMMA InvStep == IInv /\ [Next]_vars => IInv'
  <1> SUFFICES ASSUME IInv, [Next]_vars PROVE IInv'
    OBVIOUS
  <1>1. StoreInv /\ CallsTypeOK /\ QueueInv /\ SeatReserved
    BY DEF IInv
  <1>2. ASSUME UNCHANGED <<store, call>>
        PROVE  StoreInv' /\ CallsTypeOK'
                 /\ \A x \in Meetups : SeatFree(x) <=> SeatFree(x)'
    BY <1>1, <1>2 DEF store, StoreInv, StoreTypeOK, RowsAreSound, Capacity,
                      SeatFree, HasRow, CallsTypeOK
  <1>3. CASE RequestsNext /\ UNCHANGED <<store, call>>
    BY <1>1, <1>2, <1>3, RequestsStep, JobHasTicket
    DEF IInv, SeatReserved, consumer
  <1>4. CASE WorkerStep /\ UNCHANGED <<store, call>>
    <2>1. QueueInv'
      BY <1>1, <1>4, TakeJobStep, ConsumerStep, EmitResultStep DEF WorkerStep
    <2>2. SeatReserved'
      <3>1. SUFFICES ASSUME pc' = "insert"
                     PROVE  SeatFree(ticket[job].meetup)' 
        BY DEF SeatReserved
      <3>2. GetMeetup
        BY <1>4, <3>1
        DEF WorkerStep, TakeJob, GetJoin, ReadPasses, AddJoinThrows, EmitResult,
            Complete
      <3>3. ticket[job].meetup \in Meetups /\ UNCHANGED <<ticket, job>>
        BY <1>1, <3>2, JobHasTicket DEF GetMeetup, ReadPasses, requests
      <3>4. headcount[ticket[job].meetup] > Cardinality(joins[ticket[job].meetup])
        BY <3>2 DEF GetMeetup, ReadPasses, HasRoom
      <3>5. SeatFree(ticket[job].meetup)
        BY <1>1, <3>3, <3>4, FS_CardinalityType
        DEF SeatFree, StoreInv, StoreTypeOK, RowsAreSound, HeadcountRange
      <3> QED
        BY <1>2, <1>4, <3>3, <3>5
    <2> QED
      BY <1>2, <1>4, <2>1, <2>2 DEF IInv
  <1>5. CASE InsertSucceeds /\ UNCHANGED call
    <2>1. StoreInv'
      BY <1>1, <1>5, InsertJoinStep, JobHasTicket
      DEF InsertSucceeds, SeatReserved
    <2>2. QueueInv' /\ SeatReserved'
      BY <1>1, <1>5, ConsumerStep DEF InsertSucceeds, SeatReserved
    <2> QED
      BY <1>1, <1>5, <2>1, <2>2 DEF IInv, CallsTypeOK
  <1>6. CASE CallsNext /\ UNCHANGED queueVars
    <2>1. QueueInv' /\ UNCHANGED <<ticket, pc, job>>
      BY <1>1, <1>6
      DEF queueVars, requests, redis, consumer, QueueInv, QueueTypeOK,
          JobsAreSent, Queued
    <2>2. StoreInv' /\ CallsTypeOK'
            /\ \A x \in Meetups : SeatFree(x) => SeatFree(x)'
      BY <1>1, <1>6, CallsStep
    <2>3. SeatReserved'
      BY <1>1, <2>1, <2>2, JobHasTicket DEF SeatReserved
    <2> QED
      BY <2>1, <2>2, <2>3 DEF IInv
  <1>7. CASE Crash
    BY <1>1, <1>7, CrashQueueStep
    DEF Crash, CrashQueue, IInv, SeatReserved, store, StoreInv, StoreTypeOK,
        RowsAreSound, Capacity, HasRow, CallsTypeOK
  <1>8. CASE UNCHANGED vars
    BY <1>1, <1>2, <1>8, JobHasTicket
    DEF vars, queueVars, requests, redis, consumer, IInv, SeatReserved,
        QueueInv, QueueTypeOK, JobsAreSent, Queued
  <1> QED
    BY <1>3, <1>4, <1>5, <1>6, <1>7, <1>8 DEF Next

LEMMA Invariance == Spec => []IInv
  BY InvInit, InvStep, PTL DEF Spec

\* Every variable keeps its type, in every run of the service of any size.
THEOREM TypeCorrect == Spec => []TypeOK
  <1>1. IInv => TypeOK
    BY DEF IInv, StoreInv, QueueInv, TypeOK
  <1> QED
    BY <1>1, Invariance, PTL

\* No meetup ever exceeds its capacity, however many users join, leave, close,
\* exit and delete at once, and wherever the process crashes.
THEOREM CapacityHolds == Spec => []Capacity
  <1>1. IInv => Capacity
    BY DEF IInv, StoreInv
  <1> QED
    BY <1>1, Invariance, PTL

\* No join row without its meetup.
THEOREM NoOrphanJoinHolds == Spec => []NoOrphanJoin
  <1>1. IInv => NoOrphanJoin
    BY DEF IInv, StoreInv, RowsAreSound, NoOrphanJoin
  <1> QED
    BY <1>1, Invariance, PTL

-----------------------------------------------------------------------------
\* The board.

LEMMA BoardInit == Init => Board!Init
  BY DEF Init, StoreInit, Board!Init, HasRow

\* The same joins, capacities and rows are the same board.
LEMMA BoardStutters ==
  ASSUME \A m \in Meetups : (HasRow(m)' <=> HasRow(m))
                            /\ (~HasRow(m) => status'[m] = status[m]),
         UNCHANGED <<headcount, joins>>
  PROVE  UNCHANGED Board!vars
  BY DEF Board!vars

LEMMA BoardAnnounce ==
  ASSUME StoreInv, NEW m \in Meetups, NEW u \in Users, NEW n \in Headcounts,
         InsertMeetup(m, u, n)
  PROVE  Board!Next
  <1>1. Board!Announce(m, u, n)
    BY DEF InsertMeetup, StoreInv, StoreTypeOK, HasRow, Board!Announce
  <1> QED
    BY <1>1 DEF Board!Next

\* The board counts its members as this module does.
LEMMA SameCardinality == \A S : Board!Cardinality(S) = Cardinality(S)
  BY DEF Board!Cardinality, Cardinality, Board!IsFiniteSet, IsFiniteSet

LEMMA BoardTakeSeat ==
  ASSUME StoreInv, NEW m \in Meetups, NEW u \in Users, SeatFree(m),
         InsertJoin(m, u)
  PROVE  Board!Next
  <1>1. /\ HasRow(m) /\ u \notin joins[m]
        /\ Cardinality(joins[m]) < headcount[m]
        /\ joins' = [joins EXCEPT ![m] = @ \cup {u}]
        /\ UNCHANGED <<status, headcount>>
    BY DEF InsertJoin, CanInsertJoin, SeatFree
  <1>2. Board!TakeSeat(m, u)
    BY <1>1, SameCardinality DEF HasRow, Board!TakeSeat
  <1> QED
    BY <1>2 DEF Board!Next

LEMMA BoardLeaveSeat ==
  ASSUME StoreInv, NEW m \in Meetups, NEW u \in Users, DeleteJoinRow(m, u)
  PROVE  [Board!Next]_Board!vars
  <1>1. CASE u \in joins[m]
    <2>1. Board!LeaveSeat(m, u)
      BY <1>1
      DEF DeleteJoinRow, StoreInv, StoreTypeOK, HasRow, Board!LeaveSeat
    <2> QED
      BY <2>1 DEF Board!Next
  <1>2. CASE u \notin joins[m]
    <2>1. UNCHANGED <<status, headcount, joins>>
      BY <1>2 DEF DeleteJoinRow, StoreInv, StoreTypeOK
    <2> QED
      BY <2>1, BoardStutters DEF HasRow
  <1> QED
    BY <1>1, <1>2

LEMMA BoardClose ==
  ASSUME StoreInv, NEW m \in Meetups, SoftDeleteMeetup(m)
  PROVE  [Board!Next]_Board!vars
  BY BoardStutters
  DEF SoftDeleteMeetup, StoreInv, StoreTypeOK, HasRow, Readable

LEMMA BoardRemove ==
  ASSUME StoreInv, NEW m \in Meetups, DeleteMeetupRow(m)
  PROVE  [Board!Next]_Board!vars
  <1>1. CASE HasRow(m)
    <2>1. Board!Remove(m)
      BY <1>1
      DEF DeleteMeetupRow, StoreInv, StoreTypeOK, HasRow, Board!Remove
    <2> QED
      BY <2>1 DEF Board!Next
  <1>2. CASE ~HasRow(m)
    <2>1. UNCHANGED <<status, headcount, joins>>
      BY <1>2 DEF DeleteMeetupRow, StoreInv, StoreTypeOK, RowsAreSound
    <2> QED
      BY <2>1, BoardStutters DEF HasRow
  <1> QED
    BY <1>1, <1>2

LEMMA CallsBoardStep ==
  ASSUME StoreInv, CallsTypeOK, CallsNext
  PROVE  [Board!Next]_Board!vars
  <1>1. ASSUME UNCHANGED store
        PROVE  [Board!Next]_Board!vars
    BY <1>1, BoardStutters DEF store, HasRow
  <1>2. ASSUME NEW h \in Handlers, NEW point, At(h, point)
        PROVE  call[h].meetup \in Meetups /\ call[h].user \in Users
    BY <1>2 DEF CallsTypeOK, Calls, At
  <1>3. ASSUME NEW m \in Meetups, NEW u \in Users, NEW n \in Headcounts,
               CreateMeetup(m, u, n)
        PROVE  [Board!Next]_Board!vars
    BY <1>3, BoardAnnounce DEF CreateMeetup
  <1>4. ASSUME NEW h \in Handlers, NEW m \in Meetups, NEW u \in Users,
               \/ DeleteMeetup(h, m, u)
               \/ DeleteJoin(h, m, u)
               \/ AddChat(h, m, u)
               \/ ExitChatRoom(h, m, u)
        PROVE  [Board!Next]_Board!vars
    BY <1>4, <1>1 DEF DeleteMeetup, DeleteJoin, AddChat, ExitChatRoom
  <1>5. ASSUME NEW h \in Handlers,
               \/ DeleteMeetupDelete(h)
               \/ DeleteJoinDelete(h)
               \/ AddChatSoftDelete(h)
               \/ ExitChatRoomCommit(h)
        PROVE  [Board!Next]_Board!vars
    BY <1>5, <1>2, BoardLeaveSeat, BoardClose, BoardRemove
    DEF DeleteMeetupDelete, DeleteJoinDelete, AddChatSoftDelete,
        ExitChatRoomCommit
  <1>6. ASSUME NEW h \in Handlers,
               DeleteJoinGetJoin(h) \/ DeleteJoinGetMeetup(h) \/ CallFails(h)
        PROVE  [Board!Next]_Board!vars
    BY <1>6, <1>1 DEF DeleteJoinGetJoin, DeleteJoinGetMeetup, CallFails
  <1>7. ASSUME NEW m \in Meetups, DeleteAdminMeetup(m)
        PROVE  [Board!Next]_Board!vars
    BY <1>7, BoardRemove DEF DeleteAdminMeetup
  <1> QED
    BY <1>3, <1>4, <1>5, <1>6, <1>7 DEF CallsNext

LEMMA BoardStep == IInv /\ [Next]_vars => [Board!Next]_Board!vars
  <1> SUFFICES ASSUME IInv, [Next]_vars PROVE [Board!Next]_Board!vars
    OBVIOUS
  <1>1. ASSUME UNCHANGED store
        PROVE  [Board!Next]_Board!vars
    BY <1>1, BoardStutters DEF store, HasRow
  <1>2. CASE InsertSucceeds
    BY <1>2, BoardTakeSeat, JobHasTicket DEF IInv, InsertSucceeds, SeatReserved
  <1>3. CASE CallsNext
    BY <1>3, CallsBoardStep DEF IInv
  <1> QED
    BY <1>1, <1>2, <1>3 DEF Next, Crash, vars

\* The whole service, queue, handlers and crashes, implements the board: a
\* join is one atomic taking of a free seat.
THEOREM BoardImplemented == Spec => ImplementsBoard
  BY Invariance, BoardInit, BoardStep, PTL DEF Spec, ImplementsBoard, Board!Spec

-----------------------------------------------------------------------------
\* A meetup that is gone, or closed, stays so.

Moves == {<<"unborn", "open">>, <<"open", "closed">>,
          <<"open", "gone">>, <<"closed", "gone">>}
Forward == \A m \in Meetups : status'[m] # status[m] =>
                                <<status[m], status'[m]>> \in Moves

LEMMA ForwardStep == IInv /\ [Next]_vars => Forward
  <1> SUFFICES ASSUME IInv, [Next]_vars PROVE Forward
    OBVIOUS
  <1>1. ASSUME UNCHANGED status
        PROVE  Forward
    BY <1>1 DEF Forward
  <1>2. StoreTypeOK /\ CallsTypeOK
    BY DEF IInv, StoreInv
  <1>3. ASSUME NEW m \in Meetups, NEW u \in Users, NEW n \in Headcounts,
               InsertMeetup(m, u, n)
        PROVE  Forward
    BY <1>2, <1>3 DEF InsertMeetup, StoreTypeOK, Forward, Moves
  <1>4. ASSUME NEW m \in Meetups, SoftDeleteMeetup(m) \/ DeleteMeetupRow(m)
        PROVE  Forward
    BY <1>2, <1>4
    DEF SoftDeleteMeetup, DeleteMeetupRow, StoreTypeOK, Readable, HasRow,
        Forward, Moves
  <1>5. ASSUME NEW h \in Handlers, NEW point, At(h, point)
        PROVE  call[h].meetup \in Meetups
    BY <1>2, <1>5 DEF CallsTypeOK, Calls, At
  <1>6. CASE CallsNext
    <2>1. ASSUME NEW h \in Handlers,
                 \/ DeleteMeetupDelete(h)
                 \/ DeleteJoinGetJoin(h)
                 \/ DeleteJoinGetMeetup(h)
                 \/ DeleteJoinDelete(h)
                 \/ AddChatSoftDelete(h)
                 \/ ExitChatRoomCommit(h)
                 \/ CallFails(h)
          PROVE  Forward
      BY <2>1, <1>1, <1>4, <1>5
      DEF DeleteMeetupDelete, DeleteJoinGetJoin, DeleteJoinGetMeetup,
          DeleteJoinDelete, AddChatSoftDelete, ExitChatRoomCommit, CallFails,
          DeleteJoinRow, store
    <2>2. ASSUME NEW h \in Handlers, NEW m \in Meetups, NEW u \in Users,
                 \/ DeleteMeetup(h, m, u)
                 \/ DeleteJoin(h, m, u)
                 \/ AddChat(h, m, u)
                 \/ ExitChatRoom(h, m, u)
          PROVE  Forward
      BY <2>2, <1>1 DEF DeleteMeetup, DeleteJoin, AddChat, ExitChatRoom, store
    <2> QED
      BY <1>6, <1>3, <1>4, <2>1, <2>2
      DEF CallsNext, CreateMeetup, DeleteAdminMeetup
  <1> QED
    BY <1>1, <1>6 DEF Next, Crash, InsertSucceeds, InsertJoin, vars, store

\* No interleaving brings a closed meetup back to recruiting, or a deleted one
\* back at all.
THEOREM ForwardOnlyHolds == Spec => ForwardOnly
  <1>1. IInv /\ [Next]_vars =>
          [\A m \in Meetups : status'[m] # status[m] =>
             <<status[m], status'[m]>> \in
               {<<"unborn", "open">>, <<"open", "closed">>,
                <<"open", "gone">>, <<"closed", "gone">>}]_vars
    BY ForwardStep DEF Forward, Moves
  <1> QED
    BY <1>1, Invariance, PTL DEF Spec, ForwardOnly
-----------------------------------------------------------------------------
\* Answers.
\*
\* A request whose job has never been found stalled is in one place only: not
\* sent, in the queue once, in the hands of the consumer, or done with.

Working == {"getJoin", "getMeetup", "insert"}

\* What was not sent leaves no trace.
UnsentUnknown ==
  \A r \in Requests : phase[r] = "new" => ticket[r] = NoTicket /\ r \notin granted

QueuedOnce ==
  /\ \A i, j \in 1 .. Len(queue) : i < j /\ queue[i] = queue[j] => stalls[queue[i]] # 0
  /\ \A r \in active \cap Queued : stalls[r] # 0

\* Until its insert, the job of a request that ran once has inserted nothing.
NotGrantedBefore ==
  \A r \in Requests :
    stalls[r] = 0 /\ (r \in Queued \/ (job = r /\ pc \in Working \cup {"emitFailure"})) =>
      r \notin granted

SuccessIsGranted == pc = "emitSuccess" => job \in granted

\* A request that was refused, by an event of its own, will not be tried again.
RefusedIsOver ==
  \A r \in Requests :
    ticket[r] # NoTicket /\ OwnEvent(r) /\ phase[r] = "rejected" /\ stalls[r] = 0 =>
      r \notin Queued /\ ~(job = r /\ pc \in Working)

AnswersInv == /\ UnsentUnknown /\ QueuedOnce /\ NotGrantedBefore /\ SuccessIsGranted
              /\ RefusedIsOver /\ AnswersAreTrue

LEMMA QueueFacts ==
  ASSUME NEW q \in Seq(Requests), NEW r \in Requests
  PROVE  /\ Len(q) \in Nat
         /\ Len(Append(q, r)) = Len(q) + 1 /\ Append(q, r)[Len(q) + 1] = r
         /\ \A i \in 1 .. Len(q) : Append(q, r)[i] = q[i]
         /\ Len(<<r>> \o q) = Len(q) + 1 /\ (<<r>> \o q)[1] = r
         /\ \A i \in 2 .. Len(q) + 1 : (<<r>> \o q)[i] = q[i - 1]
  OBVIOUS

LEMMA HeadAndTail ==
  ASSUME NEW q \in Seq(Requests), q # <<>>
  PROVE  /\ Len(q) \in Nat \ {0} /\ Head(q) = q[1] /\ Len(Tail(q)) = Len(q) - 1
         /\ \A i \in 1 .. Len(q) - 1 : Tail(q)[i] = q[i + 1]
  OBVIOUS

\* Steps that neither answer a request nor move a job into the queue or out of it.
LEMMA QuietAnswers ==
  ASSUME AnswersInv, UNCHANGED <<ticket, queue, stalls, granted>>, active' \subseteq active,
         \A r \in Requests : /\ phase'[r] \in {"success", "rejected"} => phase'[r] = phase[r]
                             /\ phase'[r] = "new" => phase[r] = "new",
         pc' # "idle" => job' = job,
         pc' \in Working => pc \in Working,
         pc' = "emitFailure" => pc \in Working \cup {"emitFailure"},
         pc' = "emitSuccess" => pc = "emitSuccess"
  PROVE  AnswersInv'
  <1> USE DEF AnswersInv
  <1>1. Queued' = Queued /\ \A r \in Requests : OwnEvent(r)' <=> OwnEvent(r)
    BY DEF Queued, OwnEvent
  <1>2. UnsentUnknown'
    BY DEF UnsentUnknown
  <1>3. QueuedOnce'
    BY <1>1 DEF QueuedOnce
  <1>4. NotGrantedBefore'
    BY <1>1 DEF NotGrantedBefore, Working
  <1>5. SuccessIsGranted'
    BY DEF SuccessIsGranted
  <1>6. RefusedIsOver'
    BY <1>1 DEF RefusedIsOver, Working
  <1>7. AnswersAreTrue'
    BY <1>1 DEF AnswersAreTrue
  <1> QED
    BY <1>2, <1>3, <1>4, <1>5, <1>6, <1>7

LEMMA AddJoinQueueAnswers ==
  ASSUME QueueInv, AnswersInv, NEW r \in Requests, NEW m \in Meetups, NEW u \in Users,
         NEW n \in Nonces, AddJoinQueue(r, m, u, n)
  PROVE  AnswersInv'
  <1> USE DEF AnswersInv
  <1>1. /\ phase[r] = "new" /\ phase'[r] = "queued" /\ queue' = Append(queue, r)
        /\ \A q \in Requests : q # r => ticket'[q] = ticket[q] /\ phase'[q] = phase[q]
        /\ UNCHANGED <<active, stalls, pc, job, granted>>
    BY DEF AddJoinQueue, QueueInv, QueueTypeOK, consumer
  <1>2. r \notin active \cup Queued /\ (pc # "idle" => job # r)
    BY <1>1 DEF QueueInv, JobsAreSent
  <1>3. r \notin granted /\ ticket[r] = NoTicket
    BY <1>1 DEF UnsentUnknown
  <1>4. queue \in Seq(Requests)
    BY DEF QueueInv, QueueTypeOK
  <1>5. /\ Len(queue) \in Nat /\ Len(queue') = Len(queue) + 1 /\ queue'[Len(queue) + 1] = r
        /\ \A i \in 1 .. Len(queue) : queue'[i] = queue[i]
    BY <1>1, <1>4, QueueFacts
  <1>6. Queued' = Queued \cup {r}
    BY <1>5 DEF Queued
  <1>7. UnsentUnknown'
    BY <1>1 DEF UnsentUnknown
  <1>8. QueuedOnce'
    <2>1. ASSUME NEW i \in 1 .. Len(queue'), NEW j \in 1 .. Len(queue'), i < j, queue'[i] = queue'[j]
          PROVE  stalls'[queue'[i]] # 0
      <3>1. i \in 1 .. Len(queue) /\ queue'[i] \in Queued
        BY <1>5, <2>1 DEF Queued
      <3>2. j \in 1 .. Len(queue)
        BY <1>2, <1>5, <2>1, <3>1
      <3> QED
        BY <1>1, <1>5, <2>1, <3>1, <3>2 DEF QueuedOnce
    <2>2. \A q \in active' \cap Queued' : stalls'[q] # 0
      BY <1>1, <1>2, <1>6 DEF QueuedOnce
    <2> QED
      BY <2>1, <2>2 DEF QueuedOnce
  <1>9. NotGrantedBefore'
    BY <1>1, <1>3, <1>6 DEF NotGrantedBefore
  <1>10. SuccessIsGranted'
    BY <1>1 DEF SuccessIsGranted
  <1>11. \A q \in Requests : OwnEvent(q)' /\ q # r => OwnEvent(q)
    BY <1>1, <1>3 DEF OwnEvent
  <1>12. RefusedIsOver'
    BY <1>1, <1>6, <1>11 DEF RefusedIsOver
  <1>13. AnswersAreTrue'
    BY <1>1, <1>11 DEF AnswersAreTrue
  <1> QED
    BY <1>7, <1>8, <1>9, <1>10, <1>12, <1>13

LEMMA MoveStalledJobAnswers ==
  ASSUME QueueInv, AnswersInv, NEW r \in Requests, MoveStalledJob(r)
  PROVE  AnswersInv'
  <1> USE DEF AnswersInv
  <1>1. /\ active' = active \ {r} /\ queue' \in {queue, <<r>> \o queue}
        /\ stalls'[r] # 0
        /\ \A q \in Requests : q # r => stalls'[q] = stalls[q]
        /\ UNCHANGED <<ticket, phase, pc, job, granted>>
    BY DEF MoveStalledJob, QueueInv, QueueTypeOK, requests, consumer
  <1>2. queue \in Seq(Requests)
    BY DEF QueueInv, QueueTypeOK
  <1>3. /\ Len(queue) \in Nat /\ \A i \in 1 .. Len(queue) : queue[i] \in Requests
        /\ Len(<<r>> \o queue) = Len(queue) + 1 /\ (<<r>> \o queue)[1] = r
        /\ \A i \in 2 .. Len(queue) + 1 : (<<r>> \o queue)[i] = queue[i - 1]
    BY <1>2, QueueFacts
  <1>4. Queued' \subseteq Queued \cup {r}
    BY <1>1, <1>3 DEF Queued
  <1>5. QueuedOnce'
    <2>1. ASSUME NEW i \in 1 .. Len(queue'), NEW j \in 1 .. Len(queue'), i < j, queue'[i] = queue'[j]
          PROVE  stalls'[queue'[i]] # 0
      <3>1. CASE queue' = queue
        <4>1. stalls[queue[i]] # 0 /\ queue[i] \in Requests
          BY <1>3, <2>1, <3>1 DEF QueuedOnce
        <4> QED
          BY <1>1, <3>1, <4>1
      <3>2. CASE queue' = <<r>> \o queue
        <4>1. CASE i = 1
          BY <1>1, <1>3, <3>2, <4>1
        <4>2. CASE i # 1
          <5>1. /\ i - 1 \in 1 .. Len(queue) /\ j - 1 \in 1 .. Len(queue) /\ i - 1 < j - 1
                /\ queue'[i] = queue[i - 1] /\ queue'[j] = queue[j - 1]
            BY <1>3, <2>1, <3>2, <4>2
          <5>2. stalls[queue[i - 1]] # 0 /\ queue[i - 1] \in Requests
            BY <1>3, <2>1, <5>1 DEF QueuedOnce
          <5> QED
            BY <1>1, <5>1, <5>2
        <4> QED
          BY <4>1, <4>2
      <3> QED
        BY <1>1, <3>1, <3>2
    <2>2. \A q \in active' \cap Queued' : stalls'[q] # 0
      <3>1. Queued \subseteq Requests
        BY <1>3 DEF Queued
      <3> QED
        BY <1>1, <1>4, <3>1 DEF QueuedOnce
    <2> QED
      BY <2>1, <2>2 DEF QueuedOnce
  <1>6. UnsentUnknown' /\ SuccessIsGranted'
    BY <1>1 DEF UnsentUnknown, SuccessIsGranted
  <1>7. NotGrantedBefore'
    BY <1>1, <1>4 DEF NotGrantedBefore
  <1>8. \A q \in Requests : OwnEvent(q)' <=> OwnEvent(q)
    BY <1>1 DEF OwnEvent
  <1>9. RefusedIsOver'
    BY <1>1, <1>4, <1>8 DEF RefusedIsOver
  <1>10. AnswersAreTrue'
    BY <1>1, <1>8 DEF AnswersAreTrue
  <1> QED
    BY <1>5, <1>6, <1>7, <1>9, <1>10

LEMMA TakeJobAnswers ==
  ASSUME QueueInv, AnswersInv, TakeJob
  PROVE  AnswersInv'
  <1> USE DEF AnswersInv
  <1> DEFINE h == queue[1]
  <1>1. queue \in Seq(Requests) /\ queue # <<>>
    BY DEF QueueInv, QueueTypeOK, TakeJob
  <1>2. /\ Len(queue) \in Nat \ {0} /\ Head(queue) = h /\ Len(Tail(queue)) = Len(queue) - 1
        /\ \A i \in 1 .. Len(queue) - 1 : Tail(queue)[i] = queue[i + 1]
        /\ \A i \in 1 .. Len(queue) : queue[i] \in Requests
    BY <1>1, HeadAndTail
  <1>3. /\ pc' = "getJoin" /\ job' = h /\ queue' = Tail(queue) /\ active' = active \cup {h}
        /\ UNCHANGED <<ticket, phase, stalls, granted>>
    BY <1>2 DEF TakeJob, requests
  <1>4. Queued' \subseteq Queued /\ h \in Queued /\ h \in Requests
    <2>1. \A i \in 1 .. Len(queue') : queue'[i] \in Queued
      BY <1>2, <1>3 DEF Queued
    <2> QED
      BY <1>2, <2>1 DEF Queued
  <1>5. stalls[h] = 0 => h \notin Queued'
    <2>1. SUFFICES ASSUME stalls[h] = 0, NEW i \in 1 .. Len(queue'), queue'[i] = h
                   PROVE  FALSE
      BY DEF Queued
    <2>2. i + 1 \in 1 .. Len(queue) /\ 1 \in 1 .. Len(queue) /\ queue[i + 1] = queue[1] /\ 1 < i + 1
      BY <1>2, <1>3, <2>1
    <2> QED
      BY <2>1, <2>2 DEF QueuedOnce
  <1>6. QueuedOnce'
    <2>1. ASSUME NEW i \in 1 .. Len(queue'), NEW j \in 1 .. Len(queue'), i < j, queue'[i] = queue'[j]
          PROVE  stalls'[queue'[i]] # 0
      <3>1. /\ i + 1 \in 1 .. Len(queue) /\ j + 1 \in 1 .. Len(queue) /\ i + 1 < j + 1
            /\ queue'[i] = queue[i + 1] /\ queue'[j] = queue[j + 1]
        BY <1>2, <1>3, <2>1
      <3>2. stalls[queue[i + 1]] # 0
        BY <2>1, <3>1 DEF QueuedOnce
      <3> QED
        BY <1>3, <3>1, <3>2
    <2>2. \A q \in active' \cap Queued' : stalls'[q] # 0
      BY <1>3, <1>4, <1>5 DEF QueuedOnce
    <2> QED
      BY <2>1, <2>2 DEF QueuedOnce
  <1> HIDE DEF h
  <1>7. UnsentUnknown' /\ SuccessIsGranted'
    BY <1>3 DEF UnsentUnknown, SuccessIsGranted
  <1>8. NotGrantedBefore'
    BY <1>3, <1>4 DEF NotGrantedBefore
  <1>9. \A q \in Requests : OwnEvent(q)' <=> OwnEvent(q)
    BY <1>3 DEF OwnEvent
  <1>10. RefusedIsOver'
    BY <1>3, <1>4, <1>9 DEF RefusedIsOver
  <1>11. AnswersAreTrue'
    BY <1>3, <1>9 DEF AnswersAreTrue
  <1> QED
    BY <1>6, <1>7, <1>8, <1>10, <1>11

LEMMA InsertSucceedsAnswers ==
  ASSUME QueueInv, AnswersInv, InsertSucceeds
  PROVE  AnswersInv'
  <1> USE DEF AnswersInv
  <1>1. /\ pc = "insert" /\ pc' = "emitSuccess" /\ granted' = granted \cup {job}
        /\ UNCHANGED <<ticket, phase, queue, active, stalls, job>>
    BY DEF InsertSucceeds, requests, redis
  <1>2. job \in active /\ phase[job] # "new"
    BY <1>1 DEF QueueInv, JobsAreSent
  <1>3. Queued' = Queued /\ \A q \in Requests : OwnEvent(q)' <=> OwnEvent(q)
    BY <1>1 DEF Queued, OwnEvent
  <1>4. UnsentUnknown' /\ SuccessIsGranted'
    BY <1>1, <1>2 DEF UnsentUnknown, SuccessIsGranted
  <1>5. QueuedOnce'
    BY <1>1, <1>3 DEF QueuedOnce
  <1>6. NotGrantedBefore'
    BY <1>1, <1>2, <1>3 DEF NotGrantedBefore, QueuedOnce, Working
  <1>7. RefusedIsOver'
    BY <1>1, <1>3 DEF RefusedIsOver, Working
  <1>8. AnswersAreTrue'
    BY <1>1, <1>3 DEF AnswersAreTrue, RefusedIsOver, Working
  <1> QED
    BY <1>4, <1>5, <1>6, <1>7, <1>8

LEMMA EmitResultAnswers ==
  ASSUME QueueInv, AnswersInv, EmitResult
  PROVE  AnswersInv'
  <1> USE DEF AnswersInv
  <1>1. /\ pc \in {"emitSuccess", "emitFailure"} /\ pc' = "complete"
        /\ UNCHANGED <<ticket, queue, active, stalls, job, granted>>
    BY DEF EmitResult, redis
  <1>2. /\ job \in active /\ job \in Requests /\ phase[job] # "new" /\ ticket[job] # NoTicket
    BY <1>1, TicketAssumption DEF QueueInv, QueueTypeOK, JobsAreSent
  <1>3. \A r \in Requests : \/ phase'[r] = phase[r]
                            \/ /\ Event(r) = Event(job)
                               /\ phase'[r] = IF pc = "emitSuccess" THEN "success" ELSE "rejected"
    BY DEF EmitResult, Emit
  <1>4. \A r \in Requests : phase'[r] = "new" => phase[r] = "new"
    BY <1>1, <1>3
  <1>5. Queued' = Queued /\ \A q \in Requests : OwnEvent(q)' <=> OwnEvent(q)
    BY <1>1 DEF Queued, OwnEvent
  <1>6. \A r \in Requests : OwnEvent(r) /\ Event(r) = Event(job) => r = job
    BY <1>2 DEF OwnEvent, Event
  <1>7. UnsentUnknown'
    BY <1>1, <1>4 DEF UnsentUnknown
  <1>8. QueuedOnce'
    BY <1>1, <1>5 DEF QueuedOnce
  <1>9. NotGrantedBefore' /\ SuccessIsGranted'
    BY <1>1, <1>5 DEF NotGrantedBefore, SuccessIsGranted, Working
  <1>10. RefusedIsOver'
    <2>1. SUFFICES ASSUME NEW r \in Requests, ticket'[r] # NoTicket, OwnEvent(r)',
                          phase'[r] = "rejected", stalls'[r] = 0
                   PROVE  r \notin Queued' /\ ~(job' = r /\ pc' \in Working)
      BY DEF RefusedIsOver
    <2>2. CASE phase'[r] = phase[r]
      BY <1>1, <1>5, <2>1, <2>2 DEF RefusedIsOver, Working
    <2>3. CASE r = job
      BY <1>1, <1>2, <1>5, <2>1, <2>3 DEF QueuedOnce, Working
    <2> QED
      BY <1>3, <1>5, <1>6, <2>1, <2>2, <2>3
  <1>11. AnswersAreTrue'
    <2>1. SUFFICES ASSUME NEW r \in Requests, ticket'[r] # NoTicket, OwnEvent(r)'
                   PROVE  /\ phase'[r] = "success" => r \in granted'
                          /\ phase'[r] = "rejected" /\ stalls'[r] = 0 => r \notin granted'
      BY DEF AnswersAreTrue
    <2>2. CASE phase'[r] = phase[r]
      BY <1>1, <1>5, <2>1, <2>2 DEF AnswersAreTrue
    <2>3. CASE r = job /\ phase'[r] = IF pc = "emitSuccess" THEN "success" ELSE "rejected"
      BY <1>1, <1>2, <2>3 DEF SuccessIsGranted, NotGrantedBefore
    <2> QED
      BY <1>3, <1>5, <1>6, <2>1, <2>2, <2>3
  <1> QED
    BY <1>7, <1>8, <1>9, <1>10, <1>11

LEMMA AnswersInit == Init => AnswersInv
  BY DEF Init, QueueInit, AnswersInv, UnsentUnknown, QueuedOnce, NotGrantedBefore,
         SuccessIsGranted, RefusedIsOver, AnswersAreTrue, Queued

LEMMA AnswersStep == IInv /\ AnswersInv /\ [Next]_vars => AnswersInv'
  <1> SUFFICES ASSUME IInv, AnswersInv, [Next]_vars
               PROVE  AnswersInv'
    OBVIOUS
  <1>1. QueueInv
    BY DEF IInv
  <1>2. CASE RequestsNext
    <2>1. ASSUME NEW r \in Requests, WaitFinish(r) \/ Timeout(r)
          PROVE  AnswersInv'
      <3>1. /\ UNCHANGED <<ticket, queue, active, stalls, pc, job, granted>>
            /\ \A q \in Requests : \/ phase'[q] = phase[q]
                                   \/ phase'[q] \in {"waiting", "retry"}
        BY <1>1, <2>1 DEF WaitFinish, Timeout, redis, consumer, QueueInv, QueueTypeOK
      <3> QED
        BY <3>1, QuietAnswers
    <2> QED
      BY <1>1, <1>2, <2>1, AddJoinQueueAnswers, MoveStalledJobAnswers DEF RequestsNext
  <1>3. CASE WorkerStep
    <2>1. CASE GetJoin \/ GetMeetup \/ AddJoinThrows
      <3>1. /\ UNCHANGED <<ticket, phase, queue, active, stalls, job, granted>>
            /\ pc \in Working /\ pc' \in {"getMeetup", "insert", "emitFailure"}
        BY <2>1 DEF GetJoin, GetMeetup, ReadPasses, AddJoinThrows, requests, redis, Working
      <3> QED
        BY <3>1, QuietAnswers
    <2>2. CASE Complete
      <3>1. /\ UNCHANGED <<ticket, phase, queue, stalls, granted>>
            /\ active' \subseteq active /\ pc' = "idle"
        BY <2>2 DEF Complete, requests
      <3> QED
        BY <3>1, QuietAnswers DEF Working
    <2> QED
      BY <1>1, <1>3, <2>1, <2>2, TakeJobAnswers, EmitResultAnswers DEF WorkerStep
  <1>4. CASE Crash
    <2>1. /\ UNCHANGED <<ticket, queue, active, stalls, granted>> /\ pc' = "idle"
          /\ \A q \in Requests : phase'[q] = phase[q] \/ phase'[q] = "lost"
      BY <1>4 DEF Crash, CrashQueue, redis
    <2> QED
      BY <2>1, QuietAnswers DEF Working
  <1>5. CASE UNCHANGED queueVars
    <2>1. UNCHANGED <<ticket, phase, queue, active, stalls, pc, job, granted>>
      BY <1>5 DEF queueVars, requests, redis, consumer
    <2> QED
      BY <2>1, QuietAnswers
  <1> QED
    BY <1>1, <1>2, <1>3, <1>4, <1>5, InsertSucceedsAnswers DEF Next, vars

\* A client whose event name is its own is told the truth: of success only when
\* its own join was inserted, of failure only when none was, unless a crash made
\* its job run a second time (meetups.service.ts, addJoinQueue and waitFinish).
THEOREM AnswersAreTrueHolds == Spec => []AnswersAreTrue
  <1>1. AnswersInv => AnswersAreTrue
    BY DEF AnswersInv
  <1> QED
    BY <1>1, AnswersInit, AnswersStep, Invariance, PTL DEF Spec
=============================================================================
