------------------------------- MODULE Meetups -------------------------------
(***************************************************************************)
(* The meetup service: the join queue and the handlers that change meetups *)
(* directly, interleaved over the same two tables, in one process that can *)
(* crash and is started again.                                             *)
(***************************************************************************)
EXTENDS JoinQueue, MeetupCalls

vars == <<store, call, queueVars>>

TypeOK == StoreTypeOK /\ CallsTypeOK /\ QueueTypeOK

Init == StoreInit /\ CallsInit /\ QueueInit

\* A crash ends every call where it is; what the database committed stays.
Crash ==
  /\ CrashQueue
  /\ call' = [h \in Handlers |-> Idle]
  /\ UNCHANGED store

Next ==
  \/ RequestsNext /\ UNCHANGED <<store, call>>
  \/ WorkerStep /\ UNCHANGED <<store, call>>
  \/ InsertSucceeds /\ UNCHANGED call
  \/ CallsNext /\ UNCHANGED queueVars
  \/ Crash

\* The consumer never stops while the process runs, Bull checks for stalled
\* jobs periodically, the Redis reply and the timer of a request arrive.
\* Nothing obliges a client to send anything, or a call to make progress.
Fairness ==
  /\ WF_vars((WorkerStep /\ UNCHANGED <<store, call>>) \/ (InsertSucceeds /\ UNCHANGED call))
  /\ \A r \in Requests :
       /\ WF_vars(MoveStalledJob(r) /\ UNCHANGED <<store, call>>)
       /\ WF_vars(WaitFinish(r) /\ UNCHANGED <<store, call>>)
       /\ WF_vars(Timeout(r) /\ UNCHANGED <<store, call>>)

Spec == Init /\ [][Next]_vars
FairSpec == Spec /\ Fairness

-----------------------------------------------------------------------------
\* Safety.

\* No meetup ever has more participants than its capacity: addJoin reads the
\* number of joins and inserts in two statements, and only the single
\* consumer keeps two joins from passing the check on the same last seat
\* (README, "Bull Queue"; meetups.service.ts addJoin).
Capacity == \A m \in Meetups : Cardinality(joins[m]) <= headcount[m]

\* A participant is always a participant of a meetup that exists: addJoin may
\* insert after the meetup it read has been deleted, and only the foreign key
\* of the join table stops it.
NoOrphanJoin == \A m \in Meetups : joins[m] # {} => HasRow(m)

\* Two requests wait for one event name only when the same user drew the same
\* random number twice.
OwnEvent(r) ==
  \A q \in Requests \ {r} :
    ticket[q] = NoTicket \/ <<ticket[q].user, ticket[q].nonce>> #
                            <<ticket[r].user, ticket[r].nonce>>

\* Unless its event name is shared, a client is told of success only when its
\* own join was inserted, and of failure only when it was not; a job that ran
\* again after a crash may insert what the first run refused.
AnswersAreTrue ==
  \A r \in Requests : ticket[r] # NoTicket /\ OwnEvent(r) =>
    /\ phase[r] = "success" => r \in granted
    /\ phase[r] = "rejected" /\ stalls[r] = 0 => r \notin granted

\* A meetup moves forward only: the late soft delete of a host who closes the
\* recruitment must not bring back a meetup that was deleted in between.
ForwardOnly ==
  [][\A m \in Meetups : status'[m] # status[m] =>
       <<status[m], status'[m]>> \in
         {<<"unborn", "open">>, <<"open", "closed">>,
          <<"open", "gone">>, <<"closed", "gone">>}]_vars

\* The service implements the board: whatever the interleaving, each
\* transaction is one move on the board, and an insert of addJoin, decided
\* on reads that may be stale, still takes a seat that is free.
Board == INSTANCE MeetupBoard WITH
  life <- [m \in Meetups |-> IF HasRow(m) THEN "live" ELSE status[m]],
  seats <- headcount,
  members <- joins
ImplementsBoard == Board!Spec

-----------------------------------------------------------------------------
\* Liveness.

\* Every accepted job is eventually finished or dropped, also when crashes
\* interrupt it: it never stays in Redis for ever.
JobsDrain ==
  \A r \in Requests :
    r \in active \cup {queue[i] : i \in 1 .. Len(queue)}
      ~> r \notin active \cup {queue[i] : i \in 1 .. Len(queue)}

\* Every client is eventually answered, unless the process died under its
\* connection: even when the event was emitted before waitFinish added the
\* listener, or another request's timer removed it.
ClientsAnswered ==
  \A r \in Requests :
    phase[r] \in {"queued", "waiting"} ~> phase[r] \in Answers \cup {"lost"}

-----------------------------------------------------------------------------
\* What the documents promise and the code does not keep.

\* README.md:50 - pressing "close recruitment" opens the chat among the
\* participants: nobody joins a closed meetup.  addJoin inserts although the
\* host closed it after getMeetup.
ClosedToNewcomers ==
  [][\A m \in Meetups : status[m] = "closed" => joins'[m] \subseteq joins[m]]_vars

\* chat.repository.ts:73 - when one participant was left, leaving removes the
\* meetup too.  Two participants who leave at once both read two joins.
LastOneOutRemoves == \A m \in Meetups : HasRow(m) => joins[m] # {}
=============================================================================
