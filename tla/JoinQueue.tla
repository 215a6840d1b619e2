------------------------------ MODULE JoinQueue ------------------------------
(***************************************************************************)
(* Joining a meetup.  The handler of POST api/meetups/:id/join adds a job  *)
(* to a Bull queue in Redis and then waits at most two seconds for an      *)
(* event that carries the result; a consumer of concurrency 1 takes the    *)
(* jobs one after the other, executes addJoin and emits the event.  The    *)
(* queue survives a crash of the process; the consumer's progress and the  *)
(* listeners do not.                                                       *)
(***************************************************************************)
EXTENDS MeetupStore, Sequences

CONSTANTS Requests,     \* the join requests clients send
          Nonces,       \* the random part of an event name
          NoTicket,     \* what a request not sent yet asks for
          NoJob,        \* the job of a consumer that has none
          MaxCrashes    \* bound on crashes of the process

Tickets == [meetup : Meetups, user : Users, nonce : Nonces]

ASSUME TicketAssumption == NoTicket \notin Tickets /\ NoJob \notin Requests
ASSUME MaxCrashesAssumption == MaxCrashes \in Nat

\* Bull moves a job back at most once (maxStalledCount).
MaxStalledCount == 1

VARIABLES ticket,       \* ticket[r]: the job data of request r
          phase,        \* phase[r]: what the client of request r knows
          listeners,    \* the requests whose listener is registered
          queue,        \* Redis: the waiting jobs, the next one first
          active,       \* Redis: the jobs handed to a consumer
          stalls,       \* Redis: how often a job was found stalled
          pc,           \* the statement the consumer is about to execute
          job,          \* the job the consumer works on
          granted,      \* history: the requests whose join was inserted
          crashes       \* number of crashes so far

requests == <<ticket, phase, listeners>>
redis == <<queue, active, stalls>>
consumer == <<pc, job>>
queueVars == <<requests, redis, consumer, granted, crashes>>

Answers == {"success", "rejected", "retry"}
Phases == {"new", "queued", "waiting", "lost"} \cup Answers
PCs == {"idle", "getJoin", "getMeetup", "insert",
        "emitSuccess", "emitFailure", "complete"}

QueueTypeOK ==
  /\ ticket \in [Requests -> Tickets \cup {NoTicket}]
  /\ phase \in [Requests -> Phases]
  /\ listeners \in SUBSET Requests
  /\ queue \in Seq(Requests)
  /\ active \in SUBSET Requests
  /\ stalls \in [Requests -> Nat]
  /\ pc \in PCs
  /\ job \in Requests \cup {NoJob}
  /\ granted \in SUBSET Requests
  /\ crashes \in Nat

QueueInit ==
  /\ ticket = [r \in Requests |-> NoTicket]
  /\ phase = [r \in Requests |-> "new"]
  /\ listeners = {}
  /\ queue = <<>>
  /\ active = {}
  /\ stalls = [r \in Requests |-> 0]
  /\ pc = "idle"
  /\ job = NoJob
  /\ granted = {}
  /\ crashes = 0

-----------------------------------------------------------------------------
\* The handler of the join request.

\* (mutant) An event name without the user.
EventWithoutUser(r) == <<ticket[r].nonce>>

\* finishJoin-<userId>-<random number>.
Event(r) == <<ticket[r].user, ticket[r].nonce>>

\* addJoinQueue draws the event name and adds the job; Redis has the job
\* from here on, the handler still awaits the reply.
AddJoinQueue(r, m, u, n) ==
  /\ phase[r] = "new"
  /\ ticket' = [ticket EXCEPT ![r] = [meetup |-> m, user |-> u, nonce |-> n]]
  /\ phase' = [phase EXCEPT ![r] = "queued"]
  /\ queue' = Append(queue, r)
  /\ UNCHANGED <<listeners, active, stalls, consumer, granted, crashes>>

\* The reply arrives: waitFinish starts the timer and adds the listener.
WaitFinish(r) ==
  /\ phase[r] = "queued"
  /\ phase' = [phase EXCEPT ![r] = "waiting"]
  /\ listeners' = listeners \cup {r}
  /\ UNCHANGED <<ticket, redis, consumer, granted, crashes>>

\* removeAllListeners(eventName): also the listeners of other requests that
\* wait for the same event.
ListenersWithout(event) == {r \in listeners : Event(r) # event}

\* (mutant) The timer removes the listener but does not resolve the promise.
TimeoutUnresolved(r) ==
  /\ phase[r] = "waiting"
  /\ listeners' = ListenersWithout(Event(r))
  /\ UNCHANGED <<ticket, phase, redis, consumer, granted, crashes>>

\* The two seconds are over.
Timeout(r) ==
  /\ phase[r] = "waiting"
  /\ phase' = [phase EXCEPT ![r] = "retry"]
  /\ listeners' = ListenersWithout(Event(r))
  /\ UNCHANGED <<ticket, redis, consumer, granted, crashes>>

\* eventEmitter.emit: every listener of the event answers its client.
Emit(event, answer) ==
  /\ phase' = [r \in Requests |->
                 IF r \in listeners /\ Event(r) = event THEN answer ELSE phase[r]]
  /\ listeners' = ListenersWithout(event)

-----------------------------------------------------------------------------
\* The consumer: handleAddJoinQueue calls addJoin.

TakeJob ==
  /\ pc = "idle" /\ queue # <<>>
  /\ job' = Head(queue)
  /\ queue' = Tail(queue)
  /\ active' = active \cup {Head(queue)}
  /\ pc' = "getJoin"
  /\ UNCHANGED <<requests, stalls, granted, crashes>>

\* A SELECT of addJoin finds nothing against the join.
ReadPasses(at, ok, next) ==
  /\ pc = at /\ ok
  /\ pc' = next
  /\ UNCHANGED <<requests, redis, job, granted, crashes>>

GetJoin == ReadPasses("getJoin",
  ticket[job].user \notin joins[ticket[job].meetup], "getMeetup")

\* (mutant) The capacity check lets one too many in.
HasRoomOffByOne(m) == Readable(m) /\ headcount[m] >= Cardinality(joins[m])

HasRoom(m) == Readable(m) /\ headcount[m] > Cardinality(joins[m])

GetMeetup == ReadPasses("getMeetup", HasRoom(ticket[job].meetup), "insert")

InsertSucceeds ==
  /\ pc = "insert"
  /\ InsertJoin(ticket[job].meetup, ticket[job].user)
  /\ granted' = granted \cup {job}
  /\ pc' = "emitSuccess"
  /\ UNCHANGED <<requests, redis, job, crashes>>

\* (mutant) An exception on the way never reaches the catch block.
AddJoinThrowsUncaught ==
  /\ pc \in {"getJoin", "getMeetup", "insert"}
  /\ FALSE
  /\ UNCHANGED <<requests, redis, consumer, granted, crashes>>

\* A read refuses the join (Conflict, NotFound, Forbidden), a key refuses
\* the row, or the database fails: all end in the catch block.
AddJoinThrows ==
  /\ pc \in {"getJoin", "getMeetup", "insert"}
  /\ pc' = "emitFailure"
  /\ UNCHANGED <<requests, redis, job, granted, crashes>>

EmitResult ==
  /\ \/ pc = "emitSuccess" /\ Emit(Event(job), "success")
     \/ pc = "emitFailure" /\ Emit(Event(job), "rejected")
  /\ pc' = "complete"
  /\ UNCHANGED <<ticket, redis, job, granted, crashes>>

\* Bull removes the finished job (removeOnComplete).
Complete ==
  /\ pc = "complete"
  /\ active' = active \ {job}
  /\ pc' = "idle"
  /\ job' = NoJob
  /\ UNCHANGED <<requests, queue, stalls, granted, crashes>>

\* The stalled checker finds a job whose consumer died: it is next in line
\* again, or is dropped (removeOnFail) when that happened too often.
MoveStalledJob(r) ==
  /\ r \in active /\ r # job
  /\ active' = active \ {r}
  /\ stalls' = [stalls EXCEPT ![r] = @ + 1]
  /\ queue' = IF stalls[r] < MaxStalledCount THEN <<r>> \o queue ELSE queue
  /\ UNCHANGED <<requests, consumer, granted, crashes>>

\* The process dies and its container is started again: every connection
\* breaks, and the consumer forgets its job.
CrashQueue ==
  /\ crashes < MaxCrashes
  /\ crashes' = crashes + 1
  /\ phase' = [r \in Requests |->
                 IF phase[r] \in {"queued", "waiting"} THEN "lost" ELSE phase[r]]
  /\ listeners' = {}
  /\ pc' = "idle"
  /\ job' = NoJob
  /\ UNCHANGED <<ticket, redis, granted>>

WorkerStep ==
  TakeJob \/ GetJoin \/ GetMeetup \/ AddJoinThrows \/ EmitResult \/ Complete

RequestsNext ==
  \/ \E r \in Requests, m \in Meetups, u \in Users, n \in Nonces :
       AddJoinQueue(r, m, u, n)
  \/ \E r \in Requests :
       \/ WaitFinish(r)
       \/ Timeout(r)
       \/ MoveStalledJob(r)
=============================================================================
