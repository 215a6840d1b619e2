------------------------------- MODULE DbPool -------------------------------
(***************************************************************************)
(* The pool of database connections that every request of the process      *)
(* shares (createTypeOrmOptions names no limit: the driver's default of    *)
(* ten holds, and a request that finds none free waits its turn without a  *)
(* time limit).                                                            *)
(*                                                                         *)
(* A plain query takes a connection and gives it back.  A transaction      *)
(* (createMeetup, and with the same shape createPhotospot and              *)
(* modifyPhotospot) gives its connection back in a finally block, but      *)
(* takes it, and begins, before the try block: when a statement fails      *)
(* there, the connection is never given back.  exitChatRoom does even its  *)
(* first query there, and throws there for a user who takes no part.       *)
(***************************************************************************)
EXTENDS Naturals, Sequences, FiniteSets

CONSTANTS Clients,    \* each sends one request at a time
          PoolSize    \* the connections the driver opens at most

ASSUME PoolSizeAssumption == PoolSize \in Nat \ {0}

VARIABLES joined,   \* who has a join row of the meetup whose room is left
          request,  \* what each user's request is and how far it has come
          free,     \* how many connections may be taken
          waiters,  \* the users whose requests wait for one, in order
          strangers, \* history: exits by users who take no part, since the start
          failures   \* history: statements that failed before the try block, with
                     \* the connection left open, since the start

poolVars == <<joined, request, free, waiters, strangers, failures>>

Kinds == {"query", "createMeetup", "exitChatRoom"}
Resting == [kind |-> "none", at |-> "answered"]

PoolInit ==
  /\ joined \in SUBSET Clients
  /\ request = [u \in Clients |-> Resting]
  /\ free = PoolSize
  /\ waiters = <<>>
  /\ strangers = 0 /\ failures = 0

Stands(u, kind, place) == request[u] = [kind |-> kind, at |-> place]

-----------------------------------------------------------------------------
(* The pool.                                                               *)

Connect(u, kind) ==
  \/ /\ free > 0
     /\ free' = free - 1
     /\ request' = [request EXCEPT ![u] = [kind |-> kind, at |-> "connected"]]
     /\ UNCHANGED waiters
  \/ /\ free = 0
     /\ waiters' = Append(waiters, u)
     /\ request' = [request EXCEPT ![u] = [kind |-> kind, at |-> "waiting"]]
     /\ UNCHANGED free

\* the answer to u, with the connection handed to the first who waits
Release(u) ==
  \/ /\ waiters = <<>>
     /\ free' = free + 1
     /\ request' = [request EXCEPT ![u] = Resting]
     /\ UNCHANGED waiters
  \/ /\ waiters # <<>>
     /\ request' = [request EXCEPT ![u] = Resting, ![Head(waiters)].at = "connected"]
     /\ waiters' = Tail(waiters)
     /\ UNCHANGED free

-----------------------------------------------------------------------------
(* The requests.                                                           *)

Ask(u, kind) ==
  /\ request[u] = Resting
  /\ Connect(u, kind)
  /\ UNCHANGED <<joined, strangers, failures>>

\* The repository gives the connection back, whether the query succeeded or not.
Query(u) ==
  /\ Stands(u, "query", "connected")
  /\ Release(u)
  /\ UNCHANGED <<joined, strangers, failures>>

\* (mutant) the connection is given back after the first query as well
JoinFoundReleasing(u) ==
  /\ Stands(u, "exitChatRoom", "connected")
  /\ u \in joined
  /\ free' = free + 1
  /\ request' = [request EXCEPT ![u].at = "found"]
  /\ UNCHANGED <<joined, waiters, strangers, failures>>

JoinFound(u) ==
  /\ Stands(u, "exitChatRoom", "connected")
  /\ \/ /\ u \in joined
        /\ request' = [request EXCEPT ![u].at = "found"]
        /\ UNCHANGED strangers
     \/ /\ u \notin joined
        /\ request' = [request EXCEPT ![u] = Resting]
        /\ strangers' = strangers + 1
  /\ UNCHANGED <<joined, free, waiters, failures>>

TransactionStarted(u) ==
  /\ Stands(u, "createMeetup", "connected") \/ Stands(u, "exitChatRoom", "found")
  /\ request' = [request EXCEPT ![u].at = "begun"]
  /\ UNCHANGED <<joined, free, waiters, strangers, failures>>

\* A statement before the try block fails, and nobody releases the query runner.
\* The driver drops a connection that broke, and has room for another one.
FailsBeforeTry(u) ==
  /\ Stands(u, "createMeetup", "connected")
       \/ Stands(u, "exitChatRoom", "connected") \/ Stands(u, "exitChatRoom", "found")
  /\ \/ /\ request' = [request EXCEPT ![u] = Resting]
        /\ failures' = failures + 1
        /\ UNCHANGED <<free, waiters>>
     \/ Release(u) /\ UNCHANGED failures
  /\ UNCHANGED <<joined, strangers>>

\* (mutant) the row is written by the repository, outside the transaction:
\* for the time of the insert it needs a second connection
MeetupInsertedElsewhere(u) ==
  /\ Stands(u, "createMeetup", "begun")
  /\ free > 0
  /\ request' = [request EXCEPT ![u].at = "inserted"]
  /\ UNCHANGED <<joined, free, waiters, strangers, failures>>

MeetupInserted(u) ==
  /\ Stands(u, "createMeetup", "begun")
  /\ request' = [request EXCEPT ![u].at = "inserted"]
  /\ UNCHANGED <<joined, free, waiters, strangers, failures>>

JoinInserted(u) ==
  /\ Stands(u, "createMeetup", "inserted")
  /\ Release(u)
  /\ UNCHANGED <<joined, strangers, failures>>

JoinDeleted(u) ==
  /\ Stands(u, "exitChatRoom", "begun")
  /\ joined' = joined \ {u}
  /\ Release(u)
  /\ UNCHANGED <<strangers, failures>>

\* (mutant) release stands behind the try block instead of in its finally block
RollBackUnreleased(u) ==
  /\ request[u].at \in {"begun", "inserted"}
  /\ request' = [request EXCEPT ![u] = Resting]
  /\ UNCHANGED <<joined, free, waiters, strangers, failures>>

\* The catch and finally blocks: a statement of the transaction, or its commit, fails.
RollBack(u) ==
  /\ request[u].at \in {"begun", "inserted"}
  /\ Release(u)
  /\ UNCHANGED <<joined, strangers, failures>>

\* the process is started again, with a new pool
Restart ==
  /\ request' = [u \in Clients |-> Resting]
  /\ free' = PoolSize
  /\ waiters' = <<>>
  /\ strangers' = 0 /\ failures' = 0
  /\ UNCHANGED joined

PoolProgress(u) ==
  \/ Query(u) \/ JoinFound(u) \/ TransactionStarted(u)
  \/ MeetupInserted(u) \/ JoinInserted(u) \/ JoinDeleted(u)

PoolNext ==
  \/ \E u \in Clients : PoolProgress(u) \/ FailsBeforeTry(u) \/ RollBack(u)
  \/ \E u \in Clients, kind \in Kinds : Ask(u, kind)
  \/ Restart

PoolSpec == PoolInit /\ [][PoolNext]_poolVars

\* The database answers every statement, whoever keeps asking.
PoolFairness == \A u \in Clients : WF_poolVars(PoolProgress(u))

FairPoolSpec == PoolSpec /\ PoolFairness

-----------------------------------------------------------------------------
Using == {"connected", "found", "begun", "inserted"}
Holders == {u \in Clients : request[u].at \in Using}

(* Every variable has its type, and those who wait are those in the queue. *)
PoolTypeOK ==
  /\ joined \subseteq Clients
  /\ request \in [Clients -> [kind : Kinds \cup {"none"}, at : {"answered", "waiting"} \cup Using]]
  /\ free \in 0..PoolSize
  /\ strangers \in 0..PoolSize /\ failures \in 0..PoolSize
  /\ waiters \in Seq(Clients)
  /\ {waiters[i] : i \in DOMAIN waiters} = {u \in Clients : request[u].at = "waiting"}

(* Whichever way a request ends, its connection comes back, but for two:   *)
(* the exit of a user who takes no part (chat.repository.ts:64), and a     *)
(* statement that fails before the try block (chat.repository.ts:57 and    *)
(* 68, meetups.repository.ts:127) on a connection that stays open.         *)
LossesHaveACause == PoolSize - free - Cardinality(Holders) = strangers + failures

(* Whoever waits for a connection gets one, unless in one of these two     *)
(* ways as many were lost as the pool has: no request that holds one waits *)
(* for another to finish, and nobody in the queue is forgotten.            *)
ServedWhileOneIsLeft ==
  \A u \in Clients :
    request[u].at = "waiting" ~> (request[u].at # "waiting" \/ strangers + failures = PoolSize)

(* What test/chat.repository.spec.ts says of exitChatRoom: it succeeds, or *)
(* it fails with an error; here with a database that never fails.  (The    *)
(* code does not: see the README.)                                         *)
ExitAnswered ==
  [](failures = 0) =>
    \A u \in Clients : request[u].kind = "exitChatRoom" ~> request[u] = Resting
=============================================================================
