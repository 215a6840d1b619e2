----------------------------- MODULE MeetupStore -----------------------------
(***************************************************************************)
(* The two MySQL tables the meetup features share: "meetup" (one row per   *)
(* meetup, soft-deleted through deletedAt) and "join" (primary key         *)
(* (meetupId, userId), foreign key to "meetup" with ON DELETE CASCADE).    *)
(* Every operator below is ONE statement or ONE transaction, which MySQL   *)
(* executes atomically; what the services do between two statements is     *)
(* in JoinQueue and MeetupCalls.                                           *)
(***************************************************************************)
EXTENDS Integers, FiniteSets

CONSTANTS Users,        \* user ids
          Meetups,      \* meetup ids, handed out by AUTO_INCREMENT: never reused
          Headcounts,   \* the capacities clients ask for
          NoUser        \* the host of a meetup that has no row

\* The validation pipe lets a capacity through only when it is an integer in
\* this range.
HeadcountRange == 2 .. 8

ASSUME HeadcountsAssumption == Headcounts \subseteq HeadcountRange
ASSUME NoUserAssumption == NoUser \notin Users

VARIABLES status,       \* "unborn", "open", "closed" (soft-deleted) or "gone"
          host,         \* meetup.userId
          headcount,    \* meetup.headcount, 0 without a row
          joins         \* the users of the join rows of the meetup

store == <<status, host, headcount, joins>>

StoreTypeOK ==
  /\ status \in [Meetups -> {"unborn", "open", "closed", "gone"}]
  /\ host \in [Meetups -> Users \cup {NoUser}]
  /\ headcount \in [Meetups -> HeadcountRange \cup {0}]
  /\ joins \in [Meetups -> SUBSET Users]

StoreInit ==
  /\ status = [m \in Meetups |-> "unborn"]
  /\ host = [m \in Meetups |-> NoUser]
  /\ headcount = [m \in Meetups |-> 0]
  /\ joins = [m \in Meetups |-> {}]

-----------------------------------------------------------------------------
\* The row exists, soft-deleted or not: what a foreign key sees.
HasRow(m) == status[m] \in {"open", "closed"}

\* getMeetup finds the row: TypeORM filters soft-deleted rows out.
Readable(m) == status[m] = "open"

\* (mutant) The host's seat is taken off the capacity as well.
InsertMeetupLessHost(m, u, n) ==
  /\ status[m] = "unborn"
  /\ status' = [status EXCEPT ![m] = "open"]
  /\ host' = [host EXCEPT ![m] = u]
  /\ headcount' = [headcount EXCEPT ![m] = n - 1]
  /\ joins' = [joins EXCEPT ![m] = {u}]

\* MeetupsRepository.createMeetup: the row and the host's join in a
\* transaction; a failure rolls both back, so that nothing happens.
InsertMeetup(m, u, n) ==
  /\ status[m] = "unborn"
  /\ status' = [status EXCEPT ![m] = "open"]
  /\ host' = [host EXCEPT ![m] = u]
  /\ headcount' = [headcount EXCEPT ![m] = n]
  /\ joins' = [joins EXCEPT ![m] = {u}]

\* (mutant) A join table without its foreign key.
CanInsertJoinAnywhere(m, u) == u \notin joins[m]

\* INSERT INTO join succeeds: the foreign key and the primary key allow it.
CanInsertJoin(m, u) == HasRow(m) /\ u \notin joins[m]

InsertJoin(m, u) ==
  /\ CanInsertJoin(m, u)
  /\ joins' = [joins EXCEPT ![m] = @ \cup {u}]
  /\ UNCHANGED <<status, host, headcount>>

\* DELETE FROM join; it affects no row when there is none.
DeleteJoinRow(m, u) ==
  /\ joins' = [joins EXCEPT ![m] = @ \ {u}]
  /\ UNCHANGED <<status, host, headcount>>

\* (mutant) The loaded entity is saved with deletedAt, not soft-deleted by id.
SaveDeletedMeetup(m) ==
  /\ status' = [status EXCEPT ![m] = "closed"]
  /\ UNCHANGED <<host, headcount, joins>>

\* UPDATE meetup SET deletedAt = now WHERE id = m AND deletedAt IS NULL.
SoftDeleteMeetup(m) ==
  /\ status' = [status EXCEPT ![m] = IF Readable(m) THEN "closed" ELSE @]
  /\ UNCHANGED <<host, headcount, joins>>

\* (mutant) No ON DELETE CASCADE: the join rows stay.
DeleteMeetupRowOnly(m) ==
  /\ status' = [status EXCEPT ![m] = IF HasRow(m) THEN "gone" ELSE @]
  /\ host' = [host EXCEPT ![m] = NoUser]
  /\ headcount' = [headcount EXCEPT ![m] = 0]
  /\ UNCHANGED joins

\* DELETE FROM meetup, soft-deleted or not: the join rows go with it.
DeleteMeetupRow(m) ==
  /\ status' = [status EXCEPT ![m] = IF HasRow(m) THEN "gone" ELSE @]
  /\ host' = [host EXCEPT ![m] = NoUser]
  /\ headcount' = [headcount EXCEPT ![m] = 0]
  /\ joins' = [joins EXCEPT ![m] = {}]
=============================================================================
