# A TLA+ model of Chalkak-Backend

Chalkak is a NestJS service: users share photo spots in collections, announce
meetups and talk in the chat rooms that meetups become. The service keeps its data
in MySQL (TypeORM), its tokens and block markers in Redis (cache-manager), and its
join requests in a Bull queue in Redis; photos go to S3 and through Google Vision.
It runs as **one** Node process in a container that is always restarted
(`.github/workflows`, `docker run --restart always`, the old container is stopped
before the new one starts).

One process does not mean one thing at a time. Every `await` lets any other handler
run, a database statement takes effect between the `await` that sends it and the
continuation that uses its result, some promises are not awaited at all, and a crash
may fall between any two of these. The models below are about exactly that: **a step
is one statement (or one transaction) against a store, or the synchronous code between
two awaits when it changes process state.**

Paths below are relative to the repository; its program is under `src/`.

## 1. Inventory

| Component | State | Operations | What is hard |
|---|---|---|---|
| Meetups (`meetups/`) | rows `meetup` (soft-deleted), `join` (PK, FK with cascade) | create, join (queued), leave, close recruitment (`addChat`), delete, admin delete, lists | read-check-write over several statements; stale reads; cascade |
| Join queue (`meetups.service.ts`, `queue.consumer.ts`) | Bull lists, the consumer's progress, event listeners with a 2 s timer | `addJoinQueue`, `waitFinish`, `addJoin` | result emitted before the listener exists; timer against late answer; shared event names; job run again after a crash |
| Chat rooms (`chat/`, REST) | the same rows, `chat`; a pooled connection | list, leave (`exitChatRoom`), history | count read outside the transaction; connection not given back on several paths |
| Chat gateway (`chat.gateway.ts`) | room list, sockets, `chat` | join, leave, message, disconnection | announcements made after an await; write order against broadcast order |
| Accounts and sessions (`auth/`) | `user`, refresh tokens and block markers with a life in the cache, JWTs at the client | sign up, sign in (local, social), renew, sign out, guards | tokens nobody can revoke; four expiry clocks; renewal racing sign-out and blocking; cache commands nobody awaits; name, look up and insert in three statements |
| E-mail verification (`auth/`, `mailer/`) | verification numbers in the cache | request, verify, reset and change password | number stored after the mail and deleted after use; requests crossing |
| Admin (`admin/`) | `admin` with its refresh token in the row, all content, `faq` | sign in/out, renew, block, delete content, FAQ, lists | cache and row written side by side; cascade differs from the owner's deletion; a row found again under the same account |
| Collections (`collections/`) | `collection`, `collection_keyword` (unique), `collection_like` (PK) | create, update, delete, like, unlike, popular list | find-then-insert on unique keys, compared by the program and by the collation; one insert not awaited; keyword rows shared; counts over joined rows |
| Photospots (`photospot/`) | `photospot`, `photo`, `photo_keyword`, S3 objects | create, modify, delete; labels and safety check running beside the request; recommendation | work started before its transaction commits; decisions on a count read before; statements nobody awaits; rejections nobody handles |
| Storage, vision, mail, social login | none of their own | remote calls | failure of a call in the middle of an operation |
| Guide, configuration, bootstrap | none | read-only, wiring | nothing beyond the connection pool |

How they interact: the meetup handlers, the join consumer, `exitChatRoom` and the admin
share the tables `meetup` and `join`; the gateway opens rooms for closed meetups; the
admin's block writes the cache entry that the user guard reads and the row that signing
in reads; collections own photospots, photospots own photos, and the admin deletes both;
everything shares one pool of database connections, and a rejection that nobody handles in any of
them ends the process of all.

What makes each component correct, as far as the code is meant to (section 3 says where it is not):

- *Meetups and join queue*: never more participants than seats; no join without its
  meetup; a closed or deleted meetup does not come back; a client hears the truth about
  its own request, and hears something; every job ends. A leaver who is the last removes the
  meetup, and only then.
- *Sessions*: a blocked user is stopped within the life of the tokens already given; a
  signed-out session cannot be renewed; an active client need not sign in again while its refresh JWT lasts.
- *Social sign-in*: it ends with the account of the one who signs in, whoever has the same nickname.
- *Verification*: a number serves the purpose it was mailed for, and dies with its use.
- *Administrators*: an account signed up anew admits nobody who was signed in to the old one; signing out
  touches no other session; a token is good until the hour of its sign-in on Sunday.
- *Collections*: likes and updates take effect or say why not; no ordinary request brings the process
  down; the popular list counts each like once and shows keywords that are the collection's.
- *Photospots*: what is listed is stored; every photo gets its labels and its safety check; a deletion that was
  answered is carried out.
- *Gateway*: what is broadcast is stored, in that order; the last alert about a user is true.
- *Lists*: reading to the end shows everything once.
- *Everywhere*: a finished request gives its database connection back.

## 2. Modules

| Module | Models | State and steps |
|---|---|---|
| `MeetupStore` | the tables `meetup` and `join` | `status` (no row yet, open, soft-deleted = closed, row deleted), `host`, `headcount`, `joins`; one operator per SQL statement or transaction |
| `MeetupCalls` | the HTTP handlers that change meetups directly | `call[h]`: the statement handler `h` will execute next, with the values it has read that matter (`alone`); one action per statement |
| `JoinQueue` | join request, Bull queue, consumer | request side `ticket`, `phase`, `listeners`; Redis `queue`, `active`, `stalls`; consumer `pc`, `job`; history `granted` |
| `Meetups` | the three together, with crashes | `Next`, `Spec`, fairness, the properties |
| `MeetupBoard` | the abstract promise | a board where taking a seat is one atomic step; `Meetups` implements it |
| `DbPool` | the connections every request shares | `free`, the queue of `waiters`, and how far each plain query, `createMeetup` transaction or `exitChatRoom` has come. What fails inside a `try` gives the connection back (`RollBack`); what fails before it (`FailsBeforeTry`) may lose it. History `strangers`, `failures`: the two ways a connection is lost |
| `UserSessions` | sign-in, renewal, sign-out, guard, `blockAdminUser`, expiry | lives of tokens and markers counted down by `Tick`; sign-in and renewal split at their awaits; the refresh token has two lives, in the cache and as a JWT; `op[a]` is what the request of administrator `a` still has to do. Stores and updates that fail, and the death of the process. History `spoiled`: users whose last request to block or unblock overlapped another or was not carried out whole; `unstored`: sessions whose store failed |
| `SocialSignIn` | `oauthSignIn` behind `kakaoSignIn` and `naverSignIn`, and the other ways a user row comes about | `users`, and each sign-in between its two calls of the provider and its three statements |
| `EmailVerification` | the tokens mailed for sign-up, change and reset of the password | the cache, mails on their way, requests between reading a token, writing the user and deleting the token; death in between |
| `AdminSessions` | sign-up, sign-in, renewal, sign-out and deletion of administrators | rows with the one refresh token, cookies at the browsers, requests between reading and writing a row, parts of the days of the week |
| `Collections` | create, update and delete with their keywords | rows of collections and keywords, each request between finding keywords, inserting new ones and saving; keywords that are `Alike` to the database and not to the program, and keywords a body names `twice` |
| `CollectionLikes` | like and unlike | `collection_like`, statements on their way that nobody awaits, the death of the process on a duplicate or (history `errors`) any other error |
| `TopCollections` | `getTopCollectionsListForMain` | the joined rows of the query, grouped, counted, ordered and cut, and its keywords concatenated up to a limit and split at commas, as operators over any contents of the tables |
| `Photospots` | uploads, deletions (owner, collection, admin), label task, safety check | `photo` and `spot` rows, the bucket, open transactions and their locks, tasks behind the answers, `sent` statements, deaths of the process; history `without`: photos whose label task went without labels |
| `PhotoLabels` | several label tasks on the table of labels they share; `getRecommendPhoto` | rows of labels (not unique) and what each task has found so far |
| `Listings` | every paged list of users and administrators | one table whose rows are the set of what the queries ask; a client that reads page after page (a page is the set of its rows) while rows change |
| `ChatGateway` | join-room, leave-room, message, disconnection | members of the rooms (one may have the empty name), the gateway's own list, events between their change, insert and broadcast |
| `Meetups_proofs`, `Sessions_proofs`, `Credentials_proofs`, `Photospots_proofs`, `Collections_proofs`, `Listings_proofs`, `ClientViews_proofs`, `Background_proofs` | theorems about these modules | see section 5 |
| `MCMeetups`, `MCPhotospots` | instances for TLC of one system | |
| `MCLiveness`, `MCSessions`, `MCCredentials`, `MCCollections`, `MCClientViews` | instances for TLC of several systems that share no state | `part` says, for a whole behaviour, which of them acts; the others stay in one initial state |

Checking unrelated systems in one run is sound because they share no variable, so that a property of one can
neither be helped nor hurt by the other. A resting system has nothing under way: no action its fairness speaks of is
enabled, so that the fairness demands nothing of it. (Systems that do share
state - the meetup handlers, the queue and the board; uploads, deletions, admin and tasks - are composed for real.)

Definitions marked `(mutant)` are never used by a specification: each is the code with a plausible
mistake, in place of the definition after it, and must make a property fail. Each stands for one mistake: that of `JobsDrain` makes the consumer
hang after a failed statement; a job that Bull marks as failed and drops would be another, which `ClientsAnswered` would not see either, for the timer answers.

### Choices made in the models

General:

- A call that is refused at its first statement changes nothing and is left out. A call that
  is refused later returns there.
- Database errors: a statement that fails has no effect (`CallFails`, `AddJoinThrows`, `Rollback`, `RollBack`, `FailsBeforeTry`,
  `InsertFails`, `DeleteFails`, `BlockRowFails`, `StatementFails`). The case of a statement that took effect although its reply was lost is not modelled.
- A statement that nobody awaits is executed at some later time, in any order with others: the pool may put
  each on another connection.
- A rejected promise that nobody handles ends the process (Node's default; `src/main.ts` installs no handler); Docker starts
  it again. Transactions roll back, tasks and statements not yet sent are lost, MySQL, Redis and S3 stay.
  This includes the cache commands nobody awaits (`SignInUnstored`, `RenewUnstored`, `Crash` of `UserSessions`), un-awaited statements that fail
  for any reason (`InsertFails`, `StatementFails`) and the image service (`ImageServiceFails`).

Meetups:

- The two second timer is not timed: `Timeout` may fire at any moment of the wait. This
  includes every real timing.
- `AddJoinQueue` puts the job into Redis at once and `WaitFinish` registers the listener
  later: the consumer may finish in between, as in the code.
- `Emit` reaches all listeners of the event name, `ListenersWithout` removes all of them:
  names are shared when the same user draws the same random number twice.
- A crash loses handlers, listeners, timers and the consumer's progress, and keeps MySQL and
  Redis. Bull finds the job of the dead consumer (`MoveStalledJob`) and puts it first in line,
  once (`maxStalledCount`), then drops it. That Redis refuses `add` is not modelled.
- Meetup ids come from AUTO_INCREMENT: `unborn` to `open` happens once for an id.
- The pool is the MySQL driver's: ten connections by default, requests that find none wait in order and without a time limit.
  A statement that fails because its connection broke makes the driver drop the connection and room for another; one that fails on a connection that stays open,
  before the `try`, loses it. `FailsBeforeTry` allows both.

Accounts:

- One session is one sign-in; its refresh token is assumed to be unique (the code
  draws one of 10000 numbers per second). A tick never falls inside a request: lives are hours, requests
  milliseconds. `access` is the life of the newest access token only, because a client uses
  that one. The refresh JWT is signed once, at the sign-in: a renewal starts only the life of its cache entry
  again (`JwtLife`, any number). `SignOut` is one step: between its guard and the delete nothing it depends on is read.
- The administrator's cookie holds the two tokens and no id: `signoutAdmin` asks for the row with id `undefined`, and TypeORM
  then returns the first row of the table. `moment().day(7)` is the Sunday after the current week, a week ahead on a Sunday, at the
  present time of day; `Day` parts of a day are told apart.
- The controller of `blockAdminUser` passes on the state to be reached; the two take effect in either order, and either
  may be missing when the update fails or the process dies.
- Social nicknames with a `#` in them are left out (they could imitate a drawn number).

Content:

- Keywords are model values. What the collation takes for equal is the constant `Alike`; which keywords contain a comma, and how many fit into
  `GROUP_CONCAT`, are the constants `WithComma` and `ConcatLimit`. The blank that `split(',')` leaves in front of a keyword is left out.
- A page below 1 is refused by the DTOs, taken for the first by the three lists of meetups, and an error of the database in the list of photos; a
  request without a page shows nothing, so that a walk begins with one that is answered (`Answered`).
- A room may have the empty name (`Unnamed`): the tests of `chat.gateway.ts` take it for none, and it stays on the list for ever.
- A socket stands for its user: two tabs of one user in one room are not covered.
- A photo's file is named by a uuid, so that the photo stands for its object. The rows of an upload are invisible until it commits;
  the transaction that modifies a photospot holds the locks of its rows (`Locked`), and statements on them wait.
- `save` writes the row it was given: it inserts a photo that was deleted since it was read.
- Which photos the image service finds unsafe is chosen at the beginning of a behaviour, among the `Doubtful` ones; when it answers, and whether it does, is open.
  A failure to give labels counts as an answer without any (`imageLabeling` catches its error); a failure to judge a photo ends the process.
- A photospot may exist from before, with photos found safe, so that an upload may add to some that are there.
- A row of a list is the set of what its queries ask (the columns the search term occurs in, own, joined, closed, with photospots),
  and its id its place in time; TypeORM orders a page by id where the query names no order. `whereInIds([])` matches nothing.
- The comparison `isCollectionLiked` of the popular list is left out (it decorates the answer).
- `MCPhotospots` has a `VIEW` that hides history variables its safety properties do not read; it is not used with liveness.

## 3. Runs

| Run | Instance | Properties | Result |
|---|---|---|---|
| `join_queue` | 3 users, 1 meetup of 2 seats, 2 join requests, 2 event numbers, 1 direct call at a time, 1 crash | `TypeOK`, `Capacity`, `AnswersAreTrue`, `NoOrphanJoin`, `ForwardOnly`, `ImplementsBoard` | hold |
| `liveness` | meetups: 2 users, 2 requests, 1 crash; pool: 3 clients, 2 connections; likes: 2 users, 3 requests | `JobsDrain`, `ClientsAnswered`; `LossesHaveACause`, `ServedWhileOneIsLeft`; `CrashNeedsTwoLikes`, `LikeTakesEffect` | hold |
| `sessions` | 1 user, 1 session, 2 administrators, lives of 2/2/6 ticks and a JWT of 8; 2 administrators' accounts, 2 browsers, weeks of 2 days of 2 parts | `MarkerOutlivesTokens`, `UnblockedIsFree`, `SignOutEndsSession`, `CanRenew`; `OldCookiesStayOut`, `RenewsUntilSunday` | hold |
| `credentials` | 2 requests, 3 tokens, 2 passwords; 2 sign-ins, 3 identities at 2 providers, 1 nickname, 2 numbers | `PurposesStayApart`, `UsedTokensDie`; `FailsOnlyWhenUnlucky` | hold |
| `collections` | 2 requests, 2 collections, 3 keywords of which 2 are alike, 2 to a body; 3 photos, 2 labels; 3 collections with 2 keywords (one contains a comma, one fits) and up to 2 photospots, 2 users | `RefusedForAReason`; `LabelsAreKept`; `MostLikedAreShown` | hold |
| `client_views` | 4 rows, pages of 2, 1 change during the walk, each of the lists; 2 sockets, 2 rooms, one of them without a name, 3 events | `NothingMissed`, `RepeatsForAReason`; `CreatedRoomsAreOpen`, `HeardInOrder`, `AlertIsTrueOneByOne` | hold |
| `photospots` | 1 upload at a time, 1 photospot, perhaps there from before, 2 photos, one perhaps unsafe | `ListedIsStored`, `Attended` | hold |
| `photo_tasks` | the same with 2 requests of owners or administrators, and fairness | `UnsafeIsRemoved`, `DeletionIsCarriedOut`, `LabelsArrive` | hold |
| `closed_to_newcomers` | 2 users, 2 requests, 2 calls | nobody joins a closed meetup (`README.md:50`) | violated |
| `last_one_out` | the same | a meetup never stays without participants (`chat.repository.ts:73`) | violated |
| `blocked_is_stopped` | 2 users, 2 sessions, 1 administrator, the same lives | a blocked user is out once the access token has expired (`README.md:598`) | violated |
| `exit_answered` | 3 clients, 2 connections, fairness | leaving a chat room succeeds or fails (`chat.repository.spec.ts:80`) | violated |

Each passing run also checks the type invariant of its modules (`TypeOK`, `PhotoTypeOK`, and `TypesOK` where it composes several).

Many properties name their exceptions (a process that died, a photo written back, labels that came early or not at all, two handlers that
overlapped, a number already drawn, a keyword with a comma). Each exception is a history variable that is set by the very step of
the code that causes it, so that the property says: *this, and nothing else, can go wrong.*
The broadest of them is `crashed` in `Photospots`: any death of the process, whatever its cause, loses every task and statement not yet sent,
and nothing in the code takes them up again.

### What the violated runs show

- **A newcomer in a closed meetup.** `addJoin` reads the open meetup, the host closes it, `addJoin` inserts:
  the soft-deleted row satisfies the foreign key.
- **An empty meetup that stays.** `exitChatRoom` counts the joins before its
  transaction. Two leavers both count two and nobody removes the meetup.
- **A blocked user who stays.** `renewAccessToken` never reads `isBlock`; the marker lives one hour, renewals go on.
- **An exit without an answer.** A user who takes no part makes `exitChatRoom` throw between taking its connection and the
  `try` whose `finally` gives it back. The run assumes a database that never fails. When all connections are lost, the next request waits for ever.

### Also seen while modelling

Consequences of the code as the models show it; no run is devoted to them:

- A leaver who counted one participant removes the meetup together with the user who joined meanwhile; the chat endpoint also lets the host
  of an open meetup leave, which `deleteJoin` refuses.
- Two joins of one user for two meetups with the same random number hear one answer. A renewal that has read the
  refresh token stores it again after a sign-out deleted it.
- Deleting a collection soft-removes keyword rows other collections use; creating a collection with such a keyword then fails on the unique column.
- Keywords in the popular list have a blank in front from the second on. Two label tasks may give one label two rows, and photos that have different ones are not
  recommended to each other.
- A verification token is mailed before it is stored, and the one deleted at the end is the one stored then.
- A statement that fails before the `try` block loses a connection too (`FailsBeforeTry`); the same shape is in `createPhotospot` and `modifyPhotospot`.
- One body that names a new keyword twice, or in another case than a stored one, is refused by the unique column with an error of the server.
- A keyword with a comma comes back from the popular list in pieces; keywords beyond 1024 bytes are cut.
- A failing cache command in blocking, signing in or renewing ends the process; row and marker of a user may then disagree.
- A second sign-out of an administrator hits the oldest account, whoever signs out.

### Bounds, and why they are enough

*Meetups.* Headcount 2 is the smallest the DTO accepts; with three users somebody is left outside, and the last seat is
contended as soon as the host holds the other. Two requests cover every pair of competing
jobs, a shared and an unshared event name; one consumer at a time makes a third job a repetition of the second.
One direct call at a time interleaves every handler with every stage of the consumer and the crash; two at a time are in the runs that look
for violations. One crash reaches every stage of the
consumer and the re-run; `MaxStalledCount` then matters only for a second crash (the proofs hold for any number). Meetups share only the queue.

*Pool.* Two connections and three clients: one may be lost and one left, all in use and one waiting, all lost.
*Sessions.* One user, because users share nothing but the administrators' attention; one session, because sessions of a user share nothing but row and marker (the proofs hold for any number of both); the session and two administrators meet at every await. Two ticks per hour let a token be issued, a marker be set and both expire at different moments, and a JWT of eight outlives the cache entry by two; a week of two days has a Sunday
and another day, and two parts of a day an hour before and after the sign-in; `MaxId`, `MaxToken`, `MaxTime` bound the numbers drawn, enough for an account to be deleted and signed up anew while
an older sign-in goes on. *Credentials.* Three tokens: one used, one replaced, one for another purpose; two identities at one provider and one at the
other share a nickname and may exhaust the numbers. *Collections.* Two requests on shared keywords meet at each of the statements, and two keywords of a body (`MaxWords`) may be alike to each other or to a stored one; three candidates and a limit of two leave one out.
*Lists.* Four rows and pages of two make a full, a short and an empty last page; `MaxChanges = 1` is a change at any point of the walk, which
moves rows across a page boundary in either direction. *Chat.* Three events overlap in every order and let a
client hear two about one user. *Photospots.* Two photos distinguish the only photo from one of several. `MaxRequests` bounds the requests: with liveness to two, enough for an upload to an existing
photospot and a deletion during it (three take longer than minutes); in `photospots` it is 20, more than any state
needs (the view hides the count, and a larger bound finds no further state).

`CHECK_DEADLOCK FALSE` where the system may stop: a service nobody calls rests, and requests, meetup ids,
photos and events are bounded. `credentials`, `blocked_is_stopped` and `exit_answered` check deadlock. Symmetry is used where no liveness is checked; no definition
tells two elements of a symmetric set apart.

### Fairness

- `Fairness` (meetups): weak fairness of the consumer's steps (Bull hands out waiting jobs, MySQL answers or fails, and
  `addJoin` catches everything), of the stalled checker (Bull runs it every 30 s), of the reply of `joinQueue.add`, and of the
  timer of each waiting request. Nothing about clients, direct handlers or crashes; crashes are finite in number.
- `PoolFairness`: a request that holds a connection goes on, because the database answers; that it fails (`RollBack`) is possible and
  never demanded. A request that waits has no fairness of its own: it is served by those who give back.
- `LikeFairness`: a statement that was sent is executed.
- `PhotoFairness`: uploads and tasks go on; statements that wait for row locks get them in turn (InnoDB serves waiting requests in order), hence
  strong fairness of these two; nothing about failures, except that a check that finds its photospot deleted rejects.

## 4. Hazards

`PROJECT.json` lists them at their lines, with the properties that cover them, or a note why none does: where no document, comment or test
says what should happen, there is nothing to hold the code to. Three deserve a word:

- A job whose consumer died after the insert runs again after the restart. If its user left in
  between, the second run joins the user again, and a request that was refused just before the crash may be granted after it.
  `AnswersAreTrue` therefore speaks of refusals of jobs that never stalled.
- Two administrators who block and unblock one user at once leave row and marker in
  disagreement: Redis keeps the order of the commands, MySQL need not. So does a request whose update fails or that the process does not survive.
  `spoiled` records exactly these users until a later request about them runs alone and to its end; `MarkerOutlivesTokens` and `UnblockedIsFree` hold for all others, and
  the run has two administrators at work on one user.
- A label task that has read its photo writes it back after an owner deleted it, or after the safety check removed it: `returned` in
  `Photospots`. It is the one way in which an unsafe photo survives without the process dying.

## 5. Proofs

Every safety invariant and every action property of the runs is a theorem, proved by TLAPS for any number of users, requests,
handlers, rows, events, crashes and connections, from the assumptions the modules name. These are: distinguished values lie outside the
sets they extend (`NoUser`, `Idle`, `NoUpload`, `Null`, ...); capacities are those the DTO admits (2..8); the lives of tokens
and markers are ordered as the constants of the code (`LivesAssumption`; nothing is assumed of the JWT's); sizes, weeks and limits are not zero; the
tables a list or a query reads are finite. TLC evaluates all of them in the runs.

Each invariant below is the inductive one; most of the properties are not inductive by themselves. The parts were checked with TLC on the
instances of section 3 before they were proved.

| Module | Theorems (`...Holds` proves the property of that name) | Inductive invariant |
|---|---|---|
| `Meetups_proofs` | `TypeCorrect`, `CapacityHolds`, `NoOrphanJoinHolds`, `ForwardOnlyHolds`, `BoardImplemented`, `AnswersAreTrueHolds` | `IInv`, `AnswersInv` |
| `Sessions_proofs` | `SessionsInvariant`, `MarkerOutlivesTokensHolds`, `UnblockedIsFreeHolds`, `SignOutEndsSessionHolds`, `CanRenewHolds`; `AdminInvariant`, `OldCookiesStayOutHolds`, `RenewsUntilSundayHolds`; `SessionsTypesCorrect` | `IInv`, `AdminIInv` |
| `Credentials_proofs` | `EmailInvariant`, `PurposesStayApartHolds`, `UsedTokensDieHolds`; `SocialInvariant`, `FailsOnlyWhenUnluckyHolds`; `CredentialsTypesCorrect` | `EmailInv`, `SocialInv` |
| `Photospots_proofs` | `PhotoTypesCorrect`, `PhotospotsInvariant`, `ListedIsStoredHolds`, `AttendedHolds` | `IInv` |
| `Collections_proofs` | `CollectionInvariant`, `RefusedForAReasonHolds`; `LabelInvariant`, `LabelsAreKeptHolds`; `MostLikedAreShownHolds`; `CollectionsTypesCorrect` | `CollectionInv`, `LabelInv` |
| `Listings_proofs` | `ListingInvariant`, `NothingMissedHolds`, `RepeatsForAReasonHolds` | `ListingInv` |
| `ClientViews_proofs` | `ChatInvariant`, `CreatedRoomsAreOpenHolds`, `HeardInOrderHolds`, `AlertIsTrueOneByOneHolds`; `ClientViewsTypesCorrect` | `ChatInv` |
| `Background_proofs` | `PoolInvariant`, `LossesHaveACauseHolds`; `LikeInvariant`, `CrashNeedsTwoLikesHolds`; `BackgroundTypesCorrect` | `PoolInv`, `LikeInv` |

The theorems `...TypesCorrect` are about the composed instances (`MCSpec => []TypesOK`): they show that a step of one system keeps the
types of the others. The safety theorems are about the specification of each system by itself: a behaviour of the
composed instance, seen through the variables of one system, is a behaviour of that system.

### The arguments

- **Capacity.** `Capacity` is not inductive: the consumer inserts on the strength of a count read two statements
  earlier. `SeatReserved` says that while it is about to insert, its meetup has a free seat or no row; every statement of every
  other handler preserves `SeatFree` (the four `...Step` lemmas about `MeetupStore`), because `InsertJoin` is the only one that takes a
  seat and there is one consumer. `JobsAreSent` fixes the ticket of a job in Redis; `RowsAreSound` makes cardinalities numbers.
- **The board.** With a reserved seat `InsertSucceeds` is `TakeSeat`; deletions are `LeaveSeat`, `Remove` or a stutter; everything
  else stutters, a crash included.
- **Answers.** A request whose job was never found stalled is in one place: not sent, once in the queue (`QueuedOnce`), with the consumer, or done.
  Until its insert it was granted nothing (`NotGrantedBefore`); once it was refused it is in none of these places (`RefusedIsOver`).
- **Blocking.** Row and marker are written by two statements. `HalfwayAgrees` says what the one that was executed has left, `OneAtATime`
  that no other request about the user is under way unless the user is `spoiled`, and `RowAndMarkerAgree` what holds in the end: the marker covers
  the access token of every session and the full life of one being issued. No tick falls inside a request, and both lives count down together. The death of the process spoils whoever
  is being blocked, and frees everybody else. `StoredLongEnough` says that a cache entry lives as long as the access token given with it, unless the session was signed out or a store failed.
- **Administrators.** A token is a number, given once and in order (`NumbersAreGiven`). It stays in the row with the
  expiry, an hour of a Sunday, it was given until a request withdraws it (`TokensAreKept`), and in the row of another administrator of the same
  account it never is (`TokensNameTheirOwner`). That the row `signoutAdmin` hits exists at all is the well-ordering of the ids.
- **Mailed tokens.** A token in the cache or in a request was drawn for its purpose (`CachedForPurpose`, `AskedForPurpose`), and
  until it is stored it is in nobody else's hands (`UnstoredIsFresh`).
- **Providers.** What a lucky sign-in found free stays free until its insert (`FreeWhenLucky`): whoever takes it makes it unlucky.
- **Photos.** A label task saves the row it has read some time ago. The invariant follows a photo from the file
  of an upload (`FilesAreNew`) to the uncommitted row (`InsertedAreHidden`) and the row the task has read (`FoundIsTrue`), and keeps uploads
  apart, so that what is written back has its object.
- **Keywords and labels.** Keywords a request takes for new are not live unless somebody else wrote some (`NewAreNew`). What a label
  task still looks for, is about to insert and has collected are together what it was told (`TaskIsComplete`).
- **The popular list.** No induction is needed: for any contents of the tables there is one group for each collection with photospots
  (`OneGroupEach`), its distinct likes and keywords are those of the collection (`GroupsAggregate`), kept groups and shown collections are
  in bijection (`GroupsCount`), and each keyword comes back in its pieces, once whole if nothing cuts it (`KeywordsComeBack`).
- **Lists.** A row is known by how many rows come before it. Rows not yet shown are behind the next page (`NotPassed`), rows shown before it
  (`Passed`); a change moves a row only over the rows it adds or removes (`RankGrows`). That a page which is not full is the last one, and that the count of pages
  leaves nothing behind, are the lemmas `FullPage` (the rows before a row take all places before its own) and `LastPageCovers`.
- **Chat.** Events in flight together overlap by definition (`InFlightOverlap`). Hence of two that do not overlap the one that was
  broadcast was stored first (`AnsweredFirst`), and of the comings and goings of one user at most one is under way, the latest (`LatestIsTrue`).
- **Pool and likes.** Waiting requests are different ones and hold nothing, and the holders are finitely many, so that free, held and lost connections
  can be counted; giving back serves the first waiter, and each loss is counted by the step that causes it. Two inserts of one like need two requests under way together.

### What stays with TLC

- Liveness: `JobsDrain`, `ClientsAnswered`, `ServedWhileOneIsLeft`, `LikeTakesEffect`, `UnsafeIsRemoved`, `DeletionIsCarriedOut`,
  `LabelsArrive`. They rest on fairness, and the prover does not reason about `ENABLED`.
- The four violated properties, whose counterexamples TLC finds.
- The order of rows on one page of a list, which no property needs: `PageOf` is the set of rows whose number of predecessors lies
  in the page. (Sorting a set is defined by recursion, about which nothing can be proved here.)

## 6. Plan

What is left would refine what is proved:

1. The safety half of liveness: that whenever something is owed, the step that pays it is possible (a waiting request
   has its job or its timer, a waiting client somebody who will give back, an unsafe photo its task), as state predicates
   instead of `ENABLED`.
2. Abstract specifications of further components with proved refinements: the gate a blocked user meets, above `UserSessions`, and the
   chat history, above `ChatGateway`.
3. What the violated runs leave: that a newcomer in a closed meetup was read as a joiner while it was open.

### Not modelled

Wiring and configuration (modules, guards as decorators, TypeORM and Swagger options), logging, request validation beyond the limits above,
resizing of images and the HTTP of S3, Google Vision, mail and the providers, the signature of tokens and the hash of passwords (taken to
work), and the chat history, a plain query. They keep no state that a step of another request could meet.
