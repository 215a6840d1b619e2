---------------------------- MODULE CollectionLikes ----------------------------
(***************************************************************************)
(* Likes.  addCollectionLike looks for the like, sends the insert and      *)
(* answers without waiting for it; the pair of user and collection is the  *)
(* primary key, and an insert it refuses, or that fails for another cause, *)
(* is a rejection nobody handles, which ends the process.                  *)
(* removeCollectionLike waits for its delete.                              *)
(***************************************************************************)
EXTENDS FiniteSets

CONSTANTS Likings, Likers, Likeables, NoLike

Likes == Likers \X Likeables
Sent == [op : {"insert", "delete"}, like : Likes]

VARIABLES live,      \* collections that are not soft-deleted
          like,      \* table collection_like
          unawaited, \* the statement of each request that is on its way
          wanted,    \* history: likes answered with success, not removed since
          doubled,   \* history: a like was asked for twice at the same time
          errors,    \* history: the database has failed to execute an insert
          died       \* history: the process has died

likeVars == <<live, like, unawaited, wanted, doubled, errors, died>>

LikeTypeOK ==
  /\ live \subseteq Likeables /\ like \subseteq Likes /\ wanted \subseteq Likes
  /\ unawaited \in [Likings -> Sent \cup {NoLike}]
  /\ doubled \in BOOLEAN /\ errors \in BOOLEAN /\ died \in BOOLEAN

LikeInit ==
  /\ live = Likeables /\ like = {} /\ wanted = {}
  /\ unawaited = [r \in Likings |-> NoLike]
  /\ doubled = FALSE /\ errors = FALSE /\ died = FALSE

Pending(op, l) == \E r \in Likings : unawaited[r] # NoLike /\ unawaited[r] = [op |-> op, like |-> l]

\* (mutant) A like that is there already is inserted again.
MayLikeTwice(l) == l[2] \in live

\* The collection is found, and the like is not.
MayLike(l) == l[2] \in live /\ l \notin like

AddCollectionLike(r, l) ==
  /\ unawaited[r] = NoLike /\ MayLike(l)
  /\ unawaited' = [unawaited EXCEPT ![r] = [op |-> "insert", like |-> l]]
  /\ wanted' = wanted \cup {l}
  /\ doubled' = (doubled \/ Pending("insert", l))
  /\ UNCHANGED <<live, like, errors, died>>

\* (mutant) The entity is made and the insert forgotten.
InsertForgotten(r) ==
  /\ unawaited[r] # NoLike /\ unawaited[r].op = "insert" /\ unawaited[r].like \notin like
  /\ unawaited' = [unawaited EXCEPT ![r] = NoLike]
  /\ UNCHANGED <<live, like, wanted, doubled, errors, died>>

InsertLike(r) ==
  /\ unawaited[r] # NoLike /\ unawaited[r].op = "insert" /\ unawaited[r].like \notin like
  /\ like' = like \cup {unawaited[r].like}
  /\ unawaited' = [unawaited EXCEPT ![r] = NoLike]
  /\ UNCHANGED <<live, wanted, doubled, errors, died>>

\* The primary key refuses the row: the process dies with all it had to do.
InsertRejected(r) ==
  /\ unawaited[r] # NoLike /\ unawaited[r].op = "insert" /\ unawaited[r].like \in like
  /\ died' = TRUE
  /\ unawaited' = [q \in Likings |-> NoLike]
  /\ UNCHANGED <<live, like, wanted, doubled, errors>>

\* Nor is any other error handled: a lost connection, a lock timeout.
InsertFails(r) ==
  /\ unawaited[r] # NoLike /\ unawaited[r].op = "insert"
  /\ died' = TRUE /\ errors' = TRUE
  /\ unawaited' = [q \in Likings |-> NoLike]
  /\ UNCHANGED <<live, like, wanted, doubled>>

RemoveCollectionLike(r, l) ==
  /\ unawaited[r] = NoLike /\ l[2] \in live /\ l \in like
  /\ unawaited' = [unawaited EXCEPT ![r] = [op |-> "delete", like |-> l]]
  /\ wanted' = wanted \ {l}
  /\ UNCHANGED <<live, like, doubled, errors, died>>

DeleteLike(r) ==
  /\ unawaited[r] # NoLike /\ unawaited[r].op = "delete"
  /\ like' = like \ {unawaited[r].like} /\ wanted' = wanted \ {unawaited[r].like}
  /\ unawaited' = [unawaited EXCEPT ![r] = NoLike]
  /\ UNCHANGED <<live, doubled, errors, died>>

\* The client is told that it failed; the row stays.
DeleteFails(r) ==
  /\ unawaited[r] # NoLike /\ unawaited[r].op = "delete"
  /\ unawaited' = [unawaited EXCEPT ![r] = NoLike]
  /\ UNCHANGED <<live, like, wanted, doubled, errors, died>>

\* Deleting a collection leaves its likes in the table.
DeleteLikedCollection(c) ==
  /\ c \in live /\ live' = live \ {c}
  /\ UNCHANGED <<like, unawaited, wanted, doubled, errors, died>>

ExecuteLike(r) == InsertLike(r) \/ InsertRejected(r) \/ DeleteLike(r)

LikeNext ==
  \/ \E r \in Likings :
       \/ \E l \in Likes : AddCollectionLike(r, l) \/ RemoveCollectionLike(r, l)
       \/ ExecuteLike(r) \/ InsertFails(r) \/ DeleteFails(r)
  \/ \E c \in Likeables : DeleteLikedCollection(c)

LikeSpec == LikeInit /\ [][LikeNext]_likeVars

\* A statement that was sent is executed, unless it fails.
LikeFairness == \A r \in Likings : WF_likeVars(ExecuteLike(r))

-----------------------------------------------------------------------------
\* As long as the database executes what it can, only a user who likes a collection
\* twice at the same moment ends the process: liking again later, or after taking
\* the like back, or what somebody deletes meanwhile, is harmless.
CrashNeedsTwoLikes == died => doubled \/ errors

\* A like answered with success is in the table at some later time, although
\* the insert was not awaited, unless the process dies or the like is removed.
LikeTakesEffect ==
  \A l \in Likes : l \in wanted ~> l \in like \/ l \notin wanted \/ died
=============================================================================
