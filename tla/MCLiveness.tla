----------------------------- MODULE MCLiveness -----------------------------
(***************************************************************************)
(* Small instances of Meetups, DbPool and CollectionLikes for TLC: what    *)
(* must happen in the end, behind an answer or before it.  The three share *)
(* no state, and a behaviour here is one of one of them.  In the others    *)
(* nothing is under way, so that their fairness asks for nothing.          *)
(***************************************************************************)
EXTENDS MCMeetups, DbPool, CollectionLikes

VARIABLE part   \* whose behaviour it is

MCInit ==
  /\ part \in {"meetups", "pool", "likes"}
  /\ Init /\ PoolInit /\ LikeInit
  /\ part # "pool" => joined = {}

MCNext ==
  \/ part = "meetups" /\ Next /\ UNCHANGED <<part, poolVars, likeVars>>
  \/ part = "pool" /\ PoolNext /\ UNCHANGED <<part, vars, likeVars>>
  \/ part = "likes" /\ LikeNext /\ UNCHANGED <<part, vars, poolVars>>

MCSpec ==
  /\ MCInit /\ [][MCNext]_<<part, vars, poolVars, likeVars>>
  /\ Fairness /\ PoolFairness /\ LikeFairness

\* Connections, waiters, likes and statements on their way have their types (those
\* of the meetups are checked in the run of the join queue).
TypesOK == PoolTypeOK /\ LikeTypeOK
=============================================================================
