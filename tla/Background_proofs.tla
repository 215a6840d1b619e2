--------------------------- MODULE Background_proofs ---------------------------
(***************************************************************************)
(* Proofs about DbPool and CollectionLikes, for any number of clients,     *)
(* connections and likes: every lost connection of the pool has one of     *)
(* the two causes the code gives it, and as long as the database does not  *)
(* fail only a like asked for twice at the same time ends the process.     *)
(***************************************************************************)
EXTENDS MCLiveness, FiniteSetTheorems, TLAPS

Waiting == {waiters[i] : i \in DOMAIN waiters}
RequestStates == [kind : Kinds \cup {"none"}, at : {"answered", "waiting"} \cup Using]

\* Nobody stands in the queue twice, and the connections in use can be counted.
PoolInv ==
  /\ PoolTypeOK /\ LossesHaveACause
  /\ \A i, j \in DOMAIN waiters : i # j => waiters[i] # waiters[j]
  /\ IsFiniteSet(Holders)

Inserting(r) == unawaited[r] # NoLike /\ unawaited[r].op = "insert"

\* As long as nobody asked twice, the inserts on their way are of different likes,
\* which are not in the table.
LikeInv ==
  /\ LikeTypeOK
  /\ died => doubled \/ errors
  /\ doubled \/ /\ \A r \in Likings : Inserting(r) => unawaited[r].like \notin like
                /\ \A r, q \in Likings : Inserting(r) /\ Inserting(q) /\ r # q =>
                                           unawaited[r].like # unawaited[q].like

-----------------------------------------------------------------------------
\* The connections in use.

\* Counting a set with one element more, one less, or one in the place of another.
LEMMA Counted ==
  ASSUME NEW S, IsFiniteSet(S), NEW u
  PROVE  /\ Cardinality(S) \in Nat
         /\ IsFiniteSet(S \cup {u}) /\ IsFiniteSet(S \ {u})
         /\ u \notin S => Cardinality(S \cup {u}) = Cardinality(S) + 1
         /\ u \in S => Cardinality(S \ {u}) = Cardinality(S) - 1 /\ Cardinality(S) # 0
  BY FS_AddElement, FS_RemoveElement, FS_CardinalityType, FS_EmptySet

LEMMA QueueOfClients ==
  ASSUME PoolTypeOK
  PROVE  /\ waiters \in Seq(Clients) /\ DOMAIN waiters = 1 .. Len(waiters) /\ Len(waiters) \in Nat
         /\ \A i \in 1 .. Len(waiters) : waiters[i] \in Clients /\ request[waiters[i]].at = "waiting"
         /\ \A u \in Clients : request[u].at = "waiting" =>
              \E i \in 1 .. Len(waiters) : waiters[i] = u
  <1>1. waiters \in Seq(Clients) /\ DOMAIN waiters = 1 .. Len(waiters) /\ Len(waiters) \in Nat
    BY DEF PoolTypeOK
  <1>2. Waiting = {u \in Clients : request[u].at = "waiting"}
    BY DEF PoolTypeOK, Waiting
  <1> QED
    BY <1>1, <1>2 DEF Waiting

\* The request of one client goes on with the connection it has; the queue and
\* the pool are left alone.
LEMMA HoldingKeepsPool ==
  ASSUME PoolInv, NEW u \in Clients, request[u].at \in Using,
         NEW place \in Using, request' = [request EXCEPT ![u].at = place],
         UNCHANGED <<joined, free, waiters, strangers, failures>>
  PROVE  PoolInv'
  <1>1. /\ request' \in [Clients -> RequestStates]
        /\ \A v \in Clients : v # u => request'[v] = request[v]
        /\ request'[u].at \in Using
    BY DEF PoolInv, PoolTypeOK, Using, RequestStates
  <1>2. Holders' = Holders
    BY <1>1 DEF Holders, Using
  <1>3. \A v \in Clients : request'[v].at = "waiting" <=> request[v].at = "waiting"
    BY <1>1 DEF Using
  <1>4. PoolTypeOK'
    BY <1>1, <1>2, <1>3 DEF PoolInv, PoolTypeOK, RequestStates, Using
  <1> QED
    BY <1>2, <1>4 DEF PoolInv, LossesHaveACause

\* A request begins: with a connection, or in the queue.
LEMMA ConnectKeepsPool ==
  ASSUME PoolInv, NEW u \in Clients, NEW kind \in Kinds, request[u] = Resting,
         Connect(u, kind), UNCHANGED <<joined, strangers, failures>>
  PROVE  PoolInv'
  <1>1. u \notin Holders /\ request[u].at # "waiting"
    BY DEF Holders, Using, Resting
  <1>2. CASE free > 0
    <2>1. /\ free' = free - 1 /\ UNCHANGED waiters
          /\ request' = [request EXCEPT ![u] = [kind |-> kind, at |-> "connected"]]
      BY <1>2 DEF Connect
    <2>2. /\ request' \in [Clients -> RequestStates]
          /\ \A v \in Clients : v # u => request'[v] = request[v]
          /\ request'[u].at = "connected"
      BY <2>1 DEF PoolInv, PoolTypeOK, RequestStates, Using
    <2>3. Holders' = Holders \cup {u}
      BY <2>2 DEF Holders, Using
    <2>4. IsFiniteSet(Holders') /\ Cardinality(Holders') = Cardinality(Holders) + 1
      BY <1>1, <2>3, Counted DEF PoolInv
    <2>5. \A v \in Clients : request'[v].at = "waiting" <=> request[v].at = "waiting"
      BY <1>1, <2>2
    <2>6. free' \in 0 .. PoolSize /\ strangers + failures = PoolSize - free' - Cardinality(Holders')
      <3>1. /\ Cardinality(Holders) \in Nat /\ free \in 0 .. PoolSize
            /\ strangers + failures = PoolSize - free - Cardinality(Holders)
        BY Counted DEF PoolInv, PoolTypeOK, LossesHaveACause
      <3> QED
        BY <1>2, <2>1, <2>4, <3>1, PoolSizeAssumption
    <2>7. PoolTypeOK'
      BY <2>1, <2>2, <2>5, <2>6 DEF PoolInv, PoolTypeOK, RequestStates, Using
    <2> QED
      BY <2>1, <2>4, <2>6, <2>7 DEF PoolInv, LossesHaveACause
  <1>3. CASE free = 0
    <2>1. /\ waiters' = Append(waiters, u) /\ UNCHANGED free
          /\ request' = [request EXCEPT ![u] = [kind |-> kind, at |-> "waiting"]]
      BY <1>3 DEF Connect, PoolInv, PoolTypeOK
    <2>2. /\ request' \in [Clients -> RequestStates]
          /\ \A v \in Clients : v # u => request'[v] = request[v]
          /\ request'[u].at = "waiting"
      BY <2>1 DEF PoolInv, PoolTypeOK, RequestStates, Using
    <2>3. Holders' = Holders
      BY <1>1, <2>2 DEF Holders, Using
    <2>4. /\ waiters \in Seq(Clients) /\ DOMAIN waiters = 1 .. Len(waiters) /\ Len(waiters) \in Nat
          /\ \A i \in 1 .. Len(waiters) : waiters[i] \in Clients /\ request[waiters[i]].at = "waiting"
          /\ \A v \in Clients : request[v].at = "waiting" =>
               \E i \in 1 .. Len(waiters) : waiters[i] = v
      BY QueueOfClients DEF PoolInv
    <2>5. /\ waiters' \in Seq(Clients) /\ DOMAIN waiters' = 1 .. Len(waiters) + 1
          /\ waiters'[Len(waiters) + 1] = u
          /\ \A i \in 1 .. Len(waiters) : waiters'[i] = waiters[i]
      BY <2>1, <2>4
    <2>6. {waiters'[i] : i \in DOMAIN waiters'} = {v \in Clients : request'[v].at = "waiting"}
      <3>1. \A i \in 1 .. Len(waiters) + 1 :
              waiters'[i] \in Clients /\ request'[waiters'[i]].at = "waiting"
        BY <1>1, <2>2, <2>4, <2>5
      <3>2. ASSUME NEW v \in Clients, request'[v].at = "waiting"
            PROVE  \E i \in 1 .. Len(waiters) + 1 : waiters'[i] = v
        <4>1. CASE v = u
          BY <2>4, <2>5, <4>1
        <4>2. CASE v # u
          <5>1. PICK i \in 1 .. Len(waiters) : waiters[i] = v
            BY <2>2, <2>4, <3>2, <4>2
          <5> QED
            BY <2>4, <2>5, <5>1
        <4> QED
          BY <4>1, <4>2
      <3> QED
        BY <2>5, <3>1, <3>2
    <2>7. \A i, j \in DOMAIN waiters' : i # j => waiters'[i] # waiters'[j]
      BY <1>1, <2>4, <2>5 DEF PoolInv
    <2>8. PoolTypeOK'
      BY <2>1, <2>2, <2>3, <2>5, <2>6 DEF PoolInv, PoolTypeOK, RequestStates, Using
    <2> QED
      BY <1>3, <2>1, <2>3, <2>7, <2>8 DEF PoolInv, LossesHaveACause
  <1> QED
    BY <1>2, <1>3 DEF Connect

\* A request ends, and its connection goes to the first who waits, or is free.
LEMMA ReleaseKeepsPool ==
  ASSUME PoolInv, NEW u \in Clients, request[u].at \in Using, Release(u),
         joined' \subseteq joined, UNCHANGED <<strangers, failures>>
  PROVE  PoolInv'
  <1>1. u \in Holders /\ IsFiniteSet(Holders) /\ request[u].at # "waiting"
    BY DEF Holders, Using, PoolInv
  <1>2. CASE waiters = <<>>
    <2>1. /\ free' = free + 1 /\ UNCHANGED waiters /\ request' = [request EXCEPT ![u] = Resting]
      BY <1>2 DEF Release
    <2>2. /\ request' \in [Clients -> RequestStates]
          /\ \A v \in Clients : v # u => request'[v] = request[v]
          /\ request'[u].at = "answered"
      BY <2>1 DEF PoolInv, PoolTypeOK, RequestStates, Using, Resting
    <2>3. Holders' = Holders \ {u}
      BY <2>2 DEF Holders, Using
    <2>4. /\ IsFiniteSet(Holders') /\ Cardinality(Holders') = Cardinality(Holders) - 1
          /\ Cardinality(Holders) \in Nat \ {0}
      BY <1>1, <2>3, Counted
    <2>5. \A v \in Clients : request'[v].at = "waiting" <=> request[v].at = "waiting"
      BY <1>1, <2>2
    <2>6. free' \in 0 .. PoolSize /\ strangers + failures = PoolSize - free' - Cardinality(Holders')
      BY <2>1, <2>4, PoolSizeAssumption DEF PoolInv, PoolTypeOK, LossesHaveACause
    <2>7. PoolTypeOK'
      BY <2>1, <2>2, <2>5, <2>6 DEF PoolInv, PoolTypeOK, RequestStates, Using
    <2> QED
      BY <2>1, <2>4, <2>6, <2>7 DEF PoolInv, LossesHaveACause
  <1>3. CASE waiters # <<>>
    <2> DEFINE h == waiters[1]
               n == Len(waiters)
    <2>1. /\ waiters \in Seq(Clients) /\ DOMAIN waiters = 1 .. n /\ n \in Nat
          /\ \A i \in 1 .. n : waiters[i] \in Clients /\ request[waiters[i]].at = "waiting"
          /\ \A v \in Clients : request[v].at = "waiting" =>
               \E i \in 1 .. n : waiters[i] = v
      BY QueueOfClients DEF PoolInv
    <2>2. /\ n # 0 /\ Head(waiters) = h /\ Tail(waiters) \in Seq(Clients)
          /\ DOMAIN Tail(waiters) = 1 .. n - 1
          /\ \A i \in 1 .. n - 1 : Tail(waiters)[i] = waiters[i + 1]
      BY <1>3, <2>1
    <2>3. /\ waiters' = Tail(waiters) /\ UNCHANGED free
          /\ request' = [request EXCEPT ![u] = Resting, ![h].at = "connected"]
      BY <1>3, <2>2 DEF Release
    <2>4. h \in Clients /\ request[h].at = "waiting" /\ h # u /\ h \notin Holders
      BY <1>1, <2>1, <2>2 DEF Holders, Using
    <2>5. \A i \in 1 .. n : i # 1 => waiters[i] # h
      BY <2>1, <2>2 DEF PoolInv
    <2> HIDE DEF h, n
    <2>6. /\ request' \in [Clients -> RequestStates]
          /\ \A v \in Clients : v # u /\ v # h => request'[v] = request[v]
          /\ request'[u].at = "answered" /\ request'[h].at = "connected"
      BY <2>3, <2>4 DEF PoolInv, PoolTypeOK, RequestStates, Using, Resting
    <2>7. Holders' = (Holders \ {u}) \cup {h}
      BY <2>4, <2>6 DEF Holders, Using
    <2>8. IsFiniteSet(Holders') /\ Cardinality(Holders') = Cardinality(Holders)
      <3>1. IsFiniteSet(Holders \ {u}) /\ h \notin Holders \ {u}
        BY <1>1, <2>4, Counted
      <3>2. Cardinality(Holders') = Cardinality(Holders \ {u}) + 1 /\ IsFiniteSet(Holders')
        BY <2>7, <3>1, Counted
      <3>3. Cardinality(Holders \ {u}) = Cardinality(Holders) - 1 /\ Cardinality(Holders) \in Nat
        BY <1>1, Counted
      <3> QED
        BY <3>2, <3>3
    <2>9. {waiters'[i] : i \in DOMAIN waiters'} = {v \in Clients : request'[v].at = "waiting"}
      <3>1. \A i \in 1 .. n - 1 : i + 1 \in 1 .. n /\ i + 1 # 1 /\ waiters'[i] = waiters[i + 1]
        BY <2>1, <2>2, <2>3
      <3>2. \A i \in 1 .. n - 1 : waiters'[i] \in Clients /\ request'[waiters'[i]].at = "waiting"
        <4>1. SUFFICES ASSUME NEW i \in 1 .. n - 1
                       PROVE  waiters'[i] \in Clients /\ request'[waiters'[i]].at = "waiting"
          OBVIOUS
        <4>2. i + 1 \in 1 .. n /\ i + 1 # 1 /\ waiters'[i] = waiters[i + 1]
          BY <3>1
        <4>3. waiters[i + 1] \in Clients /\ request[waiters[i + 1]].at = "waiting"
          BY <2>1, <4>2
        <4>4. waiters[i + 1] # h /\ waiters[i + 1] # u
          BY <1>1, <2>5, <4>2, <4>3
        <4> QED
          BY <2>6, <4>2, <4>3, <4>4
      <3>3. ASSUME NEW v \in Clients, request'[v].at = "waiting"
            PROVE  \E i \in 1 .. n - 1 : waiters'[i] = v
        <4>1. v # u /\ v # h /\ request[v].at = "waiting"
          BY <2>6, <3>3
        <4>2. PICK i \in 1 .. n : waiters[i] = v
          BY <2>1, <4>1
        <4>3. i # 1
          BY <4>1, <4>2 DEF h
        <4>4. i - 1 \in 1 .. n - 1 /\ waiters'[i - 1] = v
          BY <2>1, <2>2, <2>3, <4>2, <4>3
        <4> QED
          BY <4>4
      <3>4. DOMAIN waiters' = 1 .. n - 1
        BY <2>2, <2>3
      <3> QED
        BY <3>2, <3>3, <3>4
    <2>10. \A i, j \in DOMAIN waiters' : i # j => waiters'[i] # waiters'[j]
      <3>1. SUFFICES ASSUME NEW i \in 1 .. n - 1, NEW j \in 1 .. n - 1, i # j
                     PROVE  waiters'[i] # waiters'[j]
        BY <2>2, <2>3
      <3>2. /\ i + 1 \in 1 .. n /\ j + 1 \in 1 .. n /\ i + 1 # j + 1
            /\ waiters'[i] = waiters[i + 1] /\ waiters'[j] = waiters[j + 1]
        BY <2>1, <2>2, <2>3, <3>1
      <3> QED
        BY <2>1, <3>2 DEF PoolInv
    <2>11. PoolTypeOK'
      BY <2>2, <2>3, <2>6, <2>8, <2>9 DEF PoolInv, PoolTypeOK, RequestStates, Using
    <2>12. LossesHaveACause'
      BY <2>3, <2>8 DEF PoolInv, LossesHaveACause
    <2> QED
      BY <2>8, <2>10, <2>11, <2>12 DEF PoolInv
  <1> QED
    BY <1>2, <1>3

\* A connection is lost, in one of the two ways.
LEMMA LossKeepsPool ==
  ASSUME PoolInv, NEW u \in Clients, request[u].at \in Using,
         request' = [request EXCEPT ![u] = Resting], UNCHANGED <<joined, free, waiters>>,
         \/ strangers' = strangers + 1 /\ failures' = failures
         \/ failures' = failures + 1 /\ strangers' = strangers
  PROVE  PoolInv'
  <1>1. u \in Holders /\ IsFiniteSet(Holders) /\ request[u].at # "waiting"
    BY DEF Holders, Using, PoolInv
  <1>2. /\ request' \in [Clients -> RequestStates]
        /\ \A v \in Clients : v # u => request'[v] = request[v]
        /\ request'[u].at = "answered"
    BY DEF PoolInv, PoolTypeOK, RequestStates, Using, Resting
  <1>3. Holders' = Holders \ {u}
    BY <1>2 DEF Holders, Using
  <1>4. /\ IsFiniteSet(Holders') /\ Cardinality(Holders') = Cardinality(Holders) - 1
        /\ Cardinality(Holders) \in Nat \ {0}
    BY <1>1, <1>3, Counted
  <1>5. \A v \in Clients : request'[v].at = "waiting" <=> request[v].at = "waiting"
    BY <1>1, <1>2
  <1>6. /\ strangers' \in 0 .. PoolSize /\ failures' \in 0 .. PoolSize
        /\ strangers' + failures' = PoolSize - free - Cardinality(Holders')
    <2>1. /\ strangers \in 0 .. PoolSize /\ failures \in 0 .. PoolSize /\ free \in 0 .. PoolSize
          /\ PoolSize - free - Cardinality(Holders) = strangers + failures
      BY DEF PoolInv, PoolTypeOK, LossesHaveACause
    <2>2. Cardinality(Holders') \in Nat
      BY <1>4
    <2> QED
      BY <1>4, <2>1, <2>2, PoolSizeAssumption
  <1>7. PoolTypeOK'
    BY <1>2, <1>5, <1>6 DEF PoolInv, PoolTypeOK, RequestStates, Using
  <1> QED
    BY <1>4, <1>6, <1>7 DEF PoolInv, LossesHaveACause

\* A new pool, in which nothing is in use.
LEMMA FreshPool ==
  ASSUME joined \subseteq Clients, request = [u \in Clients |-> Resting], free = PoolSize,
         waiters = <<>>, strangers = 0, failures = 0
  PROVE  PoolInv
  <1>1. Holders = {} /\ \A u \in Clients : request[u].at # "waiting"
    BY DEF Holders, Using, Resting
  <1>2. IsFiniteSet(Holders) /\ Cardinality(Holders) = 0
    BY <1>1, FS_EmptySet
  <1> QED
    BY <1>1, <1>2, PoolSizeAssumption
    DEF PoolInv, PoolTypeOK, LossesHaveACause, RequestStates, Using, Resting

LEMMA PoolInvInit == PoolInit => PoolInv
  BY FreshPool DEF PoolInit

LEMMA PoolInvNext == PoolInv /\ [PoolNext]_poolVars => PoolInv'
  <1> SUFFICES ASSUME PoolInv, [PoolNext]_poolVars
               PROVE  PoolInv'
    OBVIOUS
  <1>1. ASSUME NEW u \in Clients, PoolProgress(u) \/ FailsBeforeTry(u) \/ RollBack(u)
        PROVE  PoolInv'
    <2>1. CASE Query(u) \/ JoinInserted(u) \/ JoinDeleted(u) \/ RollBack(u)
      <3>1. /\ request[u].at \in Using /\ Release(u)
            /\ joined' \subseteq joined /\ UNCHANGED <<strangers, failures>>
        BY <2>1 DEF Query, JoinInserted, JoinDeleted, RollBack, Stands, Using
      <3> QED
        BY <3>1, ReleaseKeepsPool
    <2>2. CASE TransactionStarted(u) \/ MeetupInserted(u)
      <3>1. /\ request[u].at \in Using
            /\ \/ request' = [request EXCEPT ![u].at = "begun"]
               \/ request' = [request EXCEPT ![u].at = "inserted"]
            /\ UNCHANGED <<joined, free, waiters, strangers, failures>>
        BY <2>2 DEF TransactionStarted, MeetupInserted, Stands, Using
      <3>2. "begun" \in Using /\ "inserted" \in Using
        BY DEF Using
      <3> QED
        BY <3>1, <3>2, HoldingKeepsPool
    <2>3. CASE JoinFound(u)
      <3>1. /\ request[u].at \in Using /\ "found" \in Using
            /\ UNCHANGED <<joined, free, waiters, failures>>
        BY <2>3 DEF JoinFound, Stands, Using
      <3>2. CASE request' = [request EXCEPT ![u].at = "found"] /\ UNCHANGED strangers
        BY <3>1, <3>2, HoldingKeepsPool
      <3>3. CASE request' = [request EXCEPT ![u] = Resting] /\ strangers' = strangers + 1
        BY <3>1, <3>3, LossKeepsPool
      <3> QED
        BY <2>3, <3>2, <3>3 DEF JoinFound
    <2>4. CASE FailsBeforeTry(u)
      <3>1. request[u].at \in Using /\ UNCHANGED <<joined, strangers>>
        BY <2>4 DEF FailsBeforeTry, Stands, Using
      <3>2. CASE request' = [request EXCEPT ![u] = Resting] /\ failures' = failures + 1
                   /\ UNCHANGED <<free, waiters>>
        BY <3>1, <3>2, LossKeepsPool
      <3>3. CASE Release(u) /\ UNCHANGED failures
        BY <3>1, <3>3, ReleaseKeepsPool
      <3> QED
        BY <2>4, <3>2, <3>3 DEF FailsBeforeTry
    <2> QED
      BY <1>1, <2>1, <2>2, <2>3, <2>4 DEF PoolProgress
  <1>2. ASSUME NEW u \in Clients, NEW kind \in Kinds, Ask(u, kind)
        PROVE  PoolInv'
    BY <1>2, ConnectKeepsPool DEF Ask
  <1>3. CASE Restart
    <2>1. /\ joined' \subseteq Clients /\ request' = [u \in Clients |-> Resting]
          /\ free' = PoolSize /\ waiters' = <<>> /\ strangers' = 0 /\ failures' = 0
      BY <1>3 DEF Restart, PoolInv, PoolTypeOK
    <2>2. Holders' = {} /\ \A u \in Clients : request'[u].at # "waiting"
      BY <2>1 DEF Holders, Using, Resting
    <2>3. IsFiniteSet(Holders') /\ Cardinality(Holders') = 0
      BY <2>2, FS_EmptySet
    <2> QED
      BY <2>1, <2>2, <2>3, PoolSizeAssumption
      DEF PoolInv, PoolTypeOK, LossesHaveACause, RequestStates, Using, Resting
  <1>4. CASE UNCHANGED poolVars
    BY <1>4 DEF poolVars, PoolInv, PoolTypeOK, RequestStates, LossesHaveACause, Holders
  <1> QED
    BY <1>1, <1>2, <1>3, <1>4 DEF PoolNext

-----------------------------------------------------------------------------
\* Likes.

LEMMA LikeInvInit == LikeInit => LikeInv
  BY DEF LikeInit, LikeInv, LikeTypeOK, Inserting

LEMMA LikeTypeNext == LikeTypeOK /\ [LikeNext]_likeVars => LikeTypeOK'
  <1> SUFFICES ASSUME LikeTypeOK, [LikeNext]_likeVars
               PROVE  LikeTypeOK'
    OBVIOUS
  <1>1. ASSUME NEW r \in Likings, NEW l \in Likes, AddCollectionLike(r, l) \/ RemoveCollectionLike(r, l)
        PROVE  LikeTypeOK'
    <2>1. [op |-> "insert", like |-> l] \in Sent /\ [op |-> "delete", like |-> l] \in Sent
      BY DEF Sent
    <2> QED
      BY <1>1, <2>1 DEF AddCollectionLike, RemoveCollectionLike, Pending, LikeTypeOK
  <1>2. ASSUME NEW r \in Likings, ExecuteLike(r) \/ InsertFails(r) \/ DeleteFails(r)
        PROVE  LikeTypeOK'
    <2> USE DEF ExecuteLike, InsertLike, InsertRejected, InsertFails, DeleteLike, DeleteFails
    <2>1. unawaited[r] \in Sent /\ unawaited[r].like \in Likes
      BY <1>2 DEF LikeTypeOK, Sent
    <2> QED
      BY <1>2, <2>1 DEF LikeTypeOK
  <1>3. ASSUME NEW c \in Likeables, DeleteLikedCollection(c)
        PROVE  LikeTypeOK'
    BY <1>3 DEF DeleteLikedCollection, LikeTypeOK
  <1>4. CASE UNCHANGED likeVars
    BY <1>4 DEF likeVars, LikeTypeOK
  <1> QED
    BY <1>1, <1>2, <1>3, <1>4 DEF LikeNext

\* No statement but the new one is an insert that was not one before, and no
\* like that is about to be inserted gets into the table by another request.
LEMMA FewerInserts ==
  ASSUME LikeInv, ~doubled', LikeTypeOK',
         doubled => doubled', died' => doubled' \/ errors',
         \A r \in Likings : Inserting(r)' => Inserting(r) /\ unawaited'[r] = unawaited[r],
         \A r \in Likings : Inserting(r)' /\ unawaited[r].like \notin like =>
                              unawaited[r].like \notin like'
  PROVE  LikeInv'
  BY DEF LikeInv

LEMMA LikeInvNext == LikeInv /\ [LikeNext]_likeVars => LikeInv'
  <1> SUFFICES ASSUME LikeInv, [LikeNext]_likeVars
               PROVE  LikeInv'
    OBVIOUS
  <1>1. LikeTypeOK /\ LikeTypeOK'
    BY LikeTypeNext DEF LikeInv
  <1>2. died' => doubled' \/ errors'
    <2>1. died => doubled \/ errors
      BY DEF LikeInv
    <2>2. ASSUME NEW r \in Likings, NEW l \in Likes, AddCollectionLike(r, l) \/ RemoveCollectionLike(r, l)
          PROVE  died' => doubled' \/ errors'
      BY <2>1, <2>2 DEF AddCollectionLike, RemoveCollectionLike
    <2>3. ASSUME NEW r \in Likings, InsertRejected(r)
          PROVE  doubled'
      BY <2>3 DEF InsertRejected, Inserting, LikeInv
    <2>4. ASSUME NEW r \in Likings, InsertLike(r) \/ DeleteLike(r) \/ InsertFails(r) \/ DeleteFails(r)
          PROVE  died' => doubled' \/ errors'
      BY <2>1, <2>4 DEF InsertLike, DeleteLike, InsertFails, DeleteFails
    <2>5. ASSUME \/ UNCHANGED likeVars
                 \/ \E c \in Likeables : DeleteLikedCollection(c)
          PROVE  died' => doubled' \/ errors'
      <3>1. died' = died /\ doubled' = doubled /\ errors' = errors
        BY <2>5 DEF DeleteLikedCollection, likeVars
      <3> QED
        BY <2>1, <3>1
    <2> QED
      BY <2>2, <2>3, <2>4, <2>5 DEF LikeNext, ExecuteLike
  <1> SUFFICES ASSUME ~doubled'
               PROVE  LikeInv'
    BY <1>1, <1>2 DEF LikeInv
  <1>3. ASSUME NEW r \in Likings, NEW l \in Likes, AddCollectionLike(r, l)
        PROVE  LikeInv'
    <2>1. /\ l \notin like /\ ~doubled /\ ~Pending("insert", l)
          /\ like' = like
          /\ \A q \in Likings : q # r => unawaited'[q] = unawaited[q]
          /\ unawaited'[r] = [op |-> "insert", like |-> l]
      BY <1>1, <1>3 DEF AddCollectionLike, MayLike, LikeTypeOK
    <2>2. \A q \in Likings : Inserting(q) => unawaited[q].like # l
      <3>1. SUFFICES ASSUME NEW q \in Likings, Inserting(q), unawaited[q].like = l
                     PROVE  FALSE
        OBVIOUS
      <3>2. unawaited[q] \in [op : {"insert", "delete"}, like : Likes]
        BY <1>1, <3>1 DEF LikeTypeOK, Inserting, Sent
      <3>3. unawaited[q] = [op |-> "insert", like |-> l]
        BY <3>1, <3>2 DEF Inserting
      <3> QED
        BY <2>1, <3>1, <3>3 DEF Pending, Inserting
    <2> QED
      BY <1>1, <1>2, <2>1, <2>2 DEF LikeInv, Inserting
  <1>4. ASSUME NEW r \in Likings, NEW l \in Likes, RemoveCollectionLike(r, l)
        PROVE  LikeInv'
    <2>1. /\ UNCHANGED <<like, doubled>>
          /\ \A q \in Likings : q # r => unawaited'[q] = unawaited[q]
          /\ unawaited'[r].op = "delete"
      BY <1>1, <1>4 DEF RemoveCollectionLike, LikeTypeOK
    <2>2. \A q \in Likings : Inserting(q)' => Inserting(q) /\ unawaited'[q] = unawaited[q]
      BY <2>1 DEF Inserting
    <2> QED
      BY <1>1, <1>2, <2>1, <2>2, FewerInserts
  <1>5. ASSUME NEW r \in Likings, InsertLike(r)
        PROVE  LikeInv'
    <2>1. /\ Inserting(r) /\ like' = like \cup {unawaited[r].like}
          /\ UNCHANGED doubled
          /\ \A q \in Likings : q # r => unawaited'[q] = unawaited[q]
          /\ unawaited'[r] = NoLike
      BY <1>1, <1>5 DEF InsertLike, Inserting, LikeTypeOK
    <2>2. \A q \in Likings : Inserting(q)' =>
            Inserting(q) /\ unawaited'[q] = unawaited[q] /\ q # r
      BY <2>1 DEF Inserting
    <2>3. \A q \in Likings : Inserting(q)' => unawaited[q].like # unawaited[r].like
      BY <2>1, <2>2 DEF LikeInv
    <2> QED
      BY <1>1, <1>2, <2>1, <2>2, <2>3, FewerInserts
  <1>6. ASSUME NEW r \in Likings, InsertRejected(r) \/ InsertFails(r)
        PROVE  LikeInv'
    <2>1. like' = like /\ doubled' = doubled /\ \A q \in Likings : ~Inserting(q)'
      BY <1>6 DEF InsertRejected, InsertFails, Inserting
    <2> QED
      BY <1>1, <1>2, <2>1 DEF LikeInv
  <1>7. ASSUME NEW r \in Likings, DeleteLike(r) \/ DeleteFails(r)
        PROVE  LikeInv'
    <2>1. /\ like' \subseteq like /\ UNCHANGED doubled
          /\ \A q \in Likings : q # r => unawaited'[q] = unawaited[q]
          /\ unawaited'[r] = NoLike
      BY <1>1, <1>7 DEF DeleteLike, DeleteFails, LikeTypeOK
    <2>2. \A q \in Likings : Inserting(q)' => Inserting(q) /\ unawaited'[q] = unawaited[q]
      BY <2>1 DEF Inserting
    <2> QED
      BY <1>1, <1>2, <2>1, <2>2, FewerInserts
  <1>8. CASE UNCHANGED <<like, unawaited, doubled>>
    BY <1>1, <1>2, <1>8 DEF LikeInv, Inserting
  <1> QED
    BY <1>3, <1>4, <1>5, <1>6, <1>7, <1>8
    DEF LikeNext, ExecuteLike, DeleteLikedCollection, likeVars

-----------------------------------------------------------------------------
\* The theorems.

\* The inductive invariants.  To count the connections in use, those who wait
\* must be different ones, all without a connection (the queue of the MySQL driver).
THEOREM PoolInvariant == PoolSpec => []PoolInv
  BY PoolInvInit, PoolInvNext, PTL DEF PoolSpec

\* Of two likes of one pair on their way together, both are recorded as doubled
\* (collections.service.ts, addCollectionLike).
THEOREM LikeInvariant == LikeSpec => []LikeInv
  BY LikeInvInit, LikeInvNext, PTL DEF LikeSpec

\* Every lost connection was lost to the exit of a stranger or to a statement that
\* failed before the try block (chat.repository.ts, meetups.repository.ts): no
\* other end of a request, a rollback included, keeps one or gives one back twice.
THEOREM LossesHaveACauseHolds == PoolSpec => []LossesHaveACause
  <1>1. PoolInv => LossesHaveACause
    BY DEF PoolInv
  <1> QED
    BY <1>1, PoolInvariant, PTL

\* As long as the database executes what it can, only a user who likes a
\* collection twice at the same moment ends the process (collections.service.ts, addCollectionLike).
THEOREM CrashNeedsTwoLikesHolds == LikeSpec => []CrashNeedsTwoLikes
  <1>1. LikeInv => CrashNeedsTwoLikes
    BY DEF LikeInv, CrashNeedsTwoLikes
  <1> QED
    BY <1>1, LikeInvariant, PTL

\* Types of both parts in the composed instance; those who wait for a connection
\* are those in the queue, and there are never more losses than connections.
THEOREM BackgroundTypesCorrect == MCSpec => []TypesOK
  <1>1. MCInit => PoolInv /\ LikeInv
    BY PoolInvInit, LikeInvInit DEF MCInit
  <1>2. PoolInv /\ LikeInv /\ [MCNext]_<<part, vars, poolVars, likeVars>> => PoolInv' /\ LikeInv'
    <2>1. [MCNext]_<<part, vars, poolVars, likeVars>> =>
            [PoolNext]_poolVars /\ [LikeNext]_likeVars
      BY DEF MCNext
    <2> QED
      BY <2>1, PoolInvNext, LikeInvNext
  <1>3. PoolInv /\ LikeInv => TypesOK
    BY DEF PoolInv, LikeInv, TypesOK
  <1> QED
    BY <1>1, <1>2, <1>3, PTL DEF MCSpec
===============================================================================
