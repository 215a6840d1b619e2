--------------------------- MODULE Sessions_proofs ---------------------------
(***************************************************************************)
(* Theorems about UserSessions and AdminSessions, for any number of users, *)
(* sessions, administrators and browsers, and any lives of the tokens that *)
(* are ordered as in the code.                                             *)
(***************************************************************************)
EXTENDS MCSessions, WellFoundedInduction, TLAPS

\* The administrator's request is about the user.
About(a, u) == op[a] # NoOp /\ op[a].user = u

\* A request under way has something left to do.
RequestsHaveWork == \A a \in Admins : op[a] # NoOp => op[a].todo # {}

\* Unless requests about the user crossed, or one was not carried out whole, at
\* most one is under way.
OneAtATime ==
  \A u \in Users : ~spoiled[u] =>
    \A a, b \in Admins : About(a, u) /\ About(b, u) => a = b

\* What such a request has done is still there: no time passes meanwhile.
HalfwayAgrees ==
  \A a \in Admins : op[a] # NoOp /\ ~spoiled[op[a].user] =>
    /\ "cache" \notin op[a].todo => marker[op[a].user] = MarkerLife(op[a].block)
    /\ "row" \notin op[a].todo => isBlock[op[a].user] = op[a].block

\* The marker of a blocked user covers the access tokens; it is still as it
\* was set while a sign-in that passed the check goes on.
Covered(u) ==
  \A s \in Sessions :
    /\ owner[s] = u /\ ~renewed[s] => access[s] <= marker[u]
    /\ signing[s] = u => marker[u] = BlockLife

\* Once the requests about a user are finished, row and marker agree.
RowAndMarkerAgree ==
  \A u \in Users : Settled(u) /\ ~spoiled[u] =>
    IF isBlock[u] THEN Covered(u) ELSE marker[u] = 0

\* A session belongs to nobody until its sign-in is finished.
SigningIsNew ==
  \A s \in Sessions : /\ signing[s] # NoUser => owner[s] = NoUser
                      /\ signedOut[s] => owner[s] # NoUser

\* The cache keeps a refresh token as long as the access token it renews is
\* valid, unless the client signed out or it could not be stored.
StoredLongEnough ==
  \A s \in Sessions : ~signedOut[s] /\ ~unstored[s] => access[s] <= refresh[s]

BlockingInv == RequestsHaveWork /\ OneAtATime /\ HalfwayAgrees /\ RowAndMarkerAgree
SessionInv == SigningIsNew /\ SignOutEndsSession /\ StoredLongEnough
IInv == TypeOK /\ BlockingInv /\ SessionInv

-----------------------------------------------------------------------------
\* Types.

\* The marker is given a life that it may have.
LEMMA MarkerLifeType ==
  \A block \in BOOLEAN : MarkerLife(block) \in 0 .. BlockLife
  BY LivesAssumption DEF MarkerLife

\* A tick takes a life no further than to its end.
LEMMA OlderType ==
  ASSUME NEW n \in Nat, NEW life \in 0 .. n
  PROVE  Older(life) \in 0 .. n
  BY DEF Older

\* A tick keeps two lives in their order.
LEMMA OlderMonotonic ==
  ASSUME NEW x \in Nat, NEW y \in Nat, x <= y
  PROVE  Older(x) <= Older(y)
  BY DEF Older

\* A request about a user, less the part that was finished.
LEMMA FinishType ==
  ASSUME TypeOK, NEW a \in Admins, NEW part_ \in {"cache", "row"}, Finish(a, part_)
  PROVE  /\ op' \in [Admins -> Ops \cup {NoOp}]
         /\ op[a] \in Ops
         /\ \A b \in Admins : b # a => op'[b] = op[b]
         /\ op'[a] = NoOp => op[a].todo = {part_}
         /\ op'[a] # NoOp => /\ op'[a].user = op[a].user /\ op'[a].block = op[a].block
                             /\ op'[a].todo = op[a].todo \ {part_}
                             /\ op'[a].todo # {}
  <1>1. op[a] \in Ops /\ op[a] # NoOp /\ part_ \in op[a].todo
    BY DEF TypeOK, Finish
  <1>2. [op[a] EXCEPT !.todo = @ \ {part_}] \in Ops
    BY <1>1 DEF Ops
  <1>3. /\ [op[a] EXCEPT !.todo = @ \ {part_}].user = op[a].user
        /\ [op[a] EXCEPT !.todo = @ \ {part_}].block = op[a].block
        /\ [op[a] EXCEPT !.todo = @ \ {part_}].todo = op[a].todo \ {part_}
    BY <1>1 DEF Ops
  <1>4. CASE op[a].todo = {part_}
    BY <1>1, <1>4 DEF TypeOK, Finish
  <1>5. CASE op[a].todo # {part_}
    <2>1. op' = [op EXCEPT ![a] = [op[a] EXCEPT !.todo = @ \ {part_}]]
      BY <1>5 DEF Finish
    <2>2. op[a].todo \ {part_} # {}
      BY <1>1, <1>5
    <2> QED
      BY <1>1, <1>2, <1>3, <2>1, <2>2, NoOpAssumption DEF TypeOK
  <1> QED
    BY <1>4, <1>5

\* When the process ends no request is under way any more, and those that were
\* spoil what is said of their users.
LEMMA DiesStep ==
  ASSUME TypeOK, Dies
  PROVE  /\ op' \in [Admins -> Ops \cup {NoOp}] /\ \A a \in Admins : op'[a] = NoOp
         /\ signing' \in [Sessions -> Users \cup {NoUser}]
         /\ \A s \in Sessions : signing'[s] = NoUser
         /\ renewing' \in [Sessions -> BOOLEAN] /\ \A s \in Sessions : ~renewing'[s]
         /\ spoiled' \in [Users -> BOOLEAN]
         /\ \A u \in Users : ~spoiled'[u] => ~spoiled[u] /\ Settled(u)
  <1>1. \A u \in Users : ~spoiled'[u] => ~spoiled[u] /\ Settled(u)
    BY DEF Dies, Settled
  <1> QED
    BY <1>1 DEF Dies, TypeOK

\* Every step keeps the types.
LEMMA TypeStep ==
  ASSUME TypeOK, [Next]_vars
  PROVE  TypeOK'
  <1> USE DEF TypeOK, sessionVars, history
  <1>1. ASSUME NEW s \in Sessions, NEW u \in Users, ValidateUser(s, u)
        PROVE  TypeOK'
    BY <1>1 DEF ValidateUser
  <1>2. ASSUME NEW s \in Sessions, SignIn(s)
        PROVE  TypeOK'
    BY <1>2, LivesAssumption DEF SignIn
  <1>3. ASSUME NEW s \in Sessions, RenewRead(s)
        PROVE  TypeOK'
    BY <1>3 DEF RenewRead
  <1>4. ASSUME NEW s \in Sessions, Renew(s)
        PROVE  TypeOK'
    BY <1>4, LivesAssumption DEF Renew
  <1>5. ASSUME NEW s \in Sessions, RenewFails(s)
        PROVE  TypeOK'
    BY <1>5 DEF RenewFails
  <1>6. ASSUME NEW s \in Sessions, SignOut(s)
        PROVE  TypeOK'
    BY <1>6, LivesAssumption DEF SignOut
  <1>7. ASSUME NEW a \in Admins, NEW u \in Users, NEW block \in BOOLEAN,
               BlockAdminUser(a, u, block)
        PROVE  TypeOK'
    <2>1. [user |-> u, block |-> block, todo |-> {"cache", "row"}] \in Ops
      BY DEF Ops
    <2> QED
      BY <1>7, <2>1 DEF BlockAdminUser, Settled
  <1>8. ASSUME NEW a \in Admins, BlockCache(a)
        PROVE  TypeOK'
    <2>1. op[a] \in Ops /\ op' \in [Admins -> Ops \cup {NoOp}]
      BY <1>8, FinishType DEF BlockCache
    <2>2. op[a].user \in Users /\ op[a].block \in BOOLEAN
      BY <2>1 DEF Ops
    <2> QED
      BY <1>8, <2>1, <2>2, MarkerLifeType DEF BlockCache
  <1>9. ASSUME NEW a \in Admins, BlockRow(a)
        PROVE  TypeOK'
    <2>1. op[a] \in Ops /\ op' \in [Admins -> Ops \cup {NoOp}]
      BY <1>9, FinishType DEF BlockRow
    <2>2. op[a].user \in Users /\ op[a].block \in BOOLEAN
      BY <2>1 DEF Ops
    <2> QED
      BY <1>9, <2>1, <2>2 DEF BlockRow
  <1>10. CASE Tick
    <2>1. \A u \in Users : Older(marker[u]) \in 0 .. BlockLife
      BY OlderType, LivesAssumption
    <2>2. \A s \in Sessions : Older(access[s]) \in 0 .. AccessLife
      BY OlderType, LivesAssumption
    <2>3. \A s \in Sessions : Older(refresh[s]) \in 0 .. RefreshLife
      BY OlderType, LivesAssumption
    <2>4. \A s \in Sessions : Older(jwt[s]) \in 0 .. JwtLife
      BY OlderType, LivesAssumption
    <2> QED
      BY <1>10, <2>1, <2>2, <2>3, <2>4 DEF Tick
  <1>11. ASSUME NEW s \in Sessions, SignInUnstored(s)
         PROVE  TypeOK'
    BY <1>11, DiesStep, LivesAssumption DEF SignInUnstored
  <1>12. ASSUME NEW s \in Sessions, RenewUnstored(s)
         PROVE  TypeOK'
    BY <1>12, DiesStep, LivesAssumption DEF RenewUnstored
  <1>13. ASSUME NEW a \in Admins, BlockRowFails(a)
         PROVE  TypeOK'
    <2>1. op[a] \in Ops /\ op' \in [Admins -> Ops \cup {NoOp}]
      BY <1>13, FinishType DEF BlockRowFails
    <2> QED
      BY <1>13, <2>1 DEF BlockRowFails
  <1>14. CASE Crash
    BY <1>14, DiesStep DEF Crash
  <1>15. CASE UNCHANGED vars
    BY <1>15 DEF vars
  <1> QED
    BY <1>1, <1>2, <1>3, <1>4, <1>5, <1>6, <1>7, <1>8, <1>9, <1>10, <1>11, <1>12, <1>13,
       <1>14, <1>15 DEF Next

-----------------------------------------------------------------------------
\* Sessions: signing in, renewing and signing out.

\* Every step keeps the parts of the invariant that are about one session.
LEMMA SessionStep ==
  ASSUME TypeOK, SessionInv, [Next]_vars
  PROVE  SessionInv'
  <1> USE DEF SessionInv, SigningIsNew, SignOutEndsSession, StoredLongEnough, TypeOK,
              sessionVars, history
  <1>1. ASSUME NEW s \in Sessions, NEW u \in Users, ValidateUser(s, u)
        PROVE  SessionInv'
    BY <1>1 DEF ValidateUser
  <1>2. ASSUME NEW s \in Sessions, SignIn(s)
        PROVE  SessionInv'
    BY <1>2, LivesAssumption DEF SignIn
  <1>3. ASSUME NEW s \in Sessions, RenewRead(s)
        PROVE  SessionInv'
    BY <1>3 DEF RenewRead, Renewable
  <1>4. ASSUME NEW s \in Sessions, Renew(s)
        PROVE  SessionInv'
    <2>1. /\ access'[s] <= refresh'[s] /\ refresh'[s] = RefreshLife /\ ~renewing'[s]
          /\ \A r \in Sessions : r # s => /\ access'[r] = access[r] /\ refresh'[r] = refresh[r]
                                         /\ renewing'[r] = renewing[r]
                                         /\ unstored'[r] = unstored[r]
      BY <1>4, LivesAssumption DEF Renew
    <2>2. UNCHANGED <<owner, signing, signedOut, raced>>
      BY <1>4 DEF Renew
    <2>3. signedOut[s] => raced[s]
      BY <1>4 DEF Renew
    <2> QED
      BY <2>1, <2>2, <2>3
  <1>5. ASSUME NEW s \in Sessions, RenewFails(s)
        PROVE  SessionInv'
    BY <1>5 DEF RenewFails
  <1>6. ASSUME NEW s \in Sessions, SignOut(s)
        PROVE  SessionInv'
    BY <1>6 DEF SignOut, Admitted
  <1>7. ASSUME NEW a \in Admins, NEW u \in Users, NEW block \in BOOLEAN,
               BlockAdminUser(a, u, block)
        PROVE  SessionInv'
    BY <1>7 DEF BlockAdminUser
  <1>8. ASSUME NEW a \in Admins, BlockCache(a) \/ BlockRow(a) \/ BlockRowFails(a)
        PROVE  SessionInv'
    <2>1. UNCHANGED <<owner, access, refresh, signing, renewing, signedOut, raced, unstored>>
      BY <1>8 DEF BlockCache, BlockRow, BlockRowFails
    <2> QED
      BY <2>1
  <1>9. CASE Tick
    <2>1. \A s \in Sessions : access[s] <= refresh[s] => Older(access[s]) <= Older(refresh[s])
      BY OlderMonotonic, LivesAssumption
    <2> QED
      BY <1>9, <2>1 DEF Tick, InFlight, Older
  <1>10. ASSUME NEW s \in Sessions, SignInUnstored(s)
         PROVE  SessionInv'
    BY <1>10, DiesStep DEF SignInUnstored
  <1>11. ASSUME NEW s \in Sessions, RenewUnstored(s)
         PROVE  SessionInv'
    BY <1>11, DiesStep DEF RenewUnstored
  <1>12. CASE Crash
    BY <1>12, DiesStep DEF Crash
  <1>13. CASE UNCHANGED vars
    BY <1>13 DEF vars
  <1> QED
    BY <1>1, <1>2, <1>3, <1>4, <1>5, <1>6, <1>7, <1>8, <1>9, <1>10, <1>11, <1>12, <1>13 DEF Next

-----------------------------------------------------------------------------
\* Blocking.

\* A step that leaves the requests of the administrators, the row and the
\* marker alone keeps what is said of a request under way.
LEMMA NoRequestStep ==
  ASSUME TypeOK, BlockingInv, UNCHANGED <<op, isBlock, marker, spoiled>>
  PROVE  /\ RequestsHaveWork' /\ OneAtATime' /\ HalfwayAgrees'
         /\ \A u \in Users : Settled(u)' <=> Settled(u)
  BY DEF BlockingInv, RequestsHaveWork, OneAtATime, HalfwayAgrees, About, Settled

\* The steps of a session: a token is issued to a user who is not blocked, by
\* a sign-in the marker covers, or by a renewal.
LEMMA SessionKeepsBlocking ==
  ASSUME TypeOK, BlockingInv, SessionInv, NEW s \in Sessions,
         \/ \E u \in Users : ValidateUser(s, u)
         \/ SignIn(s) \/ RenewRead(s) \/ Renew(s) \/ RenewFails(s) \/ SignOut(s)
  PROVE  BlockingInv'
  <1>1. UNCHANGED <<op, isBlock, marker, spoiled>>
    BY DEF ValidateUser, SignIn, RenewRead, Renew, RenewFails, SignOut, history, sessionVars
  <1>2. ASSUME NEW u \in Users, Settled(u), ~spoiled[u], isBlock[u]
        PROVE  Covered(u)'
    <2>1. Covered(u)
      BY <1>2 DEF BlockingInv, RowAndMarkerAgree
    <2> USE DEF Covered, TypeOK, history, sessionVars
    <2>2. ASSUME NEW v \in Users, ValidateUser(s, v)
          PROVE  Covered(u)'
      BY <1>2, <2>1, <2>2 DEF ValidateUser
    <2>3. CASE SignIn(s)
      <3>1. signing[s] = u => AccessLife <= marker[u]
        BY <2>1, LivesAssumption
      <3>2. \A r \in Sessions : r # s => /\ owner'[r] = owner[r] /\ access'[r] = access[r]
                                         /\ signing'[r] = signing[r]
        BY <2>3 DEF SignIn
      <3>3. owner'[s] = signing[s] /\ access'[s] = AccessLife /\ signing'[s] = NoUser
        BY <2>3 DEF SignIn
      <3>4. renewed' = renewed /\ marker' = marker
        BY <2>3 DEF SignIn
      <3> QED
        BY <2>1, <3>1, <3>2, <3>3, <3>4, NoUserAssumption
    <2>4. CASE RenewRead(s) \/ RenewFails(s) \/ SignOut(s)
      BY <2>1, <2>4 DEF RenewRead, RenewFails, SignOut
    <2>5. CASE Renew(s)
      BY <2>1, <2>5 DEF Renew
    <2> QED
      BY <2>2, <2>3, <2>4, <2>5
  <1>3. RowAndMarkerAgree'
    BY <1>1, <1>2, NoRequestStep DEF RowAndMarkerAgree, BlockingInv
  <1> QED
    BY <1>1, <1>3, NoRequestStep DEF BlockingInv

\* A new request about a user: what it finds under way crosses it.
LEMMA BlockAdminUserStep ==
  ASSUME TypeOK, BlockingInv, NEW a \in Admins, NEW u \in Users, NEW block \in BOOLEAN,
         BlockAdminUser(a, u, block)
  PROVE  BlockingInv'
  <1>1. /\ op'[a] # NoOp /\ op'[a].user = u /\ op'[a].todo = {"cache", "row"}
        /\ \A b \in Admins : b # a => op'[b] = op[b]
    <2>1. [user |-> u, block |-> block, todo |-> {"cache", "row"}] \in Ops
      BY DEF Ops
    <2> QED
      BY <2>1, NoOpAssumption DEF BlockAdminUser, TypeOK
  <1>2. /\ spoiled'[u] = ~Settled(u)
        /\ \A v \in Users : v # u => spoiled'[v] = spoiled[v]
    BY DEF BlockAdminUser, TypeOK
  <1>3. op[a] = NoOp
    BY DEF BlockAdminUser
  <1>4. UNCHANGED <<isBlock, marker, owner, access, signing, renewed>>
    BY DEF BlockAdminUser, sessionVars
  <1>5. RequestsHaveWork'
    BY <1>1 DEF BlockingInv, RequestsHaveWork
  <1>6. OneAtATime'
    <2> SUFFICES ASSUME NEW v \in Users, ~spoiled'[v], NEW b \in Admins, NEW c \in Admins,
                        About(b, v)', About(c, v)'
                 PROVE  b = c
      BY DEF OneAtATime
    <2>1. CASE v = u
      <3>1. \A d \in Admins : ~About(d, u)
        BY <1>2, <2>1 DEF Settled, About
      <3> QED
        BY <1>1, <2>1, <3>1 DEF About
    <2>2. CASE v # u
      <3>1. About(b, v) /\ About(c, v) /\ ~spoiled[v]
        BY <1>1, <1>2, <2>2 DEF About
      <3> QED
        BY <3>1 DEF BlockingInv, OneAtATime
    <2> QED
      BY <2>1, <2>2
  <1>7. HalfwayAgrees'
    <2> SUFFICES ASSUME NEW b \in Admins, op'[b] # NoOp, ~spoiled'[op'[b].user]
                 PROVE  /\ "cache" \notin op'[b].todo =>
                             marker[op'[b].user] = MarkerLife(op'[b].block)
                        /\ "row" \notin op'[b].todo => isBlock[op'[b].user] = op'[b].block
      BY <1>4 DEF HalfwayAgrees, MarkerLife
    <2>1. CASE b = a
      BY <1>1, <2>1
    <2>2. CASE b # a
      <3>1. op'[b] = op[b] /\ op[b].user \in Users
        BY <1>1, <2>2 DEF TypeOK, Ops
      <3>2. op[b].user # u
        BY <1>2, <3>1 DEF Settled
      <3>3. ~spoiled[op[b].user]
        BY <1>2, <3>1, <3>2
      <3> QED
        BY <3>1, <3>3 DEF BlockingInv, HalfwayAgrees
    <2> QED
      BY <2>1, <2>2
  <1>8. RowAndMarkerAgree'
    <2> SUFFICES ASSUME NEW v \in Users, Settled(v)', ~spoiled'[v]
                 PROVE  (IF isBlock[v] THEN Covered(v) ELSE marker[v] = 0)'
      BY DEF RowAndMarkerAgree
    <2>1. v # u
      BY <1>1 DEF Settled
    <2>2. Settled(v)
      BY <1>1, <1>3 DEF Settled
    <2> QED
      BY <1>2, <1>4, <2>1, <2>2 DEF BlockingInv, RowAndMarkerAgree, Covered
  <1> QED
    BY <1>5, <1>6, <1>7, <1>8 DEF BlockingInv

\* A part of a request is finished.
LEMMA FinishStep ==
  ASSUME TypeOK, BlockingInv, NEW a \in Admins, NEW which \in {"cache", "row"},
         Finish(a, which), \A u \in Users : spoiled[u] => spoiled'[u]
  PROVE  /\ RequestsHaveWork' /\ OneAtATime'
         /\ \A u \in Users : u # op[a].user => (Settled(u)' <=> Settled(u))
         /\ \A b \in Admins : /\ b # a /\ op[b] # NoOp /\ op[b].user = op[a].user
                             => spoiled[op[a].user]
  <1>1. /\ op[a] # NoOp /\ op[a].user \in Users
    BY FinishType DEF Finish, Ops
  <1>2. \A b \in Admins, u \in Users : About(b, u)' => About(b, u)
    BY <1>1, FinishType DEF About
  <1>3. OneAtATime'
    BY <1>2 DEF BlockingInv, OneAtATime
  <1>4. RequestsHaveWork'
    BY FinishType DEF BlockingInv, RequestsHaveWork
  <1>5. \A u \in Users : u # op[a].user => (Settled(u)' <=> Settled(u))
    BY <1>1, FinishType DEF Settled
  <1>6. \A b \in Admins : /\ b # a /\ op[b] # NoOp /\ op[b].user = op[a].user
                        => spoiled[op[a].user]
    BY <1>1 DEF BlockingInv, OneAtATime, About
  <1> QED
    BY <1>3, <1>4, <1>5, <1>6

\* The cache command takes effect: the marker is set or deleted.
LEMMA BlockCacheStep ==
  ASSUME TypeOK, BlockingInv, NEW a \in Admins, BlockCache(a)
  PROVE  BlockingInv'
  <1> DEFINE u == op[a].user
             block == op[a].block
  <1>1. Finish(a, "cache") /\ UNCHANGED <<isBlock, owner, access, signing, spoiled>>
    BY DEF BlockCache, sessionVars
  <1>2. u \in Users /\ block \in BOOLEAN /\ op[a] # NoOp
    BY <1>1, FinishType DEF Ops, Finish
  <1>3. /\ marker'[u] = MarkerLife(block)
        /\ \A v \in Users : v # u => marker'[v] = marker[v]
    BY <1>2 DEF BlockCache, TypeOK
  <1>4. \A v \in Users, s \in Sessions :
          v # u /\ owner[s] = v => renewed'[s] = renewed[s]
    BY <1>2 DEF BlockCache
  <1>5. HalfwayAgrees'
    <2> SUFFICES ASSUME NEW b \in Admins, op'[b] # NoOp, ~spoiled[op'[b].user]
                 PROVE  /\ "cache" \notin op'[b].todo =>
                             marker'[op'[b].user] = MarkerLife(op'[b].block)
                        /\ "row" \notin op'[b].todo => isBlock[op'[b].user] = op'[b].block
      BY <1>1 DEF HalfwayAgrees, MarkerLife
    <2>1. CASE b = a
      <3>1. op'[a].user = u /\ op'[a].block = block /\ op'[a].todo = op[a].todo \ {"cache"}
        BY <1>1, <2>1, FinishType
      <3> QED
        BY <1>2, <1>3, <2>1, <3>1 DEF BlockingInv, HalfwayAgrees
    <2>2. CASE b # a
      <3>1. op'[b] = op[b] /\ op[b].user \in Users
        BY <1>1, <2>2, FinishType DEF TypeOK, Ops
      <3>2. op[b].user # u
        BY <1>1, <2>2, <3>1, FinishStep
      <3> QED
        BY <1>3, <3>1, <3>2 DEF BlockingInv, HalfwayAgrees
    <2> QED
      BY <2>1, <2>2
  <1>6. RowAndMarkerAgree'
    <2> SUFFICES ASSUME NEW v \in Users, Settled(v)', ~spoiled[v]
                 PROVE  (IF isBlock[v] THEN Covered(v) ELSE marker[v] = 0)'
      BY <1>1 DEF RowAndMarkerAgree
    <2>1. CASE v = u
      <3>1. op'[a] = NoOp
        BY <1>1, <2>1, FinishType DEF Settled
      <3>2. op[a].todo = {"cache"}
        BY <1>1, <3>1, FinishType
      <3>3. isBlock[u] = block
        BY <1>2, <2>1, <3>2 DEF BlockingInv, HalfwayAgrees
      <3>4. isBlock[u] => marker'[u] = BlockLife
        BY <1>3, <3>3 DEF MarkerLife
      <3>5. \A s \in Sessions : access[s] <= BlockLife
        BY LivesAssumption DEF TypeOK
      <3>6. ~isBlock[u] => marker'[u] = 0
        BY <1>3, <3>3 DEF MarkerLife
      <3> QED
        BY <1>1, <2>1, <3>4, <3>5, <3>6 DEF Covered
    <2>2. CASE v # u
      <3>1. Settled(v)
        BY <1>1, <2>2, FinishStep
      <3>2. IF isBlock[v] THEN Covered(v) ELSE marker[v] = 0
        BY <3>1 DEF BlockingInv, RowAndMarkerAgree
      <3>3. isBlock[v] => Covered(v)'
        <4> SUFFICES ASSUME Covered(v), NEW s \in Sessions
                     PROVE  /\ owner[s] = v /\ ~renewed'[s] => access[s] <= marker'[v]
                            /\ signing[s] = v => marker'[v] = BlockLife
          BY <1>1, <3>2 DEF Covered
        <4> QED
          BY <1>3, <1>4, <2>2 DEF Covered
      <3> QED
        BY <1>1, <1>3, <2>2, <3>2, <3>3
    <2> QED
      BY <2>1, <2>2
  <1> QED
    BY <1>1, <1>5, <1>6, FinishStep DEF BlockingInv

\* The update of the row takes effect.
LEMMA BlockRowStep ==
  ASSUME TypeOK, BlockingInv, NEW a \in Admins, BlockRow(a)
  PROVE  BlockingInv'
  <1> DEFINE u == op[a].user
             block == op[a].block
  <1>1. /\ Finish(a, "row")
        /\ UNCHANGED <<marker, owner, access, signing, renewed, spoiled>>
    BY DEF BlockRow, sessionVars, history
  <1>2. u \in Users /\ block \in BOOLEAN /\ op[a] # NoOp
    BY <1>1, FinishType DEF Ops, Finish
  <1>3. /\ isBlock'[u] = block
        /\ \A v \in Users : v # u => isBlock'[v] = isBlock[v]
    BY <1>2 DEF BlockRow, TypeOK
  <1>4. HalfwayAgrees'
    <2> SUFFICES ASSUME NEW b \in Admins, op'[b] # NoOp, ~spoiled[op'[b].user]
                 PROVE  /\ "cache" \notin op'[b].todo =>
                             marker[op'[b].user] = MarkerLife(op'[b].block)
                        /\ "row" \notin op'[b].todo => isBlock'[op'[b].user] = op'[b].block
      BY <1>1 DEF HalfwayAgrees, MarkerLife
    <2>1. CASE b = a
      <3>1. op'[a].user = u /\ op'[a].block = block /\ op'[a].todo = op[a].todo \ {"row"}
        BY <1>1, <2>1, FinishType
      <3> QED
        BY <1>2, <1>3, <2>1, <3>1 DEF BlockingInv, HalfwayAgrees
    <2>2. CASE b # a
      <3>1. op'[b] = op[b] /\ op[b].user \in Users
        BY <1>1, <2>2, FinishType DEF TypeOK, Ops
      <3>2. op[b].user # u
        BY <1>1, <2>2, <3>1, FinishStep
      <3> QED
        BY <1>3, <3>1, <3>2 DEF BlockingInv, HalfwayAgrees
    <2> QED
      BY <2>1, <2>2
  <1>5. RowAndMarkerAgree'
    <2> SUFFICES ASSUME NEW v \in Users, Settled(v)', ~spoiled[v]
                 PROVE  (IF isBlock[v] THEN Covered(v) ELSE marker[v] = 0)'
      BY <1>1 DEF RowAndMarkerAgree
    <2>1. CASE v = u
      <3>1. op'[a] = NoOp
        BY <1>1, <2>1, FinishType DEF Settled
      <3>2. op[a].todo = {"row"}
        BY <1>1, <3>1, FinishType
      <3>3. marker[u] = MarkerLife(block)
        BY <1>2, <2>1, <3>2 DEF BlockingInv, HalfwayAgrees
      <3>4. isBlock'[u] => marker[u] = BlockLife
        BY <1>3, <3>3 DEF MarkerLife
      <3>5. \A s \in Sessions : access[s] <= BlockLife
        BY LivesAssumption DEF TypeOK
      <3>6. ~isBlock'[u] => marker[u] = 0
        BY <1>3, <3>3 DEF MarkerLife
      <3> QED
        BY <1>1, <2>1, <3>4, <3>5, <3>6 DEF Covered
    <2>2. CASE v # u
      <3>1. Settled(v)
        BY <1>1, <2>2, FinishStep
      <3> QED
        BY <1>1, <1>3, <2>2, <3>1 DEF BlockingInv, RowAndMarkerAgree, Covered
    <2> QED
      BY <2>1, <2>2
  <1> QED
    BY <1>1, <1>4, <1>5, FinishStep DEF BlockingInv

\* The update of the row fails: nothing is said of the user any more.
LEMMA BlockRowFailsStep ==
  ASSUME TypeOK, BlockingInv, NEW a \in Admins, BlockRowFails(a)
  PROVE  BlockingInv'
  <1> DEFINE u == op[a].user
  <1>1. /\ Finish(a, "row")
        /\ UNCHANGED <<isBlock, marker, owner, access, signing, renewed>>
    BY DEF BlockRowFails, sessionVars
  <1>2. u \in Users
    BY <1>1, FinishType DEF Ops, Finish
  <1>3. spoiled'[u] /\ \A v \in Users : v # u => spoiled'[v] = spoiled[v]
    BY <1>2 DEF BlockRowFails, TypeOK
  <1>4. RequestsHaveWork' /\ OneAtATime'
    BY <1>1, <1>3, FinishStep
  <1>5. \A v \in Users : v # u => (Settled(v)' <=> Settled(v))
    BY <1>1, <1>3, FinishStep
  <1>6. HalfwayAgrees'
    <2> SUFFICES ASSUME NEW b \in Admins, op'[b] # NoOp, ~spoiled'[op'[b].user]
                 PROVE  /\ "cache" \notin op'[b].todo =>
                             marker[op'[b].user] = MarkerLife(op'[b].block)
                        /\ "row" \notin op'[b].todo => isBlock[op'[b].user] = op'[b].block
      BY <1>1 DEF HalfwayAgrees, MarkerLife
    <2>1. b # a
      BY <1>1, <1>3, FinishType
    <2>2. op'[b] = op[b] /\ op[b].user \in Users
      BY <1>1, <2>1, FinishType DEF TypeOK, Ops
    <2> QED
      BY <1>3, <2>2 DEF BlockingInv, HalfwayAgrees
  <1>7. RowAndMarkerAgree'
    <2> SUFFICES ASSUME NEW v \in Users, Settled(v)', ~spoiled'[v]
                 PROVE  (IF isBlock[v] THEN Covered(v) ELSE marker[v] = 0)'
      BY DEF RowAndMarkerAgree
    <2> QED
      BY <1>1, <1>3, <1>5 DEF BlockingInv, RowAndMarkerAgree, Covered
  <1> QED
    BY <1>4, <1>6, <1>7 DEF BlockingInv

\* The process ends, as it may when a refresh token could not be stored: a
\* sign-in had passed the check, and a renewal counts as one.
LEMMA DiesKeepsBlocking ==
  ASSUME TypeOK, BlockingInv,
         Crash \/ \E s \in Sessions : SignInUnstored(s) \/ RenewUnstored(s)
  PROVE  BlockingInv'
  <1>1. Dies /\ UNCHANGED <<isBlock, marker>>
    BY DEF Crash, SignInUnstored, RenewUnstored
  <1>2. RequestsHaveWork' /\ OneAtATime' /\ HalfwayAgrees'
    BY <1>1, DiesStep DEF RequestsHaveWork, OneAtATime, HalfwayAgrees, About
  <1>3. ASSUME NEW u \in Users, Covered(u)
        PROVE  Covered(u)'
    <2> SUFFICES ASSUME NEW r \in Sessions, owner'[r] = u, ~renewed'[r]
                 PROVE  access'[r] <= marker[u]
      BY <1>1, DiesStep, NoUserAssumption DEF Covered
    <2>1. CASE Crash
      BY <1>3, <2>1 DEF Crash, Covered
    <2>2. ASSUME NEW s \in Sessions, SignInUnstored(s)
          PROVE  access'[r] <= marker[u]
      <3>1. signing[s] = u => AccessLife <= marker[u]
        BY <1>3, LivesAssumption DEF Covered
      <3>2. owner'[s] = signing[s] /\ access'[s] = AccessLife
        BY <2>2 DEF SignInUnstored, TypeOK
      <3>3. r # s => owner'[r] = owner[r] /\ access'[r] = access[r]
        BY <2>2 DEF SignInUnstored, TypeOK
      <3>4. renewed' = renewed
        BY <2>2 DEF SignInUnstored
      <3> QED
        BY <1>3, <3>1, <3>2, <3>3, <3>4 DEF Covered
    <2>3. ASSUME NEW s \in Sessions, RenewUnstored(s)
          PROVE  access'[r] <= marker[u]
      <3>1. renewed'[s] /\ (r # s => renewed'[r] = renewed[r] /\ access'[r] = access[r])
        BY <2>3 DEF RenewUnstored, TypeOK
      <3>2. owner' = owner
        BY <2>3 DEF RenewUnstored
      <3> QED
        BY <1>3, <3>1, <3>2 DEF Covered
    <2> QED
      BY <2>1, <2>2, <2>3
  <1>4. RowAndMarkerAgree'
    BY <1>1, <1>3, DiesStep DEF BlockingInv, RowAndMarkerAgree
  <1> QED
    BY <1>2, <1>4 DEF BlockingInv

\* Time passes only while nothing is under way, and for the marker of a user
\* as for the tokens.
LEMMA TickKeepsBlocking ==
  ASSUME TypeOK, BlockingInv, Tick
  PROVE  BlockingInv'
  <1>1. /\ UNCHANGED <<op, isBlock, spoiled, owner, signing, renewed>>
        /\ \A u \in Users : marker'[u] = Older(marker[u])
        /\ \A s \in Sessions : access'[s] = Older(access[s])
    BY DEF Tick, history
  <1>2. /\ \A a \in Admins : op[a] = NoOp
        /\ \A s \in Sessions : signing[s] = NoUser
    BY DEF Tick, InFlight
  <1>3. \A u \in Users, s \in Sessions :
          access[s] <= marker[u] => Older(access[s]) <= Older(marker[u])
    BY OlderMonotonic, LivesAssumption DEF TypeOK
  <1>4. RequestsHaveWork' /\ OneAtATime' /\ HalfwayAgrees'
    BY <1>1, <1>2 DEF RequestsHaveWork, OneAtATime, HalfwayAgrees, About
  <1>5. ASSUME NEW u \in Users, ~spoiled[u]
        PROVE  (IF isBlock[u] THEN Covered(u) ELSE marker[u] = 0)'
    <2>1. IF isBlock[u] THEN Covered(u) ELSE marker[u] = 0
      BY <1>2, <1>5 DEF BlockingInv, RowAndMarkerAgree, Settled
    <2>2. CASE isBlock[u]
      BY <1>1, <1>2, <1>3, <2>1, <2>2, NoUserAssumption DEF Covered
    <2>3. CASE ~isBlock[u]
      BY <1>1, <2>1, <2>3 DEF Older
    <2> QED
      BY <2>2, <2>3
  <1> QED
    BY <1>1, <1>4, <1>5 DEF BlockingInv, RowAndMarkerAgree

\* Every step keeps what is said of rows and markers.
LEMMA BlockingStep ==
  ASSUME TypeOK, BlockingInv, SessionInv, [Next]_vars
  PROVE  BlockingInv'
  <1>1. CASE UNCHANGED vars
    BY <1>1, NoRequestStep
    DEF vars, sessionVars, history, BlockingInv, RowAndMarkerAgree, Covered
  <1>2. CASE Next
    BY <1>2, SessionKeepsBlocking, BlockAdminUserStep, BlockCacheStep, BlockRowStep,
       BlockRowFailsStep, DiesKeepsBlocking, TickKeepsBlocking DEF Next
  <1> QED
    BY <1>1, <1>2

-----------------------------------------------------------------------------
\* Theorems about the sessions of users.

LEMMA InitIInv ==
  ASSUME Init
  PROVE  IInv
  <1> USE DEF Init
  <1>1. TypeOK
    BY LivesAssumption DEF TypeOK
  <1>2. BlockingInv
    BY DEF BlockingInv, RequestsHaveWork, OneAtATime, About, HalfwayAgrees, RowAndMarkerAgree
  <1>3. SessionInv
    BY DEF SessionInv, SigningIsNew, SignOutEndsSession, StoredLongEnough
  <1> QED
    BY <1>1, <1>2, <1>3 DEF IInv

LEMMA NextIInv == IInv /\ [Next]_vars => IInv'
  BY TypeStep, SessionStep, BlockingStep DEF IInv

\* Rows, markers and tokens have their types, requests under way have work
\* left, and row, marker and tokens are related as RowAndMarkerAgree says.
THEOREM SessionsInvariant == Spec => []IInv
  BY InitIInv, NextIInv, PTL DEF Spec

LEMMA RowAndMarkerAgreeUse ==
  ASSUME TypeOK, BlockingInv
  PROVE  MarkerOutlivesTokens /\ UnblockedIsFree
  BY DEF TypeOK, BlockingInv, RowAndMarkerAgree, Covered, MarkerOutlivesTokens, UnblockedIsFree

\* An access token that a blocked user held when the marker was set, or was
\* given by a sign-in that had passed the check, expires before the marker,
\* whatever order the cache command and the update of the row take effect in;
\* of a user whose last request crossed no other and was carried out whole.
THEOREM MarkerOutlivesTokensHolds == Spec => []MarkerOutlivesTokens
  BY SessionsInvariant, RowAndMarkerAgreeUse, PTL DEF IInv

\* No marker is left behind for a user who is not blocked, whatever order
\* the cache command and the update of the row take effect in, and though the
\* process may end or the update fail: then the user is exempt until the next
\* request that is carried out whole.
THEOREM UnblockedIsFreeHolds == Spec => []UnblockedIsFree
  BY SessionsInvariant, RowAndMarkerAgreeUse, PTL DEF IInv

\* A session that was signed out is not renewed, unless a renewal was under way.
THEOREM SignOutEndsSessionHolds == Spec => []SignOutEndsSession
  BY SessionsInvariant, PTL DEF IInv, SessionInv

\* A session that was not signed out can be renewed as long as it is used, until
\* its refresh token expires as a JWT, unless the cache failed to store it.
THEOREM CanRenewHolds == Spec => []CanRenew
  <1>1. IInv => CanRenew
    BY DEF IInv, TypeOK, SessionInv, StoredLongEnough, CanRenew, Renewable
  <1> QED
    BY <1>1, SessionsInvariant, PTL

-----------------------------------------------------------------------------
\* The administrators.

\* A sign-in under way has found a row, with an id given before; a renewal
\* was asked for with a cookie.
RequestsAreGrounded ==
  \A c \in Clients :
    /\ Doing(c, "signin") => request[c].id \in Ids /\ request[c].id < nextId
    /\ Doing(c, "renew") => cookie[c] # None

\* Ids and refresh tokens are numbered in the order in which they are given.
NumbersAreGiven ==
  /\ \A a \in Accounts : Exists(a) =>
       row[a].id < nextId /\ (row[a].token # None => row[a].token < nextToken)
  /\ \A c \in Clients : cookie[c] # None =>
       cookie[c].id < nextId /\ cookie[c].token < nextToken

\* A token in the row of its account was given to the administrator of the row.
TokensNameTheirOwner ==
  \A c \in Clients : cookie[c] # None =>
    LET k == cookie[c] IN
      Exists(k.account) /\ row[k.account].token = k.token => row[k.account].id = k.id

\* As long as the administrator is there, the token of a cookie is in the row
\* until a request replaces it or takes it back, with the expiry it was given.
TokensAreKept ==
  \A c \in Clients : cookie[c] # None /\ cookie[c].token \notin cut =>
    LET k == cookie[c] IN
      Exists(k.account) /\ row[k.account].id = k.id =>
        row[k.account].token = k.token /\ row[k.account].exp = Expiry(k.at)

AdminIInv == /\ AdminTypeOK /\ RequestsAreGrounded /\ NumbersAreGiven
             /\ TokensNameTheirOwner /\ TokensAreKept

\* A set of natural numbers that is not empty has a least element.
LEMMA MinIsMember ==
  ASSUME NEW S, S \subseteq Nat, S # {}
  PROVE  Min(S) \in S
  <1> DEFINE Less == {ss \in Nat \X Nat : ss[1] < ss[2]}
  <1>1. IsWellFoundedOn(Less, Nat)
    BY NatLessThanWellFounded DEF OpToRel
  <1>2. PICK x \in S : \A y \in S : ~(<<y, x>> \in Less)
    <2> HIDE DEF Less
    <2> QED
      BY <1>1, WFMin
  <1>3. \E z \in S : \A y \in S : z <= y
    <2>1. \A y \in S : ~(y < x)
      BY <1>2
    <2> QED
      BY <2>1
  <1> QED
    BY <1>3 DEF Min

\* An expiry is a time after the sign-in.
LEMMA ExpiryType ==
  ASSUME NEW t \in 0 .. MaxTime
  PROVE  Expiry(t) \in Nat
  <1> DEFINE left == Week - ((t \div Day) % Week)
  <1>1. t \div Day \in Nat
    BY WeekAssumption, BoundsAssumption
  <1>2. left \in Nat
    BY <1>1, WeekAssumption
  <1> HIDE DEF left
  <1>3. Day * left \in Nat
    BY <1>2, WeekAssumption
  <1>4. t + Day * left \in Nat
    BY <1>3, BoundsAssumption
  <1> QED
    BY <1>4 DEF Expiry, left

\* A request is noted; nothing else changes.
LEMMA BeginStep ==
  ASSUME AdminIInv, NEW c \in Clients, NEW kind \in {"signin", "renew", "signout", "signup"},
         NEW a \in Accounts, NEW id \in Ids \cup {None}, Begin(c, kind, a, id),
         kind = "signin" => id \in Ids /\ id < nextId,
         kind = "renew" => cookie[c] # None
  PROVE  AdminIInv'
  <1>1. [op |-> kind, account |-> a, id |-> id] \in Requests
    BY DEF Requests
  <1>2. AdminTypeOK'
    BY <1>1 DEF AdminIInv, AdminTypeOK, Begin
  <1>3. RequestsAreGrounded'
    BY DEF AdminIInv, AdminTypeOK, RequestsAreGrounded, Doing, Begin
  <1>4. UNCHANGED <<row, nextId, nextToken, now, cookie, cut>>
    BY DEF Begin
  <1> QED
    BY <1>2, <1>3, <1>4
    DEF AdminIInv, NumbersAreGiven, TokensNameTheirOwner, TokensAreKept, Exists, Expiry

\* The insert of a new row, which gives it an id that no cookie names.
LEMMA SignupInsertStep ==
  ASSUME AdminIInv, NEW c \in Clients, SignupInsert(c)
  PROVE  AdminIInv'
  <1> USE DEF AdminIInv, AdminTypeOK
  <1>1. /\ request' \in [Clients -> Requests \cup {None}]
        /\ \A b \in Clients : request'[b] # None => request'[b] = request[b]
        /\ UNCHANGED <<nextToken, now, cookie, cut>>
    BY DEF SignupInsert, End
  <1> DEFINE a == request[c].account
             new == [id |-> nextId, token |-> None, exp |-> 0]
  <1>2. CASE Exists(a)
    <2>1. UNCHANGED <<row, nextId>>
      BY <1>2 DEF SignupInsert
    <2> QED
      BY <1>1, <2>1 DEF RequestsAreGrounded, Doing, NumbersAreGiven, TokensNameTheirOwner,
                        TokensAreKept, Exists, Expiry
  <1>3. CASE ~Exists(a)
    <2>1. /\ nextId <= MaxId /\ nextId' = nextId + 1
          /\ row' = [row EXCEPT ![a] = new]
      BY <1>3 DEF SignupInsert
    <2>2. a \in Accounts /\ new \in Rows /\ new # Absent
      BY <2>1, BoundsAssumption, WeekAssumption, AbsentAssumption
      DEF SignupInsert, Doing, Requests, Rows, Ids
    <2>3. /\ row'[a] = new
          /\ \A b \in Accounts : b # a => row'[b] = row[b]
      BY <2>1, <2>2
    <2> HIDE DEF new
    <2>4. new.id = nextId /\ new.token = None
      BY DEF new
    <2>5. AdminTypeOK'
      BY <1>1, <2>1, <2>2, BoundsAssumption
    <2>6. RequestsAreGrounded'
      BY <1>1, <2>1 DEF RequestsAreGrounded, Doing, Ids
    <2>7. NumbersAreGiven'
      BY <1>1, <2>1, <2>3, <2>4 DEF NumbersAreGiven, Exists, Rows, Cookies, Ids
    <2>8. \A b \in Clients : cookie[b] # None =>
            cookie[b].account \in Accounts /\ cookie[b].token # None /\ cookie[b].id # nextId
      BY NoneAssumption DEF NumbersAreGiven, Cookies, Ids
    <2>9. TokensNameTheirOwner'
      BY <1>1, <2>3, <2>4, <2>8 DEF TokensNameTheirOwner, Exists
    <2>10. TokensAreKept'
      BY <1>1, <2>3, <2>4, <2>8 DEF TokensAreKept, Exists, Expiry
    <2> QED
      BY <2>5, <2>6, <2>7, <2>9, <2>10
  <1> QED
    BY <1>2, <1>3

\* The row gets a new refresh token, unless it was deleted meanwhile, and the
\* cookie gets it in any case.
LEMMA signinAdminStep ==
  ASSUME AdminIInv, NEW c \in Clients, signinAdmin(c)
  PROVE  AdminIInv'
  <1> DEFINE q == request[c]
             new == [id |-> q.id, account |-> q.account, token |-> nextToken, at |-> now,
                     fresh |-> TRUE]
             hit(a) == a = q.account /\ Updated(a, q.id)
  <1>1. /\ row \in [Accounts -> Rows \cup {Absent}] /\ nextId \in Nat
        /\ nextToken \in 1 .. MaxToken + 1 /\ nextToken \in Nat /\ now \in 0 .. MaxTime
        /\ cookie \in [Clients -> Cookies \cup {None}]
        /\ request \in [Clients -> Requests \cup {None}]
        /\ cut \subseteq Tokens
    BY BoundsAssumption DEF AdminIInv, AdminTypeOK
  <1>2. q \in Requests /\ q.account \in Accounts /\ q.id \in Ids /\ q.id < nextId
    BY <1>1 DEF AdminIInv, signinAdmin, Doing, RequestsAreGrounded, Requests
  <1>3. /\ nextToken \in Tokens /\ nextToken' = nextToken + 1
        /\ UNCHANGED <<nextId, now>>
    <2>1. nextToken <= MaxToken /\ nextToken' = nextToken + 1 /\ UNCHANGED <<nextId, now>>
      BY DEF signinAdmin
    <2> QED
      BY <1>1, <2>1, BoundsAssumption DEF Tokens
  <1>4. new \in Cookies /\ new # None
    <2>1. new \in Cookies
      BY <1>1, <1>2, <1>3 DEF Cookies
    <2> QED
      BY <2>1, NoneAssumption
  <1>5. /\ cookie'[c] = new
        /\ \A b \in Clients : b # c => cookie'[b] = cookie[b]
        /\ cookie' \in [Clients -> Cookies \cup {None}]
    BY <1>1, <1>4 DEF signinAdmin
  <1>6. /\ request' \in [Clients -> Requests \cup {None}]
        /\ \A b \in Clients : request'[b] # None => request'[b] = request[b]
    BY <1>1 DEF signinAdmin, End
  <1>7. \A a \in Accounts : ~hit(a) => row'[a] = row[a]
    BY DEF signinAdmin
  <1>8. ASSUME NEW a \in Accounts, hit(a)
        PROVE  /\ row'[a] \in Rows /\ row'[a].id = row[a].id /\ row[a].id = q.id
               /\ row'[a].token = nextToken /\ row'[a].exp = Expiry(now)
               /\ a = q.account
    <2>1. row[a] \in Rows
      BY <1>1, <1>8 DEF Updated, Exists
    <2>2. row'[a] = [row[a] EXCEPT !.token = nextToken, !.exp = Expiry(now)]
      BY <1>8 DEF signinAdmin
    <2> QED
      BY <1>1, <1>3, <1>8, <2>1, <2>2, ExpiryType DEF Updated, Rows
  <1>9. /\ cut \subseteq cut' /\ cut' \subseteq Tokens
        /\ \A a \in Accounts : hit(a) /\ row[a].token # None => row[a].token \in cut'
    <2>1. cut' = cut \cup ({row[a].token : a \in {a \in {q.account} : Updated(a, q.id)}} \ {None})
      BY DEF signinAdmin
    <2>2. \A a \in {a \in {q.account} : Updated(a, q.id)} : row[a].token \in Tokens \cup {None}
      BY <1>1, <1>2 DEF Updated, Exists, Rows
    <2> QED
      BY <1>1, <2>1, <2>2
  <1>10. \A a \in Accounts : hit(a) <=> a = q.account /\ Exists(a) /\ row[a].id = q.id
    BY DEF Updated
  <1> HIDE DEF new, hit
  <1>11. /\ new.id = q.id /\ new.account = q.account /\ new.token = nextToken
        /\ new.at = now
    BY DEF new
  <1>12. AdminTypeOK'
    <2>1. row' \in [Accounts -> Rows \cup {Absent}]
      <3>1. \A a \in Accounts : row'[a] \in Rows \cup {Absent}
        BY <1>1, <1>7, <1>8
      <3>2. row' = [a \in Accounts |-> row'[a]]
        BY DEF signinAdmin
      <3> QED
        BY <3>1, <3>2
    <2>2. nextId \in 1 .. MaxId + 1 /\ nextToken' \in 1 .. MaxToken + 1
      BY <1>3, BoundsAssumption DEF Tokens, AdminIInv, AdminTypeOK
    <2> QED
      BY <1>1, <1>3, <1>5, <1>6, <1>9, <2>1, <2>2 DEF AdminTypeOK
  <1>13. RequestsAreGrounded'
    BY <1>3, <1>4, <1>5, <1>6 DEF AdminIInv, RequestsAreGrounded, Doing
  <1>14. \A a \in Accounts : /\ Exists(a)' <=> Exists(a)
                             /\ Exists(a) => row'[a].id = row[a].id
    BY <1>7, <1>8, <1>10, AbsentAssumption DEF Exists
  <1>15. NumbersAreGiven'
    <2>1. \A a \in Accounts : Exists(a)' =>
            row'[a].id < nextId /\ (row'[a].token # None => row'[a].token < nextToken + 1)
      <3> SUFFICES ASSUME NEW a \in Accounts, Exists(a)
                   PROVE  /\ row'[a].id < nextId
                          /\ row'[a].token # None => row'[a].token < nextToken + 1
        BY <1>14
      <3>1. CASE hit(a)
        BY <1>1, <1>2, <1>8, <3>1
      <3>2. CASE ~hit(a)
        BY <1>1, <1>7, <3>2 DEF AdminIInv, NumbersAreGiven, Exists, Rows, Tokens
      <3> QED
        BY <3>1, <3>2
    <2>2. \A b \in Clients : cookie'[b] # None =>
            cookie'[b].id < nextId /\ cookie'[b].token < nextToken + 1
      BY <1>1, <1>2, <1>5, <1>11 DEF AdminIInv, NumbersAreGiven, Cookies, Tokens
    <2> QED
      BY <1>3, <2>1, <2>2 DEF NumbersAreGiven, Exists
  <1>16. TokensNameTheirOwner'
    <2> SUFFICES ASSUME NEW b \in Clients, cookie'[b] # None,
                        row'[cookie'[b].account] # Absent,
                        row'[cookie'[b].account].token = cookie'[b].token
                 PROVE  row'[cookie'[b].account].id = cookie'[b].id
      BY DEF TokensNameTheirOwner, Exists
    <2>1. cookie'[b].account \in Accounts
      BY <1>1, <1>5 DEF Cookies
    <2>2. CASE b = c
      <3>1. hit(q.account)
        <4>1. \A a \in Accounts : Exists(a) /\ row[a].token = nextToken => FALSE
          BY <1>1, <1>3, NoneAssumption DEF AdminIInv, NumbersAreGiven, Exists, Rows, Tokens
        <4> QED
          BY <1>2, <1>5, <1>7, <1>11, <1>14, <2>2, <4>1 DEF Exists
      <3> QED
        BY <1>2, <1>5, <1>8, <1>11, <2>2, <3>1
    <2>3. CASE b # c
      <3>1. cookie'[b] = cookie[b] /\ cookie[b].token < nextToken /\ nextToken \in Nat
        BY <1>1, <1>5, <2>3, BoundsAssumption DEF AdminIInv, NumbersAreGiven
      <3>2. ~hit(cookie[b].account)
        BY <1>8, <2>1, <3>1
      <3> QED
        BY <1>7, <1>14, <2>1, <3>1, <3>2 DEF AdminIInv, TokensNameTheirOwner, Exists
    <2> QED
      BY <2>2, <2>3
  <1>17. TokensAreKept'
    <2> SUFFICES ASSUME NEW b \in Clients, cookie'[b] # None, cookie'[b].token \notin cut',
                        row'[cookie'[b].account] # Absent,
                        row'[cookie'[b].account].id = cookie'[b].id
                 PROVE  /\ row'[cookie'[b].account].token = cookie'[b].token
                        /\ row'[cookie'[b].account].exp = Expiry(cookie'[b].at)
      BY DEF TokensAreKept, Exists, Expiry
    <2>1. cookie'[b].account \in Accounts
      BY <1>1, <1>5 DEF Cookies
    <2>2. CASE b = c
      <3>1. hit(q.account)
        BY <1>2, <1>5, <1>11, <1>14, <1>10, <2>2 DEF Exists
      <3> QED
        BY <1>2, <1>5, <1>8, <1>11, <2>2, <3>1
    <2>3. CASE b # c
      <3>1. cookie'[b] = cookie[b] /\ cookie[b].token # None
        BY <1>1, <1>5, <2>3, NoneAssumption DEF Cookies
      <3>2. /\ row[cookie[b].account].token = cookie[b].token
            /\ row[cookie[b].account].exp = Expiry(cookie[b].at)
        <4>1. /\ cookie[b] # None /\ cookie[b].token \notin cut
              /\ Exists(cookie[b].account) /\ row[cookie[b].account].id = cookie[b].id
          BY <1>9, <1>14, <2>1, <3>1 DEF Exists
        <4> QED
          BY <4>1 DEF AdminIInv, TokensAreKept
      <3>3. ~hit(cookie[b].account)
        BY <1>9, <2>1, <3>1, <3>2
      <3> QED
        BY <1>7, <2>1, <3>1, <3>2, <3>3
    <2> QED
      BY <2>2, <2>3
  <1> QED
    BY <1>12, <1>13, <1>15, <1>16, <1>17 DEF AdminIInv

\* The requests that are noted name an account and an id of the table.
LEMMA ReadStep ==
  ASSUME AdminIInv, NEW c \in Clients,
         \/ \E a \in Accounts : SignupRead(c, a) \/ verifyAdmin(c, a)
         \/ RefreshTokenAdminStrategy(c) \/ SignoutRead(c)
  PROVE  AdminIInv'
  <1>1. \A a \in Accounts : Exists(a) => row[a].id \in Ids /\ row[a].id < nextId
    BY DEF AdminIInv, AdminTypeOK, NumbersAreGiven, Exists, Rows
  <1>2. cookie[c] # None => cookie[c].account \in Accounts
    BY DEF AdminIInv, AdminTypeOK, Cookies
  <1>3. ASSUME NEW a \in Accounts, SignupRead(c, a)
        PROVE  AdminIInv'
    BY <1>3, BeginStep DEF SignupRead
  <1>4. ASSUME NEW a \in Accounts, verifyAdmin(c, a)
        PROVE  AdminIInv'
    BY <1>1, <1>4, BeginStep DEF verifyAdmin
  <1>5. CASE RefreshTokenAdminStrategy(c)
    BY <1>1, <1>2, <1>5, BeginStep DEF RefreshTokenAdminStrategy, verifyRefreshToken
  <1>6. CASE SignoutRead(c)
    <2> DEFINE found == {row[a].id : a \in {a \in Accounts : Exists(a)}}
    <2>1. found \subseteq Ids /\ found \subseteq Nat /\ found # {}
      BY <1>1, <1>6, BoundsAssumption DEF SignoutRead, Ids
    <2> HIDE DEF found
    <2>2. Min(found) \in Ids
      BY <2>1, MinIsMember
    <2>3. FoundWithoutId \in Ids
      BY <2>2 DEF FoundWithoutId, found
    <2> QED
      BY <1>2, <1>6, <2>3, BeginStep DEF SignoutRead, AdminAdmitted
  <1> QED
    BY <1>3, <1>4, <1>5, <1>6

\* Sign-out takes back the token of the row it found, and a deletion takes
\* the row: no row gets a token by them.
LEMMA RowsLoseTokensStep ==
  ASSUME AdminIInv, NEW c \in Clients,
         signoutAdmin(c) \/ \E a \in Accounts : deleteAdmin(c, a)
  PROVE  AdminIInv'
  <1>1. /\ row \in [Accounts -> Rows \cup {Absent}] /\ cut \subseteq Tokens
        /\ cookie \in [Clients -> Cookies \cup {None}]
        /\ request \in [Clients -> Requests \cup {None}]
    BY DEF AdminIInv, AdminTypeOK
  <1>2. /\ UNCHANGED <<nextId, nextToken, now, cookie>>
        /\ request' \in [Clients -> Requests \cup {None}]
        /\ \A b \in Clients : request'[b] # None => request'[b] = request[b]
    BY <1>1 DEF signoutAdmin, deleteAdmin, End
  <1>3. /\ row' \in [Accounts -> Rows \cup {Absent}]
        /\ cut \subseteq cut' /\ cut' \subseteq Tokens
        /\ \A a \in Accounts :
             \/ row'[a] = Absent
             \/ row'[a] = row[a]
             \/ /\ row[a] \in Rows /\ row'[a] = [row[a] EXCEPT !.token = None]
                /\ row[a].token \in cut' \cup {None}
    <2>1. CASE signoutAdmin(c)
      <3> DEFINE hit(a) == Updated(a, request[c].id)
      <3>1. /\ row' = [a \in Accounts |-> IF hit(a) THEN [row[a] EXCEPT !.token = None]
                                          ELSE row[a]]
            /\ cut' = cut \cup ({row[a].token : a \in {a \in Accounts : hit(a)}} \ {None})
        BY <2>1 DEF signoutAdmin
      <3>2. \A a \in Accounts : hit(a) =>
              /\ row[a] \in Rows /\ row[a].token \in Tokens \cup {None}
              /\ [row[a] EXCEPT !.token = None] \in Rows
        BY <1>1 DEF Updated, Exists, Rows
      <3> HIDE DEF hit
      <3> QED
        BY <1>1, <3>1, <3>2
    <2>2. ASSUME NEW a \in Accounts, deleteAdmin(c, a)
          PROVE  /\ row' \in [Accounts -> Rows \cup {Absent}] /\ cut' = cut
                 /\ \A b \in Accounts : row'[b] = Absent \/ row'[b] = row[b]
      BY <1>1, <2>2 DEF deleteAdmin
    <2> QED
      BY <1>1, <2>1, <2>2
  <1>4. \A a \in Accounts : Exists(a)' =>
          /\ Exists(a) /\ row'[a].id = row[a].id /\ row'[a].exp = row[a].exp
          /\ \/ row'[a].token = row[a].token
             \/ row'[a].token = None /\ row[a].token \in cut' \cup {None}
    BY <1>1, <1>3, AbsentAssumption DEF Exists, Rows
  <1>5. \A b \in Clients : cookie[b] # None =>
          cookie[b].account \in Accounts /\ cookie[b].token # None
    BY <1>1, NoneAssumption DEF Cookies
  <1>6. AdminTypeOK'
    BY <1>2, <1>3 DEF AdminIInv, AdminTypeOK
  <1>7. RequestsAreGrounded'
    BY <1>2 DEF AdminIInv, RequestsAreGrounded, Doing
  <1>8. NumbersAreGiven'
    BY <1>2, <1>4 DEF AdminIInv, NumbersAreGiven
  <1>9. TokensNameTheirOwner'
    BY <1>2, <1>4, <1>5 DEF AdminIInv, TokensNameTheirOwner
  <1>10. TokensAreKept'
    <2> SUFFICES ASSUME NEW b \in Clients, cookie[b] # None, cookie[b].token \notin cut',
                        Exists(cookie[b].account)', row'[cookie[b].account].id = cookie[b].id
                 PROVE  /\ row'[cookie[b].account].token = cookie[b].token
                        /\ row'[cookie[b].account].exp = Expiry(cookie[b].at)
      BY <1>2 DEF TokensAreKept, Exists, Expiry
    <2>1. /\ row[cookie[b].account].token = cookie[b].token
          /\ row[cookie[b].account].exp = Expiry(cookie[b].at)
      BY <1>2, <1>3, <1>4, <1>5 DEF AdminIInv, TokensAreKept, Exists
    <2> QED
      BY <1>2, <1>4, <1>5, <2>1 DEF Exists
  <1> QED
    BY <1>6, <1>7, <1>8, <1>9, <1>10 DEF AdminIInv

\* Access tokens are renewed and expire, and time passes.
LEMMA AccessStep ==
  ASSUME AdminIInv,
         TimePasses \/ \E c \in Clients : reissueAdminAccessToken(c) \/ AccessExpires(c)
  PROVE  AdminIInv'
  <1>1. UNCHANGED <<row, nextId, nextToken, cut>>
    BY DEF TimePasses, reissueAdminAccessToken, AccessExpires
  <1>2. /\ request' \in [Clients -> Requests \cup {None}]
        /\ \A b \in Clients : request'[b] # None => request'[b] = request[b]
    BY DEF TimePasses, reissueAdminAccessToken, AccessExpires, End, AdminIInv, AdminTypeOK
  <1> DEFINE OnlyFreshChanges ==
        /\ cookie' \in [Clients -> Cookies \cup {None}]
        /\ \A b \in Clients : cookie'[b] # None <=> cookie[b] # None
        /\ \A b \in Clients : cookie[b] # None =>
             /\ cookie'[b].id = cookie[b].id /\ cookie'[b].account = cookie[b].account
             /\ cookie'[b].token = cookie[b].token /\ cookie'[b].at = cookie[b].at
  <1>3. OnlyFreshChanges
    <2> USE DEF AdminIInv, AdminTypeOK
    <2>1. ASSUME NEW c \in Clients, NEW f \in BOOLEAN, cookie[c] # None,
                 cookie' = [cookie EXCEPT ![c].fresh = f]
          PROVE  OnlyFreshChanges
      <3>1. cookie[c] \in Cookies /\ [cookie[c] EXCEPT !.fresh = f] \in Cookies
        BY <2>1 DEF Cookies
      <3>2. [cookie[c] EXCEPT !.fresh = f] # None
        BY <3>1, NoneAssumption
      <3>3. /\ cookie'[c] = [cookie[c] EXCEPT !.fresh = f]
            /\ \A b \in Clients : b # c => cookie'[b] = cookie[b]
        BY <2>1
      <3> QED
        BY <2>1, <3>1, <3>2, <3>3 DEF Cookies
    <2>2. CASE TimePasses
      BY <2>2 DEF TimePasses
    <2>3. ASSUME NEW c \in Clients, reissueAdminAccessToken(c)
          PROVE  OnlyFreshChanges
      BY <2>1, <2>3 DEF reissueAdminAccessToken, RequestsAreGrounded
    <2>4. ASSUME NEW c \in Clients, AccessExpires(c)
          PROVE  OnlyFreshChanges
      BY <2>1, <2>4 DEF AccessExpires, AdminAdmitted
    <2> QED
      BY <2>2, <2>3, <2>4
  <1>4. AdminTypeOK'
    <2>1. now' \in 0 .. MaxTime
      BY BoundsAssumption
      DEF AdminIInv, AdminTypeOK, TimePasses, reissueAdminAccessToken, AccessExpires
    <2> QED
      BY <1>1, <1>2, <1>3, <2>1 DEF AdminIInv, AdminTypeOK
  <1>5. RequestsAreGrounded'
    BY <1>1, <1>2, <1>3 DEF AdminIInv, RequestsAreGrounded, Doing
  <1>6. NumbersAreGiven' /\ TokensNameTheirOwner'
    BY <1>1, <1>3 DEF AdminIInv, NumbersAreGiven, TokensNameTheirOwner, Exists
  <1>7. TokensAreKept'
    BY <1>1, <1>3 DEF AdminIInv, TokensAreKept, Exists, Expiry
  <1> QED
    BY <1>4, <1>5, <1>6, <1>7 DEF AdminIInv

-----------------------------------------------------------------------------
\* Theorems about the sessions of administrators.

LEMMA AdminInitInv ==
  ASSUME AdminInit
  PROVE  AdminIInv
  <1>1. [id |-> 1, token |-> None, exp |-> 0] \in Rows
    BY BoundsAssumption, WeekAssumption DEF Rows, Ids
  <1>2. AdminTypeOK
    BY <1>1, BoundsAssumption, WeekAssumption DEF AdminInit, AdminTypeOK
  <1>3. NumbersAreGiven
    BY DEF AdminInit, NumbersAreGiven, Exists
  <1> QED
    BY <1>2, <1>3
    DEF AdminInit, AdminIInv, RequestsAreGrounded, TokensNameTheirOwner, TokensAreKept, Doing

LEMMA AdminNextInv ==
  ASSUME AdminIInv, [AdminNext]_adminVars
  PROVE  AdminIInv'
  <1>1. CASE UNCHANGED adminVars
    BY <1>1 DEF adminVars, AdminIInv, AdminTypeOK, RequestsAreGrounded, NumbersAreGiven,
                TokensNameTheirOwner, TokensAreKept, Exists, Doing, Expiry
  <1>2. CASE AdminNext
    BY <1>2, ReadStep, SignupInsertStep, signinAdminStep, RowsLoseTokensStep, AccessStep
    DEF AdminNext
  <1> QED
    BY <1>1, <1>2

\* Rows and cookies have their types; a token in a row belongs to the
\* administrator of the row, and stays there until a request withdraws it.
THEOREM AdminInvariant == AdminSpec => []AdminIInv
  BY AdminInitInv, AdminNextInv, PTL DEF AdminSpec

\* A cookie of a deleted administrator renews nothing after the account was
\* signed up anew.
THEOREM OldCookiesStayOutHolds == AdminSpec => []OldCookiesStayOut
  <1>1. AdminIInv => OldCookiesStayOut
    BY DEF AdminIInv, TokensNameTheirOwner, OldCookiesStayOut, verifyRefreshToken
  <1> QED
    BY <1>1, AdminInvariant, PTL

\* Who signed in can renew until Sunday, unless a request took the token back
\* or the administrator was deleted.
THEOREM RenewsUntilSundayHolds == AdminSpec => []RenewsUntilSunday
  <1>1. AdminIInv => RenewsUntilSunday
    <2> SUFFICES ASSUME AdminIInv, NEW c \in Clients, cookie[c] # None,
                        cookie[c].token \notin cut, Exists(cookie[c].account),
                        row[cookie[c].account].id = cookie[c].id,
                        ~(now > Expiry(cookie[c].at))
                 PROVE  verifyRefreshToken(c)
      BY DEF RenewsUntilSunday, Expiry
    <2>1. cookie[c] \in Cookies /\ now \in Nat
      BY BoundsAssumption DEF AdminIInv, AdminTypeOK
    <2>2. Expiry(cookie[c].at) \in Nat
      BY <2>1, ExpiryType, BoundsAssumption, WeekAssumption DEF Cookies
    <2> QED
      BY <2>1, <2>2 DEF AdminIInv, TokensAreKept, verifyRefreshToken
  <1> QED
    BY <1>1, AdminInvariant, PTL

-----------------------------------------------------------------------------
\* The users and the administrators together.

\* Every variable of both keeps its type.
THEOREM SessionsTypesCorrect == MCSpec => []TypesOK
  <1>1. MCInit => IInv /\ AdminIInv
    BY InitIInv, AdminInitInv DEF MCInit
  <1>2. ASSUME IInv, AdminIInv, [MCNext]_<<part, vars, adminVars>>
        PROVE  IInv' /\ AdminIInv'
    <2>1. [Next]_vars /\ [AdminNext]_adminVars
      BY <1>2 DEF MCNext, vars, adminVars
    <2> QED
      BY <1>2, <2>1, NextIInv, AdminNextInv
  <1>3. IInv /\ AdminIInv => TypesOK
    BY DEF IInv, AdminIInv, TypesOK
  <1> QED
    BY <1>1, <1>2, <1>3, PTL DEF MCSpec
==============================================================================
