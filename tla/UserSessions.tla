----------------------------- MODULE UserSessions -----------------------------
(***************************************************************************)
(* Signing in, renewing the access token, signing out, and an              *)
(* administrator who blocks a user.  The access token is a JWT: nothing    *)
(* can take it back before it expires.  The refresh token is a JWT too,    *)
(* signed once, and a key of the cache (Redis) with a life that every      *)
(* renewal starts again.  A blocked user has isBlock set in the user row,  *)
(* which signing in reads, and a marker in the cache, which the guard of   *)
(* every request reads.                                                    *)
(*                                                                         *)
(* A session is one sign-in; its refresh token is assumed to be unique, so *)
(* that the session stands for it.  Lives are counted down by Tick; a      *)
(* request takes far less than a tick.  Three cache commands are awaited   *)
(* by nobody: the two that store a refresh token, and the one that sets or *)
(* deletes a marker.  When one fails, the process ends (Dies).             *)
(***************************************************************************)
EXTENDS Integers

CONSTANTS Users, Sessions, Admins,
          NoUser,       \* the owner of a session not signed in yet
          NoOp,         \* an administrator who is not blocking anybody
          AccessLife,   \* ticks: an access token, "1h"
          BlockLife,    \* ticks: the block marker, 60 * 60 seconds
          RefreshLife,  \* ticks: a refresh token in the cache, 60 * 60 * 3 seconds
          JwtLife       \* ticks: the JWT that it is, JWT_REFRESH_TOKEN_EXPIRES_IN

Ops == [user : Users, block : BOOLEAN, todo : SUBSET {"cache", "row"}]

ASSUME NoUserAssumption == NoUser \notin Users
ASSUME NoOpAssumption == NoOp \notin Ops
ASSUME LivesAssumption ==
  /\ AccessLife \in Nat \ {0} /\ BlockLife \in Nat /\ RefreshLife \in Nat /\ JwtLife \in Nat
  /\ AccessLife <= BlockLife /\ BlockLife <= RefreshLife

VARIABLES isBlock,      \* user.isBlock, in the database
          marker,       \* remaining life of user-<id>-block in the cache
          op,           \* what each administrator's blockAdminUser has to do
          owner,        \* the user of the session
          access,       \* remaining life of its newest access token
          refresh,      \* remaining life of its refresh token in the cache
          jwt,          \* remaining life of its refresh token as a JWT
          signing,      \* the user validated by a sign-in that goes on
          renewing,     \* a renewal has read the refresh token and goes on
          signedOut,    \* history: the client was told that it is signed out
          raced,        \* history: a renewal was under way at the sign-out
          renewed,      \* history: renewed since its user's marker was set
          unstored,     \* history: its refresh token could not be stored
          spoiled       \* history: the last request to block or unblock the user
                        \* began while another administrator's was under way, or
                        \* was not carried out whole

sessionVars == <<owner, access, refresh, jwt, signing, renewing>>
history == <<signedOut, raced, renewed, unstored, spoiled>>
vars == <<isBlock, marker, op, sessionVars, history>>

TypeOK ==
  /\ isBlock \in [Users -> BOOLEAN]
  /\ marker \in [Users -> 0 .. BlockLife]
  /\ op \in [Admins -> Ops \cup {NoOp}]
  /\ owner \in [Sessions -> Users \cup {NoUser}]
  /\ access \in [Sessions -> 0 .. AccessLife]
  /\ refresh \in [Sessions -> 0 .. RefreshLife]
  /\ jwt \in [Sessions -> 0 .. JwtLife]
  /\ signing \in [Sessions -> Users \cup {NoUser}]
  /\ renewing \in [Sessions -> BOOLEAN]
  /\ signedOut \in [Sessions -> BOOLEAN]
  /\ raced \in [Sessions -> BOOLEAN]
  /\ renewed \in [Sessions -> BOOLEAN]
  /\ unstored \in [Sessions -> BOOLEAN]
  /\ spoiled \in [Users -> BOOLEAN]

Init ==
  /\ isBlock = [u \in Users |-> FALSE]
  /\ marker = [u \in Users |-> 0]
  /\ op = [a \in Admins |-> NoOp]
  /\ owner = [s \in Sessions |-> NoUser]
  /\ access = [s \in Sessions |-> 0]
  /\ refresh = [s \in Sessions |-> 0]
  /\ jwt = [s \in Sessions |-> 0]
  /\ signing = [s \in Sessions |-> NoUser]
  /\ renewing = [s \in Sessions |-> FALSE]
  /\ signedOut = [s \in Sessions |-> FALSE]
  /\ raced = [s \in Sessions |-> FALSE]
  /\ renewed = [s \in Sessions |-> FALSE]
  /\ unstored = [s \in Sessions |-> FALSE]
  /\ spoiled = [u \in Users |-> FALSE]

-----------------------------------------------------------------------------
\* Sessions.

\* The process ends and is started again: requests under way are not carried on.
Dies ==
  /\ op' = [a \in Admins |-> NoOp]
  /\ signing' = [s \in Sessions |-> NoUser]
  /\ renewing' = [s \in Sessions |-> FALSE]
  /\ spoiled' = [u \in Users |-> spoiled[u] \/ \E a \in Admins : op[a] # NoOp /\ op[a].user = u]

\* validateLocalUser reads the row of a user who is not blocked; oauthSignIn
\* does the same.  A refusal changes nothing.
ValidateUser(s, u) ==
  /\ owner[s] = NoUser /\ signing[s] = NoUser
  /\ ~isBlock[u]
  /\ signing' = [signing EXCEPT ![s] = u]
  /\ UNCHANGED <<isBlock, marker, op, owner, access, refresh, jwt, renewing, history>>

\* signIn issues both tokens and stores the refresh token.
SignIn(s) ==
  /\ signing[s] # NoUser
  /\ owner' = [owner EXCEPT ![s] = signing[s]]
  /\ signing' = [signing EXCEPT ![s] = NoUser]
  /\ access' = [access EXCEPT ![s] = AccessLife]
  /\ refresh' = [refresh EXCEPT ![s] = RefreshLife]
  /\ jwt' = [jwt EXCEPT ![s] = JwtLife]
  /\ UNCHANGED <<isBlock, marker, op, renewing, history>>

\* The client has both tokens when the store fails.
SignInUnstored(s) ==
  /\ signing[s] # NoUser
  /\ owner' = [owner EXCEPT ![s] = signing[s]]
  /\ access' = [access EXCEPT ![s] = AccessLife]
  /\ jwt' = [jwt EXCEPT ![s] = JwtLife]
  /\ unstored' = [unstored EXCEPT ![s] = TRUE]
  /\ Dies
  /\ UNCHANGED <<isBlock, marker, refresh, signedOut, raced, renewed>>

\* The guard checks that the JWT has not expired, and renewAccessToken finds
\* the refresh token in the cache.
Renewable(s) == jwt[s] > 0 /\ refresh[s] > 0

RenewRead(s) ==
  /\ Renewable(s) /\ ~renewing[s]
  /\ renewing' = [renewing EXCEPT ![s] = TRUE]
  /\ UNCHANGED <<isBlock, marker, op, owner, access, refresh, jwt, signing, history>>

\* (mutant) The renewal does not store the refresh token again.
RenewWithoutStore(s) ==
  /\ renewing[s]
  /\ renewing' = [renewing EXCEPT ![s] = FALSE]
  /\ access' = [access EXCEPT ![s] = AccessLife]
  /\ renewed' = [renewed EXCEPT ![s] = TRUE]
  /\ UNCHANGED <<isBlock, marker, op, owner, refresh, jwt, signing,
                 signedOut, raced, unstored, spoiled>>

\* After reading the user's row, which says nothing about isBlock here, it
\* issues an access token and stores the refresh token for its full life.
Renew(s) ==
  /\ renewing[s]
  /\ renewing' = [renewing EXCEPT ![s] = FALSE]
  /\ access' = [access EXCEPT ![s] = AccessLife]
  /\ refresh' = [refresh EXCEPT ![s] = RefreshLife]
  /\ renewed' = [renewed EXCEPT ![s] = TRUE]
  /\ unstored' = [unstored EXCEPT ![s] = FALSE]
  /\ UNCHANGED <<isBlock, marker, op, owner, jwt, signing, signedOut, raced, spoiled>>

\* The client has its access token when the store fails; what is in the cache
\* of the refresh token stays as it is.
RenewUnstored(s) ==
  /\ renewing[s]
  /\ access' = [access EXCEPT ![s] = AccessLife]
  /\ renewed' = [renewed EXCEPT ![s] = TRUE]
  /\ unstored' = [unstored EXCEPT ![s] = TRUE]
  /\ Dies
  /\ UNCHANGED <<isBlock, marker, owner, refresh, jwt, signedOut, raced>>

\* The renewal fails on its second read.
RenewFails(s) ==
  /\ renewing[s]
  /\ renewing' = [renewing EXCEPT ![s] = FALSE]
  /\ UNCHANGED <<isBlock, marker, op, owner, access, refresh, jwt, signing, history>>

\* A request of the session passes JwtGuard and BlockUserGuard.
Admitted(s) == owner[s] # NoUser /\ access[s] > 0 /\ marker[owner[s]] = 0

\* (mutant) The sign-out deletes another key than the refresh token.
SignOutElsewhere(s) ==
  /\ Admitted(s)
  /\ signedOut' = [signedOut EXCEPT ![s] = TRUE]
  /\ raced' = [raced EXCEPT ![s] = @ \/ renewing[s]]
  /\ UNCHANGED <<isBlock, marker, op, sessionVars, renewed, unstored, spoiled>>

SignOut(s) ==
  /\ Admitted(s)
  /\ refresh' = [refresh EXCEPT ![s] = 0]
  /\ signedOut' = [signedOut EXCEPT ![s] = TRUE]
  /\ raced' = [raced EXCEPT ![s] = @ \/ renewing[s]]
  /\ UNCHANGED <<isBlock, marker, op, owner, access, jwt, signing, renewing,
                 renewed, unstored, spoiled>>

-----------------------------------------------------------------------------
\* Blocking.

\* Nobody is in the middle of blocking or unblocking the user.
Settled(u) == \A a \in Admins : op[a] = NoOp \/ op[a].user # u

\* blockAdminUser starts the cache command, which it does not await, and the
\* update of the row: they take effect in either order.
BlockAdminUser(a, u, block) ==
  /\ op[a] = NoOp
  /\ op' = [op EXCEPT ![a] =
              [user |-> u, block |-> block, todo |-> {"cache", "row"}]]
  /\ spoiled' = [spoiled EXCEPT ![u] = ~Settled(u)]
  /\ UNCHANGED <<isBlock, marker, sessionVars, signedOut, raced, renewed, unstored>>

Finish(a, part) ==
  /\ op[a] # NoOp /\ part \in op[a].todo
  /\ op' = [op EXCEPT ![a] = IF op[a].todo = {part} THEN NoOp
                             ELSE [op[a] EXCEPT !.todo = @ \ {part}]]

\* (mutant) The marker lives one tick less.
MarkerLifeShort(block) == IF block THEN BlockLife - 1 ELSE 0

\* (mutant) Unblocking leaves the marker to its expiry.
MarkerLifeKept(block) == BlockLife

\* (mutant) The marker is given the life of a refresh token.
MarkerLifeOfRefresh(block) == IF block THEN RefreshLife ELSE 0

\* The life the marker is given: set with a ttl, or deleted.
MarkerLife(block) == IF block THEN BlockLife ELSE 0

BlockCache(a) ==
  /\ Finish(a, "cache")
  /\ LET u == op[a].user IN
       /\ marker' = [marker EXCEPT ![u] = MarkerLife(op[a].block)]
       /\ renewed' = [s \in Sessions |->
                        IF owner[s] = u THEN FALSE ELSE renewed[s]]
  /\ UNCHANGED <<isBlock, sessionVars, signedOut, raced, unstored, spoiled>>

BlockRow(a) ==
  /\ Finish(a, "row")
  /\ isBlock' = [isBlock EXCEPT ![op[a].user] = op[a].block]
  /\ UNCHANGED <<marker, sessionVars, history>>

\* The administrator is told that the update failed; the cache command was sent.
BlockRowFails(a) ==
  /\ Finish(a, "row")
  /\ spoiled' = [spoiled EXCEPT ![op[a].user] = TRUE]
  /\ UNCHANGED <<isBlock, marker, sessionVars, signedOut, raced, renewed, unstored>>

\* The process ends, for instance because the cache command of a request failed,
\* which nobody awaits; of its two effects the other may have come or not.
Crash ==
  /\ Dies
  /\ UNCHANGED <<isBlock, marker, owner, access, refresh, jwt,
                 signedOut, raced, renewed, unstored>>

-----------------------------------------------------------------------------
InFlight ==
  \/ \E s \in Sessions : signing[s] # NoUser \/ renewing[s]
  \/ \E a \in Admins : op[a] # NoOp

Older(life) == IF life = 0 THEN 0 ELSE life - 1

\* Time passes: tokens and markers come closer to their expiry.
Tick ==
  /\ ~InFlight
  /\ marker' = [u \in Users |-> Older(marker[u])]
  /\ access' = [s \in Sessions |-> Older(access[s])]
  /\ refresh' = [s \in Sessions |-> Older(refresh[s])]
  /\ jwt' = [s \in Sessions |-> Older(jwt[s])]
  /\ UNCHANGED <<isBlock, op, owner, signing, renewing, history>>

Next ==
  \/ \E s \in Sessions :
       \/ \E u \in Users : ValidateUser(s, u)
       \/ SignIn(s) \/ SignInUnstored(s)
       \/ RenewRead(s)
       \/ Renew(s) \/ RenewUnstored(s) \/ RenewFails(s)
       \/ SignOut(s)
  \/ \E a \in Admins :
       \/ \E u \in Users, block \in BOOLEAN : BlockAdminUser(a, u, block)
       \/ BlockCache(a)
       \/ BlockRow(a) \/ BlockRowFails(a)
  \/ Crash
  \/ Tick

Spec == Init /\ [][Next]_vars

-----------------------------------------------------------------------------
\* The marker of a blocked user lives at least as long as every access token
\* the user held when it was set, or was given by a sign-in that had passed
\* the check just before (README.md:598): such a token never becomes usable
\* again by the marker's expiry.  Row and marker may disagree until the next
\* request about the user when the last one crossed another administrator's,
\* when its update failed, or when the process ended in the middle of it.
MarkerOutlivesTokens ==
  \A s \in Sessions :
    LET u == owner[s] IN
      u # NoUser /\ isBlock[u] /\ Settled(u) /\ ~spoiled[u] /\ ~renewed[s] =>
        access[s] <= marker[u]

\* A row and its marker agree when the operations on a user are finished: an
\* unblocked user is not kept out by a marker left behind, unless the last
\* request about the user crossed another or was not carried out whole.
UnblockedIsFree ==
  \A u \in Users : ~isBlock[u] /\ Settled(u) /\ ~spoiled[u] => marker[u] = 0

\* A signed-out session cannot be renewed, unless a renewal was under way.
SignOutEndsSession ==
  \A s \in Sessions : signedOut[s] /\ ~raced[s] => refresh[s] = 0 /\ ~renewing[s]

\* A client that goes on using the service need not sign in again until its
\* refresh token expires as a JWT, for renewals do not sign it anew: while the
\* access token is valid and that JWT is, the cache has not forgotten the refresh
\* token, unless a store of it failed (which ended the process).
CanRenew ==
  \A s \in Sessions :
    access[s] > 0 /\ jwt[s] > 0 /\ ~signedOut[s] /\ ~unstored[s] => Renewable(s)

\* README.md:598 - once the access token has expired a blocked user is logged
\* out and cannot log in again; here of a request to block that was carried out
\* whole.  Renewal does not look at isBlock: the user outlasts the marker.
BlockedIsStopped ==
  \A s \in Sessions :
    LET u == owner[s] IN u # NoUser /\ isBlock[u] /\ Settled(u) /\ ~spoiled[u] => ~Admitted(s)
=============================================================================
