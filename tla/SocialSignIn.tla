---------------------------- MODULE SocialSignIn ----------------------------
(***************************************************************************)
(* Signing in with an account at Kakao or Naver (oauthSignIn).  The first  *)
(* sign-in creates the user.  Its username is the nickname the provider    *)
(* reports, with a random number after it when a user of that name exists; *)
(* the name is chosen by one query, the user looked for by a second and    *)
(* inserted by a third, and the table refuses two users with one username  *)
(* or with one account at a provider.                                      *)
(*                                                                         *)
(* An identity is an account at a provider.  A name is a nickname and the  *)
(* number after it, 0 for none; nicknames that contain a '#' are left out. *)
(***************************************************************************)
EXTENDS Naturals, FiniteSets

CONSTANTS SignIns,      \* sign-ins under way at one time
          Kakao, Naver, \* the identities at each provider
          Nicknames,
          Numbers,      \* the numbers that may be drawn (1..10000 in the code)
          None

ASSUME NumbersAssumption == Numbers \subseteq Nat \ {0}

VARIABLES users,    \* the rows of the user table
          request,  \* each sign-in: how far it has come, and what it read
          unlucky   \* the sign-ins that drew a number in use, or during which
                    \* another user was inserted (only the properties read it)

socialVars == <<users, request, unlucky>>

Identities == Kakao \cup Naver
Names == Nicknames \X ({0} \cup Numbers)
User == [identity : Identities \cup {None}, name : Names, isBlock : BOOLEAN]
NamesTaken == {u.name : u \in users}
OfIdentity(i) == {u \in users : u.identity = i}

Over == {"idle", "signedIn", "blocked", "failed", "refused"}
Asking(at, i) == [at |-> at, identity |-> i, name |-> None, user |-> None]

SocialInit ==
  /\ users = {}
  /\ request = [r \in SignIns |-> Asking("idle", None)]
  /\ unlucky = {}

Answer(r, result) == request' = [request EXCEPT ![r].at = result]

\* (mutant) the accounts at the providers are not unique
InsertableByName(row) == row.name \notin NamesTaken

\* The table takes the row unless its name or its identity is in use; every
\* sign-in under way is overtaken by it.
Insertable(row) ==
  row.name \notin NamesTaken /\ (row.identity # None => OfIdentity(row.identity) = {})

Insert(row) ==
  /\ Insertable(row)
  /\ users' = users \cup {row}
  /\ unlucky' = unlucky \cup {r \in SignIns : request[r].at \notin Over}

-----------------------------------------------------------------------------
(* The provider, asked twice.                                              *)

getOauth2Token(r, identities) ==
  /\ request[r].at \in Over
  /\ \E i \in identities, at \in {"token", "refused"} :
       request' = [request EXCEPT ![r] = Asking(at, i)]
  /\ unlucky' = unlucky \ {r}
  /\ UNCHANGED users

getUserInfo(r) ==
  /\ request[r].at = "token"
  /\ \/ \E n \in Nicknames :
          request' = [request EXCEPT ![r].at = "validated", ![r].name = <<n, 0>>]
     \/ Answer(r, "refused")
  /\ UNCHANGED <<users, unlucky>>

validateSocialUser(r) ==
  getOauth2Token(r, Kakao) \/ getOauth2Token(r, Naver) \/ getUserInfo(r)

-----------------------------------------------------------------------------
(* oauthSignIn, a statement at a time.                                     *)

\* (mutant) the name is looked for among the users of one provider
InUseAtKakao(name) == \E u \in users : u.name = name /\ u.identity \in Kakao

InUse(name) == name \in NamesTaken

FindByName(r) ==
  LET name == request[r].name IN
  /\ request[r].at = "validated"
  /\ \/ /\ ~ InUse(name)
        /\ Answer(r, "named")
        /\ UNCHANGED unlucky
     \/ /\ InUse(name)
        /\ \E k \in Numbers :
             /\ request' = [request EXCEPT ![r].at = "named", ![r].name = <<@[1], k>>]
             /\ unlucky' = IF <<name[1], k>> \in NamesTaken THEN unlucky \cup {r} ELSE unlucky
  /\ UNCHANGED users

Found(r) == OfIdentity(request[r].identity)

FindUser(r) ==
  /\ request[r].at \in {"named", "inserted"}
  /\ \/ \E u \in Found(r) : request' = [request EXCEPT ![r].at = "found", ![r].user = u]
     \/ Found(r) = {} /\ Answer(r, IF request[r].at = "named" THEN "new" ELSE "idle")
  /\ UNCHANGED <<users, unlucky>>

InsertSocialUser(r) ==
  LET row == [identity |-> request[r].identity, name |-> request[r].name, isBlock |-> FALSE] IN
  /\ request[r].at = "new"
  /\ \/ Insert(row) /\ Answer(r, "inserted")
     \/ ~ Insertable(row) /\ Answer(r, "failed") /\ UNCHANGED <<users, unlucky>>

SignInSocial(r) ==
  /\ request[r].at = "found"
  /\ Answer(r, IF request[r].user.isBlock THEN "blocked" ELSE "signedIn")
  /\ UNCHANGED <<users, unlucky>>

-----------------------------------------------------------------------------
(* Others who write to the table.                                          *)

\* signUp of a local user, who has no account at a provider
signUpLocal(n) ==
  /\ Insert([identity |-> None, name |-> <<n, 0>>, isBlock |-> FALSE])
  /\ UNCHANGED request

blockAdminUser(u, isBlock) ==
  /\ users' = (users \ {u}) \cup {[u EXCEPT !.isBlock = isBlock]}
  /\ UNCHANGED <<request, unlucky>>

SocialNext ==
  \/ \E r \in SignIns : validateSocialUser(r) \/ FindByName(r) \/ FindUser(r)
                         \/ InsertSocialUser(r) \/ SignInSocial(r)
  \/ \E n \in Nicknames : signUpLocal(n)
  \/ \E u \in users, isBlock \in BOOLEAN : blockAdminUser(u, isBlock)

SocialSpec == SocialInit /\ [][SocialNext]_socialVars

-----------------------------------------------------------------------------
(* Every variable has its type, and no user of the table shares a username *)
(* or an account at a provider (user.entity.ts:19, the unique columns).    *)
SocialTypeOK ==
  /\ users \subseteq User
  /\ \A u, v \in users : u # v => /\ u.name # v.name
                                  /\ u.identity = v.identity => u.identity = None
  /\ request \in [SignIns ->
       [at : Over \cup {"token", "validated", "named", "new", "inserted", "found"},
        identity : Identities \cup {None}, name : Names \cup {None}, user : User \cup {None}]]
  /\ unlucky \subseteq SignIns

(* A first sign-in fails only when another user was inserted while it ran  *)
(* or the number drawn was in use: a nickname that somebody has, at the    *)
(* other provider or locally, is no reason (oauthSignIn's first query).    *)
FailsOnlyWhenUnlucky ==
  \A r \in SignIns : request[r].at = "failed" => r \in unlucky
=============================================================================
