----------------------------- MODULE AdminSessions -----------------------------
(***************************************************************************)
(* The administrators: signing up, in and out, renewing the access token,  *)
(* and the master who deletes others.  An administrator's row holds one    *)
(* refresh token, good until the next Sunday at the hour of its sign-in;   *)
(* the access token is a JWT that names id and account and is not compared *)
(* with the row.  The cookie a browser keeps is the answer of its sign-in: *)
(* the two tokens.                                                         *)
(*                                                                         *)
(* Every request reads the table first and writes later.  Refresh tokens   *)
(* are random and taken to be unique: they are numbered.  Time is counted  *)
(* in parts of a day, from the beginning of a Sunday.                      *)
(***************************************************************************)
EXTENDS Integers, FiniteSetsExt

CONSTANTS Accounts, Master,
          Clients,             \* browsers, each with one request at a time
          Day,                 \* parts of a day that are told apart
          Week,                \* days: 7 in the code
          MaxId, MaxToken, MaxTime,   \* bounds of a model
          Absent, None

ASSUME MasterAssumption == Master \in Accounts
ASSUME WeekAssumption == Day \in Nat \ {0} /\ Week \in Nat \ {0}
ASSUME BoundsAssumption == MaxId \in Nat \ {0} /\ MaxToken \in Nat /\ MaxTime \in Nat

Ids == 1 .. MaxId
Tokens == 1 .. MaxToken
Rows == [id : Ids, token : Tokens \cup {None}, exp : Nat]
Cookies == [id : Ids, account : Accounts, token : Tokens, at : 0 .. MaxTime, fresh : BOOLEAN]
Requests == [op : {"signin", "renew", "signout", "signup"}, account : Accounts,
             id : Ids \cup {None}]

ASSUME AbsentAssumption == Absent \notin Rows
ASSUME NoneAssumption == None \notin Ids \cup Tokens \cup Cookies \cup Requests

VARIABLES row,      \* table admin, by account: the column is unique
          nextId, nextToken, now,
          cookie,   \* the tokens of each browser
          request,  \* the request of each browser, after its first statement
          cut       \* history: refresh tokens withdrawn before they expired

adminVars == <<row, nextId, nextToken, now, cookie, request, cut>>

Exists(a) == row[a] # Absent

AdminTypeOK ==
  /\ row \in [Accounts -> Rows \cup {Absent}]
  /\ nextId \in 1 .. MaxId + 1 /\ nextToken \in 1 .. MaxToken + 1 /\ now \in 0 .. MaxTime
  /\ cookie \in [Clients -> Cookies \cup {None}]
  /\ request \in [Clients -> Requests \cup {None}]
  /\ cut \subseteq Tokens

AdminInit ==
  /\ row = [a \in Accounts |-> IF a = Master THEN [id |-> 1, token |-> None, exp |-> 0]
                               ELSE Absent]
  /\ nextId = 2 /\ nextToken = 1 /\ now \in 0 .. Day * Week - 1 /\ now <= MaxTime
  /\ cookie = [c \in Clients |-> None]
  /\ request = [c \in Clients |-> None]
  /\ cut = {}

-----------------------------------------------------------------------------
\* JwtAdminStrategy: the signature and the expiry are all it looks at.
AdminAdmitted(c) == cookie[c] # None /\ cookie[c].fresh

Begin(c, op, a, id) ==
  /\ request[c] = None
  /\ request' = [request EXCEPT ![c] = [op |-> op, account |-> a, id |-> id]]
  /\ UNCHANGED <<row, nextId, nextToken, now, cookie, cut>>

Doing(c, op) == request[c] # None /\ request[c].op = op
End(c) == request' = [request EXCEPT ![c] = None]

\* The account is free ...
SignupRead(c, a) == AdminAdmitted(c) /\ ~Exists(a) /\ Begin(c, "signup", a, None)

\* ... and is inserted, unless another request did so: the unique index refuses.
SignupInsert(c) ==
  /\ Doing(c, "signup") /\ End(c)
  /\ LET a == request[c].account IN
       IF Exists(a) THEN UNCHANGED <<row, nextId>>
       ELSE /\ nextId <= MaxId /\ nextId' = nextId + 1
            /\ row' = [row EXCEPT ![a] = [id |-> nextId, token |-> None, exp |-> 0]]
  /\ UNCHANGED <<nextToken, now, cookie, cut>>

\* LocalAdminStrategy: the password is right.
verifyAdmin(c, a) == Exists(a) /\ Begin(c, "signin", a, row[a].id)

\* (mutant) moment().day(0): the Sunday this week began with.
ExpiryLastSunday(t) == t - Day * ((t \div Day) % Week)

\* moment().day(7): the Sunday after this week, at the same time of day.
Expiry(t) == t + Day * (Week - ((t \div Day) % Week))

\* (mutant) The row is updated by its account.
UpdatedByAccount(a, id) == Exists(a)

\* UPDATE ... WHERE id: a row deleted since it was read is not found.
Updated(a, id) == Exists(a) /\ row[a].id = id

\* issueRefreshToken, after the access token was signed.
signinAdmin(c) ==
  /\ Doing(c, "signin") /\ End(c) /\ nextToken <= MaxToken
  /\ nextToken' = nextToken + 1
  /\ LET q == request[c] IN
       /\ row' = [a \in Accounts |->
                    IF a = q.account /\ Updated(a, q.id)
                    THEN [row[a] EXCEPT !.token = nextToken, !.exp = Expiry(now)] ELSE row[a]]
       /\ cut' = cut \cup ({row[a].token : a \in {a \in {q.account} : Updated(a, q.id)}} \ {None})
       /\ cookie' = [cookie EXCEPT ![c] = [id |-> q.id, account |-> q.account,
                                           token |-> nextToken, at |-> now, fresh |-> TRUE]]
  /\ UNCHANGED <<nextId, now>>

\* The row with the account and the refresh token of the cookie has not expired: the
\* dates are compared with their times.
verifyRefreshToken(c) ==
  /\ cookie[c] # None
  /\ LET a == cookie[c].account IN
       Exists(a) /\ row[a].token = cookie[c].token /\ row[a].exp >= now

RefreshTokenAdminStrategy(c) ==
  verifyRefreshToken(c) /\ Begin(c, "renew", cookie[c].account, row[cookie[c].account].id)

reissueAdminAccessToken(c) ==
  /\ Doing(c, "renew") /\ End(c)
  /\ cookie' = [cookie EXCEPT ![c].fresh = TRUE]
  /\ UNCHANGED <<row, nextId, nextToken, now, cut>>

\* findOne without a value for its id: the first row.
FoundWithoutId == Min({row[a].id : a \in {a \in Accounts : Exists(a)}})

\* The id is asked of the cookie, which has none.
SignoutRead(c) ==
  /\ AdminAdmitted(c) /\ \E a \in Accounts : Exists(a)
  /\ Begin(c, "signout", cookie[c].account, FoundWithoutId)

signoutAdmin(c) ==
  /\ Doing(c, "signout") /\ End(c)
  /\ row' = [a \in Accounts |-> IF Updated(a, request[c].id)
                                THEN [row[a] EXCEPT !.token = None] ELSE row[a]]
  /\ cut' = cut \cup ({row[a].token : a \in {a \in Accounts : Updated(a, request[c].id)}} \ {None})
  /\ UNCHANGED <<nextId, nextToken, now, cookie>>

\* The id of the path is deleted; MasterAdminGuard reads the account of the access token.
deleteAdmin(c, a) ==
  /\ AdminAdmitted(c) /\ cookie[c].account = Master /\ Exists(a)
  /\ row' = [row EXCEPT ![a] = Absent]
  /\ UNCHANGED <<nextId, nextToken, now, cookie, request, cut>>

\* An access token expires, whenever the configuration says; a request under
\* way was admitted before.
AccessExpires(c) ==
  /\ AdminAdmitted(c) /\ cookie' = [cookie EXCEPT ![c].fresh = FALSE]
  /\ UNCHANGED <<row, nextId, nextToken, now, request, cut>>

\* A request takes far less than such a part of a day.
TimePasses ==
  /\ now < MaxTime /\ now' = now + 1 /\ \A c \in Clients : request[c] = None
  /\ UNCHANGED <<row, nextId, nextToken, cookie, request, cut>>

AdminNext ==
  \/ \E c \in Clients :
       \/ \E a \in Accounts : SignupRead(c, a) \/ verifyAdmin(c, a) \/ deleteAdmin(c, a)
       \/ SignupInsert(c) \/ signinAdmin(c)
       \/ RefreshTokenAdminStrategy(c) \/ reissueAdminAccessToken(c)
       \/ SignoutRead(c) \/ signoutAdmin(c) \/ AccessExpires(c)
  \/ TimePasses

AdminSpec == AdminInit /\ [][AdminNext]_adminVars

-----------------------------------------------------------------------------
\* Signing up an account anew after its deletion gives no session back: the
\* cookies and the sign-ins under way of the old administrator renew nothing.
OldCookiesStayOut ==
  \A c \in Clients : verifyRefreshToken(c) => cookie[c].id = row[cookie[c].account].id

\* Who signed in can renew until the next Sunday - a week ahead for who signs in on
\* a Sunday - at the hour of the sign-in, unless the account was deleted, or its
\* token replaced or withdrawn by a request.  (During that Sunday the token ends.)
RenewsUntilSunday ==
  \A c \in Clients : cookie[c] # None =>
    LET k == cookie[c] IN
      \/ verifyRefreshToken(c) \/ k.token \in cut
      \/ ~ (Exists(k.account) /\ row[k.account].id = k.id)
      \/ now > k.at + Day * (Week - ((k.at \div Day) % Week))
=============================================================================
