--------------------------- MODULE EmailVerification ---------------------------
(***************************************************************************)
(* The e-mailed tokens of one address: signing up, confirming a change of  *)
(* password and resetting a forgotten one.  A token is drawn, mailed, and  *)
(* stored in the cache only after the mail server has taken the mail; the  *)
(* mail itself arrives at any time.  A token is read, what it allows is    *)
(* done in further statements, and then it is deleted without an await.    *)
(*                                                                         *)
(* Tokens are random and taken to be different.  A wrong token is refused  *)
(* and changes nothing, so that users present tokens they were sent.       *)
(***************************************************************************)
CONSTANTS Requests, Tokens, Passwords,
          NoAccount, NoToken, Idle

Purposes == {"signup", "changePassword", "resetPassword"}
Calls == [op : {"send", "use", "change"}, step : {"begun", "read", "written"},
          purpose : Purposes, token : Tokens \cup {NoToken}, password : Passwords]

ASSUME NoTokenAssumption == NoToken \notin Tokens \cup Purposes
ASSUME IdleAssumption == Idle \notin Calls

VARIABLES account,  \* the password of the address, NoAccount before it signs up
          cache,    \* the token under each key of the cache
          mails,    \* tokens in mails on their way
          inbox,    \* tokens that arrived
          call,     \* the requests under way
          purpose,  \* history: what each token was drawn for
          used,     \* history: purposes and tokens that were used for them
          crashed   \* history: the process has died

emailVars == <<account, cache, mails, inbox, call, purpose, used, crashed>>

EmailTypeOK ==
  /\ account \in Passwords \cup {NoAccount}
  /\ cache \in [Purposes -> Tokens \cup {NoToken}]
  /\ mails \subseteq Tokens /\ inbox \subseteq Tokens
  /\ call \in [Requests -> Calls \cup {Idle}]
  /\ purpose \in [Tokens -> Purposes \cup {NoToken}]
  /\ used \subseteq Purposes \X Tokens
  /\ crashed \in BOOLEAN

EmailInit ==
  /\ account = NoAccount /\ cache = [p \in Purposes |-> NoToken]
  /\ mails = {} /\ inbox = {} /\ used = {}
  /\ call = [r \in Requests |-> Idle]
  /\ purpose = [t \in Tokens |-> NoToken]
  /\ crashed = FALSE

At(r, op, step) == call[r] # Idle /\ call[r].op = op /\ call[r].step = step
GoesOn(r, step) == call' = [call EXCEPT ![r].step = step]
End(r) == call' = [call EXCEPT ![r] = Idle]

Begin(r, op, p, t, w) ==
  /\ call[r] = Idle
  /\ call' = [call EXCEPT ![r] = [op |-> op, step |-> "begun", purpose |-> p,
                                  token |-> t, password |-> w]]

\* (mutant) The key is the address alone.
KeyWithoutType(p) == "signup"

\* `${email}_${type}`
Key(p) == p

-----------------------------------------------------------------------------
\* Asking for a mail.

\* A token nobody was sent is drawn and its mail handed to the mail server.
Send(r, p, t) ==
  /\ purpose[t] = NoToken /\ purpose' = [purpose EXCEPT ![t] = p]
  /\ mails' = mails \cup {t}
  /\ \E w \in Passwords : Begin(r, "send", p, t, w)
  /\ UNCHANGED <<account, cache, inbox, used, crashed>>

SendEmailForSignup(r, t) == account = NoAccount /\ Send(r, "signup", t)

\* The user is signed in, so there is an account.
postChangePasswordEmailVerification(r, t) == account # NoAccount /\ Send(r, "changePassword", t)

sendEmailForResetPassword(r, t) == account # NoAccount /\ Send(r, "resetPassword", t)

MailArrives(t) ==
  /\ t \in mails /\ mails' = mails \ {t} /\ inbox' = inbox \cup {t}
  /\ UNCHANGED <<account, cache, call, purpose, used, crashed>>

\* The mail server refuses the mail, and the request fails.
MailRefused(r) ==
  /\ At(r, "send", "begun") /\ call[r].token \in mails /\ End(r)
  /\ mails' = mails \ {call[r].token}
  /\ UNCHANGED <<account, cache, inbox, purpose, used, crashed>>

\* The mail server has taken the mail; the token replaces the one before it.
storeVerifyToken(r) ==
  /\ At(r, "send", "begun") /\ End(r)
  /\ cache' = [cache EXCEPT ![Key(call[r].purpose)] = call[r].token]
  /\ UNCHANGED <<account, mails, inbox, purpose, used, crashed>>

Expire(p) ==
  /\ cache[p] # NoToken /\ cache' = [cache EXCEPT ![p] = NoToken]
  /\ UNCHANGED <<account, mails, inbox, call, purpose, used, crashed>>

-----------------------------------------------------------------------------
\* Using a token.

Verified(p, t) == t \in inbox /\ cache[Key(p)] = t

Use(r, p, t, w) ==
  /\ Verified(p, t) /\ Begin(r, "use", p, t, w)
  /\ UNCHANGED <<account, cache, mails, inbox, purpose, used, crashed>>

\* The address had no account when it was looked for, and the token is right.
signUp(r, t, w) == account = NoAccount /\ Use(r, "signup", t, w)

\* Nothing but the answer depends on this token: changePassword does not ask.
verifyEmailForChangePassword(r, t) == \E w \in Passwords : Use(r, "changePassword", t, w)

resetPasswordWithEmailVerification(r, t, w) == Use(r, "resetPassword", t, w)

\* The new password must differ from the one just read.
ReadUser(r) ==
  /\ \/ At(r, "use", "begun") /\ call[r].purpose = "resetPassword"
     \/ At(r, "change", "begun")
  /\ IF account = call[r].password THEN End(r) ELSE GoesOn(r, "read")
  /\ UNCHANGED <<account, cache, mails, inbox, purpose, used, crashed>>

Written(r) ==
  /\ GoesOn(r, "written")
  /\ used' = used \cup {<<call[r].purpose, call[r].token>>}
  /\ UNCHANGED <<cache, mails, inbox, purpose, crashed>>

\* The unique column refuses a second account, whose request fails.
InsertUser(r) ==
  /\ At(r, "use", "begun") /\ call[r].purpose = "signup"
  /\ IF account = NoAccount THEN account' = call[r].password /\ Written(r)
     ELSE End(r) /\ UNCHANGED <<account, cache, mails, inbox, purpose, used, crashed>>

SavePassword(r) ==
  /\ At(r, "use", "read") /\ account' = call[r].password /\ Written(r)

Confirm(r) ==
  /\ At(r, "use", "begun") /\ call[r].purpose = "changePassword"
  /\ UNCHANGED account /\ Written(r)

\* (mutant) The wrong key is deleted.
deleteVerifyTokenOfSignup(r) ==
  /\ At(r, "use", "written") /\ End(r)
  /\ cache' = [cache EXCEPT !["signup"] = NoToken]
  /\ UNCHANGED <<account, mails, inbox, purpose, used, crashed>>

\* Whatever is under the key goes, be it a newer token.
deleteVerifyToken(r) ==
  /\ At(r, "use", "written") /\ End(r)
  /\ cache' = [cache EXCEPT ![Key(call[r].purpose)] = NoToken]
  /\ UNCHANGED <<account, mails, inbox, purpose, used, crashed>>

\* A signed-in user changes the password, with no token.
changePassword(r, w) ==
  /\ account # NoAccount /\ Begin(r, "change", "changePassword", NoToken, w)
  /\ UNCHANGED <<account, cache, mails, inbox, purpose, used, crashed>>

UpdatePassword(r) ==
  /\ At(r, "change", "read") /\ account' = call[r].password /\ End(r)
  /\ UNCHANGED <<cache, mails, inbox, purpose, used, crashed>>

\* The process dies; the cache (Redis) and the mails under way survive.
Crash ==
  /\ crashed' = TRUE /\ call' = [r \in Requests |-> Idle]
  /\ UNCHANGED <<account, cache, mails, inbox, purpose, used>>

EmailNext ==
  \/ \E r \in Requests :
       \/ \E t \in Tokens :
            \/ SendEmailForSignup(r, t) \/ postChangePasswordEmailVerification(r, t)
            \/ sendEmailForResetPassword(r, t) \/ verifyEmailForChangePassword(r, t)
            \/ \E w \in Passwords :
                 signUp(r, t, w) \/ resetPasswordWithEmailVerification(r, t, w)
       \/ \E w \in Passwords : changePassword(r, w)
       \/ MailRefused(r) \/ storeVerifyToken(r) \/ ReadUser(r) \/ InsertUser(r)
       \/ SavePassword(r) \/ Confirm(r) \/ deleteVerifyToken(r) \/ UpdatePassword(r)
  \/ \E t \in Tokens : MailArrives(t)
  \/ \E p \in Purposes : Expire(p)
  \/ Crash

EmailSpec == EmailInit /\ [][EmailNext]_emailVars

-----------------------------------------------------------------------------
\* Whatever requests overlap, an account is made, a password reset or a change
\* confirmed only with a token mailed for that purpose.
PurposesStayApart == \A u \in used : purpose[u[2]] = u[1]

\* A token that has served is in the cache only while a request that used it is
\* about to delete it: nobody can use it later, unless the process died between
\* the two statements.
UsedTokensDie ==
  \A p \in Purposes : <<p, cache[p]>> \in used =>
    \/ crashed
    \/ \E r \in Requests : At(r, "use", "written") /\ call[r].purpose = p
=============================================================================
