-------------------------- MODULE Credentials_proofs --------------------------
(***************************************************************************)
(* Theorems about EmailVerification and SocialSignIn, for any number of    *)
(* requests, tokens, identities and nicknames.                             *)
(***************************************************************************)
EXTENDS MCCredentials, TLAPS

\* Where a token is met, it is for what it was drawn for.
CachedForPurpose ==
  \A p \in Purposes : cache[p] # NoToken => purpose[cache[p]] = p

AskedForPurpose ==
  \A r \in Requests : call[r] # Idle =>
    IF call[r].op = "change" THEN call[r].token = NoToken
    ELSE call[r].token \in Tokens /\ purpose[call[r].token] = call[r].purpose

\* Until it is stored, the token of a mail is neither in the cache, nor was it
\* used, nor is another request about it.
UnstoredIsFresh ==
  \A r \in Requests : At(r, "send", "begun") =>
    LET t == call[r].token IN
      /\ \A p \in Purposes : cache[p] # t /\ <<p, t>> \notin used
      /\ \A q \in Requests : q # r /\ call[q] # Idle => call[q].token # t

EmailInv == /\ EmailTypeOK /\ CachedForPurpose /\ AskedForPurpose /\ PurposesStayApart
            /\ UnstoredIsFresh /\ UsedTokensDie

-----------------------------------------------------------------------------
\* Requests.

\* A request is noted, and no other changes.
LEMMA BeginCall ==
  ASSUME EmailTypeOK, NEW r \in Requests, NEW op \in {"send", "use", "change"},
         NEW p \in Purposes, NEW t \in Tokens \cup {NoToken}, NEW w \in Passwords,
         Begin(r, op, p, t, w)
  PROVE  /\ call' \in [Requests -> Calls \cup {Idle}]
         /\ call[r] = Idle /\ call'[r] # Idle
         /\ call'[r].op = op /\ call'[r].purpose = p /\ call'[r].token = t
         /\ call'[r].step = "begun"
         /\ \A q \in Requests : q # r => call'[q] = call[q]
  <1> DEFINE new == [op |-> op, step |-> "begun", purpose |-> p, token |-> t, password |-> w]
  <1>1. new \in Calls
    BY DEF Calls
  <1>2. new # Idle
    BY <1>1, IdleAssumption
  <1> QED
    BY <1>1, <1>2 DEF Begin, EmailTypeOK

\* A request goes on, and no other changes.
LEMMA GoOnCall ==
  ASSUME EmailTypeOK, NEW r \in Requests, call[r] # Idle, NEW step \in {"read", "written"},
         GoesOn(r, step)
  PROVE  /\ call' \in [Requests -> Calls \cup {Idle}]
         /\ call'[r] # Idle
         /\ call'[r].op = call[r].op /\ call'[r].purpose = call[r].purpose
         /\ call'[r].token = call[r].token /\ call'[r].step = step
         /\ \A q \in Requests : q # r => call'[q] = call[q]
  <1> DEFINE new == [call[r] EXCEPT !.step = step]
  <1>1. call[r] \in Calls
    BY DEF EmailTypeOK
  <1>2. new \in Calls
    BY <1>1 DEF Calls
  <1>3. new # Idle
    BY <1>2, IdleAssumption
  <1>4. call'[r] = new
    BY DEF GoesOn, EmailTypeOK
  <1>5. /\ new.op = call[r].op /\ new.purpose = call[r].purpose
        /\ new.token = call[r].token /\ new.step = step
    BY <1>1 DEF Calls
  <1> HIDE DEF new
  <1> QED
    BY <1>1, <1>2, <1>3, <1>4, <1>5 DEF GoesOn, EmailTypeOK

\* A request ends, and no other changes.
LEMMA EndCall ==
  ASSUME EmailTypeOK, NEW r \in Requests, End(r)
  PROVE  /\ call' \in [Requests -> Calls \cup {Idle}]
         /\ call'[r] = Idle
         /\ \A q \in Requests : q # r => call'[q] = call[q]
  BY DEF End, EmailTypeOK

-----------------------------------------------------------------------------
\* Asking for a mail.

\* A token nobody was sent is drawn.
LEMMA SendStep ==
  ASSUME EmailInv, NEW r \in Requests, NEW p \in Purposes, NEW t \in Tokens, Send(r, p, t)
  PROVE  EmailInv'
  <1>1. PICK w \in Passwords : Begin(r, "send", p, t, w)
    BY DEF Send
  <1>2. /\ purpose[t] = NoToken /\ purpose'[t] = p
        /\ purpose' \in [Tokens -> Purposes \cup {NoToken}]
        /\ \A s \in Tokens : s # t => purpose'[s] = purpose[s]
        /\ mails' = mails \cup {t}
        /\ UNCHANGED <<account, cache, inbox, used, crashed>>
    BY DEF Send, EmailInv, EmailTypeOK
  <1>3. /\ call' \in [Requests -> Calls \cup {Idle}] /\ call[r] = Idle /\ call'[r] # Idle
        /\ call'[r].op = "send" /\ call'[r].purpose = p /\ call'[r].token = t
        /\ call'[r].step = "begun"
        /\ \A q \in Requests : q # r => call'[q] = call[q]
    BY <1>1, BeginCall DEF EmailInv
  <1>4. /\ \A x \in Purposes : cache[x] # t
        /\ \A x \in Purposes : <<x, t>> \notin used
        /\ \A q \in Requests : call[q] # Idle => call[q].token # t
    <2>1. NoToken \notin Purposes /\ NoToken # t
      BY NoTokenAssumption
    <2>2. \A x \in Purposes : cache[x] # t
      BY <1>2, <2>1 DEF EmailInv, CachedForPurpose
    <2>3. \A x \in Purposes : <<x, t>> \notin used
      BY <1>2, <2>1 DEF EmailInv, PurposesStayApart
    <2>4. ASSUME NEW q \in Requests, call[q] # Idle, call[q].token = t
          PROVE  FALSE
      BY <1>2, <2>1, <2>4 DEF EmailInv, AskedForPurpose, EmailTypeOK, Calls
    <2> QED
      BY <2>2, <2>3, <2>4
  <1>5. EmailTypeOK'
    BY <1>2, <1>3 DEF EmailInv, EmailTypeOK
  <1>6. CachedForPurpose'
    BY <1>2, <1>4 DEF EmailInv, EmailTypeOK, CachedForPurpose
  <1>7. AskedForPurpose'
    BY <1>2, <1>3, <1>4 DEF EmailInv, AskedForPurpose
  <1>8. PurposesStayApart'
    <2> SUFFICES ASSUME NEW u \in used
                 PROVE  purpose'[u[2]] = u[1]
      BY <1>2 DEF PurposesStayApart
    <2>1. u[2] \in Tokens /\ u[1] \in Purposes /\ u = <<u[1], u[2]>>
      BY DEF EmailInv, EmailTypeOK
    <2>2. u[2] # t
      BY <1>4, <2>1
    <2> QED
      BY <1>2, <2>1, <2>2 DEF EmailInv, PurposesStayApart
  <1>9. UnstoredIsFresh'
    BY <1>2, <1>3, <1>4 DEF EmailInv, UnstoredIsFresh, At
  <1>10. UsedTokensDie'
    BY <1>2, <1>3 DEF EmailInv, UsedTokensDie, At
  <1> QED
    BY <1>5, <1>6, <1>7, <1>8, <1>9, <1>10 DEF EmailInv

\* The mail server has taken the mail: the token is stored under its key.
LEMMA storeVerifyTokenStep ==
  ASSUME EmailInv, NEW r \in Requests, storeVerifyToken(r)
  PROVE  EmailInv'
  <1> DEFINE p == call[r].purpose
             t == call[r].token
  <1>1. /\ call' \in [Requests -> Calls \cup {Idle}] /\ call'[r] = Idle
        /\ \A q \in Requests : q # r => call'[q] = call[q]
    BY EndCall DEF storeVerifyToken, EmailInv
  <1>2. /\ At(r, "send", "begun") /\ call[r] # Idle
        /\ UNCHANGED <<account, mails, inbox, purpose, used, crashed>>
    BY DEF storeVerifyToken, At
  <1>3. p \in Purposes /\ t \in Tokens /\ purpose[t] = p /\ <<p, t>> \notin used
        /\ \A q \in Requests : q # r /\ call[q] # Idle => call[q].token # t
    BY <1>2 DEF At, EmailInv, EmailTypeOK, Calls, AskedForPurpose, UnstoredIsFresh
  <1>4. /\ cache' \in [Purposes -> Tokens \cup {NoToken}] /\ cache'[p] = t
        /\ \A x \in Purposes : x # p => cache'[x] = cache[x]
    BY <1>3 DEF storeVerifyToken, Key, EmailInv, EmailTypeOK
  <1>5. EmailTypeOK'
    BY <1>1, <1>2, <1>4 DEF EmailInv, EmailTypeOK
  <1>6. CachedForPurpose'
    BY <1>2, <1>3, <1>4 DEF EmailInv, CachedForPurpose
  <1>7. AskedForPurpose' /\ PurposesStayApart'
    BY <1>1, <1>2 DEF EmailInv, AskedForPurpose, PurposesStayApart
  <1>8. UnstoredIsFresh'
    BY <1>1, <1>2, <1>3, <1>4 DEF EmailInv, UnstoredIsFresh, At
  <1>9. UsedTokensDie'
    BY <1>1, <1>2, <1>3, <1>4 DEF EmailInv, UsedTokensDie, At
  <1> QED
    BY <1>5, <1>6, <1>7, <1>8, <1>9 DEF EmailInv

\* A request that does not delete its token ends or goes on, or none does.
LEMMA QuietStep ==
  ASSUME EmailInv, EmailTypeOK', UNCHANGED <<cache, purpose, used>>,
         crashed => crashed',
         \A q \in Requests :
           \/ call'[q] = call[q]
           \/ /\ \/ call'[q] = Idle
                 \/ /\ call[q] # Idle /\ call'[q].op = call[q].op
                    /\ call[q].op # "send" /\ call'[q].token = call[q].token
                    /\ call'[q].purpose = call[q].purpose
              /\ ~At(q, "use", "written") \/ crashed'
  PROVE  EmailInv'
  <1>1. CachedForPurpose' /\ PurposesStayApart'
    BY DEF EmailInv, CachedForPurpose, PurposesStayApart
  <1>2. AskedForPurpose'
    BY DEF EmailInv, AskedForPurpose
  <1>3. UnstoredIsFresh'
    <2> SUFFICES ASSUME NEW r \in Requests, At(r, "send", "begun")',
                        NEW q \in Requests, q # r, call'[q] # Idle
                 PROVE  call'[q].token # call'[r].token
      BY DEF EmailInv, UnstoredIsFresh, At
    <2>1. call'[r] = call[r] /\ At(r, "send", "begun")
      BY DEF At
    <2>2. call[q] # Idle /\ call'[q].token = call[q].token
      OBVIOUS
    <2> QED
      BY <2>1, <2>2 DEF EmailInv, UnstoredIsFresh
  <1>4. UsedTokensDie'
    BY DEF EmailInv, UsedTokensDie, At
  <1> QED
    BY <1>1, <1>2, <1>3, <1>4 DEF EmailInv

LEMMA MailStep ==
  ASSUME EmailInv,
         (\E t \in Tokens : MailArrives(t)) \/ (\E r \in Requests : MailRefused(r))
  PROVE  EmailInv'
  <1>1. ASSUME NEW t \in Tokens, MailArrives(t)
        PROVE  EmailInv'
    <2>1. EmailTypeOK' /\ UNCHANGED <<call, cache, purpose, used, crashed>>
      BY <1>1 DEF MailArrives, EmailInv, EmailTypeOK
    <2> QED
      BY <2>1, QuietStep
  <1>2. ASSUME NEW r \in Requests, MailRefused(r)
        PROVE  EmailInv'
    <2>1. /\ call' \in [Requests -> Calls \cup {Idle}] /\ call'[r] = Idle
          /\ \A q \in Requests : q # r => call'[q] = call[q]
      BY <1>2, EndCall DEF MailRefused, EmailInv
    <2>2. EmailTypeOK' /\ UNCHANGED <<cache, purpose, used, crashed>>
      BY <1>2, <2>1 DEF MailRefused, EmailInv, EmailTypeOK
    <2>3. ~At(r, "use", "written")
      BY <1>2 DEF MailRefused, At
    <2> QED
      BY <2>1, <2>2, <2>3, QuietStep
  <1> QED
    BY <1>1, <1>2

\* A token expires.
LEMMA ExpireStep ==
  ASSUME EmailInv, NEW p \in Purposes, Expire(p)
  PROVE  EmailInv'
  <1>1. /\ cache' \in [Purposes -> Tokens \cup {NoToken}] /\ cache'[p] = NoToken
        /\ \A x \in Purposes : x # p => cache'[x] = cache[x]
        /\ UNCHANGED <<account, mails, inbox, call, purpose, used, crashed>>
    BY DEF Expire, EmailInv, EmailTypeOK
  <1>2. \A x \in Purposes : <<x, NoToken>> \notin used
    BY NoTokenAssumption DEF EmailInv, EmailTypeOK
  <1>3. EmailTypeOK' /\ CachedForPurpose'
    BY <1>1 DEF EmailInv, EmailTypeOK, CachedForPurpose
  <1>4. AskedForPurpose' /\ PurposesStayApart'
    BY <1>1 DEF EmailInv, AskedForPurpose, PurposesStayApart
  <1>5. UnstoredIsFresh'
    BY <1>1, NoTokenAssumption DEF EmailInv, AskedForPurpose, UnstoredIsFresh, At
  <1>6. UsedTokensDie'
    BY <1>1, <1>2 DEF EmailInv, UsedTokensDie, At
  <1> QED
    BY <1>3, <1>4, <1>5, <1>6 DEF EmailInv

-----------------------------------------------------------------------------
\* Using a token.

\* A request presents the token that is under the key of its purpose, or
\* changes a password with no token.
LEMMA BeginStep ==
  ASSUME EmailInv, NEW r \in Requests, NEW p \in Purposes, NEW t \in Tokens \cup {NoToken},
         NEW w \in Passwords,
         \/ t \in Tokens /\ cache[p] = t /\ Begin(r, "use", p, t, w)
         \/ t = NoToken /\ Begin(r, "change", p, t, w),
         UNCHANGED <<account, cache, mails, inbox, purpose, used, crashed>>
  PROVE  EmailInv'
  <1>1. PICK op \in {"use", "change"} :
          /\ Begin(r, op, p, t, w)
          /\ IF op = "change" THEN t = NoToken ELSE t \in Tokens /\ cache[p] = t
    OBVIOUS
  <1>2. /\ call' \in [Requests -> Calls \cup {Idle}]
        /\ call[r] = Idle /\ call'[r] # Idle
        /\ call'[r].op = op /\ call'[r].purpose = p /\ call'[r].token = t
        /\ call'[r].step = "begun"
        /\ \A q \in Requests : q # r => call'[q] = call[q]
    BY <1>1, BeginCall DEF EmailInv
  <1>3. EmailTypeOK' /\ CachedForPurpose' /\ PurposesStayApart'
    BY <1>2 DEF EmailInv, EmailTypeOK, CachedForPurpose, PurposesStayApart
  <1>4. AskedForPurpose'
    BY <1>1, <1>2, NoTokenAssumption DEF EmailInv, AskedForPurpose, CachedForPurpose
  <1>5. UnstoredIsFresh'
    <2> SUFFICES ASSUME NEW q \in Requests, At(q, "send", "begun")'
                 PROVE  /\ \A x \in Purposes : /\ cache[x] # call'[q].token
                                               /\ <<x, call'[q].token>> \notin used
                        /\ \A z \in Requests : z # q /\ call'[z] # Idle =>
                             call'[z].token # call'[q].token
      BY DEF UnstoredIsFresh
    <2>1. q # r /\ call'[q] = call[q] /\ At(q, "send", "begun")
      BY <1>2 DEF At
    <2>2. call[q].token \in Tokens /\ cache[p] # call[q].token
      BY <2>1 DEF EmailInv, UnstoredIsFresh, AskedForPurpose, At
    <2>3. call'[r].token # call[q].token
      BY <1>1, <1>2, <2>2, NoTokenAssumption
    <2> QED
      BY <1>2, <2>1, <2>3 DEF EmailInv, UnstoredIsFresh
  <1>6. UsedTokensDie'
    BY <1>2 DEF EmailInv, UsedTokensDie, At
  <1> QED
    BY <1>3, <1>4, <1>5, <1>6 DEF EmailInv

\* What the token allows is done; it is about to be deleted.
LEMMA WrittenStep ==
  ASSUME EmailInv, NEW r \in Requests, call[r] # Idle, call[r].op = "use", Written(r),
         account' \in Passwords \cup {NoAccount}
  PROVE  EmailInv'
  <1> DEFINE p == call[r].purpose
             t == call[r].token
  <1>1. /\ call' \in [Requests -> Calls \cup {Idle}] /\ call'[r] # Idle
        /\ call'[r].op = "use" /\ call'[r].purpose = p /\ call'[r].token = t
        /\ call'[r].step = "written"
        /\ \A q \in Requests : q # r => call'[q] = call[q]
    BY GoOnCall DEF EmailInv, Written
  <1>2. /\ used' = used \cup {<<p, t>>}
        /\ UNCHANGED <<cache, mails, inbox, purpose, crashed>>
    BY DEF Written
  <1>3. t \in Tokens /\ p \in Purposes /\ purpose[t] = p
    BY DEF EmailInv, EmailTypeOK, AskedForPurpose, Calls
  <1>4. EmailTypeOK' /\ CachedForPurpose'
    BY <1>1, <1>2, <1>3 DEF EmailInv, EmailTypeOK, CachedForPurpose
  <1>5. AskedForPurpose'
    BY <1>1, <1>2, <1>3 DEF EmailInv, AskedForPurpose
  <1>6. PurposesStayApart'
    BY <1>2, <1>3 DEF EmailInv, PurposesStayApart
  <1>7. UnstoredIsFresh'
    <2> SUFFICES ASSUME NEW q \in Requests, At(q, "send", "begun")'
                 PROVE  /\ \A x \in Purposes : /\ cache[x] # call'[q].token
                                               /\ <<x, call'[q].token>> \notin used'
                        /\ \A z \in Requests : z # q /\ call'[z] # Idle =>
                             call'[z].token # call'[q].token
      BY <1>2 DEF UnstoredIsFresh
    <2>1. q # r /\ call'[q] = call[q] /\ At(q, "send", "begun")
      BY <1>1 DEF At
    <2>2. t # call[q].token
      BY <2>1 DEF EmailInv, UnstoredIsFresh
    <2> QED
      BY <1>1, <1>2, <2>1, <2>2 DEF EmailInv, UnstoredIsFresh
  <1>8. UsedTokensDie'
    <2> SUFFICES ASSUME NEW x \in Purposes, <<x, cache[x]>> \in used', ~crashed
                 PROVE  \E q \in Requests : /\ At(q, "use", "written")'
                                            /\ call'[q].purpose = x
      BY <1>2 DEF UsedTokensDie
    <2>1. CASE x = p
      BY <1>1, <2>1 DEF At
    <2>2. CASE x # p
      <3>1. PICK q \in Requests : At(q, "use", "written") /\ call[q].purpose = x
        BY <1>2, <2>2 DEF EmailInv, UsedTokensDie
      <3>2. q # r
        BY <2>2, <3>1
      <3> QED
        BY <1>1, <3>1, <3>2 DEF At
    <2> QED
      BY <2>1, <2>2
  <1> QED
    BY <1>4, <1>5, <1>6, <1>7, <1>8 DEF EmailInv

\* The request reads the user and goes on, or is refused.
LEMMA ReadUserStep ==
  ASSUME EmailInv, NEW r \in Requests, ReadUser(r)
  PROVE  EmailInv'
  <1>1. /\ call[r] # Idle /\ call[r].op # "send" /\ ~At(r, "use", "written")
        /\ UNCHANGED <<account, cache, mails, inbox, purpose, used, crashed>>
        /\ End(r) \/ GoesOn(r, "read")
    BY DEF ReadUser, At
  <1>2. CASE End(r)
    <2>1. EmailTypeOK'
      BY <1>1, <1>2, EndCall DEF EmailInv, EmailTypeOK
    <2> QED
      BY <1>1, <1>2, <2>1, EndCall, QuietStep DEF EmailInv
  <1>3. CASE GoesOn(r, "read")
    <2>1. EmailTypeOK'
      BY <1>1, <1>3, GoOnCall DEF EmailInv, EmailTypeOK
    <2> QED
      BY <1>1, <1>3, <2>1, GoOnCall, QuietStep DEF EmailInv
  <1> QED
    BY <1>1, <1>2, <1>3

\* The statements that write the account.
LEMMA WriteAccountStep ==
  ASSUME EmailInv, NEW r \in Requests,
         InsertUser(r) \/ SavePassword(r) \/ Confirm(r) \/ UpdatePassword(r)
  PROVE  EmailInv'
  <1>1. call[r] # Idle /\ call[r].password \in Passwords /\ ~At(r, "use", "written")
    BY DEF InsertUser, SavePassword, Confirm, UpdatePassword, At, EmailInv, EmailTypeOK, Calls
  <1>2. CASE End(r) /\ UNCHANGED <<cache, mails, inbox, purpose, used, crashed>>
                    /\ account' \in Passwords \cup {NoAccount}
    <2>1. EmailTypeOK'
      BY <1>2, EndCall DEF EmailInv, EmailTypeOK
    <2> QED
      BY <1>1, <1>2, <2>1, EndCall, QuietStep DEF EmailInv
  <1>3. CASE Written(r) /\ call[r].op = "use" /\ account' \in Passwords \cup {NoAccount}
    BY <1>1, <1>3, WrittenStep
  <1>4. account \in Passwords \cup {NoAccount}
    BY DEF EmailInv, EmailTypeOK
  <1> QED
    BY <1>1, <1>2, <1>3, <1>4 DEF InsertUser, SavePassword, Confirm, UpdatePassword, At

\* The token is deleted: what was under its key does not serve again.
LEMMA deleteVerifyTokenStep ==
  ASSUME EmailInv, NEW r \in Requests, deleteVerifyToken(r)
  PROVE  EmailInv'
  <1> DEFINE p == call[r].purpose
  <1>1. /\ call' \in [Requests -> Calls \cup {Idle}] /\ call'[r] = Idle
        /\ \A q \in Requests : q # r => call'[q] = call[q]
    BY EndCall DEF deleteVerifyToken, EmailInv
  <1>2. /\ At(r, "use", "written") /\ call[r] # Idle
        /\ UNCHANGED <<account, mails, inbox, purpose, used, crashed>>
    BY DEF deleteVerifyToken, At
  <1>3. p \in Purposes
    BY <1>2 DEF EmailInv, EmailTypeOK, Calls
  <1>4. /\ cache' \in [Purposes -> Tokens \cup {NoToken}] /\ cache'[p] = NoToken
        /\ \A x \in Purposes : x # p => cache'[x] = cache[x]
    BY <1>3 DEF deleteVerifyToken, Key, EmailInv, EmailTypeOK
  <1>5. \A x \in Purposes : <<x, NoToken>> \notin used
    BY NoTokenAssumption DEF EmailInv, EmailTypeOK
  <1>6. EmailTypeOK' /\ CachedForPurpose'
    BY <1>1, <1>2, <1>4 DEF EmailInv, EmailTypeOK, CachedForPurpose
  <1>7. AskedForPurpose' /\ PurposesStayApart'
    BY <1>1, <1>2 DEF EmailInv, AskedForPurpose, PurposesStayApart
  <1>8. UnstoredIsFresh'
    BY <1>1, <1>2, <1>4, NoTokenAssumption
    DEF EmailInv, AskedForPurpose, UnstoredIsFresh, At
  <1>9. UsedTokensDie'
    <2> SUFFICES ASSUME NEW x \in Purposes, <<x, cache'[x]>> \in used, ~crashed
                 PROVE  \E q \in Requests : /\ At(q, "use", "written")'
                                            /\ call'[q].purpose = x
      BY <1>2 DEF UsedTokensDie
    <2>1. x # p
      BY <1>4, <1>5
    <2>2. PICK q \in Requests : At(q, "use", "written") /\ call[q].purpose = x
      BY <1>4, <2>1 DEF EmailInv, UsedTokensDie
    <2>3. q # r
      BY <2>1, <2>2
    <2> QED
      BY <1>1, <2>2, <2>3 DEF At
  <1> QED
    BY <1>6, <1>7, <1>8, <1>9 DEF EmailInv

\* The process dies with its requests.
LEMMA CrashStep ==
  ASSUME EmailInv, Crash
  PROVE  EmailInv'
  <1>1. EmailTypeOK'
    BY DEF Crash, EmailInv, EmailTypeOK
  <1> QED
    BY <1>1, QuietStep DEF Crash

-----------------------------------------------------------------------------
\* Theorems about the e-mailed tokens.

LEMMA EmailInitInv ==
  ASSUME EmailInit
  PROVE  EmailInv
  BY DEF EmailInit, EmailInv, EmailTypeOK, CachedForPurpose, AskedForPurpose, UnstoredIsFresh,
         PurposesStayApart, UsedTokensDie, At

LEMMA UseStep ==
  ASSUME EmailInv, NEW r \in Requests, NEW p \in Purposes, NEW t \in Tokens,
         NEW w \in Passwords, Use(r, p, t, w)
  PROVE  EmailInv'
  BY BeginStep DEF Use, Verified, Key

LEMMA EmailNextInv ==
  ASSUME EmailInv, [EmailNext]_emailVars
  PROVE  EmailInv'
  <1>1. ASSUME NEW r \in Requests, NEW t \in Tokens,
               \/ SendEmailForSignup(r, t) \/ postChangePasswordEmailVerification(r, t)
               \/ sendEmailForResetPassword(r, t)
        PROVE  EmailInv'
    BY <1>1, SendStep
    DEF SendEmailForSignup, postChangePasswordEmailVerification, sendEmailForResetPassword,
        Purposes
  <1>2. ASSUME NEW r \in Requests, NEW t \in Tokens,
               \/ verifyEmailForChangePassword(r, t)
               \/ \E w \in Passwords :
                    signUp(r, t, w) \/ resetPasswordWithEmailVerification(r, t, w)
        PROVE  EmailInv'
    BY <1>2, UseStep
    DEF verifyEmailForChangePassword, signUp, resetPasswordWithEmailVerification, Purposes
  <1>3. ASSUME NEW r \in Requests, NEW w \in Passwords, changePassword(r, w)
        PROVE  EmailInv'
    BY <1>3, BeginStep DEF changePassword, Purposes
  <1>4. CASE UNCHANGED emailVars
    <2>1. EmailTypeOK'
      BY <1>4 DEF emailVars, EmailInv, EmailTypeOK
    <2> QED
      BY <1>4, <2>1, QuietStep DEF emailVars
  <1> QED
    BY <1>1, <1>2, <1>3, <1>4, MailStep, storeVerifyTokenStep, ExpireStep, ReadUserStep,
       WriteAccountStep, deleteVerifyTokenStep, CrashStep DEF EmailNext

\* Where a token is met, it is for what it was drawn for, and one that is not
\* stored yet is fresh.
THEOREM EmailInvariant == EmailSpec => []EmailInv
  BY EmailInitInv, EmailNextInv, PTL DEF EmailSpec

\* No overlap of requests makes a token of one purpose serve another.
THEOREM PurposesStayApartHolds == EmailSpec => []PurposesStayApart
  BY EmailInvariant, PTL DEF EmailInv

\* A token that has served is gone with the request it served, unless the
\* process died in between.
THEOREM UsedTokensDieHolds == EmailSpec => []UsedTokensDie
  BY EmailInvariant, PTL DEF EmailInv

-----------------------------------------------------------------------------
\* Signing in through a provider.

\* A sign-in that the provider has answered has a name, and asks for the user
\* of an identity.
Named == {"validated", "named", "new", "inserted", "found"}
SignInsAreNamed ==
  \A r \in SignIns :
    /\ request[r].at \in Named => request[r].name \in Names
    /\ request[r].at \in Named \cup {"token"} => request[r].identity \in Identities

\* Between the queries that found the name or the identity free and the insert
\* they stay free, unless the sign-in was unlucky.
FreeWhenLucky ==
  \A r \in SignIns \ unlucky :
    /\ request[r].at \in {"named", "new"} => request[r].name \notin NamesTaken
    /\ request[r].at = "new" => OfIdentity(request[r].identity) = {}

SocialInv == SocialTypeOK /\ SignInsAreNamed /\ FreeWhenLucky /\ FailsOnlyWhenUnlucky

\* The users of the table are not changed and a sign-in goes on.
LEMMA OneSignIn ==
  ASSUME SocialInv, NEW r \in SignIns, UNCHANGED users,
         request'[r] \in [at : Over \cup {"token"} \cup Named,
                          identity : Identities \cup {None}, name : Names \cup {None},
                          user : User \cup {None}],
         request' = [request EXCEPT ![r] = request'[r]],
         unlucky' \subseteq SignIns, unlucky \ {r} = unlucky' \ {r},
         request'[r].at \in Named => request'[r].name \in Names,
         request'[r].at \in Named \cup {"token"} => request'[r].identity \in Identities,
         r \notin unlucky' =>
           /\ request'[r].at \in {"named", "new"} => request'[r].name \notin NamesTaken
           /\ request'[r].at = "new" => OfIdentity(request'[r].identity) = {}
           /\ request'[r].at # "failed"
  PROVE  SocialInv'
  <1>1. \A q \in SignIns : q # r => /\ request'[q] = request[q]
                                    /\ q \in unlucky' <=> q \in unlucky
    BY DEF SocialInv, SocialTypeOK
  <1>2. SocialTypeOK'
    BY DEF SocialInv, SocialTypeOK, Named, Names, User, Identities
  <1>3. SignInsAreNamed'
    BY <1>1 DEF SocialInv, SignInsAreNamed, Names, Identities, Named
  <1>4. FreeWhenLucky'
    <2> SUFFICES ASSUME NEW q \in SignIns, q \notin unlucky'
                 PROVE  /\ request'[q].at \in {"named", "new"} =>
                             request'[q].name \notin NamesTaken
                        /\ request'[q].at = "new" => OfIdentity(request'[q].identity) = {}
      BY DEF FreeWhenLucky, NamesTaken, OfIdentity
    <2> QED
      BY <1>1 DEF SocialInv, FreeWhenLucky
  <1>5. FailsOnlyWhenUnlucky'
    BY <1>1 DEF SocialInv, FailsOnlyWhenUnlucky
  <1> QED
    BY <1>2, <1>3, <1>4, <1>5 DEF SocialInv

\* The row of a sign-in.
LEMMA RequestType ==
  ASSUME SocialInv, NEW r \in SignIns
  PROVE  /\ request[r] \in [at : Over \cup {"token"} \cup Named,
                            identity : Identities \cup {None}, name : Names \cup {None},
                            user : User \cup {None}]
         /\ \A at, name, user :
              /\ [request[r] EXCEPT !.at = at].at = at
              /\ [request[r] EXCEPT !.at = at].name = request[r].name
              /\ [request[r] EXCEPT !.at = at].identity = request[r].identity
              /\ [request[r] EXCEPT !.at = at].user = request[r].user
  <1>1. request[r] \in [at : Over \cup {"token"} \cup Named,
                        identity : Identities \cup {None}, name : Names \cup {None},
                        user : User \cup {None}]
    BY DEF SocialInv, SocialTypeOK, Named
  <1> QED
    BY <1>1

\* A sign-in only comes further.
LEMMA AnswerStep ==
  ASSUME SocialInv, NEW r \in SignIns, NEW at \in Over \cup Named, Answer(r, at),
         UNCHANGED <<users, unlucky>>,
         at \in Named => request[r].at \in Named,
         r \notin unlucky =>
           /\ at \in {"named", "new"} => request[r].name \notin NamesTaken
           /\ at = "new" => OfIdentity(request[r].identity) = {}
           /\ at # "failed"
  PROVE  SocialInv'
  <1>1. request' = [request EXCEPT ![r] = [request[r] EXCEPT !.at = at]]
    BY DEF Answer, SocialInv, SocialTypeOK
  <1>2. request'[r] = [request[r] EXCEPT !.at = at]
    BY <1>1 DEF SocialInv, SocialTypeOK
  <1>3. /\ request'[r] \in [at : Over \cup {"token"} \cup Named,
                            identity : Identities \cup {None}, name : Names \cup {None},
                            user : User \cup {None}]
        /\ request'[r].at = at /\ request'[r].name = request[r].name
        /\ request'[r].identity = request[r].identity
    BY <1>2, RequestType
  <1>4. at \in Named => request[r].name \in Names /\ request[r].identity \in Identities
    BY DEF SocialInv, SignInsAreNamed
  <1>5. unlucky \subseteq SignIns /\ at # "token"
    BY DEF SocialInv, SocialTypeOK, Over, Named
  <1> QED
    BY <1>1, <1>2, <1>3, <1>4, <1>5, OneSignIn

\* A new row, which the unique columns admit, makes unlucky all it overtakes.
LEMMA InsertStep ==
  ASSUME SocialInv, NEW row \in User, Insert(row),
         \/ UNCHANGED request
         \/ \E r \in SignIns : request[r].at = "new" /\ Answer(r, "inserted")
  PROVE  SocialInv'
  <1>1. /\ users' = users \cup {row} /\ unlucky \subseteq unlucky' /\ unlucky' \subseteq SignIns
        /\ \A q \in SignIns : request[q].at \notin Over => q \in unlucky'
        /\ row.name \notin NamesTaken
        /\ row.identity # None => OfIdentity(row.identity) = {}
    BY DEF Insert, Insertable, SocialInv, SocialTypeOK
  <1>2. \A q \in SignIns :
          /\ request'[q] \in [at : Over \cup {"token"} \cup Named,
                              identity : Identities \cup {None}, name : Names \cup {None},
                              user : User \cup {None}]
          /\ \/ request'[q] = request[q]
             \/ /\ request[q].at = "new" /\ request'[q].at = "inserted"
                /\ request'[q].name = request[q].name
                /\ request'[q].identity = request[q].identity
    <2> SUFFICES ASSUME NEW q \in SignIns, request'[q] # request[q]
                 PROVE  /\ request'[q] \in [at : Over \cup {"token"} \cup Named,
                                            identity : Identities \cup {None},
                                            name : Names \cup {None}, user : User \cup {None}]
                        /\ request[q].at = "new" /\ request'[q].at = "inserted"
                        /\ request'[q].name = request[q].name
                        /\ request'[q].identity = request[q].identity
      BY RequestType
    <2>1. request[q].at = "new" /\ Answer(q, "inserted")
      BY DEF Answer, SocialInv, SocialTypeOK
    <2>2. request'[q] = [request[q] EXCEPT !.at = "inserted"]
      BY <2>1 DEF Answer, SocialInv, SocialTypeOK
    <2> QED
      BY <2>1, <2>2, RequestType DEF Named
  <1>3. request' = [q \in SignIns |-> request'[q]]
    BY DEF Answer, SocialInv, SocialTypeOK
  <1>4. users' \subseteq User
    BY <1>1 DEF SocialInv, SocialTypeOK
  <1>5. \A u, v \in users' : u # v => /\ u.name # v.name
                                      /\ u.identity = v.identity => u.identity = None
    BY <1>1 DEF SocialInv, SocialTypeOK, NamesTaken, OfIdentity
  <1>6. SocialTypeOK'
    BY <1>1, <1>2, <1>4, <1>5, <1>3 DEF SocialTypeOK, Named, Names, User, Identities
  <1>7. SignInsAreNamed'
    BY <1>2 DEF SocialInv, SignInsAreNamed, Named, Names, Identities
  <1>8. FreeWhenLucky'
    BY <1>1, <1>2 DEF FreeWhenLucky, Over
  <1>9. FailsOnlyWhenUnlucky'
    BY <1>1, <1>2 DEF SocialInv, FailsOnlyWhenUnlucky
  <1> QED
    BY <1>6, <1>7, <1>8, <1>9 DEF SocialInv

\* An administrator changes isBlock of a row, and neither name nor identity.
LEMMA SocialBlockStep ==
  ASSUME SocialInv, NEW u \in users, NEW isBlock \in BOOLEAN, blockAdminUser(u, isBlock)
  PROVE  SocialInv'
  <1> DEFINE w == [u EXCEPT !.isBlock = isBlock]
  <1>1. users' = (users \ {u}) \cup {w} /\ UNCHANGED <<request, unlucky>>
    BY DEF blockAdminUser
  <1>2. u \in User /\ w \in User /\ w.name = u.name /\ w.identity = u.identity
    BY DEF SocialInv, SocialTypeOK, User
  <1> HIDE DEF w
  <1>3. users' \subseteq User
    BY <1>1, <1>2 DEF SocialInv, SocialTypeOK
  <1>4. \A x, y \in users' : x # y => /\ x.name # y.name
                                      /\ x.identity = y.identity => x.identity = None
    BY <1>1, <1>2 DEF SocialInv, SocialTypeOK
  <1>5. NamesTaken' = NamesTaken
    BY <1>1, <1>2 DEF NamesTaken
  <1>6. \A i : OfIdentity(i) = {} => OfIdentity(i)' = {}
    BY <1>1, <1>2 DEF OfIdentity
  <1>7. SocialTypeOK'
    BY <1>1, <1>3, <1>4 DEF SocialInv, SocialTypeOK, Names, User, Identities
  <1>8. SignInsAreNamed' /\ FailsOnlyWhenUnlucky'
    BY <1>1 DEF SocialInv, SignInsAreNamed, FailsOnlyWhenUnlucky, Names, Identities, Named
  <1>9. FreeWhenLucky'
    BY <1>1, <1>5, <1>6 DEF SocialInv, FreeWhenLucky
  <1> QED
    BY <1>7, <1>8, <1>9 DEF SocialInv

\* The provider is asked for the user, and answers or refuses.
LEMMA ProviderStep ==
  ASSUME SocialInv, NEW r \in SignIns, validateSocialUser(r)
  PROVE  SocialInv'
  <1>1. request[r] \in [at : Over \cup {"token"} \cup Named, identity : Identities \cup {None},
                        name : Names \cup {None}, user : User \cup {None}]
    BY RequestType
  <1>2. request \in [SignIns -> [at : Over \cup {"token"} \cup Named,
                                identity : Identities \cup {None},
                                name : Names \cup {None}, user : User \cup {None}]]
        /\ unlucky \subseteq SignIns
    BY DEF SocialInv, SocialTypeOK, Named
  <1>3. ASSUME NEW i \in Identities, NEW at \in {"token", "refused"},
               request' = [request EXCEPT ![r] = Asking(at, i)],
               unlucky' = unlucky \ {r}, UNCHANGED users
        PROVE  SocialInv'
    <2>1. request'[r] = Asking(at, i)
      BY <1>2, <1>3
    <2>2. Asking(at, i) \in [at : Over \cup {"token"} \cup Named,
                            identity : Identities \cup {None}, name : Names \cup {None},
                            user : User \cup {None}]
      BY DEF Asking, Over
    <2>3. /\ Asking(at, i).at \notin Named /\ Asking(at, i).at # "failed"
          /\ Asking(at, i).identity \in Identities
      BY DEF Asking, Named
    <2>4. Asking(at, i).at \notin {"named", "new"}
      BY <2>3 DEF Named
    <2> QED
      BY <1>2, <1>3, <2>1, <2>2, <2>3, <2>4, OneSignIn
  <1>4. CASE getUserInfo(r)
    <2>1. CASE Answer(r, "refused") /\ UNCHANGED <<users, unlucky>>
      BY <2>1, AnswerStep DEF Over, Named
    <2>2. ASSUME NEW n \in Nicknames, request[r].at = "token",
                 request' = [request EXCEPT ![r].at = "validated", ![r].name = <<n, 0>>],
                 UNCHANGED <<users, unlucky>>
          PROVE  SocialInv'
      <3> DEFINE new == [request[r] EXCEPT !.at = "validated", !.name = <<n, 0>>]
      <3>1. request' = [request EXCEPT ![r] = new] /\ request'[r] = new
        BY <1>2, <2>2
      <3>2. <<n, 0>> \in Names
        BY DEF Names
      <3>3. /\ new \in [at : Over \cup {"token"} \cup Named, identity : Identities \cup {None},
                        name : Names \cup {None}, user : User \cup {None}]
            /\ new.at = "validated" /\ new.name = <<n, 0>>
            /\ new.identity = request[r].identity
        BY <1>1, <3>2 DEF Named
      <3>4. request[r].identity \in Identities
        BY <2>2 DEF SocialInv, SignInsAreNamed
      <3> HIDE DEF new
      <3> QED
        BY <1>2, <2>2, <3>1, <3>2, <3>3, <3>4, OneSignIn
    <2> QED
      BY <1>4, <2>1, <2>2 DEF getUserInfo
  <1> QED
    BY <1>3, <1>4 DEF validateSocialUser, getOauth2Token, Identities

\* The first query: is there a user of the name?
LEMMA FindByNameStep ==
  ASSUME SocialInv, NEW r \in SignIns, FindByName(r)
  PROVE  SocialInv'
  <1> DEFINE name == request[r].name
  <1>1. /\ request[r] \in [at : Over \cup {"token"} \cup Named,
                            identity : Identities \cup {None}, name : Names \cup {None},
                            user : User \cup {None}]
        /\ request[r].at = "validated" /\ request[r].at \in Named
        /\ name \in Names /\ request[r].identity \in Identities
    BY RequestType DEF SocialInv, SignInsAreNamed, FindByName, Named
  <1>2. request \in [SignIns -> [at : Over \cup {"token"} \cup Named,
                                identity : Identities \cup {None},
                                name : Names \cup {None}, user : User \cup {None}]]
        /\ unlucky \subseteq SignIns
    BY DEF SocialInv, SocialTypeOK, Named
  <1>3. CASE ~InUse(name) /\ Answer(r, "named") /\ UNCHANGED <<users, unlucky>>
    BY <1>1, <1>3, AnswerStep DEF InUse, Named
  <1>4. ASSUME NEW k \in Numbers,
               request' = [request EXCEPT ![r].at = "named", ![r].name = <<@[1], k>>],
               unlucky' = IF <<name[1], k>> \in NamesTaken THEN unlucky \cup {r} ELSE unlucky,
               UNCHANGED users
        PROVE  SocialInv'
    <2> DEFINE drawn == <<name[1], k>>
               new == [request[r] EXCEPT !.at = "named", !.name = drawn]
    <2>1. request' = [request EXCEPT ![r] = new] /\ request'[r] = new
      BY <1>2, <1>4
    <2>2. drawn \in Names
      BY <1>1 DEF Names
    <2>3. /\ new \in [at : Over \cup {"token"} \cup Named, identity : Identities \cup {None},
                      name : Names \cup {None}, user : User \cup {None}]
          /\ new.at = "named" /\ new.name = drawn /\ new.identity = request[r].identity
      BY <1>1, <2>2 DEF Named
    <2>4. /\ unlucky' \subseteq SignIns /\ unlucky \ {r} = unlucky' \ {r}
          /\ r \notin unlucky' => drawn \notin NamesTaken
      BY <1>2, <1>4
    <2> HIDE DEF new, drawn
    <2> QED
      BY <1>1, <1>4, <2>1, <2>2, <2>3, <2>4, OneSignIn
  <1> QED
    BY <1>3, <1>4 DEF FindByName

\* The second query, and the one after the insert: the user of the identity.
LEMMA FindUserStep ==
  ASSUME SocialInv, NEW r \in SignIns, FindUser(r)
  PROVE  SocialInv'
  <1>1. /\ request[r] \in [at : Over \cup {"token"} \cup Named,
                            identity : Identities \cup {None}, name : Names \cup {None},
                            user : User \cup {None}]
        /\ request[r].at \in Named
        /\ request[r].name \in Names /\ request[r].identity \in Identities
    BY RequestType DEF SocialInv, SignInsAreNamed, FindUser, Named
  <1>2. request \in [SignIns -> [at : Over \cup {"token"} \cup Named,
                                identity : Identities \cup {None},
                                name : Names \cup {None}, user : User \cup {None}]]
        /\ unlucky \subseteq SignIns /\ users \subseteq User
    BY DEF SocialInv, SocialTypeOK, Named
  <1>3. ASSUME NEW u \in Found(r), UNCHANGED <<users, unlucky>>,
               request' = [request EXCEPT ![r].at = "found", ![r].user = u]
        PROVE  SocialInv'
    <2> DEFINE new == [request[r] EXCEPT !.at = "found", !.user = u]
    <2>1. request' = [request EXCEPT ![r] = new] /\ request'[r] = new
      BY <1>2, <1>3
    <2>2. u \in User
      BY <1>2 DEF Found, OfIdentity
    <2>3. /\ new \in [at : Over \cup {"token"} \cup Named, identity : Identities \cup {None},
                      name : Names \cup {None}, user : User \cup {None}]
          /\ new.at = "found" /\ new.name = request[r].name
          /\ new.identity = request[r].identity
      BY <1>1, <2>2 DEF Named
    <2> HIDE DEF new
    <2> QED
      BY <1>1, <1>2, <1>3, <2>1, <2>3, OneSignIn
  <1>4. CASE /\ Found(r) = {} /\ UNCHANGED <<users, unlucky>>
             /\ request[r].at = "named" /\ Answer(r, "new")
    BY <1>1, <1>4, AnswerStep DEF Found, Named, SocialInv, FreeWhenLucky
  <1>5. CASE Answer(r, "idle") /\ UNCHANGED <<users, unlucky>>
    BY <1>5, AnswerStep DEF Over, Named
  <1> QED
    BY <1>3, <1>4, <1>5 DEF FindUser

\* The third: the insert, which only an unlucky sign-in sees fail.
LEMMA InsertSocialUserStep ==
  ASSUME SocialInv, NEW r \in SignIns, InsertSocialUser(r)
  PROVE  SocialInv'
  <1> DEFINE row == [identity |-> request[r].identity, name |-> request[r].name,
                     isBlock |-> FALSE]
  <1>1. request[r].at = "new" /\ request[r].name \in Names /\ request[r].identity \in Identities
    BY DEF InsertSocialUser, SocialInv, SignInsAreNamed, Named
  <1>2. row \in User /\ row.name = request[r].name /\ row.identity = request[r].identity
    BY <1>1 DEF User
  <1> HIDE DEF row
  <1>3. CASE Insert(row) /\ Answer(r, "inserted")
    BY <1>1, <1>2, <1>3, InsertStep
  <1>4. CASE ~Insertable(row) /\ Answer(r, "failed") /\ UNCHANGED <<users, unlucky>>
    <2>1. r \in unlucky
      BY <1>1, <1>2, <1>4 DEF SocialInv, FreeWhenLucky, Insertable
    <2> QED
      BY <1>4, <2>1, AnswerStep DEF Over, Named
  <1> QED
    BY <1>3, <1>4 DEF InsertSocialUser, row

\* The user found is signed in or blocked.
LEMMA SignInSocialStep ==
  ASSUME SocialInv, NEW r \in SignIns, SignInSocial(r)
  PROVE  SocialInv'
  BY AnswerStep DEF SignInSocial, Over, Named

LEMMA signUpLocalStep ==
  ASSUME SocialInv, NEW n \in Nicknames, signUpLocal(n)
  PROVE  SocialInv'
  <1>1. [identity |-> None, name |-> <<n, 0>>, isBlock |-> FALSE] \in User
    BY DEF User, Names
  <1> QED
    BY <1>1, InsertStep DEF signUpLocal

-----------------------------------------------------------------------------
\* Theorems about signing in through a provider.

LEMMA SocialInitInv ==
  ASSUME SocialInit
  PROVE  SocialInv
  BY DEF SocialInit, Asking, SocialInv, SocialTypeOK, SignInsAreNamed, FreeWhenLucky,
         FailsOnlyWhenUnlucky, Over, Named

LEMMA SocialNextInv ==
  ASSUME SocialInv, [SocialNext]_socialVars
  PROVE  SocialInv'
  <1>1. CASE UNCHANGED socialVars
    BY <1>1 DEF socialVars, SocialInv, SocialTypeOK, SignInsAreNamed, FreeWhenLucky,
                FailsOnlyWhenUnlucky, NamesTaken, OfIdentity
  <1> QED
    BY <1>1, ProviderStep, FindByNameStep, FindUserStep, InsertSocialUserStep,
       SignInSocialStep, signUpLocalStep, SocialBlockStep DEF SocialNext

\* The unique columns hold, and what a lucky sign-in found free stays free.
THEOREM SocialInvariant == SocialSpec => []SocialInv
  BY SocialInitInv, SocialNextInv, PTL DEF SocialSpec

\* A nickname that somebody has is no reason for a first sign-in to fail.
THEOREM FailsOnlyWhenUnluckyHolds == SocialSpec => []FailsOnlyWhenUnlucky
  BY SocialInvariant, PTL DEF SocialInv

-----------------------------------------------------------------------------
\* E-mailed tokens and providers together.

\* Every variable of both keeps its type, and the unique columns hold.
THEOREM CredentialsTypesCorrect == MCSpec => []TypesOK
  <1>1. MCInit => EmailInv /\ SocialInv
    BY EmailInitInv, SocialInitInv DEF MCInit
  <1>2. ASSUME EmailInv, SocialInv, [MCNext]_<<part, emailVars, socialVars>>
        PROVE  EmailInv' /\ SocialInv'
    <2>1. [EmailNext]_emailVars /\ [SocialNext]_socialVars
      BY <1>2 DEF MCNext, emailVars, socialVars
    <2> QED
      BY <1>2, <2>1, EmailNextInv, SocialNextInv
  <1>3. EmailInv /\ SocialInv => TypesOK
    BY DEF EmailInv, SocialInv, TypesOK
  <1> QED
    BY <1>1, <1>2, <1>3, PTL DEF MCSpec
==============================================================================
