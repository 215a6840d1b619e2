--------------------------- MODULE MCCredentials ---------------------------
(***************************************************************************)
(* Small instances of EmailVerification and SocialSignIn for TLC: one      *)
(* address with its e-mailed tokens, and sign-ins through the providers.   *)
(* The two share no state, and a behaviour here is one of either.          *)
(***************************************************************************)
EXTENDS EmailVerification, SocialSignIn, TLC

VARIABLE part   \* whose behaviour it is

MCInit == part \in {"e-mail", "social"} /\ EmailInit /\ SocialInit

MCNext ==
  \/ part = "e-mail" /\ EmailNext /\ UNCHANGED <<part, socialVars>>
  \/ part = "social" /\ SocialNext /\ UNCHANGED <<part, emailVars>>

MCSpec == MCInit /\ [][MCNext]_<<part, emailVars, socialVars>>

\* Tokens, requests and the accounts at one provider are interchangeable.
Symmetry == Permutations(Tokens) \cup Permutations(Requests) \cup Permutations(Kakao)

\* The cache, mails, accounts and sign-ins have their types; no two users share a
\* name or an account at a provider.
TypesOK == EmailTypeOK /\ SocialTypeOK
=============================================================================
