---------------------------- MODULE MCSessions ----------------------------
(***************************************************************************)
(* Small instances of UserSessions and AdminSessions for TLC.  The two     *)
(* share no state, so that every property of one holds of both together    *)
(* when it holds while the other rests: a behaviour here is one of either. *)
(***************************************************************************)
EXTENDS UserSessions, AdminSessions, TLC

VARIABLE part   \* whose behaviour it is

MCInit == part \in {"users", "administrators"} /\ Init /\ AdminInit

MCNext ==
  \/ part = "users" /\ Next /\ UNCHANGED <<part, adminVars>>
  \/ part = "administrators" /\ AdminNext /\ UNCHANGED <<part, vars>>

MCSpec == MCInit /\ [][MCNext]_<<part, vars, adminVars>>

\* Users are interchangeable, and so are their sessions and the browsers.
Symmetry == Permutations(Users) \cup Permutations(Sessions) \cup Permutations(Clients)

\* Sessions, markers and the rows and cookies of administrators have their types.
TypesOK == TypeOK /\ AdminTypeOK
=============================================================================
