--------------------------- MODULE MCClientViews ---------------------------
(***************************************************************************)
(* Small instances of Listings and ChatGateway for TLC: what clients are   *)
(* shown, page by page or as it happens, while others change it.  The two  *)
(* share no state, and a behaviour here is one of either.                  *)
(***************************************************************************)
EXTENDS Listings, ChatGateway, TLC

VARIABLE part   \* whose behaviour it is

MCInit ==
  /\ part \in {"listings", "chat"}
  /\ ListingInit /\ ChatInit
  /\ part # "listings" => list = "getAllPhoto" /\ \A i \in Ids : row[i] \in {{}, Absent}

MCNext ==
  \/ part = "listings" /\ ListingNext /\ UNCHANGED <<part, chatVars>>
  \/ part = "chat" /\ ChatNext /\ UNCHANGED <<part, listingVars>>

MCSpec == MCInit /\ [][MCNext]_<<part, listingVars, chatVars>>

\* Sockets and events are interchangeable, and rooms that have a name.
Symmetry == Permutations(Sockets) \cup Permutations(Rooms \ {Unnamed}) \cup Permutations(Events)

\* Tables, readers, rooms and what was heard in them have their types.
TypesOK == ListingTypeOK /\ ChatTypeOK
=============================================================================
