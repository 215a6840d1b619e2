--------------------------- MODULE MCCollections ---------------------------
(***************************************************************************)
(* Small instances of Collections, PhotoLabels and TopCollections for TLC: *)
(* what is written in several statements and then searched by keywords,    *)
(* labels and likes.  The tables are different ones, and a behaviour here  *)
(* is one of one module; the others rest.                                  *)
(***************************************************************************)
EXTENDS Collections, PhotoLabels, TopCollections, TLC

VARIABLE part   \* whose behaviour it is

MCInit ==
  /\ part \in {"collections", "labels", "top"}
  /\ CollectionInit /\ LabelInit /\ TopInit
  /\ part # "top" => \A c \in Candidates :
                       photospots[c] = 0 /\ topics[c] = {} /\ likers[c] = {}

MCNext ==
  \/ part = "collections" /\ CollectionNext /\ UNCHANGED <<part, labelVars, topVars>>
  \/ part = "labels" /\ LabelNext /\ UNCHANGED <<part, collectionVars, topVars>>
  \/ part = "top" /\ TopNext /\ UNCHANGED <<part, collectionVars, labelVars>>

MCSpec == MCInit /\ [][MCNext]_<<part, collectionVars, labelVars, topVars>>

\* Requests and collections are interchangeable, and so are keywords that are alike.
Symmetry ==
  Permutations(Requests) \cup Permutations(Collections) \cup UNION {Permutations(S) : S \in Alike}

\* Keywords, connectors, label rows and likes have their types.
TypesOK == CollectionTypeOK /\ LabelTypeOK /\ TopTypeOK
=============================================================================
