---------------------------- MODULE TopCollections ----------------------------
(***************************************************************************)
(* The list of popular collections on the main page, as the query builds   *)
(* it: the joined rows of collections, likes, keywords and photospots are  *)
(* grouped by collection, ordered by the number of likes and cut off at    *)
(* the limit; the concatenated keywords are then split again.  The tables  *)
(* start with any contents; users like and unlike.                         *)
(***************************************************************************)
EXTENDS Integers, Sequences, FiniteSets, SequencesExt

CONSTANTS Candidates, Viewers, Topics,
          Null,      \* the column of a left join that found nothing
          Limit,     \* 6 in the code
          WithComma,    \* the keywords that contain a comma
          ConcatLimit   \* how many keywords fit GROUP_CONCAT, 1024 bytes

ASSUME TopLimitAssumption == Limit \in Nat \ {0} /\ ConcatLimit \in Nat

\* Tables are finite, and NULL is no id and no keyword.
ASSUME TopTablesAssumption ==
  /\ IsFiniteSet(Candidates) /\ IsFiniteSet(Viewers) /\ IsFiniteSet(Topics)
  /\ Null \notin Viewers \cup Topics

VARIABLES photospots,  \* live photospots of each collection, a number
          topics,      \* its keywords
          likers       \* the users who like it

topVars == <<photospots, topics, likers>>

TopTypeOK ==
  /\ photospots \in [Candidates -> 0 .. 2]
  /\ topics \in [Candidates -> SUBSET Topics]
  /\ likers \in [Candidates -> SUBSET Viewers]

TopInit == TopTypeOK /\ likers = [c \in Candidates |-> {}]

ToggleLike(u, c) ==
  /\ likers' = [likers EXCEPT ![c] = IF u \in @ THEN @ \ {u} ELSE @ \cup {u}]
  /\ UNCHANGED <<photospots, topics>>

TopNext == \E u \in Viewers, c \in Candidates : ToggleLike(u, c)

TopSpec == TopInit /\ [][TopNext]_topVars

-----------------------------------------------------------------------------
OrNull(S) == IF S = {} THEN {Null} ELSE S

\* leftJoin likes, leftJoin keywords, innerJoin photospots.
JoinedRows ==
  UNION {[c : {c}, l : OrNull(likers[c]), k : OrNull(topics[c]), p : 1 .. photospots[c]]
         : c \in Candidates}

\* (mutant) Grouping also by what is joined, as the query once did.
GroupByAll(row) == row

GroupKey(row) == row.c

Groups == {{row \in JoinedRows : GroupKey(row) = key} : key \in {GroupKey(row) : row \in JoinedRows}}

\* (mutant) COUNT(l.userId): every joined row counts.
LikesOfRows(group) == Cardinality({row \in group : row.l # Null})

\* COUNT(DISTINCT l.userId)
LikesIn(group) == Cardinality({row.l : row \in group} \ {Null})

\* The groups that are kept: the query may order equals in any way.
Kept == {kept \in SUBSET Groups :
  /\ Cardinality(kept) = IF Cardinality(Groups) < Limit THEN Cardinality(Groups) ELSE Limit
  /\ \A g \in kept, other \in Groups \ kept : LikesIn(g) >= LikesIn(other)}

\* What comes back of the keyword at this place of the concatenation, after
\* split has cut it at every comma: GROUP_CONCAT ends within one that does not fit.
Pieces(k, place) ==
  {piece \in {"whole", "head", "tail"} :
     IF piece = "whole" THEN place <= ConcatLimit /\ k \notin WithComma
     ELSE \/ place <= ConcatLimit /\ k \in WithComma
          \/ place = ConcatLimit + 1 /\ piece = "head"}

\* The keywords in the order of the concatenation, which is any.  (From the
\* second on they come back with a leading blank, which is left out.)
KeywordsShown(group) ==
  LET ks == SetToSeq({row.k : row \in group} \ {Null})
  IN UNION {{ks[i]} \X Pieces(ks[i], i) : i \in 1 .. Len(ks)}

getTopCollectionsListForMain(kept) ==
  {[id |-> (CHOOSE row \in g : TRUE).c, likes |-> LikesIn(g), keywords |-> KeywordsShown(g)]
   : g \in kept}

-----------------------------------------------------------------------------
Shown(kept) == {item.id : item \in getTopCollectionsListForMain(kept)}
WithPhotospots == {c \in Candidates : photospots[c] > 0}

\* The item shows its keywords as they are, unless a comma or the limit cut them.
WholeIfTheyFit(item) ==
  LET own == topics[item.id] IN
    own \cap WithComma = {} /\ Cardinality(own) <= ConcatLimit =>
      item.keywords = own \X {"whole"}

\* However many likes, keywords and photospots are joined to it, the list shows
\* as many different collections as there are, up to the limit (README.md:735),
\* each with the likes it was given and with keywords of its own - with all of
\* them, and uncut, if none contains a comma and they fit - and leaves out none
\* that has more likes.
MostLikedAreShown ==
  \A kept \in Kept :
    /\ Cardinality(Shown(kept)) = IF Cardinality(WithPhotospots) < Limit
                                  THEN Cardinality(WithPhotospots) ELSE Limit
    /\ \A item \in getTopCollectionsListForMain(kept) :
         /\ item.likes = Cardinality(likers[item.id])
         /\ \A k \in item.keywords : k[1] \in topics[item.id]
         /\ WholeIfTheyFit(item)
         /\ \A c \in WithPhotospots \ Shown(kept) : Cardinality(likers[c]) <= item.likes
=============================================================================
