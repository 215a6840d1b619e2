------------------------------ MODULE Collections ------------------------------
(***************************************************************************)
(* Collections and the keywords they share: creating, updating and         *)
(* deleting a collection, each in several statements that interleave with  *)
(* those of other requests.                                                *)
(*                                                                         *)
(* A keyword has one row for ever - the column is unique, and rows are     *)
(* only soft-deleted - so that the keyword stands for its row.  Keywords   *)
(* that differ in case only are alike to the database: one of them has a   *)
(* row.  To the program they are different strings.                        *)
(*                                                                         *)
(* save and softRemove act on the entity with what it was loaded with:     *)
(* both cascade to the keywords, writing back their columns or marking     *)
(* them deleted.                                                           *)
(* The photospots a deletion also takes along are in module Photospots.    *)
(***************************************************************************)
EXTENDS Integers, FiniteSets

CONSTANTS Requests, Collections, Keywords, Idle,
          MaxWords,    \* bound of a model: the keywords of a body
          Alike        \* sets of keywords that the column's collation takes for equal

VARIABLES collection,  \* the collection rows: absent, live or soft-deleted
          keyword,     \* the keyword rows, likewise
          tags,        \* collection_keyword_connector
          edit,        \* the requests under way
          raced        \* history: requests during which another wrote keywords

collectionVars == <<collection, keyword, tags, edit, raced>>

Rows == {"absent", "live", "deleted"}
Edits == [op : {"create", "update", "delete"}, step : {"find", "insert", "save"},
          id : Collections, words : SUBSET Keywords, twice : SUBSET Keywords,
          new : SUBSET Keywords]

ASSUME IdleAssumption == Idle \notin Edits
ASSUME AlikeAssumption == Alike \subseteq SUBSET Keywords

AlikeTo(k) == {k} \cup UNION {S \in Alike : k \in S}

CollectionTypeOK ==
  /\ collection \in [Collections -> Rows]
  /\ keyword \in [Keywords -> Rows]
  /\ tags \in [Collections -> SUBSET Keywords]
  /\ edit \in [Requests -> Edits \cup {Idle}]
  /\ \A r \in Requests : edit[r] # Idle => edit[r].new \subseteq edit[r].words
  /\ raced \subseteq Requests

CollectionInit ==
  /\ collection = [c \in Collections |-> "absent"]
  /\ keyword = [k \in Keywords |-> "absent"]
  /\ tags = [c \in Collections |-> {}]
  /\ edit = [r \in Requests |-> Idle]
  /\ raced = {}

LiveKeywords == {k \in Keywords : keyword[k] = "live"}

-----------------------------------------------------------------------------
Start(r, op, step, c, words, twice) ==
  /\ edit[r] = Idle
  /\ edit' = [edit EXCEPT ![r] = [op |-> op, step |-> step, id |-> c,
                                  words |-> words, twice |-> twice, new |-> {}]]
  /\ raced' = raced \ {r}
  /\ UNCHANGED <<collection, keyword, tags>>

At(r, step) == edit[r] # Idle /\ edit[r].step = step

\* The body names at least one keyword, and may name some twice.  The new
\* collection gets an id of its own.
CreateCollection(r, c, words, twice) ==
  /\ collection[c] = "absent" /\ Cardinality(words) <= MaxWords
  /\ \A q \in Requests : edit[q] # Idle => edit[q].id # c
  /\ words # {}
  /\ Start(r, "create", "find", c, words, twice)

\* Other users' requests are refused before they change anything.
UpdateCollection(r, c, words, twice) ==
  /\ collection[c] = "live" /\ words # {} /\ Cardinality(words) <= MaxWords
  /\ Start(r, "update", "find", c, words, twice)

\* The collection is read with the keywords that are not soft-deleted.
DeleteCollection(r, c) ==
  /\ collection[c] = "live"
  /\ Start(r, "delete", "save", c, tags[c] \cap LiveKeywords, {})

\* (mutant) Every keyword of the request is taken for a new one.
FindKeywordsNone(r) ==
  /\ At(r, "find")
  /\ LET e == edit[r] IN
       edit' = [edit EXCEPT ![r] = [e EXCEPT !.new = e.words, !.step = "insert"]]
  /\ UNCHANGED <<collection, keyword, tags, raced>>

\* find does not see soft-deleted rows, and finds those that are alike to a
\* keyword of the body; what differs from all of them is taken for new, as often
\* as the body names it.
FindKeywords(r) ==
  /\ At(r, "find")
  /\ LET e == edit[r]
         existing == (UNION {AlikeTo(k) : k \in e.words}) \cap LiveKeywords
         new == e.words \ existing
     IN edit' = [edit EXCEPT ![r] = [e EXCEPT !.words = existing \cup new, !.new = new,
                                              !.twice = @ \cap new, !.step = "insert"]]
  /\ UNCHANGED <<collection, keyword, tags, raced>>

Others(r) == {q \in Requests \ {r} : edit[q] # Idle}

\* Neither a keyword nor one that is alike is inserted twice.
AllDiffer(e) == e.twice = {} /\ \A k \in e.new : AlikeTo(k) \cap e.new = {k}

\* All new keywords are inserted in one transaction, or the unique column
\* refuses one of them and the request fails.
SaveKeywords(r) ==
  /\ At(r, "insert")
  /\ IF /\ AllDiffer(edit[r])
        /\ \A k \in edit[r].new : \A j \in AlikeTo(k) : keyword[j] = "absent"
     THEN /\ keyword' = [k \in Keywords |-> IF k \in edit[r].new THEN "live" ELSE keyword[k]]
          /\ edit' = [edit EXCEPT ![r].step = "save"]
          /\ raced' = raced \cup Others(r)
     ELSE /\ edit' = [edit EXCEPT ![r] = Idle]
          /\ UNCHANGED <<keyword, raced>>
  /\ UNCHANGED <<collection, tags>>

\* getCollection selects no deletedAt, so that save leaves it alone; the
\* keywords were loaded whole, and one soft-deleted meanwhile is written back.
SaveCollection(r) ==
  /\ At(r, "save") /\ edit[r].op # "delete"
  /\ LET e == edit[r] IN
       /\ collection' = [collection EXCEPT ![e.id] = IF e.op = "create" THEN "live" ELSE @]
       /\ tags' = [tags EXCEPT ![e.id] = e.words]
       /\ keyword' = [k \in Keywords |-> IF k \in e.words THEN "live" ELSE keyword[k]]
  /\ edit' = [edit EXCEPT ![r] = Idle]
  /\ raced' = raced \cup Others(r)

\* softRemove marks the collection and, by the cascade, its keywords.
SoftRemove(r) ==
  /\ At(r, "save") /\ edit[r].op = "delete"
  /\ LET e == edit[r] IN
       /\ collection' = [collection EXCEPT ![e.id] = "deleted"]
       /\ keyword' = [k \in Keywords |-> IF k \in e.words THEN "deleted" ELSE keyword[k]]
  /\ edit' = [edit EXCEPT ![r] = Idle]
  /\ UNCHANGED <<tags, raced>>

\* An administrator's deletion does not cascade.
DeleteAdminCollection(c) ==
  /\ collection[c] = "live"
  /\ collection' = [collection EXCEPT ![c] = "deleted"]
  /\ UNCHANGED <<keyword, tags, edit, raced>>

CollectionNext ==
  \/ \E r \in Requests :
       \/ \E c \in Collections, words \in SUBSET Keywords : \E twice \in SUBSET words :
            CreateCollection(r, c, words, twice) \/ UpdateCollection(r, c, words, twice)
       \/ \E c \in Collections : DeleteCollection(r, c)
       \/ FindKeywords(r) \/ SaveKeywords(r) \/ SaveCollection(r) \/ SoftRemove(r)
  \/ \E c \in Collections : DeleteAdminCollection(c)

CollectionSpec == CollectionInit /\ [][CollectionNext]_collectionVars

-----------------------------------------------------------------------------
\* Why the unique column may turn a request away.
RefusalHasAReason(r) ==
  LET e == edit[r]
      like == UNION {AlikeTo(k) : k \in e.new}
  IN \/ r \in raced
     \/ ~AllDiffer(e)
     \/ \E j \in like : keyword[j] = "deleted"
     \/ \E j \in like \ e.new : keyword[j] = "live"

\* The unique column turns a request away only when another request wrote
\* keywords since it began, when a keyword it takes for new was deleted with a
\* collection, or when its body names a new keyword twice or one in another case
\* than it, or the table, has it in.  Other requests, one after the other, never
\* meet it.
RefusedForAReason ==
  [][\A r \in Requests : At(r, "insert") /\ edit'[r] = Idle =>
       RefusalHasAReason(r)]_collectionVars

=============================================================================
