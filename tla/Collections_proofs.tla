-------------------------- MODULE Collections_proofs --------------------------
(***************************************************************************)
(* Proofs about Collections, PhotoLabels and TopCollections, for any       *)
(* number of requests, collections, keywords, photos and labels.           *)
(***************************************************************************)
EXTENDS MCCollections, FiniteSetTheorems, FunctionTheorems, TLAPS

\* The keywords a request is about to insert were not there when it looked, and
\* are not there now unless another request wrote keywords since.
NewAreNew ==
  \A r \in Requests : At(r, "insert") => r \in raced \/ edit[r].new \cap LiveKeywords = {}

CollectionInv == CollectionTypeOK /\ NewAreNew

\* What a label task was told is what it still looks for, what it is about to
\* insert, and what the rows it has collected say.
TaskIsComplete ==
  \A p \in Photos :
    /\ step[p] = "asked" => ids[p] = {} /\ todo[p] = {}
    /\ step[p] # "collect" => missing[p] = NoLabel
    /\ step[p] # "done" => keywords[p] = {}
    /\ step[p] = "collect" =>
         labels[p] = {rows[i] : i \in ids[p]} \cup todo[p] \cup ({missing[p]} \ {NoLabel})
    /\ step[p] = "done" => labels[p] = {rows[i] : i \in keywords[p]}

LabelInv == LabelTypeOK /\ TaskIsComplete

-----------------------------------------------------------------------------
\* Collections.

LEMMA EditIsTyped ==
  ASSUME CollectionTypeOK, NEW r \in Requests, edit[r] # Idle
  PROVE  /\ edit[r] \in Edits /\ edit[r].id \in Collections
         /\ edit[r].words \subseteq Keywords /\ edit[r].new \subseteq edit[r].words
         /\ \A k \in edit[r].new : AlikeTo(k) \subseteq Keywords
  BY AlikeAssumption DEF CollectionTypeOK, Edits, AlikeTo

\* A request begins.
LEMMA StartKeeps ==
  ASSUME CollectionInv, NEW r \in Requests, NEW op \in {"create", "update", "delete"},
         NEW at \in {"find", "save"}, NEW c \in Collections, NEW words \in SUBSET Keywords,
         NEW twice, twice \subseteq words, Start(r, op, at, c, words, twice)
  PROVE  CollectionInv' /\ edit[r] = Idle /\ \A q \in Requests : q # r => edit'[q] = edit[q]
  <1> DEFINE new == [op |-> op, step |-> at, id |-> c, words |-> words, twice |-> twice,
                     new |-> {}]
  <1>1. new \in Edits /\ new.step # "insert" /\ new.new = {}
    BY DEF Edits
  <1>2. /\ edit[r] = Idle /\ edit' = [edit EXCEPT ![r] = new] /\ raced' = raced \ {r}
        /\ UNCHANGED <<collection, keyword, tags>>
    BY DEF Start
  <1> HIDE DEF new
  <1>3. edit'[r] = new /\ \A q \in Requests : q # r => edit'[q] = edit[q]
    BY <1>2 DEF CollectionInv, CollectionTypeOK
  <1>4. CollectionTypeOK'
    BY <1>1, <1>2, <1>3 DEF CollectionInv, CollectionTypeOK
  <1>5. NewAreNew'
    BY <1>1, <1>2, <1>3 DEF CollectionInv, NewAreNew, At, LiveKeywords
  <1> QED
    BY <1>2, <1>3, <1>4, <1>5 DEF CollectionInv

LEMMA FindKeywordsKeeps ==
  ASSUME CollectionInv, NEW r \in Requests, FindKeywords(r)
  PROVE  CollectionInv' /\ ~At(r, "insert") /\ \A q \in Requests : q # r => edit'[q] = edit[q]
  <1> DEFINE e == edit[r]
             near == UNION {AlikeTo(k) : k \in e.words}
             existing == near \cap LiveKeywords
             fresh == e.words \ existing
             new == [e EXCEPT !.words = existing \cup fresh, !.new = fresh,
                              !.twice = @ \cap fresh, !.step = "insert"]
  <1>1. /\ e # Idle /\ e.step = "find" /\ e \in Edits
        /\ existing \subseteq Keywords /\ fresh \subseteq Keywords
        /\ fresh \cap LiveKeywords = {}
    <2>1. e # Idle /\ e.step = "find"
      BY DEF FindKeywords, At
    <2>2. e \in Edits /\ e.words \subseteq Keywords
      BY <2>1, EditIsTyped DEF CollectionInv
    <2>3. e.words \subseteq near
      BY DEF AlikeTo
    <2>4. LiveKeywords \subseteq Keywords
      BY DEF LiveKeywords
    <2> HIDE DEF e, near
    <2>5. fresh \cap LiveKeywords = {}
      BY <2>3
    <2>6. fresh \subseteq Keywords
      BY <2>2
    <2> QED
      BY <2>1, <2>2, <2>4, <2>5, <2>6
  <1>2. edit' = [edit EXCEPT ![r] = new] /\ UNCHANGED <<collection, keyword, tags, raced>>
    BY DEF FindKeywords
  <1> HIDE DEF near, existing, fresh
  <1>3. /\ new \in Edits /\ new.words = existing \cup fresh /\ new.new = fresh
    BY <1>1 DEF Edits
  <1> HIDE DEF new, e
  <1>4. edit'[r] = new /\ \A q \in Requests : q # r => edit'[q] = edit[q]
    BY <1>2 DEF CollectionInv, CollectionTypeOK
  <1>5. CollectionTypeOK'
    BY <1>2, <1>3, <1>4 DEF CollectionInv, CollectionTypeOK
  <1>6. NewAreNew'
    BY <1>1, <1>2, <1>3, <1>4 DEF CollectionInv, NewAreNew, At, LiveKeywords
  <1> QED
    BY <1>1, <1>4, <1>5, <1>6 DEF CollectionInv, At, e

\* The unique column accepts what the request inserts.
Accepted(r) ==
  /\ AllDiffer(edit[r])
  /\ \A k \in edit[r].new : \A j \in AlikeTo(k) : keyword[j] = "absent"

\* The insert of a request that goes on.
LEMMA KeywordsInserted ==
  ASSUME CollectionInv, NEW r \in Requests, SaveKeywords(r),
         Accepted(r)
  PROVE  CollectionInv' /\ edit'[r] # Idle /\ \A q \in Requests : q # r => edit'[q] = edit[q]
  <1> DEFINE new == [edit[r] EXCEPT !.step = "save"]
  <1>1. edit[r] # Idle /\ edit[r] \in Edits /\ edit[r].new \subseteq edit[r].words
    BY EditIsTyped DEF SaveKeywords, At, CollectionInv
  <1>2. /\ new \in Edits /\ new.words = edit[r].words /\ new.new = edit[r].new
        /\ new.step = "save" /\ new # Idle
    BY <1>1, IdleAssumption DEF Edits
  <1>3. /\ edit' = [edit EXCEPT ![r] = new] /\ raced' = raced \cup Others(r)
        /\ keyword' = [k \in Keywords |-> IF k \in edit[r].new THEN "live" ELSE keyword[k]]
        /\ UNCHANGED <<collection, tags>>
    BY DEF SaveKeywords, Accepted
  <1> HIDE DEF new
  <1>4. edit'[r] = new /\ \A q \in Requests : q # r => edit'[q] = edit[q]
    BY <1>3 DEF CollectionInv, CollectionTypeOK
  <1>5. keyword' \in [Keywords -> Rows] /\ raced' \subseteq Requests
    BY <1>3 DEF CollectionInv, CollectionTypeOK, Rows, Others
  <1>6. CollectionTypeOK'
    BY <1>1, <1>2, <1>3, <1>4, <1>5 DEF CollectionInv, CollectionTypeOK
  <1>7. NewAreNew'
    <2>1. SUFFICES ASSUME NEW q \in Requests, At(q, "insert")'
                   PROVE  q \in raced'
      BY DEF NewAreNew
    <2>2. q # r /\ edit[q] # Idle
      BY <1>2, <1>4, <2>1 DEF At
    <2> QED
      BY <1>3, <2>2 DEF Others
  <1> QED
    BY <1>2, <1>4, <1>6, <1>7 DEF CollectionInv

\* A request ends, and other keywords are live than before only if that is noted
\* for all others.
LEMMA EndKeeps ==
  ASSUME CollectionInv, NEW r \in Requests, edit' = [edit EXCEPT ![r] = Idle],
         collection' \in [Collections -> Rows], keyword' \in [Keywords -> Rows],
         tags' \in [Collections -> SUBSET Keywords], raced \subseteq raced', raced' \subseteq Requests,
         LiveKeywords' \subseteq LiveKeywords \/ Others(r) \subseteq raced'
  PROVE  CollectionInv' /\ \A q \in Requests : q # r => edit'[q] = edit[q]
  <1>1. edit'[r] = Idle /\ \A q \in Requests : q # r => edit'[q] = edit[q]
    BY DEF CollectionInv, CollectionTypeOK
  <1>2. CollectionTypeOK'
    BY <1>1 DEF CollectionInv, CollectionTypeOK
  <1>3. NewAreNew'
    <2>1. SUFFICES ASSUME NEW q \in Requests, At(q, "insert")'
                   PROVE  q \in raced' \/ edit'[q].new \cap LiveKeywords' = {}
      BY DEF NewAreNew
    <2>2. q # r /\ At(q, "insert") /\ edit'[q] = edit[q] /\ q \in Others(r)
      BY <1>1, <2>1 DEF At, Others
    <2> QED
      BY <2>2 DEF CollectionInv, NewAreNew
  <1> QED
    BY <1>1, <1>2, <1>3 DEF CollectionInv

LEMMA SaveCollectionKeeps ==
  ASSUME CollectionInv, NEW r \in Requests, SaveCollection(r)
  PROVE  CollectionInv' /\ ~At(r, "insert") /\ \A q \in Requests : q # r => edit'[q] = edit[q]
  <1>1. edit[r] # Idle /\ edit[r].step = "save"
    BY DEF SaveCollection, At
  <1>2. edit[r].id \in Collections /\ edit[r].words \subseteq Keywords
    BY <1>1, EditIsTyped DEF CollectionInv
  <1>3. collection' \in [Collections -> Rows]
    BY <1>2 DEF SaveCollection, CollectionInv, CollectionTypeOK, Rows
  <1>4. keyword' \in [Keywords -> Rows]
    BY DEF SaveCollection, CollectionInv, CollectionTypeOK, Rows
  <1>5. tags' \in [Collections -> SUBSET Keywords]
    BY <1>2 DEF SaveCollection, CollectionInv, CollectionTypeOK
  <1>6. edit' = [edit EXCEPT ![r] = Idle] /\ raced' = raced \cup Others(r)
    BY DEF SaveCollection
  <1>7. raced' \subseteq Requests
    BY <1>6 DEF Others, CollectionInv, CollectionTypeOK
  <1> QED
    BY <1>1, <1>3, <1>4, <1>5, <1>6, <1>7, EndKeeps DEF At

LEMMA SoftRemoveKeeps ==
  ASSUME CollectionInv, NEW r \in Requests, SoftRemove(r)
  PROVE  CollectionInv' /\ ~At(r, "insert") /\ \A q \in Requests : q # r => edit'[q] = edit[q]
  <1>1. edit[r] # Idle /\ edit[r].step = "save"
    BY DEF SoftRemove, At
  <1>2. collection' \in [Collections -> Rows]
    BY DEF SoftRemove, CollectionInv, CollectionTypeOK, Rows
  <1>3. keyword' \in [Keywords -> Rows] /\ LiveKeywords' \subseteq LiveKeywords
    BY DEF SoftRemove, CollectionInv, CollectionTypeOK, Rows, LiveKeywords
  <1>4. edit' = [edit EXCEPT ![r] = Idle] /\ UNCHANGED <<tags, raced>>
    BY DEF SoftRemove
  <1> QED
    BY <1>1, <1>2, <1>3, <1>4, EndKeeps DEF At, CollectionInv, CollectionTypeOK

\* The insert the unique column refuses.
LEMMA KeywordsRefused ==
  ASSUME CollectionInv, NEW r \in Requests, SaveKeywords(r), ~Accepted(r)
  PROVE  /\ CollectionInv' /\ \A q \in Requests : q # r => edit'[q] = edit[q]
         /\ RefusalHasAReason(r)
  <1>1. edit' = [edit EXCEPT ![r] = Idle] /\ UNCHANGED <<collection, keyword, tags, raced>>
    BY DEF SaveKeywords, Accepted
  <1>2. CollectionInv' /\ \A q \in Requests : q # r => edit'[q] = edit[q]
    <2>1. LiveKeywords' \subseteq LiveKeywords
      BY <1>1 DEF LiveKeywords
    <2> QED
      BY <1>1, <2>1, EndKeeps DEF CollectionInv, CollectionTypeOK
  <1>3. ASSUME NEW k \in edit[r].new, NEW j \in AlikeTo(k), keyword[j] # "absent"
        PROVE  RefusalHasAReason(r)
    <2> DEFINE like == UNION {AlikeTo(i) : i \in edit[r].new}
    <2>1. j \in Keywords /\ j \in like
      BY <1>3, EditIsTyped DEF SaveKeywords, At, CollectionInv
    <2>2. keyword[j] \in {"live", "deleted"}
      BY <1>3, <2>1 DEF CollectionInv, CollectionTypeOK, Rows
    <2>3. j \in edit[r].new /\ keyword[j] = "live" => r \in raced
      BY <2>1 DEF CollectionInv, NewAreNew, SaveKeywords, LiveKeywords
    <2> QED
      BY <2>1, <2>2, <2>3 DEF RefusalHasAReason
  <1>4. ~AllDiffer(edit[r]) => RefusalHasAReason(r)
    BY DEF RefusalHasAReason
  <1> QED
    BY <1>2, <1>3, <1>4 DEF Accepted

\* What the action property says of one request.
Reasoned(r) == At(r, "insert") /\ edit'[r] = Idle => RefusalHasAReason(r)

LEMMA CollectionInvInit == CollectionInit => CollectionInv
  BY DEF CollectionInit, CollectionInv, CollectionTypeOK, NewAreNew, At, Rows

LEMMA CollectionStep ==
  CollectionInv /\ [CollectionNext]_collectionVars =>
    CollectionInv' /\ \A r \in Requests : Reasoned(r)
  <1> SUFFICES ASSUME CollectionInv, [CollectionNext]_collectionVars
               PROVE  CollectionInv' /\ \A r \in Requests : Reasoned(r)
    OBVIOUS
  <1>1. ASSUME NEW r \in Requests, NEW c \in Collections, NEW words \in SUBSET Keywords,
               NEW twice \in SUBSET words,
               \/ CreateCollection(r, c, words, twice) \/ UpdateCollection(r, c, words, twice)
               \/ DeleteCollection(r, c)
        PROVE  CollectionInv' /\ \A q \in Requests : Reasoned(q)
    <2> DEFINE Begun == CollectionInv' /\ edit[r] = Idle /\ \A q \in Requests : q # r => edit'[q] = edit[q]
    <2>1. ASSUME CreateCollection(r, c, words, twice)
          PROVE  Begun
      <3>1. Start(r, "create", "find", c, words, twice)
        BY <2>1 DEF CreateCollection
      <3> QED
        BY <3>1, StartKeeps
    <2>2. ASSUME UpdateCollection(r, c, words, twice)
          PROVE  Begun
      <3>1. Start(r, "update", "find", c, words, twice)
        BY <2>2 DEF UpdateCollection
      <3> QED
        BY <3>1, StartKeeps
    <2>3. ASSUME DeleteCollection(r, c)
          PROVE  Begun
      <3> DEFINE ws == tags[c] \cap LiveKeywords
                 none == {}
      <3>1. ws \in SUBSET Keywords /\ none \subseteq ws
        BY DEF LiveKeywords
      <3>2. Start(r, "delete", "save", c, ws, none)
        BY <2>3 DEF DeleteCollection
      <3> HIDE DEF ws, none
      <3> QED
        BY <3>1, <3>2, StartKeeps
    <2> QED
      BY <1>1, <2>1, <2>2, <2>3 DEF Reasoned, At
  <1>2. ASSUME NEW r \in Requests, FindKeywords(r)
        PROVE  CollectionInv' /\ \A q \in Requests : Reasoned(q)
    BY <1>2, FindKeywordsKeeps DEF Reasoned, At
  <1>3. ASSUME NEW r \in Requests, SaveKeywords(r)
        PROVE  CollectionInv' /\ \A q \in Requests : Reasoned(q)
    <2>1. CASE Accepted(r)
      BY <1>3, <2>1, KeywordsInserted DEF Reasoned, At
    <2>2. CASE ~Accepted(r)
      BY <1>3, <2>2, KeywordsRefused DEF Reasoned, At
    <2> QED
      BY <2>1, <2>2
  <1>4. ASSUME NEW r \in Requests, SaveCollection(r) \/ SoftRemove(r)
        PROVE  CollectionInv' /\ \A q \in Requests : Reasoned(q)
    BY <1>4, SaveCollectionKeeps, SoftRemoveKeeps DEF Reasoned, At
  <1>5. ASSUME NEW c \in Collections, DeleteAdminCollection(c)
        PROVE  CollectionInv' /\ \A q \in Requests : Reasoned(q)
    <2>1. /\ collection' \in [Collections -> Rows]
          /\ UNCHANGED <<keyword, tags, edit, raced>>
      BY <1>5 DEF DeleteAdminCollection, CollectionInv, CollectionTypeOK, Rows
    <2> QED
      BY <2>1 DEF CollectionInv, CollectionTypeOK, NewAreNew, At, LiveKeywords, Reasoned
  <1>6. CASE UNCHANGED collectionVars
    BY <1>6 DEF collectionVars, CollectionInv, CollectionTypeOK, NewAreNew, At, LiveKeywords, Reasoned
  <1> QED
    BY <1>1, <1>2, <1>3, <1>4, <1>5, <1>6 DEF CollectionNext

-----------------------------------------------------------------------------
\* Labels.

LEMMA LabelInvInit == LabelInit => LabelInv
  BY DEF LabelInit, LabelInv, LabelTypeOK, TaskIsComplete

LEMMA AskLabelsKeeps ==
  ASSUME LabelInv, NEW p \in Photos, AskLabels(p)
  PROVE  LabelInv'
  <1>1. PICK found \in SUBSET Labels : /\ labels' = [labels EXCEPT ![p] = found]
                                       /\ todo' = [todo EXCEPT ![p] = found]
    BY DEF AskLabels, imageLabeling
  <1>2. /\ step[p] = "asked" /\ step' = [step EXCEPT ![p] = "collect"]
        /\ UNCHANGED <<rows, keywords, missing, ids>>
    BY DEF AskLabels
  <1>3. LabelTypeOK'
    BY <1>1, <1>2 DEF LabelInv, LabelTypeOK
  <1>4. /\ labels'[p] = found /\ todo'[p] = found /\ step'[p] = "collect"
        /\ \A q \in Photos : q # p => labels'[q] = labels[q] /\ todo'[q] = todo[q] /\ step'[q] = step[q]
    BY <1>1, <1>2 DEF LabelInv, LabelTypeOK
  <1>5. ids[p] = {} /\ missing[p] = NoLabel /\ keywords[p] = {}
    BY <1>2 DEF LabelInv, TaskIsComplete
  <1>6. TaskIsComplete'
    BY <1>2, <1>4, <1>5 DEF LabelInv, TaskIsComplete
  <1> QED
    BY <1>3, <1>6 DEF LabelInv

LEMMA FindKeywordKeeps ==
  ASSUME LabelInv, NEW p \in Photos, NEW l \in Labels, FindKeyword(p, l)
  PROVE  LabelInv'
  <1>1. /\ step[p] = "collect" /\ missing[p] = NoLabel /\ l \in todo[p]
        /\ todo' = [todo EXCEPT ![p] = @ \ {l}]
        /\ UNCHANGED <<rows, keywords, labels, step>>
    BY DEF FindKeyword
  <1>2. /\ todo' \in [Photos -> SUBSET Labels]
        /\ todo'[p] = todo[p] \ {l} /\ \A q \in Photos : q # p => todo'[q] = todo[q]
    BY <1>1 DEF LabelInv, LabelTypeOK
  <1>3. labels[p] = {rows[i] : i \in ids[p]} \cup todo[p]
    BY <1>1 DEF LabelInv, TaskIsComplete
  <1>4. CASE missing' = [missing EXCEPT ![p] = l] /\ UNCHANGED ids
    <2>1. /\ missing' \in [Photos -> Labels \cup {NoLabel}]
          /\ missing'[p] = l /\ \A q \in Photos : q # p => missing'[q] = missing[q]
      BY <1>4 DEF LabelInv, LabelTypeOK
    <2>2. LabelTypeOK'
      BY <1>1, <1>2, <1>4, <2>1 DEF LabelInv, LabelTypeOK
    <2>3. labels[p] = {rows[i] : i \in ids[p]} \cup todo'[p] \cup ({missing'[p]} \ {NoLabel})
      BY <1>1, <1>2, <1>3, <2>1, NoLabelAssumption
    <2>4. TaskIsComplete'
      BY <1>1, <1>2, <1>4, <2>1, <2>3 DEF LabelInv, TaskIsComplete
    <2> QED
      BY <2>2, <2>4 DEF LabelInv
  <1>5. ASSUME NEW i \in RowsOf(l), ids' = [ids EXCEPT ![p] = @ \cup {i}], UNCHANGED missing
        PROVE  LabelInv'
    <2>1. i \in 1 .. Len(rows) /\ rows[i] = l
      BY DEF RowsOf
    <2>2. /\ ids' \in [Photos -> SUBSET (1 .. Len(rows))]
          /\ ids'[p] = ids[p] \cup {i} /\ \A q \in Photos : q # p => ids'[q] = ids[q]
      BY <1>5, <2>1 DEF LabelInv, LabelTypeOK
    <2>3. LabelTypeOK'
      BY <1>1, <1>2, <1>5, <2>2 DEF LabelInv, LabelTypeOK
    <2>4. {rows[j] : j \in ids'[p]} = {rows[j] : j \in ids[p]} \cup {l}
      BY <2>1, <2>2
    <2>5. labels[p] = {rows[j] : j \in ids'[p]} \cup todo'[p]
      BY <1>1, <1>2, <1>3, <2>4
    <2>6. TaskIsComplete'
      BY <1>1, <1>2, <1>5, <2>2, <2>5 DEF LabelInv, TaskIsComplete
    <2> QED
      BY <2>3, <2>6 DEF LabelInv
  <1> QED
    BY <1>4, <1>5 DEF FindKeyword

\* A new row at the end of the table changes nothing that was read before.
LEMMA SaveKeywordKeeps ==
  ASSUME LabelInv, NEW p \in Photos, SaveKeyword(p)
  PROVE  LabelInv'
  <1> DEFINE n == Len(rows) + 1
  <1>1. /\ missing[p] # NoLabel /\ rows' = Append(rows, missing[p])
        /\ missing' = [missing EXCEPT ![p] = NoLabel]
        /\ UNCHANGED <<keywords, labels, todo, step>>
    BY DEF SaveKeyword
  <1>2. missing[p] \in Labels /\ step[p] = "collect"
    BY <1>1 DEF LabelInv, LabelTypeOK, TaskIsComplete
  <1>3. rows \in Seq(Labels) /\ Len(rows) \in Nat
    BY DEF LabelInv, LabelTypeOK
  <1>4. /\ rows' \in Seq(Labels) /\ Len(rows') = n /\ rows'[n] = missing[p]
        /\ \A i \in 1 .. Len(rows) : rows'[i] = rows[i]
        /\ 1 .. Len(rows) \subseteq 1 .. n /\ n \in 1 .. n
    BY <1>1, <1>2, <1>3
  <1>5. ids' = [ids EXCEPT ![p] = @ \cup {n}]
    BY <1>4 DEF SaveKeyword
  <1> HIDE DEF n
  <1>6. /\ ids' \in [Photos -> SUBSET (1 .. n)] /\ keywords' \in [Photos -> SUBSET (1 .. n)]
        /\ ids'[p] = ids[p] \cup {n} /\ \A q \in Photos : q # p => ids'[q] = ids[q]
    BY <1>1, <1>4, <1>5 DEF LabelInv, LabelTypeOK
  <1>7. /\ missing' \in [Photos -> Labels \cup {NoLabel}]
        /\ missing'[p] = NoLabel /\ \A q \in Photos : q # p => missing'[q] = missing[q]
    BY <1>1 DEF LabelInv, LabelTypeOK
  <1>8. LabelTypeOK'
    BY <1>1, <1>4, <1>6, <1>7 DEF LabelInv, LabelTypeOK
  <1>9. \A q \in Photos : /\ {rows'[i] : i \in ids[q]} = {rows[i] : i \in ids[q]}
                          /\ {rows'[i] : i \in keywords[q]} = {rows[i] : i \in keywords[q]}
    <2>1. \A q \in Photos : ids[q] \subseteq 1 .. Len(rows) /\ keywords[q] \subseteq 1 .. Len(rows)
      BY DEF LabelInv, LabelTypeOK
    <2> QED
      BY <1>4, <2>1
  <1>10. {rows'[i] : i \in ids'[p]} = {rows[i] : i \in ids[p]} \cup {missing[p]}
    <2>1. {rows'[i] : i \in ids'[p]} = {rows'[i] : i \in ids[p]} \cup {rows'[n]}
      BY <1>6
    <2> QED
      BY <1>4, <1>9, <2>1
  <1>11. labels[p] = {rows[i] : i \in ids[p]} \cup todo[p] \cup {missing[p]}
    BY <1>1, <1>2 DEF LabelInv, TaskIsComplete
  <1>12. labels[p] = {rows'[i] : i \in ids'[p]} \cup todo[p] \cup ({missing'[p]} \ {NoLabel})
    BY <1>7, <1>10, <1>11
  <1>13. TaskIsComplete'
    <2>1. ASSUME NEW q \in Photos, q # p
          PROVE  /\ step[q] = "asked" => ids'[q] = {} /\ todo[q] = {}
                 /\ step[q] # "collect" => missing'[q] = NoLabel
                 /\ step[q] # "done" => keywords[q] = {}
                 /\ step[q] = "collect" =>
                      labels[q] = {rows'[i] : i \in ids'[q]} \cup todo[q] \cup ({missing'[q]} \ {NoLabel})
                 /\ step[q] = "done" => labels[q] = {rows'[i] : i \in keywords[q]}
      BY <1>6, <1>7, <1>9, <2>1 DEF LabelInv, TaskIsComplete
    <2>2. keywords[p] = {}
      BY <1>2 DEF LabelInv, TaskIsComplete
    <2> QED
      BY <1>1, <1>2, <1>12, <2>1, <2>2 DEF TaskIsComplete
  <1> QED
    BY <1>8, <1>13 DEF LabelInv

LEMMA AttachKeywordsKeeps ==
  ASSUME LabelInv, NEW p \in Photos, AttachKeywords(p)
  PROVE  LabelInv'
  <1>1. /\ step[p] = "collect" /\ missing[p] = NoLabel /\ todo[p] = {}
        /\ keywords' = [keywords EXCEPT ![p] = ids[p]]
        /\ step' = [step EXCEPT ![p] = "done"]
        /\ UNCHANGED <<rows, labels, todo, missing, ids>>
    BY DEF AttachKeywords
  <1>2. /\ keywords' \in [Photos -> SUBSET (1 .. Len(rows))] /\ keywords'[p] = ids[p]
        /\ step'[p] = "done"
        /\ \A q \in Photos : q # p => keywords'[q] = keywords[q] /\ step'[q] = step[q]
    BY <1>1 DEF LabelInv, LabelTypeOK
  <1>3. LabelTypeOK'
    BY <1>1, <1>2 DEF LabelInv, LabelTypeOK
  <1>4. labels[p] = {rows[i] : i \in ids[p]}
    BY <1>1 DEF LabelInv, TaskIsComplete
  <1>5. TaskIsComplete'
    BY <1>1, <1>2, <1>4 DEF LabelInv, TaskIsComplete
  <1> QED
    BY <1>3, <1>5 DEF LabelInv

LEMMA LabelInvNext == LabelInv /\ [LabelNext]_labelVars => LabelInv'
  <1> SUFFICES ASSUME LabelInv, [LabelNext]_labelVars
               PROVE  LabelInv'
    OBVIOUS
  <1>1. CASE UNCHANGED labelVars
    BY <1>1 DEF labelVars, task, LabelInv, LabelTypeOK, TaskIsComplete
  <1> QED
    BY <1>1, AskLabelsKeeps, FindKeywordKeeps, SaveKeywordKeeps, AttachKeywordsKeeps DEF LabelNext

\* Photos that share a row were given the label of that row.
LEMMA LabelInvKeepsLabels == LabelInv => LabelsAreKept
  <1> SUFFICES ASSUME LabelInv
               PROVE  LabelsAreKept
    OBVIOUS
  <1>1. \A p \in Photos : Done(p) => {rows[i] : i \in keywords[p]} = labels[p]
    BY DEF Done, LabelInv, TaskIsComplete
  <1>2. ASSUME NEW p \in Photos, NEW q \in Sharing(p)
        PROVE  labels[p] \cap labels[q] # {}
    <2>1. PICK i \in keywords[q] \cap keywords[p] : q \in Photos
      BY DEF Sharing
    <2>2. Done(p) /\ Done(q)
      BY <2>1 DEF Done, LabelInv, LabelTypeOK, TaskIsComplete
    <2> QED
      BY <1>1, <2>1, <2>2
  <1>3. ASSUME NEW p \in Photos, NEW answer \in getRecommendPhoto(p)
        PROVE  answer \subseteq Sharing(p)
    BY DEF getRecommendPhoto
  <1> QED
    BY <1>1, <1>2, <1>3 DEF LabelsAreKept

-----------------------------------------------------------------------------
\* Popular collections: likes come and go.

LEMMA TopTypeInvariant == TopInit => TopTypeOK
  BY DEF TopInit

LEMMA TopTypeNext == TopTypeOK /\ [TopNext]_topVars => TopTypeOK'
  <1>1. ASSUME TopTypeOK, NEW u \in Viewers, NEW c \in Candidates, ToggleLike(u, c)
        PROVE  TopTypeOK'
    <2>1. likers[c] \ {u} \in SUBSET Viewers /\ likers[c] \cup {u} \in SUBSET Viewers
      BY <1>1 DEF TopTypeOK
    <2> QED
      BY <1>1, <2>1 DEF ToggleLike, TopTypeOK
  <1>2. TopTypeOK /\ UNCHANGED topVars => TopTypeOK'
    BY DEF TopTypeOK, topVars
  <1> QED
    BY <1>1, <1>2 DEF TopNext

\* The rows of one collection; there is one group for each collection that has
\* photospots.
GroupOf(c) == {row \in JoinedRows : row.c = c}

\* The joined rows, from either side.
LEMMA RowsAreJoined ==
  ASSUME TopTypeOK
  PROVE  /\ \A row \in JoinedRows :
              /\ row.c \in WithPhotospots
              /\ row.l \in OrNull(likers[row.c]) /\ row.k \in OrNull(topics[row.c])
         /\ \A c \in WithPhotospots : \A l \in OrNull(likers[c]), k \in OrNull(topics[c]) :
              \E row \in GroupOf(c) : row.l = l /\ row.k = k
  <1>1. ASSUME NEW row \in JoinedRows
        PROVE  /\ row.c \in WithPhotospots
               /\ row.l \in OrNull(likers[row.c]) /\ row.k \in OrNull(topics[row.c])
    <2>1. PICK c \in Candidates :
            row \in [c : {c}, l : OrNull(likers[c]), k : OrNull(topics[c]), p : 1 .. photospots[c]]
      BY DEF JoinedRows
    <2>2. row.c = c /\ row.l \in OrNull(likers[c]) /\ row.k \in OrNull(topics[c])
          /\ row.p \in 1 .. photospots[c]
      BY <2>1
    <2>3. photospots[c] > 0
      BY <2>2 DEF TopTypeOK
    <2> QED
      BY <2>2, <2>3 DEF WithPhotospots
  <1>2. ASSUME NEW c \in WithPhotospots, NEW l \in OrNull(likers[c]), NEW k \in OrNull(topics[c])
        PROVE  \E row \in GroupOf(c) : row.l = l /\ row.k = k
    <2> DEFINE row == [c |-> c, l |-> l, k |-> k, p |-> 1]
    <2>1. c \in Candidates /\ 1 \in 1 .. photospots[c]
      BY DEF WithPhotospots, TopTypeOK
    <2>2. row \in [c : {c}, l : OrNull(likers[c]), k : OrNull(topics[c]), p : 1 .. photospots[c]]
      BY <2>1
    <2>3. row \in JoinedRows
      BY <2>1, <2>2 DEF JoinedRows
    <2> QED
      BY <2>3 DEF GroupOf
  <1> QED
    BY <1>1, <1>2

\* What the query aggregates over one group: the users who like the collection
\* and its keywords, however often the joins repeat them.
LEMMA GroupsAggregate ==
  ASSUME TopTypeOK, NEW c \in WithPhotospots
  PROVE  /\ GroupOf(c) # {} /\ \A row \in GroupOf(c) : row.c = c
         /\ {row.l : row \in GroupOf(c)} \ {Null} = likers[c]
         /\ {row.k : row \in GroupOf(c)} \ {Null} = topics[c]
  <1>1. c \in Candidates /\ likers[c] \subseteq Viewers /\ topics[c] \subseteq Topics
        /\ Null \notin likers[c] /\ Null \notin topics[c]
    BY TopTablesAssumption DEF WithPhotospots, TopTypeOK
  <1>2. \A row \in GroupOf(c) :
          row.c = c /\ row.l \in OrNull(likers[c]) /\ row.k \in OrNull(topics[c])
    BY RowsAreJoined DEF GroupOf
  <1>3. \A l \in OrNull(likers[c]), k \in OrNull(topics[c]) :
          \E row \in GroupOf(c) : row.l = l /\ row.k = k
    BY RowsAreJoined
  <1>4. PICK l0 \in OrNull(likers[c]), k0 \in OrNull(topics[c]) : TRUE
    BY DEF OrNull
  <1>5. GroupOf(c) # {}
    BY <1>3, <1>4
  <1>6. {row.l : row \in GroupOf(c)} = OrNull(likers[c])
    BY <1>2, <1>3, <1>4
  <1>7. {row.k : row \in GroupOf(c)} = OrNull(topics[c])
    <2>1. \A k \in OrNull(topics[c]) : \E row \in GroupOf(c) : row.k = k
      BY <1>3, <1>4
    <2>2. \A row \in GroupOf(c) : row.k \in OrNull(topics[c])
      BY <1>2
    <2> QED
      BY <2>1, <2>2
  <1> QED
    BY <1>1, <1>2, <1>5, <1>6, <1>7 DEF OrNull

LEMMA OneGroupEach ==
  ASSUME TopTypeOK
  PROVE  /\ Groups = {GroupOf(c) : c \in WithPhotospots}
         /\ \A c, d \in WithPhotospots : GroupOf(c) = GroupOf(d) => c = d
  <1>1. {GroupKey(row) : row \in JoinedRows} = WithPhotospots
    <2>1. \A c \in WithPhotospots : \E row \in JoinedRows : row.c = c
      BY GroupsAggregate DEF GroupOf
    <2> QED
      BY <2>1, RowsAreJoined DEF GroupKey
  <1>2. Groups = {GroupOf(c) : c \in WithPhotospots}
    BY <1>1 DEF Groups, GroupOf, GroupKey
  <1>3. \A c, d \in WithPhotospots : GroupOf(c) = GroupOf(d) => c = d
    BY GroupsAggregate
  <1> QED
    BY <1>2, <1>3

\* A set of groups counts as many members as it shows collections.
LEMMA GroupsCount ==
  ASSUME TopTypeOK, NEW kept \in SUBSET Groups
  PROVE  Cardinality({c \in WithPhotospots : GroupOf(c) \in kept}) = Cardinality(kept)
  <1> DEFINE S == {c \in WithPhotospots : GroupOf(c) \in kept}
             f == [c \in S |-> GroupOf(c)]
  <1>1. IsFiniteSet(S)
    BY TopTablesAssumption, FS_Subset DEF WithPhotospots
  <1>2. f \in Bijection(S, kept)
    <2>1. f \in [S -> kept]
      OBVIOUS
    <2>2. \A c, d \in S : f[c] = f[d] => c = d
      BY OneGroupEach
    <2>3. \A g \in kept : \E c \in S : f[c] = g
      BY OneGroupEach
    <2> HIDE DEF f, S
    <2> QED
      BY <2>1, <2>2, <2>3 DEF Bijection, Injection, Surjection, IsInjective
  <1> HIDE DEF f, S
  <1>3. ExistsBijection(S, kept)
    BY <1>2 DEF ExistsBijection
  <1>4. Cardinality(kept) = Cardinality(S)
    BY <1>1, <1>3, FS_Bijection
  <1> QED
    BY <1>4 DEF S

\* SetToSeq lists every member once.
LEMMA SetToSeqLists ==
  ASSUME NEW S, IsFiniteSet(S)
  PROVE  /\ Cardinality(S) \in Nat
         /\ SetToSeq(S) \in Bijection(1 .. Cardinality(S), S)
         /\ Len(SetToSeq(S)) = Cardinality(S)
  <1> DEFINE n == Cardinality(S)
             s == SetToSeq(S)
  <1>1. n \in Nat /\ ExistsBijection(1 .. n, S)
    BY FS_CardinalityType
  <1>2. \E f \in [1 .. n -> S] : IsInjective(f)
    BY <1>1 DEF ExistsBijection, Bijection, Injection
  <1>3. s \in [1 .. n -> S] /\ IsInjective(s)
    BY <1>2 DEF SetToSeq
  <1>4. IsFiniteSet(1 .. n) /\ Cardinality(1 .. n) = n
    BY <1>1, FS_Interval
  <1> HIDE DEF n, s
  <1>5. s \in Injection(1 .. n, S)
    BY <1>3 DEF Injection
  <1>6. s \in Surjection(1 .. n, S)
    BY <1>4, <1>5, FS_Injection DEF n
  <1>7. s \in Bijection(1 .. n, S)
    BY <1>5, <1>6 DEF Bijection
  <1>8. Len(s) = n
    BY <1>1, <1>3
  <1> QED
    BY <1>1, <1>7, <1>8 DEF n, s

\* The split list has pieces of the collection's keywords only, and the keywords
\* themselves when they fit and none is cut at a comma.
LEMMA KeywordsComeBack ==
  ASSUME TopTypeOK, NEW c \in WithPhotospots
  PROVE  /\ \A k \in KeywordsShown(GroupOf(c)) : k[1] \in topics[c]
         /\ topics[c] \cap WithComma = {} /\ Cardinality(topics[c]) <= ConcatLimit =>
              KeywordsShown(GroupOf(c)) = topics[c] \X {"whole"}
  <1> DEFINE S == topics[c]
             n == Cardinality(S)
             s == SetToSeq(S)
             T == UNION {{s[i]} \X Pieces(s[i], i) : i \in 1 .. n}
  <1>1. IsFiniteSet(S)
    BY TopTablesAssumption, FS_Subset DEF WithPhotospots, TopTypeOK
  <1>2. n \in Nat /\ s \in Bijection(1 .. n, S) /\ Len(s) = n
    BY <1>1, SetToSeqLists
  <1>3. KeywordsShown(GroupOf(c)) = T
    <2>1. {row.k : row \in GroupOf(c)} \ {Null} = S
      BY GroupsAggregate
    <2>2. Len(SetToSeq({row.k : row \in GroupOf(c)} \ {Null})) = n
      BY <1>2, <2>1
    <2> HIDE DEF n
    <2> QED
      BY <2>1, <2>2 DEF KeywordsShown
  <1> HIDE DEF s, n, S
  <1>4. /\ s \in [1 .. n -> S]
        /\ \A k \in S : \E i \in 1 .. n : s[i] = k
    BY <1>2 DEF Bijection, Surjection
  <1>5. ASSUME NEW k \in T
        PROVE  k[1] \in S
    <2>1. PICK i \in 1 .. n : k \in {s[i]} \X Pieces(s[i], i)
      OBVIOUS
    <2> QED
      BY <1>4, <2>1
  <1>6. ASSUME S \cap WithComma = {}, n <= ConcatLimit
        PROVE  T = S \X {"whole"}
    <2>1. ASSUME NEW i \in 1 .. n
          PROVE  Pieces(s[i], i) = {"whole"}
      <3>1. s[i] \notin WithComma /\ i <= ConcatLimit
        BY <1>2, <1>4, <1>6, TopLimitAssumption
      <3>2. \A piece \in {"whole", "head", "tail"} : piece \in Pieces(s[i], i) <=> piece = "whole"
        BY <1>2, <3>1, TopLimitAssumption DEF Pieces
      <3>3. Pieces(s[i], i) \subseteq {"whole", "head", "tail"}
        BY DEF Pieces
      <3> QED
        BY <3>2, <3>3
    <2>2. T = UNION {{s[i]} \X {"whole"} : i \in 1 .. n}
      BY <2>1
    <2> HIDE DEF T
    <2>3. ASSUME NEW k \in T
          PROVE  k \in S \X {"whole"}
      BY <1>4, <2>2
    <2>4. ASSUME NEW k \in S \X {"whole"}
          PROVE  k \in T
      <3>1. PICK i \in 1 .. n : s[i] = k[1]
        BY <1>4
      <3>2. k \in {s[i]} \X {"whole"}
        BY <3>1
      <3> QED
        BY <2>2, <3>2
    <2> QED
      BY <2>3, <2>4
  <1> HIDE DEF T
  <1> QED
    BY <1>3, <1>5, <1>6 DEF n, S

\* The collections the list shows are those whose groups it keeps.
LEMMA ShownAreKept ==
  ASSUME TopTypeOK, NEW kept \in SUBSET Groups
  PROVE  /\ Shown(kept) = {c \in WithPhotospots : GroupOf(c) \in kept}
         /\ \A item \in getTopCollectionsListForMain(kept) :
              /\ item.id \in WithPhotospots /\ GroupOf(item.id) \in kept
              /\ item.likes = Cardinality(likers[item.id])
              /\ item.keywords = KeywordsShown(GroupOf(item.id))
  <1> DEFINE ItemOf(g) == [id |-> (CHOOSE row \in g : TRUE).c, likes |-> LikesIn(g),
                           keywords |-> KeywordsShown(g)]
  <1>1. ASSUME NEW g \in kept
        PROVE  \E c \in WithPhotospots :
                 /\ g = GroupOf(c) /\ ItemOf(g).id = c
                 /\ ItemOf(g).likes = Cardinality(likers[c])
                 /\ ItemOf(g).keywords = KeywordsShown(GroupOf(c))
    <2>1. PICK c \in WithPhotospots : g = GroupOf(c)
      BY OneGroupEach
    <2>2. (CHOOSE row \in g : TRUE).c = c
      BY <2>1, GroupsAggregate
    <2>3. LikesIn(g) = Cardinality(likers[c])
      BY <2>1, GroupsAggregate DEF LikesIn
    <2> QED
      BY <2>1, <2>2, <2>3
  <1>2. getTopCollectionsListForMain(kept) = {ItemOf(g) : g \in kept}
    BY DEF getTopCollectionsListForMain
  <1> HIDE DEF ItemOf
  <1>3. Shown(kept) = {ItemOf(g).id : g \in kept}
    BY <1>2 DEF Shown
  <1>4. Shown(kept) = {c \in WithPhotospots : GroupOf(c) \in kept}
    <2>1. \A c \in WithPhotospots : GroupOf(c) \in kept => ItemOf(GroupOf(c)).id = c
      BY <1>1, OneGroupEach
    <2> QED
      BY <1>1, <1>3, <2>1
  <1> QED
    BY <1>1, <1>2, <1>4

LEMMA TopTypeShowsMostLiked == TopTypeOK => MostLikedAreShown
  <1> SUFFICES ASSUME TopTypeOK, NEW kept \in Kept
               PROVE
        /\ Cardinality(Shown(kept)) = IF Cardinality(WithPhotospots) < Limit
                                      THEN Cardinality(WithPhotospots) ELSE Limit
        /\ \A item \in getTopCollectionsListForMain(kept) :
             /\ item.likes = Cardinality(likers[item.id])
             /\ \A k \in item.keywords : k[1] \in topics[item.id]
             /\ WholeIfTheyFit(item)
             /\ \A c \in WithPhotospots \ Shown(kept) : Cardinality(likers[c]) <= item.likes
    BY DEF MostLikedAreShown
  <1>1. /\ kept \in SUBSET Groups
        /\ Cardinality(kept) = IF Cardinality(Groups) < Limit THEN Cardinality(Groups) ELSE Limit
        /\ \A g \in kept, other \in Groups \ kept : LikesIn(g) >= LikesIn(other)
    BY DEF Kept
  <1>2. Cardinality(Groups) = Cardinality(WithPhotospots)
    <2>1. {c \in WithPhotospots : GroupOf(c) \in Groups} = WithPhotospots
      BY OneGroupEach
    <2> QED
      BY <2>1, GroupsCount
  <1>3. Cardinality(Shown(kept)) = Cardinality(kept)
    BY <1>1, GroupsCount, ShownAreKept
  <1>4. ASSUME NEW item \in getTopCollectionsListForMain(kept)
        PROVE  /\ item.likes = Cardinality(likers[item.id])
               /\ \A k \in item.keywords : k[1] \in topics[item.id]
               /\ WholeIfTheyFit(item)
               /\ \A c \in WithPhotospots \ Shown(kept) : Cardinality(likers[c]) <= item.likes
    <2>1. /\ item.id \in WithPhotospots /\ GroupOf(item.id) \in kept
          /\ item.likes = Cardinality(likers[item.id])
          /\ item.keywords = KeywordsShown(GroupOf(item.id))
      BY <1>1, ShownAreKept
    <2>2. /\ \A k \in item.keywords : k[1] \in topics[item.id]
          /\ WholeIfTheyFit(item)
      BY <2>1, KeywordsComeBack DEF WholeIfTheyFit
    <2>3. \A c \in WithPhotospots : LikesIn(GroupOf(c)) = Cardinality(likers[c])
      BY GroupsAggregate DEF LikesIn
    <2>4. ASSUME NEW c \in WithPhotospots \ Shown(kept)
          PROVE  Cardinality(likers[c]) <= item.likes
      <3>1. GroupOf(c) \in Groups \ kept
        BY <1>1, ShownAreKept, OneGroupEach
      <3>2. LikesIn(GroupOf(item.id)) >= LikesIn(GroupOf(c))
        BY <1>1, <2>1, <3>1
      <3> QED
        BY <2>1, <2>3, <3>2
    <2> QED
      BY <2>1, <2>2, <2>4
  <1> QED
    BY <1>1, <1>2, <1>3, <1>4

-----------------------------------------------------------------------------
\* The theorems.

\* The inductive invariants.  What a request takes for new is new, unless another
\* wrote keywords meanwhile (collections.service.ts, createCollection).
THEOREM CollectionInvariant == CollectionSpec => []CollectionInv
  BY CollectionInvInit, CollectionStep, PTL DEF CollectionSpec

\* Labels still to be found, about to be inserted and found already make up what
\* the task was told (photospot.service.ts).
THEOREM LabelInvariant == LabelSpec => []LabelInv
  BY LabelInvInit, LabelInvNext, PTL DEF LabelSpec

\* A request during which no other wrote keywords is turned away by the unique
\* column only for a keyword deleted with a collection, or for its own body: a
\* keyword named twice, or in another case (collections.service.ts,
\* createCollectionKeyword).
THEOREM RefusedForAReasonHolds == CollectionSpec => RefusedForAReason
  <1>1. CollectionInv /\ [CollectionNext]_collectionVars =>
          [\A r \in Requests : At(r, "insert") /\ edit'[r] = Idle =>
             RefusalHasAReason(r)]_collectionVars
    BY CollectionStep DEF Reasoned
  <1> QED
    BY <1>1, CollectionInvariant, PTL DEF CollectionSpec, RefusedForAReason

\* A finished photo has one row for each of its labels, and a recommended photo
\* is a similar one, however the tasks interleave (photospot.service.ts).
THEOREM LabelsAreKeptHolds == LabelSpec => []LabelsAreKept
  BY LabelInvariant, LabelInvKeepsLabels, PTL

\* Whatever is joined to the likes, the main page shows the collections with the
\* most of them, tells their number, and shows keywords of their own, uncut
\* unless a comma or the limit of GROUP_CONCAT cuts them (collections.repository.ts).
THEOREM MostLikedAreShownHolds == TopSpec => []MostLikedAreShown
  BY TopTypeInvariant, TopTypeNext, TopTypeShowsMostLiked, PTL DEF TopSpec

\* Types of the three components.
THEOREM CollectionsTypesCorrect == MCSpec => []TypesOK
  <1> DEFINE All == CollectionInv /\ LabelInv /\ TopTypeOK
  <1>1. MCInit => All
    BY CollectionInvInit, LabelInvInit, TopTypeInvariant DEF MCInit
  <1>2. All /\ [MCNext]_<<part, collectionVars, labelVars, topVars>> => All'
    <2>1. [MCNext]_<<part, collectionVars, labelVars, topVars>> =>
            /\ [CollectionNext]_collectionVars
            /\ [LabelNext]_labelVars
            /\ [TopNext]_topVars
      BY DEF MCNext
    <2> QED
      BY <2>1, CollectionStep, LabelInvNext, TopTypeNext
  <1>3. All => TypesOK
    BY DEF CollectionInv, LabelInv, TypesOK
  <1> QED
    BY <1>1, <1>2, <1>3, PTL DEF MCSpec
===============================================================================
