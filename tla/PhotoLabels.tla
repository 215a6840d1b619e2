----------------------------- MODULE PhotoLabels -----------------------------
(***************************************************************************)
(* The label tasks of several photos side by side, on the table of labels  *)
(* they share, and the recommendation of similar photos that reads it.     *)
(* The label of a row of photo_keyword is not unique; rows[i] is the label *)
(* of row i.  Every photo here is committed before its task looks for it   *)
(* (module Photospots has the tasks that come too early).                  *)
(***************************************************************************)
EXTENDS Integers, Sequences, FiniteSets

CONSTANTS Photos, Labels,
          NoLabel,          \* no label was looked for in vain
          RecommendLimit    \* 5 in the code

ASSUME NoLabelAssumption == NoLabel \notin Labels
ASSUME RecommendLimitAssumption == RecommendLimit \in Nat

VARIABLES rows,       \* table photo_keyword
          keywords,   \* the rows each photo is connected to
          labels,     \* the labels the image service found, when it has answered
          todo,       \* labels the task of a photo has still to look for
          missing,    \* the label it has found no row for
          ids,        \* the rows it has collected
          step        \* where the task is

task == <<labels, todo, missing, ids, step>>
labelVars == <<rows, keywords, task>>

LabelTypeOK ==
  /\ rows \in Seq(Labels)
  /\ keywords \in [Photos -> SUBSET (1 .. Len(rows))]
  /\ labels \in [Photos -> SUBSET Labels]
  /\ todo \in [Photos -> SUBSET Labels]
  /\ missing \in [Photos -> Labels \cup {NoLabel}]
  /\ ids \in [Photos -> SUBSET (1 .. Len(rows))]
  /\ step \in [Photos -> {"asked", "collect", "done"}]

LabelInit ==
  /\ rows = <<>>
  /\ keywords = [p \in Photos |-> {}]
  /\ labels = [p \in Photos |-> {}]
  /\ todo = [p \in Photos |-> {}]
  /\ missing = [p \in Photos |-> NoLabel]
  /\ ids = [p \in Photos |-> {}]
  /\ step = [p \in Photos |-> "asked"]

\* The labels without repetition; none when the service fails or finds none.
imageLabeling == SUBSET Labels

AskLabels(p) ==
  /\ step[p] = "asked"
  /\ step' = [step EXCEPT ![p] = "collect"]
  /\ \E found \in imageLabeling : /\ labels' = [labels EXCEPT ![p] = found]
                                  /\ todo' = [todo EXCEPT ![p] = found]
  /\ UNCHANGED <<rows, keywords, missing, ids>>

RowsOf(l) == {i \in 1 .. Len(rows) : rows[i] = l}

\* findOne returns some row of the label, when there is one.
FindKeyword(p, l) ==
  /\ step[p] = "collect" /\ missing[p] = NoLabel /\ l \in todo[p]
  /\ todo' = [todo EXCEPT ![p] = @ \ {l}]
  /\ IF RowsOf(l) = {}
     THEN missing' = [missing EXCEPT ![p] = l] /\ UNCHANGED ids
     ELSE \E i \in RowsOf(l) : ids' = [ids EXCEPT ![p] = @ \cup {i}] /\ UNCHANGED missing
  /\ UNCHANGED <<rows, keywords, labels, step>>

\* (mutant) The number of the row after the new one is kept.
SaveKeywordAhead(p) ==
  /\ missing[p] # NoLabel
  /\ rows' = Append(rows, missing[p])
  /\ ids' = [ids EXCEPT ![p] = @ \cup {Len(rows') + 1}]
  /\ missing' = [missing EXCEPT ![p] = NoLabel]
  /\ UNCHANGED <<keywords, labels, todo, step>>

\* (mutant) A label that was missing is not inserted.
SaveKeywordNever(p) ==
  /\ missing[p] # NoLabel
  /\ missing' = [missing EXCEPT ![p] = NoLabel]
  /\ UNCHANGED <<rows, ids, keywords, labels, todo, step>>

SaveKeyword(p) ==
  /\ missing[p] # NoLabel
  /\ rows' = Append(rows, missing[p])
  /\ ids' = [ids EXCEPT ![p] = @ \cup {Len(rows')}]
  /\ missing' = [missing EXCEPT ![p] = NoLabel]
  /\ UNCHANGED <<keywords, labels, todo, step>>

AttachKeywords(p) ==
  /\ step[p] = "collect" /\ missing[p] = NoLabel /\ todo[p] = {}
  /\ keywords' = [keywords EXCEPT ![p] = ids[p]]
  /\ step' = [step EXCEPT ![p] = "done"]
  /\ UNCHANGED <<rows, labels, todo, missing, ids>>

LabelNext == \E p \in Photos :
  \/ AskLabels(p) \/ SaveKeyword(p) \/ AttachKeywords(p)
  \/ \E l \in Labels : FindKeyword(p, l)

LabelSpec == LabelInit /\ [][LabelNext]_labelVars

-----------------------------------------------------------------------------
\* Photos that share a row with p; a photo that has none leaves the query
\* without a list to compare with.
Sharing(p) == {q \in Photos \ {p} : keywords[q] \cap keywords[p] # {}}

\* The answers of getRecommendPhoto: the photos that share the most rows.
getRecommendPhoto(p) ==
  LET score(q) == Cardinality(keywords[q] \cap keywords[p])
  IN {answer \in SUBSET Sharing(p) :
        /\ Cardinality(answer) = IF Cardinality(Sharing(p)) < RecommendLimit
                                 THEN Cardinality(Sharing(p)) ELSE RecommendLimit
        /\ \A q \in answer, o \in Sharing(p) \ answer : score(q) >= score(o)}

Done(p) == step[p] = "done"

\* However many tasks insert the same label meanwhile, a finished photo has one
\* row for each of its labels, so that a recommended photo is a similar one: it
\* was given a label that the photo was given too.
LabelsAreKept ==
  /\ \A p \in Photos : Done(p) => {rows[i] : i \in keywords[p]} = labels[p]
  /\ \A p \in Photos : \A answer \in getRecommendPhoto(p) : \A q \in answer :
       labels[p] \cap labels[q] # {}
=============================================================================
