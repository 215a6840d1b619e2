--------------------------- MODULE Photospots_proofs ---------------------------
(***************************************************************************)
(* Proofs about Photospots, for any number of uploads, photospots and      *)
(* photos: no listing names an image that is not in the bucket, and no     *)
(* unsafe photo is forgotten.                                              *)
(*                                                                         *)
(* Both hold because of what a label task may save.  It saves the row it   *)
(* has read some time ago, whatever became of it, so that the invariant    *)
(* follows a photo from the file of an upload (FilesAreNew) to the row its *)
(* transaction has not yet committed (InsertedAreHidden) and the row the   *)
(* task has read (FoundIsTrue), and says that no photo is on two of these  *)
(* ways at once (UploadsApart).                                            *)
(***************************************************************************)
EXTENDS MCPhotospots, TLAPS

\* The transaction in progress of an upload.
Underway(r) == upload[r] # NoUpload

\* No file is sent with two uploads.
UploadsApart ==
  \A r, q \in Uploads :
    Underway(r) /\ Underway(q) /\ r # q =>
      /\ upload[r].files \cap upload[q].files = {}
      /\ upload[r].ins \cap upload[q].ins = {}

\* A file that waits for its turn has no label task, and a photo without one has
\* neither a row nor anything to save.
FilesAreNew ==
  /\ \A r \in Uploads : Underway(r) => \A p \in upload[r].files : labelling[p] = "none"
  /\ \A p \in Photos : labelling[p] = "none" => photo[p] = NoSpot /\ found[p] = NoSpot

\* A row that is not committed is one nobody has found.
InsertedAreHidden ==
  \A r \in Uploads : Underway(r) => \A p \in upload[r].ins :
    /\ p \in stored /\ labelling[p] # "none"
    /\ photo[p] = NoSpot /\ found[p] = NoSpot

\* The row a label task will save is the row of its photo, or that of a photo
\* deleted since.
FoundIsTrue ==
  \A p \in Photos : found[p] # NoSpot => /\ p \in stored
                                         /\ photo[p] \in {found[p], NoSpot}

RowsInv == UploadsApart /\ FilesAreNew /\ InsertedAreHidden /\ FoundIsTrue /\ ListedIsStored

IInv == RowsInv /\ Attended

-----------------------------------------------------------------------------
\* Types.

LEMMA UploadIsTyped ==
  ASSUME PhotoTypeOK, NEW r \in Uploads, Underway(r)
  PROVE  upload[r] \in UploadCalls
  BY DEF PhotoTypeOK, Underway

LEMMA RequestTyped ==
  ASSUME requests \in 0 .. MaxRequests, Request
  PROVE  requests' \in 0 .. MaxRequests
  BY MaxRequestsAssumption DEF Request

LEMMA TypeInit == PhotoInit => PhotoTypeOK
  <1> SUFFICES ASSUME PhotoInit
               PROVE  PhotoTypeOK
    OBVIOUS
  <1>1. PICK s \in Spots, old \in SUBSET (Photos \ Doubtful) :
            /\ spot = [t \in Spots |-> IF t = s /\ old # {} THEN "live" ELSE "absent"]
            /\ photo = [p \in Photos |-> IF p \in old THEN s ELSE NoSpot]
            /\ labelling = [p \in Photos |-> IF p \in old THEN "done" ELSE "none"]
            /\ stored = old /\ labelled = old
    BY DEF PhotoInit
  <1>2. /\ spot \in [Spots -> {"absent", "live", "deleted"}]
        /\ photo \in [Photos -> Spots \cup {NoSpot}]
        /\ labelling \in [Photos -> {"none", "asked", "done"}]
        /\ stored \subseteq Photos /\ labelled \subseteq Photos
    BY <1>1
  <1> QED
    <2>1. /\ unsafe \subseteq Doubtful /\ collection = "live"
          /\ told = {} /\ returned = {} /\ without = {}
          /\ upload = [r \in Uploads |-> NoUpload]
          /\ found = [p \in Photos |-> NoSpot]
          /\ toCheck = {} /\ checks = {} /\ sent = {}
          /\ crashed = FALSE /\ requests \in 0 .. MaxRequests
      BY MaxRequestsAssumption DEF PhotoInit
    <2> QED
      BY <1>2, <2>1 DEF PhotoTypeOK

LEMMA StartTyped ==
  ASSUME PhotoTypeOK, NEW r \in Uploads, NEW op \in {"create", "modify"},
         NEW step \in {"read", "open"}, NEW s \in Spots, NEW files \in SUBSET Photos,
         Start(r, op, step, s, files)
  PROVE  PhotoTypeOK'
  <1>1. [op |-> op, step |-> step, spot |-> s, files |-> files, ins |-> {}] \in UploadCalls
    BY DEF UploadCalls
  <1> QED
    BY <1>1, RequestTyped DEF Start, tables, tasks, PhotoTypeOK

LEMMA ModifyBeginTyped ==
  ASSUME PhotoTypeOK, NEW r \in Uploads, ModifyBegin(r)
  PROVE  PhotoTypeOK'
  <1>1. [upload[r] EXCEPT !.step = "open"] \in UploadCalls
    BY UploadIsTyped DEF ModifyBegin, Underway, UploadCalls
  <1> QED
    BY <1>1 DEF ModifyBegin, tables, tasks, outside, PhotoTypeOK

LEMMA AddFileTyped ==
  ASSUME PhotoTypeOK, NEW r \in Uploads, NEW p \in Photos, AddFile(r, p)
  PROVE  PhotoTypeOK'
  <1> DEFINE new == [upload[r] EXCEPT !.files = @ \ {p}, !.ins = @ \cup {p}]
  <1>1. new \in UploadCalls
    BY UploadIsTyped DEF AddFile, Underway, UploadCalls
  <1>2. upload' = [upload EXCEPT ![r] = new]
    BY DEF AddFile
  <1> HIDE DEF new
  <1> QED
    BY <1>1, <1>2 DEF AddFile, tables, outside, PhotoTypeOK

LEMMA CommitTyped ==
  ASSUME PhotoTypeOK, NEW r \in Uploads, Commit(r)
  PROVE  PhotoTypeOK'
  <1>1. upload[r] \in UploadCalls
    BY UploadIsTyped DEF Commit, Underway
  <1>2. upload[r].spot \in Spots
    BY <1>1 DEF UploadCalls
  <1>3. spot' \in [Spots -> {"absent", "live", "deleted"}]
    BY <1>2 DEF Commit, PhotoTypeOK
  <1>4. photo' \in [Photos -> Spots \cup {NoSpot}]
    BY <1>2 DEF Commit, PhotoTypeOK
  <1>5. toCheck' \subseteq Spots
    BY <1>2 DEF Commit, PhotoTypeOK
  <1> QED
    BY <1>3, <1>4, <1>5 DEF Commit, outside, PhotoTypeOK

LEMMA RollbackTyped ==
  ASSUME PhotoTypeOK, NEW r \in Uploads, Rollback(r)
  PROVE  PhotoTypeOK'
  <1>1. upload[r].files \subseteq Photos
    BY UploadIsTyped DEF Rollback, Underway, UploadCalls
  <1> QED
    BY <1>1 DEF Rollback, tables, tasks, outside, PhotoTypeOK

LEMMA DeletePhotospotTyped ==
  ASSUME PhotoTypeOK, NEW s \in Spots, DeletePhotospot(s)
  PROVE  PhotoTypeOK'
  <1>1. {<<"softRemove", s>>, <<"deletePhotos", s>>} \subseteq Statements
    BY DEF Statements
  <1> QED
    BY <1>1, RequestTyped DEF DeletePhotospot, Send, PhotosOf, tables, PhotoTypeOK

LEMMA DeleteCollectionTyped ==
  ASSUME PhotoTypeOK, DeleteCollection
  PROVE  PhotoTypeOK'
  <1>1. {<<"cascade", Live>>} \cup {<<"deletePhotos", s>> : s \in Live} \subseteq Statements
    BY DEF Statements, Live
  <1> QED
    BY <1>1, RequestTyped DEF DeleteCollection, Send, tables, PhotoTypeOK

LEMMA SoftDeleteTyped ==
  ASSUME PhotoTypeOK, NEW c \in {"live", "deleted"}, NEW gone, SoftDelete(c, gone)
  PROVE  /\ collection' \in {"live", "deleted"}
         /\ spot' \in [Spots -> {"absent", "live", "deleted"}]
  BY DEF SoftDelete, PhotoTypeOK

LEMMA DeleteAdminTyped ==
  ASSUME PhotoTypeOK, DeleteAdminCollection \/ \E s \in Spots : DeleteAdminPhotospot(s)
  PROVE  PhotoTypeOK'
  <1>1. /\ collection' \in {"live", "deleted"}
        /\ spot' \in [Spots -> {"absent", "live", "deleted"}]
    BY SoftDeleteTyped DEF DeleteAdminCollection, DeleteAdminPhotospot, PhotoTypeOK
  <1> QED
    BY <1>1, RequestTyped DEF DeleteAdminCollection, DeleteAdminPhotospot, tasks, PhotoTypeOK

LEMMA ExecuteTyped ==
  ASSUME PhotoTypeOK, Execute
  PROVE  PhotoTypeOK'
  <1>1. PICK st \in sent : SoftRemovePhotospot(st) \/ SoftRemoveCollection(st) \/ DeletePhotos(st)
    BY DEF Execute
  <1>2. Executed(st)
    BY <1>1 DEF SoftRemovePhotospot, SoftRemoveCollection, DeletePhotos
  <1>3. /\ collection' \in {"live", "deleted"}
        /\ spot' \in [Spots -> {"absent", "live", "deleted"}]
    BY <1>1, SoftDeleteTyped
       DEF SoftRemovePhotospot, SoftRemoveCollection, DeletePhotos, PhotoTypeOK
  <1>4. photo' \in [Photos -> Spots \cup {NoSpot}]
    BY <1>1 DEF SoftRemovePhotospot, SoftRemoveCollection, DeletePhotos, PhotoTypeOK
  <1> QED
    BY <1>2, <1>3, <1>4 DEF Executed, outside, PhotoTypeOK

LEMMA LabelTaskTyped ==
  ASSUME PhotoTypeOK, NEW p \in Photos, FindLabelled(p) \/ SaveLabelled(p)
  PROVE  PhotoTypeOK'
  <1>1. CASE FindLabelled(p)
    BY <1>1 DEF FindLabelled, tables, PhotoTypeOK
  <1>2. CASE SaveLabelled(p)
    BY <1>2 DEF SaveLabelled, PhotoTypeOK
  <1> QED
    BY <1>1, <1>2

LEMMA CheckPhotospotTyped ==
  ASSUME PhotoTypeOK, NEW s \in Spots, CheckPhotospot(s)
  PROVE  PhotoTypeOK'
  <1>1. [photo : PhotosOf(s), spot : {s}, alone : {Cardinality(PhotosOf(s)) = 1}]
          \subseteq [photo : Photos, spot : Spots, alone : BOOLEAN]
    BY DEF PhotosOf
  <1> QED
    BY <1>1 DEF CheckPhotospot, tables, outside, PhotoTypeOK

LEMMA CheckPhotoTyped ==
  ASSUME PhotoTypeOK, NEW c \in checks, CheckPhoto(c)
  PROVE  PhotoTypeOK'
  <1>1. c.photo \in Photos /\ c.spot \in Spots
    BY DEF PhotoTypeOK
  <1>2. Removals(c) \subseteq Statements
    BY <1>1 DEF Removals, Statements
  <1> QED
    BY <1>2 DEF CheckPhoto, tables, outside, PhotoTypeOK

LEMMA DiesTyped ==
  ASSUME PhotoTypeOK, Dies
  PROVE  PhotoTypeOK'
  BY DEF Dies, tables, PhotoTypeOK

LEMMA TypeNext == PhotoTypeOK /\ [PhotoNext]_photoVars => PhotoTypeOK'
  <1> SUFFICES ASSUME PhotoTypeOK, [PhotoNext]_photoVars
               PROVE  PhotoTypeOK'
    OBVIOUS
  <1>1. ASSUME NEW r \in Uploads, NEW s \in Spots, NEW files \in FileValidation("create"),
               CreatePhotospot(r, s, files)
        PROVE  PhotoTypeOK'
    <2>1. files \in SUBSET Photos
      BY DEF FileValidation, NewFiles
    <2> QED
      BY <1>1, <2>1, StartTyped DEF CreatePhotospot
  <1>2. ASSUME NEW r \in Uploads, NEW s \in Spots, NEW files \in FileValidation("modify"),
               ModifyPhotospot(r, s, files)
        PROVE  PhotoTypeOK'
    <2>1. files \in SUBSET Photos
      BY DEF FileValidation, NewFiles
    <2> QED
      BY <1>2, <2>1, StartTyped DEF ModifyPhotospot
  <1>3. ASSUME NEW r \in Uploads, UploadProgress(r)
        PROVE  PhotoTypeOK'
    BY <1>3, ModifyBeginTyped, AddFileTyped, CommitTyped, RollbackTyped DEF UploadProgress
  <1>4. CASE CheckRejected \/ ImageServiceFails \/ StatementFails
    BY <1>4, DiesTyped DEF CheckRejected, ImageServiceFails, StatementFails
  <1>5. CASE UNCHANGED photoVars
    BY <1>5 DEF photoVars, tables, tasks, outside, PhotoTypeOK
  <1> QED
    BY <1>1, <1>2, <1>3, <1>4, <1>5, DeletePhotospotTyped, DeleteCollectionTyped,
       DeleteAdminTyped, ExecuteTyped, LabelTaskTyped, CheckPhotospotTyped, CheckPhotoTyped
    DEF PhotoNext

-----------------------------------------------------------------------------
\* The way of a photo, from the file of an upload to a row.

LEMMA RowsInit == PhotoInit => IInv
  <1> SUFFICES ASSUME PhotoInit
               PROVE  IInv
    OBVIOUS
  <1>1. /\ \A r \in Uploads : ~Underway(r)
        /\ \A p \in Photos : /\ found[p] = NoSpot
                             /\ labelling[p] = "none" => photo[p] = NoSpot
                             /\ photo[p] # NoSpot => p \in stored
        /\ \A p \in unsafe : p \in Photos /\ photo[p] = NoSpot
    <2>1. PICK s \in Spots, old \in SUBSET (Photos \ Doubtful) :
              /\ spot = [t \in Spots |-> IF t = s /\ old # {} THEN "live" ELSE "absent"]
              /\ photo = [p \in Photos |-> IF p \in old THEN s ELSE NoSpot]
              /\ labelling = [p \in Photos |-> IF p \in old THEN "done" ELSE "none"]
              /\ stored = old /\ labelled = old
      BY DEF PhotoInit
    <2>2. \A p \in Photos : /\ labelling[p] = "none" => photo[p] = NoSpot
                            /\ photo[p] # NoSpot => p \in stored
                            /\ p \in Doubtful => photo[p] = NoSpot
      BY <2>1
    <2> QED
      BY <2>2, DoubtfulAssumption DEF PhotoInit, Underway
  <1>2. UploadsApart /\ InsertedAreHidden
    BY <1>1 DEF UploadsApart, InsertedAreHidden
  <1>3. FilesAreNew
    BY <1>1 DEF FilesAreNew
  <1>4. FoundIsTrue /\ ListedIsStored
    BY <1>1 DEF FoundIsTrue, ListedIsStored
  <1> QED
    BY <1>1, <1>2, <1>3, <1>4 DEF IInv, RowsInv, Attended

\* Whoever takes rows away, or nothing, is harmless.
LEMMA RemovingKeepsRows ==
  ASSUME PhotoTypeOK, RowsInv, UNCHANGED <<stored, upload, labelling, found>>,
         \A p \in Photos : photo'[p] \in {photo[p], NoSpot}
  PROVE  RowsInv'
  <1>1. UploadsApart' /\ FilesAreNew'
    BY DEF RowsInv, UploadsApart, FilesAreNew, Underway
  <1>2. InsertedAreHidden'
    <2>1. \A r \in Uploads : Underway(r) => upload[r].ins \subseteq Photos
      BY UploadIsTyped DEF UploadCalls
    <2> QED
      BY <2>1 DEF RowsInv, InsertedAreHidden, Underway
  <1>3. FoundIsTrue' /\ ListedIsStored'
    BY DEF RowsInv, FoundIsTrue, ListedIsStored
  <1> QED
    BY <1>1, <1>2, <1>3 DEF RowsInv

\* Nor is an upload that ends without a commit, or the end of all of them.
LEMMA EndingKeepsRows ==
  ASSUME PhotoTypeOK, RowsInv, UNCHANGED <<photo, labelling, found>>,
         stored \subseteq stored',
         \A r \in Uploads : upload'[r] \in {upload[r], NoUpload}
  PROVE  RowsInv'
  <1>1. \A r \in Uploads : Underway(r)' => Underway(r) /\ upload'[r] = upload[r]
    BY DEF Underway
  <1>2. UploadsApart' /\ FilesAreNew' /\ InsertedAreHidden'
    BY <1>1 DEF RowsInv, UploadsApart, FilesAreNew, InsertedAreHidden
  <1> QED
    BY <1>2 DEF RowsInv, FoundIsTrue, ListedIsStored

LEMMA StartKeepsRows ==
  ASSUME PhotoTypeOK, RowsInv, NEW r \in Uploads, NEW op, NEW step, NEW s \in Spots,
         NEW files \in SUBSET NewFiles, Start(r, op, step, s, files)
  PROVE  RowsInv'
  <1>1. /\ upload'[r].files = files /\ upload'[r].ins = {}
        /\ \A q \in Uploads : q # r => upload'[q] = upload[q]
        /\ UNCHANGED <<photo, stored, labelling, found>>
    BY DEF Start, tables, tasks, PhotoTypeOK
  <1>2. \A p \in files : labelling[p] = "none"
    BY DEF NewFiles
  <1>3. \A q \in Uploads : Underway(q) => upload[q].files \cap files = {}
    BY DEF NewFiles, Underway
  <1>4. UploadsApart'
    BY <1>1, <1>3 DEF RowsInv, UploadsApart, Underway
  <1>5. FilesAreNew'
    BY <1>1, <1>2 DEF RowsInv, FilesAreNew, Underway
  <1>6. InsertedAreHidden'
    BY <1>1 DEF RowsInv, InsertedAreHidden, Underway
  <1> QED
    BY <1>1, <1>4, <1>5, <1>6 DEF RowsInv, FoundIsTrue, ListedIsStored

LEMMA ModifyBeginKeepsRows ==
  ASSUME PhotoTypeOK, RowsInv, NEW r \in Uploads, ModifyBegin(r)
  PROVE  RowsInv'
  <1>1. /\ Underway(r) /\ upload'[r].files = upload[r].files /\ upload'[r].ins = upload[r].ins
        /\ \A q \in Uploads : q # r => upload'[q] = upload[q]
        /\ UNCHANGED <<photo, stored, labelling, found>>
    BY UploadIsTyped DEF ModifyBegin, Underway, UploadCalls, tables, tasks, PhotoTypeOK
  <1>2. UploadsApart' /\ FilesAreNew' /\ InsertedAreHidden'
    BY <1>1 DEF RowsInv, UploadsApart, FilesAreNew, InsertedAreHidden, Underway
  <1> QED
    BY <1>1, <1>2 DEF RowsInv, FoundIsTrue, ListedIsStored

LEMMA AddFileKeepsRows ==
  ASSUME PhotoTypeOK, RowsInv, NEW r \in Uploads, NEW p \in Photos, AddFile(r, p)
  PROVE  RowsInv'
  <1>1. /\ Underway(r) /\ p \in upload[r].files
        /\ upload'[r].files = upload[r].files \ {p}
        /\ upload'[r].ins = upload[r].ins \cup {p}
        /\ \A q \in Uploads : q # r => upload'[q] = upload[q]
    BY UploadIsTyped DEF AddFile, Underway, UploadCalls, PhotoTypeOK
  <1>2. /\ labelling'[p] = "asked" /\ stored' = stored \cup {p}
        /\ \A o \in Photos : o # p => labelling'[o] = labelling[o]
        /\ UNCHANGED <<photo, found>>
    BY DEF AddFile, tables, PhotoTypeOK
  <1>3. labelling[p] = "none" /\ photo[p] = NoSpot /\ found[p] = NoSpot
    BY <1>1 DEF RowsInv, FilesAreNew
  <1>4. \A q \in Uploads : Underway(q) => /\ p \notin upload[q].ins
                                          /\ q # r => p \notin upload[q].files
    BY <1>1, <1>3 DEF RowsInv, InsertedAreHidden, UploadsApart
  <1>5. \A q \in Uploads : Underway(q)' => Underway(q)
    BY <1>1 DEF Underway
  <1>6. \A q \in Uploads : Underway(q) => /\ upload[q].files \subseteq Photos
                                          /\ upload[q].ins \subseteq Photos
    BY UploadIsTyped DEF UploadCalls
  <1>7. UploadsApart'
    BY <1>1, <1>4, <1>5 DEF RowsInv, UploadsApart
  <1>8. FilesAreNew'
    <2>1. \A q \in Uploads : Underway(q)' => \A o \in upload'[q].files : labelling'[o] = "none"
      BY <1>1, <1>2, <1>4, <1>5, <1>6 DEF RowsInv, FilesAreNew
    <2>2. \A o \in Photos : labelling'[o] = "none" => photo'[o] = NoSpot /\ found'[o] = NoSpot
      BY <1>2 DEF RowsInv, FilesAreNew
    <2> QED
      BY <2>1, <2>2 DEF FilesAreNew
  <1>9. InsertedAreHidden'
    BY <1>1, <1>2, <1>3, <1>5, <1>6 DEF RowsInv, InsertedAreHidden
  <1> QED
    BY <1>2, <1>7, <1>8, <1>9 DEF RowsInv, FoundIsTrue, ListedIsStored

LEMMA CommitKeepsRows ==
  ASSUME PhotoTypeOK, RowsInv, NEW r \in Uploads, Commit(r)
  PROVE  RowsInv'
  <1>1. /\ Underway(r) /\ upload'[r] = NoUpload
        /\ \A q \in Uploads : q # r => upload'[q] = upload[q]
        /\ UNCHANGED <<stored, labelling, found>>
    BY DEF Commit, Underway, PhotoTypeOK
  <1>2. \A p \in Photos : p \notin upload[r].ins => photo'[p] \in {photo[p], NoSpot}
    BY DEF Commit
  <1>3. \A p \in upload[r].ins : p \in stored /\ labelling[p] # "none" /\ found[p] = NoSpot
    BY <1>1 DEF RowsInv, InsertedAreHidden
  <1>4. \A q \in Uploads : Underway(q)' => /\ q # r /\ Underway(q) /\ upload'[q] = upload[q]
                                           /\ upload[q].ins \cap upload[r].ins = {}
    BY <1>1 DEF RowsInv, UploadsApart, Underway
  <1>5. UploadsApart'
    BY <1>4 DEF RowsInv, UploadsApart
  <1>6. FilesAreNew'
    BY <1>1, <1>2, <1>3, <1>4 DEF RowsInv, FilesAreNew
  <1>7. InsertedAreHidden'
    <2>1. \A q \in Uploads : Underway(q) => upload[q].ins \subseteq Photos
      BY UploadIsTyped DEF UploadCalls
    <2> QED
      BY <1>1, <1>2, <1>4, <2>1 DEF RowsInv, InsertedAreHidden
  <1>8. FoundIsTrue' /\ ListedIsStored'
    BY <1>1, <1>2, <1>3 DEF RowsInv, FoundIsTrue, ListedIsStored
  <1> QED
    BY <1>5, <1>6, <1>7, <1>8 DEF RowsInv

LEMMA FindLabelledKeepsRows ==
  ASSUME PhotoTypeOK, RowsInv, NEW p \in Photos, FindLabelled(p)
  PROVE  RowsInv'
  <1>1. /\ labelling[p] = "asked" /\ labelling'[p] = "done" /\ found'[p] = photo[p]
        /\ \A o \in Photos : o # p => labelling'[o] = labelling[o] /\ found'[o] = found[o]
        /\ UNCHANGED <<photo, stored, upload>>
    BY DEF FindLabelled, tables, PhotoTypeOK
  <1>2. \A q \in Uploads : Underway(q) => /\ upload[q].files \subseteq Photos
                                          /\ upload[q].ins \subseteq Photos
    BY UploadIsTyped DEF UploadCalls
  <1>3. UploadsApart'
    BY <1>1 DEF RowsInv, UploadsApart, Underway
  <1>4. FilesAreNew'
    BY <1>1, <1>2 DEF RowsInv, FilesAreNew, Underway
  <1>5. InsertedAreHidden'
    BY <1>1, <1>2 DEF RowsInv, InsertedAreHidden, Underway
  <1>6. FoundIsTrue' /\ ListedIsStored'
    BY <1>1 DEF RowsInv, FoundIsTrue, ListedIsStored
  <1> QED
    BY <1>3, <1>4, <1>5, <1>6 DEF RowsInv

LEMMA SaveLabelledKeepsRows ==
  ASSUME PhotoTypeOK, RowsInv, NEW p \in Photos, SaveLabelled(p)
  PROVE  RowsInv'
  <1>1. /\ found[p] # NoSpot /\ found'[p] = NoSpot /\ photo'[p] = found[p]
        /\ \A o \in Photos : o # p => photo'[o] = photo[o] /\ found'[o] = found[o]
        /\ UNCHANGED <<stored, upload, labelling>>
    BY DEF SaveLabelled, PhotoTypeOK
  <1>2. /\ p \in stored /\ labelling[p] # "none"
        /\ \A q \in Uploads : Underway(q) => p \notin upload[q].ins
    BY <1>1 DEF RowsInv, FoundIsTrue, FilesAreNew, InsertedAreHidden
  <1>3. \A q \in Uploads : Underway(q) => upload[q].ins \subseteq Photos
    BY UploadIsTyped DEF UploadCalls
  <1>4. UploadsApart'
    BY <1>1 DEF RowsInv, UploadsApart, Underway
  <1>5. FilesAreNew'
    BY <1>1, <1>2 DEF RowsInv, FilesAreNew, Underway
  <1>6. InsertedAreHidden'
    BY <1>1, <1>2, <1>3 DEF RowsInv, InsertedAreHidden, Underway
  <1>7. FoundIsTrue' /\ ListedIsStored'
    BY <1>1, <1>2 DEF RowsInv, FoundIsTrue, ListedIsStored
  <1> QED
    BY <1>4, <1>5, <1>6, <1>7 DEF RowsInv

LEMMA DiesKeepsRows ==
  ASSUME PhotoTypeOK, RowsInv, Dies
  PROVE  RowsInv'
  <1>1. /\ \A r \in Uploads : ~Underway(r)'
        /\ \A p \in Photos : found'[p] = NoSpot /\ (labelling'[p] = "none" => labelling[p] = "none")
        /\ UNCHANGED <<photo, stored>>
    BY DEF Dies, tables, Underway
  <1>2. UploadsApart' /\ FilesAreNew' /\ InsertedAreHidden'
    BY <1>1 DEF RowsInv, UploadsApart, FilesAreNew, InsertedAreHidden
  <1> QED
    BY <1>1, <1>2 DEF RowsInv, FoundIsTrue, ListedIsStored

LEMMA RowsNext == PhotoTypeOK /\ RowsInv /\ [PhotoNext]_photoVars => RowsInv'
  <1> SUFFICES ASSUME PhotoTypeOK, RowsInv, [PhotoNext]_photoVars
               PROVE  RowsInv'
    OBVIOUS
  <1>1. ASSUME NEW r \in Uploads, NEW s \in Spots, NEW op \in {"create", "modify"},
               NEW files \in FileValidation(op),
               CreatePhotospot(r, s, files) \/ ModifyPhotospot(r, s, files)
        PROVE  RowsInv'
    <2>1. files \in SUBSET NewFiles
      BY DEF FileValidation
    <2> QED
      BY <1>1, <2>1, StartKeepsRows DEF CreatePhotospot, ModifyPhotospot
  <1>2. ASSUME NEW r \in Uploads, UploadProgress(r)
        PROVE  RowsInv'
    <2>1. CASE Rollback(r)
      <3>1. /\ stored \subseteq stored' /\ UNCHANGED <<photo, labelling, found>>
            /\ \A q \in Uploads : upload'[q] \in {upload[q], NoUpload}
        BY <2>1 DEF Rollback, tables, tasks, PhotoTypeOK
      <3> QED
        BY <3>1, EndingKeepsRows
    <2> QED
      BY <1>2, <2>1, ModifyBeginKeepsRows, AddFileKeepsRows, CommitKeepsRows
      DEF UploadProgress
  <1>3. ASSUME NEW s \in Spots, DeletePhotospot(s) \/ DeleteAdminPhotospot(s) \/ CheckPhotospot(s)
        PROVE  RowsInv'
    <2>1. UNCHANGED <<photo, stored, upload, labelling, found>>
      BY <1>3 DEF DeletePhotospot, DeleteAdminPhotospot, CheckPhotospot, Send, tables, tasks
    <2> QED
      BY <2>1, RemovingKeepsRows
  <1>4. CASE DeleteCollection \/ DeleteAdminCollection \/ \E c \in checks : CheckPhoto(c)
    <2>1. UNCHANGED <<photo, stored, upload, labelling, found>>
      BY <1>4 DEF DeleteCollection, DeleteAdminCollection, CheckPhoto, Send, tables, tasks
    <2> QED
      BY <2>1, RemovingKeepsRows
  <1>5. CASE Execute
    <2>1. PICK st \in sent : SoftRemovePhotospot(st) \/ SoftRemoveCollection(st) \/ DeletePhotos(st)
      BY <1>5 DEF Execute
    <2>2. UNCHANGED <<stored, upload, labelling, found>>
      BY <2>1 DEF SoftRemovePhotospot, SoftRemoveCollection, DeletePhotos, Executed
    <2>3. \A p \in Photos : photo'[p] \in {photo[p], NoSpot}
      BY <2>1 DEF SoftRemovePhotospot, SoftRemoveCollection, DeletePhotos, PhotoTypeOK
    <2> QED
      BY <2>2, <2>3, RemovingKeepsRows
  <1>6. ASSUME NEW p \in Photos, FindLabelled(p) \/ SaveLabelled(p)
        PROVE  RowsInv'
    BY <1>6, FindLabelledKeepsRows, SaveLabelledKeepsRows
  <1>7. CASE CheckRejected \/ ImageServiceFails \/ StatementFails
    BY <1>7, DiesKeepsRows DEF CheckRejected, ImageServiceFails, StatementFails
  <1>8. CASE UNCHANGED photoVars
    <2>1. UNCHANGED <<photo, stored, upload, labelling, found>>
      BY <1>8 DEF photoVars, tables, tasks
    <2> QED
      BY <2>1, RemovingKeepsRows
  <1> QED
    BY <1>1, <1>2, <1>3, <1>4, <1>5, <1>6, <1>7, <1>8 DEF PhotoNext

-----------------------------------------------------------------------------
\* Unsafe photos.

\* While nothing is taken off the lists of what is still to do, a photo that was
\* attended remains so.
LEMMA GrowingKeepsAttended ==
  ASSUME PhotoTypeOK, Attended,
         UNCHANGED <<unsafe, crashed>>, returned \subseteq returned',
         toCheck \subseteq toCheck', checks \subseteq checks', sent \subseteq sent',
         \A p \in unsafe : photo'[p] \in {photo[p], NoSpot}
  PROVE  Attended'
  BY DEF Attended

LEMMA AttendedNext == PhotoTypeOK /\ IInv /\ [PhotoNext]_photoVars => Attended'
  <1> SUFFICES ASSUME PhotoTypeOK, IInv, [PhotoNext]_photoVars
               PROVE  Attended'
    OBVIOUS
  <1> USE DEF IInv
  <1>a. unsafe \subseteq Photos
    BY DoubtfulAssumption DEF PhotoTypeOK
  <1>1. ASSUME NEW r \in Uploads, NEW s \in Spots, NEW files,
               CreatePhotospot(r, s, files) \/ ModifyPhotospot(r, s, files)
        PROVE  Attended'
    BY <1>1, GrowingKeepsAttended
    DEF CreatePhotospot, ModifyPhotospot, Start, tables, tasks, outside
  <1>2. ASSUME NEW r \in Uploads, UploadProgress(r)
        PROVE  Attended'
    <2>1. CASE Commit(r)
      <3>1. \A p \in unsafe : photo'[p] # NoSpot => photo'[p] \in {photo[p], upload[r].spot}
        BY <1>a, <2>1 DEF Commit
      <3>2. /\ toCheck' = toCheck \cup {upload[r].spot}
            /\ UNCHANGED <<unsafe, crashed, returned, checks, sent>>
        BY <2>1 DEF Commit, outside
      <3> QED
        BY <3>1, <3>2 DEF Attended
    <2>2. CASE ModifyBegin(r) \/ Rollback(r) \/ \E p \in Photos : AddFile(r, p)
      BY <2>2, GrowingKeepsAttended DEF ModifyBegin, Rollback, AddFile, tables, tasks, outside
    <2> QED
      BY <1>2, <2>1, <2>2 DEF UploadProgress
  <1>3. ASSUME NEW s \in Spots, DeletePhotospot(s) \/ DeleteAdminPhotospot(s)
        PROVE  Attended'
    BY <1>3, GrowingKeepsAttended
    DEF DeletePhotospot, DeleteAdminPhotospot, Send, tables, tasks, outside
  <1>4. ASSUME NEW s \in Spots, CheckPhotospot(s)
        PROVE  Attended'
    <2>1. /\ toCheck' = toCheck \ {s}
          /\ UNCHANGED <<unsafe, crashed, returned, photo, sent>>
          /\ checks \subseteq checks'
      BY <1>4 DEF CheckPhotospot, tables, outside
    <2>2. \A p \in Photos : photo[p] = s => \E c \in checks' : c.photo = p
      <3>1. SUFFICES ASSUME NEW p \in Photos, photo[p] = s
                     PROVE  \E c \in checks' : c.photo = p
        OBVIOUS
      <3> DEFINE c == [photo |-> p, spot |-> s, alone |-> Cardinality(PhotosOf(s)) = 1]
      <3>2. c \in [photo : PhotosOf(s), spot : {s}, alone : {Cardinality(PhotosOf(s)) = 1}]
        BY <3>1 DEF PhotosOf
      <3>3. c \in checks' /\ c.photo = p
        BY <1>4, <3>2 DEF CheckPhotospot
      <3> QED
        BY <3>3
    <2> QED
      BY <1>a, <2>1, <2>2 DEF Attended
  <1>5. CASE DeleteCollection \/ DeleteAdminCollection
    BY <1>5, GrowingKeepsAttended
    DEF DeleteCollection, DeleteAdminCollection, Send, tables, tasks, outside
  <1>6. CASE Execute
    <2>1. PICK st \in sent : SoftRemovePhotospot(st) \/ SoftRemoveCollection(st) \/ DeletePhotos(st)
      BY <1>6 DEF Execute
    <2>2. sent' = sent \ {st} /\ UNCHANGED <<unsafe, crashed, returned, toCheck, checks>>
      BY <2>1 DEF SoftRemovePhotospot, SoftRemoveCollection, DeletePhotos, Executed, outside
    <2>3. \A p \in Photos : photo'[p] \in {photo[p], NoSpot}
      BY <2>1 DEF SoftRemovePhotospot, SoftRemoveCollection, DeletePhotos, PhotoTypeOK
    <2>4. \A p \in Photos : st = <<"deletePhoto", p>> => photo'[p] = NoSpot
      BY <2>1 DEF SoftRemovePhotospot, SoftRemoveCollection, DeletePhotos, PhotoTypeOK
    <2> QED
      BY <1>a, <2>2, <2>3, <2>4 DEF Attended
  <1>7. ASSUME NEW p \in Photos, FindLabelled(p)
        PROVE  Attended'
    BY <1>7, GrowingKeepsAttended DEF FindLabelled, tables
  <1>8. ASSUME NEW p \in Photos, SaveLabelled(p)
        PROVE  Attended'
    <2>1. /\ photo'[p] = found[p]
          /\ photo[p] = NoSpot => p \in returned'
          /\ \A o \in Photos : o # p => photo'[o] = photo[o]
          /\ returned \subseteq returned'
          /\ UNCHANGED <<unsafe, crashed, toCheck, checks, sent>>
      BY <1>8 DEF SaveLabelled, PhotoTypeOK
    <2>2. photo[p] # NoSpot => photo'[p] = photo[p]
      BY <1>8, <2>1 DEF SaveLabelled, RowsInv, FoundIsTrue
    <2> QED
      BY <1>a, <2>1, <2>2 DEF Attended
  <1>9. ASSUME NEW c \in checks, CheckPhoto(c)
        PROVE  Attended'
    <2>1. /\ checks' = checks \ {c} /\ sent \subseteq sent'
          /\ UNCHANGED <<unsafe, crashed, returned, photo, toCheck>>
      BY <1>9 DEF CheckPhoto, tables, outside
    <2>2. c.photo \in unsafe => <<"deletePhoto", c.photo>> \in sent'
      BY <1>9 DEF CheckPhoto, Removals, imageSafeGuard
    <2> QED
      BY <2>1, <2>2 DEF Attended
  <1>10. CASE CheckRejected \/ ImageServiceFails \/ StatementFails
    BY <1>10 DEF CheckRejected, ImageServiceFails, StatementFails, Dies, Attended
  <1>11. CASE UNCHANGED photoVars
    BY <1>11 DEF photoVars, tables, tasks, outside, Attended
  <1> QED
    BY <1>1, <1>2, <1>3, <1>4, <1>5, <1>6, <1>7, <1>8, <1>9, <1>10, <1>11 DEF PhotoNext

-----------------------------------------------------------------------------
\* The theorems.

\* Every variable has its type: in particular a label task only saves rows that
\* belong to a photospot, and what is sent without an await names photos where
\* photos are meant and photospots where photospots are.
THEOREM PhotoTypesCorrect == PhotoSpec => []PhotoTypeOK
  BY TypeInit, TypeNext, PTL DEF PhotoSpec

\* The inductive invariant.
THEOREM PhotospotsInvariant == PhotoSpec => []IInv
  <1>1. PhotoInit => IInv
    BY RowsInit
  <1>2. PhotoTypeOK /\ IInv /\ [PhotoNext]_photoVars => IInv'
    BY RowsNext, AttendedNext DEF IInv
  <1> QED
    BY <1>1, <1>2, PhotoTypesCorrect, PTL DEF PhotoSpec

\* Every photo row, one that a late label task wrote back included, has its
\* object in the bucket (s3.service.ts, photospot.service.ts).
THEOREM ListedIsStoredHolds == PhotoSpec => []ListedIsStored
  <1>1. IInv => ListedIsStored
    BY DEF IInv, RowsInv
  <1> QED
    BY <1>1, PhotospotsInvariant, PTL

\* No unsafe photo is forgotten by the tasks behind the uploads, unless the
\* process dies or a label task writes the photo back.
THEOREM AttendedHolds == PhotoSpec => []Attended
  <1>1. IInv => Attended
    BY DEF IInv
  <1> QED
    BY <1>1, PhotospotsInvariant, PTL
===============================================================================
