------------------------------ MODULE Photospots ------------------------------
(***************************************************************************)
(* The photospots of one collection and their photos: uploads in a         *)
(* transaction, deletions whose statements nobody awaits, and the two      *)
(* tasks every upload leaves running behind its answer - one attaches the  *)
(* labels of a photo (createImageKeyword), one removes the photos an image *)
(* service finds unsafe (isSafePhoto).  A promise that is rejected with    *)
(* nobody to handle it ends the process, which is started again.           *)
(*                                                                         *)
(* photo and spot are committed rows.  The file of a photo is named by a   *)
(* uuid, so that the photo stands for its object in the bucket too.        *)
(* Requests by users who do not own what they name are refused before they *)
(* change anything and are left out.                                       *)
(***************************************************************************)
EXTENDS Integers, FiniteSets

CONSTANTS Uploads,   \* uploads handled at the same time
          Spots, Photos,
          Doubtful,   \* the photos the image service may find unsafe
          MaxFiles,   \* 5 in the code
          MaxRequests, \* bound: requests of owners and administrators
          NoSpot, NoUpload

ASSUME DoubtfulAssumption == Doubtful \subseteq Photos
ASSUME MaxFilesAssumption == MaxFiles \in Nat \ {0}
ASSUME MaxRequestsAssumption == MaxRequests \in Nat
ASSUME NoSpotAssumption == NoSpot \notin Spots

VARIABLES unsafe,      \* the photos the image service finds unsafe, never changed
          collection,  \* the collection's row
          spot,        \* the photospot rows: absent, live or soft-deleted
          photo,       \* the photospot of each photo row, NoSpot without a row
          stored,      \* the objects in the bucket
          upload,      \* the uploads under way
          labelling,   \* whether the label task of a photo waits for labels
          found,       \* the row the label task has read and will save
          toCheck,     \* photospots whose safety check is about to read them
          checks,      \* photos whose image service answer is awaited
          sent,        \* statements nobody awaits, not yet executed
          labelled,    \* photos whose labels were saved
          told,        \* history: photospots and photos an owner was told are deleted
          crashed,     \* history: the process has died
          returned,    \* history: photos saved again after their deletion
          without,     \* history: photos whose label task went without labels
          requests     \* requests so far

tables == <<collection, spot, photo>>
tasks == <<labelling, found, toCheck, checks, sent>>
\* Nothing the program keeps: what an image shows, the history, and the count.
outside == <<unsafe, told, crashed, returned, without, requests>>
photoVars == <<tables, stored, upload, tasks, labelled, outside>>

UploadCalls == [op : {"create", "modify"}, step : {"read", "open"}, spot : Spots,
                files : SUBSET Photos, ins : SUBSET Photos]

Statements == ({"softRemove", "deletePhotos"} \X Spots)
              \cup ({"deletePhoto"} \X Photos) \cup ({"cascade"} \X SUBSET Spots)

ASSUME NoUploadAssumption == NoUpload \notin UploadCalls

PhotoTypeOK ==
  /\ unsafe \subseteq Doubtful
  /\ collection \in {"live", "deleted"}
  /\ spot \in [Spots -> {"absent", "live", "deleted"}]
  /\ photo \in [Photos -> Spots \cup {NoSpot}]
  /\ stored \subseteq Photos
  /\ upload \in [Uploads -> UploadCalls \cup {NoUpload}]
  /\ labelling \in [Photos -> {"none", "asked", "done"}]
  /\ found \in [Photos -> Spots \cup {NoSpot}]
  /\ toCheck \subseteq Spots
  /\ checks \subseteq [photo : Photos, spot : Spots, alone : BOOLEAN]
  /\ sent \subseteq Statements
  /\ labelled \subseteq Photos /\ returned \subseteq Photos /\ without \subseteq Photos
  /\ told \subseteq Spots \cup Photos
  /\ crashed \in BOOLEAN /\ requests \in 0 .. MaxRequests

\* A photospot may be there from before, with photos that were found safe.
PhotoInit ==
  /\ unsafe \in SUBSET Doubtful
  /\ collection = "live"
  /\ \E s \in Spots, old \in SUBSET (Photos \ Doubtful) :
       /\ spot = [t \in Spots |-> IF t = s /\ old # {} THEN "live" ELSE "absent"]
       /\ photo = [p \in Photos |-> IF p \in old THEN s ELSE NoSpot]
       /\ labelling = [p \in Photos |-> IF p \in old THEN "done" ELSE "none"]
       /\ stored = old /\ labelled = old
  /\ told = {} /\ returned = {} /\ without = {}
  /\ upload = [r \in Uploads |-> NoUpload]
  /\ found = [p \in Photos |-> NoSpot]
  /\ toCheck = {} /\ checks = {} /\ sent = {}
  /\ crashed = FALSE /\ requests = 0

PhotosOf(s) == {p \in Photos : photo[p] = s}
\* The photos a client can have seen in a listing.
Listed == {p \in Photos : photo[p] # NoSpot}
Live == {s \in Spots : spot[s] = "live"}

Request == requests < MaxRequests /\ requests' = requests + 1

-----------------------------------------------------------------------------
\* Uploads.

\* Files that were never sent before.
NewFiles == {p \in Photos \ stored : /\ labelling[p] = "none"
                                     /\ \A r \in Uploads : upload[r] # NoUpload => p \notin upload[r].files}

\* The pipe asks for at least one file on creation and for no more than five.
FileValidation(mode) ==
  {files \in SUBSET NewFiles : /\ Cardinality(files) <= MaxFiles
                               /\ mode = "create" => files # {}}

Start(r, op, step, s, files) ==
  /\ Request /\ upload[r] = NoUpload
  /\ upload' = [upload EXCEPT ![r] = [op |-> op, step |-> step, spot |-> s,
                                  files |-> files, ins |-> {}]]
  /\ UNCHANGED <<tables, stored, tasks, labelled, unsafe, told, crashed, returned, without>>

\* The collection is there; a transaction is opened and the photospot inserted.
CreatePhotospot(r, s, files) ==
  /\ collection = "live"
  /\ spot[s] = "absent" /\ \A q \in Uploads : upload[q] # NoUpload => upload[q].spot # s
  /\ Start(r, "create", "open", s, files)

ModifyPhotospot(r, s, files) ==
  /\ spot[s] = "live"
  /\ Start(r, "modify", "read", s, files)

\* The transaction that updates a photospot and inserts its photos holds their
\* locks until it ends: statements on them wait.
Locked(s) == \E r \in Uploads : /\ upload[r] # NoUpload
                                /\ upload[r].op = "modify" /\ upload[r].step = "open"
                                /\ upload[r].spot = s

\* The update by id also finds a photospot soft-deleted since it was read.
ModifyBegin(r) ==
  /\ upload[r] # NoUpload /\ upload[r].step = "read" /\ ~Locked(upload[r].spot)
  /\ upload' = [upload EXCEPT ![r].step = "open"]
  /\ UNCHANGED <<tables, stored, tasks, labelled, outside>>

\* (mutant) The row is inserted without waiting for the object.
AddFileUnstored(r, p) ==
  /\ upload[r] # NoUpload /\ upload[r].step = "open" /\ p \in upload[r].files
  /\ labelling' = [labelling EXCEPT ![p] = "asked"]
  /\ upload' = [upload EXCEPT ![r].files = @ \ {p}, ![r].ins = @ \cup {p}]
  /\ UNCHANGED <<tables, stored, found, toCheck, checks, sent, labelled, outside>>

\* One turn of the loop over the files: the object is stored, the row inserted
\* and the label task started.  Nobody sees the row before the commit.
AddFile(r, p) ==
  /\ upload[r] # NoUpload /\ upload[r].step = "open" /\ p \in upload[r].files
  /\ stored' = stored \cup {p}
  /\ labelling' = [labelling EXCEPT ![p] = "asked"]
  /\ upload' = [upload EXCEPT ![r].files = @ \ {p}, ![r].ins = @ \cup {p}]
  /\ UNCHANGED <<tables, found, toCheck, checks, sent, labelled, outside>>

\* The photos named in deletePhotos are deleted, whosever they are, and the
\* transaction commits.  The safety check of the photospot starts.
Commit(r) ==
  /\ upload[r] # NoUpload /\ upload[r].step = "open" /\ upload[r].files = {}
  /\ LET c == upload[r] IN
       /\ spot' = [spot EXCEPT ![c.spot] = IF c.op = "create" THEN "live" ELSE @]
       /\ \E deletePhotos \in IF c.op = "modify" THEN SUBSET Listed ELSE {{}} :
            photo' = [p \in Photos |-> IF p \in deletePhotos THEN NoSpot
                                      ELSE IF p \in c.ins THEN c.spot ELSE photo[p]]
       /\ toCheck' = toCheck \cup {c.spot}
  /\ upload' = [upload EXCEPT ![r] = NoUpload]
  /\ UNCHANGED <<collection, stored, labelling, found, checks, sent, labelled, outside>>

\* A statement failed: the file it was about may have reached the bucket.
Rollback(r) ==
  /\ upload[r] # NoUpload /\ upload[r].step = "open"
  /\ \E o \in {{}} \cup {{p} : p \in upload[r].files} : stored' = stored \cup o
  /\ upload' = [upload EXCEPT ![r] = NoUpload]
  /\ UNCHANGED <<tables, tasks, labelled, outside>>

-----------------------------------------------------------------------------
\* Deletions.  Statements sent without an await are executed in any order.

Send(statements) ==
  /\ Request /\ sent' = sent \cup statements
  /\ UNCHANGED <<tables, stored, upload, labelling, found, toCheck, checks, labelled,
                 unsafe, crashed, returned, without>>

\* (mutant) The photospot is left where it is.
DeletePhotospotPhotos(s) ==
  /\ spot[s] = "live" /\ told' = told \cup {s} \cup PhotosOf(s)
  /\ Send({<<"deletePhotos", s>>})

DeletePhotospot(s) ==
  /\ spot[s] = "live" /\ told' = told \cup {s} \cup PhotosOf(s)
  /\ Send({<<"softRemove", s>>, <<"deletePhotos", s>>})

\* The two statements of deleteCollection run side by side, on the photospots
\* it has read.
DeleteCollection ==
  /\ collection = "live" /\ UNCHANGED told
  /\ Send({<<"cascade", Live>>} \cup {<<"deletePhotos", s>> : s \in Live})

SoftDelete(c, gone) ==
  /\ collection' = c
  /\ spot' = [s \in Spots |-> IF s \in gone THEN "deleted" ELSE spot[s]]

\* An administrator's deletion marks one row and leaves the rest alone.
DeleteAdminPhotospot(s) ==
  /\ Request /\ spot[s] = "live" /\ ~Locked(s)
  /\ SoftDelete(collection, {s})
  /\ UNCHANGED <<photo, stored, upload, tasks, labelled,
                 unsafe, told, crashed, returned, without>>

DeleteAdminCollection ==
  /\ Request
  /\ SoftDelete("deleted", {})
  /\ UNCHANGED <<photo, stored, upload, tasks, labelled,
                 unsafe, told, crashed, returned, without>>

Executed(st) ==
  /\ st \in sent /\ sent' = sent \ {st}
  /\ UNCHANGED <<stored, upload, labelling, found, toCheck, checks, labelled, outside>>

SoftRemovePhotospot(st) ==
  /\ st[1] = "softRemove" /\ ~Locked(st[2])
  /\ SoftDelete(collection, {st[2]}) /\ UNCHANGED photo
  /\ Executed(st)

\* The collection is soft-removed together with the photospots it was loaded
\* with; when others were added since, the statement may fail.
SoftRemoveCollection(st) ==
  /\ st[1] = "cascade" /\ \A s \in st[2] : ~Locked(s)
  /\ \/ SoftDelete("deleted", st[2])
     \/ ~ (Live \subseteq st[2]) /\ UNCHANGED <<collection, spot>>
  /\ UNCHANGED photo
  /\ Executed(st)

DeletePhotos(st) ==
  /\ \/ st[1] = "deletePhotos" /\ ~Locked(st[2])
        /\ photo' = [p \in Photos |-> IF photo[p] = st[2] THEN NoSpot ELSE photo[p]]
     \/ st[1] = "deletePhoto" /\ photo' = [photo EXCEPT ![st[2]] = NoSpot]
  /\ UNCHANGED <<collection, spot>>
  /\ Executed(st)

-----------------------------------------------------------------------------
\* The label task.

\* The labels have arrived, or the call has failed, which counts as no labels;
\* the task looks for the row of its photo, and gives up when the upload has not
\* committed yet or the photo is gone.
FindLabelled(p) ==
  /\ labelling[p] = "asked"
  /\ labelling' = [labelling EXCEPT ![p] = "done"]
  /\ found' = [found EXCEPT ![p] = photo[p]]
  /\ \/ without' = without \cup {p}
     \/ /\ \A r \in Uploads : upload[r] # NoUpload => p \notin upload[r].ins
        /\ UNCHANGED without
  /\ UNCHANGED <<tables, stored, upload, toCheck, checks, sent, labelled,
                 unsafe, told, crashed, returned, requests>>

\* (mutant) The rows of the labels are not connected.
SaveUnlabelled(p) ==
  /\ found[p] # NoSpot
  /\ found' = [found EXCEPT ![p] = NoSpot]
  /\ UNCHANGED <<tables, stored, upload, labelling, toCheck, checks, sent, labelled, outside>>

\* save writes the row it was given, with or without labels: it inserts it when
\* it is not there.
SaveLabelled(p) ==
  /\ found[p] # NoSpot
  /\ photo' = [photo EXCEPT ![p] = found[p]]
  /\ returned' = IF photo[p] = NoSpot THEN returned \cup {p} ELSE returned
  /\ labelled' = labelled \cup ({p} \ without)
  /\ found' = [found EXCEPT ![p] = NoSpot]
  /\ UNCHANGED <<collection, spot, stored, upload, labelling, toCheck, checks, sent,
                 unsafe, told, crashed, without, requests>>

-----------------------------------------------------------------------------
\* The safety check.

\* (mutant) The check looks at one photo of the photospot.
CheckOnePhoto(s) ==
  /\ s \in toCheck /\ spot[s] = "live"
  /\ toCheck' = toCheck \ {s}
  /\ \E p \in PhotosOf(s) :
       checks' = checks \cup {[photo |-> p, spot |-> s,
                              alone |-> Cardinality(PhotosOf(s)) = 1]}
  /\ UNCHANGED <<tables, stored, upload, labelling, found, sent, labelled, outside>>

\* The photospot is read, and the image service asked about each of its photos.
CheckPhotospot(s) ==
  /\ s \in toCheck /\ spot[s] = "live"
  /\ toCheck' = toCheck \ {s}
  /\ checks' = checks \cup [photo : PhotosOf(s), spot : {s},
                            alone : {Cardinality(PhotosOf(s)) = 1}]
  /\ UNCHANGED <<tables, stored, upload, labelling, found, sent, labelled, outside>>

imageSafeGuard(p) == p \notin unsafe

\* (mutant) An only photo is left to its photospot.
RemovalsButTheOnlyPhoto(c) ==
  IF imageSafeGuard(c.photo) THEN {}
  ELSE IF c.alone THEN {<<"softRemove", c.spot>>}
  ELSE {<<"deletePhoto", c.photo>>}

\* (mutant) The photo is deleted by the id of its photospot.
RemovalsSwapped(c) ==
  IF imageSafeGuard(c.photo) THEN {} ELSE {<<"deletePhoto", c.spot>>}

\* An unsafe photo is deleted, its photospot too when it was the only photo.
Removals(c) ==
  IF imageSafeGuard(c.photo) THEN {}
  ELSE {<<"deletePhoto", c.photo>>}
       \cup (IF c.alone THEN {<<"softRemove", c.spot>>} ELSE {})

CheckPhoto(c) ==
  /\ c \in checks /\ checks' = checks \ {c}
  /\ sent' = sent \cup Removals(c)
  /\ UNCHANGED <<tables, stored, upload, labelling, found, toCheck, labelled, outside>>

-----------------------------------------------------------------------------
\* The process dies: transactions roll back, tasks and unsent work are lost.
Dies ==
  /\ crashed' = TRUE
  /\ upload' = [r \in Uploads |-> NoUpload]
  /\ labelling' = [p \in Photos |-> IF labelling[p] = "none" THEN "none" ELSE "done"]
  /\ found' = [p \in Photos |-> NoSpot]
  /\ toCheck' = {} /\ checks' = {} /\ sent' = {}
  /\ UNCHANGED <<tables, stored, labelled, unsafe, told, returned, without, requests>>

\* The check finds its photospot deleted, and its exception goes nowhere.
CheckRejected == (\E s \in toCheck : spot[s] # "live") /\ Dies

\* The image service fails inside the callback of forEach.
ImageServiceFails == checks # {} /\ Dies

\* A statement of a task, or one sent without an await, fails: the junction row
\* finds its photo deleted between the two statements of save, softRemove finds
\* photos added since the photospot was read and cannot take them off it, or the
\* database is out of reach.
StatementFails ==
  /\ \/ sent # {} \/ toCheck # {}
     \/ \E p \in Photos : labelling[p] = "asked" \/ found[p] # NoSpot
  /\ Dies

UploadProgress(r) == ModifyBegin(r) \/ Commit(r) \/ Rollback(r) \/ \E p \in Photos : AddFile(r, p)

Execute == \E st \in sent :
  SoftRemovePhotospot(st) \/ SoftRemoveCollection(st) \/ DeletePhotos(st)

PhotoNext ==
  \/ \E r \in Uploads :
       \/ \E s \in Spots :
            \/ \E fs \in FileValidation("create") : CreatePhotospot(r, s, fs)
            \/ \E fs \in FileValidation("modify") : ModifyPhotospot(r, s, fs)
       \/ UploadProgress(r)
  \/ \E s \in Spots : \/ DeletePhotospot(s)
                      \/ DeleteAdminPhotospot(s)
                      \/ CheckPhotospot(s)
  \/ DeleteCollection \/ DeleteAdminCollection \/ Execute
  \/ \E p \in Photos : FindLabelled(p) \/ SaveLabelled(p)
  \/ \E c \in checks : CheckPhoto(c)
  \/ CheckRejected \/ ImageServiceFails \/ StatementFails

PhotoSpec == PhotoInit /\ [][PhotoNext]_photoVars

\* What was started runs on: requests, tasks and statements on their way.  A
\* statement that waits for a lock is served in turn (InnoDB), hence SF.
PhotoFairness ==
  /\ \A r \in Uploads : WF_photoVars(UploadProgress(r))
  /\ \A p \in Photos : /\ WF_photoVars(FindLabelled(p) \/ SaveLabelled(p))
                       /\ WF_photoVars(\E c \in checks : c.photo = p /\ CheckPhoto(c))
                       /\ WF_photoVars(DeletePhotos(<<"deletePhoto", p>>))
  /\ \A s \in Spots : /\ WF_photoVars(CheckPhotospot(s) \/ CheckRejected)
                      /\ SF_photoVars(SoftRemovePhotospot(<<"softRemove", s>>))
                      /\ SF_photoVars(DeletePhotos(<<"deletePhotos", s>>))

FairPhotoSpec == PhotoSpec /\ PhotoFairness

-----------------------------------------------------------------------------
\* Every photo row, a returned one included, has its object in the bucket: a
\* listing never names an image that was not uploaded.
ListedIsStored == \A p \in Photos : photo[p] # NoSpot => p \in stored

\* No unsafe photo is forgotten: one that is listed has its check or its
\* removal still to come, unless the process died or it was written back.
Attended ==
  \A p \in unsafe : photo[p] # NoSpot =>
    \/ photo[p] \in toCheck \/ (\E c \in checks : c.photo = p)
    \/ <<"deletePhoto", p>> \in sent
    \/ crashed \/ p \in returned

\* An unsafe photo that became visible is removed, whatever happens to its
\* photospot, its siblings and its labels meanwhile - unless the process dies,
\* or the label task writes it back after its removal.
UnsafeIsRemoved ==
  \A p \in Doubtful : p \in unsafe /\ photo[p] # NoSpot ~>
                      photo[p] = NoSpot \/ crashed \/ p \in returned

\* An owner who is told at once that the photospot is deleted will see it gone,
\* and every photo it had, although nothing was awaited - with the same exceptions.
DeletionIsCarriedOut ==
  /\ \A s \in Spots : s \in told ~> spot[s] = "deleted" \/ crashed
  /\ \A p \in Photos : p \in told ~> photo[p] = NoSpot \/ crashed \/ p \in returned

\* A photo gets its labels (README.md:38), whatever else happens to it and its
\* photospot, unless they arrived before its upload had committed - then the task
\* does not find it, and gives up - or the image service failed.
LabelsArrive ==
  \A p \in Photos :
    photo[p] # NoSpot ~> p \in labelled \cup without \/ photo[p] = NoSpot \/ crashed
=============================================================================
