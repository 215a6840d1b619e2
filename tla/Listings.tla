------------------------------- MODULE Listings -------------------------------
(***************************************************************************)
(* The listings: one table, read page after page by a client while rows    *)
(* come, change and go.  The lists of the administrators run two           *)
(* statements, a count and a fetch, and answer the number of the last      *)
(* page; the lists of the users run one, and a short page ends the walk;   *)
(* the joined meetups and the chat rooms are found by the ids read in an   *)
(* earlier statement.                                                      *)
(*                                                                         *)
(* A row is the set of what the queries ask about it: the columns in which *)
(* the search term occurs, and whether it is the user's own, joined by the *)
(* user, closed or has photospots.  Its id is its place in order of        *)
(* creation.  A page is the set of its rows: who is on which page follows  *)
(* from how many rows come before; their order on it is the list's.        *)
(***************************************************************************)
EXTENDS Integers, Sequences, FiniteSets, SequencesExt

CONSTANTS MaxId,      \* bound: ids the table may use
          MaxChanges, \* bound: changes of the table during a walk
          Take,       \* rows per page
          Absent

ASSUME BoundsAssumption == MaxId \in Nat \ {0} /\ MaxChanges \in Nat /\ Take \in Nat \ {0}

VARIABLES list,    \* which listing is read
          term,    \* a search term was given (any row matches without)
          ofUser,  \* the listing is asked for the collections of one user
          row,     \* the rows, by id
          nextId,  \* AUTO_INCREMENT
          changes, \* changes so far
          reader,  \* the client: its step, page, and what the first statement read
          seen,    \* history: the pages shown, in order
          kept,    \* history: rows listed ever since the walk began
          came, left, \* history: rows that joined and left the list during the walk
          stale    \* history: what the first statement read was stale at the fetch

listingVars == <<list, term, ofUser, row, nextId, changes, reader, seen, kept, came, left, stale>>

Ids == 1 .. MaxId
Admins == {"getAdminsList", "getAdminUsersList", "getAdminCollectionsList",
           "getAdminMeetupsList", "getAdminFaqList"}
Users == {"getMeetups", "getMeetupsWithJoined", "getMeetupsWithMine",
          "getCollectionsList", "getAllPhoto", "getFaqList", "getChatRooms"}
ByIds == {"getMeetupsWithJoined", "getChatRooms"}
Whole == {"getFaqList", "getChatRooms"}

Rows == {i \in Ids : row[i] # Absent}
Searched(columns) == {i \in Rows : term => row[i] \cap columns # {}}

-----------------------------------------------------------------------------
\* The rows each list selects.

getAdminsList == Searched({"account", "responsibility"})
getAdminUsersList == Searched({"email", "username"})
getAdminCollectionsList == Searched({"title", "description"})
getAdminMeetupsList == Searched({"title", "content", "place"})
getAdminFaqList == Searched({"title", "content"})

getMeetups == Searched({"title", "content"})
getMeetupsWithMine == {i \in Searched({"title", "content"}) : "own" \in row[i]}

\* Of the meetups that were joined when their ids were read.
getMeetupsWithJoined == reader.ids \cap Searched({"title", "content"})
JoinedIds == {i \in Rows : "joined" \in row[i] /\ "own" \notin row[i]}

\* The closed meetups among those whose rooms the ids were read of.
getChatRooms == {i \in reader.ids \cap Rows : "closed" \in row[i]}
RoomIds == {i \in Rows : {"joined", "closed"} \subseteq row[i]}

IdsRead == IF list = "getChatRooms" THEN RoomIds ELSE JoinedIds

isThereSearchUserid ==
  {i \in Searched({"title", "description"}) : ofUser => "own" \in row[i]}

\* The inner join asks for a photospot.
getCollectionsList == {i \in isThereSearchUserid : "photospot" \in row[i]}

getAllPhoto == Rows
getFaqList == Rows

Listed ==
  CASE list = "getAdminsList"           -> getAdminsList
    [] list = "getAdminUsersList"       -> getAdminUsersList
    [] list = "getAdminCollectionsList" -> getAdminCollectionsList
    [] list = "getAdminMeetupsList"     -> getAdminMeetupsList
    [] list = "getAdminFaqList"         -> getAdminFaqList
    [] list = "getMeetups"              -> getMeetups
    [] list = "getMeetupsWithMine"      -> getMeetupsWithMine
    [] list = "getMeetupsWithJoined"    -> getMeetupsWithJoined
    [] list = "getCollectionsList"      -> getCollectionsList
    [] list = "getAllPhoto"             -> getAllPhoto
    [] list = "getFaqList"              -> getFaqList
    [] list = "getChatRooms"            -> getChatRooms

Columns(l) ==
  CASE l = "getAdminsList"           -> {"account", "responsibility"}
    [] l = "getAdminUsersList"       -> {"email", "username"}
    [] l = "getAdminCollectionsList" -> {"title", "description"}
    [] l = "getAdminMeetupsList"     -> {"title", "content", "place"}
    [] l \in {"getAdminFaqList", "getMeetups"} -> {"title", "content"}
    [] l = "getMeetupsWithMine"      -> {"title", "own"}
    [] l = "getMeetupsWithJoined"    -> {"title", "own", "joined"}
    [] l = "getCollectionsList"      -> {"title", "own", "photospot"}
    [] l = "getChatRooms"            -> {"joined", "closed"}
    [] l \in {"getAllPhoto", "getFaqList"} -> {}

ListingTypeOK ==
  /\ list \in Admins \cup Users /\ term \in BOOLEAN /\ ofUser \in BOOLEAN
  /\ row \in [Ids -> (SUBSET Columns(list)) \cup {Absent}]
  /\ nextId \in 1 .. MaxId + 1 /\ changes \in 0 .. MaxChanges
  /\ reader \in [step : {"idle", "first", "fetch", "done"}, page : Nat \ {0},
                 total : 0 .. MaxId, ids : SUBSET Ids]
  /\ seen \in Seq(SUBSET Ids)
  /\ kept \subseteq Ids /\ came \subseteq Ids /\ left \subseteq Ids
  /\ stale \in BOOLEAN

ListingInit ==
  /\ list \in Admins \cup Users
  /\ term \in IF list \in {"getAllPhoto"} \cup Whole THEN {FALSE} ELSE BOOLEAN
  /\ ofUser \in IF list = "getCollectionsList" THEN BOOLEAN ELSE {FALSE}
  /\ nextId = MaxId
  /\ \E r \in [1 .. MaxId - 1 -> SUBSET Columns(list)] :
       row = [i \in Ids |-> IF i < MaxId THEN r[i] ELSE Absent]
  /\ changes = 0
  /\ reader = [step |-> "idle", page |-> 1, total |-> 0, ids |-> {}]
  /\ seen = <<>> /\ kept = {} /\ came = {} /\ left = {} /\ stale = FALSE

-----------------------------------------------------------------------------
\* Changes of the table.  The rows of the other tables come and go likewise (no
\* closed meetup opens again);
\* what else those changes do is the matter of the other modules.

\* What the reader would be shown after a change that leaves it where it is;
\* joins are seen when their ids are read.
Now == CASE list = "getMeetupsWithJoined" -> JoinedIds \cap Searched({"title", "content"})
         [] list = "getChatRooms" -> RoomIds
         [] OTHER -> Listed

Change(i, r) ==
  /\ changes < MaxChanges /\ changes' = changes + 1
  /\ row[i] # Absent /\ r # Absent => ("closed" \in row[i] => "closed" \in r)
  /\ UNCHANGED <<list, term, ofUser, reader, seen>>
  /\ row' = [row EXCEPT ![i] = r]
  /\ kept' = kept \cap Now'
  /\ came' = came \cup (Now' \ Now) /\ left' = left \cup (Now \ Now')
  /\ stale' = (stale \/ (reader.step = "fetch"
                        /\ (list \in ByIds \/ Now' \ Now # {})))

createAdminFaq(r) == nextId <= MaxId /\ Change(nextId, r) /\ nextId' = nextId + 1
updateAdminFaq(i, r) == i \in Rows /\ r # row[i] /\ Change(i, r) /\ UNCHANGED nextId
deleteAdminFaq(i) == i \in Rows /\ Change(i, Absent) /\ UNCHANGED nextId

-----------------------------------------------------------------------------
\* The walk.

\* Which lists answer a request for page p: a page below 1 is refused by the
\* query's DTO, and the photos', whose offset it makes negative, by the database
\* (a missing one by the query builder: it is not a number).
Answered(p) == p >= 1 \/ list \in Whole \cup {"getMeetups", "getMeetupsWithJoined", "getMeetupsWithMine"}

\* (mutant) The page is taken as it was asked for.
PageAskedRaw(p) == p

\* The page that is read; the photos' is taken as it comes.
PageAsked(p) == IF p < 1 /\ list # "getAllPhoto" THEN 1 ELSE p

\* The client asks for the first page, by its number or by zero, which stands for
\* every page below 1.  A request that is not answered shows nothing.
Ask ==
  /\ reader.step = "idle"
  /\ \E p \in 0 .. 1 :
       Answered(p) /\ reader' = [reader EXCEPT !.step = "first", !.page = PageAsked(p)]
  /\ kept' = Now /\ came' = {} /\ left' = {}
  /\ UNCHANGED <<list, term, ofUser, row, nextId, changes, seen, stale>>

\* getCount, or the query for the ids; the other lists have no such statement.
FirstStatement ==
  /\ reader.step = "first"
  /\ reader' = [reader EXCEPT !.step = "fetch",
                  !.total = IF list \in Admins THEN Cardinality(Listed) ELSE 0,
                  !.ids = IF list \in ByIds THEN IdsRead ELSE {}]
  /\ UNCHANGED <<list, term, ofUser, row, nextId, changes, seen, kept, came, left, stale>>

\* The newest row first; without an ORDER BY the query TypeORM builds for a page
\* orders by the id, oldest first.
Before(i, j) == IF list = "getAllPhoto" THEN i < j ELSE i > j

Size == IF list \in Whole THEN MaxId + 1 ELSE Take

\* The rows of S that are listed before i.
Ahead(i, S) == {j \in S : Before(j, i)}

\* (mutant) Pages overlap by a row.
PageOfOverlapping(page) ==
  LET skip == (page - 1) * (Size - 1)
  IN  {i \in Listed : Cardinality(Ahead(i, Listed)) \in skip .. skip + Size - 1}

PageOf(page) ==
  LET skip == (page - 1) * Size
  IN  {i \in Listed : Cardinality(Ahead(i, Listed)) \in skip .. skip + Size - 1}

\* (mutant) The last, incomplete page is not counted.
LastPageFloor(total) == total \div Take

LastPage(total) == (total + Take - 1) \div Take

\* The page arrives; the client asks for the next one, or has come to the end.
Fetch ==
  /\ reader.step = "fetch"
  /\ seen' = Append(seen, PageOf(reader.page))
  /\ LET end == IF list \in Admins THEN reader.page >= LastPage(reader.total)
                ELSE Cardinality(PageOf(reader.page)) < Size
     IN  reader' = IF end THEN [reader EXCEPT !.step = "done"]
                   ELSE [reader EXCEPT !.step = "first", !.page = @ + 1]
  /\ UNCHANGED <<list, term, ofUser, row, nextId, changes, kept, came, left, stale>>

ListingNext ==
  \/ \E r \in SUBSET Columns(list) : createAdminFaq(r) \/ \E i \in Ids : updateAdminFaq(i, r)
  \/ \E i \in Ids : deleteAdminFaq(i)
  \/ Ask \/ FirstStatement \/ Fetch

ListingSpec == ListingInit /\ [][ListingNext]_listingVars

-----------------------------------------------------------------------------
\* A client that has read to the end was shown every row that was listed all
\* the time - unless a row before it left the list, which moves it to a page
\* already read, or the list grew between a count and its fetch, or the joined
\* meetups changed after their ids were read: then the fetch may even show one
\* that never matched the whole query.
NothingMissed ==
  reader.step = "done" =>
    \A i \in kept \ UNION ToSet(seen) : (\E j \in left : Before(j, i)) \/ stale

\* A row is shown twice only when another one came before it, or it left and
\* came back itself (or the ids were stale): the photos, oldest first, repeat
\* for no new photo.
RepeatsForAReason ==
  \A m, n \in DOMAIN seen : m < n => \A i \in seen[m] \cap seen[n] :
    \/ \E j \in came : j = i \/ Before(j, i)
    \/ list \in ByIds /\ stale
=============================================================================
