---------------------------- MODULE Listings_proofs ----------------------------
(***************************************************************************)
(* Proofs about Listings, for tables of any size, any number of changes    *)
(* and pages of any size.                                                  *)
(*                                                                         *)
(* A row is known to the walk by how many rows come before it: those kept  *)
(* and not yet shown are at or behind the next page (NotPassed), those     *)
(* shown and still listed before it (Passed), and a change moves a row     *)
(* only over the rows it adds or removes.  That a page which is not full   *)
(* is the last is the pigeonhole principle (FullPage).                     *)
(***************************************************************************)
EXTENDS Listings, FiniteSetTheorems, FunctionTheorems, TLAPS

Rank(i) == Cardinality(Ahead(i, Now))

Skip == (reader.page - 1) * Size

Walking == reader.step \in {"first", "fetch"}

Shown == UNION ToSet(seen)

\* The ids read are those a query would find now, unless that is recorded.
Exact == list \notin ByIds \/ ~stale

NotPassed ==
  Walking => \A i \in kept \ Shown :
    (\E j \in left : Before(j, i)) \/ stale \/ Rank(i) >= Skip

Passed ==
  Walking /\ Exact => \A i \in Shown \cap Now :
    (\E j \in came : j = i \/ Before(j, i)) \/ Rank(i) < Skip

\* What the first statement read is still so.
FirstIsTrue ==
  reader.step = "fetch" /\ ~stale =>
    /\ list \in Admins => Cardinality(Now) <= reader.total
    /\ list \in ByIds => reader.ids = IdsRead

ListingInv ==
  /\ ListingTypeOK
  /\ reader.step = "idle" => seen = <<>>
  /\ kept \subseteq Now
  /\ NotPassed /\ Passed /\ FirstIsTrue
  /\ NothingMissed /\ RepeatsForAReason

-----------------------------------------------------------------------------
\* The order of a list, and places in it.

LEMMA OrderIsTotal ==
  /\ \A i \in Ids : ~Before(i, i)
  /\ \A i, j \in Ids : i # j => Before(i, j) \/ Before(j, i)
  /\ \A i, j, k \in Ids : Before(i, j) /\ Before(j, k) => Before(i, k)
  BY BoundsAssumption DEF Ids, Before

LEMMA IdsAreFinite ==
  ASSUME NEW S \in SUBSET Ids
  PROVE  IsFiniteSet(S) /\ Cardinality(S) \in 0 .. MaxId
  <1>1. IsFiniteSet(Ids) /\ Cardinality(Ids) = MaxId
    BY BoundsAssumption, FS_Interval DEF Ids
  <1>2. IsFiniteSet(S) /\ Cardinality(S) <= MaxId
    BY <1>1, FS_Subset
  <1>3. Cardinality(S) \in Nat
    BY <1>2, FS_CardinalityType
  <1> QED
    BY <1>2, <1>3, BoundsAssumption

LEMMA AheadIsFinite ==
  ASSUME NEW S \in SUBSET Ids, NEW i
  PROVE  Ahead(i, S) \in SUBSET S /\ IsFiniteSet(Ahead(i, S)) /\ Cardinality(Ahead(i, S)) \in Nat
  <1>1. Ahead(i, S) \in SUBSET S
    BY DEF Ahead
  <1> QED
    BY <1>1, IdsAreFinite

\* More rows before it put a row further back.
LEMMA RankGrows ==
  ASSUME NEW S \in SUBSET Ids, NEW T \in SUBSET Ids, NEW i,
         \A j \in S : Before(j, i) => j \in T
  PROVE  Cardinality(Ahead(i, S)) <= Cardinality(Ahead(i, T))
  <1>1. Ahead(i, S) \in SUBSET Ahead(i, T)
    BY DEF Ahead
  <1> QED
    BY <1>1, AheadIsFinite, FS_Subset

\* A row comes behind all rows that come before it.
LEMMA RankIsStrict ==
  ASSUME NEW S \in SUBSET Ids, NEW i \in S, NEW j \in S, Before(j, i)
  PROVE  Cardinality(Ahead(j, S)) < Cardinality(Ahead(i, S))
  <1>1. Ahead(j, S) \in SUBSET Ahead(i, S)
    BY OrderIsTotal DEF Ahead
  <1>2. j \in Ahead(i, S) /\ j \notin Ahead(j, S)
    BY OrderIsTotal DEF Ahead
  <1>3. /\ Cardinality(Ahead(j, S)) <= Cardinality(Ahead(i, S))
        /\ Cardinality(Ahead(j, S)) # Cardinality(Ahead(i, S))
    BY <1>1, <1>2, AheadIsFinite, FS_Subset
  <1>4. Cardinality(Ahead(i, S)) \in Nat /\ Cardinality(Ahead(j, S)) \in Nat
    BY AheadIsFinite
  <1> QED
    BY <1>3, <1>4

LEMMA RankIsBounded ==
  ASSUME NEW S \in SUBSET Ids, NEW i \in S
  PROVE  Cardinality(Ahead(i, S)) < Cardinality(S)
  <1>1. Ahead(i, S) \in SUBSET S /\ i \notin Ahead(i, S)
    BY OrderIsTotal DEF Ahead
  <1>2. Cardinality(Ahead(i, S)) <= Cardinality(S) /\ Cardinality(Ahead(i, S)) # Cardinality(S)
    BY <1>1, IdsAreFinite, FS_Subset
  <1> QED
    BY <1>2, IdsAreFinite, AheadIsFinite

\* The rows before a row take all places before its own: their places are
\* different ones, and there are as many of them.
LEMMA EveryPlaceIsTaken ==
  ASSUME NEW S \in SUBSET Ids, NEW i \in S, NEW r \in Nat, r < Cardinality(Ahead(i, S))
  PROVE  \E j \in S : Cardinality(Ahead(j, S)) = r
  <1> DEFINE n == Cardinality(Ahead(i, S))
             D == Ahead(i, S)
             T == 0 .. n - 1
             f == [j \in D |-> Cardinality(Ahead(j, S))]
  <1>1. n \in Nat /\ IsFiniteSet(D) /\ D \in SUBSET S
    BY AheadIsFinite
  <1>2. IsFiniteSet(T) /\ Cardinality(T) = n
    <2>1. 0 \in Int /\ n - 1 \in Int /\ (n - 1) - 0 + 1 = n /\ (0 > n - 1 => n = 0)
      BY <1>1
    <2> HIDE DEF n
    <2>2. /\ IsFiniteSet(0 .. n - 1)
          /\ Cardinality(0 .. n - 1) = IF 0 > n - 1 THEN 0 ELSE (n - 1) - 0 + 1
      BY <2>1, FS_Interval
    <2> QED
      BY <2>1, <2>2
  <1>3. \A j \in D : f[j] \in T
    <2> SUFFICES ASSUME NEW j \in D
                 PROVE  f[j] \in T
      OBVIOUS
    <2>1. j \in S /\ Before(j, i)
      BY DEF Ahead
    <2>2. Cardinality(Ahead(j, S)) < n /\ Cardinality(Ahead(j, S)) \in Nat
      BY <2>1, RankIsStrict, AheadIsFinite
    <2> HIDE DEF n
    <2> QED
      BY <1>1, <2>2
  <1>4. \A j, k \in D : f[j] = f[k] => j = k
    <2> SUFFICES ASSUME NEW j \in D, NEW k \in D, j # k
                 PROVE  f[j] # f[k]
      OBVIOUS
    <2>1. j \in S /\ k \in S
      BY <1>1
    <2>2. Before(j, k) \/ Before(k, j)
      BY <2>1, OrderIsTotal
    <2>3. Cardinality(Ahead(j, S)) \in Nat /\ Cardinality(Ahead(k, S)) \in Nat
      BY AheadIsFinite
    <2>4. Cardinality(Ahead(j, S)) < Cardinality(Ahead(k, S))
          \/ Cardinality(Ahead(k, S)) < Cardinality(Ahead(j, S))
      BY <2>1, <2>2, RankIsStrict
    <2> QED
      BY <2>3, <2>4
  <1>5. f = [j \in D |-> f[j]]
    OBVIOUS
  <1>6. Cardinality(D) = n
    OBVIOUS
  <1>7. r \in T
    BY <1>1
  <1> HIDE DEF f, n, D, T
  <1>8. f \in Injection(D, T)
    BY <1>3, <1>4, <1>5 DEF Injection, IsInjective
  <1>9. f \in Surjection(D, T)
    BY <1>2, <1>6, <1>8, FS_Injection
  <1>10. PICK j \in D : f[j] = r
    BY <1>7, <1>9 DEF Surjection
  <1>11. Cardinality(Ahead(j, S)) = r
    BY <1>10 DEF f
  <1> QED
    BY <1>1, <1>11

\* A page is full when a row lies behind it.
LEMMA FullPage ==
  ASSUME NEW S \in SUBSET Ids, NEW i \in S, NEW a \in Nat, NEW n \in Nat,
         a + n <= Cardinality(Ahead(i, S))
  PROVE  n <= Cardinality({j \in S : Cardinality(Ahead(j, S)) \in a .. a + n - 1})
  <1> DEFINE P == {j \in S : Cardinality(Ahead(j, S)) \in a .. a + n - 1}
             T == a .. a + n - 1
             f == [j \in P |-> Cardinality(Ahead(j, S))]
  <1>1. IsFiniteSet(P)
    BY IdsAreFinite
  <1>2. Cardinality(T) = n
    BY FS_Interval
  <1>3. \A r \in T : \E j \in P : f[j] = r
    <2> SUFFICES ASSUME NEW r \in T
                 PROVE  \E j \in P : f[j] = r
      OBVIOUS
    <2>1. r \in Nat /\ r < Cardinality(Ahead(i, S))
      BY AheadIsFinite
    <2>2. PICK j \in S : Cardinality(Ahead(j, S)) = r
      BY <2>1, EveryPlaceIsTaken
    <2> QED
      BY <2>2
  <1>4. f \in [P -> T]
    OBVIOUS
  <1> HIDE DEF f, P, T
  <1>5. f \in Surjection(P, T)
    BY <1>3, <1>4 DEF Surjection
  <1>6. Cardinality(T) <= Cardinality(P)
    BY <1>1, <1>5, FS_Surjection
  <1> QED
    BY <1>2, <1>6 DEF P

-----------------------------------------------------------------------------
\* What the lists are.

LEMMA ListsAreIds ==
  ASSUME list \in Admins \cup Users
  PROVE  /\ Listed \in SUBSET Ids /\ Now \in SUBSET Ids /\ IdsRead \in SUBSET Ids
         /\ list \notin ByIds => Listed = Now
         /\ list \in ByIds /\ reader.ids = IdsRead => Listed = Now
  <1>1. list = "getMeetupsWithJoined" => Listed = getMeetupsWithJoined
    BY DEF Listed
  <1>2. list = "getChatRooms" => Listed = getChatRooms
    BY DEF Listed
  <1>3. Listed \in SUBSET Rows
    BY DEF Listed, Admins, Users, getAdminsList, getAdminUsersList, getAdminCollectionsList,
           getAdminMeetupsList, getAdminFaqList, getMeetups, getMeetupsWithMine,
           getMeetupsWithJoined, getCollectionsList, isThereSearchUserid, getAllPhoto,
           getFaqList, getChatRooms, Searched
  <1>4. JoinedIds \in SUBSET Rows /\ RoomIds \in SUBSET Rows /\ Rows \in SUBSET Ids
    BY DEF JoinedIds, RoomIds, Rows
  <1>5. list \notin ByIds => Listed = Now
    BY DEF Now, ByIds
  <1>6. ASSUME list \in ByIds, reader.ids = IdsRead
        PROVE  Listed = Now
    <2>1. CASE list = "getMeetupsWithJoined"
      BY <1>1, <1>6, <2>1 DEF Now, IdsRead, getMeetupsWithJoined
    <2>2. CASE list = "getChatRooms"
      <3>1. Listed = {i \in RoomIds \cap Rows : "closed" \in row[i]}
        BY <1>2, <1>6, <2>2 DEF IdsRead, getChatRooms
      <3> QED
        BY <2>2, <3>1 DEF Now, RoomIds
    <2> QED
      BY <1>6, <2>1, <2>2 DEF ByIds
  <1>7. Now \in SUBSET Rows
    <2>1. CASE list = "getMeetupsWithJoined"
      BY <1>4, <2>1 DEF Now
    <2>2. CASE list = "getChatRooms"
      BY <1>4, <2>2 DEF Now
    <2> QED
      BY <1>3, <1>5, <2>1, <2>2 DEF ByIds
  <1> QED
    BY <1>3, <1>4, <1>5, <1>6, <1>7 DEF IdsRead

\* What the reader does changes none of them.
LEMMA NowStays ==
  ASSUME list \in Admins \cup Users, UNCHANGED <<list, term, ofUser, row>>
  PROVE  Now' = Now /\ IdsRead' = IdsRead /\ \A i : Ahead(i, Now)' = Ahead(i, Now)
  <1>1. Rows' = Rows
    BY DEF Rows
  <1>2. JoinedIds' = JoinedIds /\ RoomIds' = RoomIds
    BY <1>1 DEF JoinedIds, RoomIds
  <1>3. \A columns : Searched(columns)' = Searched(columns)
    BY <1>1 DEF Searched
  <1>4. Now' = Now
    <2>1. CASE list = "getMeetupsWithJoined"
      BY <1>2, <1>3, <2>1 DEF Now
    <2>2. CASE list = "getChatRooms"
      BY <1>2, <2>2 DEF Now
    <2>3. CASE list \notin ByIds
      <3>1. Listed' = Listed
        BY <1>1, <1>3, <2>3
        DEF Listed, ByIds, Admins, Users, getAdminsList, getAdminUsersList,
            getAdminCollectionsList, getAdminMeetupsList, getAdminFaqList, getMeetups,
            getMeetupsWithMine, getCollectionsList, isThereSearchUserid, getAllPhoto, getFaqList
      <3> QED
        BY <2>3, <3>1 DEF Now, ByIds
    <2> QED
      BY <2>1, <2>2, <2>3 DEF ByIds
  <1>5. IdsRead' = IdsRead
    BY <1>2 DEF IdsRead
  <1>6. \A i : Ahead(i, Now)' = Ahead(i, Now)
    BY <1>4 DEF Ahead, Before
  <1> QED
    BY <1>4, <1>5, <1>6

\* The count of pages leaves no row behind.
LEMMA LastPageCovers ==
  ASSUME NEW total \in Nat
  PROVE  LastPage(total) \in Nat /\ total <= LastPage(total) * Take
  <1> DEFINE n == total + Take - 1
             q == n \div Take
  <1>1. n \in Nat /\ Take \in Nat \ {0}
    BY BoundsAssumption
  <1> HIDE DEF n
  <1>2. q \in Nat /\ n = Take * q + (n % Take) /\ n % Take \in 0 .. Take - 1
    BY <1>1
  <1> HIDE DEF q
  <1>3. n - (Take - 1) <= q * Take
    BY <1>1, <1>2
  <1>4. LastPage(total) = q
    BY DEF LastPage, q, n
  <1> QED
    BY <1>1, <1>2, <1>3, <1>4 DEF n

\* The rows that come before page p, and before the next one.
LEMMA Skipping ==
  ASSUME NEW p \in Nat \ {0}
  PROVE  /\ Size \in Nat \ {0} /\ (p - 1) * Size \in Nat
         /\ p * Size = (p - 1) * Size + Size
         /\ (1 - 1) * Size = 0
  <1>1. Size \in Nat \ {0}
    BY BoundsAssumption DEF Size
  <1>2. \A s \in Nat, q \in Nat : q * s \in Nat /\ (q + 1) * s = q * s + s
    OBVIOUS
  <1>3. p - 1 \in Nat /\ p = (p - 1) + 1
    OBVIOUS
  <1>4. (p - 1) * Size \in Nat /\ ((p - 1) + 1) * Size = (p - 1) * Size + Size
    BY <1>1, <1>2, <1>3
  <1>5. (1 - 1) * Size = 0
    BY <1>1
  <1> QED
    BY <1>1, <1>3, <1>4, <1>5

-----------------------------------------------------------------------------
\* The invariant is kept.

LEMMA ListingInvInit == ListingInit => ListingInv
  <1> SUFFICES ASSUME ListingInit
               PROVE  ListingInv
    OBVIOUS
  <1>1. /\ reader = [step |-> "idle", page |-> 1, total |-> 0, ids |-> {}]
        /\ seen = <<>> /\ kept = {} /\ came = {} /\ left = {} /\ stale = FALSE
        /\ list \in Admins \cup Users /\ term \in BOOLEAN /\ ofUser \in BOOLEAN
        /\ nextId = MaxId /\ changes = 0
    BY DEF ListingInit
  <1>2. row \in [Ids -> (SUBSET Columns(list)) \cup {Absent}]
    <2>1. PICK r \in [1 .. MaxId - 1 -> SUBSET Columns(list)] :
            row = [i \in Ids |-> IF i < MaxId THEN r[i] ELSE Absent]
      BY DEF ListingInit
    <2>2. \A i \in Ids : i < MaxId => i \in 1 .. MaxId - 1
      BY BoundsAssumption DEF Ids
    <2> QED
      BY <2>1, <2>2
  <1>3. ListingTypeOK
    <2>1. reader \in [step : {"idle", "first", "fetch", "done"}, page : Nat \ {0},
                      total : 0 .. MaxId, ids : SUBSET Ids]
      BY <1>1, BoundsAssumption
    <2>2. seen \in Seq(SUBSET Ids)
      BY <1>1
    <2>3. nextId \in 1 .. MaxId + 1 /\ changes \in 0 .. MaxChanges
      BY <1>1, BoundsAssumption
    <2> QED
      BY <1>1, <1>2, <2>1, <2>2, <2>3 DEF ListingTypeOK
  <1>4. NotPassed /\ Passed /\ FirstIsTrue /\ NothingMissed
    BY <1>1 DEF NotPassed, Passed, FirstIsTrue, NothingMissed, Walking
  <1>5. RepeatsForAReason
    BY <1>1 DEF RepeatsForAReason
  <1> QED
    BY <1>1, <1>3, <1>4, <1>5 DEF ListingInv

\* A row comes, changes or goes.
LEMMA ChangeKeeps ==
  ASSUME ListingInv, NEW k \in Ids, NEW r \in (SUBSET Columns(list)) \cup {Absent},
         Change(k, r), nextId' \in 1 .. MaxId + 1
  PROVE  ListingInv'
  <1>1. /\ changes < MaxChanges /\ changes' = changes + 1
        /\ UNCHANGED <<list, term, ofUser, reader, seen>>
        /\ row' = [row EXCEPT ![k] = r]
        /\ kept' = kept \cap Now'
        /\ came' = came \cup (Now' \ Now) /\ left' = left \cup (Now \ Now')
        /\ stale' = (stale \/ (reader.step = "fetch"
                              /\ (list \in ByIds \/ Now' \ Now # {})))
    BY DEF Change
  <1>2. /\ list \in Admins \cup Users /\ Now \in SUBSET Ids /\ Now' \in SUBSET Ids
        /\ kept \subseteq Now
    <2>1. list \in Admins \cup Users /\ list' \in Admins' \cup Users'
      BY <1>1 DEF ListingInv, ListingTypeOK, Admins, Users
    <2>2. Now \in SUBSET Ids
      BY <2>1, ListsAreIds
    <2>3. (list \in Admins \cup Users)' => (Now \in SUBSET Ids)'
      BY ListsAreIds, PTL
    <2> QED
      BY <2>1, <2>2, <2>3 DEF ListingInv, Ids
  <1>3. ListingTypeOK'
    BY <1>1, <1>2, BoundsAssumption DEF ListingInv, ListingTypeOK, Columns, Admins, Users, Ids
  <1>4. \A i : Ahead(i, Now)' = Ahead(i, Now')
    BY <1>1 DEF Ahead, Before
  <1>5. \A i : Cardinality(Ahead(i, Now)) \in Nat /\ Cardinality(Ahead(i, Now')) \in Nat
    BY <1>2, AheadIsFinite
  <1>6. Skip' = Skip /\ Shown' = Shown /\ Skip \in Nat /\ (Walking' <=> Walking)
    BY <1>1, Skipping DEF ListingInv, ListingTypeOK, Skip, Shown, Size, Walking, Whole
  <1>7. \A i, j : Before(i, j)' <=> Before(i, j)
    BY <1>1 DEF Before
  <1>8. NotPassed'
    <2> SUFFICES ASSUME Walking, NEW i \in kept', i \notin Shown,
                        ~\E j \in left' : Before(j, i), ~stale'
                 PROVE  Cardinality(Ahead(i, Now')) >= Skip
      BY <1>1, <1>4, <1>6, <1>7 DEF NotPassed, Rank
    <2>1. i \in kept /\ ~stale /\ ~\E j \in left : Before(j, i)
      BY <1>1
    <2>2. Cardinality(Ahead(i, Now)) >= Skip
      BY <2>1 DEF ListingInv, NotPassed, Rank
    <2>3. \A j \in Now : Before(j, i) => j \in Now'
      BY <1>1
    <2>4. Cardinality(Ahead(i, Now)) <= Cardinality(Ahead(i, Now'))
      BY <1>2, <2>3, RankGrows
    <2> QED
      BY <1>5, <1>6, <2>2, <2>4
  <1>9. Passed'
    <2> SUFFICES ASSUME Walking, Exact', NEW i \in Shown, i \in Now',
                        ~\E j \in came' : j = i \/ Before(j, i)
                 PROVE  Cardinality(Ahead(i, Now')) < Skip
      BY <1>1, <1>4, <1>6, <1>7 DEF Passed, Rank
    <2>1. Exact /\ i \in Now /\ ~\E j \in came : j = i \/ Before(j, i)
      BY <1>1 DEF Exact, ByIds
    <2>2. Cardinality(Ahead(i, Now)) < Skip
      BY <2>1 DEF ListingInv, Passed, Rank
    <2>3. \A j \in Now' : Before(j, i) => j \in Now
      BY <1>1
    <2>4. Cardinality(Ahead(i, Now')) <= Cardinality(Ahead(i, Now))
      BY <1>2, <2>3, RankGrows
    <2> QED
      BY <1>5, <1>6, <2>2, <2>4
  <1>10. FirstIsTrue'
    <2> SUFFICES ASSUME reader.step = "fetch", ~stale'
                 PROVE  /\ list \in Admins => Cardinality(Now') <= reader.total
                        /\ list \notin ByIds
      BY <1>1 DEF FirstIsTrue, Admins, ByIds
    <2>1. ~stale /\ list \notin ByIds /\ Now' \subseteq Now
      BY <1>1
    <2>2. list \in Admins => Cardinality(Now) <= reader.total
      BY <2>1 DEF ListingInv, FirstIsTrue
    <2>3. Cardinality(Now') <= Cardinality(Now)
      BY <1>2, <2>1, IdsAreFinite, FS_Subset
    <2>4. Cardinality(Now') \in Nat /\ Cardinality(Now) \in Nat /\ reader.total \in Int
      BY <1>2, IdsAreFinite DEF ListingInv, ListingTypeOK
    <2> QED
      BY <2>1, <2>2, <2>3, <2>4
  <1>11. NothingMissed'
    BY <1>1, <1>7 DEF ListingInv, NothingMissed
  <1>12. RepeatsForAReason'
    BY <1>1, <1>7 DEF ListingInv, RepeatsForAReason, ByIds
  <1> QED
    BY <1>1, <1>3, <1>8, <1>9, <1>10, <1>11, <1>12 DEF ListingInv

\* The client asks.
LEMMA AskKeeps ==
  ASSUME ListingInv, Ask
  PROVE  ListingInv'
  <1>1. /\ reader.step = "idle" /\ kept' = Now /\ came' = {} /\ left' = {}
        /\ UNCHANGED <<list, term, ofUser, row, nextId, changes, seen, stale>>
        /\ reader' = [reader EXCEPT !.step = "first", !.page = 1]
    <2>1. \A p \in 0 .. 1 : Answered(p) => PageAsked(p) = 1
      BY DEF Answered, PageAsked, Whole
    <2> QED
      BY <2>1 DEF Ask
  <1>2. list \in Admins \cup Users /\ Now \in SUBSET Ids
    BY ListsAreIds DEF ListingInv, ListingTypeOK
  <1>3. Now' = Now /\ \A i : Ahead(i, Now)' = Ahead(i, Now)
    BY <1>1, <1>2, NowStays
  <1>4. /\ reader'.step = "first" /\ reader'.page = 1 /\ seen = <<>>
        /\ reader' \in [step : {"idle", "first", "fetch", "done"}, page : Nat \ {0},
                        total : 0 .. MaxId, ids : SUBSET Ids]
    <2>1. reader \in [step : {"idle", "first", "fetch", "done"}, page : Nat \ {0},
                      total : 0 .. MaxId, ids : SUBSET Ids]
      BY DEF ListingInv, ListingTypeOK
    <2>2. seen = <<>>
      BY <1>1 DEF ListingInv
    <2>3. reader' = [step |-> "first", page |-> 1, total |-> reader.total, ids |-> reader.ids]
      BY <1>1, <2>1
    <2>4. reader.total \in 0 .. MaxId /\ reader.ids \in SUBSET Ids /\ 1 \in Nat \ {0}
      BY <2>1
    <2> QED
      BY <2>2, <2>3, <2>4
  <1>5. ListingTypeOK'
    BY <1>1, <1>2, <1>4 DEF ListingInv, ListingTypeOK, Columns, Admins, Users, Ids
  <1>6. Skip' = 0
    BY <1>1, <1>4, Skipping DEF Skip, Size, Whole
  <1>7. \A i : Cardinality(Ahead(i, Now)) \in Nat
    BY <1>2, AheadIsFinite
  <1>8. NotPassed'
    BY <1>3, <1>6, <1>7 DEF NotPassed, Rank
  <1>9. Shown' = {}
    BY <1>1, <1>4 DEF Shown, ToSet
  <1>10. Passed'
    BY <1>9 DEF Passed
  <1>11. FirstIsTrue' /\ NothingMissed'
    BY <1>4 DEF FirstIsTrue, NothingMissed
  <1>12. RepeatsForAReason'
    BY <1>1, <1>4 DEF RepeatsForAReason
  <1> QED
    BY <1>1, <1>3, <1>4, <1>5, <1>8, <1>10, <1>11, <1>12 DEF ListingInv

\* The rows are counted, or the ids read.
LEMMA FirstStatementKeeps ==
  ASSUME ListingInv, FirstStatement
  PROVE  ListingInv'
  <1> DEFINE total == IF list \in Admins THEN Cardinality(Listed) ELSE 0
             ids == IF list \in ByIds THEN IdsRead ELSE {}
  <1>1. /\ reader.step = "first"
        /\ reader' = [reader EXCEPT !.step = "fetch", !.total = total, !.ids = ids]
        /\ UNCHANGED <<list, term, ofUser, row, nextId, changes, seen, kept, came, left, stale>>
    BY DEF FirstStatement
  <1>2. /\ list \in Admins \cup Users /\ Now \in SUBSET Ids /\ Listed \in SUBSET Ids
        /\ IdsRead \in SUBSET Ids /\ (list \notin ByIds => Listed = Now)
    BY ListsAreIds DEF ListingInv, ListingTypeOK
  <1>3. Now' = Now /\ IdsRead' = IdsRead /\ \A i : Ahead(i, Now)' = Ahead(i, Now)
    BY <1>1, <1>2, NowStays
  <1>4. total \in 0 .. MaxId /\ ids \in SUBSET Ids
    BY <1>2, IdsAreFinite, BoundsAssumption
  <1>5. /\ list \in Admins => total = Cardinality(Now) /\ Cardinality(Now) \in Int
        /\ list \in ByIds => ids = IdsRead
    BY <1>2, IdsAreFinite DEF Admins, ByIds
  <1> HIDE DEF total, ids
  <1>6. /\ reader'.step = "fetch" /\ reader'.page = reader.page
        /\ reader'.total = total /\ reader'.ids = ids
        /\ reader' \in [step : {"idle", "first", "fetch", "done"}, page : Nat \ {0},
                        total : 0 .. MaxId, ids : SUBSET Ids]
    BY <1>1, <1>4 DEF ListingInv, ListingTypeOK
  <1>7. ListingTypeOK'
    BY <1>1, <1>2, <1>6 DEF ListingInv, ListingTypeOK, Columns, Admins, Users, Ids
  <1>8. Skip' = Skip /\ Shown' = Shown /\ Walking
    BY <1>1, <1>6 DEF Skip, Shown, Size, Walking, Whole
  <1>9. \A i, j : Before(i, j)' <=> Before(i, j)
    BY <1>1 DEF Before
  <1>10. NotPassed'
    BY <1>1, <1>3, <1>8, <1>9 DEF ListingInv, NotPassed, Rank
  <1>11. Passed'
    BY <1>1, <1>3, <1>8, <1>9 DEF ListingInv, Passed, Rank, Exact, ByIds
  <1>12. FirstIsTrue'
    BY <1>1, <1>3, <1>5, <1>6 DEF FirstIsTrue, Admins, ByIds
  <1>13. NothingMissed'
    BY <1>6 DEF NothingMissed
  <1>14. RepeatsForAReason'
    BY <1>1, <1>9 DEF ListingInv, RepeatsForAReason, ByIds
  <1> QED
    BY <1>1, <1>3, <1>6, <1>7, <1>10, <1>11, <1>12, <1>13, <1>14 DEF ListingInv

LEMMA PageAdded ==
  ASSUME NEW q \in Seq(SUBSET Ids), NEW P \in SUBSET Ids
  PROVE  /\ Append(q, P) \in Seq(SUBSET Ids)
         /\ UNION ToSet(Append(q, P)) = (UNION ToSet(q)) \cup P
         /\ DOMAIN Append(q, P) = 1 .. Len(q) + 1 /\ DOMAIN q = 1 .. Len(q) /\ Len(q) \in Nat
         /\ \A m \in DOMAIN q : Append(q, P)[m] = q[m] /\ q[m] \subseteq UNION ToSet(q)
         /\ Append(q, P)[Len(q) + 1] = P
  <1> DEFINE a == Append(q, P)
  <1>1. /\ a \in Seq(SUBSET Ids)
        /\ DOMAIN a = 1 .. Len(q) + 1 /\ DOMAIN q = 1 .. Len(q) /\ Len(q) \in Nat
        /\ \A m \in 1 .. Len(q) : a[m] = q[m]
        /\ a[Len(q) + 1] = P
    OBVIOUS
  <1> HIDE DEF a
  <1>2. ASSUME NEW i
        PROVE  i \in UNION ToSet(a) <=> i \in (UNION ToSet(q)) \cup P
    <2>1. i \in UNION ToSet(a) <=> \E m \in DOMAIN a : i \in a[m]
      BY DEF ToSet
    <2>2. i \in UNION ToSet(q) <=> \E m \in DOMAIN q : i \in q[m]
      BY DEF ToSet
    <2>3. \A m \in DOMAIN a : m \in DOMAIN q \/ m = Len(q) + 1
      BY <1>1
    <2>4. DOMAIN q \subseteq DOMAIN a /\ Len(q) + 1 \in DOMAIN a
      BY <1>1
    <2> QED
      BY <1>1, <2>1, <2>2, <2>3, <2>4
  <1>3. \A m \in DOMAIN q : q[m] \subseteq UNION ToSet(q)
    BY DEF ToSet
  <1> QED
    BY <1>1, <1>2, <1>3 DEF a

\* The page arrives.
LEMMA FetchKeeps ==
  ASSUME ListingInv, Fetch
  PROVE  ListingInv'
  <1> DEFINE P == PageOf(reader.page)
             end == IF list \in Admins THEN reader.page >= LastPage(reader.total)
                    ELSE Cardinality(P) < Size
  <1>1. /\ reader.step = "fetch" /\ seen' = Append(seen, P)
        /\ reader' = IF end THEN [reader EXCEPT !.step = "done"]
                     ELSE [reader EXCEPT !.step = "first", !.page = @ + 1]
        /\ UNCHANGED <<list, term, ofUser, row, nextId, changes, kept, came, left, stale>>
    BY DEF Fetch
  <1>2. /\ list \in Admins \cup Users /\ Now \in SUBSET Ids /\ Listed \in SUBSET Ids
        /\ reader.page \in Nat \ {0} /\ reader.total \in Nat /\ reader.ids \in SUBSET Ids
        /\ reader \in [step : {"idle", "first", "fetch", "done"}, page : Nat \ {0},
                       total : 0 .. MaxId, ids : SUBSET Ids]
        /\ seen \in Seq(SUBSET Ids) /\ kept \subseteq Now
    BY ListsAreIds DEF ListingInv, ListingTypeOK
  <1>3. Now' = Now /\ \A i : Ahead(i, Now)' = Ahead(i, Now)
    BY <1>1, <1>2, NowStays
  <1>4. ~stale => Exact
    BY DEF Exact
  <1>5. Exact => Listed = Now
    BY <1>1, ListsAreIds, <1>2 DEF Exact, ListingInv, FirstIsTrue
  <1>6. Size \in Nat \ {0} /\ Skip \in Nat /\ reader.page * Size = Skip + Size
    BY <1>2, Skipping DEF Skip
  <1>7. \A i : i \in P <=> i \in Listed /\ Cardinality(Ahead(i, Listed)) \in Skip .. Skip + Size - 1
    BY DEF PageOf, Skip
  <1>8. P \in SUBSET Ids
    BY <1>2, <1>7
  <1>9. \A i : Rank(i) \in Nat
    BY <1>2, AheadIsFinite DEF Rank
  <1>10. \A i, j : Before(i, j)' <=> Before(i, j)
    BY <1>1 DEF Before
  <1> HIDE DEF P, end
  <1>11. Shown' = Shown \cup P /\ seen' \in Seq(SUBSET Ids)
    BY <1>1, <1>2, <1>8, PageAdded DEF Shown
  <1>12. ASSUME ~stale, NEW i \in kept \ Shown', ~\E j \in left : Before(j, i)
         PROVE  i \in Now /\ Rank(i) >= Skip + Size
    <2>1. i \in Now /\ Rank(i) >= Skip
      BY <1>1, <1>2, <1>11, <1>12 DEF ListingInv, NotPassed, Walking
    <2>2. i \notin P /\ Listed = Now
      BY <1>4, <1>5, <1>11, <1>12
    <2> QED
      BY <1>6, <1>7, <1>9, <2>1, <2>2 DEF Rank
  <1>13. ASSUME Exact, NEW i \in Shown' \cap Now, ~\E j \in came : j = i \/ Before(j, i)
         PROVE  Rank(i) < Skip + Size
    <2>1. CASE i \in Shown
      <3>1. Rank(i) < Skip
        BY <1>1, <1>13, <2>1 DEF ListingInv, Passed, Walking
      <3> QED
        BY <1>6, <1>9, <3>1
    <2>2. CASE i \in P
      BY <1>5, <1>6, <1>7, <1>9, <1>13, <2>2 DEF Rank
    <2> QED
      BY <1>11, <1>13, <2>1, <2>2
  <1>14. /\ reader' \in [step : {"idle", "first", "fetch", "done"}, page : Nat \ {0},
                         total : 0 .. MaxId, ids : SUBSET Ids]
         /\ end => reader'.step = "done"
         /\ ~end => reader'.step = "first" /\ reader'.page = reader.page + 1
    <2>1. CASE end
      BY <1>1, <1>2, <2>1
    <2>2. CASE ~end
      <3>1. reader' = [step |-> "first", page |-> reader.page + 1,
                       total |-> reader.total, ids |-> reader.ids]
        BY <1>1, <1>2, <2>2
      <3>2. reader.page + 1 \in Nat \ {0} /\ reader.total \in 0 .. MaxId
        BY <1>2
      <3> QED
        BY <1>2, <2>2, <3>1, <3>2
    <2> QED
      BY <2>1, <2>2
  <1>15. ListingTypeOK'
    BY <1>1, <1>11, <1>14 DEF ListingInv, ListingTypeOK, Columns, Admins, Users, Ids
  <1>16. ~end => Skip' = Skip + Size
    <2>1. Size' = Size
      BY <1>1 DEF Size, Whole
    <2>2. Skip' = (reader'.page - 1) * Size
      BY <2>1 DEF Skip
    <2>3. ~end => reader'.page - 1 = reader.page
      BY <1>2, <1>14
    <2>4. ~end => Skip' = reader.page * Size
      BY <2>2, <2>3, Zenon
    <2> QED
      BY <1>6, <2>4, Zenon
  <1>17. NotPassed'
    <2> SUFFICES ASSUME ~end, ~stale, NEW i \in kept \ Shown', ~\E j \in left : Before(j, i)
                 PROVE  Rank(i) >= Skip + Size
      BY <1>1, <1>3, <1>10, <1>14, <1>16 DEF NotPassed, Rank, Walking
    <2> QED
      BY <1>12
  <1>18. Passed'
    <2> SUFFICES ASSUME ~end, Exact, NEW i \in Shown' \cap Now,
                        ~\E j \in came : j = i \/ Before(j, i)
                 PROVE  Rank(i) < Skip + Size
      BY <1>1, <1>3, <1>10, <1>14, <1>16 DEF Passed, Rank, Walking, Exact, ByIds
    <2> QED
      BY <1>13
  <1>19. FirstIsTrue'
    BY <1>14 DEF FirstIsTrue
  <1>20. NothingMissed'
    <2> SUFFICES ASSUME end, ~stale, NEW i \in kept \ Shown', ~\E j \in left : Before(j, i)
                 PROVE  FALSE
      BY <1>1, <1>10, <1>14 DEF NothingMissed, Shown
    <2>1. i \in Now /\ Rank(i) >= Skip + Size
      BY <1>12
    <2>2. CASE list \in Admins
      <3>1. Rank(i) < Cardinality(Now) /\ Cardinality(Now) <= reader.total /\ Cardinality(Now) \in Nat
        BY <1>1, <1>2, <2>1, <2>2, RankIsBounded, IdsAreFinite
        DEF ListingInv, FirstIsTrue, Rank
      <3>2. Size = Take
        BY <2>2 DEF Admins, Whole, Size
      <3>3. LastPage(reader.total) \in Nat /\ reader.total <= LastPage(reader.total) * Size
        BY <1>2, <3>2, LastPageCovers
      <3>4. LastPage(reader.total) <= reader.page
        BY <1>2, <2>2, <3>3 DEF end
      <3>5. LastPage(reader.total) * Size <= reader.page * Size
        BY <1>2, <1>6, <3>3, <3>4
      <3>6. reader.total <= Skip + Size
        BY <1>2, <1>6, <3>3, <3>5
      <3> QED
        BY <1>2, <1>6, <1>9, <2>1, <3>1, <3>6
    <2>3. CASE list \notin Admins
      <3>1. Cardinality(P) < Size
        BY <2>3 DEF end
      <3>2. P = {j \in Now : Cardinality(Ahead(j, Now)) \in Skip .. Skip + Size - 1}
        BY <1>4, <1>5, <1>7
      <3>3. Size <= Cardinality(P)
        BY <1>2, <1>6, <2>1, <3>2, FullPage DEF Rank
      <3>4. Cardinality(P) \in Nat
        BY <1>8, IdsAreFinite
      <3> QED
        BY <1>6, <3>1, <3>3, <3>4
    <2> QED
      BY <2>2, <2>3
  <1>21. RepeatsForAReason'
    <2> SUFFICES ASSUME NEW m \in DOMAIN seen', NEW n \in DOMAIN seen', m < n,
                        NEW i \in seen'[m] \cap seen'[n], Exact
                 PROVE  \E j \in came : j = i \/ Before(j, i)
      BY <1>1, <1>10 DEF RepeatsForAReason, Exact, ByIds
    <2>1. /\ DOMAIN seen' = 1 .. Len(seen) + 1 /\ DOMAIN seen = 1 .. Len(seen) /\ Len(seen) \in Nat
          /\ \A k \in DOMAIN seen : seen'[k] = seen[k] /\ seen[k] \subseteq Shown
          /\ seen'[Len(seen) + 1] = P
      <3>1. /\ DOMAIN Append(seen, P) = 1 .. Len(seen) + 1
            /\ DOMAIN seen = 1 .. Len(seen) /\ Len(seen) \in Nat
            /\ \A k \in DOMAIN seen : Append(seen, P)[k] = seen[k] /\ seen[k] \subseteq UNION ToSet(seen)
            /\ Append(seen, P)[Len(seen) + 1] = P
        BY <1>2, <1>8, PageAdded
      <3> QED
        BY <1>1, <3>1 DEF Shown
    <2>2. m \in DOMAIN seen /\ seen'[m] = seen[m] /\ i \in Shown
      BY <2>1
    <2>3. CASE n \in DOMAIN seen
      BY <2>1, <2>2, <2>3 DEF ListingInv, RepeatsForAReason, Exact
    <2>4. CASE n = Len(seen) + 1
      <3>1. i \in P /\ Listed = Now
        BY <1>5, <2>1, <2>4
      <3>2. i \in Now /\ ~(Rank(i) < Skip)
        BY <1>6, <1>7, <1>9, <3>1 DEF Rank
      <3> QED
        BY <1>1, <2>2, <3>2 DEF ListingInv, Passed, Walking
    <2> QED
      BY <2>1, <2>3, <2>4
  <1> QED
    BY <1>1, <1>2, <1>3, <1>14, <1>15, <1>17, <1>18, <1>19, <1>20, <1>21 DEF ListingInv

LEMMA ListingInvNext == ListingInv /\ [ListingNext]_listingVars => ListingInv'
  <1> SUFFICES ASSUME ListingInv, [ListingNext]_listingVars
               PROVE  ListingInv'
    OBVIOUS
  <1>1. nextId \in 1 .. MaxId + 1 /\ MaxId \in Nat
    BY BoundsAssumption DEF ListingInv, ListingTypeOK
  <1>2. ASSUME NEW r \in SUBSET Columns(list), createAdminFaq(r)
        PROVE  ListingInv'
    <2>1. nextId \in Ids /\ nextId' \in 1 .. MaxId + 1 /\ Change(nextId, r)
      BY <1>1, <1>2 DEF createAdminFaq, Ids
    <2> QED
      BY <2>1, ChangeKeeps
  <1>3. ASSUME NEW r \in SUBSET Columns(list), NEW i \in Ids, updateAdminFaq(i, r)
        PROVE  ListingInv'
    BY <1>1, <1>3, ChangeKeeps DEF updateAdminFaq
  <1>4. ASSUME NEW i \in Ids, deleteAdminFaq(i)
        PROVE  ListingInv'
    BY <1>1, <1>4, ChangeKeeps DEF deleteAdminFaq
  <1>5. CASE UNCHANGED listingVars
    <2>1. UNCHANGED <<list, term, ofUser, row, nextId, changes, reader, seen, kept, came, left, stale>>
      BY <1>5 DEF listingVars
    <2>2. list \in Admins \cup Users
      BY DEF ListingInv, ListingTypeOK
    <2>3. Now' = Now /\ IdsRead' = IdsRead /\ \A i : Ahead(i, Now)' = Ahead(i, Now)
      BY <2>1, <2>2, NowStays
    <2>4. \A i, j : Before(i, j)' <=> Before(i, j)
      BY <2>1 DEF Before
    <2>5. Skip' = Skip /\ Shown' = Shown
      BY <2>1 DEF Skip, Shown, Size, Whole
    <2>6. ListingTypeOK' /\ kept' \subseteq Now'
      BY <2>1, <2>3 DEF ListingInv, ListingTypeOK, Columns, Admins, Users, Ids
    <2>7. NotPassed' /\ Passed' /\ FirstIsTrue'
      BY <2>1, <2>3, <2>4, <2>5
      DEF ListingInv, NotPassed, Passed, FirstIsTrue, Walking, Rank, Exact, ByIds, Admins
    <2>8. NothingMissed' /\ RepeatsForAReason'
      BY <2>1, <2>4 DEF ListingInv, NothingMissed, RepeatsForAReason, ByIds
    <2> QED
      BY <2>1, <2>6, <2>7, <2>8 DEF ListingInv
  <1> QED
    BY <1>2, <1>3, <1>4, <1>5, AskKeeps, FirstStatementKeeps, FetchKeeps DEF ListingNext

-----------------------------------------------------------------------------
\* The theorems.

\* The inductive invariant, with the types.
THEOREM ListingInvariant == ListingSpec => []ListingInv
  BY ListingInvInit, ListingInvNext, PTL DEF ListingSpec

\* Whoever reads to the end is shown every row that was listed all the time, but
\* for the rows a deletion or a stale count moved (admin.service.ts, the lists).
THEOREM NothingMissedHolds == ListingSpec => []NothingMissed
  <1>1. ListingInv => NothingMissed
    BY DEF ListingInv
  <1> QED
    BY <1>1, ListingInvariant, PTL

\* A row comes twice only behind a new one, or when it came back itself
\* (meetups.repository.ts, getMeetups: newest first).
THEOREM RepeatsForAReasonHolds == ListingSpec => []RepeatsForAReason
  <1>1. ListingInv => RepeatsForAReason
    BY DEF ListingInv
  <1> QED
    BY <1>1, ListingInvariant, PTL
===============================================================================
