--------------------------- MODULE ImageListProofs ---------------------------
(***************************************************************************)
(* For any number of images and any page size, the pages of a walk are     *)
(* disjoint and descend, also when the cursor's row is judged or deleted,  *)
(* and miss no photo that was there throughout unless it is deleted.       *)
(***************************************************************************)
EXTENDS ImageList, FiniteSetTheorems, TLAPS

(* While the walk goes on, nothing below the cursor has been listed.       *)
PagesDescend ==
  walking => /\ cursor = 0 => \A i \in Image : listed[i] = 0
             /\ cursor # 0 => \A i \in Image : listed[i] > 0 => cursor <= i

IInv == /\ TypeOK
        /\ NothingIsListedTwice
        /\ cursor # 0 => listed[cursor] = 1
        /\ PagesDescend

USE ImagesAreNumbered

(* Nothing was listed yet.                                                 *)
LEMMA InitEstablishesIInv == Init => IInv
BY DEF Init, IInv, TypeOK, NothingIsListedTwice, PagesDescend, Statuses, Present, Matching

(* What a page is taken from lies below the cursor.                        *)
LEMMA FromLiesBelowTheCursor ==
  ASSUME TypeOK, NEW i \in From(cursor)
  PROVE  i \in Image /\ (cursor # 0 => i < cursor)
<1>1. CASE cursor = 0
  BY <1>1 DEF From, Matching
<1>2. CASE cursor # 0
  <2>1. cursor \in Nat /\ cursor \in Image
    BY <1>2 DEF TypeOK
  <2>2. i \in SkipFirst({j \in Matching : j <= cursor})
    BY <1>2 DEF From
  <2>3. PICK j \in {j \in Matching : j <= cursor} : i < j
    BY <2>2 DEF SkipFirst
  <2>4. i \in Image /\ i \in Nat /\ j \in Nat
    BY <2>2 DEF SkipFirst, Matching
  <2> QED
    BY <2>1, <2>3, <2>4
<1> QED
  BY <1>1, <1>2

(* A page adds images that were not listed, and moves the cursor below.    *)
LEMMA ListPagePreservesIInv == IInv /\ ListPage => IInv'
<1> SUFFICES ASSUME IInv, ListPage PROVE IInv'
  OBVIOUS
<1> DEFINE set == From(cursor)
           page == {i \in set : Cardinality(Newer(i, set)) < Limit}
<1>1. TypeOK /\ walking
  BY DEF IInv, ListPage
<1>2. \A i \in page : i \in Image /\ (cursor # 0 => i < cursor)
  BY <1>1, FromLiesBelowTheCursor
<1>3. listed' = [i \in Image |-> IF i \in page THEN listed[i] + 1 ELSE listed[i]]
  BY DEF ListPage
<1>4. filter' = filter /\ rows' = rows /\ steady' = steady
  BY DEF ListPage
<1>5. \/ /\ cursor' \in page
         /\ \A j \in page : cursor' <= j
         /\ walking' = walking
      \/ walking' = FALSE /\ cursor' = cursor
  BY DEF ListPage, LastRow
<1> HIDE DEF page
<1>6. \A i \in page : listed[i] = 0
  <2> SUFFICES ASSUME NEW i \in page PROVE listed[i] = 0
    OBVIOUS
  <2>1. i \in Image /\ i \in Nat /\ listed[i] \in Nat
    BY <1>1, <1>2 DEF TypeOK
  <2>2. CASE cursor = 0
    BY <1>1, <2>1, <2>2 DEF IInv, PagesDescend
  <2>3. CASE cursor # 0
    <3>1. i < cursor /\ cursor \in Nat
      BY <1>1, <1>2, <2>3 DEF TypeOK
    <3>2. ~(listed[i] > 0)
      BY <1>1, <2>1, <2>3, <3>1 DEF IInv, PagesDescend
    <3> QED
      BY <2>1, <3>2
  <2> QED
    BY <2>2, <2>3
<1>7. \A i \in Image : listed'[i] = IF i \in page THEN 1 ELSE listed[i]
  BY <1>3, <1>6
<1>8. TypeOK'
  <2>1. listed' \in [Image -> Nat]
    BY <1>1, <1>3 DEF TypeOK
  <2> QED
    BY <1>1, <1>2, <1>4, <1>5, <2>1 DEF TypeOK
<1>9. NothingIsListedTwice'
  BY <1>7 DEF IInv, NothingIsListedTwice
<1>10. (cursor # 0 => listed[cursor] = 1)'
  <2>1. CASE cursor' \in page
    BY <1>2, <1>7, <2>1
  <2>2. CASE cursor' = cursor /\ cursor' \notin page
    <3> SUFFICES ASSUME cursor # 0 PROVE listed'[cursor] = 1
      BY <2>2
    <3>1. cursor \in Image /\ listed[cursor] = 1
      BY <1>1 DEF IInv, TypeOK
    <3> QED
      BY <1>7, <2>2, <3>1
  <2> QED
    BY <1>5, <2>1, <2>2
<1>11. PagesDescend'
  <2> SUFFICES ASSUME walking'
               PROVE /\ cursor' # 0
                     /\ \A i \in Image : listed'[i] > 0 => cursor' <= i
    BY DEF PagesDescend
  <2>1. cursor' \in page /\ \A j \in page : cursor' <= j
    BY <1>5
  <2>2. cursor' \in Image /\ cursor' \in Nat \ {0} /\ (cursor # 0 => cursor' < cursor)
    BY <1>2, <2>1
  <2>3. ASSUME NEW i \in Image, listed'[i] > 0 PROVE cursor' <= i
    <3>1. CASE i \in page
      BY <2>1, <3>1
    <3>2. CASE i \notin page
      <4>1. listed[i] > 0
        BY <1>7, <2>3, <3>2
      <4>2. cursor # 0 /\ cursor <= i
        BY <1>1, <4>1 DEF IInv, PagesDescend
      <4>3. cursor \in Nat /\ i \in Nat
        BY <1>1 DEF TypeOK
      <4> QED
        BY <2>2, <4>2, <4>3
    <3> QED
      BY <3>1, <3>2
  <2> QED
    BY <2>2, <2>3
<1> QED
  BY <1>8, <1>9, <1>10, <1>11 DEF IInv

(* Whatever happens to the rows does not touch what was listed.            *)
LEMMA RowChangesPreserveIInv ==
  ASSUME IInv, NEW i \in Image, NEW from, NEW to \in Statuses, ChangeRow(i, from, to)
  PROVE  IInv'
BY DEF IInv, TypeOK, NothingIsListedTwice, PagesDescend, ChangeRow

(* A page, or a change of a row.                                           *)
LEMMA NextPreservesIInv == IInv /\ [Next]_vars => IInv'
<1> SUFFICES ASSUME IInv, [Next]_vars PROVE IInv'
  OBVIOUS
<1>1. CASE UNCHANGED vars
  BY <1>1 DEF vars, IInv, TypeOK, NothingIsListedTwice, PagesDescend
<1>2. CASE ListPage
  BY <1>2, ListPagePreservesIInv
<1>3. ASSUME NEW i \in Image, Upload(i) PROVE IInv'
  BY <1>3, RowChangesPreserveIInv DEF Upload, Statuses, Present
<1>4. ASSUME NEW i \in Image, Verdict(i) PROVE IInv'
  BY <1>4, RowChangesPreserveIInv DEF Verdict, Statuses, Present
<1>5. ASSUME NEW i \in Image, Delete(i) PROVE IInv'
  BY <1>5, RowChangesPreserveIInv DEF Delete, Statuses, Present
<1> QED
  BY <1>1, <1>2, <1>3, <1>4, <1>5 DEF Next

(* The invariant.                                                          *)
LEMMA IInvHolds == Spec => []IInv
BY InitEstablishesIInv, NextPreservesIInv, PTL DEF Spec

(* No photo is on two pages of a walk.                                     *)
THEOREM PagesAreDisjoint == Spec => []NothingIsListedTwice
<1>1. IInv => NothingIsListedTwice
  BY DEF IInv
<1> QED
  BY <1>1, IInvHolds, PTL

(* The cursor is the oldest photo listed so far.                           *)
THEOREM CursorDescends == Spec => []CursorIsTheOldestListed
<1>1. IInv => CursorIsTheOldestListed
  BY DEF IInv, PagesDescend, CursorIsTheOldestListed
<1> QED
  BY <1>1, IInvHolds, PTL

-----------------------------------------------------------------------------
(* What a walk does not miss. *)

(* A steady photo still matches; the cursor was a photo when it became the *)
(* cursor; and if every status was asked for, all that is steady down to   *)
(* the cursor has been listed.                                             *)
NothingIsSkipped ==
  /\ \A i \in steady : rows[i] \in filter
  /\ cursor # 0 => rows[cursor] # "absent"
  /\ filter = Present /\ walking /\ cursor # 0
       => \A i \in steady : cursor <= i => listed[i] > 0

WalkInv == IInv /\ NothingIsSkipped /\ FullWalksAreComplete

(* Below a cursor that is still a photo, a page is taken from all photos.  *)
LEMMA FromHasWhatIsBelow ==
  ASSUME TypeOK, filter = Present, cursor # 0 => rows[cursor] \in Present,
         NEW i \in Matching, cursor # 0 => i < cursor
  PROVE  i \in From(cursor)
<1>1. CASE cursor = 0
  BY <1>1 DEF From
<1>2. CASE cursor # 0
  <2>1. cursor \in Nat /\ i \in Nat /\ cursor \in Image
    BY <1>2 DEF TypeOK, Matching
  <2>2. cursor \in {j \in Matching : j <= cursor} /\ i \in {j \in Matching : j <= cursor}
    BY <1>2, <2>1 DEF Matching
  <2>3. i \in SkipFirst({j \in Matching : j <= cursor})
    BY <1>2, <2>2 DEF SkipFirst
  <2> QED
    BY <1>2, <2>3 DEF From
<1> QED
  BY <1>1, <1>2

(* A page has all that is newer than its last row.                         *)
LEMMA PagesHaveNoGaps ==
  ASSUME NEW set \in SUBSET Image, NEW i \in set, NEW j \in set, j <= i,
         Cardinality(Newer(j, set)) < Limit
  PROVE  Cardinality(Newer(i, set)) < Limit
<1>1. i \in Nat /\ j \in Nat /\ set \subseteq Nat
  OBVIOUS
<1>2. Newer(i, set) \subseteq Newer(j, set)
  <2>1. \A k \in set : k \in Nat /\ (i < k => j < k)
    BY <1>1
  <2> QED
    BY <2>1 DEF Newer
<1>3. IsFiniteSet(Newer(j, set))
  <2>1. Newer(j, set) \subseteq Image
    BY DEF Newer
  <2> QED
    BY <2>1, FS_Subset
<1>4. /\ IsFiniteSet(Newer(i, set))
      /\ Cardinality(Newer(i, set)) <= Cardinality(Newer(j, set))
  BY <1>2, <1>3, FS_Subset
<1>5. Cardinality(Newer(i, set)) \in Nat /\ Cardinality(Newer(j, set)) \in Nat
  BY <1>3, <1>4, FS_CardinalityType
<1> QED
  BY <1>4, <1>5, LimitIsPositive

(* Nothing was walked past.                                                *)
LEMMA InitEstablishesWalkInv == Init => WalkInv
<1> SUFFICES ASSUME Init PROVE NothingIsSkipped /\ FullWalksAreComplete
  BY InitEstablishesIInv DEF WalkInv
<1> QED
  BY DEF Init, NothingIsSkipped, FullWalksAreComplete, Matching

(* A page lists what is steady down to the new cursor, and the last page   *)
(* all that is left.                                                       *)
LEMMA ListPagePreservesWalkInv == WalkInv /\ ListPage => WalkInv'
<1> SUFFICES ASSUME WalkInv, ListPage PROVE NothingIsSkipped' /\ FullWalksAreComplete'
  BY ListPagePreservesIInv DEF WalkInv
<1> DEFINE set == From(cursor)
           page == {i \in set : Cardinality(Newer(i, set)) < Limit}
<1>1. TypeOK /\ walking /\ UNCHANGED <<filter, rows, steady>>
  BY DEF WalkInv, IInv, ListPage
<1>2. listed' = [i \in Image |-> IF i \in page THEN listed[i] + 1 ELSE listed[i]]
  BY DEF ListPage
<1>3. \/ /\ set # page
         /\ cursor' \in page
         /\ \A j \in page : cursor' <= j
      \/ set = page /\ walking' = FALSE /\ cursor' = cursor
  BY DEF ListPage, LastRow
<1>4. set \subseteq Image /\ set \subseteq Matching
  BY DEF From, SkipFirst, Matching
<1>5. \A i \in Image : listed[i] > 0 \/ i \in page => listed'[i] > 0
  <2>1. \A i \in Image : listed[i] \in Nat
    BY <1>1 DEF TypeOK
  <2> HIDE DEF page
  <2> QED
    BY <1>2, <2>1
<1>6. ASSUME filter = Present, cursor # 0 => rows[cursor] \in Present, NEW i \in steady
      PROVE  listed[i] > 0 \/ i \in set
  <2>1. i \in Matching /\ i \in Nat /\ cursor \in Nat
    BY <1>1 DEF WalkInv, NothingIsSkipped, TypeOK, Matching
  <2>2. CASE cursor # 0 /\ cursor <= i
    BY <1>1, <1>6, <2>2 DEF WalkInv, NothingIsSkipped
  <2>3. CASE cursor # 0 => i < cursor
    BY <1>1, <1>6, <2>1, <2>3, FromHasWhatIsBelow
  <2> QED
    BY <2>1, <2>2, <2>3
<1>7. \A i \in steady : rows[i] \in filter /\ i \in Image
  BY <1>1 DEF WalkInv, NothingIsSkipped, TypeOK
<1>8. CASE set = page /\ walking' = FALSE /\ cursor' = cursor
  <2> HIDE DEF set, page
  <2>1. FullWalksAreComplete'
    BY <1>1, <1>5, <1>6, <1>7, <1>8 DEF FullWalksAreComplete
  <2> QED
    BY <1>1, <1>8, <2>1 DEF WalkInv, NothingIsSkipped
<1>9. CASE /\ set # page
           /\ cursor' \in page
           /\ \A j \in page : cursor' <= j
  <2>1. cursor # 0 => rows[cursor] \in Present
    <3>1. set # {}
      BY <1>9
    <3> QED
      BY <3>1 DEF From
  <2>2. cursor' \in set /\ Cardinality(Newer(cursor', set)) < Limit
    BY <1>9
  <2>3. ASSUME NEW i \in steady, filter = Present, cursor' <= i PROVE listed'[i] > 0
    <3>1. CASE listed[i] > 0
      BY <1>5, <1>7, <3>1
    <3>2. CASE i \in set
      <4>1. Cardinality(Newer(i, set)) < Limit
        <5> HIDE DEF set
        <5> QED
          BY <1>4, <2>2, <2>3, <3>2, PagesHaveNoGaps
      <4> QED
        BY <1>5, <1>7, <3>2, <4>1
    <3> QED
      BY <1>6, <2>1, <2>3, <3>1, <3>2
  <2>4. rows[cursor'] # "absent"
    <3>1. cursor' \in Matching
      BY <1>4, <2>2
    <3> QED
      BY <1>1, <3>1 DEF Matching, TypeOK, Present
  <2>5. walking'
    <3>1. walking' = walking
      BY <1>9 DEF ListPage
    <3> QED
      BY <1>1, <3>1
  <2> HIDE DEF set, page
  <2> QED
    BY <1>1, <1>7, <2>3, <2>4, <2>5 DEF NothingIsSkipped, FullWalksAreComplete
<1> QED
  BY <1>3, <1>8, <1>9

(* No row comes back, so a cursor that is a photo has always been one.     *)
LEMMA RowChangesPreserveWalkInv ==
  ASSUME WalkInv, NEW i \in Image, NEW from \in Statuses, NEW to \in Statuses,
         from # "deleted", to # "absent", ChangeRow(i, from, to)
  PROVE  WalkInv'
<1>1. IInv'
  BY RowChangesPreserveIInv DEF WalkInv
<1>2. TypeOK /\ UNCHANGED <<filter, cursor, walking, listed>>
  BY DEF WalkInv, IInv, ChangeRow
<1>3. /\ rows[i] = from
      /\ \A j \in Image : rows'[j] = IF j = i THEN to ELSE rows[j]
      /\ steady' \subseteq steady
      /\ i \in steady' => to \in filter
  BY <1>2 DEF ChangeRow, TypeOK
<1>4. cursor # 0 => cursor \in Image /\ rows[cursor] # "absent"
  BY <1>2 DEF WalkInv, NothingIsSkipped, TypeOK
<1>5. NothingIsSkipped'
  <2>1. \A j \in steady' : rows'[j] \in filter /\ j \in steady /\ j \in Image
    BY <1>2, <1>3 DEF WalkInv, NothingIsSkipped, TypeOK
  <2> QED
    BY <1>2, <1>3, <1>4, <2>1 DEF WalkInv, NothingIsSkipped
<1>6. FullWalksAreComplete'
  <2>1. cursor # 0 /\ rows'[cursor] \in Present => rows[cursor] \in Present
    BY <1>3, <1>4 DEF Present, Statuses
  <2> QED
    BY <1>2, <1>3, <2>1 DEF WalkInv, FullWalksAreComplete
<1> QED
  BY <1>1, <1>5, <1>6 DEF WalkInv

(* A page, or a change of a row.                                           *)
LEMMA NextPreservesWalkInv == WalkInv /\ [Next]_vars => WalkInv'
<1> SUFFICES ASSUME WalkInv, [Next]_vars PROVE WalkInv'
  OBVIOUS
<1>1. CASE UNCHANGED vars
  BY <1>1 DEF vars, WalkInv, IInv, TypeOK, NothingIsListedTwice, PagesDescend,
     NothingIsSkipped, FullWalksAreComplete
<1>2. CASE ListPage
  BY <1>2, ListPagePreservesWalkInv
<1>3. ASSUME NEW i \in Image, Upload(i) \/ Verdict(i) \/ Delete(i) PROVE WalkInv'
  BY <1>3, RowChangesPreserveWalkInv DEF Upload, Verdict, Delete, Statuses, Present
<1> QED
  BY <1>1, <1>2, <1>3 DEF Next

(* A walk through all statuses whose last cursor is still a photo has      *)
(* listed every photo that was there throughout, whatever was uploaded,    *)
(* judged and deleted around it.                                           *)
THEOREM FullWalksMissNothing == Spec => []FullWalksAreComplete
<1>1. WalkInv => FullWalksAreComplete
  BY DEF WalkInv
<1> QED
  BY <1>1, InitEstablishesWalkInv, NextPreservesWalkInv, PTL DEF Spec
=============================================================================
