------------------------------ MODULE ImageList ------------------------------
(***************************************************************************)
(* GET /api/images page by page: ImageService.list of                      *)
(* apps/api/src/images/image.service.ts, and a client that follows         *)
(* nextCursor to the end while photos are uploaded, judged and deleted.    *)
(* Images are numbered in the order of (createdAt, id), newest highest.    *)
(***************************************************************************)
EXTENDS Integers, FiniteSets

CONSTANTS
  Image,
  Limit       (* images per page                                            *)

ASSUME ImagesAreNumbered == Image \subseteq Nat \ {0} /\ IsFiniteSet(Image)
ASSUME LimitIsPositive == Limit \in Nat \ {0}

VARIABLES
  filter,     (* the statuses the walk asks for                             *)
  rows,       (* status of each image                                       *)
  cursor,     (* the cursor to send next; 0 is none                         *)
  walking,    (* the last page had a nextCursor                             *)
  listed,     (* how often each image was on a page                         *)
  steady      (* images that matched the filter ever since the walk began   *)

vars == <<filter, rows, cursor, walking, listed, steady>>

Present == {"waiting", "settled"}
Statuses == {"absent", "waiting", "settled", "deleted"}

Matching == {i \in Image : rows[i] \in filter}

(* ?status= names one status, or is left out. *)
Init == /\ filter \in {{"waiting"}, {"settled"}, Present}
        /\ rows \in [Image -> {"absent", "waiting", "settled"}]
        /\ cursor = 0
        /\ walking = TRUE
        /\ listed = [i \in Image |-> 0]
        /\ steady = Matching

(* Mutant: the cursor row is not skipped. *)
SkipNothing(set) == set

(* skip: 1 *)
SkipFirst(set) == {i \in set : \E j \in set : i < j}

(* Prisma looks the cursor row up by its id, whatever its status; without  *)
(* that row, no row compares with it.                                      *)
From(c) == IF c = 0 THEN Matching
           ELSE IF rows[c] \notin Present THEN {}
           ELSE SkipFirst({i \in Matching : i <= c})

Newer(i, set) == {j \in set : i < j}

(* Mutant: the cursor is the row looked ahead for. *)
LookaheadRow(set, page) == {i \in set \ page : \A j \in set \ page : j <= i}

(* page.at(-1) *)
LastRow(set, page) == {i \in page : \A j \in page : i <= j}

ListPage ==
  LET set == From(cursor)
      page == {i \in set : Cardinality(Newer(i, set)) < Limit}
  IN  /\ walking
      /\ listed' = [i \in Image |-> IF i \in page THEN listed[i] + 1 ELSE listed[i]]
      /\ \/ /\ set # page
            /\ cursor' \in LastRow(set, page)
            /\ UNCHANGED walking
         \/ /\ set = page
            /\ walking' = FALSE
            /\ UNCHANGED cursor
      /\ UNCHANGED <<filter, rows, steady>>

-----------------------------------------------------------------------------
(* Meanwhile. *)

ChangeRow(i, from, to) == /\ rows[i] = from
                          /\ rows' = [rows EXCEPT ![i] = to]
                          /\ steady' = IF to \in filter THEN steady ELSE steady \ {i}
                          /\ UNCHANGED <<filter, cursor, walking, listed>>

(* Concurrent inserts may commit out of the order of their createdAt.      *)
Upload(i) == ChangeRow(i, "absent", "waiting")

Verdict(i) == ChangeRow(i, "waiting", "settled")

Delete(i) == \E status \in Present : ChangeRow(i, status, "deleted")

Next == \/ ListPage
        \/ \E i \in Image : Upload(i) \/ Verdict(i) \/ Delete(i)

Spec == Init /\ [][Next]_vars

-----------------------------------------------------------------------------
(* Properties.  The first is the type invariant. *)

TypeOK == /\ filter \subseteq Present
          /\ rows \in [Image -> Statuses]
          /\ cursor \in Image \cup {0}
          /\ walking \in BOOLEAN
          /\ listed \in [Image -> Nat]
          /\ steady \subseteq Image

(* No photo is on two pages, whatever happens to it or to the cursor's row *)
(* between them.                                                           *)
NothingIsListedTwice == \A i \in Image : listed[i] <= 1

(* The cursor is the oldest image listed, so that the pages descend.       *)
CursorIsTheOldestListed ==
  cursor # 0 => /\ listed[cursor] = 1
                /\ \A i \in Image : listed[i] > 0 /\ walking => cursor <= i

(* A walk that asked for every status, and whose last cursor is still a    *)
(* photo, has listed every photo that was there throughout.                *)
FullWalksAreComplete ==
  ~walking /\ filter = Present /\ (cursor # 0 => rows[cursor] \in Present)
    => \A i \in steady : listed[i] > 0

(* README.md on GET /api/images, "your photos, newest first,               *)
(* keyset-paginated": as long as no photo is deleted, a walk lists every   *)
(* photo that matched throughout.                                          *)
WalksAreComplete ==
  ~walking /\ (\A i \in Image : rows[i] # "deleted") => \A i \in steady : listed[i] > 0
=============================================================================
