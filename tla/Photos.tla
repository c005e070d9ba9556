------------------------------- MODULE Photos -------------------------------
(***************************************************************************)
(* What the queue, the worker and the abstract specification agree on:     *)
(* the photos, who owns them, which pairs look alike, and what the         *)
(* validation pipeline finds in each.  These are facts about the pictures, *)
(* not state: the bytes of an original never change once stored.           *)
(***************************************************************************)
EXTENDS Integers

CONSTANTS
  Image,      (* Image ids, numbered in the order of created_at.           *)
  User,       (* Anonymous users.                                          *)
  Owner,      (* The user each image belongs to.                           *)
  Near,       (* Pairs whose dHashes differ in at most MAX_HAMMING_DISTANCE *)
              (* bits.                                                     *)
  Findings    (* What the pipeline makes of an image: "PASS", the reason   *)
              (* of the first failing check, or "THROWS" when a step       *)
              (* crashes on this picture every time it is tried.           *)

(* The reasons the image checks reject with. *)
CheckReasons == {"FILE_TOO_SMALL", "UNREADABLE", "RESOLUTION_TOO_LOW",
                 "NO_FACE", "MULTIPLE_FACES", "FACE_TOO_SMALL", "BLURRY"}

(* The rejection_reason column: null unless the photo was rejected. *)
Reason == {"none", "DUPLICATE"} \cup CheckReasons

ASSUME ImagesAreNumbered == Image \subseteq Nat
ASSUME ImagesAreOwned == Owner \in [Image -> User]
ASSUME ImagesHaveFindings ==
  Findings \in [Image -> {"PASS", "THROWS"} \cup CheckReasons]

(* A Hamming distance is symmetric. *)
ASSUME NearIsSymmetric ==
  /\ Near \subseteq Image \X Image
  /\ \A i, j \in Image : <<i, j>> \in Near => <<j, i>> \in Near

(* i and j are different photos of one user that look alike. *)
LookAlike(i, j) == /\ i # j
                   /\ Owner[i] = Owner[j]
                   /\ <<i, j>> \in Near
=============================================================================
