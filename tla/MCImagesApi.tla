----------------------------- MODULE MCImagesApi -----------------------------
(* A small instance of ImagesApi for TLC. *)
EXTENDS ImagesApi, TLC

CONSTANTS b1, b2

(* The requests of one browser, then another's. *)
TwoThenOne == 1 :> b1 @@ 2 :> b1 @@ 3 :> b2

(* All requests of one. *)
AllOfOne == [r \in Request |-> b1]

(* For sessions and their users only uploads matter. *)
OnlyUploads ==
  \A r \in Request : ~At(r, "unsent") => req[r].shape \in {Upload("photo"), Upload("malformed")}

(* Bounds for api: uploads are refused for what they hold in the first two *)
(* requests, for all reasons in the first; what touches no photo comes     *)
(* last.                                                                   *)
Kinds(r) == CASE r = 1 -> {Upload(b) : b \in Body}
              [] r = 2 -> Shape \ ({Upload("too large"), Upload("malformed")}
                                   \cup [op : {"HEALTH", "INVALID"}])
              [] r = 3 -> Shape \ {Upload(b) : b \in Body \ {"photo"}}

SentKinds ==
  \A r \in Request : At(r, "unsent") /\ ~At(r, "unsent")' => req'[r].shape \in Kinds(r)
KindsSpec == Init /\ [][Next /\ SentKinds]_vars
=============================================================================
