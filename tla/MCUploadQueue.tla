---------------------------- MODULE MCUploadQueue ----------------------------
(* Small instances of UploadQueue for TLC; see the configurations. *)
EXTENDS UploadQueue

(* The first file, the one that has to get a session, may be retried. *)
FirstTwice == [f \in File |-> IF f = 1 THEN 2 ELSE 1]

(* Bounds for the check with fairness: only the first file's photo is      *)
(* deleted, and the last file is not removed before it is stored.          *)
DeletesTheFirst == \A r \in Request : served'[r] = "deleted" => r[1] = 1
KeepsTheLast == phase'[3] = "gone" => served[<<3, 1>>] = "stored"

BoundedSpec == Init /\ [][Next /\ DeletesTheFirst /\ KeepsTheLast]_vars /\ Fairness
=============================================================================
