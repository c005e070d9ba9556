--------------------------- MODULE MCPhotoStorage ---------------------------
(* Small instances of PhotoStorage for TLC. *)
EXTENDS PhotoStorage, TLC

CONSTANTS w1, w2, alice, r1, r2

Interchangeable == Permutations(Worker) \cup Permutations(Request)

OwnersAlice == [i \in Image |-> alice]
NoneNear == {}

(* Every photo passes every check. *)
BothPass == [i \in Image |-> "PASS"]
=============================================================================
