------------------------- MODULE MCProcessingWorker -------------------------
(* Small instances of ProcessingWorker for TLC. *)
EXTENDS ProcessingWorker, TLC

CONSTANTS w1, w2, alice

Interchangeable == Permutations(Worker)

OwnersAlice == [i \in Image |-> alice]

(* Two photos that look alike and pass every check. *)
NearTwins == {<<1, 2>>, <<2, 1>>}
BothPass == [i \in Image |-> "PASS"]

(* The older photo crashes the pipeline, the other is blurry. *)
PoisonFirst == [i \in Image |-> IF i = 1 THEN "THROWS" ELSE "BLURRY"]
=============================================================================
