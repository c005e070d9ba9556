--------------------------- MODULE FaceSuppression ---------------------------
(***************************************************************************)
(* From raw detections to faces: decodeDetections and nonMaxSuppression of *)
(* apps/api/src/imaging/scrfd-decoder.ts, one round of the loop a step.    *)
(* The network predicts the same face at several anchors; of boxes that    *)
(* overlap, only the most confident is to remain.                          *)
(***************************************************************************)
EXTENDS BoxGeometry, Sequences

CONSTANTS
  RawBox,           (* boxes the anchors may predict                        *)
  MaxAnchors,       (* bound: anchors                                       *)
  Score,            (* confidences, in percent                              *)
  ScoreThreshold,   (* FACE_DETECTION.SCORE_THRESHOLD, in percent           *)
  NmsIouThreshold   (* FACE_DETECTION.NMS_IOU_THRESHOLD, a ratio            *)

ASSUME ScoresAreNumbers == Score \subseteq Nat /\ ScoreThreshold \in Nat
ASSUME AnchorsAreBounded == MaxAnchors \in Nat
ASSUME BoxesAreBoxes == RawBox \subseteq Box

VARIABLES
  anchors,    (* what the network predicted, one box and score per anchor   *)
  sorted,     (* the candidates, most confident first                       *)
  next,       (* index of the candidate to look at                          *)
  kept        (* indices of the faces kept                                  *)

vars == <<anchors, sorted, next, kept>>

Prediction == [box : RawBox, score : Score]
Predictions == UNION {[1 .. n -> Prediction] : n \in 0 .. MaxAnchors}

(* decodeStride drops scores below the threshold. *)
Candidates(a) == {i \in DOMAIN a : a[i].score >= ScoreThreshold}

(* Mutant: the least confident first. *)
GoesAfter(a, i, j) == \/ a[i].score < a[j].score
                      \/ a[i].score = a[j].score /\ i < j

(* The order of a stable sort by descending score. *)
GoesBefore(a, i, j) == \/ a[i].score > a[j].score
                       \/ a[i].score = a[j].score /\ i < j

Orders(a) ==
  {order \in UNION {[1 .. n -> Candidates(a)] : n \in 0 .. MaxAnchors} :
     /\ \A i \in Candidates(a) : \E j \in DOMAIN order : order[j] = i
     /\ \A i, j \in DOMAIN order : i < j => GoesBefore(a, order[i], order[j])}

Init == /\ anchors \in Predictions
        /\ \E order \in Orders(anchors) :
             sorted = [i \in DOMAIN order |-> anchors[order[i]]]
        /\ next = 1
        /\ kept = {}

Overlaps(k, i) == IouExceeds(sorted[k].box, sorted[i].box, NmsIouThreshold)

(* Mutant: compared with the face kept last only. *)
OverlapsLastKept == \E k \in kept : (\A j \in kept : j <= k) /\ Overlaps(k, next)

OverlapsSomeKept == \E k \in kept : Overlaps(k, next)

Consider == /\ next <= Len(sorted)
            /\ next' = next + 1
            /\ kept' = IF OverlapsSomeKept THEN kept ELSE kept \cup {next}
            /\ UNCHANGED <<anchors, sorted>>

Next == Consider

Spec == Init /\ [][Next]_vars

-----------------------------------------------------------------------------
(* Properties.  The first is the type invariant. *)

TypeOK == /\ sorted \in Seq([box : RawBox, score : Score])
          /\ next \in 1 .. Len(sorted) + 1
          /\ kept \subseteq 1 .. next - 1

(* One person is not counted twice: no two faces kept overlap by more than *)
(* the threshold.                                                          *)
KeptFacesAreDistinct ==
  \A k, l \in kept : k < l => ~Overlaps(k, l)

(* Nobody is lost: whatever the loop has dropped overlaps a face it kept   *)
(* that is at least as confident.                                          *)
DroppedFacesAreCovered ==
  \A i \in 1 .. next - 1 : i \notin kept =>
    \E k \in kept : Overlaps(k, i) /\ sorted[k].score >= sorted[i].score

(* Of all confident predictions, the most confident one is always a face:  *)
(* "no face" is the verdict only when no score reached the threshold.      *)
NoFaceOnlyBelowThreshold ==
  next = Len(sorted) + 1 /\ kept = {} =>
    \A i \in DOMAIN anchors : anchors[i].score < ScoreThreshold
=============================================================================
