--------------------------- MODULE PhotoPathProofs ---------------------------
(***************************************************************************)
(* For any photos, limits and ratios: the loop of non-maximum suppression  *)
(* counts every face once, and on a photo's whole way it runs as           *)
(* FaceSuppression has it; browser, API and worker, which decide one after *)
(* the other, agree on what kind and size of file is welcome; each check   *)
(* finds what the ones before it were to leave; a photo that passes shows  *)
(* one person, has the size the rules ask for and is sharp by definition;  *)
(* and the distance of two hashes counts the comparisons that differ.      *)
(***************************************************************************)
EXTENDS PhotoPath, FiniteSetTheorems, SequenceTheorems,
        WellFoundedInduction, TLAPS

-----------------------------------------------------------------------------
(* Non-maximum suppression, for any number of anchors, boxes and scores:   *)
(* the faces it keeps are distinct and cover all the others.               *)

(* The candidates stay as the sort left them. *)
SortedDescends ==
  /\ sorted \in Seq([box : RawBox, score : Score])
  /\ \A i, j \in DOMAIN sorted : i < j => sorted[i].score >= sorted[j].score

(* Nothing above the threshold was left out of the sort. *)
SortedIsComplete ==
  \A i \in Candidates(anchors) : \E j \in DOMAIN sorted : sorted[j] = anchors[i]

IInv == /\ TypeOK
        /\ SortedDescends
        /\ SortedIsComplete
        /\ KeptFacesAreDistinct
        /\ DroppedFacesAreCovered
        /\ 1 < next => 1 \in kept

(* The loop's invariant holds before the first candidate.                  *)
LEMMA InitEstablishesIInv == Init => IInv
<1> SUFFICES ASSUME Init PROVE IInv
  OBVIOUS
<1> USE ScoresAreNumbers, AnchorsAreBounded
<1>1. PICK order \in Orders(anchors) : sorted = [i \in DOMAIN order |-> anchors[order[i]]]
  BY DEF Init
<1>2. PICK m \in 0 .. MaxAnchors : anchors \in [1 .. m -> Prediction]
  BY DEF Init, Predictions
<1>3. PICK n \in 0 .. MaxAnchors : order \in [1 .. n -> Candidates(anchors)]
  BY DEF Orders
<1>4. /\ \A i \in Candidates(anchors) : \E j \in DOMAIN order : order[j] = i
      /\ \A i, j \in DOMAIN order : i < j => GoesBefore(anchors, order[i], order[j])
  BY DEF Orders
<1>5. \A i \in 1 .. n : order[i] \in 1 .. m /\ anchors[order[i]] \in Prediction
  BY <1>2, <1>3 DEF Candidates
<1>6. sorted \in [1 .. n -> Prediction]
  BY <1>1, <1>3, <1>5
<1>7. sorted \in Seq([box : RawBox, score : Score]) /\ Len(sorted) = n
  <2>1. n \in Nat
    OBVIOUS
  <2>2. sorted \in Seq(Prediction)
    BY <1>6, <2>1
  <2>3. Len(sorted) = n
    BY <1>6, <2>1
  <2> QED
    BY <2>2, <2>3 DEF Prediction
<1>8. \A i, j \in DOMAIN sorted : i < j => sorted[i].score >= sorted[j].score
  <2> SUFFICES ASSUME NEW i \in 1 .. n, NEW j \in 1 .. n, i < j
               PROVE sorted[i].score >= sorted[j].score
    BY <1>6
  <2>1. GoesBefore(anchors, order[i], order[j])
    BY <1>3, <1>4
  <2>2. /\ anchors[order[i]].score \in Nat /\ anchors[order[j]].score \in Nat
    BY <1>5 DEF Prediction
  <2> QED
    BY <1>1, <1>3, <2>1, <2>2 DEF GoesBefore
<1>9. SortedIsComplete
  <2> SUFFICES ASSUME NEW i \in Candidates(anchors)
               PROVE \E j \in DOMAIN sorted : sorted[j] = anchors[i]
    BY DEF SortedIsComplete
  <2>1. PICK j \in DOMAIN order : order[j] = i
    BY <1>4
  <2>2. j \in DOMAIN sorted /\ sorted[j] = anchors[order[j]]
    BY <1>1
  <2> QED
    BY <2>1, <2>2
<1>10. next = 1 /\ kept = {}
  BY DEF Init
<1>11. TypeOK
  BY <1>7, <1>10 DEF TypeOK
<1>12. KeptFacesAreDistinct
  BY <1>10 DEF KeptFacesAreDistinct
<1>13. DroppedFacesAreCovered
  BY <1>10 DEF DroppedFacesAreCovered
<1> QED
  BY <1>7, <1>8, <1>9, <1>10, <1>11, <1>12, <1>13 DEF IInv, SortedDescends

(* A round of the loop preserves it.                                       *)
LEMMA ConsiderPreservesIInv == IInv /\ [Next]_vars => IInv'
<1> SUFFICES ASSUME IInv, [Next]_vars PROVE IInv'
  OBVIOUS
<1>1. CASE UNCHANGED vars
  <2>1. \A k, i : Overlaps(k, i)' = Overlaps(k, i)
    BY <1>1 DEF vars, Overlaps
  <2> QED
    BY <1>1, <2>1 DEF vars, IInv, TypeOK, SortedDescends, SortedIsComplete,
       KeptFacesAreDistinct, DroppedFacesAreCovered, Candidates
<1>2. CASE Consider
  <2>1. \A k, i : Overlaps(k, i)' = Overlaps(k, i)
    BY <1>2 DEF Consider, Overlaps
  <2>2. /\ next \in Nat /\ 1 <= next /\ next \in DOMAIN sorted
        /\ kept \subseteq 1 .. next - 1
        /\ DOMAIN sorted = 1 .. Len(sorted) /\ Len(sorted) \in Nat
    BY <1>2 DEF Consider, IInv, TypeOK
  <2>3. TypeOK'
    BY <1>2, <2>2 DEF Consider, IInv, TypeOK
  <2>4. SortedDescends' /\ SortedIsComplete'
    BY <1>2 DEF Consider, IInv, SortedDescends, SortedIsComplete, Candidates
  <2>5. KeptFacesAreDistinct'
    <3> SUFFICES ASSUME NEW k \in kept', NEW l \in kept', k < l
                 PROVE ~Overlaps(k, l)
      BY <2>1 DEF KeptFacesAreDistinct
    <3>1. CASE l \in kept
      <4>1. k \in kept
        BY <1>2, <2>2, <3>1 DEF Consider
      <4> QED
        BY <3>1, <4>1 DEF IInv, KeptFacesAreDistinct
    <3>2. CASE l \notin kept
      <4>1. l = next /\ ~OverlapsSomeKept
        BY <1>2, <3>2 DEF Consider
      <4>2. k \in kept
        BY <1>2, <2>2, <4>1 DEF Consider
      <4> QED
        BY <4>1, <4>2 DEF OverlapsSomeKept
    <3> QED
      BY <3>1, <3>2
  <2>6. DroppedFacesAreCovered'
    <3> SUFFICES ASSUME NEW i \in 1 .. next' - 1, i \notin kept'
                 PROVE \E k \in kept' : Overlaps(k, i) /\ sorted[k].score >= sorted[i].score
      BY <1>2, <2>1 DEF DroppedFacesAreCovered, Consider
    <3>1. kept \subseteq kept' /\ i \notin kept
      BY <1>2 DEF Consider
    <3>2. CASE i < next
      <4>1. i \in 1 .. next - 1
        BY <2>2, <3>2
      <4> QED
        BY <3>1, <4>1 DEF IInv, DroppedFacesAreCovered
    <3>3. CASE ~(i < next)
      <4>1. i = next
        BY <1>2, <2>2, <3>3 DEF Consider
      <4>2. OverlapsSomeKept
        BY <1>2, <4>1 DEF Consider
      <4>3. PICK k \in kept : Overlaps(k, next)
        BY <4>2 DEF OverlapsSomeKept
      <4>4. k \in DOMAIN sorted /\ k < next
        BY <2>2
      <4>5. sorted[k].score >= sorted[next].score
        BY <2>2, <4>4 DEF IInv, SortedDescends
      <4> QED
        BY <3>1, <4>1, <4>3, <4>5
    <3> QED
      BY <3>2, <3>3
  <2>7. (1 < next => 1 \in kept)'
    <3>1. CASE next = 1
      <4>1. kept = {}
        BY <2>2, <3>1
      <4> QED
        BY <1>2, <3>1, <4>1 DEF Consider, OverlapsSomeKept
    <3>2. CASE next # 1
      BY <1>2, <2>2, <3>2 DEF Consider, IInv
    <3> QED
      BY <3>1, <3>2
  <2> QED
    BY <2>3, <2>4, <2>5, <2>6, <2>7 DEF IInv
<1> QED
  BY <1>1, <1>2 DEF Next

LEMMA IInvHolds == Spec => []IInv
BY InitEstablishesIInv, ConsiderPreservesIInv, PTL DEF Spec

(* Non-maximum suppression counts nobody twice.                            *)
THEOREM FacesAreDistinct == Spec => []KeptFacesAreDistinct
<1>1. IInv => KeptFacesAreDistinct
  BY DEF IInv
<1> QED
  BY <1>1, IInvHolds, PTL

(* It loses nobody: every face dropped is covered by one that is kept and  *)
(* is at least as confident.                                               *)
THEOREM NobodyIsLost == Spec => []DroppedFacesAreCovered
<1>1. IInv => DroppedFacesAreCovered
  BY DEF IInv
<1> QED
  BY <1>1, IInvHolds, PTL

(* "No face" means that no anchor reached the threshold.                   *)
THEOREM NoFaceMeansNoConfidentScore == Spec => []NoFaceOnlyBelowThreshold
<1> USE ScoresAreNumbers
<1>2. IInv /\ anchors \in Predictions => NoFaceOnlyBelowThreshold
  <2> SUFFICES ASSUME IInv, anchors \in Predictions,
                      next = Len(sorted) + 1, kept = {},
                      NEW i \in DOMAIN anchors
               PROVE anchors[i].score < ScoreThreshold
    BY DEF NoFaceOnlyBelowThreshold
  <2>1. Len(sorted) = 0
    BY DEF IInv, TypeOK
  <2>2. DOMAIN sorted = {}
    BY <2>1 DEF IInv, TypeOK
  <2>3. i \notin Candidates(anchors)
    BY <2>2 DEF IInv, SortedIsComplete
  <2>4. anchors[i] \in Prediction
    BY DEF Predictions
  <2>5. anchors[i].score \in Nat
    BY <2>4 DEF Prediction
  <2>6. ~(anchors[i].score >= ScoreThreshold)
    BY <2>3 DEF Candidates
  <2> QED
    BY <2>5, <2>6
<1>3. Spec => [](anchors \in Predictions)
  <2>1. Init => anchors \in Predictions
    BY DEF Init
  <2>2. anchors \in Predictions /\ [Next]_vars => (anchors \in Predictions)'
    BY DEF Next, Consider, vars
  <2> QED
    BY <2>1, <2>2, PTL DEF Spec
<1> QED
  BY <1>2, <1>3, IInvHolds, PTL

-----------------------------------------------------------------------------
(* Numbers and boxes. *)
(* Division rounds down. *)
LEMMA DivisionRoundsDown ==
  ASSUME NEW n \in Int, NEW d \in Nat \ {0}
  PROVE  /\ n \div d \in Int
         /\ (n \div d) * d <= n
         /\ n >= 0 => n \div d >= 0
<1>1. n \div d \in Int /\ n % d \in 0 .. d - 1
  OBVIOUS
<1>2. n = (n \div d) * d + (n % d)
  OBVIOUS
<1>3. n >= 0 => n \div d >= 0
  OBVIOUS
<1> QED
  BY <1>1, <1>2, <1>3

(* A product keeps an order, and a positive factor can be cancelled. *)
LEMMA FactorsKeepOrder ==
  ASSUME NEW a \in Int, NEW b \in Int, NEW k \in Nat
  PROVE  /\ a <= b => a * k <= b * k
         /\ k # 0 /\ a * k <= b * k => a <= b
OBVIOUS

LEMMA FloorsAreBelow ==
  ASSUME NEW n \in Int, NEW d \in Nat \ {0}, NEW x \in Int, n <= d * x
  PROVE  FloorPixel(n, d) \in Int /\ FloorPixel(n, d) * UnitsPerPixel <= x
<1> DEFINE q == n \div (d * UnitsPerPixel)
<1>1. d * UnitsPerPixel \in Nat \ {0}
  BY PixelsAreDivided
<1>2. q \in Int /\ q * (d * UnitsPerPixel) <= n
  BY <1>1, DivisionRoundsDown
<1> HIDE DEF q
<1>3. q * UnitsPerPixel \in Int /\ q * (d * UnitsPerPixel) = (q * UnitsPerPixel) * d
  BY <1>2, PixelsAreDivided
<1>4. (q * UnitsPerPixel) * d <= x * d
  BY <1>2, <1>3
<1>5. q * UnitsPerPixel <= x
  BY <1>3, <1>4, FactorsKeepOrder
<1> QED
  BY <1>2, <1>5 DEF FloorPixel, q

LEMMA CeilingsAreAbove ==
  ASSUME NEW n \in Int, NEW d \in Nat \ {0}, NEW x \in Int, d * x <= n
  PROVE  CeilPixel(n, d) \in Int /\ x <= CeilPixel(n, d) * UnitsPerPixel
<1>1. -n \in Int /\ -n <= d * (-x) /\ -x \in Int
  OBVIOUS
<1>2. FloorPixel(-n, d) \in Int /\ FloorPixel(-n, d) * UnitsPerPixel <= -x
  BY <1>1, FloorsAreBelow
<1>3. CeilPixel(n, d) = -FloorPixel(-n, d)
  BY DEF CeilPixel, FloorPixel
<1> QED
  BY <1>2, <1>3, PixelsAreDivided

LEMMA ClampsStayInside ==
  ASSUME NEW v \in Int, NEW w \in Int, NEW m \in Nat, v <= w
  PROVE  /\ Clamp(v, 0, m) \in 0 .. m
         /\ Clamp(v, 0, m) <= Clamp(w, 0, m)
         /\ Clamp(v, 0, m) <= Upper(v, 0)
         /\ v <= m => v <= Clamp(v, 0, m)
BY DEF Clamp, Lower, Upper

(* Along one axis, what is cut out covers a face of the frame's m pixels. *)
LEMMA CutsCover ==
  ASSUME NEW m \in Nat, NEW x \in Nat, NEW w \in Nat, x + w <= m * UnitsPerPixel,
         NEW n \in Nat, NEW d \in Nat \ {0}
  PROVE  LET left == Clamp(FloorPixel(d * x - n * w, d), 0, m)
             right == Clamp(CeilPixel(d * (x + w) + n * w, d), 0, m)
         IN  /\ left \in 0 .. m /\ right \in 0 .. m
             /\ left * UnitsPerPixel <= x
             /\ x + w <= right * UnitsPerPixel
<1> DEFINE U == UnitsPerPixel
           f == FloorPixel(d * x - n * w, d)
           c == CeilPixel(d * (x + w) + n * w, d)
<1>0. U \in Nat \ {0} /\ n * w \in Nat /\ d * x \in Nat /\ d * (x + w) \in Nat
  BY PixelsAreDivided
<1>1. f \in Int /\ f * U <= x
  <2> DEFINE a == d * x - n * w
  <2>1. a \in Int /\ a <= d * x /\ x \in Int
    BY <1>0
  <2> HIDE DEF a
  <2>2. FloorPixel(a, d) \in Int /\ FloorPixel(a, d) * U <= x
    BY <2>1, FloorsAreBelow
  <2> QED
    BY <2>2 DEF a
<1>2. c \in Int /\ x + w <= c * U
  <2>1. d * (x + w) + n * w \in Int /\ d * (x + w) <= d * (x + w) + n * w /\ x + w \in Int
    BY <1>0
  <2> QED
    BY <2>1, CeilingsAreAbove
<1> HIDE DEF f, c, U
<1>3. Clamp(f, 0, m) \in 0 .. m /\ Clamp(c, 0, m) \in 0 .. m
  BY <1>1, <1>2, ClampsStayInside
<1>4. Clamp(f, 0, m) * U <= x
  <2>1. Clamp(f, 0, m) = 0 \/ Clamp(f, 0, m) <= f
    BY <1>1 DEF Clamp, Lower, Upper
  <2> QED
    BY <1>0, <1>1, <1>3, <2>1
<1>5. x + w <= Clamp(c, 0, m) * U
  <2>1. Clamp(c, 0, m) = m \/ Clamp(c, 0, m) >= c
    BY <1>2 DEF Clamp, Lower, Upper
  <2>2. CASE Clamp(c, 0, m) = m
    BY <2>2 DEF U
  <2>3. CASE Clamp(c, 0, m) >= c
    BY <1>0, <1>2, <1>3, <2>3
  <2> QED
    BY <2>1, <2>2, <2>3
<1> QED
  BY <1>3, <1>4, <1>5 DEF f, c, U

(* A box, and one inside an image, both in units.                          *)
IsInside(face, size) == /\ face.x \in Nat /\ face.x + face.width <= size.width
                        /\ face.y \in Nat /\ face.y + face.height <= size.height
                        /\ face.width \in Nat /\ face.height \in Nat

(* A clamped box lies in the image, whatever it was before.                *)
LEMMA ClampedBoxesAreInside ==
  ASSUME NEW box \in Box, NEW size, size.width \in Nat, size.height \in Nat
  PROVE  IsInside(ClampBox(box, size), size)
<1>1. ASSUME NEW a \in Int, NEW n \in Nat, NEW m \in Nat
      PROVE  /\ Clamp(a, 0, m) \in 0 .. m /\ Clamp(a + n, 0, m) \in 0 .. m
             /\ Clamp(a, 0, m) <= Clamp(a + n, 0, m)
  BY DEF Clamp, Lower, Upper
<1>2. box.x \in Int /\ box.y \in Int /\ box.width \in Nat /\ box.height \in Nat
  BY DEF Box
<1>3. /\ Clamp(box.x, 0, size.width) \in 0 .. size.width
      /\ Clamp(box.x + box.width, 0, size.width) \in 0 .. size.width
      /\ Clamp(box.x, 0, size.width) <= Clamp(box.x + box.width, 0, size.width)
  BY <1>1, <1>2
<1>4. /\ Clamp(box.y, 0, size.height) \in 0 .. size.height
      /\ Clamp(box.y + box.height, 0, size.height) \in 0 .. size.height
      /\ Clamp(box.y, 0, size.height) <= Clamp(box.y + box.height, 0, size.height)
  BY <1>1, <1>2
<1> QED
  BY <1>3, <1>4 DEF ClampBox, Spanning, IsInside

(* An area is a number.                                                    *)
LEMMA AreasAreNumbers ==
  ASSUME NEW face, face.width \in Nat, face.height \in Nat
  PROVE  BoxArea(face) \in Nat
BY DEF BoxArea

(* Of finitely many faces one is the first of the largest.                 *)
LEMMA SomeFaceIsLargest ==
  ASSUME NEW fs, DOMAIN fs \in SUBSET Nat, IsFiniteSet(DOMAIN fs), DOMAIN fs # {},
         \A i \in DOMAIN fs : BoxArea(fs[i]) \in Nat
  PROVE  /\ LargestFace(fs) \in DOMAIN fs
         /\ \A j \in DOMAIN fs : BoxArea(fs[j]) <= BoxArea(fs[LargestFace(fs)])
<1> DEFINE S == DOMAIN fs
           area(i) == BoxArea(fs[i])
           beats(j, i) == area(j) > area(i) \/ (area(j) = area(i) /\ j < i)
           ahead(i) == {j \in S : beats(j, i)}
           T == {ahead(i) : i \in S}
<1>1. T \subseteq FiniteSubsetsOf(S) /\ T # {}
  <2>1. \A i \in S : ahead(i) \in SUBSET S
    OBVIOUS
  <2>2. \A U \in SUBSET S : IsFiniteSet(U)
    BY FS_Subset
  <2> HIDE DEF ahead
  <2>3. T \in SUBSET SUBSET S /\ T # {}
    BY <2>1
  <2> QED
    BY <2>2, <2>3 DEF FiniteSubsetsOf
<1>2. \E U \in T : \A V \in T : <<V, U>> \notin StrictSubsetOrdering(S)
  BY <1>1, FS_StrictSubsetOrderingWellFounded, WFMin
<1>3. PICK m \in S : \A i \in S : <<ahead(i), ahead(m)>> \notin StrictSubsetOrdering(S)
  <2> HIDE DEF ahead
  <2> QED
    BY <1>2
<1>4. \A i \in S : i \in Nat /\ area(i) \in Nat
  OBVIOUS
<1> HIDE DEF area
<1>5. ASSUME NEW i \in S, beats(i, m) PROVE FALSE
  <2>1. ahead(i) \subseteq ahead(m)
    <3>1. \A j \in S : beats(j, i) => beats(j, m)
      BY <1>4, <1>5
    <3> QED
      BY <3>1
  <2>2. i \in ahead(m) /\ i \notin ahead(i)
    BY <1>4, <1>5
  <2>3. <<ahead(i), ahead(m)>> \in (SUBSET S) \X (SUBSET S)
    OBVIOUS
  <2>4. <<ahead(i), ahead(m)>> \in StrictSubsetOrdering(S)
    <3> HIDE DEF ahead
    <3> QED
      BY <2>1, <2>2, <2>3 DEF StrictSubsetOrdering
  <2> QED
    BY <1>3, <2>4
<1>6. ASSUME NEW j \in S
      PROVE  area(j) <= area(m) /\ (j < m => area(j) < area(m))
  <2>1. ~beats(j, m)
    BY <1>5
  <2>2. area(j) \in Nat /\ area(m) \in Nat
    BY <1>4
  <2> QED
    BY <2>1, <2>2
<1> QED
  BY <1>6 DEF LargestFace, area

(* Every image the code decodes has a working image with some pixels.      *)
LEMMA WorkingImagesHaveASize ==
  ASSUME NEW size, size.width \in Nat \ {0}, size.height \in Nat \ {0}
  PROVE  /\ FitInside(size).width \in Nat \ {0}
         /\ FitInside(size).height \in Nat \ {0}
<1>1. ASSUME NEW n \in Nat, NEW m \in Nat \ {0}
      PROVE  Shrunk(n, m) \in Nat \ {0}
  <2> DEFINE a == 2 * n * WorkingMaxDimensionPx + m
  <2>1. a \in Nat /\ 2 * m \in Nat \ {0}
    BY DimensionsAreNumbers
  <2> HIDE DEF a
  <2>2. a \div (2 * m) \in Nat
    BY <2>1, DivisionRoundsDown
  <2> QED
    BY <2>2 DEF Shrunk, a
<1> QED
  BY <1>1 DEF FitInside

(* A photo that decodes to something has its first image upright.          *)
LEMMA DecodingIsUpright ==
  ASSUME NEW p \in Photo, Decode(p, SniffImageFormat(p)) # Unreadable,
         SniffImageFormat(p) # "null"
  PROVE  /\ p.images # <<>>
         /\ WithinPixelLimit(p.images[1])
         /\ Decode(p, SniffImageFormat(p)) =
              ToWorkingImage(Upright(p.images[1]), Upright(p.images[1]))
<1>1. CASE SniffImageFormat(p) = "HEIC"
  BY <1>1 DEF Decode, OpenHeic
<1>2. CASE SniffImageFormat(p) # "HEIC"
  <2>1. p.magic # "ftyp"
    BY <1>2 DEF SniffImageFormat, DetectImageFormat
  <2> QED
    BY <1>2, <2>1, ImagesHaveASize DEF Decode, OpenRaster
<1> QED
  BY <1>1, <1>2

(* Its size, as stored and as shown, and that of its working image.        *)
LEMMA DecodedImagesHaveASize ==
  ASSUME NEW p \in Photo, p.images # <<>>
  PROVE  LET image == p.images[1]
             d == ToWorkingImage(Upright(image), Upright(image))
         IN  /\ image.width \in Nat \ {0} /\ image.height \in Nat \ {0}
             /\ d.original = Upright(image)
             /\ d.original.width \in Nat \ {0} /\ d.original.height \in Nat \ {0}
             /\ d.working.width \in Nat \ {0} /\ d.working.height \in Nat \ {0}
<1> DEFINE image == p.images[1]
<1>1. image \in [width : Nat \ {0}, height : Nat \ {0}, turned : BOOLEAN]
  <2>1. p.images \in Seq([width : Nat \ {0}, height : Nat \ {0}, turned : BOOLEAN])
    BY ImagesHaveASize
  <2>2. 1 \in 1 .. Len(p.images)
    BY <2>1, EmptySeq
  <2> QED
    BY <2>1, <2>2, ElementOfSeq
<1>2. image.width \in Nat \ {0} /\ image.height \in Nat \ {0}
  BY <1>1
<1>3. Upright(image).width \in Nat \ {0} /\ Upright(image).height \in Nat \ {0}
  BY <1>2 DEF Upright
<1> HIDE DEF image
<1> QED
  BY <1>2, <1>3, WorkingImagesHaveASize DEF ToWorkingImage, image

-----------------------------------------------------------------------------
(* Sums: over a domain, and along a loop. *)

(* What holds of 0 and goes on from each number to the next holds of all.  *)
LEMMA CountingUp ==
  ASSUME NEW N \in Nat, NEW S \in SUBSET (0 .. N), 0 \in S,
         \A n \in S : n < N => n + 1 \in S
  PROVE  S = 0 .. N
<1> DEFINE T == (0 .. N) \ S
<1>1. ASSUME T # {} PROVE FALSE
  <2>1. PICK m \in T : \A k \in T : m <= k
    <3>1. T \subseteq Nat
      OBVIOUS
    <3> HIDE DEF T
    <3>2. PICK m \in T : \A k \in T : <<k, m>> \notin OpToRel(<, Nat)
      BY <1>1, <3>1, NatLessThanWellFounded, WFMin
    <3>3. \A k, l \in Nat : k < l => <<k, l>> \in OpToRel(<, Nat)
      BY DEF OpToRel
    <3>4. ASSUME NEW k \in T PROVE m <= k
      <4>1. k \in Nat /\ m \in Nat /\ ~(k < m)
        BY <3>1, <3>2, <3>3
      <4> QED
        BY <4>1
    <3> QED
      BY <3>2, <3>4
  <2>2. m - 1 \in S /\ m - 1 < N
    BY <2>1
  <2> QED
    BY <2>1, <2>2
<1> QED
  BY <1>1

(* The recursion of SumFunction(f). *)
IsSummed(f, sum) ==
  sum = [s \in SUBSET DOMAIN f |->
           IF s = {} THEN 0 ELSE LET i == CHOOSE j \in s : TRUE IN f[i] + sum[s \ {i}]]

(* It has a solution, set size by set size.                                *)
LEMMA SumsExist ==
  ASSUME NEW f, IsFiniteSet(DOMAIN f), \A i \in DOMAIN f : f[i] \in Int
  PROVE  \E sum : IsSummed(f, sum)
<1> DEFINE D == DOMAIN f
           N == Cardinality(D)
           Small(k) == {s \in SUBSET D : Cardinality(s) <= k}
           first(s) == CHOOSE j \in s : TRUE
           Body(g, s) == IF s = {} THEN 0 ELSE f[first(s)] + g[s \ {first(s)}]
           S == {k \in 0 .. N : \E g \in [Small(k) -> Int] : \A s \in Small(k) : g[s] = Body(g, s)}
<1>1. \A s \in SUBSET D : /\ IsFiniteSet(s)
                          /\ Cardinality(s) \in Nat
                          /\ Cardinality(s) <= N
                          /\ Cardinality(s) = 0 <=> s = {}
  BY FS_Subset, FS_CardinalityType, FS_EmptySet
<1>2. \A s \in SUBSET D : s # {} => /\ first(s) \in s
                                    /\ s \ {first(s)} \in SUBSET D
                                    /\ Cardinality(s \ {first(s)}) = Cardinality(s) - 1
                                    /\ f[first(s)] \in Int
  <2>1. ASSUME NEW s \in SUBSET D, s # {} PROVE first(s) \in s
    BY <2>1
  <2> HIDE DEF first
  <2>2. ASSUME NEW s \in SUBSET D, s # {}
        PROVE  Cardinality(s \ {first(s)}) = Cardinality(s) - 1
    BY <1>1, <2>1, <2>2, FS_RemoveElement
  <2> QED
    BY <2>1, <2>2
<1>3. N \in Nat
  BY FS_CardinalityType
<1> HIDE DEF first, N, D
<1>4. 0 \in S
  <2> DEFINE g == [s \in Small(0) |-> 0]
  <2>1. \A s \in Small(0) : s = {}
    BY <1>1
  <2>2. g \in [Small(0) -> Int] /\ \A s \in Small(0) : g[s] = Body(g, s)
    BY <2>1
  <2>3. 0 \in 0 .. N
    BY <1>3
  <2> HIDE DEF Body, Small, g
  <2> QED
    BY <2>2, <2>3
<1>5. ASSUME NEW k \in S, k < N PROVE k + 1 \in S
  <2>1. PICK g \in [Small(k) -> Int] : \A s \in Small(k) : g[s] = Body(g, s)
    OBVIOUS
  <2> DEFINE h == [s \in Small(k + 1) |-> IF s \in Small(k) THEN g[s] ELSE Body(g, s)]
  <2>2. k \in Nat /\ k + 1 \in 0 .. N /\ \A s \in Small(k) : s \in Small(k + 1)
    BY <1>1, <1>3, <1>5
  <2>3. ASSUME NEW s \in Small(k + 1), s # {}
        PROVE  s \ {first(s)} \in Small(k)
    BY <1>1, <1>2, <2>2, <2>3
  <2>4. ASSUME NEW s \in Small(k + 1) PROVE h[s] \in Int /\ h[s] = Body(h, s)
    <3>1. CASE s = {}
      <4>1. s \in Small(k)
        BY <1>1, <2>2, <3>1
      <4> QED
        BY <2>1, <3>1, <4>1
    <3>2. CASE s # {}
      <4>1. s \ {first(s)} \in Small(k) /\ s \ {first(s)} \in Small(k + 1)
        BY <2>2, <2>3, <3>2
      <4>2. h[s \ {first(s)}] = g[s \ {first(s)}] /\ g[s \ {first(s)}] \in Int
        BY <4>1
      <4>3. h[s] = Body(g, s)
        BY <2>1
      <4>4. f[first(s)] \in Int
        BY <1>2, <3>2
      <4> QED
        BY <3>2, <4>2, <4>3, <4>4
    <3> QED
      BY <3>1, <3>2
  <2>5. h \in [Small(k + 1) -> Int]
    <3> HIDE DEF Body
    <3> QED
      BY <2>4
  <2>6. \A s \in Small(k + 1) : h[s] = Body(h, s)
    BY <2>4
  <2> HIDE DEF h, Body, Small
  <2> QED
    BY <2>2, <2>5, <2>6
<1>6. N \in S
  <2>1. S = 0 .. N
    <3> HIDE DEF S
    <3>1. S \subseteq 0 .. N
      BY DEF S
    <3> QED
      BY <1>3, <1>4, <1>5, <3>1, CountingUp
  <2> HIDE DEF S
  <2> QED
    BY <1>3, <2>1
<1>7. PICK g \in [Small(N) -> Int] : \A s \in Small(N) : g[s] = Body(g, s)
  BY <1>6
<1>8. Small(N) = SUBSET D
  BY <1>1
<1>9. g = [s \in SUBSET D |-> Body(g, s)]
  BY <1>7, <1>8
<1> QED
  BY <1>9 DEF IsSummed, first, D

(* A sum of f over every part of its domain. *)
IsSumOver(f, sum) ==
  /\ sum[{}] = 0
  /\ \A s \in SUBSET DOMAIN f :
       sum[s] \in Int /\ \A x \in s : sum[s] = f[x] + sum[s \ {x}]

(* It gives numbers, in whatever order the summands are taken away.        *)
LEMMA SumsAddUp ==
  ASSUME NEW f, IsFiniteSet(DOMAIN f), \A i \in DOMAIN f : f[i] \in Int,
         NEW sum, IsSummed(f, sum)
  PROVE  IsSumOver(f, sum)
<1> DEFINE D == DOMAIN f
           N == Cardinality(D)
           Small(k) == {s \in SUBSET D : Cardinality(s) <= k}
           first(s) == CHOOSE j \in s : TRUE
           AddsUp(s) == sum[s] \in Int /\ \A x \in s : sum[s] = f[x] + sum[s \ {x}]
           S == {k \in 0 .. N : \A s \in Small(k) : AddsUp(s)}
<1>1. \A s \in SUBSET D : /\ IsFiniteSet(s)
                          /\ Cardinality(s) \in Nat
                          /\ Cardinality(s) <= N
                          /\ Cardinality(s) = 0 <=> s = {}
  BY FS_Subset, FS_CardinalityType, FS_EmptySet
<1>2. ASSUME NEW s \in SUBSET D, NEW x \in s
      PROVE  /\ s \ {x} \in SUBSET D
             /\ Cardinality(s \ {x}) = Cardinality(s) - 1
             /\ f[x] \in Int
  <2>1. Cardinality(s \ {x}) = Cardinality(s) - 1
    BY <1>1, FS_RemoveElement
  <2> QED
    BY <2>1
<1>3. N \in Nat
  BY FS_CardinalityType
<1>4. ASSUME NEW s \in SUBSET D, s # {}
      PROVE  first(s) \in s /\ sum[s] = f[first(s)] + sum[s \ {first(s)}]
  <2>1. first(s) \in s
    BY <1>4
  <2> QED
    BY <1>4, <2>1 DEF IsSummed
<1>5. sum[{}] = 0
  BY DEF IsSummed
<1> HIDE DEF first, N, D
<1>6. 0 \in S
  <2>1. \A s \in Small(0) : s = {}
    BY <1>1
  <2> QED
    BY <1>3, <1>5, <2>1
<1>7. ASSUME NEW k \in S, k < N PROVE k + 1 \in S
  <2>1. k \in Nat /\ k + 1 \in 0 .. N
    BY <1>3, <1>7
  <2>2. ASSUME NEW s \in Small(k + 1), NEW x \in s PROVE s \ {x} \in Small(k)
    BY <1>1, <1>2, <2>1
  <2>3. \A s \in Small(k) : AddsUp(s)
    OBVIOUS
  <2>4. ASSUME NEW s \in Small(k + 1) PROVE AddsUp(s)
    <3>1. CASE s = {}
      BY <1>5, <3>1
    <3>2. CASE s # {}
      <4> DEFINE c == first(s)
      <4>1. c \in s /\ sum[s] = f[c] + sum[s \ {c}]
        BY <1>4, <3>2
      <4> HIDE DEF c
      <4>2. s \ {c} \in Small(k) /\ f[c] \in Int
        BY <1>2, <2>2, <4>1
      <4>3. sum[s \ {c}] \in Int
        BY <2>3, <4>2
      <4>4. ASSUME NEW x \in s PROVE sum[s] = f[x] + sum[s \ {x}]
        <5>1. CASE x = c
          BY <4>1, <5>1
        <5>2. CASE x # c
          <6>1. s \ {x} \in Small(k) /\ f[x] \in Int
            BY <1>2, <2>2
          <6>2. x \in s \ {c} /\ c \in s \ {x} /\ (s \ {c}) \ {x} = (s \ {x}) \ {c}
            BY <4>1, <5>2
          <6>3. sum[s \ {c}] = f[x] + sum[(s \ {c}) \ {x}]
            BY <2>3, <4>2, <6>2
          <6>4. sum[s \ {x}] = f[c] + sum[(s \ {x}) \ {c}]
            BY <2>3, <6>1, <6>2
          <6>5. (s \ {x}) \ {c} \in Small(k)
            BY <1>1, <1>2, <2>1, <6>1, <6>2
          <6>6. sum[(s \ {x}) \ {c}] \in Int
            BY <2>3, <6>5
          <6>7. \A a, b, r \in Int : a + (b + r) = b + (a + r)
            OBVIOUS
          <6>8. sum[s] = f[c] + (f[x] + sum[(s \ {x}) \ {c}])
            BY <4>1, <6>2, <6>3
          <6>9. sum[s] = f[x] + (f[c] + sum[(s \ {x}) \ {c}])
            BY <4>2, <6>1, <6>6, <6>7, <6>8
          <6> QED
            BY <6>4, <6>9
        <5> QED
          BY <5>1, <5>2
      <4>5. sum[s] \in Int
        BY <4>1, <4>2, <4>3
      <4> QED
        BY <4>4, <4>5
    <3> QED
      BY <3>1, <3>2
  <2> HIDE DEF AddsUp
  <2> QED
    BY <2>1, <2>4
<1>8. S = 0 .. N
  <2> HIDE DEF S
  <2>1. S \subseteq 0 .. N
    BY DEF S
  <2> QED
    BY <1>3, <1>6, <1>7, <2>1, CountingUp
<1>9. \A s \in SUBSET D : s \in Small(N)
  BY <1>1
<1>10. N \in S
  <2> HIDE DEF S
  <2> QED
    BY <1>3, <1>8
<1> QED
  BY <1>5, <1>9, <1>10 DEF IsSumOver, D

(* So it is a sum.                                                      *)
LEMMA SumFunctionIsASum ==
  ASSUME NEW f, IsFiniteSet(DOMAIN f), \A i \in DOMAIN f : f[i] \in Int
  PROVE  \E sum : SumFunction(f) = sum[DOMAIN f] /\ IsSumOver(f, sum)
<1>1. PICK g : IsSummed(f, g)
  BY SumsExist
<1>2. \E sum : IsSummed(f, sum) /\ SumFunction(f) = sum[DOMAIN f]
  BY <1>1 DEF SumFunction, SumFunctionOnSet, FoldFunctionOnSet, MapThenFoldSet, IsSummed
<1> QED
  BY <1>2, SumsAddUp

(* What f computes, number by number. *)
IsRecursion(g, N, start, step) == g[0] = start /\ \A n \in 1 .. N : g[n] = step[n][g[n - 1]]

(* It computes something for each of them.                                 *)
LEMMA RecursionsReachEveryNumber ==
  ASSUME NEW N \in Nat, NEW V, NEW start \in V, NEW step \in [1 .. N -> [V -> V]]
  PROVE  \E g \in [0 .. N -> V] : IsRecursion(g, N, start, step)
<1> USE DEF IsRecursion
<1> DEFINE Goes(g, k) == IsRecursion(g, k, start, step)
           S == {k \in 0 .. N : \E g \in [0 .. k -> V] : Goes(g, k)}
<1>1. 0 \in S
  <2> DEFINE g == [n \in 0 .. 0 |-> start]
  <2>1. g \in [0 .. 0 -> V] /\ Goes(g, 0)
    OBVIOUS
  <2>2. 0 \in 0 .. N
    OBVIOUS
  <2> HIDE DEF Goes, g
  <2> QED
    BY <2>1, <2>2
<1>2. ASSUME NEW k \in S, k < N PROVE k + 1 \in S
  <2>1. PICK g \in [0 .. k -> V] : Goes(g, k)
    OBVIOUS
  <2>2. k \in Nat /\ k + 1 \in 1 .. N /\ k + 1 \in 0 .. N
    BY <1>2
  <2> DEFINE h == [n \in 0 .. k + 1 |-> IF n = k + 1 THEN step[k + 1][g[k]] ELSE g[n]]
  <2>3. step[k + 1][g[k]] \in V
    BY <2>2
  <2>4. h \in [0 .. k + 1 -> V]
    BY <2>2, <2>3
  <2>5. h[0] = start
    BY <2>1, <2>2
  <2>6. ASSUME NEW n \in 1 .. k + 1 PROVE h[n] = step[n][h[n - 1]]
    <3>1. n - 1 \in 0 .. k /\ h[n - 1] = g[n - 1]
      BY <2>2
    <3>2. CASE n = k + 1
      BY <2>2, <3>1, <3>2
    <3>3. CASE n # k + 1
      <4>1. n \in 1 .. k /\ n \in 0 .. k + 1
        BY <2>2, <3>3
      <4> QED
        BY <2>1, <3>1, <3>3, <4>1
    <3> QED
      BY <3>2, <3>3
  <2>7. Goes(h, k + 1)
    BY <2>5, <2>6
  <2> HIDE DEF Goes, h
  <2> QED
    BY <2>2, <2>4, <2>7
<1>3. S = 0 .. N
  <2> HIDE DEF S
  <2>1. S \subseteq 0 .. N
    BY DEF S
  <2> QED
    BY <1>1, <1>2, <2>1, CountingUp
<1>4. N \in S
  <2> HIDE DEF S
  <2> QED
    BY <1>3
<1> QED
  BY <1>4

(* The four neighbours of an interior pixel are pixels.                    *)
LEMMA ResponsesAreNumbers ==
  ASSUME NEW image, IsGreyscale(image)
  PROVE  /\ DOMAIN image.pixels = 0 .. image.width * image.height - 1
         /\ Cardinality(DOMAIN image.pixels) = image.width * image.height
         /\ image.width * image.height \in Nat
         /\ Interior(image) \subseteq DOMAIN image.pixels
         /\ IsFiniteSet(Interior(image))
         /\ \A i \in Interior(image) : Response(image, i) \in Int
<1> DEFINE w == image.width
           h == image.height
           D == 0 .. w * h - 1
<1>1. w \in Nat \ {0} /\ h \in Nat \ {0} /\ DOMAIN image.pixels = D
  BY DEF IsGreyscale
<1>2. \A i \in D : image.pixels[i] \in Int
  <2>1. image.pixels \in [D -> 0 .. 255]
    BY DEF IsGreyscale
  <2> HIDE DEF D
  <2> QED
    BY <2>1
<1>3. Interior(image) \subseteq D
  BY <1>1 DEF Interior
<1> HIDE DEF w, h
<1>4. w * h \in Nat
  BY <1>1
<1>5. IsFiniteSet(D) /\ Cardinality(D) = w * h
  <2> DEFINE n == w * h
  <2>1. n \in Nat
    BY <1>4
  <2> HIDE DEF n
  <2>2. IsFiniteSet(0 .. n - 1) /\ Cardinality(0 .. n - 1) = n
    BY <2>1, FS_Interval
  <2> QED
    BY <2>2 DEF n
<1>6. IsFiniteSet(Interior(image))
  BY <1>3, <1>5, FS_Subset
<1>7. ASSUME NEW i \in Interior(image) PROVE Response(image, i) \in Int
  <2>1. i \in D /\ i \div w \in 1 .. h - 2 /\ i % w \in 1 .. w - 2
    BY <1>1 DEF Interior, w, h
  <2>2. i \in Nat /\ i = (i \div w) * w + (i % w)
    BY <1>1, <1>4, <2>1
  <2>3. PICK q, r \in Nat : /\ i = q * w + r
                            /\ 1 <= q /\ q <= h - 2 /\ 1 <= r /\ r <= w - 2
    <3> DEFINE q == i \div w
               r == i % w
    <3>1. q \in Nat /\ r \in Nat
      BY <1>1, <2>1
    <3>2. 1 <= q /\ q <= h - 2 /\ 1 <= r /\ r <= w - 2
      BY <1>1, <2>1
    <3>3. i = q * w + r
      BY <2>2
    <3> HIDE DEF q, r
    <3> QED
      BY <3>1, <3>2, <3>3
  <2>4. 1 * w <= q * w /\ q * w <= (h - 2) * w
    <3>1. \A a, b, c \in Int : a <= b /\ c >= 0 => a * c <= b * c
      OBVIOUS
    <3> QED
      BY <1>1, <2>3, <3>1
  <2>5. (h - 2) * w = w * h - 2 * w
    BY <1>1
  <2>6. q * w \in Nat
    BY <1>1, <2>3
  <2>7. {i - w, i + w, i - 1, i + 1, i} \subseteq D
    <3> DEFINE a == q * w
               b == w * h
    <3>1. a \in Nat /\ b \in Nat /\ w <= a /\ a <= b - 2 * w /\ i = a + r
      BY <1>1, <1>4, <2>3, <2>4, <2>5, <2>6
    <3> HIDE DEF a
    <3>2. {i - w, i + w, i - 1, i + 1, i} \subseteq 0 .. b - 1
      <4> HIDE DEF b
      <4> QED
        BY <1>1, <2>3, <3>1
    <3> QED
      BY <3>2
  <2>8. /\ image.pixels[i - w] \in Int /\ image.pixels[i + w] \in Int
        /\ image.pixels[i - 1] \in Int /\ image.pixels[i + 1] \in Int
        /\ image.pixels[i] \in Int
    BY <1>2, <2>7
  <2> QED
    BY <2>8 DEF Response, CenterWeight, w
<1> QED
  BY <1>1, <1>3, <1>4, <1>5, <1>6, <1>7 DEF w, h

(* The sums before pixel n, from those before the pixel before it.         *)
Added(image, sums, n) ==
  IF n - 1 \notin Interior(image) THEN sums
  ELSE LET value == Response(image, n - 1)
       IN  [sum |-> sums.sum + value,
            sumOfSquares |-> sums.sumOfSquares + value * value,
            count |-> sums.count + 1]

NothingAdded == [sum |-> 0, sumOfSquares |-> 0, count |-> 0]

(* The loops' sums, pixel by pixel.                                        *)
LEMMA SumsGoPixelByPixel ==
  ASSUME NEW image, IsGreyscale(image)
  PROVE  \E sums : LET N == image.width * image.height
                   IN  /\ Sums(image) = sums[N]
                       /\ sums[0] = NothingAdded
                       /\ \A n \in 1 .. N : sums[n] = Added(image, sums[n - 1], n)
<1> DEFINE N == image.width * image.height
           V == [sum : Int, sumOfSquares : Int, count : Int]
           step == [n \in 1 .. N |-> [v \in V |-> Added(image, v, n)]]
           Recursion(sums) ==
             sums = [n \in 0 .. Cardinality(DOMAIN image.pixels) |->
                       IF n = 0 THEN [sum |-> 0, sumOfSquares |-> 0, count |-> 0]
                       ELSE IF n - 1 \notin Interior(image) THEN sums[n - 1]
                       ELSE LET value == Response(image, n - 1)
                            IN  [sum |-> sums[n - 1].sum + value,
                                 sumOfSquares |-> sums[n - 1].sumOfSquares + value * value,
                                 count |-> sums[n - 1].count + 1]]
<1>1. N \in Nat /\ Cardinality(DOMAIN image.pixels) = N
  BY ResponsesAreNumbers
<1>2. \A i \in Interior(image) : Response(image, i) \in Int
  BY ResponsesAreNumbers
<1> HIDE DEF N
<1>3. \A n \in 1 .. N : \A v \in V : Added(image, v, n) \in V
  BY <1>2 DEF Added
<1>4. \A n \in 1 .. N : \A v \in V : step[n][v] = Added(image, v, n)
  OBVIOUS
<1>5. NothingAdded \in V /\ step \in [1 .. N -> [V -> V]]
  BY <1>3 DEF NothingAdded
<1> HIDE DEF V, step
<1>6. PICK g \in [0 .. N -> V] : IsRecursion(g, N, NothingAdded, step)
  BY <1>1, <1>5, RecursionsReachEveryNumber
<1>7. \A n \in 1 .. N : g[n] = Added(image, g[n - 1], n)
  <2>1. \A n \in 1 .. N : n - 1 \in 0 .. N
    BY <1>1
  <2> QED
    BY <1>4, <1>6, <2>1 DEF IsRecursion
<1>8. Recursion(g)
  <2>1. \A n \in 0 .. N : n # 0 => n \in 1 .. N
    BY <1>1
  <2> QED
    BY <1>1, <1>6, <1>7, <2>1 DEF IsRecursion, Added, NothingAdded
<1>9. \E sums : Recursion(sums) /\ Sums(image) = sums[N]
  BY <1>1, <1>8 DEF Sums
<1>10. PICK sums : Recursion(sums) /\ Sums(image) = sums[N]
  BY <1>9
<1>11. sums[0] = NothingAdded
  BY <1>1, <1>10 DEF NothingAdded
<1>12. \A n \in 1 .. N : sums[n] = Added(image, sums[n - 1], n)
  <2>1. \A n \in 1 .. N : n \in 0 .. N /\ n # 0
    BY <1>1
  <2> QED
    BY <1>1, <1>10, <2>1 DEF Added
<1> QED
  BY <1>10, <1>11, <1>12 DEF N

(* One more squared deviation, multiplied out.                             *)
LEMMA DeviationsMultiplyOut ==
  ASSUME NEW n \in Int, NEW t \in Int, NEW r \in Int,
         NEW squares \in Int, NEW total \in Int, NEW count \in Int
  PROVE  (n * r - t) * (n * r - t)
           + (n * n * squares - 2 * n * t * total + count * t * t)
         = n * n * (squares + r * r) - 2 * n * t * (total + r) + (count + 1) * t * t
<1>1. (n * r - t) * (n * r - t) = n * n * (r * r) - 2 * n * t * r + t * t
  OBVIOUS
<1>2. n * n * (squares + r * r) = n * n * squares + n * n * (r * r)
  OBVIOUS
<1>3. 2 * n * t * (total + r) = 2 * n * t * total + 2 * n * t * r
  OBVIOUS
<1>4. (count + 1) * t * t = count * t * t + t * t
  OBVIOUS
<1> DEFINE a == n * n * (r * r)
           b == 2 * n * t * r
           c == t * t
           d == n * n * squares
           e == 2 * n * t * total
           f == count * t * t
<1>5. a \in Int /\ b \in Int /\ c \in Int /\ d \in Int /\ e \in Int /\ f \in Int
  OBVIOUS
<1>6. (n * r - t) * (n * r - t) = a - b + c
  BY <1>1
<1> HIDE DEF a, b, c, d, e, f
<1>7. (a - b + c) + (d - e + f) = (d + a) - (e + b) + (f + c)
  BY <1>5
<1> QED
  BY <1>1, <1>2, <1>3, <1>4, <1>6, <1>7 DEF a, b, c, d, e, f

(* The variance that the code computes from two running sums is, times the *)
(* cube of the number of responses, the sum of their squared deviations:   *)
(* for every image, in whatever order the deviations are added up.         *)
LEMMA VarianceIsTheSpread ==
  ASSUME NEW image, IsGreyscale(image)
  PROVE  LET n == Cardinality(Interior(image))
             variance == LaplacianVariance(image)
         IN  /\ n \in Nat
             /\ n = 0 => variance = <<0, 1>>
             /\ n # 0 => /\ variance[1] \in Int
                         /\ variance[2] = n * n
                         /\ SpreadOf(image) = n * variance[1]
<1> DEFINE I == Interior(image)
           N == image.width * image.height
           n == Cardinality(I)
           r == [i \in I |-> Response(image, i)]
           t == SumFunction(r)
           d == [i \in I |-> (n * r[i] - t) * (n * r[i] - t)]
           P(m) == {i \in I : i < m}
<1>1. /\ N \in Nat /\ I \subseteq 0 .. N - 1 /\ IsFiniteSet(I)
      /\ \A i \in I : Response(image, i) \in Int
  BY ResponsesAreNumbers
<1>2. n \in Nat
  BY <1>1, FS_CardinalityType
<1>3. SpreadOf(image) = SumFunction(d)
  BY DEF SpreadOf
<1>4. DOMAIN r = I /\ \A i \in I : r[i] \in Int /\ r[i] = Response(image, i)
  BY <1>1
<1>5. DOMAIN d = I /\ \A i \in I : d[i] = (n * r[i] - t) * (n * r[i] - t)
  OBVIOUS
<1> HIDE DEF I, N, n, r, d
<1>6. PICK sr : /\ SumFunction(r) = sr[I]
                /\ sr[{}] = 0
                /\ \A s \in SUBSET I :
                     sr[s] \in Int /\ \A x \in s : sr[s] = r[x] + sr[s \ {x}]
  <2>1. \E sr : SumFunction(r) = sr[DOMAIN r] /\ IsSumOver(r, sr)
    BY <1>1, <1>4, SumFunctionIsASum
  <2> QED
    BY <1>4, <2>1 DEF IsSumOver
<1>7. t \in Int
  BY <1>6
<1>8. PICK sd : /\ SumFunction(d) = sd[I]
                /\ sd[{}] = 0
                /\ \A s \in SUBSET I :
                     sd[s] \in Int /\ \A x \in s : sd[s] = d[x] + sd[s \ {x}]
  <2>1. \A i \in I : d[i] \in Int
    BY <1>2, <1>4, <1>5, <1>7
  <2>2. \E sd : SumFunction(d) = sd[DOMAIN d] /\ IsSumOver(d, sd)
    BY <1>1, <1>5, <2>1, SumFunctionIsASum
  <2> QED
    BY <1>5, <2>2 DEF IsSumOver
<1>9. PICK sums : /\ Sums(image) = sums[N]
                  /\ sums[0] = NothingAdded
                  /\ \A m \in 1 .. N : sums[m] = Added(image, sums[m - 1], m)
  BY SumsGoPixelByPixel DEF N
<1> DEFINE squares(m) == sums[m].sumOfSquares
           total(m) == sums[m].sum
           count(m) == sums[m].count
           AddsUp(m) == /\ squares(m) \in Int
                        /\ total(m) = sr[P(m)]
                        /\ count(m) = Cardinality(P(m))
                        /\ sd[P(m)] = n * n * squares(m) - 2 * n * t * total(m) + count(m) * t * t
           S == {m \in 0 .. N : AddsUp(m)}
<1>0. \A i \in I : i \in Nat /\ i < N
  BY <1>1
<1>10. \A m \in 0 .. N : /\ P(m) \in SUBSET I
                         /\ IsFiniteSet(P(m))
                         /\ Cardinality(P(m)) \in Nat
  BY <1>1, FS_Subset, FS_CardinalityType
<1>11. 0 \in S
  <2>1. P(0) = {}
    BY <1>0
  <2>2. squares(0) = 0 /\ total(0) = 0 /\ count(0) = 0
    BY <1>9 DEF NothingAdded
  <2>3. AddsUp(0)
    <3>1. \A a, b \in Int : 0 = a * a * 0 - 2 * a * b * 0 + 0 * b * b
      OBVIOUS
    <3> HIDE DEF P, t, squares, total, count
    <3>2. n \in Int /\ sr[P(0)] = 0 /\ sd[P(0)] = 0 /\ Cardinality(P(0)) = 0
      <4>1. n \in Int
        BY <1>2
      <4>2. sr[P(0)] = 0
        BY <1>6, <2>1
      <4>3. sd[P(0)] = 0
        BY <1>8, <2>1
      <4>4. Cardinality(P(0)) = 0
        BY <2>1, FS_EmptySet
      <4> QED
        BY <4>1, <4>2, <4>3, <4>4
    <3> QED
      BY <1>7, <2>2, <3>1, <3>2
  <2> HIDE DEF AddsUp
  <2> QED
    BY <1>1, <2>3
<1>12. ASSUME NEW k \in S, k < N PROVE k + 1 \in S
  <2>1. k \in Nat /\ k + 1 \in 1 .. N /\ k + 1 \in 0 .. N /\ k \in 0 .. N /\ AddsUp(k)
    BY <1>1, <1>12
  <2>2. sums[k + 1] = Added(image, sums[k], k + 1)
    BY <1>9, <2>1
  <2>3. CASE k \notin I
    <3>1. sums[k + 1] = sums[k]
      BY <2>1, <2>2, <2>3 DEF Added, I
    <3>2. P(k + 1) = P(k)
      BY <1>0, <2>1, <2>3
    <3>3. AddsUp(k + 1)
      BY <2>1, <3>1, <3>2
    <3> HIDE DEF AddsUp
    <3> QED
      BY <2>1, <3>3
  <2>4. CASE k \in I
    <3>1. /\ total(k + 1) = total(k) + r[k]
          /\ squares(k + 1) = squares(k) + r[k] * r[k]
          /\ count(k + 1) = count(k) + 1
      BY <1>4, <2>1, <2>2, <2>4 DEF Added, I
    <3>2. k \in P(k + 1) /\ P(k + 1) \ {k} = P(k)
      <4>1. \A i \in I : (i < k + 1 /\ i # k) <=> i < k
        BY <1>0, <2>1
      <4>2. k < k + 1
        BY <2>1
      <4> QED
        BY <2>4, <4>1, <4>2
    <3>p. /\ P(k) \in SUBSET I /\ P(k + 1) \in SUBSET I /\ IsFiniteSet(P(k + 1))
          /\ Cardinality(P(k)) \in Nat /\ Cardinality(P(k + 1)) \in Nat
      BY <1>10, <2>1
    <3>q. total(k) = sr[P(k)] /\ count(k) = Cardinality(P(k)) /\ squares(k) \in Int
      BY <2>1
    <3>s. sd[P(k)] = n * n * squares(k) - 2 * n * t * total(k) + count(k) * t * t
      BY <2>1
    <3> HIDE DEF squares, total, count, P, t
    <3>3. sr[P(k + 1)] = r[k] + sr[P(k)] /\ sr[P(k)] \in Int
      BY <1>6, <3>2, <3>p
    <3>4. sd[P(k + 1)] = d[k] + sd[P(k)]
      BY <1>8, <3>2, <3>p
    <3>5. Cardinality(P(k)) = Cardinality(P(k + 1)) - 1
      BY <3>2, <3>p, FS_RemoveElement
    <3>6. r[k] \in Int /\ d[k] = (n * r[k] - t) * (n * r[k] - t)
      BY <1>4, <1>5, <2>4
    <3>7. squares(k) \in Int /\ total(k) \in Int /\ count(k) \in Int
      BY <3>3, <3>p, <3>q
    <3>8. total(k + 1) = sr[P(k + 1)]
      BY <3>1, <3>3, <3>6, <3>q
    <3>9. count(k + 1) = Cardinality(P(k + 1))
      BY <3>1, <3>5, <3>p, <3>q
    <3>10. squares(k + 1) \in Int
      BY <3>1, <3>6, <3>7
    <3>12. n \in Int
      BY <1>2
    <3>13. sd[P(k + 1)] = n * n * (squares(k) + r[k] * r[k]) - 2 * n * t * (total(k) + r[k])
                            + (count(k) + 1) * t * t
      BY <1>7, <3>4, <3>6, <3>7, <3>s, <3>12, DeviationsMultiplyOut
    <3>14. AddsUp(k + 1)
      BY <3>1, <3>8, <3>9, <3>10, <3>13
    <3> HIDE DEF AddsUp
    <3> QED
      BY <2>1, <3>14
  <2> QED
    BY <2>3, <2>4
<1>13. AddsUp(N)
  <2> HIDE DEF AddsUp
  <2>1. S = 0 .. N
    <3> HIDE DEF S
    <3>1. S \subseteq 0 .. N
      BY DEF S
    <3> QED
      BY <1>1, <1>11, <1>12, <3>1, CountingUp
  <2>2. N \in 0 .. N
    BY <1>1
  <2> QED
    BY <2>1, <2>2
<1>14. P(N) = I
  BY <1>0
<1>15. /\ squares(N) \in Int
       /\ total(N) = t
       /\ count(N) = n
       /\ sd[I] = n * n * squares(N) - 2 * n * t * t + n * t * t
  BY <1>6, <1>13, <1>14 DEF n
<1>16. /\ n = 0 => LaplacianVariance(image) = <<0, 1>>
       /\ n # 0 => LaplacianVariance(image) = <<squares(N) * n - t * t, n * n>>
  BY <1>9, <1>15 DEF LaplacianVariance
<1>17. sd[I] = n * (squares(N) * n - t * t)
  <2> HIDE DEF t
  <2>1. \A a, b, q \in Int : a * a * q - 2 * a * b * b + a * b * b = a * (q * a - b * b)
    OBVIOUS
  <2> QED
    BY <1>2, <1>7, <1>15, <2>1
<1>18. n # 0 => /\ LaplacianVariance(image)[1] \in Int
                /\ LaplacianVariance(image)[2] = n * n
                /\ SpreadOf(image) = n * LaplacianVariance(image)[1]
  <2> HIDE DEF t, squares
  <2> QED
    BY <1>2, <1>3, <1>7, <1>8, <1>15, <1>16, <1>17
<1> QED
  BY <1>2, <1>16, <1>18 DEF n, I

-----------------------------------------------------------------------------
(* The way of a photo. *)

(* Of the pipeline's steps only a round of Suppress touches the detector's *)
(* variables, and it is FaceSuppression's step.                            *)
LEMMA StepsSuppressOrStutter ==
  ASSUME [PathNext]_allVars
  PROVE  [Next]_vars
<1>1. CASE CreateLocalUpload \/ ReceiveImageUpload \/ ComputeHash
  BY <1>1 DEF CreateLocalUpload, ReceiveImageUpload, ComputeHash, detectorVars, vars
<1>2. CASE Validate
  <2>1. CASE Suppress
    BY <2>1 DEF Suppress, Next
  <2>2. CASE FileSizeCheck \/ DecodeCheck \/ ResolutionCheck
    BY <2>2 DEF FileSizeCheck, DecodeCheck, ResolutionCheck, detectorVars, vars
  <2>3. CASE FaceCheck
    BY <2>3 DEF FaceCheck, detectorVars, vars
  <2>4. CASE BlurCheck
    BY <2>4 DEF BlurCheck, detectorVars, vars
  <2> QED
    BY <1>2, <2>1, <2>2, <2>3, <2>4 DEF Validate, PipelineNext
<1>3. CASE UNCHANGED allVars
  BY <1>3 DEF allVars, detectorVars, vars
<1> QED
  BY <1>1, <1>2, <1>3 DEF PathNext

(* The pipeline's runs of the detector are runs of FaceSuppression.        *)
THEOREM PathsImplementSuppression == PathSpec => Spec
<1>1. PathInit => Init
  BY DEF PathInit, PipelineInit
<1>2. [PathNext]_allVars => [Next]_vars
  BY StepsSuppressOrStutter
<1> QED
  BY <1>1, <1>2, PTL DEF PathSpec, Spec

(* On no photo's way is a face counted twice, and whoever is not counted   *)
(* is covered by a face that is.                                           *)
THEOREM PathsCountFacesOnce ==
  PathSpec => []KeptFacesAreDistinct /\ []DroppedFacesAreCovered
BY PathsImplementSuppression, FacesAreDistinct, NobodyIsLost, PTL

-----------------------------------------------------------------------------
(* Each verdict on kind or size, with the test it rests on. *)
DecisionsHaveTheirReason ==
  /\ photo \in Photo
  /\ upload.phase = "queued" => ValidateFile(photo) = "null"
  /\ response = "FILE_TOO_LARGE" => MayExceedLimit
  /\ response = "UNSUPPORTED_FORMAT" => SniffImageFormat(photo) = "null"
  /\ outcome = "FILE_TOO_SMALL" => photo.bytes < MinFileBytes

(* Nothing is decided at first.                                            *)
LEMMA PathInitHasReasons == PathInit => DecisionsHaveTheirReason
BY DEF PathInit, PipelineInit, NoUpload, DecisionsHaveTheirReason

(* Each step that decides by one of the tests decides by that of its own   *)
(* verdict, and nobody writes a verdict over another.                      *)
LEMMA PathStepsHaveReasons ==
  ASSUME DecisionsHaveTheirReason, [PathNext]_allVars
  PROVE  DecisionsHaveTheirReason'
<1> USE DEF DecisionsHaveTheirReason
<1>1. CASE CreateLocalUpload
  BY <1>1 DEF CreateLocalUpload, detectorVars, pipelineVars, MayExceedLimit
<1>2. CASE ReceiveImageUpload
  BY <1>2 DEF ReceiveImageUpload, Refuse, contextVars, MayExceedLimit
<1>3. CASE Validate
  <2>1. UNCHANGED pathVars
    BY <1>3 DEF Validate
  <2>2. photo' = photo /\ (outcome' = "FILE_TOO_SMALL" => photo.bytes < MinFileBytes)
    <3>1. CASE FileSizeCheck
      BY <3>1 DEF FileSizeCheck, Judge, Decide, Passes
    <3>2. CASE DecodeCheck \/ ResolutionCheck
      BY <3>2 DEF DecodeCheck, ResolutionCheck, Judge, Decide, Passes, Throws
    <3>3. CASE Suppress
      BY <3>3 DEF Suppress
    <3>4. CASE FaceCheck
      BY <3>4 DEF FaceCheck, Judge, Decide, Passes, Throws
    <3>5. CASE BlurCheck
      BY <3>5 DEF BlurCheck, Judge, Decide, Passes, Throws
    <3> QED
      BY <1>3, <3>1, <3>2, <3>3, <3>4, <3>5 DEF Validate, PipelineNext
  <2> QED
    BY <2>1, <2>2 DEF pathVars, MayExceedLimit
<1>4. CASE ComputeHash
  BY <1>4 DEF ComputeHash, detectorVars, pipelineVars, MayExceedLimit
<1>5. CASE UNCHANGED allVars
  BY <1>5 DEF allVars, pipelineVars, pathVars, MayExceedLimit
<1> QED
  BY <1>1, <1>2, <1>3, <1>4, <1>5 DEF PathNext

(* shared/constants.ts: one place for the rules "guarantees both sides     *)
(* enforce identical limits": what the browser queues is refused neither   *)
(* by the API for its kind or size nor by the worker for its size.         *)
THEOREM QueuedFilesStayWelcome == PathSpec => []QueuedFilesAreWelcome
<1>1. DecisionsHaveTheirReason => QueuedFilesAreWelcome
  <2> SUFFICES ASSUME DecisionsHaveTheirReason, upload.phase = "queued",
                      photo.bytes # MaxFileBytes
               PROVE  /\ response \notin {"FILE_TOO_LARGE", "UNSUPPORTED_FORMAT"}
                      /\ outcome # "FILE_TOO_SMALL"
    BY DEF QueuedFilesAreWelcome
  <2>1. /\ SniffImageFormat(photo) # "null"
        /\ ~(photo.bytes < MinFileBytes)
        /\ ~(photo.bytes > MaxFileBytes)
    BY DEF DecisionsHaveTheirReason, ValidateFile
  <2>2. photo.bytes \in Nat /\ MaxFileBytes \in Nat
    BY SizesAreNumbers, LimitsAreOrdered DEF DecisionsHaveTheirReason
  <2>3. ~MayExceedLimit
    BY <2>1, <2>2 DEF MayExceedLimit
  <2> QED
    BY <2>1, <2>3 DEF DecisionsHaveTheirReason
<1> QED
  BY <1>1, PathInitHasReasons, PathStepsHaveReasons, PTL DEF PathSpec

-----------------------------------------------------------------------------
(* What one check leaves to the next. *)

(* What the gate let through: a file within the limit, of a known kind.    *)
FormatsAreSniffed ==
  format # "null" => /\ format = SniffImageFormat(photo)
                     /\ photo.bytes <= MaxFileBytes
                     /\ response # "none"

(* What the decoder made of it: its first image, upright.                  *)
ImagesAreUpright ==
  decoded # Unreadable =>
    /\ photo.images # <<>>
    /\ WithinPixelLimit(photo.images[1])
    /\ decoded = ToWorkingImage(Upright(photo.images[1]), Upright(photo.images[1]))

(* What the face check let pass. *)
MainFaceStandsOut ==
  /\ \E i \in DOMAIN faces :
       /\ \A j \in DOMAIN faces \ {i} :
            BoxArea(faces[j]) * MinSecondaryArea[2] < MinSecondaryArea[1] * BoxArea(faces[i])
       /\ faces[i] = mainFace
  /\ IsInside(mainFace, Bounds)
  /\ ~IsTooSmall(mainFace)

(* What the blur check did. *)
MeasuresSharp == LET variance == LaplacianVariance(photo.crop)
                 IN  ~(variance[1] < MinLaplacianVariance * variance[2])

(* A check is reached only with what the ones before it establish.         *)
ChecksBuildOnEachOther ==
  /\ check \in 1 .. 6
  /\ check >= 2 => format # "null" /\ photo.bytes >= MinFileBytes
  /\ check >= 3 => decoded # Unreadable
  /\ check >= 4 => Lower(decoded.original.width, decoded.original.height) >= MinShortSidePx
  /\ check >= 5 => MainFaceStandsOut
  /\ check >= 6 => MeasuresSharp

(* How a run ends. *)
OutcomesHaveTheirCause ==
  /\ outcome = "passed" => check = 6
  /\ outcome = "bad crop" => mainFace.width = 0
  /\ outcome # "misconfigured"

PathInv == /\ photo \in Photo
           /\ FormatsAreSniffed
           /\ ImagesAreUpright
           /\ ChecksBuildOnEachOther
           /\ OutcomesHaveTheirCause

(* No check has run at first.                                              *)
LEMMA PathInitEstablishesInv == PathInit => PathInv
<1> SUFFICES ASSUME PathInit PROVE PathInv
  OBVIOUS
<1>1. /\ photo \in Photo /\ check = 1 /\ decoded = Unreadable
      /\ outcome = "running" /\ format = "null"
  BY DEF PathInit, PipelineInit
<1>2. FormatsAreSniffed /\ ImagesAreUpright
  BY <1>1 DEF FormatsAreSniffed, ImagesAreUpright
<1>3. ChecksBuildOnEachOther
  BY <1>1 DEF ChecksBuildOnEachOther
<1>4. OutcomesHaveTheirCause
  BY <1>1 DEF OutcomesHaveTheirCause
<1> QED
  BY <1>1, <1>2, <1>3, <1>4 DEF PathInv

(* Each check has its place in ALL_CHECKS.                                 *)
LEMMA ChecksHaveTheirPlace ==
  ASSUME check \in 1 .. 6
  PROVE  /\ Len(Order) = 5
         /\ Reaches("file-size") => check = 1
         /\ Reaches("decode") => check = 2
         /\ Reaches("resolution") => check = 3
         /\ Reaches("face") => check = 4
         /\ Reaches("blur") => check = 5
BY DEF Reaches, Order

(* The working image of a photo under way has a size.                      *)
LEMMA WorkingImageHasASize ==
  ASSUME PathInv, decoded # Unreadable
  PROVE  /\ decoded.working.width \in Nat \ {0}
         /\ decoded.working.height \in Nat \ {0}
         /\ Bounds.width \in Nat \ {0}
         /\ Bounds.height \in Nat \ {0}
         /\ Bounds.width = decoded.working.width * UnitsPerPixel
         /\ Bounds.height = decoded.working.height * UnitsPerPixel
         /\ InverseScale \in Nat
         /\ decoded.original = Upright(photo.images[1])
         /\ photo.images[1].width \in Nat \ {0}
         /\ photo.images[1].height \in Nat \ {0}
<1>1. /\ photo \in Photo /\ photo.images # <<>>
      /\ decoded = ToWorkingImage(Upright(photo.images[1]), Upright(photo.images[1]))
  BY DEF PathInv, ImagesAreUpright
<1>2. /\ photo.images[1].width \in Nat \ {0} /\ photo.images[1].height \in Nat \ {0}
      /\ decoded.original = Upright(photo.images[1])
      /\ decoded.working.width \in Nat \ {0} /\ decoded.working.height \in Nat \ {0}
  BY <1>1, DecodedImagesHaveASize
<1>3. InverseScale \in Nat
  <2>1. LongestSide(decoded.working) \in Nat
    BY <1>2 DEF LongestSide, Upper
  <2> HIDE DEF LongestSide
  <2> QED
    BY <2>1, PixelsAreCounted, DivisionRoundsDown DEF InverseScale
<1>4. /\ Bounds.width = decoded.working.width * UnitsPerPixel
      /\ Bounds.height = decoded.working.height * UnitsPerPixel
  BY DEF Bounds
<1>5. Bounds.width \in Nat \ {0} /\ Bounds.height \in Nat \ {0}
  BY <1>2, <1>4, PixelsAreDivided
<1> QED
  BY <1>2, <1>3, <1>4, <1>5

(* The faces the detector returns are some, finitely many, and inside.     *)
LEMMA DetectedFacesAreInside ==
  ASSUME PathInv, TypeOK, decoded # Unreadable
  PROVE  /\ DOMAIN DetectedFaces = kept
         /\ kept \in SUBSET Nat /\ IsFiniteSet(kept)
         /\ \A i \in kept : IsInside(DetectedFaces[i], Bounds)
<1>1. /\ next \in Nat /\ next - 1 \in Int /\ kept \subseteq 1 .. next - 1
      /\ next - 1 <= Len(sorted) /\ Len(sorted) \in Nat
      /\ sorted \in Seq([box : RawBox, score : Score])
  BY DEF TypeOK
<1>2. kept \in SUBSET Nat
  BY <1>1
<1>3. IsFiniteSet(kept)
  <2>1. IsFiniteSet(1 .. next - 1)
    BY <1>1, FS_Interval
  <2> QED
    BY <1>1, <2>1, FS_Subset
<1>4. ASSUME NEW i \in kept PROVE IsInside(DetectedFaces[i], Bounds)
  <2>1. i \in 1 .. Len(sorted)
    BY <1>1
  <2>2. sorted[i] \in [box : RawBox, score : Score]
    BY <1>1, <2>1, ElementOfSeq
  <2>3. sorted[i].box \in Box
    BY <2>2, BoxesAreBoxes
  <2>4. ScaleBox(sorted[i].box, InverseScale) \in Box
    <3>1. ASSUME NEW box \in Box, NEW k \in Nat PROVE ScaleBox(box, k) \in Box
      <4>1. box.x \in Int /\ box.y \in Int /\ box.width \in Nat /\ box.height \in Nat
        BY DEF Box
      <4>2. /\ box.x * k \in Int /\ box.y * k \in Int
            /\ box.width * k \in Nat /\ box.height * k \in Nat
        BY <4>1
      <4> QED
        BY <4>2 DEF ScaleBox, Box
    <3> QED
      BY <2>3, <3>1, WorkingImageHasASize
  <2>5. IsInside(ToImageCoordinates(sorted[i].box), Bounds)
    BY <2>4, WorkingImageHasASize, ClampedBoxesAreInside DEF ToImageCoordinates
  <2> QED
    BY <2>5 DEF DetectedFaces
<1> QED
  BY <1>2, <1>3, <1>4 DEF DetectedFaces

(* Of a face with a part in the frame a pixel can be cut out, and the crop *)
(* covers it.                                                              *)
LEMMA CropsCoverTheFace ==
  ASSUME PathInv, decoded # Unreadable, IsInside(mainFace, Bounds)
  PROVE  /\ FaceCrop.x * UnitsPerPixel <= mainFace.x
         /\ mainFace.x + mainFace.width <= (FaceCrop.x + FaceCrop.width) * UnitsPerPixel
         /\ FaceCrop.y * UnitsPerPixel <= mainFace.y
         /\ mainFace.y + mainFace.height <= (FaceCrop.y + FaceCrop.height) * UnitsPerPixel
         /\ mainFace.width # 0 /\ mainFace.height # 0 => CanExtract(FaceCrop)
<1> DEFINE n == FacePadding[1]
           d == FacePadding[2]
           w == decoded.working.width
           h == decoded.working.height
           left == Clamp(FloorPixel(d * mainFace.x - n * mainFace.width, d), 0, w)
           top == Clamp(FloorPixel(d * mainFace.y - n * mainFace.height, d), 0, h)
           right == Clamp(CeilPixel(d * (mainFace.x + mainFace.width) + n * mainFace.width, d), 0, w)
           bottom == Clamp(CeilPixel(d * (mainFace.y + mainFace.height) + n * mainFace.height, d), 0, h)
<1>1. /\ n \in Nat /\ d \in Nat \ {0} /\ w \in Nat /\ h \in Nat
      /\ Bounds.width = w * UnitsPerPixel /\ Bounds.height = h * UnitsPerPixel
  BY RatiosAreRatios, WorkingImageHasASize
<1>2. /\ mainFace.x \in Nat /\ mainFace.width \in Nat
      /\ mainFace.x + mainFace.width <= w * UnitsPerPixel
      /\ mainFace.y \in Nat /\ mainFace.height \in Nat
      /\ mainFace.y + mainFace.height <= h * UnitsPerPixel
  BY <1>1 DEF IsInside
<1>3. /\ FaceCrop.x = left /\ FaceCrop.width = right - left
      /\ FaceCrop.y = top /\ FaceCrop.height = bottom - top
  BY DEF FaceCrop, PaddedRegion, Spanning
<1> HIDE DEF n, d, w, h
<1>4. /\ left \in 0 .. w /\ right \in 0 .. w
      /\ left * UnitsPerPixel <= mainFace.x
      /\ mainFace.x + mainFace.width <= right * UnitsPerPixel
  BY <1>1, <1>2, CutsCover
<1>5. /\ top \in 0 .. h /\ bottom \in 0 .. h
      /\ top * UnitsPerPixel <= mainFace.y
      /\ mainFace.y + mainFace.height <= bottom * UnitsPerPixel
  BY <1>1, <1>2, CutsCover
<1> HIDE DEF left, top, right, bottom
<1>6. /\ FaceCrop.x + FaceCrop.width = right
      /\ FaceCrop.y + FaceCrop.height = bottom
  BY <1>1, <1>3, <1>4, <1>5
<1>7. ASSUME NEW a \in Nat, NEW b \in Nat, NEW x \in Nat, NEW s \in Nat \ {0},
             a * UnitsPerPixel <= x, x + s <= b * UnitsPerPixel
      PROVE  b - a > 0
  <2>1. ~(b <= a)
    <3>1. b <= a => b * UnitsPerPixel <= a * UnitsPerPixel
      BY <1>7, PixelsAreDivided, FactorsKeepOrder
    <3>2. a * UnitsPerPixel \in Nat /\ b * UnitsPerPixel \in Nat
      BY <1>7, PixelsAreDivided
    <3> QED
      BY <1>7, <3>1, <3>2
  <2> QED
    BY <2>1
<1>8. ASSUME mainFace.width # 0, mainFace.height # 0 PROVE CanExtract(FaceCrop)
  <2>1. left \in Nat /\ right \in Nat /\ top \in Nat /\ bottom \in Nat
    BY <1>1, <1>4, <1>5
  <2>2. right - left > 0
    BY <1>2, <1>4, <1>7, <1>8, <2>1
  <2>3. bottom - top > 0
    BY <1>2, <1>5, <1>7, <1>8, <2>1
  <2> QED
    BY <1>1, <1>3, <1>4, <1>5, <1>6, <2>2, <2>3 DEF CanExtract, w, h
<1> QED
  BY <1>3, <1>4, <1>5, <1>6, <1>8

(* A face tall enough for the rules has a height.                          *)
LEMMA FacesThatPassHaveAHeight ==
  ASSUME PathInv, decoded # Unreadable, mainFace.height \in Nat, ~IsTooSmall(mainFace)
  PROVE  mainFace.height # 0
<1>1. /\ Bounds.height \in Nat \ {0}
      /\ MinFaceHeight[1] \in Nat \ {0} /\ MinFaceHeight[2] \in Nat \ {0}
  BY WorkingImageHasASize, RatiosAreRatios
<1>2. MinFaceHeight[1] * Bounds.height > 0
  BY <1>1
<1>3. 0 * MinFaceHeight[2] = 0
  BY <1>1
<1> QED
  BY <1>2, <1>3 DEF IsTooSmall

-----------------------------------------------------------------------------
(* The checks, one by one. *)

(* The file's size, and the decoder.                                       *)
LEMMA FileChecksKeepInv ==
  ASSUME PathInv, FileSizeCheck \/ DecodeCheck, UNCHANGED pathVars
  PROVE  PathInv'
<1> USE DEF PathInv
<1>0. check \in 1 .. 6 /\ photo \in Photo
  BY DEF ChecksBuildOnEachOther
<1>1. CASE FileSizeCheck
  <2>1. /\ check = 1 /\ format # "null"
        /\ UNCHANGED <<photo, format, decoded, faces, mainFace, response>>
        /\ Judge(photo.bytes < MinFileBytes, "FILE_TOO_SMALL")
    BY <1>0, <1>1, ChecksHaveTheirPlace DEF FileSizeCheck, Reaches, contextVars, pathVars
  <2>2. \/ check' = 1 /\ outcome' = "FILE_TOO_SMALL"
        \/ ~(photo.bytes < MinFileBytes) /\ check' = 2 /\ outcome' = "running"
    BY <1>0, <2>1, ChecksHaveTheirPlace DEF Judge, Decide, Passes
  <2>3. FormatsAreSniffed' /\ ImagesAreUpright'
    BY <2>1 DEF FormatsAreSniffed, ImagesAreUpright
  <2>4. photo.bytes \in Nat /\ MinFileBytes \in Nat
    BY <1>0, SizesAreNumbers, LimitsAreOrdered
  <2>5. ChecksBuildOnEachOther'
    BY <2>1, <2>2, <2>4 DEF ChecksBuildOnEachOther
  <2>6. OutcomesHaveTheirCause'
    BY <2>2 DEF OutcomesHaveTheirCause
  <2> QED
    BY <1>0, <2>1, <2>3, <2>5, <2>6
<1>2. CASE DecodeCheck
  <2>1. /\ check = 2 /\ format # "null"
        /\ UNCHANGED <<photo, format, faces, mainFace, response>>
        /\ decoded' = Decode(photo, format)
        /\ Judge(decoded' = Unreadable, "UNREADABLE")
    BY <1>0, <1>2, ChecksHaveTheirPlace DEF DecodeCheck, Reaches, pathVars
  <2>2. \/ check' = 2 /\ outcome' = "UNREADABLE"
        \/ decoded' # Unreadable /\ check' = 3 /\ outcome' = "running"
    BY <1>0, <2>1, ChecksHaveTheirPlace DEF Judge, Decide, Passes
  <2>3. FormatsAreSniffed'
    BY <2>1 DEF FormatsAreSniffed
  <2>4. ImagesAreUpright'
    <3> SUFFICES ASSUME decoded' # Unreadable
                 PROVE  /\ photo.images # <<>>
                        /\ WithinPixelLimit(photo.images[1])
                        /\ decoded' = ToWorkingImage(Upright(photo.images[1]),
                                                     Upright(photo.images[1]))
      BY <2>1 DEF ImagesAreUpright
    <3>1. format = SniffImageFormat(photo) /\ SniffImageFormat(photo) # "null"
      BY <2>1 DEF FormatsAreSniffed
    <3> QED
      BY <1>0, <2>1, <3>1, DecodingIsUpright
  <2>5. ChecksBuildOnEachOther'
    BY <2>1, <2>2 DEF ChecksBuildOnEachOther
  <2>6. OutcomesHaveTheirCause'
    BY <2>2 DEF OutcomesHaveTheirCause
  <2> QED
    BY <1>0, <2>1, <2>3, <2>4, <2>5, <2>6
<1> QED
  BY <1>1, <1>2

(* The resolution, which never meets a photo that was not decoded.         *)
LEMMA ResolutionCheckKeepsInv ==
  ASSUME PathInv, ResolutionCheck, UNCHANGED pathVars
  PROVE  PathInv'
<1>0. check \in 1 .. 6 /\ photo \in Photo
  BY DEF PathInv, ChecksBuildOnEachOther
<1> DEFINE short == Lower(decoded.original.width, decoded.original.height)
<1>1. /\ check = 3 /\ format # "null" /\ decoded # Unreadable
      /\ UNCHANGED <<photo, format, decoded, faces, mainFace, response>>
  BY <1>0, ChecksHaveTheirPlace
     DEF ResolutionCheck, Reaches, contextVars, pathVars, PathInv, ChecksBuildOnEachOther
<1>2. Judge(short < MinShortSidePx, "RESOLUTION_TOO_LOW")
  BY <1>1 DEF ResolutionCheck
<1>3. short \in Nat /\ MinShortSidePx \in Nat
  BY <1>1, WorkingImageHasASize, PixelsAreCounted DEF Upright, Lower
<1>4. \/ check' = 3 /\ outcome' = "RESOLUTION_TOO_LOW"
      \/ ~(short < MinShortSidePx) /\ check' = 4 /\ outcome' = "running"
  BY <1>0, <1>1, <1>2, ChecksHaveTheirPlace DEF Judge, Decide, Passes
<1>5. FormatsAreSniffed' /\ ImagesAreUpright'
  BY <1>1 DEF PathInv, FormatsAreSniffed, ImagesAreUpright
<1>6. check' \in {3, 4} /\ (check' = 4 => short >= MinShortSidePx)
  BY <1>3, <1>4
<1>7. ChecksBuildOnEachOther'
  BY <1>1, <1>6 DEF PathInv, ChecksBuildOnEachOther
<1>8. OutcomesHaveTheirCause'
  BY <1>4 DEF OutcomesHaveTheirCause
<1> QED
  BY <1>0, <1>1, <1>5, <1>7, <1>8 DEF PathInv

(* The face: the first of the largest, unless another stands out too.      *)
LEMMA FaceCheckKeepsInv ==
  ASSUME PathInv, TypeOK, FaceCheck, UNCHANGED pathVars
  PROVE  PathInv'
<1>0. check \in 1 .. 6 /\ photo \in Photo
  BY DEF PathInv, ChecksBuildOnEachOther
<1>1. /\ check = 4 /\ format # "null" /\ decoded # Unreadable /\ outcome = "running"
      /\ photo.bytes >= MinFileBytes
      /\ Lower(decoded.original.width, decoded.original.height) >= MinShortSidePx
      /\ UNCHANGED <<photo, format, decoded, response>>
  <2>1. Reaches("face") /\ UNCHANGED <<photo, format, decoded>>
    BY DEF FaceCheck
  <2>2. check = 4 /\ format # "null" /\ outcome = "running"
    BY <1>0, <2>1, ChecksHaveTheirPlace DEF Reaches
  <2>3. ChecksBuildOnEachOther /\ response' = response
    BY DEF PathInv, pathVars
  <2> QED
    BY <2>1, <2>2, <2>3 DEF ChecksBuildOnEachOther
<1>2. FormatsAreSniffed' /\ ImagesAreUpright'
  BY <1>1 DEF PathInv, FormatsAreSniffed, ImagesAreUpright
<1> DEFINE main == LargestFace(DetectedFaces)
<1>3. \/ /\ check' = 4 /\ outcome' \in {"detector failed", "NO_FACE", "MULTIPLE_FACES"}
      \/ /\ kept # {} /\ faces' = DetectedFaces /\ mainFace' = DetectedFaces[main]
         /\ ~HasProminentSecondFace(DetectedFaces, main)
         /\ Judge(IsTooSmall(DetectedFaces[main]), "FACE_TOO_SMALL")
  BY <1>1 DEF FaceCheck, Decide, Throws
<1>4. CASE check' = 4 /\ outcome' \in {"detector failed", "NO_FACE", "MULTIPLE_FACES"}
  <2>0. check' = 4 /\ decoded' = decoded /\ photo' = photo /\ format' = format
    BY <1>1, <1>4
  <2>1. ChecksBuildOnEachOther'
    BY <1>1, <2>0 DEF ChecksBuildOnEachOther
  <2>2. OutcomesHaveTheirCause'
    BY <1>4 DEF OutcomesHaveTheirCause
  <2> QED
    BY <1>0, <1>1, <1>2, <2>1, <2>2 DEF PathInv
<1>5. CASE /\ kept # {} /\ faces' = DetectedFaces /\ mainFace' = DetectedFaces[main]
           /\ ~HasProminentSecondFace(DetectedFaces, main)
           /\ Judge(IsTooSmall(DetectedFaces[main]), "FACE_TOO_SMALL")
  <2>1. \/ check' = 4 /\ outcome' = "FACE_TOO_SMALL"
        \/ ~IsTooSmall(DetectedFaces[main]) /\ check' = 5 /\ outcome' = "running"
    BY <1>0, <1>1, <1>5, ChecksHaveTheirPlace DEF Judge, Decide, Passes
  <2>2. /\ DOMAIN DetectedFaces = kept /\ kept \in SUBSET Nat /\ IsFiniteSet(kept)
        /\ \A i \in kept : IsInside(DetectedFaces[i], Bounds)
    BY <1>1, DetectedFacesAreInside
  <2>3. \A i \in kept : BoxArea(DetectedFaces[i]) \in Nat
    BY <2>2, AreasAreNumbers DEF IsInside
  <2>4. main \in kept
    BY <1>5, <2>2, <2>3, SomeFaceIsLargest
  <2>5. \A j \in kept \ {main} :
          BoxArea(DetectedFaces[j]) * MinSecondaryArea[2]
            < MinSecondaryArea[1] * BoxArea(DetectedFaces[main])
    <3> SUFFICES ASSUME NEW j \in kept \ {main}
                 PROVE  BoxArea(DetectedFaces[j]) * MinSecondaryArea[2]
                          < MinSecondaryArea[1] * BoxArea(DetectedFaces[main])
      OBVIOUS
    <3> DEFINE a == BoxArea(DetectedFaces[j])
               b == BoxArea(DetectedFaces[main])
    <3>1. ~(a * MinSecondaryArea[2] >= MinSecondaryArea[1] * b)
      BY <1>5, <2>2 DEF HasProminentSecondFace
    <3>2. a \in Nat /\ b \in Nat
      BY <2>3, <2>4
    <3> HIDE DEF a, b
    <3>3. a * MinSecondaryArea[2] \in Nat /\ MinSecondaryArea[1] * b \in Nat
      BY <3>2, RatiosAreRatios
    <3>4. a * MinSecondaryArea[2] < MinSecondaryArea[1] * b
      BY <3>1, <3>3
    <3> QED
      BY <3>4 DEF a, b
  <2>6. Bounds' = Bounds
    BY <1>1 DEF Bounds
  <2>7. ASSUME check' = 5 PROVE MainFaceStandsOut'
    <3>1. faces' = DetectedFaces /\ mainFace' = faces'[main] /\ main \in DOMAIN faces'
      BY <1>5, <2>2, <2>4
    <3>2. \A j \in DOMAIN faces' \ {main} :
            BoxArea(faces'[j]) * MinSecondaryArea[2] < MinSecondaryArea[1] * BoxArea(faces'[main])
      BY <2>2, <2>5, <3>1
    <3>3. IsInside(mainFace', Bounds')
      BY <1>5, <2>2, <2>4, <2>6
    <3>4. ~IsTooSmall(mainFace)'
      BY <1>1, <1>5, <2>1, <2>6, <2>7 DEF IsTooSmall
    <3> QED
      BY <3>1, <3>2, <3>3, <3>4 DEF MainFaceStandsOut
  <2>8. ChecksBuildOnEachOther'
    BY <1>1, <2>1, <2>7 DEF ChecksBuildOnEachOther
  <2>9. OutcomesHaveTheirCause'
    BY <2>1 DEF OutcomesHaveTheirCause
  <2> QED
    BY <1>0, <1>1, <1>2, <2>8, <2>9 DEF PathInv
<1> QED
  BY <1>3, <1>4, <1>5

(* The sharpness: only a face beside the image has no crop.                *)
LEMMA BlurCheckKeepsInv ==
  ASSUME PathInv, BlurCheck, UNCHANGED pathVars
  PROVE  PathInv'
<1>0. check \in 1 .. 6 /\ photo \in Photo
  BY DEF PathInv, ChecksBuildOnEachOther
<1>1. /\ check = 5 /\ outcome = "running"
      /\ UNCHANGED <<photo, format, decoded, faces, mainFace, response>>
  <2>1. Reaches("blur") /\ UNCHANGED <<photo, format, decoded, faces, mainFace>>
    BY DEF BlurCheck
  <2>2. check = 5 /\ outcome = "running" /\ response' = response
    BY <1>0, <2>1, ChecksHaveTheirPlace DEF Reaches, pathVars
  <2> QED
    BY <2>1, <2>2
<1>2. decoded # Unreadable /\ MainFaceStandsOut
  BY <1>1 DEF PathInv, ChecksBuildOnEachOther
<1>3. /\ mainFace.width \in Nat /\ mainFace.height \in Nat
      /\ IsInside(mainFace, Bounds) /\ ~IsTooSmall(mainFace)
  BY <1>2 DEF MainFaceStandsOut, IsInside
<1>4. mainFace # None
  BY <1>3 DEF None
<1>5. \/ check' = 5 /\ outcome' = "bad crop" /\ ~CanExtract(FaceCrop)
      \/ check' = 5 /\ outcome' = "BLURRY"
      \/ check' = 6 /\ outcome' = "passed" /\ MeasuresSharp
  <2>1. \/ ~CanExtract(FaceCrop) /\ Throws("bad crop")
        \/ Decide("BLURRY")
        \/ Passes /\ MeasuresSharp
    BY <1>2, <1>4 DEF BlurCheck, Judge, MeasuresSharp
  <2>2. Len(Order) = 5
    BY <1>0, ChecksHaveTheirPlace
  <2>3. Passes => check' = 6 /\ outcome' = "passed"
    BY <1>1, <2>2 DEF Passes
  <2> QED
    BY <1>1, <2>1, <2>3 DEF Throws, Decide
<1>6. outcome' = "bad crop" => mainFace.width = 0
  BY <1>2, <1>3, <1>5, CropsCoverTheFace, FacesThatPassHaveAHeight
<1>7. FormatsAreSniffed' /\ ImagesAreUpright'
  BY <1>1 DEF PathInv, FormatsAreSniffed, ImagesAreUpright
<1>8. MainFaceStandsOut'
  BY <1>1, <1>2 DEF MainFaceStandsOut, IsTooSmall, Bounds
<1>9. check' \in 1 .. 6
  <2>1. check' = 5 \/ check' = 6
    BY <1>5
  <2> QED
    BY <2>1
<1>10. ChecksBuildOnEachOther'
  <2>1. check' = 6 => MeasuresSharp'
    BY <1>1, <1>5 DEF MeasuresSharp
  <2>2. check' = 5 \/ check' = 6
    BY <1>5
  <2> QED
    BY <1>1, <1>8, <1>9, <2>1, <2>2 DEF PathInv, ChecksBuildOnEachOther
<1>11. OutcomesHaveTheirCause'
  BY <1>1, <1>5, <1>6 DEF OutcomesHaveTheirCause
<1> QED
  BY <1>0, <1>1, <1>7, <1>10, <1>11 DEF PathInv

(* The gate, which only ever decides before the first check.               *)
LEMMA ReceiveImageUploadKeepsInv ==
  ASSUME PathInv, ReceiveImageUpload
  PROVE  PathInv'
<1>1. /\ photo \in Photo /\ response = "none" /\ format = "null" /\ check = 1
      /\ UNCHANGED <<photo, check, outcome, decoded, faces, mainFace>>
  <2>1. response = "none" /\ UNCHANGED <<photo, check, outcome, decoded, faces, mainFace>>
    BY DEF ReceiveImageUpload, contextVars
  <2>2. format = "null"
    BY <2>1 DEF PathInv, FormatsAreSniffed
  <2>3. check = 1
    BY <2>2 DEF PathInv, ChecksBuildOnEachOther
  <2> QED
    BY <2>1, <2>2, <2>3 DEF PathInv
<1>2. FormatsAreSniffed'
  <2>1. \/ format' = "null"
        \/ /\ format' = SniffImageFormat(photo) /\ response' = "accepted"
           /\ photo.bytes <= MaxFileBytes
    BY <1>1 DEF ReceiveImageUpload, Refuse, MayKeepLimit
  <2> QED
    BY <1>1, <2>1 DEF FormatsAreSniffed
<1>3. ImagesAreUpright'
  BY <1>1 DEF PathInv, ImagesAreUpright
<1>4. ChecksBuildOnEachOther'
  BY <1>1 DEF ChecksBuildOnEachOther
<1>5. OutcomesHaveTheirCause'
  BY <1>1 DEF PathInv, OutcomesHaveTheirCause
<1> QED
  BY <1>1, <1>2, <1>3, <1>4, <1>5 DEF PathInv

(* All other steps leave what the checks build on alone.                   *)
LEMMA OtherStepsKeepInv ==
  ASSUME PathInv, UNCHANGED <<photo, format, check, decoded, faces, mainFace, outcome>>,
         response # "none" => response' = response
  PROVE  PathInv'
<1>1. Bounds' = Bounds
  BY DEF Bounds
<1>2. FormatsAreSniffed' /\ ImagesAreUpright' /\ OutcomesHaveTheirCause'
  BY DEF PathInv, FormatsAreSniffed, ImagesAreUpright, OutcomesHaveTheirCause
<1>3. MainFaceStandsOut => MainFaceStandsOut'
  BY <1>1 DEF MainFaceStandsOut, IsTooSmall
<1>4. ChecksBuildOnEachOther'
  BY <1>3 DEF PathInv, ChecksBuildOnEachOther, MeasuresSharp
<1> QED
  BY <1>2, <1>4 DEF PathInv

(* The whole way keeps it.                                                 *)
LEMMA PathStepsKeepInv ==
  ASSUME PathInv, TypeOK, [PathNext]_allVars
  PROVE  PathInv'
<1>1. CASE CreateLocalUpload \/ ComputeHash
  BY <1>1, OtherStepsKeepInv DEF CreateLocalUpload, ComputeHash, pipelineVars
<1>2. CASE ReceiveImageUpload
  BY <1>2, ReceiveImageUploadKeepsInv
<1>3. CASE Validate
  <2>1. CASE Suppress
    <3>1. UNCHANGED <<photo, format, check, decoded, faces, mainFace, outcome, response>>
      BY <1>3, <2>1 DEF Validate, Suppress, contextVars, pathVars
    <3> QED
      BY <3>1, OtherStepsKeepInv
  <2>2. UNCHANGED pathVars
    BY <1>3 DEF Validate
  <2> QED
    BY <1>3, <2>1, <2>2, FileChecksKeepInv, ResolutionCheckKeepsInv, FaceCheckKeepsInv,
       BlurCheckKeepsInv DEF Validate, PipelineNext
<1>4. CASE UNCHANGED allVars
  BY <1>4, OtherStepsKeepInv DEF allVars, pipelineVars, pathVars
<1> QED
  BY <1>1, <1>2, <1>3, <1>4 DEF PathNext

(* So every check of every photo finds what it relies on.                  *)
LEMMA PathInvHolds == PathSpec => []PathInv
<1>1. IInv => TypeOK
  BY DEF IInv
<1>2. PathSpec => []TypeOK
  BY <1>1, PathsImplementSuppression, IInvHolds, PTL
<1>3. PathInv /\ TypeOK /\ [PathNext]_allVars => PathInv'
  BY PathStepsKeepInv
<1> QED
  BY <1>2, <1>3, PathInitEstablishesInv, PTL DEF PathSpec

(* No photo passes with two people in it: of the faces that any network    *)
(* output leaves, at most one stands out on a photo that passes, though    *)
(* the code compares the others only with the first of the largest; and    *)
(* the crop its sharpness is measured on covers that face.                 *)
THEOREM OnePersonOnPassedPhotos == PathSpec => []PassedPhotosShowOnePerson
<1>1. PathInv => PassedPhotosShowOnePerson
  <2> SUFFICES ASSUME PathInv, outcome = "passed"
               PROVE  PassedPhotosShowOnePerson
    BY DEF PassedPhotosShowOnePerson
  <2>1. decoded # Unreadable /\ MainFaceStandsOut
    BY DEF PathInv, OutcomesHaveTheirCause, ChecksBuildOnEachOther
  <2>2. IsInside(mainFace, Bounds)
    BY <2>1 DEF MainFaceStandsOut
  <2>3. /\ FaceCrop.x * UnitsPerPixel <= mainFace.x
        /\ mainFace.x + mainFace.width <= (FaceCrop.x + FaceCrop.width) * UnitsPerPixel
        /\ FaceCrop.y * UnitsPerPixel <= mainFace.y
        /\ mainFace.y + mainFace.height <= (FaceCrop.y + FaceCrop.height) * UnitsPerPixel
    BY <2>1, <2>2, CropsCoverTheFace
  <2> QED
    BY <2>1, <2>3 DEF PassedPhotosShowOnePerson, MainFaceStandsOut
<1> QED
  BY <1>1, PathInvHolds, PTL

(* image-processor.ts, "Validation outcomes never throw": whatever the     *)
(* sizes, boxes and ratios, no check misses what an earlier one was to     *)
(* leave it, and the one crop that fails is that of a face without width.  *)
THEOREM EveryVisibleFaceIsMeasured == PathSpec => []VisibleFacesAreMeasured
<1>1. PathInv => VisibleFacesAreMeasured
  BY DEF PathInv, OutcomesHaveTheirCause, VisibleFacesAreMeasured
<1> QED
  BY <1>1, PathInvHolds, PTL

(* A photo that passes has the bytes, the pixels and the height of a face  *)
(* that the rules ask for, by its size as stored and as shown: the part of *)
(* PassedPhotosKeepTheRules that is about sizes.                           *)
THEOREM PassedPhotosHaveTheSize == PathSpec => []PassedPhotosAreLargeEnough
<1>1. PathInv => PassedPhotosAreLargeEnough
  <2> SUFFICES ASSUME PathInv, outcome = "passed"
               PROVE  PassedPhotosAreLargeEnough
    BY DEF PassedPhotosAreLargeEnough
  <2> DEFINE image == photo.images[1]
  <2>1. /\ photo \in Photo /\ decoded # Unreadable /\ format # "null"
        /\ photo.bytes >= MinFileBytes
        /\ Lower(decoded.original.width, decoded.original.height) >= MinShortSidePx
        /\ MainFaceStandsOut
    BY DEF PathInv, OutcomesHaveTheirCause, ChecksBuildOnEachOther
  <2>2. photo.bytes \in MinFileBytes .. MaxFileBytes
    BY <2>1, SizesAreNumbers, LimitsAreOrdered DEF PathInv, FormatsAreSniffed
  <2>3. image.width * image.height <= MaxInputPixels
    BY <2>1 DEF PathInv, ImagesAreUpright, WithinPixelLimit
  <2>4. /\ decoded.original = Upright(image)
        /\ image.width \in Nat /\ image.height \in Nat
        /\ Bounds.height \in Nat
    BY <2>1, WorkingImageHasASize
  <2>5. Lower(image.width, image.height) >= MinShortSidePx
    BY <2>1, <2>4 DEF Upright, Lower
  <2>6. decoded.original.height = TrueHeight /\ TrueHeight \in Nat
    BY <2>4 DEF Upright, TrueHeight
  <2>7. mainFace.height * TrueHeight >= MinFaceHeightPx * Bounds.height
    <3>1. ~(mainFace.height * TrueHeight < MinFaceHeightPx * Bounds.height)
      BY <2>1, <2>6 DEF MainFaceStandsOut, IsTooSmall
    <3>2. mainFace.height \in Nat
      BY <2>1 DEF MainFaceStandsOut, IsInside
    <3>3. mainFace.height * TrueHeight \in Nat /\ MinFaceHeightPx * Bounds.height \in Nat
      BY <2>4, <2>6, <3>2, PixelsAreCounted
    <3> QED
      BY <3>1, <3>3
  <2> QED
    BY <2>2, <2>3, <2>5, <2>7 DEF PassedPhotosAreLargeEnough
<1> QED
  BY <1>1, PathInvHolds, PTL

(* And its crop is sharp by the definition of a variance, which the code   *)
(* never evaluates: for every image, its two sums amount to it.            *)
THEOREM PassedPhotosKeepAllRules == PathSpec => []PassedPhotosKeepTheRules
<1>1. PathInv => PassedPhotosAreSharp
  <2> SUFFICES ASSUME PathInv, outcome = "passed"
               PROVE  PassedPhotosAreSharp
    BY DEF PassedPhotosAreSharp
  <2> DEFINE n == Cardinality(Interior(photo.crop))
             v == LaplacianVariance(photo.crop)
  <2>1. photo \in Photo /\ MeasuresSharp
    BY DEF PathInv, OutcomesHaveTheirCause, ChecksBuildOnEachOther
  <2>2. ~(v[1] < MinLaplacianVariance * v[2])
    BY <2>1 DEF MeasuresSharp
  <2>3. /\ n \in Nat
        /\ n = 0 => v = <<0, 1>>
        /\ n # 0 => /\ v[1] \in Int
                    /\ v[2] = n * n
                    /\ SpreadOf(photo.crop) = n * v[1]
    BY <2>1, CropsAreGreyscale, VarianceIsTheSpread
  <2> HIDE DEF n, v
  <2>4. n # 0
    BY <2>2, <2>3, SharpnessIsAskedFor
  <2>5. v[1] >= MinLaplacianVariance * n * n
    <3>1. MinLaplacianVariance * (n * n) = MinLaplacianVariance * n * n
      BY <2>3, SharpnessIsAskedFor
    <3>2. MinLaplacianVariance * n * n \in Int
      BY <2>3, SharpnessIsAskedFor
    <3> QED
      BY <2>2, <2>3, <2>4, <3>1, <3>2
  <2>6. SpreadOf(photo.crop) >= MinLaplacianVariance * n * n * n
    <3> DEFINE a == MinLaplacianVariance * n * n
               b == v[1]
    <3>1. a \in Int /\ b \in Int /\ a <= b
      BY <2>3, <2>4, <2>5, SharpnessIsAskedFor
    <3>2. SpreadOf(photo.crop) = b * n
      BY <2>3, <2>4
    <3> HIDE DEF a, b
    <3>3. a * n <= b * n /\ a * n \in Int /\ b * n \in Int
      BY <2>3, <3>1, FactorsKeepOrder
    <3>4. SpreadOf(photo.crop) >= a * n
      BY <3>2, <3>3
    <3> QED
      BY <3>4 DEF a
  <2> QED
    BY <2>3, <2>4, <2>6 DEF PassedPhotosAreSharp, n
<1>2. PathSpec => []PassedPhotosAreSharp
  BY <1>1, PathInvHolds, PTL
<1>3. PassedPhotosAreLargeEnough /\ PassedPhotosAreSharp => PassedPhotosKeepTheRules
  BY DEF PassedPhotosKeepTheRules
<1> QED
  BY <1>2, <1>3, PassedPhotosHaveTheSize, PTL

-----------------------------------------------------------------------------
(* The ftyp box. *)

(* What detectImageFormat takes for HEIC has a HEIC brand in its box.      *)
LEMMA HeicHasABrandInTheBox ==
  ASSUME photo \in Photo, SniffImageFormat(photo) = "HEIC"
  PROVE  \E o \in FieldOffsets(photo) \ {12} :
           HeicBrandAt(o) /\ (o = MajorBrandOffset \/ o + FieldLength <= photo.boxSize)
<1> DEFINE available == LeastOf(SniffByteLength, photo.bytes)
           boxEnd == LeastOf(photo.boxSize, available)
<1>1. available \in Nat /\ photo.boxSize \in Nat /\ boxEnd <= photo.boxSize /\ boxEnd \in Nat
  BY SizesAreNumbers, LimitsAreOrdered DEF LeastOf
<1>2. FtypBrands(photo, available) \cap HeicBrand # {}
  BY DEF SniffImageFormat, DetectImageFormat
<1> HIDE DEF available
<1>3. photo.magic = "ftyp"
  BY <1>2 DEF FtypBrands
<1>4. PICK brand \in FtypBrands(photo, available) : brand \in HeicBrand
  BY <1>2
<1>5. PICK o \in FieldOffsets(photo) :
        /\ \/ o = MajorBrandOffset /\ o + FieldLength <= available
           \/ o >= CompatibleBrandsOffset /\ o + FieldLength <= boxEnd
        /\ Field(photo, o) = brand
  BY <1>4 DEF FtypBrands
<1>6. FieldOffsets(photo) \subseteq Int
  BY FieldsAreNumbered DEF FieldOffsets, MajorBrandOffset, FieldLength
<1>7. o \in Int
  BY <1>6
<1>8. o # 12 /\ (o = MajorBrandOffset \/ o + FieldLength <= photo.boxSize)
  <2> HIDE DEF boxEnd
  <2> QED
    BY <1>1, <1>5, <1>7 DEF MajorBrandOffset, CompatibleBrandsOffset, FieldLength
<1>9. HeicBrandAt(o)
  BY <1>3, <1>4, <1>5 DEF HeicBrandAt
<1> QED
  BY <1>8, <1>9

(* What it takes for nothing has none, among the bytes that are looked at. *)
LEMMA NothingHasNoBrandInTheBox ==
  ASSUME photo \in Photo, SniffImageFormat(photo) = "null",
         NEW o \in FieldOffsets(photo) \ {12},
         HeicBrandAt(o), o + FieldLength <= photo.boxSize
  PROVE  o + FieldLength > SniffByteLength \/ o + FieldLength > photo.bytes
<1> SUFFICES ASSUME ~(o + FieldLength > SniffByteLength), ~(o + FieldLength > photo.bytes)
             PROVE  FALSE
  OBVIOUS
<1> DEFINE available == LeastOf(SniffByteLength, photo.bytes)
           boxEnd == LeastOf(photo.boxSize, available)
<1>1. o \in Int /\ (o = 8 \/ o >= 16)
  <2>1. PICK i \in DOMAIN photo.fields : o = 8 + 4 * (i - 1)
    BY DEF FieldOffsets, MajorBrandOffset, FieldLength
  <2>2. i \in Nat \ {0}
    BY FieldsAreNumbered
  <2> QED
    BY <2>1, <2>2
<1>2. photo.bytes \in Nat /\ SniffByteLength \in Nat /\ photo.boxSize \in Nat
  BY SizesAreNumbers, LimitsAreOrdered
<1>3. available \in Nat /\ o + 4 <= available
  BY <1>1, <1>2 DEF LeastOf, FieldLength
<1>4. o + 4 <= boxEnd
  BY <1>1, <1>2, <1>3 DEF LeastOf, FieldLength
<1>5. /\ FtypBrands(photo, available) \cap HeicBrand = {}
      /\ photo.magic = "ftyp"
  BY DEF SniffImageFormat, DetectImageFormat, HeicBrandAt
<1> HIDE DEF available
<1>6. ~(available < BoxTypeOffset + FieldLength)
  BY <1>1, <1>3 DEF BoxTypeOffset, FieldLength
<1>7. \/ o = MajorBrandOffset /\ o + FieldLength <= available
      \/ o >= CompatibleBrandsOffset /\ o + FieldLength <= boxEnd
  BY <1>1, <1>3, <1>4 DEF MajorBrandOffset, CompatibleBrandsOffset, FieldLength
<1>8. Field(photo, o) \in FtypBrands(photo, available)
  BY <1>5, <1>6, <1>7 DEF FtypBrands
<1> QED
  BY <1>5, <1>8 DEF HeicBrandAt

(* For any brands, any box and any number of bytes sniffed: a file counts  *)
(* as HEIC only on a brand in its ftyp box, and one that is refused as of  *)
(* no known kind has no such brand where the code looks.                   *)
THEOREM FormatsFollowTheBox == PathSpec => []FormatsAreTrueToTheBox
<1>1. PathInv /\ DecisionsHaveTheirReason => FormatsAreTrueToTheBox
  <2> SUFFICES ASSUME PathInv, DecisionsHaveTheirReason PROVE FormatsAreTrueToTheBox
    OBVIOUS
  <2>1. photo \in Photo
    BY DEF PathInv
  <2>2. ASSUME format = "HEIC" PROVE SniffImageFormat(photo) = "HEIC"
    BY <2>2 DEF PathInv, FormatsAreSniffed
  <2>3. ASSUME response = "UNSUPPORTED_FORMAT" PROVE SniffImageFormat(photo) = "null"
    BY <2>3 DEF DecisionsHaveTheirReason
  <2> QED
    BY <2>1, <2>2, <2>3, HeicHasABrandInTheBox, NothingHasNoBrandInTheBox
       DEF FormatsAreTrueToTheBox
<1> QED
  BY <1>1, PathInvHolds, PathInitHasReasons, PathStepsHaveReasons, PTL DEF PathSpec

-----------------------------------------------------------------------------
(* The hash: powers of two, and the bits of a number. *)

(* There are twice as many sets of k + 1 numbers as of k.                  *)
LEMMA PowersDouble ==
  ASSUME NEW k \in Nat
  PROVE  2 ^ k \in Nat \ {0} /\ 2 ^ (k + 1) = 2 * (2 ^ k)
<1> DEFINE Old == SUBSET (1 .. k)
           New == {s \cup {k + 1} : s \in Old}
           All == SUBSET (1 .. k + 1)
           f == [s \in Old |-> s \cup {k + 1}]
<1>1. \A n \in Nat : IsFiniteSet(1 .. n) /\ Cardinality(1 .. n) = n
  BY FS_Interval
<1>2. IsFiniteSet(Old) /\ Cardinality(Old) = 2 ^ k
  BY <1>1, FS_SUBSET
<1>3. IsFiniteSet(All) /\ Cardinality(All) = 2 ^ (k + 1)
  <2> DEFINE n == k + 1
  <2>1. n \in Nat
    OBVIOUS
  <2> HIDE DEF n
  <2>2. IsFiniteSet(SUBSET (1 .. n)) /\ Cardinality(SUBSET (1 .. n)) = 2 ^ n
    BY <1>1, <2>1, FS_SUBSET
  <2> QED
    BY <2>2 DEF n
<1>4. Old \cup New = All
  <2>1. Old \subseteq All /\ New \subseteq All
    <3>1. 1 .. k \subseteq 1 .. k + 1 /\ k + 1 \in 1 .. k + 1
      OBVIOUS
    <3>2. \A s \in Old : s \in All
      BY <3>1
    <3>3. \A s \in Old : s \cup {k + 1} \in All
      BY <3>1
    <3> HIDE DEF Old, All
    <3> QED
      BY <3>2, <3>3
  <2>2. ASSUME NEW s \in All PROVE s \in Old \cup New
    <3>1. CASE k + 1 \in s
      <4>1. s \ {k + 1} \in Old /\ s = (s \ {k + 1}) \cup {k + 1}
        BY <3>1
      <4> QED
        BY <4>1
    <3>2. CASE k + 1 \notin s
      BY <3>2
    <3> QED
      BY <3>1, <3>2
  <2> QED
    BY <2>1, <2>2
<1>5. Old \cap New = {}
  <2>1. \A s \in Old : k + 1 \notin s
    OBVIOUS
  <2> QED
    BY <2>1
<1>6. f \in Bijection(Old, New)
  <2>1. f \in [Old -> New] /\ \A t \in New : \E s \in Old : f[s] = t
    OBVIOUS
  <2>2. ASSUME NEW s \in Old, NEW t \in Old, s \cup {k + 1} = t \cup {k + 1} PROVE s = t
    <3>1. k + 1 \notin s /\ k + 1 \notin t
      OBVIOUS
    <3> QED
      BY <2>2, <3>1
  <2> QED
    BY <2>1, <2>2 DEF Bijection, Injection, Surjection, IsInjective
<1> HIDE DEF Old, New, All, f
<1>7. IsFiniteSet(New) /\ Cardinality(New) = Cardinality(Old)
  BY <1>2, <1>6, FS_Bijection DEF ExistsBijection
<1>8. Cardinality(All) = Cardinality(Old) + Cardinality(New) - Cardinality({})
  BY <1>2, <1>4, <1>5, <1>7, FS_Union
<1>9. Cardinality(Old) \in Nat /\ Cardinality({}) = 0 /\ (Cardinality(Old) = 0 => Old = {})
  BY <1>2, FS_CardinalityType, FS_EmptySet
<1>10. Old # {}
  BY DEF Old
<1> QED
  BY <1>2, <1>3, <1>7, <1>8, <1>9, <1>10

(* Quotient and remainder are the only ones.                               *)
LEMMA DivisionIsUnique ==
  ASSUME NEW n \in Int, NEW d \in Nat \ {0}, NEW q \in Int, NEW r \in 0 .. d - 1,
         n = q * d + r
  PROVE  n \div d = q /\ n % d = r
<1> DEFINE p == n \div d
           s == n % d
<1>1. p \in Int /\ s \in 0 .. d - 1 /\ n = p * d + s
  OBVIOUS
<1> HIDE DEF p, s
<1>2. (p - q) * d = r - s
  <2>1. (p - q) * d = p * d - q * d /\ p * d \in Int /\ q * d \in Int
    BY <1>1
  <2> QED
    BY <1>1, <2>1
<1>3. ASSUME NEW e \in Int, e >= 1 PROVE e * d >= d
  BY <1>3
<1>4. ~(p - q >= 1)
  BY <1>1, <1>2, <1>3
<1>5. ~(q - p >= 1)
  <2>1. (q - p) * d = s - r
    <3>1. (q - p) * d = -((p - q) * d) /\ (p - q) * d \in Int
      BY <1>1
    <3> QED
      BY <1>1, <1>2, <3>1
  <2> QED
    BY <1>1, <1>3, <2>1
<1>6. p = q
  BY <1>1, <1>4, <1>5
<1>7. s = r
  <2>1. q * d \in Int
    OBVIOUS
  <2> QED
    BY <1>1, <1>6, <2>1
<1> QED
  BY <1>6, <1>7 DEF p, s

(* A bit appended moves the others up by one.                              *)
LEMMA BitsMoveUp ==
  ASSUME NEW h \in Nat, NEW b \in {0, 1}, NEW p \in Nat \ {0}
  PROVE  /\ (2 * h + b) \div (2 * p) = h \div p
         /\ ((2 * h + b) \div 1) % 2 = b
<1> DEFINE q == h \div p
           r == h % p
<1>1. q \in Int /\ r \in 0 .. p - 1 /\ h = q * p + r
  OBVIOUS
<1> HIDE DEF q, r
<1>2. 2 * h + b = q * (2 * p) + (2 * r + b)
  <2>1. q * (2 * p) = 2 * (q * p) /\ q * p \in Int
    BY <1>1
  <2> QED
    BY <1>1, <2>1
<1>3. 2 * r + b \in 0 .. 2 * p - 1 /\ 2 * p \in Nat \ {0} /\ 2 * h + b \in Int
  BY <1>1
<1>4. (2 * h + b) \div (2 * p) = q
  BY <1>1, <1>2, <1>3, DivisionIsUnique
<1>5. ((2 * h + b) \div 1) % 2 = b
  OBVIOUS
<1> QED
  BY <1>4, <1>5 DEF q

(* A comparison's bit. *)
BitAt(image, k) == IF IsBrighter(image, k) THEN 1 ELSE 0

(* The hash before its sign is set, comparison by comparison. *)
IsHashed(image, hash_) ==
  hash_ = [k \in 0 .. HashBits |->
             IF k = 0 THEN 0
             ELSE 2 * hash_[k - 1] + IF IsBrighter(image, k - 1) THEN 1 ELSE 0]

(* There is something to compare.                                         *)
LEMMA HashBitsArePositive == HashBits \in Nat \ {0}
<1> DEFINE w == HashWidthPx - 1
<1>1. w \in Nat \ {0} /\ HashHeightPx \in Nat \ {0}
  BY HashImageHasNeighbours
<1> HIDE DEF w
<1>2. w * HashHeightPx \in Nat \ {0}
  BY <1>1
<1> QED
  BY <1>2 DEF HashBits, w

(* It is a number of HASH_BITS bits, the first comparison's the highest.   *)
LEMMA HashesHoldTheirBits ==
  ASSUME NEW image
  PROVE  \E u \in 0 .. 2 ^ HashBits - 1 :
           /\ ComputeDHash(image) = AsIntN(u)
           /\ \A k \in 0 .. HashBits - 1 :
                (u \div 2 ^ (HashBits - 1 - k)) % 2 = BitAt(image, k)
<1> DEFINE n == HashBits
           bit(k) == BitAt(image, k)
           step == [k \in 1 .. n |-> [v \in Nat |-> 2 * v + bit(k - 1)]]
<1>1. n \in Nat \ {0}
  BY HashBitsArePositive
<1>2. \A k : bit(k) \in {0, 1}
  BY DEF BitAt
<1> HIDE DEF n, bit
<1>3. step \in [1 .. n -> [Nat -> Nat]]
  <2>1. \A k \in 1 .. n, v \in Nat : 2 * v + bit(k - 1) \in Nat
    BY <1>2
  <2> QED
    BY <2>1
<1>4. \A k \in 1 .. n : \A v \in Nat : step[k][v] = 2 * v + bit(k - 1)
  OBVIOUS
<1> HIDE DEF step
<1>5. PICK g \in [0 .. n -> Nat] : IsRecursion(g, n, 0, step)
  BY <1>1, <1>3, RecursionsReachEveryNumber
<1>6. g[0] = 0 /\ \A k \in 1 .. n : g[k] = 2 * g[k - 1] + bit(k - 1)
  <2>1. \A k \in 1 .. n : k - 1 \in 0 .. n
    BY <1>1
  <2> QED
    BY <1>4, <1>5, <2>1 DEF IsRecursion
<1>7. IsHashed(image, g)
  <2>1. \A k \in 0 .. n : k # 0 => k \in 1 .. n
    BY <1>1
  <2> QED
    BY <1>5, <1>6, <2>1 DEF IsHashed, bit, BitAt, n
<1>8. \E h : IsHashed(image, h) /\ ComputeDHash(image) = AsIntN(h[HashBits])
  BY <1>7 DEF ComputeDHash, IsHashed
<1>9. PICK h : IsHashed(image, h) /\ ComputeDHash(image) = AsIntN(h[n])
  BY <1>8 DEF n
<1>10. h[0] = 0 /\ \A k \in 1 .. n : h[k] = 2 * h[k - 1] + bit(k - 1)
  <2>1. \A k \in 1 .. n : k \in 0 .. n /\ k # 0
    BY <1>1
  <2>2. 0 \in 0 .. n
    BY <1>1
  <2> QED
    BY <1>9, <2>1, <2>2 DEF IsHashed, bit, BitAt, n
<1> DEFINE Holds(m) == /\ h[m] \in 0 .. 2 ^ m - 1
                       /\ \A k \in 0 .. m - 1 : (h[m] \div 2 ^ (m - 1 - k)) % 2 = bit(k)
           S == {m \in 0 .. n : Holds(m)}
<1>11. 0 \in S
  <2>1. Holds(0)
    <3>1. 2 ^ 0 = 1
      OBVIOUS
    <3>2. h[0] \in 0 .. 2 ^ 0 - 1
      BY <1>10, <3>1
    <3> QED
      BY <3>2
  <2>2. 0 \in 0 .. n
    BY <1>1
  <2> HIDE DEF Holds
  <2> QED
    BY <2>1, <2>2
<1>12. ASSUME NEW m \in S, m < n PROVE m + 1 \in S
  <2>1. m \in Nat /\ m + 1 \in 1 .. n /\ m + 1 \in 0 .. n /\ Holds(m)
    BY <1>1, <1>12
  <2>2. 2 ^ m \in Nat \ {0} /\ 2 ^ (m + 1) = 2 * (2 ^ m)
    BY <2>1, PowersDouble
  <2>3. h[m] \in 0 .. 2 ^ m - 1
    BY <2>1
  <2>4. h[m + 1] = 2 * h[m] + bit(m) /\ bit(m) \in {0, 1}
    BY <1>2, <1>10, <2>1
  <2>5. h[m + 1] \in 0 .. 2 ^ (m + 1) - 1
    <3> DEFINE p == 2 ^ m
               p2 == 2 ^ (m + 1)
    <3>1. p \in Nat \ {0} /\ p2 = 2 * p /\ h[m] \in 0 .. p - 1
      BY <2>2, <2>3
    <3> HIDE DEF p, p2
    <3>2. h[m + 1] \in 0 .. p2 - 1
      BY <2>4, <3>1
    <3> QED
      BY <3>2 DEF p2
  <2>6. ASSUME NEW k \in 0 .. m PROVE (h[m + 1] \div 2 ^ (m - k)) % 2 = bit(k)
    <3>0. h[m] \in Nat
      BY <2>2, <2>3
    <3>1. CASE k = m
      <4>1. m - k = 0 /\ 2 ^ 0 = 1
        BY <2>1, <3>1
      <4>2. ((2 * h[m] + bit(m)) \div 1) % 2 = bit(m)
        <5> DEFINE b == bit(m)
        <5>1. b \in {0, 1}
          BY <2>4
        <5> HIDE DEF b
        <5>2. ((2 * h[m] + b) \div 1) % 2 = b
          BY <3>0, <5>1
        <5> QED
          BY <5>2 DEF b
      <4> QED
        BY <2>4, <3>1, <4>1, <4>2
    <3>2. CASE k # m
      <4> DEFINE e == m - 1 - k
      <4>1. e \in Nat /\ m - k = e + 1 /\ k \in 0 .. m - 1
        BY <2>1, <3>2
      <4>2. (h[m] \div 2 ^ e) % 2 = bit(k)
        BY <2>1, <4>1
      <4> HIDE DEF e
      <4>3. 2 ^ e \in Nat \ {0} /\ 2 ^ (e + 1) = 2 * (2 ^ e)
        BY <4>1, PowersDouble
      <4>4. (2 * h[m] + bit(m)) \div (2 * (2 ^ e)) = h[m] \div 2 ^ e
        BY <2>4, <3>0, <4>3, BitsMoveUp
      <4> QED
        BY <2>4, <4>1, <4>2, <4>3, <4>4
    <3> QED
      BY <3>1, <3>2
  <2>7. Holds(m + 1)
    <3>1. \A k \in 0 .. m + 1 - 1 : k \in 0 .. m /\ m + 1 - 1 - k = m - k
      BY <2>1
    <3> QED
      BY <2>5, <2>6, <3>1
  <2> HIDE DEF Holds
  <2> QED
    BY <2>1, <2>7
<1>13. Holds(n)
  <2> HIDE DEF Holds
  <2>1. S = 0 .. n
    <3> HIDE DEF S
    <3>1. S \subseteq 0 .. n
      BY DEF S
    <3> QED
      BY <1>1, <1>11, <1>12, <3>1, CountingUp
  <2>2. n \in 0 .. n
    BY <1>1
  <2> QED
    BY <2>1, <2>2
<1> QED
  BY <1>9, <1>13 DEF n, bit

(* The sign is set and taken away again.                                   *)
LEMMA SignsComeOff ==
  ASSUME NEW u \in 0 .. 2 ^ HashBits - 1
  PROVE  /\ AsIntN(u) \in -(2 ^ (HashBits - 1)) .. 2 ^ (HashBits - 1) - 1
         /\ AsIntN(u) % 2 ^ HashBits = u
<1> DEFINE n == HashBits
           half == 2 ^ (n - 1)
           all == 2 ^ n
<1>1. n \in Nat \ {0}
  BY HashBitsArePositive
<1>2. half \in Nat \ {0} /\ all = 2 * half
  <2> DEFINE k == n - 1
  <2>1. k \in Nat /\ n = k + 1
    BY <1>1
  <2> HIDE DEF k
  <2>2. 2 ^ k \in Nat \ {0} /\ 2 ^ (k + 1) = 2 * (2 ^ k)
    BY <2>1, PowersDouble
  <2>3. 2 ^ n = 2 * (2 ^ k)
    BY <2>1, <2>2
  <2> QED
    BY <2>2, <2>3 DEF k
<1>3. AsIntN(u) = IF u >= half THEN u - all ELSE u
  BY DEF AsIntN
<1>4. u \in 0 .. all - 1
  OBVIOUS
<1> HIDE DEF half, all
<1>5. AsIntN(u) \in -half .. half - 1
  BY <1>2, <1>3, <1>4
<1>6. AsIntN(u) % all = u
  <2>1. u = 0 * all + u /\ u - all = (-1) * all + u /\ all \in Nat \ {0}
    BY <1>2, <1>4
  <2>2. u % all = u
    BY <1>4, <2>1, DivisionIsUnique
  <2>3. (u - all) % all = u
    BY <1>4, <2>1, DivisionIsUnique
  <2> QED
    BY <1>3, <2>2, <2>3
<1> QED
  BY <1>5, <1>6 DEF half, all, n

(* The distance of two hashes is the number of comparisons that differ.    *)
LEMMA DistancesCountDifferences ==
  ASSUME NEW a, NEW b
  PROVE  HammingDistance(ComputeDHash(a), ComputeDHash(b)) =
           Cardinality({k \in 0 .. HashBits - 1 : IsBrighter(a, k) # IsBrighter(b, k)})
<1> DEFINE n == HashBits
           x == ComputeDHash(a)
           y == ComputeDHash(b)
           Bits == {i \in 0 .. n - 1 : BitOf(x, i) # BitOf(y, i)}
           Differences == {k \in 0 .. n - 1 : IsBrighter(a, k) # IsBrighter(b, k)}
           f == [i \in Bits |-> n - 1 - i]
<1>1. n \in Nat \ {0}
  BY HashBitsArePositive
<1>2. ASSUME NEW image, NEW i \in 0 .. n - 1
      PROVE  BitOf(ComputeDHash(image), i) = BitAt(image, n - 1 - i)
  <2>1. PICK u \in 0 .. 2 ^ n - 1 :
          /\ ComputeDHash(image) = AsIntN(u)
          /\ \A k \in 0 .. n - 1 : (u \div 2 ^ (n - 1 - k)) % 2 = BitAt(image, k)
    BY HashesHoldTheirBits
  <2>2. AsIntN(u) % 2 ^ n = u
    BY SignsComeOff
  <2>3. n - 1 - i \in 0 .. n - 1 /\ n - 1 - (n - 1 - i) = i
    BY <1>1
  <2>4. (u \div 2 ^ (n - 1 - (n - 1 - i))) % 2 = BitAt(image, n - 1 - i)
    BY <2>1, <2>3
  <2> HIDE DEF n
  <2>5. (u \div 2 ^ i) % 2 = BitAt(image, n - 1 - i)
    BY <2>3, <2>4
  <2> QED
    BY <2>1, <2>2, <2>5 DEF BitOf, n
<1>3. \A k : BitAt(a, k) # BitAt(b, k) <=> IsBrighter(a, k) # IsBrighter(b, k)
  BY DEF BitAt, IsBrighter
<1>4. \A i \in 0 .. n - 1 : i \in Bits <=> n - 1 - i \in Differences
  <2>1. \A i \in 0 .. n - 1 : n - 1 - i \in 0 .. n - 1
    BY <1>1
  <2> HIDE DEF n, x, y
  <2>2. \A i \in 0 .. n - 1 : BitOf(x, i) = BitAt(a, n - 1 - i) /\ BitOf(y, i) = BitAt(b, n - 1 - i)
    BY <1>2 DEF x, y
  <2> QED
    BY <1>3, <2>1, <2>2
<1>5. Bits \subseteq 0 .. n - 1 /\ Differences \subseteq 0 .. n - 1
  OBVIOUS
<1> HIDE DEF n, x, y, Bits, Differences
<1>6. f \in Bijection(Bits, Differences)
  <2>1. f \in [Bits -> Differences]
    BY <1>4, <1>5
  <2>2. \A i, j \in Bits : f[i] = f[j] => i = j
    BY <1>1, <1>5
  <2>3. ASSUME NEW k \in Differences PROVE \E i \in Bits : f[i] = k
    <3>1. n - 1 - k \in 0 .. n - 1 /\ n - 1 - (n - 1 - k) = k
      BY <1>1, <1>5
    <3>2. n - 1 - k \in Bits
      BY <1>4, <3>1
    <3> QED
      BY <3>1, <3>2
  <2> QED
    BY <2>1, <2>2, <2>3 DEF Bijection, Injection, Surjection, IsInjective
<1>7. IsFiniteSet(Bits)
  <2>1. 0 \in Int /\ n - 1 \in Int
    BY <1>1
  <2>2. IsFiniteSet(0 .. n - 1)
    BY <2>1, FS_Interval
  <2> QED
    BY <1>5, <2>2, FS_Subset
<1>8. Cardinality(Differences) = Cardinality(Bits)
  <2> HIDE DEF f
  <2> QED
    BY <1>6, <1>7, FS_Bijection DEF ExistsBijection
<1> QED
  BY <1>8 DEF HammingDistance, Bits, Differences, n, x, y

(* For a hash of any width and height, and any images: a hash fits a       *)
(* signed column, and its distance to another is the number of neighbours  *)
(* in whose comparison the two images differ, whatever the sign does to    *)
(* the bits.                                                               *)
THEOREM DistancesAreDifferences == PathSpec => []HashesCountDifferences
<1> DEFINE HashInv == hash \subseteq {ComputeDHash(photo.thumb)}
<1>1. PathInit => HashInv
  BY DEF PathInit
<1>2. HashInv /\ [PathNext]_allVars => HashInv'
  <2> SUFFICES ASSUME HashInv, [PathNext]_allVars PROVE HashInv'
    OBVIOUS
  <2>1. CASE ComputeHash
    BY <2>1 DEF ComputeHash, pipelineVars
  <2>2. CASE CreateLocalUpload \/ ReceiveImageUpload
    BY <2>2 DEF CreateLocalUpload, ReceiveImageUpload, pipelineVars
  <2>3. CASE Validate
    BY <2>3 DEF Validate, PipelineNext, pathVars, FileSizeCheck, DecodeCheck, ResolutionCheck,
                Suppress, FaceCheck, BlurCheck
  <2>4. CASE UNCHANGED allVars
    BY <2>4 DEF allVars, pipelineVars, pathVars
  <2> QED
    BY <2>1, <2>2, <2>3, <2>4 DEF PathNext
<1>3. HashInv => HashesCountDifferences
  <2> SUFFICES ASSUME NEW h \in hash, h = ComputeDHash(photo.thumb)
               PROVE  /\ h \in -(2 ^ (HashBits - 1)) .. 2 ^ (HashBits - 1) - 1
                      /\ \A image \in HashImages :
                           HammingDistance(h, ComputeDHash(image)) =
                             Cardinality({k \in 0 .. HashBits - 1 :
                                            IsBrighter(photo.thumb, k) # IsBrighter(image, k)})
    BY DEF HashesCountDifferences
  <2>1. PICK u \in 0 .. 2 ^ HashBits - 1 : h = AsIntN(u)
    BY HashesHoldTheirBits
  <2> QED
    BY <2>1, SignsComeOff, DistancesCountDifferences
<1> QED
  BY <1>1, <1>2, <1>3, PTL DEF PathSpec
=============================================================================
