---------------------------- MODULE PixelKernels -----------------------------
(***************************************************************************)
(* The two loops over greyscale pixels: laplacianVariance and computeDHash *)
(* of apps/api/src/imaging, with hammingDistance.  An image has a width, a *)
(* height and pixels, indexed from 0 row by row.                           *)
(***************************************************************************)
EXTENDS Integers, FiniteSets

CONSTANTS HashWidthPx, HashHeightPx   (* DUPLICATE *)

ASSUME HashImageHasNeighbours == /\ HashWidthPx \in Nat \ {0, 1}
                                 /\ HashHeightPx \in Nat \ {0}

(* A Uint8Array with the size of the image it came from. *)
IsGreyscale(image) ==
  /\ image.width \in Nat \ {0}
  /\ image.height \in Nat \ {0}
  /\ image.pixels \in [0 .. image.width * image.height - 1 -> 0 .. 255]

-----------------------------------------------------------------------------
(* Sharpness. *)

CenterWeight == 4

(* Pixels with four neighbours, in the order of the two loops. *)
Interior(image) ==
  {i \in DOMAIN image.pixels :
     /\ i \div image.width \in 1 .. image.height - 2
     /\ i % image.width \in 1 .. image.width - 2}

Response(image, i) ==
  image.pixels[i - image.width] + image.pixels[i + image.width]
    + image.pixels[i - 1] + image.pixels[i + 1] - CenterWeight * image.pixels[i]

(* What the loops have added up after the first n pixels. *)
Sums(image) ==
  LET sums[n \in 0 .. Cardinality(DOMAIN image.pixels)] ==
        IF n = 0 THEN [sum |-> 0, sumOfSquares |-> 0, count |-> 0]
        ELSE IF n - 1 \notin Interior(image) THEN sums[n - 1]
        ELSE LET response == Response(image, n - 1)
             IN  [sum |-> sums[n - 1].sum + response,
                  sumOfSquares |-> sums[n - 1].sumOfSquares + response * response,
                  count |-> sums[n - 1].count + 1]
  IN  sums[Cardinality(DOMAIN image.pixels)]

(* The variance as a ratio; 0 without interior pixels. *)
LaplacianVariance(image) ==
  LET total == Sums(image)
  IN  IF total.count = 0 THEN <<0, 1>>
      ELSE <<total.sumOfSquares * total.count - total.sum * total.sum,
             total.count * total.count>>

-----------------------------------------------------------------------------
(* Likeness. *)

HashBits == (HashWidthPx - 1) * HashHeightPx

(* The k-th comparison of a pixel with its right-hand neighbour. *)
IsBrighter(image, k) ==
  LET row == k \div (HashWidthPx - 1)
      column == k % (HashWidthPx - 1)
      index == row * HashWidthPx + column
  IN  image.pixels[index] > image.pixels[index + 1]

(* Mutant: the value stays unsigned. *)
AsUnsigned(value) == value

(* BigInt.asIntN(HASH_BITS, value) of a value of HASH_BITS bits *)
AsIntN(value) == IF value >= 2 ^ (HashBits - 1) THEN value - 2 ^ HashBits ELSE value

ComputeDHash(image) ==
  LET hash[k \in 0 .. HashBits] ==
        IF k = 0 THEN 0
        ELSE 2 * hash[k - 1] + IF IsBrighter(image, k - 1) THEN 1 ELSE 0
  IN  AsIntN(hash[HashBits])

(* The i-th bit of a hash as BigInt.asUintN(HASH_BITS, .) sees it. *)
BitOf(hash, i) == ((hash % 2 ^ HashBits) \div 2 ^ i) % 2

HammingDistance(a, b) ==
  Cardinality({i \in 0 .. HashBits - 1 : BitOf(a, i) # BitOf(b, i)})
=============================================================================
