----------------------------- MODULE BoxGeometry -----------------------------
(***************************************************************************)
(* Face boxes, apps/api/src/imaging/box-geometry.ts.  The code computes    *)
(* with floating-point pixels; here coordinates are integers in units that *)
(* a module using this one may take as fine as it likes, UnitsPerPixel to  *)
(* the pixel, and a ratio is a pair <<n, d>> that stands for n / d.        *)
(***************************************************************************)
EXTENDS Integers

CONSTANT UnitsPerPixel

ASSUME PixelsAreDivided == UnitsPerPixel \in Nat \ {0}

Box == [x : Int, y : Int, width : Nat, height : Nat]

Lower(a, b) == IF a <= b THEN a ELSE b
Upper(a, b) == IF a >= b THEN a ELSE b
Clamp(value, min, max) == Lower(Upper(value, min), max)

BoxArea(box) == box.width * box.height

(* The common part of two boxes, nothing if they only touch. *)
Overlap(a, b) ==
  LET width == Lower(a.x + a.width, b.x + b.width) - Upper(a.x, b.x)
      height == Lower(a.y + a.height, b.y + b.height) - Upper(a.y, b.y)
  IN  IF width <= 0 \/ height <= 0 THEN 0 ELSE width * height

(* intersectionOverUnion(a, b) > ratio *)
IouExceeds(a, b, ratio) ==
  Overlap(a, b) * ratio[2] > ratio[1] * (BoxArea(a) + BoxArea(b) - Overlap(a, b))

ScaleBox(box, factor) == [x |-> box.x * factor, y |-> box.y * factor,
                          width |-> box.width * factor,
                          height |-> box.height * factor]

(* The box between two corners. *)
Spanning(left, top, right, bottom) ==
  [x |-> left, y |-> top, width |-> right - left, height |-> bottom - top]

(* The part of a box inside the image; of an image's size in units.        *)
ClampBox(box, size) ==
  Spanning(Clamp(box.x, 0, size.width),
           Clamp(box.y, 0, size.height),
           Clamp(box.x + box.width, 0, size.width),
           Clamp(box.y + box.height, 0, size.height))

(* Whole pixels at or below, at or above n / d units. *)
FloorPixel(n, d) == n \div (d * UnitsPerPixel)
CeilPixel(n, d) == -((-n) \div (d * UnitsPerPixel))

(* The box grown by ratio on every side, to whole pixels in the image.     *)
(* Clamping to whole numbers and rounding to them commute.                 *)
PaddedRegion(box, ratio, pixels) ==
  LET n == ratio[1]
      d == ratio[2]
      width == pixels.width
      height == pixels.height
  IN  Spanning(Clamp(FloorPixel(d * box.x - n * box.width, d), 0, width),
               Clamp(FloorPixel(d * box.y - n * box.height, d), 0, height),
               Clamp(CeilPixel(d * (box.x + box.width) + n * box.width, d), 0, width),
               Clamp(CeilPixel(d * (box.y + box.height) + n * box.height, d), 0, height))
=============================================================================
