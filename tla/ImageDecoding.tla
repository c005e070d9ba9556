---------------------------- MODULE ImageDecoding ----------------------------
(***************************************************************************)
(* From an uploaded file to the upright working image every check sees:    *)
(* ImageDecoder of apps/api/src/imaging/image-decoder.ts.  A file holds a  *)
(* list of images (a JPEG or PNG one), each with the size it was stored in *)
(* and whether it is to be turned by a quarter for display; it decodes or  *)
(* does not.                                                               *)
(***************************************************************************)
EXTENDS Integers, Sequences

CONSTANTS MaxInputPixels, WorkingMaxDimensionPx   (* IMAGE_PROCESSING *)

ASSUME DimensionsAreNumbers == /\ MaxInputPixels \in Nat
                               /\ WorkingMaxDimensionPx \in Nat \ {0}

(* UnreadableImageError, whatever it was that went wrong *)
Unreadable == [original |-> [width |-> 0, height |-> 0],
               working |-> [width |-> 0, height |-> 0]]

(* metadata().autoOrient, and what libheif reports *)
Upright(image) == IF image.turned
                  THEN [width |-> image.height, height |-> image.width]
                  ELSE [width |-> image.width, height |-> image.height]

WithinPixelLimit(image) == image.width * image.height <= MaxInputPixels

(* A side of length n, of an image whose longest is m, at the working size. *)
Shrunk(n, m) ==
  LET rounded == (2 * n * WorkingMaxDimensionPx + m) \div (2 * m)
  IN  IF rounded = 0 THEN 1 ELSE rounded

(* resize: inside the working square, never enlarged *)
FitInside(size) ==
  LET longest == IF size.width >= size.height THEN size.width ELSE size.height
  IN  IF longest <= WorkingMaxDimensionPx THEN size
      ELSE [width |-> Shrunk(size.width, longest),
            height |-> Shrunk(size.height, longest)]

(* What an image yields; the size is upright, the pixels are too. *)
ToWorkingImage(size, pixels) == [original |-> size, working |-> FitInside(pixels)]

(* Mutant: the size the image was stored in. *)
OpenRasterAsStored(file) ==
  IF WithinPixelLimit(file.images[1])
  THEN ToWorkingImage([width |-> file.images[1].width, height |-> file.images[1].height],
                      Upright(file.images[1]))
  ELSE Unreadable

OpenRaster(file) ==
  IF WithinPixelLimit(file.images[1])
  THEN ToWorkingImage(Upright(file.images[1]), Upright(file.images[1]))
  ELSE Unreadable

(* The primary image is the first. *)
OpenHeic(file) ==
  IF file.images = <<>> THEN Unreadable
  ELSE IF ~WithinPixelLimit(file.images[1]) THEN Unreadable
  ELSE ToWorkingImage(Upright(file.images[1]), Upright(file.images[1]))

Decode(file, format) ==
  IF ~file.decodes THEN Unreadable
  ELSE IF format = "HEIC" THEN OpenHeic(file)
  ELSE OpenRaster(file)
=============================================================================
