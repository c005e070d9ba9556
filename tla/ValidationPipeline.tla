-------------------------- MODULE ValidationPipeline --------------------------
(***************************************************************************)
(* The photo rules of apps/api/src/processing: ValidationPipeline.run over *)
(* the checks of checks/index.ts, with the ProcessingContext they share,   *)
(* on the decoder, the detector and the kernels of apps/api/src/imaging.   *)
(* A photo is what the code can find out about it: the file and its images *)
(* (FileFormats, ImageDecoding), what the network predicts on it, and the  *)
(* greyscale pixels of its face crop and of its hash image.                *)
(***************************************************************************)
EXTENDS FaceSuppression, FileFormats, ImageDecoding, PixelKernels, FiniteSets, Functions

CONSTANTS
  Photo,            (* what there is to upload                              *)
  InputSizePx,      (* FACE_DETECTION.INPUT_SIZE_PX                         *)
  MinShortSidePx, MinFaceHeightPx,              (* IMAGE_RULES, FACE_RULES  *)
  MinSecondaryArea, MinFaceHeight, FacePadding, (* FACE_RULES, BLUR: ratios *)
  MinLaplacianVariance                          (* BLUR                     *)

ASSUME SizesAreNumbers == \A p \in Photo : p.bytes \in Nat /\ p.boxSize \in Nat
ASSUME FieldsAreNumbered == \A p \in Photo : DOMAIN p.fields \subseteq Nat \ {0}

(* Only a HEIC container may turn out to hold no image at all.             *)
ASSUME ImagesHaveASize ==
  \A p \in Photo :
    /\ p.images \in Seq([width : Nat \ {0}, height : Nat \ {0}, turned : BOOLEAN])
    /\ p.images = <<>> => p.magic = "ftyp"

ASSUME RatiosAreRatios == /\ MinSecondaryArea \in Nat \X (Nat \ {0})
                          /\ MinFaceHeight \in (Nat \ {0}) \X (Nat \ {0})
                          /\ FacePadding \in Nat \X (Nat \ {0})

ASSUME PixelsAreCounted == /\ InputSizePx \in Nat \ {0}
                           /\ MinShortSidePx \in Nat
                           /\ MinFaceHeightPx \in Nat

ASSUME CropsAreGreyscale == \A p \in Photo : IsGreyscale(p.crop)
ASSUME SharpnessIsAskedFor == MinLaplacianVariance \in Nat \ {0}

LongestSide(size) == Upper(size.width, size.height)

VARIABLES
  photo,      (* the photo under validation                                 *)
  format,     (* context.job.format, null while there is no job             *)
  check,      (* index of the check to run                                  *)
  decoded,    (* context.decoded                                            *)
  faces,      (* context.faceDetection, by the detector's index             *)
  mainFace,   (* context.mainFace                                           *)
  blurScore,  (* context.blurScore, a ratio                                 *)
  outcome     (* of the run                                                 *)

detectorVars == <<anchors, sorted, next, kept>>
contextVars == <<decoded, faces, mainFace, blurScore>>

(* null *)
None == [x |-> 0, y |-> 0, width |-> -1, height |-> -1]
NotDetected == <<None>>
NotMeasured == <<0, 0>>

Order == <<"file-size", "decode", "resolution", "face", "blur">>

PipelineInit == /\ photo \in Photo
                /\ anchors = photo.predictions
                /\ Init
                /\ check = 1
                /\ decoded = Unreadable
                /\ faces = NotDetected
                /\ mainFace = None
                /\ blurScore = NotMeasured
                /\ outcome = "running"

-----------------------------------------------------------------------------
(* ValidationPipeline.run: the loop goes on or returns. *)

Reaches(name) == /\ format # "null"
                 /\ outcome = "running"
                 /\ check <= Len(Order)
                 /\ Order[check] = name

Decide(reason) == /\ outcome' = reason
                  /\ check' = check

Passes == /\ check' = check + 1
          /\ outcome' = IF check = Len(Order) THEN "passed" ELSE "running"

(* runCheck wraps whatever a check throws. *)
Throws(what) == Decide(what)

Judge(bad, reason) == IF bad THEN Decide(reason) ELSE Passes

-----------------------------------------------------------------------------
(* The checks. *)

FileSizeCheck ==
  /\ Reaches("file-size")
  /\ Judge(photo.bytes < MinFileBytes, "FILE_TOO_SMALL")
  /\ UNCHANGED <<photo, format, contextVars, detectorVars>>

(* The decoder's errors are all UnreadableImageError. *)
DecodeCheck ==
  /\ Reaches("decode")
  /\ decoded' = Decode(photo, format)
  /\ Judge(decoded' = Unreadable, "UNREADABLE")
  /\ UNCHANGED <<photo, format, faces, mainFace, blurScore, detectorVars>>

ResolutionCheck ==
  /\ Reaches("resolution")
  /\ IF decoded = Unreadable THEN Throws("misconfigured")
     ELSE Judge(Lower(decoded.original.width, decoded.original.height) < MinShortSidePx,
                "RESOLUTION_TOO_LOW")
  /\ UNCHANGED <<photo, format, contextVars, detectorVars>>

(* One round of nonMaxSuppression inside detector.detect(). *)
Suppress ==
  /\ Reaches("face")
  /\ decoded # Unreadable
  /\ Consider
  /\ UNCHANGED <<photo, format, check, outcome, contextVars>>

(* The working image's size in units. *)
Bounds == [width |-> decoded.working.width * UnitsPerPixel,
           height |-> decoded.working.height * UnitsPerPixel]

(* Working-image pixels per pixel of the network's input.  Whole numbers   *)
(* stand for the code's fractions; on the photos of a run they are exact.  *)
InverseScale == LongestSide(decoded.working) \div InputSizePx

(* Mutant: boxes may leave the working image. *)
ToScaledCoordinates(box) == ScaleBox(box, InverseScale)

ToImageCoordinates(box) == ClampBox(ScaleBox(box, InverseScale), Bounds)

DetectedFaces == [i \in kept |-> ToImageCoordinates(sorted[i].box)]

(* largestFace keeps the first of equals. *)
LargestFace(fs) ==
  CHOOSE i \in DOMAIN fs :
    /\ \A j \in DOMAIN fs : BoxArea(fs[j]) <= BoxArea(fs[i])
    /\ \A j \in DOMAIN fs : j < i => BoxArea(fs[j]) < BoxArea(fs[i])

(* Mutant: the ratio upside down. *)
HasMuchLargerSecondFace(fs, main) ==
  \E i \in DOMAIN fs \ {main} :
    BoxArea(fs[i]) * MinSecondaryArea[1] >= MinSecondaryArea[2] * BoxArea(fs[main])

HasProminentSecondFace(fs, main) ==
  \E i \in DOMAIN fs \ {main} :
    BoxArea(fs[i]) * MinSecondaryArea[2] >= MinSecondaryArea[1] * BoxArea(fs[main])

(* heightRatio of the frame; heightRatio * originalHeight in pixels. *)
IsTooSmall(face) ==
  \/ face.height * MinFaceHeight[2] < MinFaceHeight[1] * Bounds.height
  \/ face.height * decoded.original.height < MinFaceHeightPx * Bounds.height

FaceCheck ==
  /\ Reaches("face")
  /\ IF decoded = Unreadable THEN Throws("misconfigured") /\ UNCHANGED <<faces, mainFace>>
     ELSE \/ Throws("detector failed") /\ UNCHANGED <<faces, mainFace>>
          \/ /\ next > Len(sorted)
             /\ faces' = DetectedFaces
             /\ IF kept = {}
                THEN Decide("NO_FACE") /\ UNCHANGED mainFace
                ELSE LET main == LargestFace(faces')
                     IN  /\ mainFace' = faces'[main]
                         /\ IF HasProminentSecondFace(faces', main)
                            THEN Decide("MULTIPLE_FACES")
                            ELSE Judge(IsTooSmall(faces'[main]), "FACE_TOO_SMALL")
  /\ UNCHANGED <<photo, format, decoded, blurScore, detectorVars>>

FaceCrop == PaddedRegion(mainFace, FacePadding, decoded.working)

(* sharp's extract() refuses an empty region, or one beyond the image. *)
CanExtract(region) ==
  /\ region.width > 0
  /\ region.height > 0
  /\ region.x >= 0 /\ region.x + region.width <= decoded.working.width
  /\ region.y >= 0 /\ region.y + region.height <= decoded.working.height

BlurCheck ==
  /\ Reaches("blur")
  /\ IF decoded = Unreadable \/ mainFace = None
     THEN Throws("misconfigured") /\ UNCHANGED blurScore
     ELSE IF ~CanExtract(FaceCrop) THEN Throws("bad crop") /\ UNCHANGED blurScore
     ELSE /\ blurScore' = LaplacianVariance(photo.crop)
          /\ Judge(blurScore'[1] < MinLaplacianVariance * blurScore'[2], "BLURRY")
  /\ UNCHANGED <<photo, format, decoded, faces, mainFace, detectorVars>>

PipelineNext == \/ FileSizeCheck \/ DecodeCheck \/ ResolutionCheck
                \/ Suppress \/ FaceCheck \/ BlurCheck

-----------------------------------------------------------------------------
(* Properties. *)

(* A photo passes only with one face that stands out: of the others, none  *)
(* has a tenth of its area, although the checks only ever compare with the *)
(* first of the largest; and the crop its sharpness was measured on covers *)
(* that face.                                                              *)
PassedPhotosShowOnePerson ==
  outcome = "passed" =>
    /\ \E i \in DOMAIN faces :
         /\ \A j \in DOMAIN faces \ {i} :
              BoxArea(faces[j]) * MinSecondaryArea[2] < MinSecondaryArea[1] * BoxArea(faces[i])
         /\ faces[i] = mainFace
    /\ FaceCrop.x * UnitsPerPixel <= mainFace.x
    /\ mainFace.x + mainFace.width <= (FaceCrop.x + FaceCrop.width) * UnitsPerPixel
    /\ FaceCrop.y * UnitsPerPixel <= mainFace.y
    /\ mainFace.y + mainFace.height <= (FaceCrop.y + FaceCrop.height) * UnitsPerPixel

(* image-processor.ts: "Validation outcomes never throw"; no check misses  *)
(* what an earlier one was to leave it, "a pipeline wiring bug" to         *)
(* processing-context.ts.  But one outcome throws: a face found in the     *)
(* padding beside the image has no width left once it is clamped, and no   *)
(* crop.  Nothing else goes wrong with a crop: of any face with a part in  *)
(* the frame, however thin, a pixel can be cut out.                        *)
VisibleFacesAreMeasured == /\ outcome = "bad crop" => mainFace.width = 0
                           /\ outcome # "misconfigured"

(* The image the rules judge, without the code's ways to its size. *)
TrueHeight == IF photo.images[1].turned THEN photo.images[1].width
              ELSE photo.images[1].height

(* The squared deviations of a crop's responses from their mean, each      *)
(* times the square of their number.                                       *)
SpreadOf(image) ==
  LET responses == [i \in Interior(image) |-> Response(image, i)]
      total == SumFunction(responses)
      deviation(i) == Cardinality(Interior(image)) * responses[i] - total
  IN  SumFunction([i \in Interior(image) |-> deviation(i) * deviation(i)])

(* The file is large enough, its image within the pixel limit and large    *)
(* enough, and the face large enough in pixels of the photo as the user    *)
(* sees it.                                                                *)
PassedPhotosAreLargeEnough ==
  outcome = "passed" =>
    /\ photo.bytes \in MinFileBytes .. MaxFileBytes
    /\ photo.images[1].width * photo.images[1].height <= MaxInputPixels
    /\ Lower(photo.images[1].width, photo.images[1].height) >= MinShortSidePx
    /\ mainFace.height * TrueHeight >= MinFaceHeightPx * Bounds.height

(* The face's crop is sharp, by the definition of a variance.              *)
PassedPhotosAreSharp ==
  outcome = "passed" =>
    LET n == Cardinality(Interior(photo.crop))
    IN  n > 0 /\ SpreadOf(photo.crop) >= MinLaplacianVariance * n * n * n

(* What "passed" promises the product, whichever checks said so.           *)
PassedPhotosKeepTheRules == PassedPhotosAreLargeEnough /\ PassedPhotosAreSharp

=============================================================================
