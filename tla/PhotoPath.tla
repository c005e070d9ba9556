------------------------------ MODULE PhotoPath ------------------------------
(***************************************************************************)
(* One photo's way from the file picker to its perceptual hash: the        *)
(* browser's createLocalUpload, or a client that checks nothing; the API's *)
(* upload gate of apps/api/src/http/upload.ts; the worker's pipeline; and  *)
(* the hash that ImageProcessor compares with those of other photos.       *)
(***************************************************************************)
EXTENDS ValidationPipeline

VARIABLES
  upload,     (* the browser's item: its phase, and why it is rejected       *)
  response,   (* the gate's answer                                          *)
  hash        (* the perceptual hash, {} or one number                      *)

pipelineVars == <<photo, format, check, decoded, faces, mainFace, blurScore, outcome>>
pathVars == <<upload, response, hash>>
allVars == <<detectorVars, pipelineVars, pathVars>>

NoUpload == [phase |-> "none", reason |-> "null"]

PathInit == /\ PipelineInit
            /\ format = "null"
            /\ upload = NoUpload
            /\ response = "none"
            /\ hash = {}

-----------------------------------------------------------------------------

(* createLocalUpload *)
CreateLocalUpload ==
  /\ upload = NoUpload
  /\ response = "none"
  /\ LET reason == ValidateFile(photo)
     IN  upload' = [phase |-> IF reason = "null" THEN "queued" ELSE "rejected",
                    reason |-> reason]
  /\ UNCHANGED <<detectorVars, pipelineVars, response, hash>>

(* multer reports a file above its limit; one of exactly that size it may  *)
(* report too, as the parser under it counts down and stops at zero.       *)
MayExceedLimit == photo.bytes >= MaxFileBytes
MayKeepLimit == photo.bytes <= MaxFileBytes

Refuse(status) == response' = status /\ UNCHANGED format

(* receiveImageUpload and readUploadedImage.  The browser sends what it    *)
(* has queued; another client sends what it likes, or no file at all.      *)
ReceiveImageUpload ==
  /\ response = "none"
  /\ upload.phase # "rejected"
  /\ LET detected == SniffImageFormat(photo)
     IN  \/ upload = NoUpload /\ Refuse("FILE_REQUIRED")
         \/ MayExceedLimit /\ Refuse("FILE_TOO_LARGE")
         \/ MayKeepLimit /\ detected = "null" /\ Refuse("UNSUPPORTED_FORMAT")
         \/ /\ MayKeepLimit
            /\ detected # "null"
            /\ response' = "accepted"
            /\ format' = detected
  /\ UNCHANGED <<detectorVars, photo, check, outcome, contextVars, upload, hash>>

Validate == PipelineNext /\ UNCHANGED pathVars

(* computeDHash of the working image of a photo that passed *)
ComputeHash == /\ outcome = "passed"
               /\ hash = {}
               /\ hash' = {ComputeDHash(photo.thumb)}
               /\ UNCHANGED <<detectorVars, pipelineVars, upload, response>>

PathNext == CreateLocalUpload \/ ReceiveImageUpload \/ Validate \/ ComputeHash

PathSpec == PathInit /\ [][PathNext]_allVars

-----------------------------------------------------------------------------
(* Properties. *)

(* shared/constants.ts: one place for the rules "guarantees both sides     *)
(* enforce identical limits".  What the browser queues, the API does not   *)
(* refuse for its kind or size, nor does the worker for its size; but for  *)
(* a file of exactly the limit, see MayExceedLimit.                        *)
QueuedFilesAreWelcome ==
  upload.phase = "queued" /\ photo.bytes # MaxFileBytes =>
    /\ response \notin {"FILE_TOO_LARGE", "UNSUPPORTED_FORMAT"}
    /\ outcome # "FILE_TOO_SMALL"

(* Where a HEVC brand stands in a file. *)
HeicBrandAt(offset) == photo.magic = "ftyp" /\ Field(photo, offset) \in HeicBrand

(* A file is taken for HEIC only on a brand of its ftyp box, never on what *)
(* follows the box and reads like one; and a brand of the box is missed    *)
(* only if it lies beyond the bytes that are looked at.                    *)
FormatsAreTrueToTheBox ==
  /\ format = "HEIC" =>
       \E o \in FieldOffsets(photo) \ {12} :
         HeicBrandAt(o) /\ (o = MajorBrandOffset \/ o + FieldLength <= photo.boxSize)
  /\ response = "UNSUPPORTED_FORMAT" =>
       \A o \in FieldOffsets(photo) \ {12} :
         HeicBrandAt(o) /\ o + FieldLength <= photo.boxSize =>
           o + FieldLength > SniffByteLength \/ o + FieldLength > photo.bytes

(* Hash images that occur among the photos. *)
HashImages == {p.thumb : p \in Photo}

(* A hash fits the column, a signed number of HASH_BITS bits, and its      *)
(* distance to any other photo's is the number of comparisons of           *)
(* neighbouring pixels in which the two differ.                            *)
HashesCountDifferences ==
  \A h \in hash :
    /\ h \in -(2 ^ (HashBits - 1)) .. 2 ^ (HashBits - 1) - 1
    /\ \A image \in HashImages :
         HammingDistance(h, ComputeDHash(image)) =
           Cardinality({k \in 0 .. HashBits - 1 :
                          IsBrighter(photo.thumb, k) # IsBrighter(image, k)})
=============================================================================
