----------------------------- MODULE FileFormats -----------------------------
(***************************************************************************)
(* What the browser and the API make of a file before anyone decodes it:   *)
(* detectImageFormat of packages/shared/src/formats.ts over the leading    *)
(* bytes, and the browser's validateFile of apps/web/src/lib.  Of a file   *)
(* the model keeps its name's extension, its MIME type, its size, what its *)
(* first bytes announce (magic), and for ISO-BMFF the declared size of the *)
(* ftyp box and the four-byte fields from the major brand on.              *)
(***************************************************************************)
EXTENDS Integers, Sequences

CONSTANTS
  SniffByteLength,              (* SNIFF_BYTE_LENGTH                        *)
  MinFileBytes, MaxFileBytes,   (* UPLOAD_LIMITS                            *)
  HeicBrand,                    (* HEIC_BRANDS                              *)
  AcceptedExtension,            (* ACCEPTED_EXTENSIONS of all formats       *)
  AcceptedMimeType              (* ACCEPTED_MIME_TYPES of all formats       *)

ASSUME LimitsAreOrdered == /\ SniffByteLength \in Nat
                           /\ MinFileBytes \in Nat
                           /\ MaxFileBytes \in Nat
                           /\ SniffByteLength <= MinFileBytes
                           /\ MinFileBytes <= MaxFileBytes

(* ISO_BMFF *)
FieldLength == 4
BoxTypeOffset == 4
MajorBrandOffset == 8
CompatibleBrandsOffset == 16

LeastOf(a, b) == IF a <= b THEN a ELSE b

(* readAscii at an offset of at least MAJOR_BRAND_OFFSET *)
Field(file, offset) == file.fields[(offset - MajorBrandOffset) \div FieldLength + 1]

FieldOffsets(file) ==
  {MajorBrandOffset + FieldLength * (i - 1) : i \in DOMAIN file.fields}

(* Mutant: the brands are read on to the end of what was sniffed. *)
FtypBrandsPastTheBox(file, available) ==
  IF file.magic # "ftyp" THEN {}
  ELSE {Field(file, offset) : offset \in
          {o \in FieldOffsets(file) : o # 12 /\ o + FieldLength <= available}}

(* readFtypBrands, of the first bytes that are available *)
FtypBrands(file, available) ==
  IF file.magic # "ftyp" \/ available < BoxTypeOffset + FieldLength THEN {}
  ELSE LET boxEnd == LeastOf(file.boxSize, available)
       IN  {Field(file, offset) : offset \in
              {o \in FieldOffsets(file) :
                 \/ o = MajorBrandOffset /\ o + FieldLength <= available
                 \/ o >= CompatibleBrandsOffset /\ o + FieldLength <= boxEnd}}

DetectImageFormat(file, available) ==
  CASE file.magic = "JPEG" -> "JPEG"
    [] file.magic = "PNG" -> "PNG"
    [] FtypBrands(file, available) \cap HeicBrand # {} -> "HEIC"
    [] OTHER -> "null"

(* sniffImageFormat, and the API's look at its buffer *)
SniffImageFormat(file) ==
  DetectImageFormat(file, LeastOf(SniffByteLength, file.bytes))

(* Mutant: the size is left to the API and the worker. *)
ValidateFormatOnly(file) ==
  IF SniffImageFormat(file) = "null" THEN "UNSUPPORTED_FORMAT" ELSE "null"

(* Why the browser does not send a file. *)
ValidateFile(file) ==
  IF file.extension \notin AcceptedExtension /\ file.mimeType \notin AcceptedMimeType
  THEN "UNSUPPORTED_FORMAT"
  ELSE IF ~file.opens THEN "UNREADABLE"
  ELSE IF SniffImageFormat(file) = "null" THEN "UNSUPPORTED_FORMAT"
  ELSE IF file.bytes < MinFileBytes THEN "FILE_TOO_SMALL"
  ELSE IF file.bytes > MaxFileBytes THEN "FILE_TOO_LARGE"
  ELSE "null"
=============================================================================
