SPECIFICATION PathSpec
CONSTANTS
  UnitsPerPixel = 2
  RawBox <- MCRawBox
  MaxAnchors = 3
  Score = {49, 50, 80}
  ScoreThreshold = 50
  NmsIouThreshold <- MCNmsIouThreshold
  SniffByteLength = 24
  MinFileBytes = 50
  MaxFileBytes = 90
  HeicBrand = {"heic", "heix"}
  AcceptedExtension = {".jpg", ".heic"}
  AcceptedMimeType = {"image/jpeg", "image/heif"}
  MaxInputPixels = 200
  WorkingMaxDimensionPx = 8
  HashWidthPx = 3
  HashHeightPx = 2
  Photo <- MCPhoto
  InputSizePx = 4
  MinShortSidePx = 6
  MinFaceHeightPx = 4
  MinSecondaryArea <- MCMinSecondaryArea
  MinFaceHeight <- MCMinFaceHeight
  FacePadding <- MCFacePadding
  MinLaplacianVariance = 10
INVARIANTS
  KeptFacesAreDistinct
  DroppedFacesAreCovered
  PassedPhotosShowOnePerson
  VisibleFacesAreMeasured
  PassedPhotosKeepTheRules
  QueuedFilesAreWelcome
  FormatsAreTrueToTheBox
  HashesCountDifferences
CHECK_DEADLOCK FALSE
