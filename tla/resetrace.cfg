SPECIFICATION Spec
CONSTANTS
  b1 = b1
  b2 = b2
  Browser = {b1}
  Request = {1, 2, 3}
  By <- AllOfOne
  UploadLimit = 3
  MaxFaults = 1
CONSTRAINT OnlyUploads
INVARIANTS
  OnlyFaultsFailRequests
CHECK_DEADLOCK FALSE
