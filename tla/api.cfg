SPECIFICATION KindsSpec
CONSTANTS
  b1 = b1
  b2 = b2
  Browser = {b1, b2}
  Request = {1, 2, 3}
  By <- TwoThenOne
  UploadLimit = 1
  MaxFaults = 1
INVARIANTS
  PhotosStayPrivate
  AcceptedPhotosAreReachable
  RefusedUploadsLeaveNothing
  OnlyFaultsAndRacesFailRequests
  AdmissionsAreLimited
  NoRequestHangs
CHECK_DEADLOCK FALSE
