SPECIFICATION BoundedSpec
CONSTANTS
  File = {1, 2, 3}
  Concurrency = 2
  MaxTries <- FirstTwice
INVARIANTS
  ListedUploadsAreCapped
  UploadsAreShownOrEscaped
  OnlyEscapesMixSessions
PROPERTIES
  QueuedFilesAreSent
