SPECIFICATION Spec
CONSTANTS
  File = {1, 2}
  Concurrency = 2
  MaxTries <- FirstTwice
INVARIANTS
  OneAnonymousUser
