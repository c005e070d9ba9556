SPECIFICATION Spec
CONSTANTS
  File = {1, 2, 3}
  Concurrency = 2
  MaxTries <- FirstTwice
INVARIANTS
  ConcurrencyIsCapped
