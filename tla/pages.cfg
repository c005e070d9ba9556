SPECIFICATION Spec
CONSTANTS
  Image = {1, 2, 3, 4, 5}
  Limit = 2
INVARIANTS
  NothingIsListedTwice
  FullWalksAreComplete
CHECK_DEADLOCK FALSE
