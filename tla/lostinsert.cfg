SPECIFICATION StorageSpec
CONSTANTS
  w1 = w1
  w2 = w2
  alice = alice
  r1 = r1
  r2 = r2
  Worker = {w1}
  User = {alice}
  Request = {r1}
  Image = {1}
  Owner <- OwnersAlice
  Near <- NoneNear
  Findings <- BothPass
  MaxAttempts = 2
  BatchSize = 1
  MaxFaults = 0
  MaxApiFaults = 1
INVARIANTS
  RowsHaveTheirOriginal
