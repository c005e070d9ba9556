SPECIFICATION FairSpec
CONSTANTS
  w1 = w1
  w2 = w2
  alice = alice
  Worker = {w1, w2}
  User = {alice}
  Image = {1, 2}
  Owner <- OwnersAlice
  Near <- NearTwins
  Findings <- PoisonFirst
  MaxAttempts = 2
  BatchSize = 1
  MaxFaults = 1
PROPERTIES
  EveryUploadSettles
  StopCompletes
