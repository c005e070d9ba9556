SPECIFICATION Spec
CONSTANTS
  w1 = w1
  w2 = w2
  alice = alice
  Worker = {w1, w2}
  User = {alice}
  Image = {1, 2}
  Owner <- OwnersAlice
  Near <- NearTwins
  Findings <- BothPass
  MaxAttempts = 2
  BatchSize = 2
  MaxFaults = 1
SYMMETRY Interchangeable
INVARIANTS
  NoAcceptedLookAlikes
  VerdictsAreJustified
  ClaimsAreFenced
  NoClaimIsAbandoned
  IInv
PROPERTIES
  OnlyTheLatestClaimDecides
  ImplementsVerdicts
