SPECIFICATION BoardFairSpec
CONSTANTS
  Image = {i1, i2}
  Mutation = {m1}
  Previewable = {i1}
INVARIANTS
  CacheConverges
  PicturedPreviewsAreLive
PROPERTIES
  EveryVerdictIsShown
  EveryVerdictIsAnnounced
  PreviewsAreReleased
