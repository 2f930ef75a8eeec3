SPECIFICATION FairSpec
CONSTANTS
  MaxRevision = 2
  MaxVersion = 3
  Retries = 1
  MirrorTag = 2
  Settings <- Wishes
  Starts <- Scenarios
INVARIANTS ReadyMeansMaintained
PROPERTIES OnlyRaisesTheRevision LoweredByPinOrStaleRead EventuallyReleased
