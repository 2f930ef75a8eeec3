SPECIFICATION FairSpec
CONSTANTS
  i1 = i1
  i2 = i2
  v1 = v1
  v2 = v2
  v3 = v3
  Instances = {i1, i2}
  Values = {v1}
  Unlisted = Unlisted
  MaxEvents = 2
  Keep = 1
  Attempts = 1
  Starts <- TwoItems
  Rescales <- NoRescale
  MayDelete = TRUE
  ResendModes = {}
  Pauses = {0}
  MaxTime = 1
  MaxSeq = 6
INVARIANTS QuietMeansEnded EndedWasDropped GoneMeansDeleted
PROPERTIES EventuallyQuiet DeletedGoesAway
CHECK_DEADLOCK FALSE
