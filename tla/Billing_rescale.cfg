SPECIFICATION Spec
CONSTANTS
  i1 = i1
  i2 = i2
  v1 = v1
  v2 = v2
  v3 = v3
  Instances = {i1}
  Values = {v1, v2}
  Unlisted = Unlisted
  MaxEvents = 3
  Keep = 1
  Attempts = 1
  Starts <- Faultless
  Rescales <- Back
  MayDelete = FALSE
  ResendModes = {}
  Pauses = {1}
  MaxTime = 1
  MaxSeq = 6
INVARIANT ReturnMeansBilled
CHECK_DEADLOCK FALSE
