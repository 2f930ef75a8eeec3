SPECIFICATION Spec
CONSTANTS
  i1 = i1
  i2 = i2
  v1 = v1
  v2 = v2
  v3 = v3
  Instances = {i1}
  Values = {v1, v2, v3}
  Unlisted = Unlisted
  MaxEvents = 2
  Keep = 1
  Attempts = 2
  Starts <- OneItem
  Rescales <- Growing
  MayDelete = TRUE
  ResendModes = {"all", "not-sent", "failed"}
  Pauses = {0, 1}
  MaxTime = 1
  MaxSeq = 7
INVARIANTS SentWasDelivered SentEventWasDelivered QuietMeansSynced QuietMeansBilled
PROPERTY BacklogNeverDropped
CHECK_DEADLOCK FALSE
