SPECIFICATION FairSpec
CONSTANTS
  MaxSize = 2
  BackoffLimit = 1
  Faults = {"unready", "lost", "break"}
  None = None
PROPERTIES  ResizedIfNothingLost StsComesBack
