SPECIFICATION FairSpec
CONSTANTS
  u1 = u1
  u2 = u2
  d1 = d1
  d2 = d2
  None = None
  Users = {u1, u2}
  Databases = {d1}
  MaxEdits = 1
  MaxFaults = 1
INVARIANT ReadyMeansComplete
PROPERTIES KeepsWanted UsageSurvives EventuallyComplete
