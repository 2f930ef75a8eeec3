SPECIFICATION Spec
CONSTANTS
  Services = {"cnpg"}
  Instances = {1}
  None = None
  Breaking = {}
  MaxEdits = 1
  MaxFaults = 0
INVARIANTS NoLockout
CHECK_DEADLOCK FALSE
