SPECIFICATION Spec
CONSTANTS
  Services = {"stackgres"}
  Instances = {1, 2}
  None = None
  Breaking = {}
  MaxEdits = 0
  MaxFaults = 0
INVARIANTS EncryptedStorage
CHECK_DEADLOCK FALSE
