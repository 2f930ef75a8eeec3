SPECIFICATION Spec
CONSTANTS
  s1 = s1
  s2 = s2
  s3 = s3
  r1 = r1
  r2 = r2
  u1 = u1
  u2 = u2
  u3 = u3
  u4 = u4
  u5 = u5
  None = None
  Services = {s1, s2}
  Requests = {r1, r2}
  Uids = {u1, u2}
  NumPorts = 2
  NumGateways = 2
  Capacity = 1
  MaxRequest = 1
  Grace = 2
SYMMETRY Interchangeable
INVARIANTS PortIsLeased
PROPERTIES NeverMoved ImplementsAllocation
