SPECIFICATION Spec
CONSTANTS
  n1 = n1
  n2 = n2
  p1 = p1
  p2 = p2
  p3 = p3
  f1 = f1
  f2 = f2
  None = None
  Names = {n1}
  Probers = {p1, p2}
  Flights = {f1, f2}
SYMMETRY Interchangeable
INVARIANTS NoLostLoop OneProbePerLoop StoppedNeverFails QuietMeansStopped
PROPERTY FailingIsRetried
