SPECIFICATION FairSpec
CONSTANTS
  c1 = c1
  c2 = c2
  c3 = c3
  Callers = {c1, c2, c3}
  LazyCallers = {}
  Threshold = 2
  RecoveryTimeout = 2
  MaxCall = 1
PROPERTY SelfHeals
