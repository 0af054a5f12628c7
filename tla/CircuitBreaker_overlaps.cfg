SPECIFICATION FairSpec
CONSTANTS
  c1 = c1
  c2 = c2
  c3 = c3
  c4 = c4
  Callers = {c1, c2, c3, c4}
  LazyCallers = {c3}
  Threshold = 3
  RecoveryTimeout = 2
  MaxCall = 4
INVARIANTS TypeOK BreakerConsistent ProbesSpaced
PROPERTY SelfHealsUnlessProbeLeaks
