SPECIFICATION Spec
CONSTANTS
  r1 = r1
  r2 = r2
  Requests = {r1, r2}
  None = None
  Pool = 2
  MaxRetries = 1
  Threshold = 2
  RecoveryTimeout = 1
  CallTimeout = 1
INVARIANTS TypeOK OneJobPerAttempt
PROPERTIES KeepsPromise ServiceRecovers
