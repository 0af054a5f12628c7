SPECIFICATION Spec
CONSTANTS
  a1 = a1
  a2 = a2
  b1 = b1
  a = a
  b = b
  Tabs = {a, b}
  Calls = {a1, a2, b1}
  TabOf <- TwoTabs
  None = None
  NumSessions = 4
  MaxFaults = 1
SYMMETRY AuthSymmetry
INVARIANTS TypeOK CookieLive RefusedForCause RotationKeepsCount
