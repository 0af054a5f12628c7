SPECIFICATION Spec
CONSTANTS
  c1 = c1
  c2 = c2
  p1 = p1
  p2 = p2
  Children = {c1, c2}
  PCs = {p1, p2}
  None = None
  MaxChildren = 1
  NumCodes = 2
  NumTokens = 2
  MaxFaults = 2
SYMMETRY ActivationSymmetry
CHECK_DEADLOCK FALSE
INVARIANT FreshCodeIsUsed
