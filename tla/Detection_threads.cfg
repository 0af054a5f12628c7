SPECIFICATION Spec
CONSTANTS
  u1 = u1
  u2 = u2
  u3 = u3
  URLs = {u1, u2, u3}
  Frames <- TwoFrames
  Contents <- TwoContents
  None = None
  TTL = 1
  Max = 2
  Skew = 1
INVARIANT TypeOK
PROPERTIES SuppressedIsRecent HandsOnce EveryLinkFound
