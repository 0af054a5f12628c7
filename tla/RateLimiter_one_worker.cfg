SPECIFICATION Spec
CONSTANTS
  c1 = c1
  c2 = c2
  w1 = w1
  w2 = w2
  Children = {c1, c2}
  Workers = {w1}
  RedisUrl = FALSE
  Live = TRUE
  MaxRpm = 2
  Window = 2
  MaxNow = 6
INVARIANTS TypeOK AtMostMaxRpm
PROPERTY ImplementsLimit
