SPECIFICATION MCSpec
CONSTANTS
  Waiters = {w1}
  MaxSets = 1
  CVs = {c1}
CHECK_DEADLOCK FALSE
PROPERTY StartedFires
