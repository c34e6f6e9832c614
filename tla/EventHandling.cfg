SPECIFICATION MCSpec
CONSTANTS
  Waiters = {w1, w2, w3}
  MaxSets = 4
  CVs = {c1, c2}
CHECK_DEADLOCK FALSE
INVARIANTS NoWakeupLost OneReleasePerSet AtMostOneLateFiring CallsWhileAlive
PROPERTIES SetReleases RunnerAnswers
