CONSTANTS
  WINDOW_SIZE = 100
  MAX_PATTERN_SIZE = 10
  SPLIT_RATIO_MAX = 10000
  COUNTER_MOD = 196
  HotThreads = {t1, t2}
  RATIO = 7002
  MissOutcomes = {FALSE, TRUE}
SPECIFICATION Spec
INVARIANTS
  HitsWithinTotal
