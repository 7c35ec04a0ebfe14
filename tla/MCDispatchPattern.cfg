CONSTANTS
  WINDOW_SIZE = 100
  MAX_PATTERN_SIZE = 10
  SPLIT_RATIO_MAX = 10000
  COUNTER_MOD = 196
  IO_DEPTH = 16
  NUM_JOBS = 1
  DropSamples = {589}
  MissOutcomes = {FALSE, TRUE}
SPECIFICATION Spec
INVARIANTS
  FirstHitFollowsPattern
