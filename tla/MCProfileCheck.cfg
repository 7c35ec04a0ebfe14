CONSTANTS
  IoDepths = {1, 2, 4, 8, 16, 32}
  NumJobs = {1, 2, 4, 8, 16, 32}
  MAX_DROP = 1000
  WINDOW_SIZE = 100
  MAX_PATTERN_SIZE = 10
SPECIFICATION Spec
\* The sweep of each fingerprint ends at MAX_DROP.
CHECK_DEADLOCK FALSE
INVARIANTS
  PatternIsReducedRatio
  CombinedIopsIsMaxSustainable
  TestBestSplitIsFirstMaximum
  LookupNeverStrays
PROPERTIES
  MoreDropMoreCache
