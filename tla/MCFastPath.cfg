CONSTANTS
  SubIos = 2
  IoErrors = {0, 1, 2}
  SPLIT_RATIO = 50
  Dirs = {"read", "write"}
SPECIFICATION Spec
INVARIANTS
  FastPathTypeOK
  NoUseAfterFree
  CompletesOnce
  FailedReadNotCompletedFromCache
PROPERTIES
  EventuallyReleased
