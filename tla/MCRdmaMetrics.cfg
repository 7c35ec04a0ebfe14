CONSTANTS
  Readers = {r1, r2, r3}
  ENOMEM = ENOMEM
  EINVAL = EINVAL
  NONE = NONE
SPECIFICATION Spec
INVARIANTS
  ProcRegisteredIffLoaded
