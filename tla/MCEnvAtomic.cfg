CONSTANTS
  Threads = {t1, t2, t3}
  Holders = {t1}
SPECIFICATION Spec
PROPERTIES
  NoRevival
