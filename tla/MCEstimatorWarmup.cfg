CONSTANTS
  RDMA_WINDOW_SIZE = 3
  RDMA_THRESHOLD = 100
  IOPS_THRESHOLD = 1000
  CONGESTION_THRESHOLD = 90
  WARMUP_PERIOD = 3000000
  IO_DEPTH = 16
  NUM_JOBS = 1
  SPLIT_RATIO_MAX = 10000
  Throughputs = {0, 800, 1000}
  IopsValues = {0, 2000}
  Gaps = {100}
  ClockSteps = {FALSE}
SPECIFICATION Spec
INVARIANTS
  WarmupEndsOnTime
