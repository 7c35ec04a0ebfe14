------------------------------ MODULE Estimator ------------------------------
(***************************************************************************)
(* The mode and split-ratio estimator of the netCAS splitter              *)
(* (netcas_splitter.c: netcas_update_split_ratio with update_rdma_window, *)
(* determine_netcas_mode, find_best_split_ratio, split_set_optimal_ratio, *)
(* netcas_splitter_init, and the estimator half of netcas_reset_splitter).*)
(*                                                                         *)
(* One update tick consumes one measurement (RDMA throughput, IOPS) and   *)
(* the time elapsed since the previous tick; the measurement itself       *)
(* (measure_performance, netCAS_monitor.c) is not in the sources and is   *)
(* an input drawn from a small set.                                        *)
(***************************************************************************)
EXTENDS Integers, BandwidthProfile

CONSTANTS
  RDMA_WINDOW_SIZE,      \* moving-average window length (20 by the spec)
  RDMA_THRESHOLD,        \* 100
  IOPS_THRESHOLD,        \* 1000
  CONGESTION_THRESHOLD,  \* 90 per mille
  WARMUP_PERIOD,         \* warmup length in ms of env_get_tick_count() time
  IO_DEPTH, NUM_JOBS,    \* workload fingerprint (16, 1)
  SPLIT_RATIO_MAX,       \* 10000
  Throughputs,           \* RDMA throughputs a measurement may return
  IopsValues,            \* IOPS values a measurement may return
  Gaps,                  \* ms that may elapse between two update ticks
  ClockSteps             \* whether gettimeofday may step back between ticks

(***************************************************************************)
(* WARMUP_PERIOD: the code compares curr_time - last_nonzero_transition_  *)
(* time with WARMUP_PERIOD_NS = 3e9, but env_get_tick_count() counts      *)
(* microseconds (posix ocf_env.h), so the effective warmup is 3e9 us =    *)
(* 3,000,000 ms.  Time is in ms here and WARMUP_PERIOD is that effective  *)
(* value, or a shortened one in the runs that need Stable to be reached.  *)
(***************************************************************************)
ASSUME /\ RDMA_WINDOW_SIZE \in Nat \ {0}
       /\ WARMUP_PERIOD \in Nat \ {0}
       /\ Throughputs \subseteq Nat /\ IopsValues \subseteq Nat
       /\ Gaps \subseteq Nat
       /\ ClockSteps \subseteq BOOLEAN

NETCAS_MODE_IDLE == "idle"
NETCAS_MODE_WARMUP == "warmup"
NETCAS_MODE_STABLE == "stable"
NETCAS_MODE_CONGESTION == "congestion"
NETCAS_MODE_FAILURE == "failure"
Modes == {NETCAS_MODE_IDLE, NETCAS_MODE_WARMUP, NETCAS_MODE_STABLE,
          NETCAS_MODE_CONGESTION, NETCAS_MODE_FAILURE}

VARIABLES
  optimal_split_ratio,               \* shared with the dispatch scheduler
  current_mode,
  warmup_elapsed,                    \* curr_time - last_nonzero_transition_time,
                                     \* kept up to WARMUP_PERIOD (see below)
  netCAS_initialized,
  split_ratio_calculated_in_stable,
  rdma_throughput_window,            \* [0..RDMA_WINDOW_SIZE-1 -> Nat]
  rdma_window_index,
  rdma_window_sum,
  rdma_window_count,
  rdma_window_average,
  max_average_rdma_throughput,
  ratio_written                      \* history: the last tick called
                                     \* split_set_optimal_ratio

estimator_vars == <<current_mode, warmup_elapsed, netCAS_initialized,
                    split_ratio_calculated_in_stable, rdma_throughput_window,
                    rdma_window_index, rdma_window_sum, rdma_window_count,
                    rdma_window_average, max_average_rdma_throughput,
                    ratio_written>>

Slots == 0..(RDMA_WINDOW_SIZE - 1)

(***************************************************************************)
(* update_rdma_window(tp), in parts: the running sum, the cursor, and the *)
(* running maximum of the average.                                         *)
(***************************************************************************)
WindowFull == rdma_window_count >= RDMA_WINDOW_SIZE

(* Mutation: subtract the evicted slot after it was overwritten. *)
WindowSumAfterLate(tp) ==
  IF WindowFull THEN rdma_window_sum - tp + tp ELSE rdma_window_sum + tp

WindowSumAfter(tp) ==
  (IF WindowFull THEN rdma_window_sum - rdma_throughput_window[rdma_window_index]
                 ELSE rdma_window_sum) + tp

(* Mutation: the cursor is not wrapped. *)
NextIndexNoWrap == rdma_window_index + 1

NextIndex == (rdma_window_index + 1) % RDMA_WINDOW_SIZE

(* Mutation: compare with the previous average. *)
RunningMaxStale(avg) ==
  IF max_average_rdma_throughput < rdma_window_average
    THEN rdma_window_average ELSE max_average_rdma_throughput

RunningMax(avg) ==
  IF max_average_rdma_throughput < avg THEN avg ELSE max_average_rdma_throughput

UpdateRdmaWindow(tp) ==
  LET count == IF WindowFull THEN rdma_window_count ELSE rdma_window_count + 1
      avg   == WindowSumAfter(tp) \div count
  IN  [window |-> [rdma_throughput_window EXCEPT ![rdma_window_index] = tp],
       index  |-> NextIndex,
       sum    |-> WindowSumAfter(tp), count |-> count, average |-> avg,
       max    |-> RunningMax(avg)]

(* The drop computed in netcas_update_split_ratio after the insertion. *)
DropPermil(max, avg) == IF max > 0 THEN ((max - avg) * 1000) \div max ELSE 0

(***************************************************************************)
(* determine_netcas_mode: mode, warmup clock and the two flags after the  *)
(* transition, as a record st.  elapsed is curr_time - last_nonzero_      *)
(* transition_time for this tick.  No transition enters Failure.          *)
(***************************************************************************)
(* Mutation: Idle -> Warmup forgets to clear netCAS_initialized. *)
EnterWarmupKeepInit(st) == [st EXCEPT !.mode = NETCAS_MODE_WARMUP, !.elapsed = 0]

EnterWarmup(st) ==
  [st EXCEPT !.mode = NETCAS_MODE_WARMUP, !.elapsed = 0, !.init = FALSE]

(* Mutation: every active Warmup tick restarts the warmup clock. *)
WarmupStepRestart(st, elapsed) ==
  IF elapsed >= WARMUP_PERIOD THEN [st EXCEPT !.mode = NETCAS_MODE_STABLE, !.calc = FALSE]
                              ELSE [st EXCEPT !.elapsed = 0]

WarmupStep(st, elapsed) ==
  IF elapsed >= WARMUP_PERIOD THEN [st EXCEPT !.mode = NETCAS_MODE_STABLE, !.calc = FALSE]
                              ELSE st

DetermineNetcasMode(tp, iops, drop, elapsed) ==
  LET st == [mode |-> current_mode, elapsed |-> elapsed,
             init |-> netCAS_initialized,
             calc |-> split_ratio_calculated_in_stable]
  IN  CASE tp <= RDMA_THRESHOLD /\ iops <= IOPS_THRESHOLD
             -> [st EXCEPT !.mode = NETCAS_MODE_IDLE, !.elapsed = 0]
        [] current_mode = NETCAS_MODE_IDLE -> EnterWarmup(st)
        [] current_mode = NETCAS_MODE_WARMUP -> WarmupStep(st, elapsed)
        [] current_mode = NETCAS_MODE_CONGESTION /\ drop < CONGESTION_THRESHOLD
             -> [st EXCEPT !.mode = NETCAS_MODE_STABLE, !.calc = FALSE]
        [] current_mode = NETCAS_MODE_STABLE /\ drop > CONGESTION_THRESHOLD
             -> [st EXCEPT !.mode = NETCAS_MODE_CONGESTION, !.calc = TRUE]
        [] OTHER -> st

BestRatio(drop) == FindBestSplitRatio(IO_DEPTH, NUM_JOBS, drop)

(***************************************************************************)
(* The per-mode ratio policy (the switch of netcas_update_split_ratio):   *)
(* the ratio and flags after it, and whether it called                    *)
(* split_set_optimal_ratio.                                                *)
(***************************************************************************)
Keep(st) == [ratio |-> optimal_split_ratio, init |-> st.init,
             calc |-> st.calc, wrote |-> FALSE]

SetRatio(st, r) == [Keep(st) EXCEPT !.ratio = r, !.wrote = TRUE]

(* Mutation: the Stable branch does not latch split_ratio_calculated_in_stable. *)
StablePolicyNoLatch(st, drop) ==
  IF ~st.calc THEN SetRatio(st, BestRatio(drop)) ELSE Keep(st)

StablePolicy(st, drop) ==
  IF ~st.calc THEN [SetRatio(st, BestRatio(drop)) EXCEPT !.calc = TRUE]
              ELSE Keep(st)

(* Warmup and Congestion write only a changed ratio. *)
WriteIfChanged(st, r) == IF r # optimal_split_ratio THEN SetRatio(st, r) ELSE Keep(st)

(* Mutation: Warmup derates the backend by the observed drop. *)
RatioPolicyWarmupDrop(st, drop) ==
  CASE st.mode = NETCAS_MODE_IDLE
         -> IF ~st.init THEN [SetRatio(st, SPLIT_RATIO_MAX) EXCEPT !.init = TRUE]
                        ELSE Keep(st)
    [] st.mode = NETCAS_MODE_WARMUP -> WriteIfChanged(st, BestRatio(drop))
    [] st.mode = NETCAS_MODE_STABLE -> StablePolicy(st, drop)
    [] st.mode = NETCAS_MODE_CONGESTION -> WriteIfChanged(st, BestRatio(drop))
    [] OTHER -> Keep(st)

RatioPolicy(st, drop) ==
  CASE st.mode = NETCAS_MODE_IDLE
         -> IF ~st.init THEN [SetRatio(st, SPLIT_RATIO_MAX) EXCEPT !.init = TRUE]
                        ELSE Keep(st)
    [] st.mode = NETCAS_MODE_WARMUP -> WriteIfChanged(st, BestRatio(0))
    [] st.mode = NETCAS_MODE_STABLE -> StablePolicy(st, drop)
    [] st.mode = NETCAS_MODE_CONGESTION -> WriteIfChanged(st, BestRatio(drop))
    [] OTHER -> Keep(st)

(* The warmup clock advanced by gap; beyond WARMUP_PERIOD only the     *)
(* comparison with WARMUP_PERIOD matters, so it stops there.           *)
Advance(gap) ==
  IF warmup_elapsed + gap >= WARMUP_PERIOD THEN WARMUP_PERIOD
                                          ELSE warmup_elapsed + gap

(***************************************************************************)
(* curr_time - last_nonzero_transition_time as determine_netcas_mode     *)
(* computes it.  env_get_tick_count() reads gettimeofday, a wall clock    *)
(* that an NTP or settimeofday step may move back; when it moves back    *)
(* past the start of warmup the uint64 subtraction wraps to nearly 2^64,  *)
(* which passes any comparison with WARMUP_PERIOD.                        *)
(***************************************************************************)
Elapsed(gap, back) == IF back THEN WARMUP_PERIOD ELSE Advance(gap)

(***************************************************************************)
(* netcas_update_split_ratio, whole: measure, insert into the window,     *)
(* compute the drop, transition the mode, apply the ratio policy.         *)
(***************************************************************************)
UpdateSplitRatio(tp, iops, gap, back) ==
  LET w    == UpdateRdmaWindow(tp)
      drop == DropPermil(w.max, w.average)
      st   == DetermineNetcasMode(tp, iops, drop, Elapsed(gap, back))
      pol  == RatioPolicy(st, drop)
  IN  /\ rdma_throughput_window' = w.window
      /\ rdma_window_index' = w.index
      /\ rdma_window_sum' = w.sum
      /\ rdma_window_count' = w.count
      /\ rdma_window_average' = w.average
      /\ max_average_rdma_throughput' = w.max
      /\ current_mode' = st.mode
      /\ warmup_elapsed' = st.elapsed
      /\ netCAS_initialized' = pol.init
      /\ split_ratio_calculated_in_stable' = pol.calc
      /\ optimal_split_ratio' = pol.ratio
      /\ ratio_written' = pol.wrote

Update ==
  \E tp \in Throughputs, iops \in IopsValues, gap \in Gaps, back \in ClockSteps :
    UpdateSplitRatio(tp, iops, gap, back)

(* netcas_splitter_init: the state after module initialisation. *)
EstimatorInit ==
  /\ optimal_split_ratio = SPLIT_RATIO_MAX
  /\ current_mode = NETCAS_MODE_IDLE
  /\ warmup_elapsed = 0
  /\ netCAS_initialized = FALSE
  /\ split_ratio_calculated_in_stable = FALSE
  /\ rdma_throughput_window = [i \in Slots |-> 0]
  /\ rdma_window_index = 0 /\ rdma_window_sum = 0 /\ rdma_window_count = 0
  /\ rdma_window_average = 0 /\ max_average_rdma_throughput = 0
  /\ ratio_written = FALSE

(* The estimator half of netcas_reset_splitter, ratio write included. *)
ResetEstimator ==
  /\ optimal_split_ratio' = SPLIT_RATIO_MAX
  /\ current_mode' = NETCAS_MODE_IDLE
  /\ warmup_elapsed' = 0
  /\ netCAS_initialized' = FALSE
  /\ split_ratio_calculated_in_stable' = FALSE
  /\ rdma_throughput_window' = [i \in Slots |-> 0]
  /\ rdma_window_index' = 0 /\ rdma_window_sum' = 0 /\ rdma_window_count' = 0
  /\ rdma_window_average' = 0 /\ max_average_rdma_throughput' = 0
  /\ ratio_written' = TRUE

EstimatorTypeOK ==
  /\ optimal_split_ratio \in 0..SPLIT_RATIO_MAX
  /\ current_mode \in Modes
  /\ warmup_elapsed \in 0..WARMUP_PERIOD
  /\ netCAS_initialized \in BOOLEAN
  /\ split_ratio_calculated_in_stable \in BOOLEAN
  /\ rdma_throughput_window \in [Slots -> Throughputs \cup {0}]
  /\ rdma_window_index \in Slots
  /\ rdma_window_count \in 0..RDMA_WINDOW_SIZE
  /\ rdma_window_sum \in Nat /\ rdma_window_average \in Nat
  /\ max_average_rdma_throughput \in Nat
  /\ ratio_written \in BOOLEAN

(* The drop the next policy decision would see for the current window. *)
CurrentDrop == DropPermil(max_average_rdma_throughput, rdma_window_average)

=============================================================================
