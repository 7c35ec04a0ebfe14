----------------------------- MODULE MCEstimator -----------------------------
(***************************************************************************)
(* The estimator driven by update ticks with measurements drawn from      *)
(* small sets, and by netcas_reset_splitter.                               *)
(***************************************************************************)
EXTENDS Estimator, FiniteSetsExt

(***************************************************************************)
(* stable_writes: ratio writes since the current Stable period began      *)
(* (a history variable for P7; 0 outside Stable, saturating at 2).        *)
(***************************************************************************)
VARIABLE stable_writes

VARIABLE last_tp   \* history: the throughput measured by the last tick

(***************************************************************************)
(* real_elapsed: history, the real time (the sum of the gaps, whatever    *)
(* the wall clock did) since the current Warmup period began, as of the   *)
(* latest tick; 0 when that tick did not start in Warmup.                 *)
(***************************************************************************)
VARIABLE real_elapsed

vars == <<optimal_split_ratio, estimator_vars, stable_writes, last_tp, real_elapsed>>

Init == EstimatorInit /\ stable_writes = 0 /\ last_tp = 0 /\ real_elapsed = 0

CountStableWrites ==
  stable_writes' =
    IF current_mode' = NETCAS_MODE_STABLE
      THEN LET before == IF current_mode = NETCAS_MODE_STABLE THEN stable_writes ELSE 0
           IN  IF ratio_written' /\ before < 2 THEN before + 1 ELSE before
      ELSE 0

Tick ==
  /\ \E tp \in Throughputs, iops \in IopsValues, gap \in Gaps, back \in ClockSteps :
       /\ UpdateSplitRatio(tp, iops, gap, back)
       /\ last_tp' = tp
       /\ real_elapsed' =
            IF current_mode = NETCAS_MODE_WARMUP
              THEN IF real_elapsed + gap >= WARMUP_PERIOD THEN WARMUP_PERIOD
                                                         ELSE real_elapsed + gap
              ELSE 0
  /\ CountStableWrites

Reset == ResetEstimator /\ CountStableWrites /\ UNCHANGED last_tp /\ real_elapsed' = 0

Next == Tick \/ Reset

(* The control path is driven by a timer or by request arrivals. *)
Spec == Init /\ [][Next]_vars /\ WF_vars(Tick)

TypeOK ==
  /\ EstimatorTypeOK /\ stable_writes \in 0..2 /\ last_tp \in Throughputs \cup {0}
  /\ real_elapsed \in 0..WARMUP_PERIOD

(***************************************************************************)
(* The ring buffer of update_rdma_window stays consistent: the running    *)
(* sum is the sum of the slots, count never exceeds the window, and the   *)
(* average is sum / count.                                                  *)
(***************************************************************************)
RECURSIVE SlotSum(_)
SlotSum(S) == IF S = {} THEN 0
              ELSE LET i == CHOOSE i \in S : TRUE
                   IN  rdma_throughput_window[i] + SlotSum(S \ {i})

RdmaWindowConsistent ==
  /\ rdma_window_sum = SlotSum(Slots)
  /\ rdma_window_count > 0 => rdma_window_average = rdma_window_sum \div rdma_window_count

(***************************************************************************)
(* P5: the running maximum always covers the current average, so the drop *)
(* computed by netcas_update_split_ratio (an unsigned subtraction) stays  *)
(* within 0..1000 per mille.                                               *)
(***************************************************************************)
DropWithinBounds ==
  /\ max_average_rdma_throughput >= rdma_window_average
  /\ CurrentDrop \in 0..1000

(***************************************************************************)
(* Idle means all hits to cache: once an Idle tick has run (netCAS_       *)
(* initialized), the published ratio is SPLIT_RATIO_MAX for as long as    *)
(* the mode stays Idle, whatever ratio Warmup, Stable or Congestion left. *)
(***************************************************************************)
IdleMeansAllCache ==
  (current_mode = NETCAS_MODE_IDLE /\ netCAS_initialized) =>
    optimal_split_ratio = SPLIT_RATIO_MAX

(***************************************************************************)
(* P7: between entering Stable and leaving it, the ratio is written at    *)
(* most once, whether Stable was entered from Warmup or from Congestion.  *)
(***************************************************************************)
StableWritesOnce == stable_writes <= 1

(***************************************************************************)
MaxAverageNeverDecreases ==
  [][max_average_rdma_throughput' >= max_average_rdma_throughput
     \/ rdma_window_count' = 0]_vars

(***************************************************************************)
(* Warmup ends: under continuing update ticks, a Warmup period is always  *)
(* left (for Stable after WARMUP_PERIOD, or for Idle when traffic stops). *)
(***************************************************************************)
WarmupEnds ==
  (current_mode = NETCAS_MODE_WARMUP) ~> (current_mode # NETCAS_MODE_WARMUP)

(***************************************************************************)
(* Spec scenario 2, timing: warmup lasts WARMUP_PERIOD = 3 s; a tick at   *)
(* t >= 3 s after warmup began moves the mode to Stable.                  *)
(***************************************************************************)
SPEC_WARMUP_MS == 3000

WarmupEndsOnTime ==
  current_mode = NETCAS_MODE_WARMUP => warmup_elapsed < SPEC_WARMUP_MS

(***************************************************************************)
(* Spec scenario 2 and §7 (clock anomaly): warmup is never cut short;     *)
(* determine_netcas_mode moves Warmup to Stable only once WARMUP_PERIOD   *)
(* of real time has passed since Idle -> Warmup, even when the wall clock *)
(* behind env_get_tick_count() steps back in between.                      *)
(***************************************************************************)
WarmupNotCutShort ==
  [][(current_mode = NETCAS_MODE_WARMUP /\ current_mode' = NETCAS_MODE_STABLE)
       => real_elapsed' >= WARMUP_PERIOD]_vars

(***************************************************************************)
(* Spec scenario 2, ratio: on Stable entry with no drop, the ratio comes   *)
(* from the profile entries (16,1,100) = 77575 and (16,1,0) = 34698, i.e. *)
(* floor(77575 * 10000 / (77575 + 34698)) = 6910.                          *)
(***************************************************************************)
StableRatioMatchesProfile ==
  (current_mode = NETCAS_MODE_STABLE /\ CurrentDrop = 0) =>
    optimal_split_ratio = 6910

PeakThroughput == Max(Throughputs)

(***************************************************************************)
(* max_average_rdma_throughput is an all-time maximum that never decays   *)
(* (update_rdma_window, line 97), so a drop computed against it stays    *)
(* high after a peak.  Still, once every tick measures the peak           *)
(* throughput again, the window refills, the drop falls to 0 and the      *)
(* estimator leaves Congestion for good: Congestion is not a trap for a   *)
(* link that recovers.                                                      *)
(***************************************************************************)
CongestionRecovers ==
  <>[](last_tp = PeakThroughput) =>
    <>[](current_mode # NETCAS_MODE_CONGESTION)

(* Every ratio find_best_split_ratio can return for this fingerprint. *)
ProfileRatioSet == {BestRatio(d) : d \in 0..1000}

Abs == INSTANCE EstimatorAbstract
         WITH mode <- current_mode,
              ratio <- optimal_split_ratio,
              MaxRatio <- SPLIT_RATIO_MAX,
              WarmupRatio <- BestRatio(0),
              ProfileRatios <- ProfileRatioSet

(***************************************************************************)
(* netcas_update_split_ratio and netcas_reset_splitter, over every        *)
(* sequence of measurements, only take the steps of the abstract          *)
(* estimator: each Idle tick and each reset publishes 100% cache (the     *)
(* netCAS_initialized latch is cleared on Idle -> Warmup), Warmup ticks   *)
(* publish the drop-0 ratio, Stable writes once on entry and then keeps   *)
(* its ratio, and Warmup is always left while ticks continue.             *)
(***************************************************************************)
EstimatorRefinesAbstract == Abs!Spec

=============================================================================
