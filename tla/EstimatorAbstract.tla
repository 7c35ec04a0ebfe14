-------------------------- MODULE EstimatorAbstract --------------------------
(***************************************************************************)
(* What the mode and ratio estimator promises its users (spec §4.4): the  *)
(* mode moves only along the transitions of the state machine, and the   *)
(* published split ratio is the one the per-mode policy prescribes.      *)
(*   - every Idle tick, and netcas_reset_splitter, leave the ratio at    *)
(*     100% cache;                                                         *)
(*   - Warmup publishes the un-congested profile ratio;                    *)
(*   - entering Stable computes one profile ratio, which Stable keeps;     *)
(*   - Congestion publishes a profile ratio every tick;                    *)
(*   - Warmup does not last forever while the estimator keeps ticking.    *)
(* The measurements, the RDMA window and the flags are hidden.            *)
(***************************************************************************)
CONSTANTS
  MaxRatio,        \* 100% cache (10000)
  WarmupRatio,     \* the profile ratio at drop 0
  ProfileRatios    \* the profile ratios over every drop in 0..1000

VARIABLES mode, ratio

avars == <<mode, ratio>>

Init == mode = "idle" /\ ratio = MaxRatio

GoIdle == mode' = "idle" /\ ratio' = MaxRatio

Warmup == mode \in {"idle", "warmup"} /\ mode' = "warmup" /\ ratio' = WarmupRatio

EnterStable ==
  /\ mode \in {"warmup", "congestion"}
  /\ mode' = "stable"
  /\ ratio' \in ProfileRatios

StayStable == mode = "stable" /\ mode' = "stable" /\ ratio' = ratio

Congest ==
  /\ mode \in {"stable", "congestion"}
  /\ mode' = "congestion"
  /\ ratio' \in ProfileRatios

Next == GoIdle \/ Warmup \/ EnterStable \/ StayStable \/ Congest

LeaveWarmup == mode = "warmup" /\ (GoIdle \/ EnterStable)

Spec == Init /\ [][Next]_avars /\ WF_avars(LeaveWarmup)

=============================================================================
