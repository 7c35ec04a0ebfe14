----------------------------- MODULE MCDispatch -----------------------------
(***************************************************************************)
(* The dispatch scheduler driven by a stream of hot-path requests (hits   *)
(* and misses), by the estimator publishing new ratios at any moment, and *)
(* by netcas_reset_splitter.  The ratios published are the ones the       *)
(* estimator can compute for the compiled workload fingerprint.           *)
(***************************************************************************)
EXTENDS Dispatch, BandwidthProfile

CONSTANTS
  IO_DEPTH, NUM_JOBS,  \* workload fingerprint (16, 1 in the code)
  DropSamples,         \* drops (per mille) whose ratios the estimator publishes
  MissOutcomes         \* the values ocf_engine_is_miss may return

(***************************************************************************)
(* held: the ratio has not changed since the current window's pattern was *)
(* initialised (a history variable; no counterpart in the code).          *)
(***************************************************************************)
VARIABLE held

vars == <<optimal_split_ratio, dispatch_vars, held>>

PublishedRatios ==
  {SPLIT_RATIO_MAX} \cup {FindBestSplitRatio(IO_DEPTH, NUM_JOBS, d) : d \in DropSamples}

Init ==
  /\ DispatchZero
  /\ optimal_split_ratio \in PublishedRatios
  /\ held = TRUE

Request ==
  /\ \E miss \in MissOutcomes : ShouldSendToBackend(miss)
  /\ held' = (WindowBoundary \/ held)

(* The estimator's write of a new ratio (split_set_optimal_ratio). *)
Publish ==
  /\ \E r \in PublishedRatios \ {optimal_split_ratio} : optimal_split_ratio' = r
  /\ held' = FALSE
  /\ UNCHANGED dispatch_vars

(* netcas_reset_splitter, dispatch half plus the ratio write. *)
Reset ==
  /\ ResetDispatch
  /\ optimal_split_ratio' = SPLIT_RATIO_MAX
  /\ held' = FALSE

Next == Request \/ Publish \/ Reset

Spec == Init /\ [][Next]_vars

TypeOK == DispatchTypeOK /\ held \in BOOLEAN

(***************************************************************************)
(* Hits track the ratio (the P2 window guarantee).  While the ratio has   *)
(* been held since the window began, netcas_should_send_to_backend never  *)
(* sends more hits to a side than total_requests * ratio% / 100 allows    *)
(* (resp. the rest), and with no miss in the window the cache count is    *)
(* exactly that share, so a complete window of 100 hits ends with         *)
(* ratio% of them on the cache.                                           *)
(***************************************************************************)
HitsTrackRatio ==
  held =>
    LET ec == ExpectedCache(total_requests, RatioPercent(optimal_split_ratio))
    IN  /\ cache_requests <= ec
        /\ backend_requests <= total_requests - ec
        /\ (WindowMisses = 0 => cache_requests = ec)

(***************************************************************************)
(* The deficit tests always decide: whatever the misses, ratio changes    *)
(* and counter wrap, a hit never reaches the pattern branch (so the       *)
(* pattern cursor stays at 0) nor the quota tie-break behind it.  Hence   *)
(* the uint32 quota wrap-around cannot influence a decision.               *)
(***************************************************************************)
FallbackNeverDecides == pattern_position = 0

(***************************************************************************)
(* Spec scenario 6: with a held ratio, the hits of a full window are      *)
(* split by the ratio within one request, whatever the misses (70% of 80  *)
(* hits = 56 to cache).  The code counts misses in total_requests.        *)
(***************************************************************************)
MissesLeaveHitSplit ==
  (held /\ total_requests = WINDOW_SIZE) =>
    LET hits == cache_requests + backend_requests
        pct  == RatioPercent(optimal_split_ratio)
    IN  100 * cache_requests - pct * hits \in -100..100

(***************************************************************************)
(* Spec scenario 5: the first hit of a window follows the short pattern,  *)
(* whose first pattern_cache slots are cache ([cache, backend] at 50%).   *)
(***************************************************************************)
FirstHitFollowsPattern ==
  (held /\ total_requests = 1 /\ WindowMisses = 0) =>
    last_request_to_cache = (pattern_cache > 0)

=============================================================================
