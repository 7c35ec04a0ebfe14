# TLA+ models of the netCAS adaptive request splitter

This directory holds TLA+ models of the netCAS splitter, checked with TLC. The
splitter is in `src/open-cas-linux-ours/ocf/src/engine/netcas_splitter.c`. It
decides, for each read hit of the Open CAS fast path, whether the hit goes to
the local cache device or to the RDMA-attached backend. It also runs the
estimator that picks the ratio of that split.

## 1. The system

| Part (spec §2) | Source | State | Operations |
|---|---|---|---|
| C1 Bandwidth profile | `src/open-cas-linux/ocf/src/utils/pmem_nvme/pmem_nvme_table.h` | a constant 6×6×21 table | `lookup_bandwidth`, the index helpers |
| C2 RDMA observer | `netcas_splitter.c` 68-101 | `rdma_throughput_window[]`, index, sum, count, average, `max_average_rdma_throughput` | `update_rdma_window` |
| C3 IOPS observer | `netCAS_monitor.h` (declarations only) | n/a | `measure_performance` |
| C4 Mode and ratio estimator | `netcas_splitter.c` 131-240, 398-484 | `current_mode`, `last_nonzero_transition_time`, `netCAS_initialized`, `split_ratio_calculated_in_stable`, `optimal_split_ratio` | `netcas_update_split_ratio`, `determine_netcas_mode`, `find_best_split_ratio` |
| C5 Dispatch scheduler | `netcas_splitter.c` 28-39, 245-393 | request counter, quotas, pattern, window counts | `netcas_should_send_to_backend`, `initialize_split_pattern` |
| Lifecycle | `netcas_splitter.c` 106-129, 489-524 | everything | `netcas_splitter_init`, `netcas_reset_splitter` |
| Baseline fast path | `src/open-cas-linux/ocf/src/engine/engine_fast.c` 1-344 | request refcount, `req_remaining`, `req->error` | `ocf_read_fast`, `_ocf_read_fast_do`, `_ocf_read_fast_complete`, `ocf_write_fast` |
| RDMA metrics producer | `rdma_metrics.c`, `rdma_metrics.h` | `rdma_metrics_dir`, `current_metrics` (which nothing writes) | `rdma_metrics_init`, `rdma_metrics_cleanup`, the procfs open/show/release, `rdma_metrics_get` |
| POSIX env | `src/open-cas-linux-ours/ocf/env/posix/ocf_env.h` | n/a | `env_get_tick_count` returns microseconds (600-605); `env_atomic_add_unless` and `env_atomic_dec_return` implement reference counts (371-452) |

**How the parts interact.** The engine calls `netcas_update_split_ratio` on a
throttled cadence. That call samples C3 and the RDMA counters, feeds C2 and
runs the mode machine of C4. In every mode but Idle and Failure it then
computes a ratio from C1 and publishes it. The engine separately calls
`netcas_should_send_to_backend` once per request, and that call reads the
ratio. The ratio is one 64-bit word. The estimator assigns it without the
lock (lines 444, 456, 471) and assigns it again under the write lock
(`split_set_optimal_ratio`, 186-191). The hot path reads it with no lock at
all (line 310). The dispatch statics are shared by every caller of the hot
path with no lock.

**Hard behaviours.**
- Ratio changes can land in the middle of a dispatch window. The quotas and
  pattern come from the ratio seen at the window start, while the expected
  counts use the ratio seen on each call.
- `request_counter` is `uint32_t` and wraps. Since 2^32 mod 100 = 96, the
  window that crosses the wrap is 96 requests long.
- The quotas are `uint32_t` and are decremented with no zero check.
- Misses count in `total_requests`.
- The running maximum of the RDMA average never decays.
- The warmup clock compares a tick count in µs with a constant in ns, and
  the tick count is gettimeofday, a wall clock that may step back.
- The Stable latch `split_ratio_calculated_in_stable` is set on the way *out*
  of Stable.

## 2. Modules

| Module | Models | State (VARIABLES) | Actions |
|---|---|---|---|
| `BandwidthProfile` | C1 plus `calculate_split_ratio_formula`, `find_best_split_ratio` and `calculate_combined_iops` | none (pure operators) | n/a |
| `SplitPattern` | `calculate_gcd` and `initialize_split_pattern` of C5 | none (pure operators) | n/a |
| `ProfileCheck` | the pure algorithms over their input domains, and `find_best_split_ratio` of the profile test program `test_lookup.c` (`TestSearch`, recursive) | the fingerprint `io_depth`, `numjob` and the swept `drop` | `Next` advances the drop by one |
| `Dispatch` | C5 | the eleven dispatch statics of lines 29-39 and `optimal_split_ratio` | `ShouldSendToBackend(miss)` (one whole call, including `initialize_split_pattern` at a window boundary), `ResetDispatch` |
| `DispatchRace` | C5 called by concurrent hot-path threads | the dispatch statics, plus per thread its program point and the values it loaded | `Enter(t)` (ratio read, window re-initialisation, load of `request_counter` and `total_requests`), `Count(t)` (their stores; a miss returns), `Choose(t)` (the decision on the shared counts and the load of the chosen count and quota), `Charge(t)` (their stores) |
| `MCDispatch` | C5 next to the estimator's writes | plus history `held` | `Request`, `Publish` (`split_set_optimal_ratio` with a ratio the estimator can compute), `Reset` |
| `Estimator` | C2 and C4 | the estimator statics of lines 61-74, with `warmup_elapsed` in place of the timestamp, plus history `ratio_written` | `UpdateSplitRatio(tp, iops, gap, back)` (one whole `netcas_update_split_ratio`: window, drop, mode, policy), `ResetEstimator` |
| `MCEstimator` | the estimator under ticks and resets | plus history `stable_writes`, `last_tp` (the last measured throughput) and `real_elapsed` (real time since Warmup began) | `Tick`, `Reset` |
| `EstimatorAbstract` | what C4 promises (spec §4.4) | `mode`, `ratio` | `GoIdle` (an Idle tick or a reset), `Warmup`, `EnterStable`, `StayStable`, `Congest` |
| `FastPath` | one request on the baseline fast path, `engine_fast.c` 31-344 | `ref_count`, `lock_held`, `req_remaining`, `req_error`, the program point of the submitter and of the resume worker, each sub-IO completion's point, loaded value and error, the hand-off to PT/WB, `completions` | `ReadFast` (`ocf_read_fast`), `WriteFast` (`ocf_write_fast`), both ending in `OnLockResult` (the branch on the lock result), `Grant` (lock granted later, resume queued), `Do(t)` (`_ocf_read_fast_do` or `ocf_write_wb_do`), `DoPut(t)`, `Put`, `SubLoad(i)`/`SubStore(i)` (the two halves of `req->error \|= error`), `SubDec(i)` (the atomic decrement and, for the last one, the finish), `DelegateComplete`, `Fallback` |
| `RdmaMetrics` | the RDMA metrics procfs producer | `loaded`, the procfs tree `proc` = [dir, entry, leaked], each reader's state, the last reading and `get` result | `Load` (module load running `rdma_metrics_init`, where `proc_mkdir` and `proc_create` may each fail), `Unload` (`rdma_metrics_cleanup`), `Open(r)`, `Read(r)`, `Show(r)` (`rdma_metrics_proc_show`), `Release(r)`, `Get` (`rdma_metrics_get` with a NULL or valid pointer) |
| `EnvAtomic` | the reference-count operations of the POSIX environment, `ocf_env.h` 371-452 | `counter`, which threads hold a reference, and per thread the program point and the value `c` loaded by `env_atomic_add_unless` | `Put(t)` (`env_atomic_dec_return`), `AddUnlessRead(t)` (the first `env_atomic_read`), `AddUnlessTest(t)` (the `c == u` early return), `AddUnlessCas(t)` (`env_atomic_cmpxchg`, with the retry reloading `c` on failure) |

**Correspondence with the code.**
- Each action is one whole C function. Its guards are the function's `if`s.
- `Dispatch!Decide` is the if/else chain of lines 335-372. It returns the
  decision and whether the pattern cursor moves.
- `Estimator!DetermineNetcasMode` is lines 134-181, written as a CASE over the
  same branches. `Estimator!RatioPolicy` is the `switch` of 427-483.
- Time is abstracted to `warmup_elapsed = curr_time - last_nonzero_transition_time`,
  in ticks of 1 ms, which saturates at `WARMUP_PERIOD`. Each update advances
  it by a gap drawn from `Gaps` (the code's 100 ms cadence). When `back` is
  chosen (from `ClockSteps`), gettimeofday has stepped back past the start of
  warmup, and the unsigned difference wraps to at least `WARMUP_PERIOD`.
- Throughput and IOPS are drawn from small sets on either side of
  `RDMA_THRESHOLD` and `IOPS_THRESHOLD`. This stands in for
  `measure_performance`, which is not in the repository.
- The bandwidth table is carried over verbatim, so ratios are exact. The
  estimator can publish 4897 (no drop), 5000, 7002 and so on, and never less
  than 4897.
- In `DispatchRace` every `x++` / `x--` of a static is a load into a
  thread-local and a later store, as the compiled code does. Threads may
  interleave at each of those points. `initialize_split_pattern` stays one
  step: splitting it too only adds interleavings to the same lost updates.
- `MCEstimator` instantiates `EstimatorAbstract` with the refinement mapping
  `mode <- current_mode`, `ratio <- optimal_split_ratio`; the abstract
  Warmup ratio is `find_best_split_ratio` at drop 0 and its profile ratios
  are the values it takes over drops 0..1000.
- `RdmaMetrics` assumes the kernel's procfs semantics: registering an
  existing name fails, removing a directory that still has a child leaks
  the child, and `remove_proc_entry` waits for reads in progress and closes
  the files still open.
- `uint32` counters keep their wrap. `COUNTER_MOD = 196` has the same residue
  mod 100 as 2^32, so the short window at the wrap happens within the bound.

## 3. Runs

| Run | Config | Expect | What it shows |
|---|---|---|---|
| `dispatch_window` | `MCDispatch.cfg` | pass | `HitsTrackRatio`: while the ratio holds, hits never exceed their share of `total_requests`, and a miss-free window hits it exactly. `FallbackNeverDecides`: the pattern and quota branches (349-371) never run. So the uint32 quota wrap cannot affect a decision, even across ratio changes, resets and the counter wrap. |
| `dispatch_misses_split` | `MCDispatchMisses.cfg` | violation | `MissesLeaveHitSplit` (spec scenario 6): with ratio 7002 and 10 misses, the hits split 70:20, not 63:27. |
| `dispatch_pattern_order` | `MCDispatchPattern.cfg` | violation | `FirstHitFollowsPattern` (spec scenario 5): the first hit of a window goes to the backend. |
| `dispatch_race` | `DispatchRace.cfg` | violation | `HitsWithinTotal` (spec §3 and §5): two threads both load `total_requests = 0`, one increment is lost, and the window ends with 2 hits against a total of 1. |
| `estimator_modes` | `MCEstimator.cfg` | pass | The ring stays consistent. The drop stays in 0..1000. Idle republishes 100% cache. Stable writes at most once per stay. Warmup always ends (liveness under weak fairness of ticks). `CongestionRecovers`: once every tick measures the peak throughput again, Congestion is left for good, despite the never-decaying maximum. `EstimatorRefinesAbstract`: the estimator implements `EstimatorAbstract`, fairness included. All of this holds also with ticks that see the wall clock step back. |
| `estimator_warmup_time` | `MCEstimatorWarmup.cfg` | violation | `WarmupEndsOnTime`: with the code's constant read in µs, Warmup lasts 3000 s. |
| `fastpath_lifecycle` | `MCFastPath.cfg` | pass | Over every interleaving of submitter, resume worker and two concurrent completions: the last reference drops only when nothing touches the request again; `req->complete` runs exactly once and the lock is released first; a failed sub-IO is never completed from the cache despite the non-atomic `\|=`; every request is eventually completed and freed. |
| `estimator_profile_ratio` | `MCEstimatorProfile.cfg` | violation | `StableRatioMatchesProfile` (spec scenario 2): the code's table row gives 4897, not 6910. |
| `estimator_clock_step` | `MCEstimatorClock.cfg` | violation | `WarmupNotCutShort` (spec §7, clock anomaly, and scenario 2): the wall clock steps back one tick after Idle -> Warmup, the uint64 difference wraps, and the next tick enters Stable after 100 ms of warmup. |
| `rdma_metrics_lifecycle` | `MCRdmaMetrics.cfg` | pass | `ProcRegisteredIffLoaded`: over loads whose `proc_mkdir` or `proc_create` fail, unloads and three readers, the proc tree exists exactly while the module is loaded, nothing leaks, and no reader holds a removed file. |
| `env_atomic_refcount` | `MCEnvAtomic.cfg` | pass | `NoRevival`: with three threads taking references through `env_atomic_add_unless(a, 1, 0)` while the holder drops its own, a counter that has reached zero never goes back up; the retry after a failed compare-and-swap tests the fresh value again. |
| `profile_check` | `MCProfileCheck.cfg` | pass | For all 36 fingerprints and drops 0..1000: `MoreDropMoreCache` (a larger drop never lowers the ratio), `PatternIsReducedRatio` (the pattern of each ratio the estimator can publish is that ratio in lowest terms, with `calculate_gcd` checked against a reference gcd), `CombinedIopsIsMaxSustainable` (`calculate_combined_iops` is the largest total both devices sustain), `TestBestSplitIsFirstMaximum` (the test program reports the table's best bandwidth and the least grid split reaching it, 100% included), `LookupNeverStrays` (`lookup_bandwidth` reads data for every percentage, and for any split from -10 to 110 it reads either no data or the column of a grid split less than one step away). |

The findings these violations record are listed in `PROJECT.json`. Every
property of a passing run also has a mutant. A mutant is a plausible bug in
the mapped definition (a `<=` for `<`, a stale total, a missing wrap, a missing
flag clear, a maximum compared with the previous average), and TLC must report the property
violated under it.

**Bounds.**
- `WINDOW_SIZE = 100` and `MAX_PATTERN_SIZE = 10` are the code's values, so
  whole windows are explored.
- `COUNTER_MOD = 196` reaches one counter wrap with the real short window.
- The published ratios are 10000 and 7002, the estimator's ratio at a drop of
  589 per mille. These give an all-cache pattern and a skewed one whose
  expected counts have remainders. With 4897 (no drop) added as well, the
  run takes close to 4 minutes, three times as many states, and the same
  branches fire.
- The estimator uses a window of 3 rather than 20. That is enough to fill the
  ring, evict and wrap. It uses throughputs {0, 800, 1000}, which cover idle,
  a 20% drop (congestion) and recovery, and IOPS {0, 2000}.
- `WARMUP_PERIOD = 300` ticks with a 100 ms gap keeps warmup several ticks
  long. The warmup run uses the code's value, 3,000,000 ms, and so does the
  clock-step run. One backward step is enough: once it passes the start of
  warmup, its size does not matter.

- `FastPath` uses two sub-IOs, which is enough for two completions to
  interleave inside the `|=` and on the decrement. It uses error masks
  {0, 1, 2}, so two failures with different bits can overwrite each other. It
  has both directions and all four lock outcomes. `SPLIT_RATIO = 50` stands
  for a build with a nonzero ratio. With the shipped value 0 the copy of the
  scheduler in `_ocf_read_fast_do` sends every hit to pass-through, and the
  cache branch 177-204 is dead code.

- `DispatchRace` uses two threads and a fixed ratio of 7002. The lost
  update needs only two threads and two requests.
- `RdmaMetrics` uses three readers, so reads, opens and an unload
  interleave. Each load chooses both allocation outcomes.
- `EnvAtomic` uses three threads and one initial holder. One taker's
  compare-and-swap can then fail under the holder's decrement, and two
  takers can race each other.
- `ProfileCheck` covers every fingerprint of the table and every drop the
  estimator can compute. `calculate_combined_iops` takes the fingerprint's
  cache-only and backend-only bandwidths as its two devices, and the split
  `drop / 9` runs over 0..111, which exercises the clamp above 100.
  `LookupNeverStrays` asks for splits -10..110. That range holds every
  off-grid percentage, the splits just past each end that the bounds check
  admits (101..104 and -4..-1), and the first ones it rejects.

**Fairness.** `MCEstimator` assumes weak fairness of `Tick`. The engine calls
`netcas_update_split_ratio` from its request path, and the spec says every
100 ms. Nothing else is assumed: `Reset` and dispatch carry no fairness.
`FastPath` assumes weak fairness of its whole next-state relation. Sub-IOs
complete, a granted lock's resume is run by a queue worker, and the
pass-through and write-back engines complete. Every path of one request is
finite, so this yields termination.

## 4. Not modelled

- **C3 IOPS observer and `measure_performance`.** Only the header is present,
  so its outputs are inputs of the update action.
- **Failure mode.** No transition leads to it, so only its policy (keep the
  ratio) is modelled.
- **The values the RDMA metrics producer reports.** `current_metrics` is
  never assigned, so every reading is zero. Only the registration
  lifecycle is a state machine.
- **`lookup_bandwidth` off the grid, against spec §4.1.** `get_split_ratio_index`
  truncates, so an off-grid split reads the column of the next grid split
  up, and 101..104 read the 100% column. Spec §4.1 says index 0 instead.
  `LookupNeverStrays` checks what the code does. No caller passes anything
  but 0 and 100, so the divergence is latent and has no violation run.
- **`calculate_combined_iops` with splits above 111 and IOPS beyond the
  table.** The sweep uses the table's bandwidths.
- **The callers of `env_atomic_add_unless`.** They are in OCF code that
  is not under `src/`, so `EnvAtomic` checks the primitive on its own.
- **The printing of `test_lookup.c`.** Its search loop is modelled, and
  the rest of `main` prints.
- **Spec §9, pattern size at 0% and 100%.** `calculate_gcd` returns 1 when
  an argument is 0, so these ratios get a 10-slot pattern, not one slot.
  The pattern branch never decides a hit (`FallbackNeverDecides`), so the
  divergence is latent and has no run of its own.
- **`engine_fast.c` after line 348.** That part of the file is an older
  netCAS fast path that is commented out line by line. It is not compiled.
- **The cache-line lock (`ocf_req_async_lock_rd`/`_wr`).** Its
  implementation is outside `src/`. With two requests on one line, a model
  would check only an invented lock. `FastPath` instead lets the grant come
  at any time.
- **Concurrent estimator ticks, and a reset during dispatch.**
  `netcas_update_split_ratio` and `netcas_reset_splitter` take no lock. Their
  callers are not in the repository, and spec §5 runs the control path one
  tick at a time, so each tick and each reset is one step. A reset racing
  the hot path's unlocked load and store is the lost update that
  `DispatchRace` already shows.
- **The rest of the POSIX environment.** The mutexes, rwsem, rwlock,
  spinlock, completion, `env_atomic64` and `env_bit_*` helpers have no caller
  under `src/`. Each one wraps a single pthread, semaphore or `__sync` call.
  A model of them would check pthread, not this code.
- **Concurrent dispatch next to a ratio change.** `DispatchRace` holds
  the ratio fixed, because the lost update does not need a ratio change.
- **In `engine_fast.c`, the scheduler copy's counters.** The route is reduced
  to the set the constant allows.
- **The engines the fast path hands requests to.** `ocf_read_pt_do`,
  `ocf_write_wb_do` and the caller's slow path are outside `src/`. Each is
  modelled as one completion that unlocks, completes and puts.

## 5. Plan for later work

1. A composition `Splitter` of `Estimator` and `Dispatch` sharing
   `optimal_split_ratio`. `MCDispatch` already lets the ratio change to any
   value the estimator can publish, at any moment, so this would mainly add
   the estimator's timing.
