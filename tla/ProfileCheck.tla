----------------------------- MODULE ProfileCheck -----------------------------
(***************************************************************************)
(* The pure algorithms of the splitter over their input domains: for      *)
(* every workload fingerprint of the bandwidth profile the RDMA drop is   *)
(* swept from 0 to 1000 per mille, one step at a time, and each step      *)
(* checks                                                                  *)
(*   - find_best_split_ratio at that drop (netcas_splitter.c),            *)
(*   - initialize_split_pattern / calculate_gcd on the ratio it returns,  *)
(*   - calculate_combined_iops (pmem_nvme_table.h) on the fingerprint's   *)
(*     cache-only and backend-only bandwidths, with the sweep's counter   *)
(*     also serving as the split percentage, drop \div 9 in 0..111,       *)
(*   - the best-split search of the profile test program (test_lookup.c)  *)
(*     on the fingerprint.                                                 *)
(***************************************************************************)
EXTENDS BandwidthProfile, SplitPattern, FiniteSetsExt

CONSTANTS
  IoDepths,   \* io_depth values of the profile
  NumJobs,    \* numjob values of the profile
  MAX_DROP    \* 1000 per mille: the largest drop DropPermil returns

VARIABLES io_depth, numjob, drop

vars == <<io_depth, numjob, drop>>

Init == io_depth \in IoDepths /\ numjob \in NumJobs /\ drop = 0

(* The sweep ends at MAX_DROP. *)
Next == drop < MAX_DROP /\ drop' = drop + 1 /\ UNCHANGED <<io_depth, numjob>>

Spec == Init /\ [][Next]_vars

(* The ratio the estimator would publish at this step. *)
Ratio == FindBestSplitRatio(io_depth, numjob, drop)

(***************************************************************************)
(* Spec §4.4 rationale: Congestion derates the backend bandwidth B by the *)
(* observed drop, "steering more traffic to cache".  For every            *)
(* fingerprint, a larger drop never gives find_best_split_ratio a smaller *)
(* cache share, despite the integer truncations of the derating and of   *)
(* calculate_split_ratio_formula (whose division is evaluated, and so     *)
(* found defined, at every step).                                           *)
(***************************************************************************)
MoreDropMoreCache ==
  [][FindBestSplitRatio(io_depth, numjob, drop') >= Ratio]_vars

(* Reference: the greatest common divisor, as the largest common divisor. *)
GcdRef(a, b) == Max({d \in 1..WINDOW_SIZE : a % d = 0 /\ b % d = 0})

(***************************************************************************)
(* The short pattern of a published ratio is that ratio reduced to lowest *)
(* terms (spec §3): for a percentage p strictly between 0 and 100 whose   *)
(* reduced period 100 / gcd(p, 100 - p) fits in MAX_PATTERN_SIZE, the     *)
(* pattern sends exactly p% of its slots to the cache and no shorter      *)
(* prefix of it does; otherwise the pattern has the capped size.  This    *)
(* checks Euclid's loop of calculate_gcd and initialize_split_pattern.    *)
(***************************************************************************)
PatternIsReducedRatio ==
  LET p == RatioPercent(Ratio)
      s == InitializeSplitPattern(Ratio)
  IN  0 < p /\ p < WINDOW_SIZE =>
        IF WINDOW_SIZE \div GcdRef(p, WINDOW_SIZE - p) <= MAX_PATTERN_SIZE
          THEN /\ s.pattern_cache * WINDOW_SIZE = p * s.pattern_size
               /\ \A n \in 1..(s.pattern_size - 1) : (n * p) % WINDOW_SIZE # 0
          ELSE s.pattern_size = MAX_PATTERN_SIZE

(* The split percentage of this step for calculate_combined_iops. *)
Split == drop \div 9

(* A total of t requests with s% on device A is within both capacities. *)
Sustainable(t, a, b, s) ==
  LET sc == IF s > 100 THEN 100 ELSE s
  IN  t * sc <= 100 * a /\ t * (100 - sc) <= 100 * b

(***************************************************************************)
(* calculate_combined_iops returns the largest total both devices sustain *)
(* (reference: that total is sustainable and one more is not): its choice *)
(* of the bottleneck device, its special cases for 0% and 100%, its       *)
(* truncating divisions and its clamp of splits above 100.                 *)
(***************************************************************************)
CombinedIopsIsMaxSustainable ==
  LET a == LookupBandwidth(io_depth, numjob, 100)
      b == LookupBandwidth(io_depth, numjob, 0)
      t == CalculateCombinedIops(a, b, Split)
  IN  Sustainable(t, a, b, Split) /\ ~Sustainable(t + 1, a, b, Split)

-----------------------------------------------------------------------------
(***************************************************************************)
(* find_best_split_ratio of test_lookup.c: splits 0, 5, ..., 100 in       *)
(* turn, keeping the first split whose bandwidth beats the best so far    *)
(* (best_split and best_bandwidth start at 0).  The printing is left out. *)
(***************************************************************************)
RECURSIVE TestSearchShort(_, _, _, _, _)
(* Mutation: the loop stops before split 100. *)
TestSearchShort(io_depth_, num_job, split, best_split, best_bandwidth) ==
  IF split >= 100 THEN [split |-> best_split, bandwidth |-> best_bandwidth]
  ELSE LET bw == LookupBandwidth(io_depth_, num_job, split)
       IN  IF bw > best_bandwidth
             THEN TestSearchShort(io_depth_, num_job, split + 5, split, bw)
             ELSE TestSearchShort(io_depth_, num_job, split + 5, best_split, best_bandwidth)

RECURSIVE TestSearch(_, _, _, _, _)
TestSearch(io_depth_, num_job, split, best_split, best_bandwidth) ==
  IF split > 100 THEN [split |-> best_split, bandwidth |-> best_bandwidth]
  ELSE LET bw == LookupBandwidth(io_depth_, num_job, split)
       IN  IF bw > best_bandwidth
             THEN TestSearch(io_depth_, num_job, split + 5, split, bw)
             ELSE TestSearch(io_depth_, num_job, split + 5, best_split, best_bandwidth)

TestFindBestSplit(io_depth_, num_job) == TestSearch(io_depth_, num_job, 0, 0, 0)

(* Reference: the profile's grid, its best bandwidth, the least split     *)
(* reaching it.                                                            *)
GridSplits == {s \in 0..100 : s % 5 = 0}

BestBandwidthRef == Max({LookupBandwidth(io_depth, numjob, s) : s \in GridSplits})

BestSplitRef ==
  Min({s \in GridSplits : LookupBandwidth(io_depth, numjob, s) = BestBandwidthRef})

(***************************************************************************)
(* The test program reports, for every fingerprint, the profile's highest *)
(* bandwidth and the least split that reaches it: its loop visits every   *)
(* grid split including 100%, and get_split_ratio_index maps each of them *)
(* to its own column of the table.  (Checked once per fingerprint, at the *)
(* start of its sweep: nothing here depends on the drop.)                 *)
(***************************************************************************)
TestBestSplitIsFirstMaximum ==
  drop = 0 =>
    TestFindBestSplit(io_depth, numjob) =
      [split |-> BestSplitRef, bandwidth |-> BestBandwidthRef]

-----------------------------------------------------------------------------
(* The table column of a grid split, indexed without any division. *)
ProfileColumn(g) ==
  pmem_nvme_bw_table[PowerIndex(io_depth) + 1][PowerIndex(numjob) + 1]
                    [(100 - g) \div 5 + 1]

(* Requested splits: the percentages and a step beyond each end. *)
RequestedSplits == -10..110

(***************************************************************************)
(* lookup_bandwidth takes any int split, computes its column with the     *)
(* truncating (100 - split) / 5 of get_split_ratio_index and checks only  *)
(* that the column is in 0..20.  Every percentage from 0 to 100 then      *)
(* reads the profile, and any split, in range or not, reads either "no    *)
(* data" (0) or the column of a grid split less than one step (5) away:   *)
(* off-grid and slightly out-of-range splits never read a distant column. *)
(* (The code rounds an off-grid split up to the next grid split, and     *)
(* accepts 101..104 and -4..-1; spec §4.1 would read column 0.)            *)
(***************************************************************************)
LookupNeverStrays ==
  drop = 0 =>
    \A s \in RequestedSplits :
      LET bw == LookupBandwidth(io_depth, numjob, s)
      IN  /\ s \in 0..100 => bw # 0
          /\ \/ bw = 0
             \/ \E g \in GridSplits : g - 5 < s /\ s < g + 5 /\ bw = ProfileColumn(g)

=============================================================================
