----------------------------- MODULE SplitPattern -----------------------------
(***************************************************************************)
(* The pure helpers of the dispatch scheduler (netcas_splitter.c):        *)
(* calculate_gcd, the percentage of a ratio, and initialize_split_pattern *)
(* as the values it assigns to the dispatch statics.                      *)
(***************************************************************************)
EXTENDS Integers

CONSTANTS
  WINDOW_SIZE,       \* requests per accounting window (100 in the code)
  MAX_PATTERN_SIZE   \* cap on the short pattern (10 in the code)

(***************************************************************************)
(* calculate_gcd: Euclid's loop when both arguments are positive, else 1. *)
(***************************************************************************)
(* Mutation: the loop stops as soon as b divides a, returning a. *)
RECURSIVE EuclidLoopEarly(_, _)
EuclidLoopEarly(a, b) == IF b = 0 \/ a % b = 0 THEN a ELSE EuclidLoopEarly(b, a % b)

RECURSIVE EuclidLoop(_, _)
EuclidLoop(a, b) == IF b = 0 THEN a ELSE EuclidLoop(b, a % b)

CalculateGcd(a, b) == IF a > 0 /\ b > 0 THEN EuclidLoop(a, b) ELSE 1

(* The 0..100 percentage a decision uses: split_ratio / 100. *)
RatioPercent(ratio) == ratio \div 100

(***************************************************************************)
(* initialize_split_pattern(split_ratio): pattern, quotas, and the reset  *)
(* of the window counters.                                                 *)
(***************************************************************************)
PatternSize(a) ==
  LET size == (a + (WINDOW_SIZE - a)) \div CalculateGcd(a, WINDOW_SIZE - a)
  IN  IF size > MAX_PATTERN_SIZE THEN MAX_PATTERN_SIZE ELSE size

InitializeSplitPattern(ratio) ==
  LET a    == RatioPercent(ratio)
      size == PatternSize(a)
  IN  [pattern_size     |-> size,
       pattern_cache    |-> (a * size) \div WINDOW_SIZE,
       pattern_backend  |-> size - (a * size) \div WINDOW_SIZE,
       total_requests   |-> 0,
       cache_requests   |-> 0,
       backend_requests |-> 0,
       cache_quota      |-> a,
       backend_quota    |-> WINDOW_SIZE - a,
       pattern_position |-> 0]

=============================================================================
