------------------------------ MODULE Dispatch ------------------------------
(***************************************************************************)
(* The per-request dispatch scheduler of the netCAS splitter               *)
(* (netcas_splitter.c: netcas_should_send_to_backend and its helpers      *)
(* initialize_split_pattern and calculate_gcd, and the dispatch half of   *)
(* netcas_reset_splitter).                                                 *)
(*                                                                         *)
(* The scheduler keeps process-wide accounting (the static variables of   *)
(* netcas_splitter.c) and reads the shared optimal_split_ratio, which the *)
(* estimator writes.  Here optimal_split_ratio is a variable of the module *)
(* that only the composing module changes.                                 *)
(***************************************************************************)
EXTENDS Integers, SplitPattern

CONSTANTS
  SPLIT_RATIO_MAX,   \* 10000: 100% of hits to cache
  COUNTER_MOD        \* modulus of the uint32 request_counter (see below)

(***************************************************************************)
(* request_counter is a uint32 and wraps at 2^32.  2^32 % 100 = 96, so    *)
(* the window that contains the wrap has 96 requests.  The model keeps    *)
(* that effect with a smaller modulus that has the same residue.          *)
(***************************************************************************)
ASSUME /\ WINDOW_SIZE = 100 /\ MAX_PATTERN_SIZE \in 1..WINDOW_SIZE
       /\ SPLIT_RATIO_MAX = 100 * WINDOW_SIZE
       /\ COUNTER_MOD > WINDOW_SIZE /\ COUNTER_MOD % WINDOW_SIZE = 96

VARIABLES
  optimal_split_ratio,    \* shared with the estimator, 0..SPLIT_RATIO_MAX
  request_counter,
  cache_quota,            \* uint32 in the code; compared only with 0
  backend_quota,
  last_request_to_cache,
  pattern_position,
  pattern_cache,
  pattern_backend,
  pattern_size,
  total_requests,
  cache_requests,
  backend_requests

dispatch_vars == <<request_counter, cache_quota, backend_quota,
                   last_request_to_cache, pattern_position, pattern_cache,
                   pattern_backend, pattern_size, total_requests,
                   cache_requests, backend_requests>>

(* Mutation: only the first call ever initialises the pattern. *)
WindowBoundaryFirstOnly == pattern_size = 0

(* The condition under which a call re-initialises the pattern. *)
WindowBoundary == request_counter % WINDOW_SIZE = 0 \/ pattern_size = 0

(***************************************************************************)
(* The decision for a hit, given the accounting s after the boundary      *)
(* re-initialisation and the increment of total_requests: the if/else     *)
(* chain of netcas_should_send_to_backend.  back: TRUE means backend;     *)
(* step: the pattern branch decided, so the pattern cursor moves.         *)
(***************************************************************************)
ExpectedCache(total, pct) == (total * pct) \div WINDOW_SIZE

DecideFor(s, t, pct) ==
  LET ec == ExpectedCache(t, pct)
  IN  CASE s.cache_requests < ec       -> [back |-> FALSE, step |-> FALSE]
        [] s.backend_requests < t - ec -> [back |-> TRUE, step |-> FALSE]
        [] s.pattern_position < s.pattern_size
             -> [back |-> s.pattern_position >= s.pattern_cache, step |-> TRUE]
        [] s.cache_quota = 0           -> [back |-> TRUE, step |-> FALSE]
        [] s.backend_quota = 0         -> [back |-> FALSE, step |-> FALSE]
        [] OTHER                       -> [back |-> last_request_to_cache, step |-> FALSE]

(* Mutation: the deficits are measured against the count before this  *)
(* request, as if total_requests were incremented after the decision.  *)
DecideStaleTotal(s, pct) == DecideFor(s, s.total_requests - 1, pct)

(* Mutation: the cache deficit test is <= instead of <. *)
DecideLe(s, pct) ==
  IF s.cache_requests <= ExpectedCache(s.total_requests, pct)
    THEN [back |-> FALSE, step |-> FALSE]
    ELSE DecideFor(s, s.total_requests, pct)

Decide(s, pct) == DecideFor(s, s.total_requests, pct)

(***************************************************************************)
(* netcas_should_send_to_backend(req), whole: read the ratio, re-init at  *)
(* a boundary, count the request, short-circuit a miss, else decide and   *)
(* charge the chosen side.  miss is the value of ocf_engine_is_miss(req). *)
(***************************************************************************)
ShouldSendToBackend(miss) ==
  LET pct  == RatioPercent(optimal_split_ratio)
      cur  == [pattern_size |-> pattern_size, pattern_cache |-> pattern_cache,
               pattern_backend |-> pattern_backend,
               total_requests |-> total_requests,
               cache_requests |-> cache_requests,
               backend_requests |-> backend_requests,
               cache_quota |-> cache_quota, backend_quota |-> backend_quota,
               pattern_position |-> pattern_position]
      init == IF WindowBoundary THEN InitializeSplitPattern(optimal_split_ratio)
                                ELSE cur
      s    == [init EXCEPT !.total_requests = @ + 1]
      d    == Decide(s, pct)
      back == d.back
  IN  /\ request_counter' = (request_counter + 1) % COUNTER_MOD
      /\ total_requests' = s.total_requests
      /\ pattern_size' = s.pattern_size
      /\ pattern_cache' = s.pattern_cache
      /\ pattern_backend' = s.pattern_backend
      /\ IF miss
           THEN /\ cache_requests' = s.cache_requests
                /\ backend_requests' = s.backend_requests
                /\ cache_quota' = s.cache_quota
                /\ backend_quota' = s.backend_quota
                /\ pattern_position' = s.pattern_position
                /\ UNCHANGED last_request_to_cache
           ELSE /\ pattern_position' =
                     IF d.step
                       THEN (s.pattern_position + 1) % s.pattern_size
                       ELSE s.pattern_position
                /\ cache_quota' = s.cache_quota - (IF back THEN 0 ELSE 1)
                /\ backend_quota' = s.backend_quota - (IF back THEN 1 ELSE 0)
                /\ cache_requests' = s.cache_requests + (IF back THEN 0 ELSE 1)
                /\ backend_requests' = s.backend_requests + (IF back THEN 1 ELSE 0)
                /\ last_request_to_cache' = ~back
      /\ UNCHANGED optimal_split_ratio

(* The dispatch accounting of the static initialisers: every counter  *)
(* zero, pattern_size 0.                                                 *)
DispatchZero ==
  /\ request_counter = 0 /\ cache_quota = 0 /\ backend_quota = 0
  /\ last_request_to_cache = FALSE
  /\ pattern_position = 0 /\ pattern_cache = 0 /\ pattern_backend = 0
  /\ pattern_size = 0
  /\ total_requests = 0 /\ cache_requests = 0 /\ backend_requests = 0

(* The dispatch half of netcas_reset_splitter: the same zero state. *)
ResetDispatch ==
  /\ request_counter' = 0 /\ cache_quota' = 0 /\ backend_quota' = 0
  /\ last_request_to_cache' = FALSE
  /\ pattern_position' = 0 /\ pattern_cache' = 0 /\ pattern_backend' = 0
  /\ pattern_size' = 0
  /\ total_requests' = 0 /\ cache_requests' = 0 /\ backend_requests' = 0

DispatchTypeOK ==
  /\ optimal_split_ratio \in 0..SPLIT_RATIO_MAX
  /\ request_counter \in 0..(COUNTER_MOD - 1)
  /\ cache_quota \in -WINDOW_SIZE..WINDOW_SIZE
  /\ backend_quota \in -WINDOW_SIZE..WINDOW_SIZE
  /\ last_request_to_cache \in BOOLEAN
  /\ pattern_size \in 0..MAX_PATTERN_SIZE
  /\ pattern_position \in 0..MAX_PATTERN_SIZE
  /\ pattern_cache \in 0..MAX_PATTERN_SIZE
  /\ pattern_backend \in 0..MAX_PATTERN_SIZE
  /\ total_requests \in 0..WINDOW_SIZE
  /\ cache_requests \in 0..WINDOW_SIZE
  /\ backend_requests \in 0..WINDOW_SIZE

(* The misses of the current window: counted in total_requests only. *)
WindowMisses == total_requests - cache_requests - backend_requests

=============================================================================
