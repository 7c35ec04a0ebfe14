---------------------------- MODULE DispatchRace ----------------------------
(***************************************************************************)
(* netcas_should_send_to_backend called by several hot-path threads at   *)
(* once.  The dispatch statics of netcas_splitter.c are plain variables   *)
(* with no lock, so each "x++" / "x--" is a load and a later store, and   *)
(* another thread may run between them.  A call is split at those points: *)
(*   Enter   - read the ratio, re-initialise at a window boundary, load   *)
(*             request_counter and total_requests        (lines 309-323)  *)
(*   Count   - store both incremented; a miss returns    (lines 321-330)  *)
(*   Choose  - the decision on the shared counts, then load the chosen    *)
(*             side's count and quota                    (lines 332-372)  *)
(*   Charge  - store them incremented / decremented      (lines 375-391)  *)
(* initialize_split_pattern runs as one step (its stores are not split).   *)
(* The ratio is held constant: this module is about the accounting.       *)
(***************************************************************************)
EXTENDS Dispatch

CONSTANTS
  HotThreads,    \* the hot-path threads
  RATIO,         \* the split ratio they all read
  MissOutcomes   \* the values ocf_engine_is_miss may return

VARIABLES
  pc,            \* per thread: "idle", "count", "choose", "charge"
  ld_counter,    \* request_counter as loaded by the thread
  ld_total,      \* total_requests as loaded by the thread
  side_back,     \* the thread's decision: TRUE = backend
  ld_count,      \* the chosen side's *_requests as loaded
  ld_quota       \* the chosen side's *_quota as loaded

race_vars == <<pc, ld_counter, ld_total, side_back, ld_count, ld_quota>>

vars == <<optimal_split_ratio, dispatch_vars, race_vars>>

Init ==
  /\ DispatchZero
  /\ optimal_split_ratio = RATIO
  /\ pc = [t \in HotThreads |-> "idle"]
  /\ ld_counter = [t \in HotThreads |-> 0]
  /\ ld_total = [t \in HotThreads |-> 0]
  /\ side_back = [t \in HotThreads |-> FALSE]
  /\ ld_count = [t \in HotThreads |-> 0]
  /\ ld_quota = [t \in HotThreads |-> 0]

(* The shared pattern and window fields, as a record Decide reads. *)
Accounting ==
  [pattern_size |-> pattern_size, pattern_cache |-> pattern_cache,
   pattern_backend |-> pattern_backend, total_requests |-> total_requests,
   cache_requests |-> cache_requests, backend_requests |-> backend_requests,
   cache_quota |-> cache_quota, backend_quota |-> backend_quota,
   pattern_position |-> pattern_position]

Enter(t) ==
  /\ pc[t] = "idle"
  /\ LET s == IF WindowBoundary THEN InitializeSplitPattern(optimal_split_ratio)
                                ELSE Accounting
     IN  /\ pattern_size' = s.pattern_size
         /\ pattern_cache' = s.pattern_cache
         /\ pattern_backend' = s.pattern_backend
         /\ total_requests' = s.total_requests
         /\ cache_requests' = s.cache_requests
         /\ backend_requests' = s.backend_requests
         /\ cache_quota' = s.cache_quota
         /\ backend_quota' = s.backend_quota
         /\ pattern_position' = s.pattern_position
         /\ ld_total' = [ld_total EXCEPT ![t] = s.total_requests]
  /\ ld_counter' = [ld_counter EXCEPT ![t] = request_counter]
  /\ pc' = [pc EXCEPT ![t] = "count"]
  /\ UNCHANGED <<optimal_split_ratio, request_counter, last_request_to_cache,
                 side_back, ld_count, ld_quota>>

Count(t) ==
  /\ pc[t] = "count"
  /\ request_counter' = (ld_counter[t] + 1) % COUNTER_MOD
  /\ total_requests' = ld_total[t] + 1
  /\ \E miss \in MissOutcomes : pc' = [pc EXCEPT ![t] = IF miss THEN "idle" ELSE "choose"]
  /\ UNCHANGED <<optimal_split_ratio, cache_quota, backend_quota,
                 last_request_to_cache, pattern_position, pattern_cache,
                 pattern_backend, pattern_size, cache_requests, backend_requests,
                 ld_counter, ld_total, side_back, ld_count, ld_quota>>

Choose(t) ==
  /\ pc[t] = "choose"
  /\ LET d == Decide(Accounting, RatioPercent(optimal_split_ratio))
     IN  /\ pattern_position' = IF d.step THEN (pattern_position + 1) % pattern_size
                                          ELSE pattern_position
         /\ side_back' = [side_back EXCEPT ![t] = d.back]
         /\ ld_count' = [ld_count EXCEPT ![t] =
                           IF d.back THEN backend_requests ELSE cache_requests]
         /\ ld_quota' = [ld_quota EXCEPT ![t] =
                           IF d.back THEN backend_quota ELSE cache_quota]
  /\ pc' = [pc EXCEPT ![t] = "charge"]
  /\ UNCHANGED <<optimal_split_ratio, request_counter, cache_quota, backend_quota,
                 last_request_to_cache, pattern_cache, pattern_backend,
                 pattern_size, total_requests, cache_requests, backend_requests,
                 ld_counter, ld_total>>

Charge(t) ==
  /\ pc[t] = "charge"
  /\ IF side_back[t]
       THEN /\ backend_requests' = ld_count[t] + 1
            /\ backend_quota' = ld_quota[t] - 1
            /\ UNCHANGED <<cache_requests, cache_quota>>
       ELSE /\ cache_requests' = ld_count[t] + 1
            /\ cache_quota' = ld_quota[t] - 1
            /\ UNCHANGED <<backend_requests, backend_quota>>
  /\ last_request_to_cache' = ~side_back[t]
  /\ pc' = [pc EXCEPT ![t] = "idle"]
  /\ UNCHANGED <<optimal_split_ratio, request_counter, pattern_position,
                 pattern_cache, pattern_backend, pattern_size, total_requests,
                 ld_counter, ld_total, side_back, ld_count, ld_quota>>

Next == \E t \in HotThreads : Enter(t) \/ Count(t) \/ Choose(t) \/ Charge(t)

Spec == Init /\ [][Next]_vars

(***************************************************************************)
(* Spec §3 and §5: the hits of a window never outnumber its requests     *)
(* (cache_requests + backend_requests <= total_requests); the spec asks   *)
(* for the accounting to be per worker or under a mutex when the hot path *)
(* is parallel.  netcas_should_send_to_backend updates it with no lock.   *)
(***************************************************************************)
HitsWithinTotal == cache_requests + backend_requests <= total_requests

=============================================================================
