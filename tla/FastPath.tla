------------------------------ MODULE FastPath ------------------------------
(***************************************************************************)
(* The life of one request on the Open CAS fast path (engine_fast.c):     *)
(* ocf_read_fast / ocf_write_fast on the submitting thread, the resume of  *)
(* _ocf_read_fast_do on a worker when the cache-line lock is granted       *)
(* later, the per-sub-IO completions _ocf_read_fast_complete running      *)
(* concurrently, and the pass-through / write-back engines the request is *)
(* handed to.  The request's reference count, its cache-line lock, its     *)
(* req_remaining countdown and its req->error word are the shared state.  *)
(***************************************************************************)
EXTENDS Integers, Bitwise

CONSTANTS
  SubIos,       \* ocf_engine_io_count(req): sub-IOs of a cache read
  IoErrors,     \* error masks a sub-IO may complete with (0 = success)
  SPLIT_RATIO,  \* _ocf_read_fast_do's split_ratio, % of hits to cache
  Dirs          \* which of ocf_read_fast / ocf_write_fast is called

READ == "read"
WRITE == "write"

ASSUME /\ SubIos \in Nat \ {0}
       /\ 0 \in IoErrors /\ IoErrors \subseteq Nat
       /\ SPLIT_RATIO \in 0..100
       /\ Dirs \subseteq {READ, WRITE}

SubIo == 1..SubIos

(* The two threads that run engine code for the request. *)
Threads == {"submitter", "resume"}

(* Results of ocf_req_async_lock_rd/_wr, and "ineligible" for a miss or a *)
(* partition without space, where no lock is requested.                  *)
LockResults == {"ineligible", "acquired", "not_acquired", "error"}

VARIABLES
  dir,             \* READ or WRITE
  ref_count,       \* req->ref_count
  thread,          \* program point of each thread
  lock_held,       \* the request holds its cache-line lock
  req_remaining,   \* req->req_remaining
  req_error,       \* req->error
  sub_pc,          \* program point of each sub-IO completion
  sub_e,           \* the error sub-IO i completed with
  sub_seen,        \* the req->error value its |= loaded
  delegate,        \* "none", "pending" or "done": handed to PT / WB / slow path
  completions,     \* calls of req->complete
  fast_result,     \* "none", "yes" or "no": value returned to the caller
  cache_completed  \* req->complete was called from _ocf_read_fast_complete

vars == <<dir, ref_count, thread, lock_held, req_remaining, req_error, sub_pc,
          sub_e, sub_seen, delegate, completions, fast_result, cache_completed>>

(***************************************************************************)
(* With a constant split_ratio the deficit tests of _ocf_read_fast_do      *)
(* always decide (see Dispatch): a hit goes to cache only if split_ratio > *)
(* 0 and to the backend only if split_ratio < 100.  A miss goes to PT.     *)
(***************************************************************************)
Routes ==
  {"miss"} \cup (IF SPLIT_RATIO > 0 THEN {"cache"} ELSE {})
           \cup (IF SPLIT_RATIO < 100 THEN {"backend"} ELSE {})

Init ==
  /\ dir \in Dirs
  /\ ref_count = 1              \* the reference taken by ocf_req_new
  /\ thread = [t \in Threads |-> IF t = "submitter" THEN "enter" ELSE "idle"]
  /\ lock_held = FALSE
  /\ req_remaining = 0
  /\ req_error = 0
  /\ sub_pc = [i \in SubIo |-> "none"]
  /\ sub_e = [i \in SubIo |-> 0]
  /\ sub_seen = [i \in SubIo |-> 0]
  /\ delegate = "none"
  /\ completions = 0
  /\ fast_result = "none"
  /\ cache_completed = FALSE

-----------------------------------------------------------------------------
(* The lock-error branch: req->complete(req, lock); ocf_req_put(req). *)
LockFailedNoComplete == [complete |-> 0, put |-> 1]

LockFailedDoublePut == [complete |-> 1, put |-> 2]

LockFailed == [complete |-> 1, put |-> 1]

(***************************************************************************)
(* The branch on the cache-line lock result and what follows it up to    *)
(* the final put: run the IO now, leave it to the resume, or fail it.    *)
(* "ineligible" stands for a request that asked for no lock.              *)
(***************************************************************************)
OnLockResult(lock) ==
  LET failed == IF lock = "error" THEN LockFailed ELSE [complete |-> 0, put |-> 0]
  IN  /\ ref_count' = ref_count + 1 - failed.put
      /\ completions' = completions + failed.complete
      /\ lock_held' = (lock = "acquired")
      /\ thread' = [thread EXCEPT
                      !["submitter"] = IF lock = "acquired" THEN "do" ELSE "put",
                      !["resume"] = IF lock = "not_acquired" THEN "waiting" ELSE @]
      /\ fast_result' = IF lock = "ineligible" THEN "no" ELSE "yes"
      /\ UNCHANGED <<dir, req_remaining, req_error, sub_pc, sub_e, sub_seen,
                     delegate, cache_completed>>

(***************************************************************************)
(* ocf_read_fast: take a reference, traverse under the hash-bucket read   *)
(* lock, and request the read lock on the cache lines if the request is  *)
(* a hit and its partition has space.                                      *)
(***************************************************************************)
ReadFast ==
  /\ thread["submitter"] = "enter"
  /\ dir = READ
  /\ \E lock \in LockResults : OnLockResult(lock)

(***************************************************************************)
(* ocf_write_fast: the same, requesting the write lock if the request is *)
(* fully mapped and its partition has space; the resume io_if is          *)
(* ocf_write_wb_do.                                                        *)
(***************************************************************************)
WriteFast ==
  /\ thread["submitter"] = "enter"
  /\ dir = WRITE
  /\ \E lock \in LockResults : OnLockResult(lock)

(* The lock is granted later: ocf_engine_on_resume queues the request and *)
(* a worker calls io_if->read (_ocf_read_fast_do or ocf_write_wb_do).      *)
Grant ==
  /\ thread["resume"] = "waiting"
  /\ lock_held' = TRUE
  /\ thread' = [thread EXCEPT !["resume"] = "do"]
  /\ UNCHANGED <<dir, ref_count, req_remaining, req_error, sub_pc, sub_e,
                 sub_seen, delegate, completions, fast_result, cache_completed>>

(* Where a thread goes once the IO is issued: the submitter returns to    *)
(* ocf_read_fast's final put, the worker is done.                          *)
AfterDo(t) == IF t = "submitter" THEN "put" ELSE "done"

(* Hand the request to PT (ocf_read_pt_do) or WB (ocf_write_wb_do); their *)
(* own get/put pair nets to zero, and their completion owns the request.  *)
HandOff(t) ==
  /\ delegate' = "pending"
  /\ thread' = [thread EXCEPT ![t] = AfterDo(t)]
  /\ UNCHANGED <<ref_count, req_remaining, sub_pc>>

SubmitCacheNoGet(t) ==
  /\ req_remaining' = SubIos
  /\ sub_pc' = [i \in SubIo |-> "inflight"]
  /\ thread' = [thread EXCEPT ![t] = "do_put"]
  /\ UNCHANGED <<ref_count, delegate>>

(* The cache branch: ocf_req_get, set req_remaining, submit the sub-IOs. *)
SubmitCache(t) ==
  /\ ref_count' = ref_count + 1
  /\ req_remaining' = SubIos
  /\ sub_pc' = [i \in SubIo |-> "inflight"]
  /\ thread' = [thread EXCEPT ![t] = "do_put"]
  /\ UNCHANGED delegate

(* _ocf_read_fast_do (read) or ocf_write_wb_do (write), up to the submit. *)
Do(t) ==
  /\ thread[t] = "do"
  /\ IF dir = READ
       THEN \E route \in Routes :
              IF route = "cache" THEN SubmitCache(t) ELSE HandOff(t)
       ELSE HandOff(t)
  /\ UNCHANGED <<dir, lock_held, req_error, sub_e, sub_seen, completions,
                 fast_result, cache_completed>>

DoPutLeak(t) ==
  /\ thread[t] = "do_put"
  /\ thread' = [thread EXCEPT ![t] = AfterDo(t)]
  /\ UNCHANGED <<dir, ref_count, lock_held, req_remaining, req_error, sub_pc,
                 sub_e, sub_seen, delegate, completions, fast_result, cache_completed>>

(* After the submit: statistics, then the ocf_req_put of the cache branch. *)
DoPut(t) ==
  /\ thread[t] = "do_put"
  /\ ref_count' = ref_count - 1
  /\ thread' = [thread EXCEPT ![t] = AfterDo(t)]
  /\ UNCHANGED <<dir, lock_held, req_remaining, req_error, sub_pc, sub_e,
                 sub_seen, delegate, completions, fast_result, cache_completed>>

(* The final ocf_req_put of ocf_read_fast / ocf_write_fast. *)
Put ==
  /\ thread["submitter"] = "put"
  /\ ref_count' = ref_count - 1
  /\ thread' = [thread EXCEPT !["submitter"] = "done"]
  /\ UNCHANGED <<dir, lock_held, req_remaining, req_error, sub_pc, sub_e,
                 sub_seen, delegate, completions, fast_result, cache_completed>>
-----------------------------------------------------------------------------
(***************************************************************************)
(* _ocf_read_fast_complete, once per sub-IO, on any completion context.   *)
(* "if (error) req->error |= error" is a plain load and store, split here  *)
(* into SubLoad and SubStore so that completions interleave between them; *)
(* the env_atomic_dec_return is one step, and the caller that brings the  *)
(* count to zero finishes the request.                                     *)
(***************************************************************************)
SubLoad(i) ==
  /\ sub_pc[i] = "inflight"
  /\ \E e \in IoErrors : sub_e' = [sub_e EXCEPT ![i] = e]
  /\ sub_seen' = [sub_seen EXCEPT ![i] = req_error]
  /\ sub_pc' = [sub_pc EXCEPT ![i] = "loaded"]
  /\ UNCHANGED <<dir, ref_count, thread, lock_held, req_remaining, req_error,
                 delegate, completions, fast_result, cache_completed>>

(* The value req->error holds after the store of a completion with error *)
(* e that loaded old, when it currently holds cur.                        *)
RecordErrorAssign(cur, old, e) == e

RecordError(cur, old, e) == IF e # 0 THEN old | e ELSE cur

SubStore(i) ==
  /\ sub_pc[i] = "loaded"
  /\ req_error' = RecordError(req_error, sub_seen[i], sub_e[i])
  /\ sub_pc' = [sub_pc EXCEPT ![i] = "stored"]
  /\ UNCHANGED <<dir, ref_count, thread, lock_held, req_remaining, sub_e,
                 sub_seen, delegate, completions, fast_result, cache_completed>>

(* The last completion: on error, requeue to PT (which owns the request   *)
(* from then on); otherwise unlock, complete and put.                      *)
Finish ==
  IF req_error # 0
    THEN /\ delegate' = "pending"
         /\ UNCHANGED <<ref_count, lock_held, completions, cache_completed>>
    ELSE /\ lock_held' = FALSE
         /\ completions' = completions + 1
         /\ cache_completed' = TRUE
         /\ ref_count' = ref_count - 1
         /\ UNCHANGED delegate

SubDec(i) ==
  /\ sub_pc[i] = "stored"
  /\ req_remaining' = req_remaining - 1
  /\ sub_pc' = [sub_pc EXCEPT ![i] = "done"]
  /\ IF req_remaining - 1 = 0
       THEN Finish
       ELSE UNCHANGED <<ref_count, lock_held, delegate, completions, cache_completed>>
  /\ UNCHANGED <<dir, thread, req_error, sub_e, sub_seen, fast_result>>

(* The completion of the engine the request was handed to (PT read, WB    *)
(* write, or the caller's slow path): unlock, complete, put.              *)
DelegateComplete ==
  /\ delegate = "pending"
  /\ delegate' = "done"
  /\ lock_held' = FALSE
  /\ completions' = completions + 1
  /\ ref_count' = ref_count - 1
  /\ UNCHANGED <<dir, thread, req_remaining, req_error, sub_pc, sub_e,
                 sub_seen, fast_result, cache_completed>>

(* OCF_FAST_PATH_NO: the caller submits the request on the slow path. *)
Fallback ==
  /\ fast_result = "no"
  /\ thread["submitter"] = "done"
  /\ delegate = "none"
  /\ delegate' = "pending"
  /\ UNCHANGED <<dir, ref_count, thread, lock_held, req_remaining, req_error,
                 sub_pc, sub_e, sub_seen, completions, fast_result, cache_completed>>

(* No thread, completion or engine will touch the request again. *)
Quiescent ==
  /\ thread["submitter"] = "done"
  /\ thread["resume"] \in {"idle", "done"}
  /\ \A i \in SubIo : sub_pc[i] \in {"none", "done"}
  /\ delegate # "pending"
  /\ ~(fast_result = "no" /\ delegate = "none")

(* The request's life is over; the system stutters. *)
Terminating == Quiescent /\ UNCHANGED vars

Next ==
  \/ ReadFast \/ WriteFast \/ Grant \/ Put
  \/ \E t \in Threads : Do(t) \/ DoPut(t)
  \/ \E i \in SubIo : SubLoad(i) \/ SubStore(i) \/ SubDec(i)
  \/ DelegateComplete \/ Fallback
  \/ Terminating

(***************************************************************************)
(* Every step that is enabled is eventually taken: sub-IOs complete, the  *)
(* lock holder releases so the grant comes, queued requests are run by a  *)
(* worker, and handed-off engines complete.                                *)
(***************************************************************************)
Spec == Init /\ [][Next]_vars /\ WF_vars(Next)

FastPathTypeOK ==
  /\ dir \in Dirs
  /\ ref_count \in 0..4
  /\ thread["submitter"] \in {"enter", "do", "do_put", "put", "done"}
  /\ thread["resume"] \in {"idle", "waiting", "do", "do_put", "done"}
  /\ lock_held \in BOOLEAN
  /\ req_remaining \in 0..SubIos
  /\ req_error \in Nat
  /\ sub_pc \in [SubIo -> {"none", "inflight", "loaded", "stored", "done"}]
  /\ sub_e \in [SubIo -> IoErrors]
  /\ delegate \in {"none", "pending", "done"}
  /\ completions \in 0..2
  /\ fast_result \in {"none", "yes", "no"}
  /\ cache_completed \in BOOLEAN

-----------------------------------------------------------------------------
(***************************************************************************)
(* No use after free: when ocf_req_put drops the last reference, no       *)
(* thread, sub-IO completion or handed-off engine will still touch the    *)
(* request, whatever the order of the submitter's puts, the resume and    *)
(* the concurrent completions.                                             *)
(***************************************************************************)
NoUseAfterFree == ref_count = 0 => Quiescent

(***************************************************************************)
(* req->complete runs at most once, and by the time the request is freed *)
(* it has run exactly once and the cache-line lock has been released, on *)
(* every path: hit, miss, lock pending, lock error, IO error requeue.      *)
(***************************************************************************)
CompletesOnce ==
  /\ completions <= 1
  /\ ref_count = 0 => (completions = 1 /\ ~lock_held)

(***************************************************************************)
(* A failed sub-IO is never lost: _ocf_read_fast_complete completes the   *)
(* request from the cache only if every sub-IO succeeded, although the    *)
(* "req->error |= error" of concurrent completions is not atomic.          *)
(***************************************************************************)
FailedReadNotCompletedFromCache ==
  cache_completed => \A i \in SubIo : sub_e[i] = 0

(***************************************************************************)
(* Every request is eventually completed and freed.                       *)
(***************************************************************************)
EventuallyReleased == <>(ref_count = 0 /\ completions = 1)

=============================================================================
