----------------------------- MODULE RdmaMetrics -----------------------------
(***************************************************************************)
(* The RDMA metrics procfs producer (utils/rdma_metrics.c): module init   *)
(* registers /proc/rdma_metrics/metrics, cleanup removes it, readers      *)
(* open the file and read current_metrics through rdma_metrics_proc_show, *)
(* and rdma_metrics_get copies current_metrics to a caller's struct.      *)
(*                                                                         *)
(* The procfs tree is a record [dir, entry, leaked]: the "rdma_metrics"   *)
(* directory, the "metrics" file under it, and whether an entry was lost  *)
(* (removed through a freed parent, or left behind in a removed           *)
(* directory).  Each proc_mkdir / proc_create may fail (-ENOMEM); a name  *)
(* that is already registered always fails.  remove_proc_entry waits for *)
(* reads in progress and closes the files still open (the kernel's       *)
(* rundown of a proc entry).                                               *)
(***************************************************************************)
EXTENDS Naturals

CONSTANTS
  Readers,      \* processes that open /proc/rdma_metrics/metrics
  ENOMEM, EINVAL,
  NONE          \* no value returned yet

VARIABLES
  loaded,       \* module state: "out" before init or after cleanup, "in"
  proc,         \* the procfs tree
  readers,      \* per reader: "closed", "open", "reading"
  reported,     \* the last metrics a show or a get returned, or NONE
  get_ret       \* the last return value of rdma_metrics_get, or NONE

vars == <<loaded, proc, readers, reported, get_ret>>

(* static struct rdma_metrics current_metrics = {0}: nothing assigns it. *)
current_metrics == [latency |-> 0, throughput |-> 0]

NoProc == [dir |-> FALSE, entry |-> FALSE, leaked |-> FALSE]

Init ==
  /\ loaded = "out"
  /\ proc = NoProc
  /\ readers = [r \in Readers |-> "closed"]
  /\ reported = NONE
  /\ get_ret = NONE

(* remove_proc_entry("metrics", rdma_metrics_dir): through a parent that  *)
(* is already gone the entry cannot be found and is lost.                 *)
RemoveMetrics(t) ==
  IF t.dir THEN [t EXCEPT !.entry = FALSE] ELSE [t EXCEPT !.leaked = TRUE]

(* remove_proc_entry("rdma_metrics", NULL): a child still registered is  *)
(* leaked with the directory.                                              *)
RemoveDir(t) == [dir |-> FALSE, entry |-> FALSE, leaked |-> t.leaked \/ t.entry]

(* Mutation: the proc_create failure path returns without removing the   *)
(* directory.                                                               *)
InitNoRollback(mkdir_ok, create_ok) ==
  IF ~mkdir_ok \/ proc.dir THEN [ret |-> ENOMEM, proc |-> proc]
  ELSE IF ~create_ok THEN [ret |-> ENOMEM, proc |-> [proc EXCEPT !.dir = TRUE]]
  ELSE [ret |-> 0, proc |-> [proc EXCEPT !.dir = TRUE, !.entry = TRUE]]

(* rdma_metrics_init: its return value and the procfs tree after it. *)
RdmaMetricsInit(mkdir_ok, create_ok) ==
  IF ~mkdir_ok \/ proc.dir THEN [ret |-> ENOMEM, proc |-> proc]
  ELSE IF ~create_ok THEN [ret |-> ENOMEM, proc |-> RemoveDir([proc EXCEPT !.dir = TRUE])]
  ELSE [ret |-> 0, proc |-> [proc EXCEPT !.dir = TRUE, !.entry = TRUE]]

(* Module load: init runs, and the module is in only if it returned 0. *)
Load ==
  /\ loaded = "out"
  /\ \E mkdir_ok, create_ok \in BOOLEAN :
       LET res == RdmaMetricsInit(mkdir_ok, create_ok)
       IN  /\ proc' = res.proc
           /\ loaded' = IF res.ret = 0 THEN "in" ELSE "out"
  /\ UNCHANGED <<readers, reported, get_ret>>

(* Mutation: the directory is removed before the file in it. *)
CleanupDirFirst(t) == RemoveMetrics(RemoveDir(t))

(* rdma_metrics_cleanup: the file, then the directory. *)
RdmaMetricsCleanup(t) == RemoveDir(RemoveMetrics(t))

(* Module unload: cleanup waits for reads in progress and closes the     *)
(* files left open.                                                        *)
Unload ==
  /\ loaded = "in"
  /\ \A r \in Readers : readers[r] # "reading"
  /\ proc' = RdmaMetricsCleanup(proc)
  /\ loaded' = "out"
  /\ readers' = [r \in Readers |-> "closed"]
  /\ UNCHANGED <<reported, get_ret>>

(* rdma_metrics_proc_open: single_open on a registered file. *)
Open(r) ==
  /\ readers[r] = "closed"
  /\ proc.entry
  /\ readers' = [readers EXCEPT ![r] = "open"]
  /\ UNCHANGED <<loaded, proc, reported, get_ret>>

(* A read(2) entering seq_read. *)
Read(r) ==
  /\ readers[r] = "open"
  /\ readers' = [readers EXCEPT ![r] = "reading"]
  /\ UNCHANGED <<loaded, proc, reported, get_ret>>

(* seq_read calling rdma_metrics_proc_show, which prints current_metrics. *)
Show(r) ==
  /\ readers[r] = "reading"
  /\ reported' = current_metrics
  /\ readers' = [readers EXCEPT ![r] = "open"]
  /\ UNCHANGED <<loaded, proc, get_ret>>

(* close(2): single_release. *)
Release(r) ==
  /\ readers[r] = "open"
  /\ readers' = [readers EXCEPT ![r] = "closed"]
  /\ UNCHANGED <<loaded, proc, reported, get_ret>>

(* rdma_metrics_get(metrics), with a NULL or a valid pointer. *)
Get ==
  /\ \E null \in BOOLEAN :
       IF null THEN get_ret' = EINVAL /\ UNCHANGED reported
               ELSE get_ret' = 0 /\ reported' = current_metrics
  /\ UNCHANGED <<loaded, proc, readers>>

Next ==
  \/ Load \/ Unload \/ Get
  \/ \E r \in Readers : Open(r) \/ Read(r) \/ Show(r) \/ Release(r)

Spec == Init /\ [][Next]_vars

(***************************************************************************)
(* Over any sequence of loads (each proc_mkdir / proc_create may fail),   *)
(* unloads and reads, the procfs tree is registered exactly while the     *)
(* module is in: a failed rdma_metrics_init leaves no directory behind    *)
(* (so the next load can register it again), cleanup leaks no entry, and *)
(* no reader has the file open once it is gone.                           *)
(***************************************************************************)
ProcRegisteredIffLoaded ==
  /\ proc.dir = (loaded = "in")
  /\ proc.entry = (loaded = "in")
  /\ ~proc.leaked
  /\ \A r \in Readers : readers[r] # "closed" => proc.entry

=============================================================================
