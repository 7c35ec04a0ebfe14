------------------------------ MODULE EnvAtomic ------------------------------
(***************************************************************************)
(* The atomic counter of the POSIX OCF environment (env/posix/ocf_env.h)  *)
(* used as a reference count: holders drop their reference with           *)
(* env_atomic_dec_return, and other threads try to take one with          *)
(* env_atomic_add_unless(a, 1, 0), "increment unless already zero".       *)
(*                                                                         *)
(* env_atomic_dec_return and env_atomic_cmpxchg are single __sync builtins *)
(* and so single steps.  env_atomic_add_unless is a loop around them: a   *)
(* plain read of the counter, then per iteration a test against u and a   *)
(* compare-and-swap that, on failure, retries with the value it found.    *)
(***************************************************************************)
EXTENDS Integers, FiniteSets

CONSTANTS
  Threads,    \* threads sharing the counter
  Holders     \* the threads holding a reference at the start

ASSUME Holders \subseteq Threads

VARIABLES
  counter,    \* a->counter
  holds,      \* per thread: it owns a reference
  pc,         \* per thread: "idle", "test" (loop head), "cas"
  c           \* per thread: the local c of env_atomic_add_unless

vars == <<counter, holds, pc, c>>

Init ==
  /\ counter = Cardinality(Holders)
  /\ holds = [t \in Threads |-> t \in Holders]
  /\ pc = [t \in Threads |-> "idle"]
  /\ c = [t \in Threads |-> 0]

(* env_atomic_dec_return by a holder dropping its reference. *)
Put(t) ==
  /\ pc[t] = "idle" /\ holds[t]
  /\ counter' = counter - 1
  /\ holds' = [holds EXCEPT ![t] = FALSE]
  /\ UNCHANGED <<pc, c>>

(* env_atomic_add_unless(a, 1, 0): c = env_atomic_read(a). *)
AddUnlessRead(t) ==
  /\ pc[t] = "idle" /\ ~holds[t]
  /\ c' = [c EXCEPT ![t] = counter]
  /\ pc' = [pc EXCEPT ![t] = "test"]
  /\ UNCHANGED <<counter, holds>>

(* Loop head: if (c == u) break, returning 0. *)
AddUnlessTest(t) ==
  /\ pc[t] = "test"
  /\ IF c[t] = 0
       THEN pc' = [pc EXCEPT ![t] = "idle"]
       ELSE pc' = [pc EXCEPT ![t] = "cas"]
  /\ UNCHANGED <<counter, holds, c>>

(* Mutation: a failed compare-and-swap retries at once, so u is tested   *)
(* against the first value read only.                                      *)
AddUnlessCasNoRetest(t) ==
  /\ pc[t] = "cas"
  /\ IF counter = c[t]
       THEN /\ counter' = c[t] + 1
            /\ holds' = [holds EXCEPT ![t] = TRUE]
            /\ pc' = [pc EXCEPT ![t] = "idle"]
            /\ UNCHANGED c
       ELSE /\ c' = [c EXCEPT ![t] = counter]
            /\ UNCHANGED <<counter, holds, pc>>

(* old = env_atomic_cmpxchg(a, c, c + 1); success returns 1 with a       *)
(* reference taken, failure retries with c = old.                         *)
AddUnlessCas(t) ==
  /\ pc[t] = "cas"
  /\ IF counter = c[t]
       THEN /\ counter' = c[t] + 1
            /\ holds' = [holds EXCEPT ![t] = TRUE]
            /\ pc' = [pc EXCEPT ![t] = "idle"]
            /\ UNCHANGED c
       ELSE /\ c' = [c EXCEPT ![t] = counter]
            /\ pc' = [pc EXCEPT ![t] = "test"]
            /\ UNCHANGED <<counter, holds>>

Next == \E t \in Threads :
          Put(t) \/ AddUnlessRead(t) \/ AddUnlessTest(t) \/ AddUnlessCas(t)

Spec == Init /\ [][Next]_vars

(***************************************************************************)
(* A reference count that has reached zero is never revived: however the  *)
(* reads, compare-and-swaps and retries of concurrent                      *)
(* env_atomic_add_unless(a, 1, 0) calls interleave with the last          *)
(* env_atomic_dec_return, no step takes the counter from 0 back up.      *)
(***************************************************************************)
NoRevival ==
  [][counter = 0 => counter' = 0]_vars

=============================================================================
