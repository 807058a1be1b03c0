------------------------------- MODULE BigLock -------------------------------
(***************************************************************************)
(* What the big kernel lock promises the rest of the kernel: at most one   *)
(* CPU has it, it is taken only when free and given up only by its holder. *)
(* KernelEnv relies on this abstraction (one kernel entry is one atomic    *)
(* step); Spinlock, the code of kern/spinlock.c, is shown to implement it. *)
(***************************************************************************)
CONSTANTS CPUs,    \* the processors
          NoCpu    \* no processor: the lock is free

VARIABLE holder

Init == holder = NoCpu

lock_kernel(c) == holder = NoCpu /\ holder' = c

unlock_kernel(c) == holder = c /\ holder' = NoCpu

Next == \E c \in CPUs : lock_kernel(c) \/ unlock_kernel(c)

Spec == Init /\ [][Next]_holder
=============================================================================
