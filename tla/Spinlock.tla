------------------------------ MODULE Spinlock ------------------------------
(***************************************************************************)
(* kern/spinlock.c, one memory access per step.  The debug build is the    *)
(* one that is compiled (DEBUG_SPINLOCK), so lk->cpu is part of the lock   *)
(* and holding() reads both fields, without any synchronisation, while     *)
(* another CPU may be taking or releasing the lock.                        *)
(*                                                                         *)
(* lk->cpu is written by plain stores.  On x86 a plain store waits in the  *)
(* store buffer of its CPU, which that CPU alone sees, and reaches memory  *)
(* later; xchg is a locked instruction and waits for the buffer to drain.  *)
(***************************************************************************)
EXTENDS Naturals, Sequences

CONSTANTS CPUs,    \* the processors
          NoCpu    \* lk->cpu == 0

ASSUME NoCpuAssumption == NoCpu \notin CPUs

VARIABLES locked,  \* lk->locked: 0 or 1
          cpu,     \* lk->cpu as memory holds it
          wbuf,    \* wbuf[c]: the stores to lk->cpu that c has not drained
          pc       \* pc[c]: where c is in spin_lock or spin_unlock

vars == <<locked, cpu, wbuf, pc>>

(* The value of lk->cpu that c reads: its own latest store, or memory's.   *)
CpuSeenBy(c) == IF wbuf[c] = <<>> THEN cpu ELSE wbuf[c][Len(wbuf[c])]

Goto(c, l) == pc' = [pc EXCEPT ![c] = l]

Store(c, v) == wbuf' = [wbuf EXCEPT ![c] = Append(@, v)]

Init == /\ locked = 0
        /\ cpu = NoCpu
        /\ wbuf = [c \in CPUs |-> <<>>]
        /\ pc = [c \in CPUs |-> "out"]

(* A store leaves the buffer for memory.                                   *)
Drain(c) == /\ wbuf[c] # <<>>
            /\ cpu' = Head(wbuf[c])
            /\ wbuf' = [wbuf EXCEPT ![c] = Tail(@)]
            /\ UNCHANGED <<locked, pc>>
-----------------------------------------------------------------------------
(* spin_lock                                                               *)

(* holding() on entry reads lk->locked; && stops there when it is 0.       *)
LockReadsLocked(c) ==
  /\ pc[c] = "out"
  /\ Goto(c, IF locked = 1 THEN "lock_cpu" ELSE "xchg")
  /\ UNCHANGED <<locked, cpu, wbuf>>

(* ... and then lk->cpu: "cannot acquire: already holding" if it is c.     *)
LockReadsCpu(c) ==
  /\ pc[c] = "lock_cpu"
  /\ Goto(c, IF CpuSeenBy(c) = c THEN "panic" ELSE "xchg")
  /\ UNCHANGED <<locked, cpu, wbuf>>

(* A variant without the locked instruction: test, then set.               *)
XchgTestOnly(c) ==
  /\ pc[c] = "xchg"
  /\ Goto(c, IF locked = 0 THEN "set_cpu" ELSE "xchg")
  /\ UNCHANGED <<locked, cpu, wbuf>>

(* while (xchg(&lk->locked, 1) != 0) pause;                                *)
Xchg(c) ==
  /\ pc[c] = "xchg"
  /\ wbuf[c] = <<>>
  /\ locked' = 1
  /\ Goto(c, IF locked = 0 THEN "set_cpu" ELSE "xchg")
  /\ UNCHANGED <<cpu, wbuf>>

(* lk->cpu = thiscpu                                                       *)
SetCpu(c) ==
  /\ pc[c] = "set_cpu"
  /\ Store(c, c)
  /\ Goto(c, "critical")
  /\ UNCHANGED <<locked, cpu>>
-----------------------------------------------------------------------------
(* spin_unlock                                                             *)

UnlockReadsLocked(c) ==
  /\ pc[c] = "critical"
  /\ Goto(c, IF locked = 1 THEN "unlock_cpu" ELSE "panic")
  /\ UNCHANGED <<locked, cpu, wbuf>>

UnlockReadsCpu(c) ==
  /\ pc[c] = "unlock_cpu"
  /\ Goto(c, IF CpuSeenBy(c) = c THEN "clear_cpu" ELSE "panic")
  /\ UNCHANGED <<locked, cpu, wbuf>>

(* A variant that forgets lk->cpu = 0.                                     *)
ClearCpuForgotten(c) ==
  /\ pc[c] = "clear_cpu"
  /\ Goto(c, "release")
  /\ UNCHANGED <<locked, cpu, wbuf>>

(* lk->cpu = 0                                                             *)
ClearCpu(c) ==
  /\ pc[c] = "clear_cpu"
  /\ Store(c, NoCpu)
  /\ Goto(c, "release")
  /\ UNCHANGED <<locked, cpu>>

(* A variant whose last exchange puts the 1 back.                          *)
ReleaseKeepsLocked(c) ==
  /\ pc[c] = "release"
  /\ wbuf[c] = <<>>
  /\ Goto(c, "out")
  /\ UNCHANGED <<locked, cpu, wbuf>>

(* xchg(&lk->locked, 0)                                                    *)
Release(c) ==
  /\ pc[c] = "release"
  /\ wbuf[c] = <<>>
  /\ locked' = 0
  /\ Goto(c, "out")
  /\ UNCHANGED <<cpu, wbuf>>
-----------------------------------------------------------------------------
spin_lock(c) ==
  LockReadsLocked(c) \/ LockReadsCpu(c) \/ Xchg(c) \/ SetCpu(c)

spin_unlock(c) ==
  UnlockReadsLocked(c) \/ UnlockReadsCpu(c) \/ ClearCpu(c) \/ Release(c)

Next == \E c \in CPUs : spin_lock(c) \/ spin_unlock(c) \/ Drain(c)

Spec == Init /\ [][Next]_vars

(* Every CPU keeps executing and keeps coming back to the kernel, and every*)
(* buffer drains.  Nothing more: spin_lock has no queue.                   *)
Fairness ==
  \A c \in CPUs : /\ WF_vars(spin_lock(c) \/ spin_unlock(c))
                  /\ WF_vars(Drain(c))

FairSpec == Spec /\ Fairness
-----------------------------------------------------------------------------
Labels == {"out", "lock_cpu", "xchg", "set_cpu", "critical", "unlock_cpu",
           "clear_cpu", "release", "panic"}

TypeOK == /\ locked \in {0, 1}
          /\ cpu \in CPUs \cup {NoCpu}
          /\ wbuf \in [CPUs -> Seq(CPUs \cup {NoCpu})]
          /\ pc \in [CPUs -> Labels]

(* From the xchg that found 0 to the xchg that puts it back.               *)
Owns(c) == pc[c] \in {"set_cpu", "critical", "unlock_cpu", "clear_cpu", "release"}

(* Only one CPU at a time is between its successful xchg and its release,  *)
(* whatever the others are reading (spinlock.c:71, 115).                   *)
MutualExclusion == \A c, d \in CPUs : Owns(c) /\ Owns(d) => c = d

(* The unsynchronised reads of holding() never make a CPU panic: not       *)
(* "already holding" in spin_lock for a lock another CPU holds, nor        *)
(* "cannot release" in spin_unlock for the lock it does hold.              *)
HoldingNeverLies == \A c \in CPUs : pc[c] # "panic"

(* The lock never gets lost: it is taken and released again for ever,      *)
(* although nobody queues for it and holding() may panic (spinlock.c:71).  *)
LockKeepsMoving == /\ []<>(\E c \in CPUs : Owns(c))
                   /\ []<>(\A c \in CPUs : ~ Owns(c))

(* The lock its users see: its holder, and nothing of lk->cpu or buffers.  *)
Holder == IF \E c \in CPUs : Owns(c) THEN CHOOSE c \in CPUs : Owns(c) ELSE NoCpu

Lock == INSTANCE BigLock WITH holder <- Holder

(* spin_lock and spin_unlock implement the abstract kernel lock: the lock  *)
(* passes from free to one CPU and from that CPU back to free.             *)
ImplementsBigLock == Lock!Spec
=============================================================================
