------------------------------ MODULE KernelEnv ------------------------------
(***************************************************************************)
(* Environments, processors and the scheduler: kern/env.c, kern/sched.c,   *)
(* kern/trap.c, the process and IPC system calls of kern/syscall.c, and    *)
(* the boot hand-over of kern/init.c.                                      *)
(*                                                                         *)
(* A CPU enters the kernel by a trap, spins on the big kernel lock, and    *)
(* holds it until env_run or sched_halt lets it go.  A trap (mode          *)
(* "trapped" or "woken") is therefore one step and everything the kernel   *)
(* does about it, lock to unlock, is another: between the two the other    *)
(* CPUs may change anything.                                               *)
(*                                                                         *)
(* Memory is abstracted: a call that can fail for lack of it, or because   *)
(* of an address, may fail here, and then it is a trap that changes        *)
(* nothing (ReturningTrap) or destroys the caller (FaultingTrap).          *)
(***************************************************************************)
EXTENDS Integers, Sequences

CONSTANTS CPUs,     \* the processors
          BSP,      \* the one that boots
          NoCpu,    \* nobody holds the kernel lock
          NENV,     \* slots of envs[]
          NoEnv,    \* curenv == NULL
          GenStep,  \* 1 << ENVGENSHIFT, the distance between generations
          IdLimit   \* 2^31: an env_id is a positive int32_t

Slots == 0 .. NENV - 1
EnvIds == 0 .. IdLimit - 1

ASSUME CpuAssumption == BSP \in CPUs /\ NoCpu \notin CPUs
ASSUME EnvAssumption == NENV \in Nat /\ NENV >= 2 /\ NoEnv \notin Slots
ASSUME IdAssumption == /\ GenStep \in Nat \ {0} /\ GenStep % NENV = 0
                       /\ IdLimit \in Nat /\ IdLimit % NENV = 0
                       /\ IdLimit > GenStep

VARIABLES env_status, env_id, env_parent_id, env_ipc_recving,   \* envs[]
          env_free_list,
          curenv,   \* curenv[c]: cpus[c].cpu_env
          mode,     \* mode[c]: where c is; it determines cpus[c].cpu_status
          lock      \* the CPU holding kernel_lock, or NoCpu

ids == <<env_id, env_parent_id>>
vars == <<env_status, env_id, env_parent_id, env_ipc_recving, env_free_list,
          curenv, mode, lock>>

Status == {"FREE", "DYING", "RUNNABLE", "RUNNING", "NOT_RUNNABLE"}

(* CPU_UNUSED is "unused", CPU_HALTED is "halted", all others CPU_STARTED: *)
(* "boot": in i386_init with the lock; "mp_main": an AP spinning for it;   *)
(* "trapped", "woken": spinning for it in trap(), from user mode or from   *)
(* hlt; "monitor": in the kernel monitor for good, with the lock.          *)
Modes == {"unused", "boot", "mp_main", "user", "trapped", "halted", "woken",
          "monitor"}
-----------------------------------------------------------------------------
(* The scheduler.  Every handler ends in one of these operators; st is     *)
(* env_status and cur is curenv as the handler leaves them.                *)

(* env_run always marks e RUNNING and leaves the kernel.                   *)
env_run(c, st, cur, e) ==
  /\ env_status' = [s \in Slots |->
                      IF s = e THEN "RUNNING"
                      ELSE IF s = cur /\ st[s] = "RUNNING" THEN "RUNNABLE"
                      ELSE st[s]]
  /\ curenv' = [curenv EXCEPT ![c] = e]
  /\ mode' = [mode EXCEPT ![c] = "user"]
  /\ lock' = NoCpu

(* A variant of sched_halt that does not release the kernel lock.          *)
sched_halt_locked(c, st, cur) ==
  /\ env_status' = st
  /\ curenv' = [curenv EXCEPT ![c] = NoEnv]
  /\ mode' = [mode EXCEPT ![c] = "halted"]
  /\ lock' = c

(* A variant that goes to the monitor when nothing is RUNNABLE.            *)
sched_halt_early(c, st, cur) ==
  /\ env_status' = st
  /\ curenv' = [curenv EXCEPT ![c] = cur]
  /\ mode' = [mode EXCEPT ![c] = "monitor"]
  /\ lock' = c

(* With nothing left that could ever run, the monitor keeps the lock.      *)
sched_halt(c, st, cur) ==
  /\ env_status' = st
  /\ IF \A s \in Slots : st[s] \notin {"RUNNABLE", "RUNNING", "DYING"}
     THEN /\ curenv' = [curenv EXCEPT ![c] = cur]
          /\ mode' = [mode EXCEPT ![c] = "monitor"]
          /\ lock' = c
     ELSE /\ curenv' = [curenv EXCEPT ![c] = NoEnv]
          /\ mode' = [mode EXCEPT ![c] = "halted"]
          /\ lock' = NoCpu

(* The slot the i-th iteration of sched_yield's loop looks at.             *)
Scanned(cur, i) == ((IF cur = NoEnv THEN 0 ELSE cur) + i) % NENV

(* e is the first RUNNABLE environment from curenv (or slot 0) on.         *)
FirstRunnable(st, cur, e) ==
  \E i \in Slots : /\ e = Scanned(cur, i)
                   /\ st[e] = "RUNNABLE"
                   /\ \A j \in 0 .. i - 1 : st[Scanned(cur, j)] # "RUNNABLE"

(* A variant whose scan also takes environments that are RUNNING.          *)
sched_yield_any(c, st, cur) ==
  \/ \E e \in Slots : st[e] \in {"RUNNABLE", "RUNNING"} /\ env_run(c, st, cur, e)
  \/ /\ \A s \in Slots : st[s] \notin {"RUNNABLE", "RUNNING"}
     /\ sched_halt(c, st, cur)

(* A variant that halts although its own environment could go on.          *)
sched_yield_no_resume(c, st, cur) ==
  \/ \E e \in Slots : FirstRunnable(st, cur, e) /\ env_run(c, st, cur, e)
  \/ /\ \A s \in Slots : st[s] # "RUNNABLE"
     /\ sched_halt(c, st, cur)

(* A variant whose loop stops one slot early.                              *)
sched_yield_short(c, st, cur) ==
  LET seen == {Scanned(cur, i) : i \in 0 .. NENV - 2}
  IN  \/ \E e \in seen : FirstRunnable(st, cur, e) /\ env_run(c, st, cur, e)
      \/ /\ \A s \in seen : st[s] # "RUNNABLE"
         /\ IF cur # NoEnv /\ st[cur] = "RUNNING"
            THEN env_run(c, st, cur, cur)
            ELSE sched_halt(c, st, cur)

sched_yield(c, st, cur) ==
  \/ \E e \in Slots : FirstRunnable(st, cur, e) /\ env_run(c, st, cur, e)
  \/ /\ \A s \in Slots : st[s] # "RUNNABLE"
     /\ IF cur # NoEnv /\ st[cur] = "RUNNING"
        THEN env_run(c, st, cur, cur)
        ELSE sched_halt(c, st, cur)

(* The end of trap(): back to curenv if it is still RUNNING.               *)
trap_return(c, st, cur) ==
  IF cur # NoEnv /\ st[cur] = "RUNNING" THEN env_run(c, st, cur, cur)
                                        ELSE sched_yield(c, st, cur)
-----------------------------------------------------------------------------
(* The environment table.                                                  *)

(* A variant that adds to the old id without clearing its slot bits.       *)
NextId_unmasked(e) ==
  LET generation == env_id[e] + GenStep
  IN  (IF generation >= IdLimit THEN GenStep ELSE generation) + e

(* The next env_id of slot e: the next generation, back to the first one   *)
(* when the sum is no longer a positive int32_t.                           *)
NextId(e) ==
  LET sum == env_id[e] + GenStep
      generation == sum - (sum % NENV)
  IN  (IF generation >= IdLimit THEN GenStep ELSE generation) + e

(* A variant that leaves the new environment on the free list.             *)
env_alloc_keeps_head(parent) ==
  LET e == Head(env_free_list)
  IN  /\ env_free_list # <<>>
      /\ env_id' = [env_id EXCEPT ![e] = NextId(e)]
      /\ env_parent_id' = [env_parent_id EXCEPT ![e] = parent]
      /\ env_ipc_recving' = [env_ipc_recving EXCEPT ![e] = FALSE]
      /\ UNCHANGED env_free_list

(* env_alloc on the head of the free list, already with the status its     *)
(* caller gives the new environment; the caller says what becomes of it.   *)
env_alloc(parent) ==
  LET e == Head(env_free_list)
  IN  /\ env_free_list # <<>>
      /\ env_free_list' = Tail(env_free_list)
      /\ env_id' = [env_id EXCEPT ![e] = NextId(e)]
      /\ env_parent_id' = [env_parent_id EXCEPT ![e] = parent]
      /\ env_ipc_recving' = [env_ipc_recving EXCEPT ![e] = FALSE]

(* env_free: the slot goes to the front of the free list.  Nothing else in *)
(* struct Env is cleared, the IPC flag included.                           *)
env_free(e) ==
  /\ env_free_list' = <<e>> \o env_free_list
  /\ UNCHANGED <<ids, env_ipc_recving>>

(* env_destroy, called by the handler of CPU c.                            *)
env_destroy(c, e) ==
  IF env_status[e] = "RUNNING" /\ curenv[c] # e
  THEN /\ trap_return(c, [env_status EXCEPT ![e] = "DYING"], curenv[c])
       /\ UNCHANGED <<ids, env_ipc_recving, env_free_list>>
  ELSE /\ env_free(e)
       /\ IF curenv[c] = e
          THEN sched_yield(c, [env_status EXCEPT ![e] = "FREE"], NoEnv)
          ELSE trap_return(c, [env_status EXCEPT ![e] = "FREE"], curenv[c])

(* envid2env with checkperm: the caller itself or one of its children.     *)
MayManage(c, e) ==
  /\ env_status[e] # "FREE"
  /\ e = curenv[c] \/ env_parent_id[e] = env_id[curenv[c]]
-----------------------------------------------------------------------------
(* Boot.                                                                   *)

Init ==
  /\ env_status = [e \in Slots |-> "FREE"]
  /\ env_id = [e \in Slots |-> 0]
  /\ env_parent_id = [e \in Slots |-> 0]
  /\ env_ipc_recving = [e \in Slots |-> FALSE]
  /\ env_free_list = [i \in 1 .. NENV |-> i - 1]
  /\ curenv = [c \in CPUs |-> NoEnv]
  /\ mode = [c \in CPUs |-> IF c = BSP THEN "boot" ELSE "unused"]
  /\ lock = BSP

(* The BSP starts an AP and waits until it says CPU_STARTED, which it does *)
(* just before it starts spinning for the kernel lock in mp_main.          *)
boot_aps(c) ==
  /\ mode[BSP] = "boot"
  /\ mode[c] = "unused"
  /\ mode' = [mode EXCEPT ![c] = "mp_main"]
  /\ UNCHANGED <<env_status, ids, env_ipc_recving, env_free_list, curenv, lock>>

(* With all APs up: the file server and the first user environment, from   *)
(* the first two slots of the free list, and then the scheduler.           *)
i386_init ==
  LET e1 == env_free_list[1]
      e2 == env_free_list[2]
  IN  /\ mode[BSP] = "boot"
      /\ \A c \in CPUs : mode[c] # "unused"
      /\ env_free_list' = SubSeq(env_free_list, 3, NENV)
      /\ env_id' = [env_id EXCEPT ![e1] = NextId(e1), ![e2] = NextId(e2)]
      /\ sched_yield(BSP, [env_status EXCEPT ![e1] = "RUNNABLE", ![e2] = "RUNNABLE"],
                     NoEnv)
      /\ UNCHANGED <<env_parent_id, env_ipc_recving>>

mp_main(c) ==
  /\ mode[c] = "mp_main"
  /\ lock = NoCpu
  /\ sched_yield(c, env_status, NoEnv)
  /\ UNCHANGED <<ids, env_ipc_recving, env_free_list>>
-----------------------------------------------------------------------------
(* Traps.                                                                  *)

(* Any exception, system call or interrupt takes c out of user mode.       *)
Trap(c) ==
  /\ mode[c] = "user"
  /\ mode' = [mode EXCEPT ![c] = "trapped"]
  /\ UNCHANGED <<env_status, ids, env_ipc_recving, env_free_list, curenv, lock>>

(* An interrupt wakes a halted CPU: xchg(&cpu_status, CPU_STARTED).        *)
Wake(c) ==
  /\ mode[c] = "halted"
  /\ mode' = [mode EXCEPT ![c] = "woken"]
  /\ UNCHANGED <<env_status, ids, env_ipc_recving, env_free_list, curenv, lock>>

(* It then has the lock and no curenv: whatever interrupt it was, the CPU  *)
(* ends in the scheduler.                                                  *)
WokenTrap(c) ==
  /\ mode[c] = "woken"
  /\ lock = NoCpu
  /\ sched_yield(c, env_status, NoEnv)
  /\ UNCHANGED <<ids, env_ipc_recving, env_free_list>>

(* c has the lock for a trap from user mode.                               *)
Locked(c) == mode[c] = "trapped" /\ lock = NoCpu

(* A variant of trap() that does not look for zombies.                     *)
ZombieTrapMissed(c) ==
  /\ Locked(c)
  /\ env_status[curenv[c]] = "DYING"
  /\ trap_return(c, env_status, curenv[c])
  /\ UNCHANGED <<ids, env_ipc_recving, env_free_list>>

(* A zombie is freed by the CPU that runs it, at its next trap.            *)
ZombieTrap(c) ==
  /\ Locked(c)
  /\ env_status[curenv[c]] = "DYING"
  /\ env_free(curenv[c])
  /\ sched_yield(c, [env_status EXCEPT ![curenv[c]] = "FREE"], NoEnv)

(* A variant in which a zombie that traps is served like any other.        *)
DispatchZombie(c) == Locked(c) /\ env_status[curenv[c]] # "FREE"

(* The trap goes on to trap_dispatch.  (A CPU whose environment has been   *)
(* freed under it, status FREE, works on a page directory that is gone:    *)
(* it is not followed further.)                                            *)
Dispatch(c) == Locked(c) /\ env_status[curenv[c]] \notin {"DYING", "FREE"}

(* The timer interrupt and sys_yield.                                      *)
TimerTrap(c) ==
  /\ Dispatch(c)
  /\ sched_yield(c, env_status, curenv[c])
  /\ UNCHANGED <<ids, env_ipc_recving, env_free_list>>

(* Every trap that leaves the environments as they are: console calls and  *)
(* interrupts, sys_getenvid, the page calls, setting an upcall or a trap   *)
(* frame, and every system call that returns an error.                     *)
ReturningTrap(c) ==
  /\ Dispatch(c)
  /\ trap_return(c, env_status, curenv[c])
  /\ UNCHANGED <<ids, env_ipc_recving, env_free_list>>

(* A page fault with an upcall: env_run(curenv) straight from the handler. *)
UpcallTrap(c) ==
  /\ Dispatch(c)
  /\ env_run(c, env_status, curenv[c], curenv[c])
  /\ UNCHANGED <<ids, env_ipc_recving, env_free_list>>

(* A fault without an upcall or without room on the exception stack, an    *)
(* unexpected trap, and a bad address given to sys_cputs.                  *)
FaultingTrap(c) == Dispatch(c) /\ env_destroy(c, curenv[c])
-----------------------------------------------------------------------------
(* System calls.  e is the environment the envid argument names.           *)

sys_exofork(c) ==
  LET e == Head(env_free_list)
  IN  /\ Dispatch(c)
      /\ env_alloc(env_id[curenv[c]])
      /\ trap_return(c, [env_status EXCEPT ![e] = "NOT_RUNNABLE"], curenv[c])

sys_env_destroy(c, e) ==
  /\ Dispatch(c)
  /\ MayManage(c, e)
  /\ env_destroy(c, e)

(* The call destroys e when tf is not writable in e's address space, and   *)
(* goes on to write e's trap frame.                                        *)
sys_env_set_trapframe(c, e) ==
  /\ Dispatch(c)
  /\ MayManage(c, e)
  /\ env_destroy(c, e)

(* The new status is checked, the old one is not.                          *)
sys_env_set_status(c, e, status) ==
  /\ Dispatch(c)
  /\ MayManage(c, e)
  /\ trap_return(c, [env_status EXCEPT ![e] = status], curenv[c])
  /\ UNCHANGED <<ids, env_ipc_recving, env_free_list>>

(* A variant of sys_ipc_try_send that leaves the receiver open.            *)
sys_ipc_try_send_again(c, e) ==
  /\ Dispatch(c)
  /\ env_status[e] # "FREE"
  /\ env_ipc_recving[e]
  /\ trap_return(c, [env_status EXCEPT ![e] = "RUNNABLE"], curenv[c])
  /\ UNCHANGED <<ids, env_ipc_recving, env_free_list>>

(* A send that succeeds: no permission is needed.                          *)
sys_ipc_try_send(c, e) ==
  /\ Dispatch(c)
  /\ env_status[e] # "FREE"
  /\ env_ipc_recving[e]
  /\ env_ipc_recving' = [env_ipc_recving EXCEPT ![e] = FALSE]
  /\ trap_return(c, [env_status EXCEPT ![e] = "RUNNABLE"], curenv[c])
  /\ UNCHANGED <<ids, env_free_list>>

sys_ipc_recv(c) ==
  /\ Dispatch(c)
  /\ env_ipc_recving' = [env_ipc_recving EXCEPT ![curenv[c]] = TRUE]
  /\ sched_yield(c, [env_status EXCEPT ![curenv[c]] = "NOT_RUNNABLE"], curenv[c])
  /\ UNCHANGED <<ids, env_free_list>>
-----------------------------------------------------------------------------
(* Traps that create or destroy no environment.                            *)
QuietStep(c) ==
  \/ boot_aps(c) \/ mp_main(c)
  \/ Trap(c) \/ Wake(c) \/ WokenTrap(c)
  \/ TimerTrap(c) \/ ReturningTrap(c) \/ UpcallTrap(c)
  \/ sys_ipc_recv(c)
  \/ \E e \in Slots : sys_ipc_try_send(c, e)

Step(c) == QuietStep(c) \/ ZombieTrap(c) \/ FaultingTrap(c) \/ sys_exofork(c)

(* Programs that make any system call on any environment they may manage.  *)
Next ==
  \/ i386_init
  \/ \E c \in CPUs :
       \/ Step(c)
       \/ \E e \in Slots : \/ sys_env_destroy(c, e)
                           \/ sys_env_set_trapframe(c, e)
                           \/ sys_env_set_status(c, e, "RUNNABLE")
                           \/ sys_env_set_status(c, e, "NOT_RUNNABLE")

Spec == Init /\ [][Next]_vars

(* A child that its parent has not started yet.                            *)
Embryo(c, e) == /\ e # curenv[c]
                /\ env_status[e] = "NOT_RUNNABLE"
                /\ ~ env_ipc_recving[e]

(***************************************************************************)
(* Programs that use the calls as fork, spawn, exit and the programs under *)
(* user/ do: a trap frame and a status are set for a child that has not    *)
(* been started, and a child is not destroyed a second time.               *)
(***************************************************************************)
LibNext ==
  \/ i386_init
  \/ \E c \in CPUs :
       \/ Step(c)
       \/ \E e \in Slots :
            \/ env_status[e] # "DYING" /\ sys_env_destroy(c, e)
            \/ Embryo(c, e) /\ sys_env_set_trapframe(c, e)
            \/ Embryo(c, e) /\ sys_env_set_status(c, e, "RUNNABLE")

LibSpec == Init /\ [][LibNext]_vars

(* The same programs as long as none of them exits or faults.              *)
NoExitNext ==
  \/ i386_init
  \/ \E c \in CPUs :
       \/ QuietStep(c)
       \/ sys_exofork(c)
       \/ \E e \in Slots : Embryo(c, e) /\ sys_env_set_status(c, e, "RUNNABLE")

(***************************************************************************)
(* CPUs keep running and the LAPIC timer of each CPU keeps interrupting    *)
(* it: a halted CPU wakes, a CPU in user mode traps, and not for other     *)
(* reasons for ever.  A CPU that spins for the kernel lock is assumed not  *)
(* to lose every race for it: the code has no queue, but the lock does     *)
(* become free again and again (LockKeepsMoving in Spinlock).              *)
(***************************************************************************)
Fairness ==
  /\ WF_vars(i386_init)
  /\ \A c \in CPUs : /\ WF_vars(boot_aps(c)) /\ WF_vars(mp_main(c))
                     /\ WF_vars(Trap(c)) /\ WF_vars(ZombieTrap(c))
                     /\ WF_vars(Wake(c)) /\ WF_vars(WokenTrap(c))
                     /\ SF_vars(TimerTrap(c))

FairLibSpec == LibSpec /\ Fairness
-----------------------------------------------------------------------------
TypeOK ==
  /\ env_status \in [Slots -> Status]
  /\ env_id \in [Slots -> EnvIds]
  /\ env_parent_id \in [Slots -> EnvIds]
  /\ env_ipc_recving \in [Slots -> BOOLEAN]
  /\ env_free_list \in Seq(Slots)
  /\ curenv \in [CPUs -> Slots \cup {NoEnv}]
  /\ mode \in [CPUs -> Modes]
  /\ lock \in CPUs \cup {NoCpu}

(* c runs user code of curenv[c], or is in the kernel on its behalf.       *)
Runs(c) == mode[c] \in {"user", "trapped"}

(* No environment runs on two CPUs at once: sched_yield never takes one    *)
(* that is current on another CPU (sched.c:26, user/stresssched.c:25).     *)
OneCpuPerEnv ==
  \A c, d \in CPUs : Runs(c) /\ Runs(d) /\ curenv[c] = curenv[d] => c = d

(* env_status tells the truth about the CPUs: an environment is RUNNING    *)
(* or DYING exactly while some CPU runs it.  So an environment another CPU *)
(* runs is never freed under it (env.c:504), no RUNNING environment is     *)
(* stranded without a CPU, and no zombie is left that no trap would free.  *)
RunningIffCurrent ==
  \A e \in Slots :
    env_status[e] \in {"RUNNING", "DYING"} <=> \E c \in CPUs : Runs(c) /\ curenv[c] = e

(* An id of slot e: not 0, which envid2env takes for the caller, and ENVX  *)
(* of it is e.                                                             *)
NamesSlot(id, e) == id >= GenStep /\ id % NENV = e

(* Every environment's id leads envid2env (env.c:79-96) back to its own    *)
(* slot through any number of reuses and wrap-arounds of the generation,   *)
(* so no two environments ever share one.                                  *)
IdNamesSlot == \A e \in Slots : env_status[e] # "FREE" => NamesSlot(env_id[e], e)

(* The list fl holds every slot that st calls FREE once, and no other.     *)
ExactlyFree(fl, st) ==
  /\ \A i, j \in 1 .. Len(fl) : fl[i] = fl[j] => i = j
  /\ \A e \in Slots : st[e] = "FREE" <=> \E i \in 1 .. Len(fl) : fl[i] = e

(* env_free_list holds every FREE slot once, and no other (env.c:264, 492).*)
FreeListExact == ExactlyFree(env_free_list, env_status)

(* Who is receiving is parked: the unconditional RUNNABLE at the end of    *)
(* sys_ipc_try_send (syscall.c:401) never hits an environment that is on a *)
(* CPU, dying, or not started.                                             *)
ReceiverParked ==
  \A e \in Slots : env_ipc_recving[e] => env_status[e] \in {"NOT_RUNNABLE", "FREE"}

(* The kernel gives up (sched.c:67) only when no CPU is running a program  *)
(* and none could.                                                         *)
GivesUpOnlyWhenIdle ==
  \A c \in CPUs : mode[c] = "monitor" =>
    /\ \A e \in Slots : env_status[e] \in {"FREE", "NOT_RUNNABLE"}
    /\ \A d \in CPUs \ {c} : mode[d] \in {"mp_main", "halted", "woken"}

(* Nobody waits for the kernel lock in vain: as long as the kernel has not *)
(* given up, some CPU can take its next step.                              *)
StuckOnlyInMonitor ==
  (\E c \in CPUs : mode[c] = "monitor") \/ ENABLED LibNext

ZombieStep ==
  \A e \in Slots : env_status[e] = "DYING" =>
    \/ env_status'[e] = "DYING"
    \/ env_status'[e] = "FREE" /\ \A c \in CPUs : curenv'[c] # e

(* A zombie only gets freed, and by then no CPU has it as curenv           *)
(* (env.c:504: "will be freed the next time it traps to the kernel").      *)
ZombieFreedByItsTrap == [][ZombieStep]_vars

(* A destroyed environment does go away (trap.c:350).                      *)
ZombieReaped == \A e \in Slots : env_status[e] = "DYING" ~> env_status[e] = "FREE"

(* Round robin (sched.c:16): once no environment exits or faults any more, *)
(* every runnable environment gets a CPU.  The premise is needed: an exit  *)
(* leaves curenv NULL, and the next scan starts at slot 0 again.           *)
RoundRobin ==
  <>[][NoExitNext]_vars =>
    \A e \in Slots : env_status[e] = "RUNNABLE" ~> env_status[e] # "RUNNABLE"
=============================================================================
