--------------------------- MODULE KernelEnvProofs ---------------------------
(***************************************************************************)
(* Proofs about KernelEnv, for any number of CPUs and slots: for programs  *)
(* that use the calls as the library does (LibSpec), the environment table *)
(* and the CPUs always agree.                                              *)
(***************************************************************************)
EXTENDS KernelEnv, TLAPS

(* A CPU holds the kernel lock between two steps only while it boots the   *)
(* machine or after it has given up.                                       *)
LockInv == \A c \in CPUs : lock = c <=> mode[c] \in {"boot", "monitor"}

(* A CPU that runs an environment has a curenv; one that waits for work    *)
(* has none.                                                               *)
CurenvInv ==
  \A c \in CPUs : /\ Runs(c) => curenv[c] \in Slots
                  /\ ~ Runs(c) /\ mode[c] # "monitor" => curenv[c] = NoEnv

(* While the BSP boots nothing exists yet, and it has started every AP     *)
(* before it stops booting.                                                *)
BootInv ==
  /\ \A c \in CPUs : mode[c] = "unused" => mode[BSP] = "boot"
  /\ \A c \in CPUs : mode[c] = "boot" =>
       /\ c = BSP
       /\ env_free_list = [i \in 1 .. NENV |-> i - 1]
       /\ env_status = [e \in Slots |-> "FREE"]
       /\ env_ipc_recving = [e \in Slots |-> FALSE]
       /\ \A d \in CPUs \ {BSP} : mode[d] \in {"unused", "mp_main"}

IInv == /\ TypeOK /\ LockInv /\ CurenvInv /\ BootInv
        /\ OneCpuPerEnv /\ RunningIffCurrent /\ IdNamesSlot
        /\ FreeListExact /\ ReceiverParked /\ GivesUpOnlyWhenIdle

-----------------------------------------------------------------------------
(* The free list.                                                          *)

(* Freeing slot e keeps the list exact.                                    *)
LEMMA PushFree ==
  ASSUME NEW fl \in Seq(Slots), NEW st \in [Slots -> Status], NEW e \in Slots,
         ExactlyFree(fl, st), st[e] # "FREE"
  PROVE  /\ <<e>> \o fl \in Seq(Slots)
         /\ ExactlyFree(<<e>> \o fl, [st EXCEPT ![e] = "FREE"])
<1> DEFINE gl == <<e>> \o fl
           tt == [st EXCEPT ![e] = "FREE"]
<1>1. gl \in Seq(Slots) /\ Len(gl) = Len(fl) + 1 /\ Len(fl) \in Nat
  OBVIOUS
<1>2. gl[1] = e /\ \A i \in 2 .. Len(gl) : gl[i] = fl[i - 1] /\ i - 1 \in 1 .. Len(fl)
  OBVIOUS
<1>3. \A i \in 1 .. Len(fl) : fl[i] # e
  BY Zenon DEF ExactlyFree
<1>4. \A i, j \in 1 .. Len(gl) : gl[i] = gl[j] => i = j
  <2> SUFFICES ASSUME NEW i \in 1 .. Len(gl), NEW j \in 1 .. Len(gl), gl[i] = gl[j]
               PROVE  i = j
    BY Zenon
  <2> HIDE DEF gl
  <2>1. CASE i = 1 /\ j = 1
    BY <2>1, Zenon
  <2>2. CASE i = 1 /\ j # 1
    <3>1. j \in 2 .. Len(gl)
      BY <2>2, <1>1
    <3>2. gl[j] = fl[j - 1] /\ j - 1 \in 1 .. Len(fl)
      BY <3>1, <1>2, Zenon
    <3>3. QED BY <2>2, <3>2, <1>2, <1>3, Zenon
  <2>3. CASE i # 1 /\ j = 1
    BY <2>3, <1>1, <1>2, <1>3
  <2>4. CASE i # 1 /\ j # 1
    <3>1. i \in 2 .. Len(gl) /\ j \in 2 .. Len(gl)
      BY <2>4, <1>1
    <3>2. fl[i - 1] = fl[j - 1] /\ i - 1 \in 1 .. Len(fl) /\ j - 1 \in 1 .. Len(fl)
      BY <3>1, <1>2, Zenon
    <3>3. i - 1 = j - 1
      BY <3>2 DEF ExactlyFree
    <3>4. QED BY <3>3, <3>1, <1>1
  <2>5. QED BY <2>1, <2>2, <2>3, <2>4, Zenon
<1>5. ASSUME NEW s \in Slots
      PROVE  tt[s] = "FREE" <=> \E i \in 1 .. Len(gl) : gl[i] = s
  <2> HIDE DEF gl
  <2>1. CASE s = e
    BY <2>1, <1>1, <1>2
  <2>2. CASE s # e
    <3>1. tt[s] = st[s]
      BY <2>2, Zenon
    <3>2. ASSUME NEW i \in 1 .. Len(fl), fl[i] = s
          PROVE  i + 1 \in 1 .. Len(gl) /\ gl[i + 1] = s
      BY <3>2, <1>1, <1>2
    <3>3. ASSUME NEW i \in 1 .. Len(gl), gl[i] = s
          PROVE  i - 1 \in 1 .. Len(fl) /\ fl[i - 1] = s
      BY <3>3, <1>1, <1>2, <2>2
    <3>4. QED BY <3>1, <3>2, <3>3, Zenon DEF ExactlyFree
  <2>3. QED BY <2>1, <2>2, Zenon
<1>6. QED BY <1>1, <1>4, <1>5, Zenon DEF ExactlyFree

(* Taking the first slot of the list keeps it exact.                       *)
LEMMA PopFree ==
  ASSUME NEW fl \in Seq(Slots), NEW st \in [Slots -> Status], fl # <<>>,
         NEW s \in Status, s # "FREE", ExactlyFree(fl, st)
  PROVE  /\ Head(fl) \in Slots
         /\ Tail(fl) \in Seq(Slots)
         /\ st[Head(fl)] = "FREE"
         /\ ExactlyFree(Tail(fl), [st EXCEPT ![Head(fl)] = s])
<1> DEFINE gl == Tail(fl)
           e == Head(fl)
           tt == [st EXCEPT ![e] = s]
<1>1. /\ e \in Slots /\ e = fl[1] /\ gl \in Seq(Slots)
      /\ Len(fl) \in Nat /\ Len(fl) >= 1 /\ Len(gl) = Len(fl) - 1
      /\ \A i \in 1 .. Len(gl) : gl[i] = fl[i + 1] /\ i + 1 \in 1 .. Len(fl)
  OBVIOUS
<1>2. st[e] = "FREE"
  BY <1>1 DEF ExactlyFree
<1> HIDE DEF gl, e
<1>3. \A i, j \in 1 .. Len(gl) : gl[i] = gl[j] => i = j
  BY <1>1 DEF ExactlyFree
<1>4. ASSUME NEW x \in Slots
      PROVE  tt[x] = "FREE" <=> \E i \in 1 .. Len(gl) : gl[i] = x
  <2>1. CASE x = e
    BY <2>1, <1>1 DEF ExactlyFree
  <2>2. CASE x # e
    <3>1. tt[x] = st[x]
      BY <2>2, Zenon
    <3>2. ASSUME NEW i \in 1 .. Len(fl), fl[i] = x
          PROVE  i - 1 \in 1 .. Len(gl) /\ gl[i - 1] = x
      BY <3>2, <1>1, <2>2
    <3>3. ASSUME NEW i \in 1 .. Len(gl), gl[i] = x
          PROVE  i + 1 \in 1 .. Len(fl) /\ fl[i + 1] = x
      BY <3>3, <1>1, Zenon
    <3>4. QED BY <3>1, <3>2, <3>3 DEF ExactlyFree
  <2>3. QED BY <2>1, <2>2, Zenon
<1>5. QED BY <1>1, <1>2, <1>3, <1>4, Zenon DEF ExactlyFree, gl, e
-----------------------------------------------------------------------------
(* The scheduler.                                                          *)

(* What a handler on CPU c has made of the table when it reaches the       *)
(* scheduler with statuses st and curenv cur: c alone is in the kernel,    *)
(* apart from cur exactly the environments of the other CPUs are RUNNING   *)
(* or DYING, and a zombie is still one or has been freed.                  *)
InKernel(c, st, cur) ==
  /\ mode[c] # "unused"
  /\ \A d \in CPUs \ {c} : mode[d] \notin {"unused", "boot", "monitor"}
  /\ st \in [Slots -> Status]
  /\ cur \in Slots \cup {NoEnv}
  /\ cur # NoEnv => st[cur] \notin {"FREE", "DYING"}
  /\ \A d \in CPUs \ {c} :
       Runs(d) => st[curenv[d]] \in {"RUNNING", "DYING"} /\ curenv[d] # cur
  /\ \A s \in Slots :
       st[s] \in {"RUNNING", "DYING"} /\ s # cur
         => \E d \in CPUs \ {c} : Runs(d) /\ curenv[d] = s
  /\ \A s \in Slots : env_status[s] = "DYING" => st[s] \in {"DYING", "FREE"}
  /\ env_id' \in [Slots -> EnvIds]
  /\ env_parent_id' \in [Slots -> EnvIds]
  /\ \A s \in Slots : st[s] # "FREE" => NamesSlot(env_id'[s], s)
  /\ env_ipc_recving' \in [Slots -> BOOLEAN]
  /\ \A s \in Slots : env_ipc_recving'[s] => st[s] \in {"NOT_RUNNABLE", "FREE"}
  /\ env_free_list' \in Seq(Slots)
  /\ ExactlyFree(env_free_list', st)

(* env_run of a runnable environment, or of the current one.               *)
LEMMA RunPreserves ==
  ASSUME IInv, NEW c \in CPUs, NEW st, NEW cur, NEW e \in Slots,
         InKernel(c, st, cur),
         st[e] = "RUNNABLE" \/ (e = cur /\ st[e] = "RUNNING"),
         env_run(c, st, cur, e)
  PROVE  IInv'
<1> USE CpuAssumption, EnvAssumption
<1>1. TypeOK'
  BY DEF IInv, TypeOK, InKernel, env_run, Status, Modes
<1>2. /\ mode'[c] = "user" /\ curenv'[c] = e /\ e # NoEnv
      /\ \A d \in CPUs \ {c} : mode'[d] = mode[d] /\ curenv'[d] = curenv[d]
  BY Zenon DEF IInv, TypeOK, env_run
<1>3. \A d \in CPUs : mode'[d] \notin {"unused", "boot", "monitor"}
  BY <1>2, Zenon DEF InKernel
<1>4. LockInv'
  BY <1>3, Zenon DEF LockInv, env_run
<1>5. CurenvInv'
  BY <1>2, <1>3, Zenon DEF CurenvInv, IInv, Runs
<1>6. BootInv' /\ GivesUpOnlyWhenIdle'
  BY <1>3, Zenon DEF BootInv, GivesUpOnlyWhenIdle
<1>7. \A d \in CPUs \ {c} : Runs(d) => curenv[d] \in Slots /\ curenv[d] # e
  BY Zenon DEF InKernel, IInv, CurenvInv
<1>8. OneCpuPerEnv'
  BY <1>2, <1>7 DEF OneCpuPerEnv, IInv, Runs
<1>9. RunningIffCurrent'
  <2> SUFFICES ASSUME NEW s \in Slots
               PROVE  env_status'[s] \in {"RUNNING", "DYING"}
                        <=> \E d \in CPUs : Runs(d)' /\ curenv'[d] = s
    BY Zenon DEF RunningIffCurrent
  <2>1. CASE s = e
    BY <2>1, <1>2, Zenon DEF Runs, env_run
  <2>2. CASE s # e
    <3>1. env_status'[s] \in {"RUNNING", "DYING"}
            <=> st[s] \in {"RUNNING", "DYING"} /\ s # cur
      BY <2>2 DEF env_run, InKernel
    <3>2. (\E d \in CPUs : Runs(d)' /\ curenv'[d] = s)
            <=> \E d \in CPUs \ {c} : Runs(d) /\ curenv[d] = s
      BY <2>2, <1>2, Zenon DEF Runs
    <3>3. QED BY <3>1, <3>2, Zenon DEF InKernel
  <2>3. QED BY <2>1, <2>2, Zenon
<1>10. \A s \in Slots : env_status'[s] = "FREE" <=> st[s] = "FREE"
  BY Zenon DEF env_run, InKernel
<1>11. FreeListExact'
  BY <1>10, Zenon DEF FreeListExact, ExactlyFree, InKernel
<1>12. ReceiverParked'
  BY Zenon DEF ReceiverParked, InKernel, env_run
<1>13. IdNamesSlot'
  BY <1>10, Zenon DEF IdNamesSlot, NamesSlot, InKernel
<1>14. QED BY <1>1, <1>4, <1>5, <1>6, <1>8, <1>9, <1>11, <1>12, <1>13, Zenon DEF IInv

(* sched_halt, with nothing RUNNABLE and no current environment to resume. *)
LEMMA HaltPreserves ==
  ASSUME IInv, NEW c \in CPUs, NEW st, NEW cur,
         InKernel(c, st, cur),
         \A s \in Slots : st[s] # "RUNNABLE",
         cur = NoEnv \/ st[cur] # "RUNNING",
         sched_halt(c, st, cur)
  PROVE  IInv'
<1> USE CpuAssumption, EnvAssumption
<1> DEFINE Idle == \A s \in Slots : st[s] \notin {"RUNNABLE", "RUNNING", "DYING"}
<1>1. TypeOK'
  <2>1. /\ curenv \in [CPUs -> Slots \cup {NoEnv}] /\ cur \in Slots \cup {NoEnv}
        /\ mode \in [CPUs -> Modes] /\ {"monitor", "halted"} \subseteq Modes
    BY Zenon DEF IInv, TypeOK, InKernel, Modes
  <2>2. /\ curenv' \in [CPUs -> Slots \cup {NoEnv}]
        /\ mode' \in [CPUs -> Modes]
        /\ lock' \in CPUs \cup {NoCpu}
    BY <2>1, Zenon DEF sched_halt
  <2>3. QED BY <2>2, Zenon DEF TypeOK, InKernel, sched_halt
<1>2. /\ env_status' = st
      /\ \A d \in CPUs \ {c} : mode'[d] = mode[d] /\ curenv'[d] = curenv[d]
      /\ Idle => mode'[c] = "monitor" /\ lock' = c
      /\ ~ Idle => mode'[c] = "halted" /\ curenv'[c] = NoEnv /\ lock' = NoCpu
  BY Zenon DEF IInv, TypeOK, sched_halt
<1>3. /\ mode'[c] \in {"monitor", "halted"}
      /\ \A d \in CPUs \ {c} : mode'[d] \notin {"unused", "boot", "monitor"}
  BY <1>2, Zenon DEF InKernel
<1>4. LockInv'
  BY <1>2, <1>3, Zenon DEF LockInv
<1>5. CurenvInv'
  BY <1>2, <1>3, Zenon DEF CurenvInv, IInv, Runs
<1>6. BootInv'
  BY <1>3, Zenon DEF BootInv
<1>7. \A d \in CPUs : Runs(d)' <=> d # c /\ Runs(d)
  BY <1>2, <1>3, Zenon DEF Runs
<1>8. OneCpuPerEnv'
  BY <1>2, <1>7, Zenon DEF OneCpuPerEnv, IInv
<1>9. RunningIffCurrent'
  <2>1. \A s \in Slots : st[s] \in {"RUNNING", "DYING"} => s # cur
    BY DEF InKernel
  <2>2. \A s \in Slots : st[s] \in {"RUNNING", "DYING"}
                           <=> \E d \in CPUs \ {c} : Runs(d) /\ curenv[d] = s
    BY <2>1, Zenon DEF InKernel
  <2>3. QED BY <2>2, <1>2, <1>7 DEF RunningIffCurrent
<1>10. FreeListExact' /\ ReceiverParked' /\ IdNamesSlot'
  BY <1>2, Zenon DEF FreeListExact, ReceiverParked, IdNamesSlot, NamesSlot, InKernel
<1>11. GivesUpOnlyWhenIdle'
  <2> SUFFICES ASSUME NEW d \in CPUs, mode'[d] = "monitor"
               PROVE  /\ \A s \in Slots : env_status'[s] \in {"FREE", "NOT_RUNNABLE"}
                      /\ \A f \in CPUs \ {d} : mode'[f] \in {"mp_main", "halted", "woken"}
    BY Zenon DEF GivesUpOnlyWhenIdle
  <2>1. d = c /\ Idle
    BY <1>2, <1>3, Zenon
  <2>2. \A s \in Slots : env_status'[s] \in {"FREE", "NOT_RUNNABLE"}
    BY <2>1, <1>2 DEF InKernel, Status
  <2>3. \A f \in CPUs \ {c} : ~ Runs(f)
    <3>1. \A f \in CPUs \ {c} : Runs(f) => curenv[f] \in Slots
      BY Zenon DEF IInv, CurenvInv
    <3>2. QED BY <2>1, <3>1 DEF InKernel
  <2>4. \A f \in CPUs \ {c} :
          /\ mode[f] \in Modes
          /\ mode[f] \notin {"unused", "boot", "monitor", "user", "trapped"}
    BY <2>3, Zenon DEF InKernel, IInv, TypeOK, Runs
  <2>5. QED BY <2>1, <2>2, <2>4, <1>2, Zenon DEF Modes
<1>12. QED BY <1>1, <1>4, <1>5, <1>6, <1>8, <1>9, <1>10, <1>11, Zenon DEF IInv

(* Neither touches a zombie, and no CPU has one that was freed as curenv.  *)
LEMMA RunKeepsZombies ==
  ASSUME IInv, NEW c \in CPUs, NEW st, NEW cur, NEW e \in Slots,
         InKernel(c, st, cur),
         st[e] = "RUNNABLE" \/ (e = cur /\ st[e] = "RUNNING"),
         env_run(c, st, cur, e)
  PROVE  ZombieStep
<1> SUFFICES ASSUME NEW z \in Slots, env_status[z] = "DYING"
             PROVE  \/ env_status'[z] = "DYING"
                    \/ env_status'[z] = "FREE" /\ \A d \in CPUs : curenv'[d] # z
  BY Zenon DEF ZombieStep
<1>1. st[z] \in {"DYING", "FREE"} /\ z # e /\ z # NoEnv /\ env_status'[z] = st[z]
  BY EnvAssumption, Zenon DEF InKernel, env_run
<1>2. curenv'[c] = e /\ \A d \in CPUs \ {c} : curenv'[d] = curenv[d]
  BY Zenon DEF IInv, TypeOK, env_run
<1>3. \A d \in CPUs \ {c} : st[z] = "FREE" => curenv[d] # z
  BY <1>1, Zenon DEF InKernel, IInv, CurenvInv
<1>4. QED BY <1>1, <1>2, <1>3, Zenon

LEMMA HaltKeepsZombies ==
  ASSUME IInv, NEW c \in CPUs, NEW st, NEW cur,
         InKernel(c, st, cur), sched_halt(c, st, cur)
  PROVE  ZombieStep
<1> SUFFICES ASSUME NEW z \in Slots, env_status[z] = "DYING"
             PROVE  \/ env_status'[z] = "DYING"
                    \/ env_status'[z] = "FREE" /\ \A d \in CPUs : curenv'[d] # z
  BY Zenon DEF ZombieStep
<1>1. st[z] \in {"DYING", "FREE"} /\ z # cur /\ z # NoEnv /\ env_status'[z] = st[z]
  BY EnvAssumption DEF InKernel, sched_halt
<1>2. /\ curenv'[c] \in {cur, NoEnv}
      /\ \A d \in CPUs \ {c} : curenv'[d] = curenv[d]
  BY Zenon DEF IInv, TypeOK, sched_halt
<1>3. \A d \in CPUs \ {c} : st[z] = "FREE" => curenv[d] # z
  BY <1>1, Zenon DEF InKernel, IInv, CurenvInv
<1>4. QED BY <1>1, <1>2, <1>3, Zenon

(* So the two ways out of a handler keep the invariant.                    *)
LEMMA YieldPreserves ==
  ASSUME IInv, NEW c \in CPUs, NEW st, NEW cur,
         InKernel(c, st, cur), sched_yield(c, st, cur)
  PROVE  IInv' /\ ZombieStep
<1>1. cur = NoEnv \/ cur \in Slots
  BY Zenon DEF InKernel
<1>2. CASE \E e \in Slots : FirstRunnable(st, cur, e) /\ env_run(c, st, cur, e)
  BY <1>2, RunPreserves, RunKeepsZombies, Zenon DEF FirstRunnable
<1>3. CASE /\ \A s \in Slots : st[s] # "RUNNABLE"
           /\ IF cur # NoEnv /\ st[cur] = "RUNNING"
              THEN env_run(c, st, cur, cur)
              ELSE sched_halt(c, st, cur)
  <2>1. CASE cur # NoEnv /\ st[cur] = "RUNNING"
    BY <1>1, <1>3, <2>1, RunPreserves, RunKeepsZombies, Zenon
  <2>2. CASE ~ (cur # NoEnv /\ st[cur] = "RUNNING")
    BY <1>3, <2>2, HaltPreserves, HaltKeepsZombies, Zenon
  <2>3. QED BY <2>1, <2>2, Zenon
<1>4. QED BY <1>2, <1>3, Zenon DEF sched_yield

LEMMA ReturnPreserves ==
  ASSUME IInv, NEW c \in CPUs, NEW st, NEW cur,
         InKernel(c, st, cur), trap_return(c, st, cur)
  PROVE  IInv' /\ ZombieStep
<1>1. cur = NoEnv \/ cur \in Slots
  BY Zenon DEF InKernel
<1>2. CASE cur # NoEnv /\ st[cur] = "RUNNING"
  BY <1>1, <1>2, RunPreserves, RunKeepsZombies, Zenon DEF trap_return
<1>3. CASE ~ (cur # NoEnv /\ st[cur] = "RUNNING")
  BY <1>3, YieldPreserves, Zenon DEF trap_return
<1>4. QED BY <1>2, <1>3, Zenon
-----------------------------------------------------------------------------
(* Handlers.                                                               *)

(* A CPU that gets the lock is alone in the kernel, and no CPU is unused.  *)
LEMMA Alone ==
  ASSUME IInv, lock = NoCpu
  PROVE  \A d \in CPUs : mode[d] \notin {"unused", "boot", "monitor"}
BY CpuAssumption, Zenon DEF IInv, LockInv, BootInv

(* A CPU with no environment takes the table as it finds it.               *)
LEMMA IdleEntry ==
  ASSUME IInv, NEW c \in CPUs, lock = NoCpu, ~ Runs(c),
         UNCHANGED <<ids, env_ipc_recving, env_free_list>>
  PROVE  InKernel(c, env_status, NoEnv)
<1>1. \A d \in CPUs : mode[d] \notin {"unused", "boot", "monitor"}
  BY Alone, Zenon
<1>2. \A d \in CPUs : Runs(d) => d # c /\ curenv[d] \in Slots /\ curenv[d] # NoEnv
  BY EnvAssumption, Zenon DEF IInv, CurenvInv
<1>3. \A s \in Slots : env_status[s] \in {"RUNNING", "DYING"}
                         <=> \E d \in CPUs \ {c} : Runs(d) /\ curenv[d] = s
  BY <1>2, Zenon DEF IInv, RunningIffCurrent
<1>4. QED BY <1>1, <1>2, <1>3, Zenon
          DEF InKernel, IInv, TypeOK, ReceiverParked, FreeListExact, IdNamesSlot, ids

(* What c knows when it has the lock for a trap from user mode.            *)
LEMMA TrapEntry ==
  ASSUME IInv, NEW c \in CPUs, Locked(c)
  PROVE  /\ mode[c] # "unused"
         /\ \A d \in CPUs \ {c} : mode[d] \notin {"unused", "boot", "monitor"}
         /\ curenv[c] \in Slots /\ curenv[c] # NoEnv
         /\ env_status[curenv[c]] \in {"RUNNING", "DYING"}
         /\ \A d \in CPUs \ {c} :
              Runs(d) => /\ curenv[d] \in Slots /\ curenv[d] # curenv[c]
                         /\ curenv[d] # NoEnv
                         /\ env_status[curenv[d]] \in {"RUNNING", "DYING"}
         /\ \A s \in Slots :
              env_status[s] \in {"RUNNING", "DYING"} /\ s # curenv[c]
                => \E d \in CPUs \ {c} : Runs(d) /\ curenv[d] = s
<1>1. \A d \in CPUs : mode[d] \notin {"unused", "boot", "monitor"}
  BY Alone, ZenonT(60) DEF Locked
<1>2. Runs(c)
  BY Zenon DEF Runs, Locked
<1>3. \A d \in CPUs : Runs(d) => curenv[d] \in Slots /\ curenv[d] # NoEnv
  BY EnvAssumption, Zenon DEF IInv, CurenvInv
<1>4. \A d \in CPUs \ {c} : Runs(d) => curenv[d] # curenv[c]
  BY <1>2, Zenon DEF IInv, OneCpuPerEnv
<1>5. QED BY <1>1, <1>2, <1>3, <1>4, Zenon DEF IInv, RunningIffCurrent

(* A handler that changes no environment.                                  *)
LEMMA CalmEntry ==
  ASSUME IInv, NEW c \in CPUs, Dispatch(c),
         UNCHANGED <<ids, env_ipc_recving, env_free_list>>
  PROVE  InKernel(c, env_status, curenv[c]) /\ env_status[curenv[c]] = "RUNNING"
<1>1. Locked(c) /\ env_status[curenv[c]] \notin {"DYING", "FREE"}
  BY Zenon DEF Dispatch
<1>2. QED BY <1>1, TrapEntry, Zenon
          DEF InKernel, IInv, TypeOK, ReceiverParked, FreeListExact, IdNamesSlot, ids

(* A handler that has freed e, which no other CPU runs.                    *)
LEMMA FreedEntry ==
  ASSUME IInv, NEW c \in CPUs, Locked(c), NEW e \in Slots,
         NEW cur, cur = IF curenv[c] = e THEN NoEnv ELSE curenv[c],
         curenv[c] = e \/ (/\ env_status[curenv[c]] = "RUNNING"
                           /\ env_status[e] \notin {"RUNNING", "DYING", "FREE"}),
         env_free(e)
  PROVE  InKernel(c, [env_status EXCEPT ![e] = "FREE"], cur)
<1> DEFINE st == [env_status EXCEPT ![e] = "FREE"]
<1>1. /\ st \in [Slots -> Status]
      /\ st[e] = "FREE" /\ \A s \in Slots \ {e} : st[s] = env_status[s]
  BY Zenon DEF IInv, TypeOK, Status
<1>2. env_status[e] # "FREE"
  BY TrapEntry, Zenon
<1>3. env_free_list' \in Seq(Slots) /\ ExactlyFree(env_free_list', st)
  BY <1>2, PushFree, ZenonT(60) DEF IInv, TypeOK, FreeListExact, env_free
<1>4. \A d \in CPUs \ {c} :
        Runs(d) => /\ curenv[d] \in Slots /\ curenv[d] # e /\ curenv[d] # cur
                   /\ env_status[curenv[d]] \in {"RUNNING", "DYING"}
  BY TrapEntry
<1>5. /\ env_id' \in [Slots -> EnvIds] /\ env_parent_id' \in [Slots -> EnvIds]
      /\ env_ipc_recving' \in [Slots -> BOOLEAN]
      /\ \A s \in Slots : env_ipc_recving'[s] => st[s] \in {"NOT_RUNNABLE", "FREE"}
      /\ \A s \in Slots : st[s] # "FREE" => NamesSlot(env_id'[s], s)
  BY <1>1, Zenon DEF IInv, TypeOK, ReceiverParked, IdNamesSlot, env_free, ids
<1>6. \A s \in Slots : st[s] \in {"RUNNING", "DYING"} /\ s # cur
                         => \E d \in CPUs \ {c} : Runs(d) /\ curenv[d] = s
  BY <1>1, TrapEntry
<1>7. cur \in Slots \cup {NoEnv} /\ (cur # NoEnv => st[cur] \notin {"FREE", "DYING"})
  BY <1>1, TrapEntry, Zenon
<1> HIDE DEF st
<1>8. InKernel(c, st, cur)
  BY <1>1, <1>3, <1>4, <1>5, <1>6, <1>7, TrapEntry, ZenonT(60) DEF InKernel
<1>9. QED BY <1>8, Zenon DEF st

(* A handler that gives status v to e, which no CPU runs.                  *)
LEMMA SetEntry ==
  ASSUME IInv, NEW c \in CPUs, Dispatch(c), NEW e \in Slots, NEW v \in Status,
         env_status[e] \notin {"RUNNING", "DYING"},
         v \notin {"RUNNING", "DYING"},
         env_id' \in [Slots -> EnvIds], env_parent_id' \in [Slots -> EnvIds],
         \A s \in Slots : s = e \/ env_status[s] # "FREE" => NamesSlot(env_id'[s], s),
         env_ipc_recving' = [env_ipc_recving EXCEPT ![e] = FALSE],
         env_free_list' \in Seq(Slots),
         ExactlyFree(env_free_list', [env_status EXCEPT ![e] = v])
  PROVE  InKernel(c, [env_status EXCEPT ![e] = v], curenv[c])
<1> DEFINE st == [env_status EXCEPT ![e] = v]
<1>1. Locked(c) /\ env_status[curenv[c]] \notin {"DYING", "FREE"}
  BY Zenon DEF Dispatch
<1>2. /\ st \in [Slots -> Status]
      /\ st[e] = v /\ \A s \in Slots \ {e} : st[s] = env_status[s]
  BY Zenon DEF IInv, TypeOK
<1>3. env_status[curenv[c]] = "RUNNING" /\ curenv[c] \in Slots /\ curenv[c] # e
  BY <1>1, TrapEntry, Zenon
<1>4. \A d \in CPUs \ {c} :
        Runs(d) => /\ curenv[d] \in Slots /\ curenv[d] # e /\ curenv[d] # curenv[c]
                   /\ env_status[curenv[d]] \in {"RUNNING", "DYING"}
  BY <1>1, TrapEntry, Zenon
<1>5. /\ env_ipc_recving' \in [Slots -> BOOLEAN]
      /\ \A s \in Slots : env_ipc_recving'[s] => st[s] \in {"NOT_RUNNABLE", "FREE"}
  BY <1>2, Zenon DEF IInv, TypeOK, ReceiverParked
<1>6. \A s \in Slots : st[s] \in {"RUNNING", "DYING"} /\ s # curenv[c]
                         => \E d \in CPUs \ {c} : Runs(d) /\ curenv[d] = s
  BY <1>1, <1>2, TrapEntry
<1> HIDE DEF st
<1>7. InKernel(c, st, curenv[c])
  BY <1>1, <1>2, <1>3, <1>4, <1>5, <1>6, TrapEntry DEF InKernel, st
<1>8. QED BY <1>7, Zenon DEF st

(* env_destroy of an environment that is neither FREE nor a zombie.        *)
LEMMA DestroyPreserves ==
  ASSUME IInv, NEW c \in CPUs, Dispatch(c), NEW e \in Slots,
         env_status[e] \notin {"FREE", "DYING"}, env_destroy(c, e)
  PROVE  IInv' /\ ZombieStep
<1>1. Locked(c) /\ env_status[curenv[c]] = "RUNNING"
  BY TrapEntry, Zenon DEF Dispatch
<1>2. CASE env_status[e] = "RUNNING" /\ curenv[c] # e
  <2> DEFINE st == [env_status EXCEPT ![e] = "DYING"]
  <2>1. /\ st \in [Slots -> Status]
        /\ st[e] = "DYING" /\ \A s \in Slots \ {e} : st[s] = env_status[s]
    BY Zenon DEF IInv, TypeOK, Status
  <2>2. /\ trap_return(c, st, curenv[c])
        /\ UNCHANGED <<ids, env_ipc_recving, env_free_list>>
    BY <1>2, Zenon DEF env_destroy
  <2>3. \A s \in Slots : /\ st[s] \in {"RUNNING", "DYING"}
                               <=> env_status[s] \in {"RUNNING", "DYING"}
                         /\ st[s] = "FREE" <=> env_status[s] = "FREE"
                         /\ st[s] = "NOT_RUNNABLE" <=> env_status[s] = "NOT_RUNNABLE"
    BY <1>2, <2>1, Zenon
  <2>4. env_free_list' \in Seq(Slots) /\ ExactlyFree(env_free_list', st)
    BY <2>2, <2>3 DEF IInv, TypeOK, FreeListExact, ExactlyFree
  <2>5. /\ env_id' \in [Slots -> EnvIds] /\ env_parent_id' \in [Slots -> EnvIds]
        /\ env_ipc_recving' \in [Slots -> BOOLEAN]
        /\ \A s \in Slots : env_ipc_recving'[s] => st[s] \in {"NOT_RUNNABLE", "FREE"}
        /\ \A s \in Slots : st[s] # "FREE" => NamesSlot(env_id'[s], s)
    BY <2>2, <2>3, Zenon DEF IInv, TypeOK, ReceiverParked, IdNamesSlot, ids
  <2> HIDE DEF st
  <2>6. InKernel(c, st, curenv[c])
    <3>1. /\ curenv[c] \in Slots /\ st[curenv[c]] = "RUNNING"
          /\ \A d \in CPUs \ {c} :
               Runs(d) => st[curenv[d]] \in {"RUNNING", "DYING"} /\ curenv[d] # curenv[c]
      BY <1>1, <1>2, <2>1, <2>3, TrapEntry, Zenon
    <3>2. \A s \in Slots : st[s] \in {"RUNNING", "DYING"} /\ s # curenv[c]
                             => \E d \in CPUs \ {c} : Runs(d) /\ curenv[d] = s
      BY <1>1, <2>3, TrapEntry, Zenon
    <3>3. QED BY <1>1, <2>1, <2>4, <2>5, <3>1, <3>2, TrapEntry, Zenon DEF InKernel
  <2>7. QED BY <2>2, <2>6, ReturnPreserves, Zenon
<1>3. CASE ~ (env_status[e] = "RUNNING" /\ curenv[c] # e)
  <2> DEFINE st == [env_status EXCEPT ![e] = "FREE"]
             cur == IF curenv[c] = e THEN NoEnv ELSE curenv[c]
  <2>1. /\ env_free(e)
        /\ IF curenv[c] = e THEN sched_yield(c, st, NoEnv)
                            ELSE trap_return(c, st, curenv[c])
    BY <1>3, Zenon DEF env_destroy
  <2>2. InKernel(c, st, cur)
    BY <1>1, <1>3, <2>1, FreedEntry, Zenon
  <2> HIDE DEF st
  <2>3. QED BY <2>1, <2>2, YieldPreserves, ReturnPreserves, Zenon
<1>4. QED BY <1>2, <1>3, Zenon

(* Multiples of n: what the mask of env_alloc clears and the index fills.  *)
LEMMA Quotient ==
  ASSUME NEW n \in Nat, n > 0, NEW a \in Nat
  PROVE  /\ a \div n \in Nat /\ a % n \in 0 .. n - 1
         /\ a - (a % n) = n * (a \div n)
OBVIOUS

LEMMA Multiple ==
  ASSUME NEW n \in Nat, n > 0, NEW q \in Nat, NEW e \in 0 .. n - 1
  PROVE  /\ (n * q + e) % n = e
         /\ \A p \in Nat : n * q < n * p => n * q + e < n * p
<1>1. (n * q + e) % n = e
  OBVIOUS
<1>2. ASSUME NEW p \in Nat, n * q < n * p PROVE n * q + e < n * p
  <2>1. q + 1 <= p
    BY <1>2
  <2>2. n * (q + 1) <= n * p
    BY <2>1
  <2>3. QED BY <2>2
<1>3. QED BY <1>1, <1>2, Zenon

(* The id env_alloc gives to slot e is an env_id that names e.             *)
LEMMA NextIdGood ==
  ASSUME TypeOK, NEW e \in Slots
  PROVE  NextId(e) \in EnvIds /\ NamesSlot(NextId(e), e)
<1> USE IdAssumption, EnvAssumption
<1> DEFINE sum == env_id[e] + GenStep
           gen == sum - (sum % NENV)
           gen2 == IF gen >= IdLimit THEN GenStep ELSE gen
<1>1. sum \in Nat /\ sum >= GenStep /\ e \in 0 .. NENV - 1
  BY SMTT(60) DEF TypeOK, EnvIds, Slots
<1> HIDE DEF sum
<1>2. PICK q \in Nat : gen = NENV * q
  BY <1>1, Quotient
<1>3. PICK g \in Nat : GenStep = NENV * g
  BY Quotient
<1>4. PICK p \in Nat : IdLimit = NENV * p
  BY Quotient
<1>5. gen >= GenStep
  <2>1. NENV * g < NENV * q + NENV
    BY <1>1, <1>2, <1>3, Quotient
  <2>2. g < q + 1
    BY <2>1
  <2>3. QED BY <1>2, <1>3, <2>2
<1>6. gen2 \in {NENV * q, NENV * g} /\ gen2 < NENV * p /\ gen2 >= GenStep
  BY <1>2, <1>3, <1>4, <1>5
<1> HIDE DEF gen2
<1>7. gen2 + e < IdLimit /\ (gen2 + e) % NENV = e
  <2>1. CASE gen2 = NENV * q
    BY <1>1, <1>4, <1>6, <2>1, Multiple
  <2>2. CASE gen2 = NENV * g
    BY <1>1, <1>4, <1>6, <2>2, Multiple
  <2>3. QED BY <1>6, <2>1, <2>2, Zenon
<1>8. NextId(e) = gen2 + e
  BY Zenon DEF NextId, gen2, gen, sum
<1>9. gen2 \in Nat
  BY <1>6
<1>10. QED BY <1>1, <1>6, <1>7, <1>8, <1>9 DEF EnvIds, NamesSlot

(* Boot: the first two slots are taken from the initial list.              *)
LEMMA BootList ==
  ASSUME NEW fl, fl = [i \in 1 .. NENV |-> i - 1],
         NEW st, st = [e \in Slots |-> IF e \in {0, 1} THEN "RUNNABLE" ELSE "FREE"]
  PROVE  /\ fl[1] = 0 /\ fl[2] = 1
         /\ SubSeq(fl, 3, NENV) \in Seq(Slots)
         /\ ExactlyFree(SubSeq(fl, 3, NENV), st)
<1> USE EnvAssumption
<1> DEFINE gl == SubSeq(fl, 3, NENV)
<1>1. fl \in Seq(Slots) /\ Len(fl) = NENV
  BY DEF Slots
<1>2. /\ gl \in Seq(Slots) /\ Len(gl) = NENV - 2
      /\ \A i \in 1 .. NENV - 2 : gl[i] = i + 1
  BY <1>1
<1> HIDE DEF gl
<1>3. ASSUME NEW e \in Slots
      PROVE  st[e] = "FREE" <=> \E i \in 1 .. Len(gl) : gl[i] = e
  <2>1. st[e] = "FREE" <=> e \notin {0, 1}
    BY Zenon
  <2>2. e \notin {0, 1} => e - 1 \in 1 .. Len(gl) /\ gl[e - 1] = e
    BY <1>2, SMTT(60) DEF Slots
  <2>3. QED BY <1>2, <2>1, <2>2, SMTT(60)
<1>4. \A i, j \in 1 .. Len(gl) : gl[i] = gl[j] => i = j
  BY <1>2
<1>5. fl[1] = 0 /\ fl[2] = 1
  OBVIOUS
<1>6. ExactlyFree(gl, st)
  BY <1>3, <1>4, Zenon DEF ExactlyFree
<1>7. QED BY <1>2, <1>5, <1>6, ZenonT(60) DEF gl
-----------------------------------------------------------------------------
(* One lemma per action that changes the table.                            *)

LEMMA BootPreserves ==
  ASSUME IInv, i386_init
  PROVE  IInv' /\ ZombieStep
<1> USE CpuAssumption, EnvAssumption
<1> DEFINE st == [e \in Slots |-> IF e \in {0, 1} THEN "RUNNABLE" ELSE "FREE"]
<1>1. /\ env_free_list = [i \in 1 .. NENV |-> i - 1]
      /\ env_status = [e \in Slots |-> "FREE"]
      /\ env_ipc_recving = [e \in Slots |-> FALSE]
      /\ \A d \in CPUs \ {BSP} : mode[d] = "mp_main"
      /\ mode[BSP] = "boot"
  BY Zenon DEF i386_init, IInv, BootInv
<1>2. /\ env_free_list[1] = 0 /\ env_free_list[2] = 1
      /\ SubSeq(env_free_list, 3, NENV) \in Seq(Slots)
      /\ ExactlyFree(SubSeq(env_free_list, 3, NENV), st)
  BY <1>1, BootList, ZenonT(60)
<1>3. 0 \in Slots /\ 1 \in Slots
  BY DEF Slots
<1>4. [env_status EXCEPT ![0] = "RUNNABLE", ![1] = "RUNNABLE"] = st
  BY <1>1, <1>3, Zenon
<1>5. /\ env_free_list' \in Seq(Slots) /\ ExactlyFree(env_free_list', st)
      /\ sched_yield(BSP, st, NoEnv)
  BY <1>2, <1>4, Zenon DEF i386_init
<1>6. /\ env_id' \in [Slots -> EnvIds] /\ env_parent_id' \in [Slots -> EnvIds]
      /\ NamesSlot(env_id'[0], 0) /\ NamesSlot(env_id'[1], 1)
  <2>1. /\ NextId(0) \in EnvIds /\ NamesSlot(NextId(0), 0)
        /\ NextId(1) \in EnvIds /\ NamesSlot(NextId(1), 1)
    BY <1>3, NextIdGood, Zenon DEF IInv
  <2>2. QED BY <2>1, <1>2, <1>3, Zenon DEF i386_init, IInv, TypeOK
<1>7. /\ env_ipc_recving' \in [Slots -> BOOLEAN]
      /\ \A s \in Slots : ~ env_ipc_recving'[s]
  BY <1>1, Zenon DEF i386_init
<1> HIDE DEF st
<1>8. InKernel(BSP, st, NoEnv)
  BY <1>1, <1>5, <1>6, <1>7, Zenon DEF InKernel, Runs, st, Status
<1>9. QED BY <1>5, <1>8, YieldPreserves, Zenon

LEMMA ZombiePreserves ==
  ASSUME IInv, NEW c \in CPUs, ZombieTrap(c)
  PROVE  IInv' /\ ZombieStep
<1> DEFINE e == curenv[c]
           st == [env_status EXCEPT ![e] = "FREE"]
<1>1. Locked(c) /\ e \in Slots /\ env_free(e) /\ sched_yield(c, st, NoEnv)
  BY TrapEntry, Zenon DEF ZombieTrap
<1>2. InKernel(c, st, NoEnv)
  BY <1>1, FreedEntry, Zenon
<1> HIDE DEF st
<1>3. QED BY <1>1, <1>2, YieldPreserves, Zenon

LEMMA ExoforkPreserves ==
  ASSUME IInv, NEW c \in CPUs, sys_exofork(c)
  PROVE  IInv' /\ ZombieStep
<1> DEFINE e == Head(env_free_list)
           st == [env_status EXCEPT ![e] = "NOT_RUNNABLE"]
<1>1. /\ Dispatch(c) /\ env_alloc(env_id[curenv[c]])
      /\ trap_return(c, st, curenv[c])
  BY Zenon DEF sys_exofork
<1>2. /\ env_free_list # <<>>
      /\ env_free_list' = Tail(env_free_list)
      /\ env_id' = [env_id EXCEPT ![e] = NextId(e)]
      /\ env_parent_id' = [env_parent_id EXCEPT ![e] = env_id[curenv[c]]]
      /\ env_ipc_recving' = [env_ipc_recving EXCEPT ![e] = FALSE]
  BY <1>1, Zenon DEF env_alloc
<1>3. /\ e \in Slots /\ env_status[e] = "FREE"
      /\ env_free_list' \in Seq(Slots) /\ ExactlyFree(env_free_list', st)
  BY <1>2, PopFree, ZenonT(60) DEF IInv, TypeOK, FreeListExact, Status
<1>4. /\ NextId(e) \in EnvIds /\ NamesSlot(NextId(e), e)
      /\ env_id[curenv[c]] \in EnvIds
  BY <1>1, <1>3, NextIdGood, TrapEntry, Zenon DEF IInv, TypeOK, Dispatch
<1> HIDE DEF e
<1>5. /\ env_id' \in [Slots -> EnvIds] /\ env_parent_id' \in [Slots -> EnvIds]
      /\ \A s \in Slots : s = e \/ env_status[s] # "FREE" => NamesSlot(env_id'[s], s)
  BY <1>2, <1>3, <1>4, Zenon DEF IInv, TypeOK, IdNamesSlot
<1>6. InKernel(c, st, curenv[c])
  BY <1>1, <1>2, <1>3, <1>5, SetEntry, ZenonT(60) DEF Status
<1> HIDE DEF st
<1>7. QED BY <1>1, <1>6, ReturnPreserves, Zenon

(* Waking e, which no CPU runs and which is not FREE.                      *)
LEMMA WakePreserves ==
  ASSUME IInv, NEW c \in CPUs, Dispatch(c), NEW e \in Slots,
         env_status[e] = "NOT_RUNNABLE",
         env_ipc_recving' = [env_ipc_recving EXCEPT ![e] = FALSE],
         UNCHANGED <<ids, env_free_list>>,
         trap_return(c, [env_status EXCEPT ![e] = "RUNNABLE"], curenv[c])
  PROVE  IInv' /\ ZombieStep
<1> DEFINE st == [env_status EXCEPT ![e] = "RUNNABLE"]
<1>1. \A s \in Slots : st[s] = "FREE" <=> env_status[s] = "FREE"
  BY Zenon DEF IInv, TypeOK
<1>2. env_free_list' \in Seq(Slots) /\ ExactlyFree(env_free_list', st)
  BY <1>1 DEF IInv, TypeOK, FreeListExact, ExactlyFree
<1>3. /\ env_id' \in [Slots -> EnvIds] /\ env_parent_id' \in [Slots -> EnvIds]
      /\ \A s \in Slots : s = e \/ env_status[s] # "FREE" => NamesSlot(env_id'[s], s)
  BY Zenon DEF IInv, TypeOK, IdNamesSlot, ids
<1>4. InKernel(c, st, curenv[c])
  BY <1>2, <1>3, SetEntry, ZenonT(60) DEF Status
<1>5. QED BY <1>4, ReturnPreserves, Zenon

LEMMA SendPreserves ==
  ASSUME IInv, NEW c \in CPUs, NEW e \in Slots, sys_ipc_try_send(c, e)
  PROVE  IInv' /\ ZombieStep
<1>1. env_status[e] = "NOT_RUNNABLE"
  BY Zenon DEF IInv, ReceiverParked, sys_ipc_try_send
<1>2. QED BY <1>1, WakePreserves, ZenonT(60) DEF sys_ipc_try_send

LEMMA SetStatusPreserves ==
  ASSUME IInv, NEW c \in CPUs, NEW e \in Slots, Embryo(c, e),
         sys_env_set_status(c, e, "RUNNABLE")
  PROVE  IInv' /\ ZombieStep
<1>1. env_ipc_recving' = [env_ipc_recving EXCEPT ![e] = FALSE]
  BY Zenon DEF Embryo, sys_env_set_status, IInv, TypeOK
<1>2. QED BY <1>1, WakePreserves, ZenonT(60) DEF Embryo, sys_env_set_status, ids

LEMMA RecvPreserves ==
  ASSUME IInv, NEW c \in CPUs, sys_ipc_recv(c)
  PROVE  IInv' /\ ZombieStep
<1> DEFINE e == curenv[c]
           st == [env_status EXCEPT ![e] = "NOT_RUNNABLE"]
<1>1. /\ Locked(c) /\ env_status[e] = "RUNNING" /\ e \in Slots /\ e # NoEnv
      /\ sched_yield(c, st, e)
  BY TrapEntry, Zenon DEF sys_ipc_recv, Dispatch
<1>2. /\ st \in [Slots -> Status] /\ st[e] = "NOT_RUNNABLE"
      /\ \A s \in Slots \ {e} : st[s] = env_status[s]
  BY <1>1, Zenon DEF IInv, TypeOK, Status
<1>3. env_free_list' \in Seq(Slots) /\ ExactlyFree(env_free_list', st)
  <2>1. \A s \in Slots : st[s] = "FREE" <=> env_status[s] = "FREE"
    BY <1>1, <1>2, Zenon
  <2>2. QED BY <2>1, Zenon DEF IInv, TypeOK, FreeListExact, ExactlyFree, sys_ipc_recv
<1>4. /\ env_id' \in [Slots -> EnvIds] /\ env_parent_id' \in [Slots -> EnvIds]
      /\ env_ipc_recving' \in [Slots -> BOOLEAN]
      /\ \A s \in Slots : env_ipc_recving'[s] => st[s] \in {"NOT_RUNNABLE", "FREE"}
      /\ \A s \in Slots : st[s] # "FREE" => NamesSlot(env_id'[s], s)
  BY <1>1, <1>2, Zenon DEF IInv, TypeOK, ReceiverParked, IdNamesSlot, sys_ipc_recv, ids
<1>5. \A s \in Slots : st[s] \in {"RUNNING", "DYING"} /\ s # e
                         => \E d \in CPUs \ {c} : Runs(d) /\ curenv[d] = s
  BY <1>1, <1>2, TrapEntry
<1>6. \A d \in CPUs \ {c} :
        Runs(d) => st[curenv[d]] \in {"RUNNING", "DYING"} /\ curenv[d] # e
  BY <1>1, <1>2, TrapEntry, Zenon
<1> HIDE DEF st
<1>7. InKernel(c, st, e)
  BY <1>1, <1>2, <1>3, <1>4, <1>5, <1>6, TrapEntry DEF InKernel
<1>8. QED BY <1>1, <1>7, YieldPreserves, Zenon

(* The steps outside the lock: an AP reaches mp_main, a CPU traps or wakes.*)
LEMMA MovePreserves ==
  ASSUME IInv, NEW c \in CPUs, boot_aps(c) \/ Trap(c) \/ Wake(c)
  PROVE  IInv' /\ ZombieStep
<1> USE CpuAssumption, EnvAssumption
<1>1. /\ UNCHANGED <<env_status, ids, env_ipc_recving, env_free_list, curenv, lock>>
      /\ \E m \in {"mp_main", "trapped", "woken"} : mode' = [mode EXCEPT ![c] = m]
      /\ \A d \in CPUs \ {c} : mode'[d] = mode[d]
      /\ mode[c] \in {"unused", "user", "halted"}
      /\ mode[c] = "unused" => mode'[c] = "mp_main"
      /\ mode[c] = "user" => mode'[c] = "trapped"
      /\ mode[c] = "halted" => mode'[c] = "woken"
  BY Zenon DEF boot_aps, Trap, Wake, IInv, TypeOK
<1>2. TypeOK'
  BY <1>1, Zenon DEF IInv, TypeOK, Modes, ids
<1>3. \A d \in CPUs : Runs(d)' <=> Runs(d)
  BY <1>1, Zenon DEF Runs
<1>4. \A d \in CPUs : mode'[d] \in {"boot", "monitor"} => mode'[d] = mode[d]
  BY <1>1, Zenon
<1>5. LockInv'
  BY <1>1, Zenon DEF IInv, LockInv
<1>6. CurenvInv'
  BY <1>1, <1>3, <1>4, Zenon DEF IInv, CurenvInv
<1>7. BootInv'
  BY <1>1, Zenon DEF IInv, BootInv
<1>8. OneCpuPerEnv' /\ RunningIffCurrent'
  BY <1>1, <1>3, Zenon DEF IInv, OneCpuPerEnv, RunningIffCurrent
<1>9. FreeListExact' /\ ReceiverParked' /\ IdNamesSlot'
  BY <1>1 DEF IInv, FreeListExact, ExactlyFree, ReceiverParked, IdNamesSlot,
              NamesSlot, ids
<1>10. GivesUpOnlyWhenIdle'
  BY <1>1, Zenon DEF IInv, GivesUpOnlyWhenIdle
<1>11. ZombieStep
  BY <1>1, Zenon DEF ZombieStep
<1>12. QED BY <1>2, <1>5, <1>6, <1>7, <1>8, <1>9, <1>10, <1>11, Zenon DEF IInv

(* A CPU with nothing to run that gets the lock.                           *)
LEMMA IdlePreserves ==
  ASSUME IInv, NEW c \in CPUs, mp_main(c) \/ WokenTrap(c)
  PROVE  IInv' /\ ZombieStep
<1>1. /\ lock = NoCpu /\ ~ Runs(c)
      /\ UNCHANGED <<ids, env_ipc_recving, env_free_list>>
      /\ sched_yield(c, env_status, NoEnv)
  BY Zenon DEF mp_main, WokenTrap, Runs
<1>2. QED BY <1>1, IdleEntry, YieldPreserves, Zenon

(* A trap that leaves the table as it is.                                  *)
LEMMA CalmPreserves ==
  ASSUME IInv, NEW c \in CPUs, TimerTrap(c) \/ ReturningTrap(c) \/ UpcallTrap(c)
  PROVE  IInv' /\ ZombieStep
<1>1. Dispatch(c) /\ UNCHANGED <<ids, env_ipc_recving, env_free_list>>
  BY Zenon DEF TimerTrap, ReturningTrap, UpcallTrap
<1>2. /\ InKernel(c, env_status, curenv[c])
      /\ env_status[curenv[c]] = "RUNNING" /\ curenv[c] \in Slots
  BY <1>1, CalmEntry, TrapEntry, Zenon DEF Dispatch
<1>3. CASE sched_yield(c, env_status, curenv[c])
  BY <1>2, <1>3, YieldPreserves, Zenon
<1>4. CASE trap_return(c, env_status, curenv[c])
  BY <1>2, <1>4, ReturnPreserves, Zenon
<1>5. CASE env_run(c, env_status, curenv[c], curenv[c])
  BY <1>2, <1>5, RunPreserves, RunKeepsZombies, Zenon
<1>6. QED BY <1>3, <1>4, <1>5, Zenon DEF TimerTrap, ReturningTrap, UpcallTrap
-----------------------------------------------------------------------------
(* The initial table.                                                      *)
LEMMA InitIInv == Init => IInv
<1> SUFFICES ASSUME Init PROVE IInv
  BY Zenon
<1> USE CpuAssumption, EnvAssumption
<1>1. TypeOK
  BY IdAssumption DEF Init, TypeOK, Slots, EnvIds, Status, Modes
<1>2. LockInv /\ CurenvInv /\ BootInv /\ OneCpuPerEnv /\ GivesUpOnlyWhenIdle
  BY Zenon DEF Init, LockInv, CurenvInv, BootInv, OneCpuPerEnv, GivesUpOnlyWhenIdle, Runs
<1>3. RunningIffCurrent /\ ReceiverParked /\ IdNamesSlot
  BY Zenon DEF Init, RunningIffCurrent, ReceiverParked, IdNamesSlot, Runs
<1>4. FreeListExact
  <2>1. Len(env_free_list) = NENV /\ \A i \in 1 .. NENV : env_free_list[i] = i - 1
    BY DEF Init
  <2>2. ASSUME NEW e \in Slots
        PROVE  e + 1 \in 1 .. NENV /\ env_free_list[e + 1] = e
    BY <2>1 DEF Slots
  <2>3. \A e \in Slots : env_status[e] = "FREE"
    BY Zenon DEF Init
  <2>4. \A i, j \in 1 .. Len(env_free_list) :
          env_free_list[i] = env_free_list[j] => i = j
    BY <2>1
  <2>5. QED BY <2>1, <2>2, <2>3, <2>4, Zenon DEF FreeListExact, ExactlyFree
<1>5. QED BY <1>1, <1>2, <1>3, <1>4, Zenon DEF IInv

(* One step of the machine, one case per action.                           *)
LEMMA NextIInv == IInv /\ [LibNext]_vars => IInv' /\ [ZombieStep]_vars
<1> SUFFICES ASSUME IInv, [LibNext]_vars PROVE IInv' /\ [ZombieStep]_vars
  BY Zenon
<1>1. CASE UNCHANGED vars
  BY <1>1 DEF vars, IInv, TypeOK, LockInv, CurenvInv, BootInv, OneCpuPerEnv,
              RunningIffCurrent, IdNamesSlot, NamesSlot, FreeListExact,
              ExactlyFree, ReceiverParked, GivesUpOnlyWhenIdle, Runs
<1>2. CASE i386_init
  BY <1>2, BootPreserves, Zenon
<1>3. ASSUME NEW c \in CPUs, Step(c) PROVE IInv' /\ ZombieStep
  <2>1. CASE boot_aps(c) \/ Trap(c) \/ Wake(c)
    BY <2>1, MovePreserves, Zenon
  <2>2. CASE mp_main(c) \/ WokenTrap(c)
    BY <2>2, IdlePreserves, Zenon
  <2>3. CASE TimerTrap(c) \/ ReturningTrap(c) \/ UpcallTrap(c)
    BY <2>3, CalmPreserves, Zenon
  <2>4. CASE sys_ipc_recv(c)
    BY <2>4, RecvPreserves, Zenon
  <2>5. CASE \E e \in Slots : sys_ipc_try_send(c, e)
    BY <2>5, SendPreserves, Zenon
  <2>6. CASE ZombieTrap(c)
    BY <2>6, ZombiePreserves, Zenon
  <2>7. CASE FaultingTrap(c)
    BY <2>7, DestroyPreserves, TrapEntry, Zenon DEF FaultingTrap, Dispatch
  <2>8. CASE sys_exofork(c)
    BY <2>8, ExoforkPreserves, Zenon
  <2>9. QED BY <1>3, <2>1, <2>2, <2>3, <2>4, <2>5, <2>6, <2>7, <2>8, Zenon
            DEF Step, QuietStep
<1>4. ASSUME NEW c \in CPUs, NEW e \in Slots,
             \/ env_status[e] # "DYING" /\ sys_env_destroy(c, e)
             \/ Embryo(c, e) /\ sys_env_set_trapframe(c, e)
             \/ Embryo(c, e) /\ sys_env_set_status(c, e, "RUNNABLE")
      PROVE  IInv' /\ ZombieStep
  <2>1. CASE env_status[e] # "DYING" /\ sys_env_destroy(c, e)
    BY <2>1, DestroyPreserves, Zenon DEF sys_env_destroy, MayManage
  <2>2. CASE Embryo(c, e) /\ sys_env_set_trapframe(c, e)
    BY <2>2, DestroyPreserves, Zenon DEF sys_env_set_trapframe, Embryo
  <2>3. CASE Embryo(c, e) /\ sys_env_set_status(c, e, "RUNNABLE")
    BY <2>3, SetStatusPreserves, Zenon
  <2>4. QED BY <1>4, <2>1, <2>2, <2>3, Zenon
<1>5. QED BY <1>1, <1>2, <1>3, <1>4, Zenon DEF LibNext

(* The table and the CPUs agree in every state of every run of programs    *)
(* that use the calls as the library does.                                 *)
THEOREM Invariance == LibSpec => []IInv
BY InitIInv, NextIInv, PTL DEF LibSpec

(* Every variable keeps its type.                                          *)
THEOREM TypeCorrect == LibSpec => []TypeOK
<1>1. IInv => TypeOK
  BY Zenon DEF IInv
<1>2. QED BY Invariance, <1>1, PTL

(* No environment ever runs on two CPUs (sched.c:26, user/stresssched.c).  *)
THEOREM NeverOnTwoCpus == LibSpec => []OneCpuPerEnv
<1>1. IInv => OneCpuPerEnv
  BY Zenon DEF IInv
<1>2. QED BY Invariance, <1>1, PTL

(* RUNNING and DYING are exactly the environments that CPUs run, so no     *)
(* environment is freed under a CPU and none is stranded (env.c:501-597).  *)
THEOREM StatusIsTrue == LibSpec => []RunningIffCurrent
<1>1. IInv => RunningIffCurrent
  BY Zenon DEF IInv
<1>2. QED BY Invariance, <1>1, PTL

(* The id of every environment leads back to its slot (env.c:220-224).     *)
THEOREM IdsNameSlots == LibSpec => []IdNamesSlot
<1>1. IInv => IdNamesSlot
  BY Zenon DEF IInv
<1>2. QED BY Invariance, <1>1, PTL

(* The free list is exactly the FREE slots (env.c:264, 492).               *)
THEOREM FreeListIsExact == LibSpec => []FreeListExact
<1>1. IInv => FreeListExact
  BY Zenon DEF IInv
<1>2. QED BY Invariance, <1>1, PTL

(* A receiver is parked whenever a sender may wake it (syscall.c:401).     *)
THEOREM ReceiversAreParked == LibSpec => []ReceiverParked
<1>1. IInv => ReceiverParked
  BY Zenon DEF IInv
<1>2. QED BY Invariance, <1>1, PTL

(* The kernel gives up only when no program can run (sched.c:67).          *)
THEOREM GivesUpRightly == LibSpec => []GivesUpOnlyWhenIdle
<1>1. IInv => GivesUpOnlyWhenIdle
  BY Zenon DEF IInv
<1>2. QED BY Invariance, <1>1, PTL

(* A zombie is only ever freed, and only by its own CPU (env.c:504).       *)
THEOREM ZombiesAreFreedByTheirTrap == LibSpec => ZombieFreedByItsTrap
BY InitIInv, NextIInv, PTL DEF LibSpec, ZombieFreedByItsTrap
=============================================================================
