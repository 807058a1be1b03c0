----------------------------- MODULE PartsProofs -----------------------------
(***************************************************************************)
(* Proofs about the parts that share no state with the others: the kernel  *)
(* lock (Spinlock), the page-fault upcall (UserFault) and the console      *)
(* (Console).                                                              *)
(***************************************************************************)
EXTENDS Spinlock, UserFault, Console, TLAPS

-----------------------------------------------------------------------------
(***************************************************************************)
(* The kernel lock, for any number of CPUs: mutual exclusion, no false     *)
(* panic from the unsynchronised reads of holding(), and that the code of  *)
(* kern/spinlock.c implements the abstract lock BigLock.                   *)
(***************************************************************************)

(* lk->locked is 1 as long as some CPU owns the lock.                      *)
LockedInv == \A c \in CPUs : Owns(c) => locked = 1

(* What c has stored in lk->cpu, and how much of it has drained: a CPU     *)
(* outside the lock has nothing buffered and is never named by lk->cpu.    *)
BufferInv ==
  \A c \in CPUs :
    /\ ~ Owns(c) => wbuf[c] = <<>> /\ cpu # c
    /\ pc[c] = "set_cpu" => wbuf[c] = <<>>
    /\ pc[c] \in {"critical", "unlock_cpu", "clear_cpu"} =>
         wbuf[c] = <<c>> \/ (wbuf[c] = <<>> /\ cpu = c)
    /\ pc[c] = "release" =>
         wbuf[c] \in {<<c, NoCpu>>, <<NoCpu>>} \/ (wbuf[c] = <<>> /\ cpu = NoCpu)

LockInv == TypeOK /\ LockedInv /\ MutualExclusion /\ BufferInv /\ HoldingNeverLies

(* Sequences with the same entries are equal.                              *)
LEMMA SameEntries ==
  ASSUME NEW T, NEW p \in Seq(T), NEW q \in Seq(T),
         Len(q) = Len(p), \A i \in 1 .. Len(p) : q[i] = p[i]
  PROVE  p = q
OBVIOUS

(* Buffers hold at most two stores.                                        *)
LEMMA StoreBuffers ==
  ASSUME NEW x \in CPUs \cup {NoCpu}, NEW y \in CPUs \cup {NoCpu}
  PROVE  /\ <<x>> # <<>> /\ <<x, y>> # <<>>
         /\ Append(<<>>, x) = <<x>> /\ Append(<<x>>, y) = <<x, y>>
         /\ Head(<<x>>) = x /\ Tail(<<x>>) = <<>>
         /\ Head(<<x, y>>) = x /\ Tail(<<x, y>>) = <<y>>
<1> DEFINE S == CPUs \cup {NoCpu}
<1>1. <<x>> \in Seq(S) /\ <<y>> \in Seq(S) /\ <<x, y>> \in Seq(S) /\ <<>> \in Seq(S)
  OBVIOUS
<1>2. Len(<<x>>) = 1 /\ Len(<<x, y>>) = 2 /\ Len(<<>>) = 0
  BY Zenon
<1>3. <<x>> # <<>> /\ <<x, y>> # <<>>
  BY <1>2, Zenon
<1>4. Append(<<>>, x) = <<x>>
  BY <1>1, <1>2
<1>5. Append(<<x>>, y) = <<x, y>>
  <2> DEFINE p == Append(<<x>>, y)
             q == <<x, y>>
  <2>1. p \in Seq(S) /\ q \in Seq(S) /\ Len(p) = 2 /\ Len(q) = 2
    BY <1>1, <1>2
  <2>2. p[1] = x /\ p[2] = y /\ q[1] = x /\ q[2] = y
    BY <1>1, <1>2
  <2> HIDE DEF p, q
  <2>3. \A i \in 1 .. Len(p) : p[i] = q[i]
    BY <2>1, <2>2
  <2>4. p = q
    BY <2>1, <2>3, SameEntries, Zenon
  <2>5. QED BY <2>4, Zenon DEF p, q
<1>6. Head(<<x>>) = x /\ Head(<<x, y>>) = x
  BY <1>1, <1>2
<1>7. Tail(<<x>>) = <<>>
  BY <1>1, <1>2
<1>8. Tail(<<x, y>>) = <<y>>
  BY <1>1, <1>2
<1>9. QED BY <1>3, <1>4, <1>5, <1>6, <1>7, <1>8, Zenon

LEMMA LockInit == Init => LockInv
BY NoCpuAssumption DEF Init, LockInv, TypeOK, LockedInv, MutualExclusion, BufferInv,
                       HoldingNeverLies, Owns, Labels

(* A step that only moves pc[c] within or outside the lock.                *)
LEMMA MovePreserves ==
  ASSUME LockInv, NEW c \in CPUs, NEW l \in Labels, l # "panic", Goto(c, l),
         UNCHANGED <<locked, cpu, wbuf>>,
         \/ ~ Owns(c) /\ l \in {"out", "lock_cpu", "xchg"}
         \/ /\ pc[c] \in {"critical", "unlock_cpu", "clear_cpu"}
            /\ l \in {"critical", "unlock_cpu", "clear_cpu"}
  PROVE  LockInv' /\ (\A d \in CPUs : Owns(d)' <=> Owns(d))
<1>1. pc'[c] = l /\ \A d \in CPUs \ {c} : pc'[d] = pc[d]
  BY Zenon DEF Goto, LockInv, TypeOK
<1>2. TypeOK' /\ HoldingNeverLies'
  BY <1>1, Zenon DEF Goto, LockInv, TypeOK, HoldingNeverLies
<1>3. \A d \in CPUs : Owns(d)' <=> Owns(d)
  BY <1>1, Zenon DEF Owns
<1>4. LockedInv' /\ MutualExclusion'
  BY <1>3, Zenon DEF LockInv, LockedInv, MutualExclusion
<1>5. BufferInv'
  BY <1>1, <1>3, Zenon DEF LockInv, BufferInv, Owns
<1>6. QED BY <1>2, <1>3, <1>4, <1>5, Zenon DEF LockInv

(* SetCpu, ClearCpu and Drain move lk->cpu through the buffer of the owner.*)
LEMMA SetCpuPreserves ==
  ASSUME LockInv, NEW c \in CPUs, SetCpu(c)
  PROVE  LockInv' /\ (\A d \in CPUs : Owns(d)' <=> Owns(d))
<1>1. /\ pc[c] = "set_cpu" /\ pc'[c] = "critical" /\ wbuf'[c] = <<c>>
      /\ \A d \in CPUs \ {c} : pc'[d] = pc[d] /\ wbuf'[d] = wbuf[d]
      /\ UNCHANGED <<locked, cpu>>
  BY StoreBuffers, ZenonT(60) DEF SetCpu, Store, Goto, LockInv, TypeOK, BufferInv
<1>2. TypeOK' /\ HoldingNeverLies'
  BY <1>1 DEF SetCpu, Store, Goto, LockInv, TypeOK, HoldingNeverLies, Labels
<1>3. \A d \in CPUs : Owns(d)' <=> Owns(d)
  BY <1>1, Zenon DEF Owns
<1>4. LockedInv' /\ MutualExclusion'
  BY <1>1, <1>3, Zenon DEF LockInv, LockedInv, MutualExclusion
<1>5. BufferInv'
  BY <1>1, <1>3, Zenon DEF LockInv, BufferInv, Owns
<1>6. QED BY <1>2, <1>3, <1>4, <1>5, Zenon DEF LockInv

LEMMA ClearCpuPreserves ==
  ASSUME LockInv, NEW c \in CPUs, ClearCpu(c)
  PROVE  LockInv' /\ (\A d \in CPUs : Owns(d)' <=> Owns(d))
<1>1. /\ pc[c] = "clear_cpu" /\ pc'[c] = "release"
      /\ wbuf'[c] = Append(wbuf[c], NoCpu)
      /\ \A d \in CPUs \ {c} : pc'[d] = pc[d] /\ wbuf'[d] = wbuf[d]
      /\ UNCHANGED <<locked, cpu>>
  BY Zenon DEF ClearCpu, Store, Goto, LockInv, TypeOK
<1>2. wbuf'[c] \in {<<c, NoCpu>>, <<NoCpu>>}
  <2>1. wbuf[c] = <<c>> \/ wbuf[c] = <<>>
    BY <1>1, Zenon DEF LockInv, BufferInv
  <2>2. CASE wbuf[c] = <<c>>
    <3>1. Append(<<c>>, NoCpu) = <<c, NoCpu>>
      BY StoreBuffers, ZenonT(60)
    <3>2. QED BY <1>1, <2>2, <3>1, Zenon
  <2>3. CASE wbuf[c] = <<>>
    BY <1>1, <2>3, StoreBuffers, Zenon
  <2>4. QED BY <2>1, <2>2, <2>3, Zenon
<1>3. TypeOK' /\ HoldingNeverLies'
  BY <1>1 DEF ClearCpu, Store, Goto, LockInv, TypeOK, HoldingNeverLies, Labels
<1>4. \A d \in CPUs : Owns(d)' <=> Owns(d)
  BY <1>1, Zenon DEF Owns
<1>5. LockedInv' /\ MutualExclusion'
  BY <1>1, <1>4, Zenon DEF LockInv, LockedInv, MutualExclusion
<1>6. BufferInv'
  BY <1>1, <1>2, <1>4, ZenonT(60) DEF LockInv, BufferInv, Owns
<1>7. QED BY <1>3, <1>4, <1>5, <1>6, Zenon DEF LockInv

LEMMA DrainPreserves ==
  ASSUME LockInv, NEW c \in CPUs, Drain(c)
  PROVE  LockInv' /\ (\A d \in CPUs : Owns(d)' <=> Owns(d))
<1>1. /\ wbuf[c] # <<>> /\ cpu' = Head(wbuf[c]) /\ wbuf'[c] = Tail(wbuf[c])
      /\ \A d \in CPUs \ {c} : wbuf'[d] = wbuf[d]
      /\ UNCHANGED <<locked, pc>>
  BY Zenon DEF Drain, LockInv, TypeOK
<1>2. Owns(c) /\ \A d \in CPUs \ {c} : ~ Owns(d)
  BY <1>1, Zenon DEF LockInv, BufferInv, MutualExclusion
<1>3. \/ wbuf[c] = <<c>> /\ cpu' = c /\ wbuf'[c] = <<>>
      \/ wbuf[c] = <<c, NoCpu>> /\ cpu' = c /\ wbuf'[c] = <<NoCpu>>
      \/ wbuf[c] = <<NoCpu>> /\ cpu' = NoCpu /\ wbuf'[c] = <<>>
  <2>1. wbuf[c] \in {<<c>>, <<c, NoCpu>>, <<NoCpu>>}
    BY <1>1, <1>2, ZenonT(60) DEF LockInv, BufferInv, Owns
  <2>2. CASE wbuf[c] = <<c>>
    BY <1>1, <2>2, StoreBuffers, Zenon
  <2>3. CASE wbuf[c] = <<c, NoCpu>>
    BY <1>1, <2>3, StoreBuffers
  <2>4. CASE wbuf[c] = <<NoCpu>>
    BY <1>1, <2>4, StoreBuffers, Zenon
  <2>5. QED BY <2>1, <2>2, <2>3, <2>4, Zenon
<1>4. TypeOK' /\ HoldingNeverLies'
  BY <1>1, <1>3 DEF Drain, LockInv, TypeOK, HoldingNeverLies
<1>5. \A d \in CPUs : Owns(d)' <=> Owns(d)
  BY <1>1, Zenon DEF Owns
<1>6. LockedInv' /\ MutualExclusion'
  BY <1>1, <1>5, Zenon DEF LockInv, LockedInv, MutualExclusion
<1>7. BufferInv'
  <2>1. \A d \in CPUs \ {c} : ~ Owns(d)' /\ wbuf'[d] = <<>> /\ cpu' # d
    BY <1>1, <1>2, <1>3, <1>5, NoCpuAssumption, Zenon DEF LockInv, BufferInv
  <2>2. CASE pc[c] \in {"critical", "unlock_cpu", "clear_cpu"}
    <3>1. wbuf[c] = <<c>>
      BY <1>1, <2>2, Zenon DEF LockInv, BufferInv
    <3>2. cpu' = c /\ wbuf'[c] = <<>>
      BY <1>1, <3>1, StoreBuffers, Zenon
    <3>3. QED BY <1>1, <1>2, <1>5, <2>1, <2>2, <3>2, Zenon DEF BufferInv, Owns
  <2>3. CASE pc[c] = "release"
    <3>1. wbuf[c] \in {<<c, NoCpu>>, <<NoCpu>>}
      BY <1>1, <2>3, Zenon DEF LockInv, BufferInv
    <3>2. wbuf'[c] = <<NoCpu>> \/ (cpu' = NoCpu /\ wbuf'[c] = <<>>)
      <4>1. CASE wbuf[c] = <<c, NoCpu>>
        BY <1>1, <4>1, StoreBuffers
      <4>2. CASE wbuf[c] = <<NoCpu>>
        BY <1>1, <4>2, StoreBuffers, Zenon
      <4>3. QED BY <3>1, <4>1, <4>2, Zenon
    <3>3. QED BY <1>1, <1>2, <1>5, <2>1, <2>3, <3>2, ZenonT(60) DEF BufferInv, Owns
  <2>4. QED BY <1>1, <1>2, <2>2, <2>3, Zenon DEF Owns, LockInv, BufferInv
<1>8. QED BY <1>4, <1>5, <1>6, <1>7, Zenon DEF LockInv

(* The xchg that finds the lock free.                                      *)
LEMMA XchgPreserves ==
  ASSUME LockInv, NEW c \in CPUs, Xchg(c), locked = 0
  PROVE  /\ LockInv'
         /\ \A d \in CPUs : ~ Owns(d)
         /\ Owns(c)'
<1>1. /\ pc[c] = "xchg" /\ pc'[c] = "set_cpu" /\ locked' = 1
      /\ \A d \in CPUs \ {c} : pc'[d] = pc[d]
      /\ UNCHANGED <<cpu, wbuf>>
  BY Zenon DEF Xchg, Goto, LockInv, TypeOK
<1>2. \A d \in CPUs : ~ Owns(d)
  BY DEF LockInv, LockedInv
<1>3. Owns(c)' /\ \A d \in CPUs \ {c} : ~ Owns(d)'
  BY <1>1, <1>2, Zenon DEF Owns
<1>4. TypeOK' /\ HoldingNeverLies'
  BY <1>1, Zenon DEF Xchg, Goto, LockInv, TypeOK, HoldingNeverLies, Labels
<1>5. LockedInv' /\ MutualExclusion'
  BY <1>1, <1>3, Zenon DEF LockedInv, MutualExclusion
<1>6. BufferInv'
  BY <1>1, <1>2, <1>3, Zenon DEF LockInv, BufferInv
<1>7. QED BY <1>2, <1>3, <1>4, <1>5, <1>6, Zenon DEF LockInv

LEMMA ReleasePreserves ==
  ASSUME LockInv, NEW c \in CPUs, Release(c)
  PROVE  /\ LockInv'
         /\ Owns(c)
         /\ \A d \in CPUs : ~ Owns(d)'
<1>1. /\ pc[c] = "release" /\ pc'[c] = "out" /\ locked' = 0 /\ wbuf[c] = <<>>
      /\ \A d \in CPUs \ {c} : pc'[d] = pc[d]
      /\ UNCHANGED <<cpu, wbuf>>
  BY Zenon DEF Release, Goto, LockInv, TypeOK
<1>2. Owns(c) /\ \A d \in CPUs \ {c} : ~ Owns(d)
  BY <1>1, Zenon DEF LockInv, MutualExclusion, Owns
<1>3. \A d \in CPUs : ~ Owns(d)'
  BY <1>1, <1>2, Zenon DEF Owns
<1>4. TypeOK' /\ HoldingNeverLies'
  BY <1>1, Zenon DEF Release, Goto, LockInv, TypeOK, HoldingNeverLies, Labels
<1>5. LockedInv' /\ MutualExclusion'
  BY <1>3, Zenon DEF LockedInv, MutualExclusion
<1>6. cpu = NoCpu
  BY <1>1, StoreBuffers DEF LockInv, BufferInv
<1>7. BufferInv'
  BY <1>1, <1>2, <1>3, <1>6, NoCpuAssumption, Zenon DEF LockInv, BufferInv, Owns
<1>8. QED BY <1>2, <1>3, <1>4, <1>5, <1>7, Zenon DEF LockInv
-----------------------------------------------------------------------------
(* The abstract holder is the CPU that owns the lock.                      *)
LEMMA HolderIsOwner ==
  ASSUME MutualExclusion
  PROVE  /\ \A c \in CPUs : Owns(c) => Holder = c
         /\ (\A c \in CPUs : ~ Owns(c)) => Holder = NoCpu
BY ZenonT(60) DEF MutualExclusion, Holder

LEMMA HolderIsOwnerNext ==
  ASSUME MutualExclusion'
  PROVE  /\ \A c \in CPUs : Owns(c)' => Holder' = c
         /\ (\A c \in CPUs : ~ Owns(c)') => Holder' = NoCpu
BY Zenon DEF MutualExclusion, Holder

(* One memory access, one case per action.                                 *)
LEMMA LockNext == LockInv /\ [Next]_vars => LockInv' /\ [Lock!Next]_Holder
<1> SUFFICES ASSUME LockInv, [Next]_vars PROVE LockInv' /\ [Lock!Next]_Holder
  BY Zenon
<1>1. ASSUME LockInv', \A d \in CPUs : Owns(d)' <=> Owns(d)
      PROVE  Holder' = Holder
  BY <1>1, HolderIsOwner, HolderIsOwnerNext, Zenon DEF LockInv
<1>2. CASE UNCHANGED vars
  <2>1. LockInv'
    BY <1>2, Zenon DEF vars, LockInv, TypeOK, LockedInv, MutualExclusion, BufferInv,
                HoldingNeverLies, Owns
  <2>2. QED BY <1>1, <1>2, <2>1, Zenon DEF vars, Owns
<1>3. ASSUME NEW c \in CPUs, spin_lock(c) \/ spin_unlock(c) \/ Drain(c)
      PROVE  LockInv' /\ [Lock!Next]_Holder
  <2>1. CASE LockReadsLocked(c)
    BY <1>1, <2>1, MovePreserves, Zenon DEF LockReadsLocked, Owns, Labels
  <2>2. CASE LockReadsCpu(c)
    <3>1. CpuSeenBy(c) # c
      BY <2>2, Zenon DEF LockReadsCpu, CpuSeenBy, LockInv, BufferInv, Owns
    <3>2. QED BY <1>1, <2>2, <3>1, MovePreserves, Zenon DEF LockReadsCpu, Owns, Labels
  <2>3. CASE Xchg(c) /\ locked = 0
    <3>1. Holder = NoCpu /\ Holder' = c /\ LockInv'
      BY <2>3, XchgPreserves, HolderIsOwner, HolderIsOwnerNext, Zenon DEF LockInv
    <3>2. QED BY <3>1, Zenon DEF Lock!Next, Lock!lock_kernel
  <2>4. CASE Xchg(c) /\ locked # 0
    BY <1>1, <2>4, MovePreserves, ZenonT(60) DEF Xchg, Owns, Labels, LockInv, TypeOK
  <2>5. CASE SetCpu(c)
    BY <1>1, <2>5, SetCpuPreserves, Zenon
  <2>6. CASE UnlockReadsLocked(c)
    <3>1. locked = 1
      BY <2>6, Zenon DEF UnlockReadsLocked, LockInv, LockedInv, Owns
    <3>2. QED BY <1>1, <2>6, <3>1, MovePreserves, Zenon DEF UnlockReadsLocked, Labels
  <2>7. CASE UnlockReadsCpu(c)
    <3>1. CpuSeenBy(c) = c
      BY <2>7 DEF UnlockReadsCpu, CpuSeenBy, LockInv, BufferInv
    <3>2. QED BY <1>1, <2>7, <3>1, MovePreserves, Zenon DEF UnlockReadsCpu, Labels
  <2>8. CASE ClearCpu(c)
    BY <1>1, <2>8, ClearCpuPreserves, Zenon
  <2>9. CASE Release(c)
    <3>1. Holder = c /\ Holder' = NoCpu /\ LockInv'
      BY <2>9, ReleasePreserves, HolderIsOwner, HolderIsOwnerNext, Zenon DEF LockInv
    <3>2. QED BY <3>1, Zenon DEF Lock!Next, Lock!unlock_kernel
  <2>10. CASE Drain(c)
    BY <1>1, <2>10, DrainPreserves, Zenon
  <2>11. QED BY <1>3, <2>1, <2>2, <2>3, <2>4, <2>5, <2>6, <2>7, <2>8, <2>9, <2>10, Zenon
             DEF spin_lock, spin_unlock
<1>4. QED BY <1>2, <1>3, Zenon DEF Next

THEOREM LockInvariance == Spec => []LockInv
BY LockInit, LockNext, PTL DEF Spec

(* At most one CPU owns the kernel lock (spinlock.c:71, 115).              *)
THEOREM MutualExclusionHolds == Spec => []MutualExclusion
<1>1. LockInv => MutualExclusion
  BY Zenon DEF LockInv
<1>2. QED BY LockInvariance, <1>1, PTL

(* holding() never makes spin_lock or spin_unlock panic (spinlock.c:63, 85)*)
THEOREM HoldingIsRight == Spec => []HoldingNeverLies
<1>1. LockInv => HoldingNeverLies
  BY Zenon DEF LockInv
<1>2. QED BY LockInvariance, <1>1, PTL

(* spin_lock and spin_unlock are lock_kernel and unlock_kernel of BigLock. *)
THEOREM LockRefinement == Spec => ImplementsBigLock
<1>1. Init => Lock!Init
  BY Zenon DEF Init, Lock!Init, Holder, Owns
<1>2. QED BY <1>1, LockInit, LockNext, PTL DEF Spec, ImplementsBigLock, Lock!Spec

-----------------------------------------------------------------------------
(***************************************************************************)
(* A page fault is invisible to what it interrupts, for stacks of any size *)
(* and so for any depth of faults inside faults.                           *)
(*                                                                         *)
(* The invariant is about a chain: what runs now returns to saved[1],      *)
(* which returns to saved[2], and so on to the program.  Each link has its *)
(* frame on the exception stack, below the words of the one it returns to, *)
(* with one word between them for the address that "store" pushes.         *)
(***************************************************************************)

(* c is in one piece, so that it is equal to what its fields are.          *)
IsCpu(c) == c = [eip |-> c.eip, esp |-> c.esp, regs |-> c.regs] /\ c.esp \in Int

(* c runs in the upcall for a fault of s, or in what that upcall called:   *)
(* with m as the stacks, it will get back to s.                            *)
Returns(c, s, m) ==
  LET u == FrameAt(s.esp)
      inHandler == c.eip \in {"handler", "null"}
      past == c.eip \in {"store", "restore"}
  IN  /\ c.eip \in {"upcall", "handler", "null", "unwind", "store", "restore"}
      /\ XBase <= u /\ u + FRAME <= UXSTACKTOP
      /\ c.esp = IF inHandler THEN u - 2 ELSE u
      /\ m[u + utf_regs] = s.regs
      /\ m[u + utf_eip] = Code(s.eip)
      /\ m[u + utf_esp] = Address(IF past THEN s.esp - 1 ELSE s.esp)
      /\ inHandler => /\ XBase <= u - 2
                      /\ m[u - 2] = Code("unwind") /\ m[u - 1] = Address(u)
      /\ c.eip = "store" => c.regs = <<"upcall", s.esp - 1, Code(s.eip)>>
      /\ c.eip = "restore" => m[s.esp - 1] = Code(s.eip)

(* The states that can be interrupted, and whose they are.                 *)
KindInv ==
  /\ cpuState.eip = "user" <=> Len(saved) = 0
  /\ cpuState.eip = "user" => cpuState.esp \in 0 .. USTACKTOP
  /\ \A i \in 1 .. Len(saved) :
       /\ saved[i].cpu.eip \in {"user", "upcall", "handler", "null", "store"}
       /\ saved[i].cpu.eip = "user" <=> i = Len(saved)
       /\ saved[i].cpu.eip = "user" => saved[i].cpu.esp \in 0 .. USTACKTOP

ChainInv ==
  /\ Len(saved) > 0 => Returns(cpuState, saved[1].cpu, stackMem)
  /\ \A i \in 1 .. Len(saved) - 1 : Returns(saved[i].cpu, saved[i + 1].cpu, stackMem)

(* What is interrupted keeps its stack, which lies above all that runs     *)
(* for it.                                                                 *)
StackInv ==
  /\ \A i \in 1 .. Len(saved) :
       /\ saved[i].stack = [a \in Live(saved[i].cpu.esp) |-> stackMem[a]]
       /\ saved[i].cpu.esp \in ExceptionStack => cpuState.esp < saved[i].cpu.esp
  /\ \A i, j \in 1 .. Len(saved) :
       i < j /\ saved[j].cpu.esp \in ExceptionStack => saved[i].cpu.esp < saved[j].cpu.esp

ShapeInv ==
  /\ IsCpu(cpuState)
  /\ \A i \in 1 .. Len(saved) : IsCpu(saved[i].cpu)
  /\ stackMem = [a \in UserStack \cup ExceptionStack |-> stackMem[a]]

LinkInv == ShapeInv /\ KindInv /\ ChainInv /\ StackInv

IsSequence(q) == \E S : q \in Seq(S)
FInv == IsSequence(saved) /\ LinkInv
-----------------------------------------------------------------------------
(* Sequences that grow and shrink in front.                                *)
LEMMA Pushed ==
  ASSUME NEW q, IsSequence(q), NEW r
  PROVE  /\ IsSequence(<<r>> \o q) /\ Len(q) \in Nat /\ Len(<<r>> \o q) = Len(q) + 1
         /\ (<<r>> \o q)[1] = r
         /\ \A i \in 1 .. Len(q) : (<<r>> \o q)[i + 1] = q[i]
<1>1. PICK S : q \in Seq(S)
  BY Zenon DEF IsSequence
<1>2. PICK T : T = S \cup {r}
  BY ZenonT(60)
<1>3. q \in Seq(T) /\ <<r>> \in Seq(T)
  BY <1>1, <1>2
<1>4. <<r>> \o q \in Seq(T)
  BY <1>3
<1>5. QED BY <1>3, <1>4 DEF IsSequence

LEMMA Popped ==
  ASSUME NEW q, IsSequence(q), Len(q) > 0
  PROVE  /\ IsSequence(Tail(q)) /\ Len(q) \in Nat /\ Len(Tail(q)) = Len(q) - 1
         /\ \A i \in 1 .. Len(q) - 1 : Tail(q)[i] = q[i + 1]
<1>1. PICK S : q \in Seq(S)
  BY Zenon DEF IsSequence
<1>2. q # <<>>
  BY <1>1
<1>3. QED BY <1>1, <1>2 DEF IsSequence

LEMMA FrameIsInt == ASSUME NEW e \in Int PROVE FrameAt(e) \in Int
  BY StackAssumption DEF FrameAt, FRAME

LEMMA CountIsNat == ASSUME NEW q, IsSequence(q) PROVE Len(q) \in Nat
  BY DEF IsSequence

(* A link holds as long as nothing from the stack pointer up is written.   *)
LEMMA LinkStays ==
  ASSUME NEW c, NEW s, NEW m, NEW m2, Returns(c, s, m), c.eip # "restore",
         s.esp \in Int, \A a \in ExceptionStack : a >= c.esp => m2[a] = m[a]
  PROVE  Returns(c, s, m2)
<1>1. PICK u \in Int : u = FrameAt(s.esp)
  BY FrameIsInt, Zenon
<1>2. /\ XBase <= u /\ u + FRAME <= UXSTACKTOP
      /\ c.esp = IF c.eip \in {"handler", "null"} THEN u - 2 ELSE u
      /\ c.eip \in {"handler", "null"} => XBase <= u - 2
  BY <1>1, Zenon DEF Returns
<1>3. /\ m2[u + utf_regs] = m[u + utf_regs] /\ m2[u + utf_eip] = m[u + utf_eip]
      /\ m2[u + utf_esp] = m[u + utf_esp]
      /\ c.eip \in {"handler", "null"} => m2[u - 2] = m[u - 2] /\ m2[u - 1] = m[u - 1]
  BY <1>2, StackAssumption DEF ExceptionStack, FRAME, utf_regs, utf_eip, utf_esp
<1>4. QED BY <1>1, <1>3, Zenon DEF Returns

(* Where the stack of an interrupted state is.                             *)
LEMMA StackOf ==
  ASSUME FInv, NEW i \in 1 .. Len(saved)
  PROVE  /\ saved[i].cpu.esp \in Int
         /\ i < Len(saved) => saved[i].cpu.esp \in ExceptionStack
         /\ i = Len(saved) => /\ saved[i].cpu.esp \notin ExceptionStack
                              /\ Live(saved[i].cpu.esp) \subseteq UserStack
         /\ saved[i].cpu.esp \in ExceptionStack => Live(saved[i].cpu.esp) \subseteq ExceptionStack
<1>1. Len(saved) \in Nat
  BY CountIsNat, Zenon DEF FInv
<1>2. saved[i].cpu.esp \in Int
  BY ZenonT(60) DEF FInv, LinkInv, ShapeInv, IsCpu
<1>3. ASSUME i < Len(saved) PROVE saved[i].cpu.esp \in ExceptionStack
  <2>1. saved[i + 1].cpu.esp \in Int /\ i \in 1 .. Len(saved) - 1
    <3>1. i + 1 \in 1 .. Len(saved) /\ i \in 1 .. Len(saved) - 1
      BY <1>1, <1>3
    <3>2. QED BY <3>1, ZenonT(60) DEF FInv, LinkInv, ShapeInv, IsCpu
  <2>2. Returns(saved[i].cpu, saved[i + 1].cpu, stackMem)
    BY <2>1, Zenon DEF FInv, LinkInv, ChainInv
  <2>3. PICK u \in Int : u = FrameAt(saved[i + 1].cpu.esp)
    BY <2>1, FrameIsInt, ZenonT(60)
  <2>4. saved[i].cpu.esp = u \/ (saved[i].cpu.esp = u - 2 /\ XBase <= u - 2)
    BY <2>2, <2>3, Zenon DEF Returns
  <2>5. XBase <= u /\ u + FRAME <= UXSTACKTOP
    BY <2>2, <2>3, Zenon DEF Returns
  <2>6. QED BY <2>4, <2>5, StackAssumption DEF ExceptionStack, FRAME
<1>4. ASSUME i = Len(saved)
      PROVE  saved[i].cpu.esp \notin ExceptionStack /\ Live(saved[i].cpu.esp) \subseteq UserStack
  <2>1. saved[i].cpu.esp \in 0 .. USTACKTOP
    BY <1>4, Zenon DEF FInv, LinkInv, KindInv
  <2>2. QED BY <2>1, StackAssumption DEF Live, ExceptionStack, UserStack
<1>5. ASSUME saved[i].cpu.esp \in ExceptionStack
      PROVE  Live(saved[i].cpu.esp) \subseteq ExceptionStack
  BY <1>5, StackAssumption DEF Live, ExceptionStack
<1>6. QED BY <1>2, <1>3, <1>4, <1>5, Zenon

(* Nothing that is interrupted has a word of its stack written.            *)
Spared(m) ==
  \A i \in 1 .. Len(saved) : \A a \in Live(saved[i].cpu.esp) : m[a] = stackMem[a]

LEMMA SparedKeepsLinks ==
  ASSUME FInv, NEW m, Spared(m)
  PROVE  /\ \A i \in 1 .. Len(saved) - 1 : Returns(saved[i].cpu, saved[i + 1].cpu, m)
         /\ \A i \in 1 .. Len(saved) :
              saved[i].stack = [a \in Live(saved[i].cpu.esp) |-> m[a]]
<1>1. Len(saved) \in Nat
  BY CountIsNat, Zenon DEF FInv
<1>2. ASSUME NEW i \in 1 .. Len(saved) - 1
      PROVE  Returns(saved[i].cpu, saved[i + 1].cpu, m)
  <2>1. i \in 1 .. Len(saved) /\ i < Len(saved) /\ i + 1 \in 1 .. Len(saved)
    BY <1>1
  <2>2. /\ saved[i].cpu.esp \in Int /\ saved[i].cpu.esp \in ExceptionStack
        /\ saved[i + 1].cpu.esp \in Int
    BY <2>1, StackOf, Zenon
  <2>3. Live(saved[i].cpu.esp) = saved[i].cpu.esp .. UXSTACKTOP - 1
    BY <2>2, Zenon DEF Live
  <2>4. \A a \in ExceptionStack : a >= saved[i].cpu.esp => m[a] = stackMem[a]
    BY <2>1, <2>2, <2>3, StackAssumption, SMTT(30) DEF Spared, ExceptionStack
  <2>5. Returns(saved[i].cpu, saved[i + 1].cpu, stackMem) /\ saved[i].cpu.eip # "restore"
    BY <2>1, Zenon DEF FInv, LinkInv, ChainInv, KindInv
  <2>6. QED BY <2>2, <2>4, <2>5, LinkStays, Zenon
<1>3. ASSUME NEW i \in 1 .. Len(saved)
      PROVE  saved[i].stack = [a \in Live(saved[i].cpu.esp) |-> m[a]]
  <2>1. saved[i].stack = [a \in Live(saved[i].cpu.esp) |-> stackMem[a]]
    BY Zenon DEF FInv, LinkInv, StackInv
  <2>2. \A a \in Live(saved[i].cpu.esp) : m[a] = stackMem[a]
    BY Zenon DEF Spared
  <2>3. QED BY <2>1, <2>2, Zenon
<1>4. QED BY <1>2, <1>3, Zenon

(* Words of the exception stack below all that is interrupted, and words   *)
(* that are not on it nor live, may be written.                            *)
LEMMA BelowIsSpared ==
  ASSUME FInv, NEW W, NEW m, Len(saved) > 0,
         \A a \in (UserStack \cup ExceptionStack) \ W : m[a] = stackMem[a],
         \A w \in W : /\ w \in Int /\ w \notin Live(saved[1].cpu.esp)
                      /\ w \notin UserStack \/ Len(saved) = 1
                      /\ saved[1].cpu.esp \in ExceptionStack => w < saved[1].cpu.esp
  PROVE  Spared(m)
<1> SUFFICES ASSUME NEW i \in 1 .. Len(saved), NEW a \in Live(saved[i].cpu.esp)
             PROVE  m[a] = stackMem[a]
  BY Zenon DEF Spared
<1>1. Len(saved) \in Nat /\ 1 \in 1 .. Len(saved)
  BY CountIsNat DEF FInv
<1>2. a \in UserStack \cup ExceptionStack
  BY <1>1, StackOf
<1>3. CASE i = 1
  BY <1>2, <1>3, Zenon
<1>4. CASE i # 1 /\ saved[i].cpu.esp \in ExceptionStack
  <2>1. saved[1].cpu.esp < saved[i].cpu.esp /\ saved[1].cpu.esp \in ExceptionStack
    <3>1. 1 < i /\ 1 < Len(saved)
      BY <1>1, <1>4
    <3>2. QED BY <1>1, <1>4, <3>1, StackOf, Zenon DEF FInv, LinkInv, StackInv
  <2>2. a >= saved[i].cpu.esp /\ a \in Int
    BY <1>4, StackAssumption DEF Live, ExceptionStack
  <2>3. \A w \in W : w \in Int /\ w < saved[1].cpu.esp
    BY <2>1, Zenon
  <2>4. saved[1].cpu.esp \in Int /\ saved[i].cpu.esp \in Int
    BY <1>1, StackOf, Zenon
  <2>5. a \notin W
    BY <2>1, <2>2, <2>3, <2>4
  <2>6. QED BY <1>2, <2>5, Zenon
<1>5. CASE i # 1 /\ saved[i].cpu.esp \notin ExceptionStack
  <2>1. i = Len(saved) /\ Len(saved) # 1
    BY <1>1, <1>5, StackOf
  <2>2. a \in UserStack
    BY <2>1, StackOf, Zenon
  <2>3. a \notin W
    BY <2>1, <2>2, Zenon
  <2>4. QED BY <2>2, <2>3, Zenon
<1>6. QED BY <1>3, <1>4, <1>5, Zenon
-----------------------------------------------------------------------------
LEMMA LinkInit == FaultInit => FInv
<1> SUFFICES ASSUME FaultInit PROVE FInv
  BY Zenon
<1>1. saved = <<>> /\ Len(saved) = 0
  BY Zenon DEF FaultInit
<1>2. IsSequence(saved)
  <2>1. saved \in Seq({})
    BY <1>1
  <2>2. QED BY <2>1, Zenon DEF IsSequence
<1>3. ShapeInv
  <2>1. IsCpu(cpuState) /\ cpuState.eip = "user" /\ cpuState.esp = USTACKTOP
    BY StackAssumption DEF FaultInit, IsCpu
  <2>2. stackMem = [a \in UserStack \cup ExceptionStack |-> stackMem[a]]
    BY Zenon DEF FaultInit
  <2>3. QED BY <1>1, <2>1, <2>2 DEF ShapeInv
<1>4. KindInv
  BY <1>1, StackAssumption DEF FaultInit, KindInv
<1>5. ChainInv /\ StackInv
  BY <1>1 DEF ChainInv, StackInv
<1>6. QED BY <1>2, <1>3, <1>4, <1>5, Zenon DEF FInv, LinkInv

LEMMA Untouched == ASSUME FInv, UNCHANGED <<cpuState, stackMem, saved>> PROVE FInv'
<1>1. cpuState' = cpuState /\ stackMem' = stackMem /\ saved' = saved
  BY Zenon
<1>2. ShapeInv' /\ KindInv'
  BY <1>1, Zenon DEF FInv, LinkInv, ShapeInv, KindInv
<1>3. ChainInv' /\ StackInv'
  BY <1>1, Zenon DEF FInv, LinkInv, ChainInv, StackInv
<1>4. QED BY <1>1, <1>2, <1>3, Zenon DEF FInv, LinkInv

(* The program on its own stack, with nothing interrupted.                 *)
LEMMA ProgramStep ==
  ASSUME FInv, set_pgfault_handler \/ pop \/ \E v \in Values : push(v)
  PROVE  FInv'
<1>1. cpuState.eip = "user" /\ Len(saved) = 0 /\ saved' = saved
  BY Zenon DEF FInv, LinkInv, KindInv, set_pgfault_handler, pop, push, At
<1>2. IsCpu(cpuState) /\ cpuState.esp \in 0 .. USTACKTOP
  BY <1>1, Zenon DEF FInv, LinkInv, ShapeInv, KindInv
<1>3. IsCpu(cpuState)' /\ cpuState'.eip = "user" /\ cpuState'.esp \in 0 .. USTACKTOP
  <2>1. CASE set_pgfault_handler
    BY <1>1, <1>2, <2>1, Zenon DEF set_pgfault_handler, IsCpu
  <2>2. CASE pop
    <3>1. PICK r : cpuState' = [cpuState EXCEPT !.esp = @ + 1, !.regs = r]
      BY <2>2, ZenonT(60) DEF pop
    <3>2. cpuState' = [eip |-> "user", esp |-> cpuState.esp + 1, regs |-> r]
      BY <1>1, <1>2, <3>1, ZenonT(60) DEF IsCpu
    <3>3. cpuState.esp < USTACKTOP
      BY <2>2, Zenon DEF pop
    <3>4. QED BY <1>2, <3>2, <3>3, StackAssumption DEF IsCpu
  <2>3. CASE \E v \in Values : push(v)
    <3>1. cpuState.esp > 0 /\ cpuState' = [cpuState EXCEPT !.esp = @ - 1]
      BY <2>3, Zenon DEF push
    <3>2. QED BY <1>1, <1>2, <3>1, StackAssumption DEF IsCpu
  <2>4. QED BY <2>1, <2>2, <2>3, Zenon
<1>4. stackMem' = [a \in UserStack \cup ExceptionStack |-> stackMem'[a]]
  <2>1. stackMem = [a \in UserStack \cup ExceptionStack |-> stackMem[a]]
    BY Zenon DEF FInv, LinkInv, ShapeInv
  <2>2. stackMem' = stackMem \/ \E x, w : stackMem' = [stackMem EXCEPT ![x] = w]
    BY Zenon DEF set_pgfault_handler, pop, push
  <2>3. QED BY <2>1, <2>2, Zenon
<1>5. QED
  BY <1>1, <1>3, <1>4 DEF FInv, LinkInv, ShapeInv, KindInv, ChainInv, StackInv

(* A fault adds a link.                                                    *)
LEMMA FaultStep ==
  ASSUME FInv, NEW va, page_fault_handler(va),
         cpuState.eip \in {"user", "upcall", "handler", "null", "store"}
  PROVE  FInv'
<1>1. PICK u \in Int : u = FrameAt(cpuState.esp)
  BY FrameIsInt, Zenon DEF FInv, LinkInv, ShapeInv, IsCpu
<1>2. CASE dead' /\ UNCHANGED <<cpuState, stackMem, saved>>
  BY <1>2, Untouched, Zenon
<1>3. ASSUME /\ \A a \in u .. u + FRAME - 1 : a \in ExceptionStack
             /\ stackMem' = [stackMem EXCEPT ![u + utf_fault_va] = va,
                                             ![u + utf_regs] = cpuState.regs,
                                             ![u + utf_eip] = Code(cpuState.eip),
                                             ![u + utf_esp] = Address(cpuState.esp)]
             /\ saved' = <<[cpu |-> cpuState,
                            stack |-> [a \in Live(cpuState.esp) |-> stackMem[a]]]>> \o saved
             /\ cpuState' = [cpuState EXCEPT !.eip = "upcall", !.esp = u]
      PROVE  FInv'
  <2>1. XBase <= u /\ u + FRAME <= UXSTACKTOP
    <3>1. u \in u .. u + FRAME - 1 /\ u + 5 \in u .. u + FRAME - 1
      BY DEF FRAME
    <3>2. u \in ExceptionStack /\ u + 5 \in ExceptionStack
      BY <1>3, <3>1, Zenon
    <3>3. QED BY <3>2, StackAssumption DEF ExceptionStack, FRAME
  <2>2. /\ stackMem' = [a \in UserStack \cup ExceptionStack |-> stackMem'[a]]
        /\ stackMem'[u + utf_regs] = cpuState.regs
        /\ stackMem'[u + utf_eip] = Code(cpuState.eip)
        /\ stackMem'[u + utf_esp] = Address(cpuState.esp)
        /\ \A a \in (UserStack \cup ExceptionStack) \ (u .. u + FRAME - 1) : stackMem'[a] = stackMem[a]
    <3>1. stackMem = [a \in UserStack \cup ExceptionStack |-> stackMem[a]]
      BY Zenon DEF FInv, LinkInv, ShapeInv
    <3>2. {u, u + 2, u + 3, u + 5} \subseteq ExceptionStack
      BY <2>1, StackAssumption DEF ExceptionStack, FRAME
    <3>3. {u, u + 2, u + 3, u + 5} \subseteq u .. u + FRAME - 1
      BY DEF FRAME
    <3>4. stackMem' = [stackMem EXCEPT ![u] = va, ![u + 2] = cpuState.regs,
                                       ![u + 3] = Code(cpuState.eip), ![u + 5] = Address(cpuState.esp)]
      <4>1. /\ u + utf_fault_va = u /\ u + utf_regs = u + 2
            /\ u + utf_eip = u + 3 /\ u + utf_esp = u + 5
        BY DEF utf_fault_va, utf_regs, utf_eip, utf_esp
      <4>2. QED BY <1>3, <4>1, ZenonT(60)
    <3>5. stackMem' = [a \in UserStack \cup ExceptionStack |-> stackMem'[a]]
      BY <3>1, <3>4, ZenonT(60)
    <3>6. \A a \in (UserStack \cup ExceptionStack) \ (u .. u + FRAME - 1) : stackMem'[a] = stackMem[a]
      BY <3>1, <3>3, <3>4, ZenonT(60)
    <3>7. /\ stackMem'[u + 2] = cpuState.regs /\ stackMem'[u + 3] = Code(cpuState.eip)
          /\ stackMem'[u + 5] = Address(cpuState.esp)
      BY <3>1, <3>2, <3>4
    <3>8. QED BY <3>5, <3>6, <3>7, Zenon DEF utf_regs, utf_eip, utf_esp
  <2>3. /\ IsCpu(cpuState) /\ cpuState.esp \in Int
        /\ IsCpu(cpuState') /\ cpuState'.eip = "upcall" /\ cpuState'.esp = u
    BY <1>3, ZenonT(60) DEF FInv, LinkInv, ShapeInv, IsCpu
  <2>4. /\ Len(saved) \in Nat /\ IsSequence(saved') /\ Len(saved') = Len(saved) + 1
        /\ saved'[1].cpu = cpuState
        /\ saved'[1].stack = [a \in Live(cpuState.esp) |-> stackMem[a]]
        /\ \A i \in 1 .. Len(saved) : saved'[i + 1] = saved[i]
    <3>1. PICK r : /\ r = [cpu |-> cpuState, stack |-> [a \in Live(cpuState.esp) |-> stackMem[a]]]
                   /\ saved' = <<r>> \o saved
      BY <1>3, ZenonT(60)
    <3>2. r.cpu = cpuState /\ r.stack = [a \in Live(cpuState.esp) |-> stackMem[a]]
      BY <3>1, Zenon
    <3>3. /\ Len(saved) \in Nat /\ IsSequence(saved') /\ Len(saved') = Len(saved) + 1
          /\ saved'[1] = r /\ \A i \in 1 .. Len(saved) : saved'[i + 1] = saved[i]
      BY <3>1, Pushed DEF FInv
    <3>4. QED BY <3>2, <3>3, Zenon
  <2>5. \A i \in 2 .. Len(saved') : i - 1 \in 1 .. Len(saved) /\ saved'[i] = saved[i - 1]
    <3> TAKE i \in 2 .. Len(saved')
    <3>1. i - 1 \in 1 .. Len(saved) /\ (i - 1) + 1 = i
      BY <2>4
    <3>2. QED BY <2>4, <3>1, Zenon
  <2>6. cpuState.eip # "user" =>
          /\ cpuState.esp \in ExceptionStack /\ u = cpuState.esp - FRAME - 1
          /\ Len(saved) > 0 /\ 1 \in 1 .. Len(saved) /\ saved[1].cpu.esp \in Int
    <3> HAVE cpuState.eip # "user"
    <3>1. Len(saved) > 0 /\ 1 \in 1 .. Len(saved)
      BY <2>4 DEF FInv, LinkInv, KindInv
    <3>2. Returns(cpuState, saved[1].cpu, stackMem) /\ saved[1].cpu.esp \in Int
      BY <3>1, ZenonT(60) DEF FInv, LinkInv, ChainInv, ShapeInv, IsCpu
    <3>3. PICK v \in Int : v = FrameAt(saved[1].cpu.esp)
      BY <3>2, FrameIsInt, Zenon
    <3>4. /\ cpuState.esp = v \/ (cpuState.esp = v - 2 /\ XBase <= v - 2)
          /\ XBase <= v /\ v + FRAME <= UXSTACKTOP
      BY <3>2, <3>3, Zenon DEF Returns
    <3>5. cpuState.esp \in ExceptionStack
      BY <3>4, StackAssumption DEF ExceptionStack, FRAME
    <3>6. QED BY <1>1, <3>1, <3>2, <3>5, Zenon DEF FrameAt
  <2>7. cpuState.eip = "user" =>
          cpuState.esp \in 0 .. USTACKTOP /\ cpuState.esp \notin ExceptionStack /\ Len(saved) = 0
    <3>1. cpuState.eip = "user" => cpuState.esp \in 0 .. USTACKTOP /\ Len(saved) = 0
      BY Zenon DEF FInv, LinkInv, KindInv
    <3>2. QED BY <3>1, StackAssumption DEF ExceptionStack
  <2>8. ShapeInv'
    <3>1. \A i \in 1 .. Len(saved') : IsCpu(saved'[i].cpu)
      <4> TAKE i \in 1 .. Len(saved')
      <4>1. CASE i = 1
        BY <2>3, <2>4, <4>1, Zenon
      <4>2. CASE i # 1
        BY <2>4, <2>5, <4>2 DEF FInv, LinkInv, ShapeInv
      <4>3. QED BY <4>1, <4>2, Zenon
    <3>2. QED BY <2>2, <2>3, <3>1, Zenon DEF ShapeInv
  <2>9. KindInv'
    <3>1. \A i \in 1 .. Len(saved') :
            /\ saved'[i].cpu.eip \in {"user", "upcall", "handler", "null", "store"}
            /\ saved'[i].cpu.eip = "user" <=> i = Len(saved')
            /\ saved'[i].cpu.eip = "user" => saved'[i].cpu.esp \in 0 .. USTACKTOP
      <4> TAKE i \in 1 .. Len(saved')
      <4>1. CASE i = 1
        BY <2>4, <2>6, <2>7, <4>1
      <4>2. CASE i # 1
        <5>1. i - 1 \in 1 .. Len(saved) /\ saved'[i] = saved[i - 1]
          BY <2>4, <2>5, <4>2
        <5>2. (i - 1 = Len(saved)) <=> i = Len(saved')
          BY <2>4
        <5>3. QED BY <5>1, <5>2, Zenon DEF FInv, LinkInv, KindInv
      <4>3. QED BY <4>1, <4>2, Zenon
    <3>2. QED BY <2>3, <2>4, <3>1 DEF KindInv
  <2>10. Spared(stackMem')
    <3>1. CASE cpuState.eip = "user"
      BY <2>7, <3>1 DEF Spared
    <3>2. CASE cpuState.eip # "user"
      <4>1. cpuState.esp < saved[1].cpu.esp \/ saved[1].cpu.esp \notin ExceptionStack
        BY <2>6, <3>2, ZenonT(60) DEF FInv, LinkInv, StackInv
      <4>2. 1 \in 1 .. Len(saved) /\ saved[1].cpu.esp \in Int
        BY <2>6, <3>2, Zenon
      <4>3. \A w \in u .. u + FRAME - 1 :
              /\ w \in Int /\ w \in ExceptionStack /\ w \notin UserStack
              /\ saved[1].cpu.esp \in ExceptionStack => w < saved[1].cpu.esp
        <5> TAKE w \in u .. u + FRAME - 1
        <5>1. w \in Int /\ w \in ExceptionStack
          BY <1>3 DEF FRAME
        <5>2. w \notin UserStack
          BY <5>1, StackAssumption DEF UserStack, ExceptionStack
        <5>3. w < cpuState.esp
          BY <2>3, <2>6, <3>2 DEF FRAME
        <5>4. QED BY <2>3, <4>1, <4>2, <5>1, <5>2, <5>3
      <4>4. \A w \in u .. u + FRAME - 1 : w \notin Live(saved[1].cpu.esp)
        <5>1. CASE saved[1].cpu.esp \in ExceptionStack
          BY <4>2, <4>3, <5>1 DEF Live
        <5>2. CASE saved[1].cpu.esp \notin ExceptionStack
          BY <2>4, <4>2, <4>3, <5>2, StackOf
        <5>3. QED BY <5>1, <5>2, Zenon
      <4>5. Len(saved) > 0
        BY <2>6, <3>2, Zenon
      <4>6. PICK W : W = u .. u + FRAME - 1
        BY Zenon
      <4>7. QED BY <2>2, <4>3, <4>4, <4>5, <4>6, BelowIsSpared, ZenonT(60)
    <3>3. QED BY <3>1, <3>2, Zenon
  <2>11. ChainInv'
    <3>1. Returns(cpuState', cpuState, stackMem')
      BY <1>1, <2>1, <2>2, <2>3, Zenon DEF Returns
    <3>2. cpuState.eip # "user" => Returns(cpuState, saved[1].cpu, stackMem')
      <4> HAVE cpuState.eip # "user"
      <4>1. Returns(cpuState, saved[1].cpu, stackMem) /\ saved[1].cpu.esp \in Int
        BY <2>6, Zenon DEF FInv, LinkInv, ChainInv
      <4>2. \A a \in ExceptionStack : a >= cpuState.esp => stackMem'[a] = stackMem[a]
        <5> TAKE a \in ExceptionStack
        <5> HAVE a >= cpuState.esp
        <5>1. a \notin u .. u + FRAME - 1
          BY <2>3, <2>6, StackAssumption, SMTT(60) DEF ExceptionStack, FRAME
        <5>2. QED BY <2>2, <5>1, Zenon
      <4>3. cpuState.eip # "restore"
        BY Zenon
      <4>4. QED BY <4>1, <4>2, <4>3, LinkStays, Zenon
    <3>3. \A i \in 1 .. Len(saved) - 1 : Returns(saved[i].cpu, saved[i + 1].cpu, stackMem')
      BY <2>10, SparedKeepsLinks, Zenon
    <3>4. \A i \in 1 .. Len(saved') - 1 : Returns(saved'[i].cpu, saved'[i + 1].cpu, stackMem')
      <4> TAKE i \in 1 .. Len(saved') - 1
      <4>1. i \in 1 .. Len(saved) /\ saved'[i + 1] = saved[i]
        BY <2>4
      <4>2. CASE i = 1
        BY <2>4, <2>7, <3>2, <4>1, <4>2
      <4>3. CASE i # 1
        <5>1. i - 1 \in 1 .. Len(saved) - 1 /\ i \in 2 .. Len(saved')
          BY <2>4, <4>1, <4>3
        <5>2. saved'[i] = saved[i - 1] /\ (i - 1) + 1 = i
          BY <2>5, <5>1
        <5>3. Returns(saved[i - 1].cpu, saved[(i - 1) + 1].cpu, stackMem')
          BY <3>3, <5>1, Zenon
        <5>4. QED BY <4>1, <5>2, <5>3, Zenon
      <4>4. QED BY <4>2, <4>3, Zenon
    <3>5. QED BY <2>4, <3>1, <3>4, Zenon DEF ChainInv
  <2>12. StackInv'
    <3>1. \A a \in Live(cpuState.esp) : stackMem'[a] = stackMem[a]
      <4>1. CASE cpuState.eip = "user"
        <5>1. \A a \in Live(cpuState.esp) : a \in UserStack /\ a \notin ExceptionStack
          BY <2>7, <4>1, StackAssumption DEF Live, UserStack, ExceptionStack
        <5>2. QED BY <1>3, <2>2, <5>1, ZenonT(60)
      <4>2. CASE cpuState.eip # "user"
        <5>1. \A a \in Live(cpuState.esp) : a \in ExceptionStack /\ a > u + FRAME - 1
          BY <2>3, <2>6, <4>2, StackAssumption, SMTT(60) DEF Live, ExceptionStack, FRAME
        <5>2. QED BY <2>2, <5>1, StackAssumption DEF FRAME, ExceptionStack
      <4>3. QED BY <4>1, <4>2, Zenon
    <3>2. saved'[1].stack = [a \in Live(cpuState.esp) |-> stackMem'[a]]
      BY <2>4, <3>1, Zenon
    <3>3. \A i \in 1 .. Len(saved) : saved[i].stack = [a \in Live(saved[i].cpu.esp) |-> stackMem'[a]]
      BY <2>10, SparedKeepsLinks, Zenon
    <3>4. cpuState.esp \in ExceptionStack => u < cpuState.esp
      BY <1>1, <2>3 DEF FrameAt, FRAME
    <3>5. \A i \in 1 .. Len(saved) :
            saved[i].cpu.esp \in ExceptionStack => /\ cpuState.esp < saved[i].cpu.esp
                                                   /\ u < saved[i].cpu.esp
      <4> TAKE i \in 1 .. Len(saved)
      <4> HAVE saved[i].cpu.esp \in ExceptionStack
      <4>1. cpuState.esp < saved[i].cpu.esp /\ saved[i].cpu.esp \in Int
        BY ZenonT(60) DEF FInv, LinkInv, StackInv, ShapeInv, IsCpu
      <4>2. cpuState.esp \in ExceptionStack
        BY <2>4, <2>6, <2>7
      <4>3. QED BY <2>3, <3>4, <4>1, <4>2
    <3>6. \A i \in 1 .. Len(saved') :
            /\ saved'[i].stack = [a \in Live(saved'[i].cpu.esp) |-> stackMem'[a]]
            /\ saved'[i].cpu.esp \in ExceptionStack => cpuState'.esp < saved'[i].cpu.esp
      <4> TAKE i \in 1 .. Len(saved')
      <4>1. CASE i = 1
        BY <2>3, <2>4, <3>2, <3>4, <4>1, Zenon
      <4>2. CASE i # 1
        <5>1. i - 1 \in 1 .. Len(saved) /\ saved'[i] = saved[i - 1]
          BY <2>4, <2>5, <4>2
        <5>2. QED BY <2>3, <3>3, <3>5, <5>1, Zenon
      <4>3. QED BY <4>1, <4>2, Zenon
    <3>7. \A i, j \in 1 .. Len(saved') :
            i < j /\ saved'[j].cpu.esp \in ExceptionStack => saved'[i].cpu.esp < saved'[j].cpu.esp
      <4> TAKE i, j \in 1 .. Len(saved')
      <4> HAVE i < j /\ saved'[j].cpu.esp \in ExceptionStack
      <4>1. j - 1 \in 1 .. Len(saved) /\ saved'[j] = saved[j - 1]
        BY <2>4, <2>5
      <4>2. CASE i = 1
        BY <2>4, <3>5, <4>1, <4>2, Zenon
      <4>3. CASE i # 1
        <5>1. i - 1 \in 1 .. Len(saved) /\ saved'[i] = saved[i - 1] /\ i - 1 < j - 1
          BY <2>4, <2>5, <4>3
        <5>2. QED BY <4>1, <5>1, Zenon DEF FInv, LinkInv, StackInv
      <4>4. QED BY <4>2, <4>3, Zenon
    <3>8. QED BY <3>6, <3>7, Zenon DEF StackInv
  <2>13. QED BY <2>4, <2>8, <2>9, <2>11, <2>12, Zenon DEF FInv, LinkInv
<1>4. QED BY <1>1, <1>2, <1>3, Zenon DEF page_fault_handler

(* The links below the first, when the stacks change where nothing that is *)
(* interrupted lies, and the running state moves to another place of the   *)
(* same upcall.                                                            *)
LEMMA UpcallStep ==
  ASSUME FInv, Len(saved) > 0, saved' = saved, Spared(stackMem'),
         stackMem' = [a \in UserStack \cup ExceptionStack |-> stackMem'[a]],
         IsCpu(cpuState'), Returns(cpuState', saved[1].cpu, stackMem')
  PROVE  FInv'
<1>1. Len(saved) \in Nat /\ 1 \in 1 .. Len(saved) /\ saved[1].cpu.esp \in Int
  <2>1. Len(saved) \in Nat
    BY CountIsNat, Zenon DEF FInv
  <2>2. 1 \in 1 .. Len(saved)
    BY <2>1
  <2>3. QED BY <2>1, <2>2, ZenonT(60) DEF FInv, LinkInv, ShapeInv, IsCpu
<1>2. ShapeInv'
  BY Zenon DEF FInv, LinkInv, ShapeInv
<1>3. KindInv'
  <2>1. cpuState'.eip # "user"
    BY Zenon DEF Returns
  <2>2. QED BY <1>1, <2>1 DEF FInv, LinkInv, KindInv
<1>4. ChainInv'
  BY SparedKeepsLinks, Zenon DEF ChainInv
<1>5. StackInv'
  <2>1. PICK u \in Int : u = FrameAt(saved[1].cpu.esp)
    BY <1>1, FrameIsInt, Zenon
  <2>2. cpuState'.esp \in {u, u - 2} /\ u + FRAME <= UXSTACKTOP
    BY <2>1, Zenon DEF Returns
  <2>3. saved[1].cpu.esp \in ExceptionStack => cpuState'.esp < saved[1].cpu.esp
    BY <1>1, <2>1, <2>2 DEF FrameAt, FRAME
  <2>4. ASSUME NEW i \in 1 .. Len(saved), saved[i].cpu.esp \in ExceptionStack
        PROVE  cpuState'.esp < saved[i].cpu.esp
    <3>1. CASE i = 1
      BY <2>3, <2>4, <3>1, Zenon
    <3>2. CASE i # 1
      <4>1. 1 < i /\ 1 < Len(saved)
        BY <1>1, <3>2
      <4>2. saved[1].cpu.esp < saved[i].cpu.esp /\ saved[i].cpu.esp \in Int
        BY <1>1, <2>4, <4>1, ZenonT(60) DEF FInv, LinkInv, StackInv, ShapeInv, IsCpu
      <4>3. saved[1].cpu.esp \in ExceptionStack
        BY <1>1, <4>1, StackOf, Zenon
      <4>4. QED BY <1>1, <2>2, <2>3, <4>2, <4>3
    <3>3. QED BY <3>1, <3>2, Zenon
  <2>5. \A i \in 1 .. Len(saved) : saved[i].stack = [a \in Live(saved[i].cpu.esp) |-> stackMem'[a]]
    BY SparedKeepsLinks, Zenon
  <2>6. QED BY <2>4, <2>5, Zenon DEF FInv, LinkInv, StackInv
<1>6. QED BY <1>2, <1>3, <1>4, <1>5, Zenon DEF FInv, LinkInv

(* What runs for a fault: its frame, and the state it returns to.          *)
LEMMA InUpcall ==
  ASSUME FInv, cpuState.eip # "user"
  PROVE  /\ Len(saved) > 0 /\ Len(saved) \in Nat /\ 1 \in 1 .. Len(saved)
         /\ IsCpu(cpuState) /\ saved[1].cpu.esp \in Int /\ IsCpu(saved[1].cpu)
         /\ Returns(cpuState, saved[1].cpu, stackMem)
         /\ FrameAt(saved[1].cpu.esp) \in Int
         /\ stackMem = [a \in UserStack \cup ExceptionStack |-> stackMem[a]]
<1>1. Len(saved) \in Nat
  BY CountIsNat, Zenon DEF FInv
<1>2. Len(saved) > 0 /\ 1 \in 1 .. Len(saved)
  BY <1>1 DEF FInv, LinkInv, KindInv
<1>3. /\ IsCpu(cpuState) /\ saved[1].cpu.esp \in Int /\ IsCpu(saved[1].cpu)
      /\ stackMem = [a \in UserStack \cup ExceptionStack |-> stackMem[a]]
  BY <1>2, Zenon DEF FInv, LinkInv, ShapeInv, IsCpu
<1>4. Returns(cpuState, saved[1].cpu, stackMem)
  BY <1>2, Zenon DEF FInv, LinkInv, ChainInv
<1>5. QED BY <1>1, <1>2, <1>3, <1>4, FrameIsInt, Zenon

(* Words of the exception stack up to the frame in use are free.           *)
LEMMA FrameIsSpared ==
  ASSUME FInv, cpuState.eip # "user", NEW W, NEW m,
         W \subseteq XBase .. FrameAt(saved[1].cpu.esp) + FRAME - 1,
         \A a \in (UserStack \cup ExceptionStack) \ W : m[a] = stackMem[a]
  PROVE  Spared(m)
<1>1. /\ Len(saved) > 0 /\ Len(saved) \in Nat /\ 1 \in 1 .. Len(saved) /\ saved[1].cpu.esp \in Int
      /\ Returns(cpuState, saved[1].cpu, stackMem)
  BY InUpcall, Zenon
<1>2. PICK u \in Int : u = FrameAt(saved[1].cpu.esp)
  BY <1>1, FrameIsInt, ZenonT(60)
<1>3. u + FRAME <= UXSTACKTOP
  BY <1>1, <1>2, Zenon DEF Returns
<1>4. ASSUME NEW w \in W
      PROVE  /\ w \in Int /\ w \in ExceptionStack /\ w \notin UserStack
             /\ saved[1].cpu.esp \in ExceptionStack => w < saved[1].cpu.esp
  <2>1. w \in Int /\ XBase <= w /\ w <= u + FRAME - 1
    BY <1>2, StackAssumption DEF FRAME
  <2>2. w \in ExceptionStack /\ w \notin UserStack
    BY <1>3, <2>1, StackAssumption DEF ExceptionStack, UserStack, FRAME
  <2>3. saved[1].cpu.esp \in ExceptionStack => u = saved[1].cpu.esp - FRAME - 1
    BY <1>2, Zenon DEF FrameAt
  <2>4. QED BY <1>1, <2>1, <2>2, <2>3 DEF FRAME
<1>5. ASSUME NEW w \in W PROVE w \notin Live(saved[1].cpu.esp)
  <2>1. CASE saved[1].cpu.esp \in ExceptionStack
    <3>1. Live(saved[1].cpu.esp) = saved[1].cpu.esp .. UXSTACKTOP - 1
      BY <2>1, Zenon DEF Live
    <3>2. QED BY <1>1, <1>4, <2>1, <3>1
  <2>2. CASE saved[1].cpu.esp \notin ExceptionStack
    BY <1>1, <1>4, <2>2, StackOf
  <2>3. QED BY <2>1, <2>2, Zenon
<1>6. QED BY <1>1, <1>4, <1>5, BelowIsSpared, ZenonT(60)

LEMMA CallStep == ASSUME FInv, call_handler PROVE FInv'
<1>1. cpuState.eip = "upcall" /\ saved' = saved /\ IsMapped(cpuState.esp - 2)
  BY Zenon DEF call_handler, At
<1>2. PICK u \in Int : u = FrameAt(saved[1].cpu.esp)
  BY <1>1, InUpcall, Zenon
<1>3. /\ XBase <= u /\ u + FRAME <= UXSTACKTOP /\ cpuState.esp = u /\ IsCpu(cpuState)
      /\ stackMem[u + utf_regs] = saved[1].cpu.regs
      /\ stackMem[u + utf_eip] = Code(saved[1].cpu.eip)
      /\ stackMem[u + utf_esp] = Address(saved[1].cpu.esp)
  BY <1>1, <1>2, InUpcall, Zenon DEF Returns
<1>4. XBase <= u - 2
  <2>1. u - 2 \in UserStack \/ u - 2 \in ExceptionStack
    BY <1>1, <1>3, Zenon DEF IsMapped
  <2>2. QED BY <1>3, <2>1, StackAssumption DEF UserStack, ExceptionStack
<1>5. stackMem' = [stackMem EXCEPT ![u - 1] = Address(u), ![u - 2] = Code("unwind")]
  BY <1>3, Zenon DEF call_handler
<1>6. /\ stackMem' = [a \in UserStack \cup ExceptionStack |-> stackMem'[a]]
      /\ stackMem'[u - 1] = Address(u) /\ stackMem'[u - 2] = Code("unwind")
      /\ \A a \in (UserStack \cup ExceptionStack) \ {u - 1, u - 2} : stackMem'[a] = stackMem[a]
  <2>1. u - 1 \in ExceptionStack /\ u - 2 \in ExceptionStack /\ u - 1 # u - 2
    BY <1>3, <1>4, StackAssumption DEF ExceptionStack, FRAME
  <2>2. stackMem = [a \in UserStack \cup ExceptionStack |-> stackMem[a]]
    BY <1>1, InUpcall, Zenon
  <2>3. QED BY <1>5, <2>1, <2>2, ZenonT(60)
<1>7. PICK l \in {"handler", "null"} : cpuState' = [cpuState EXCEPT !.esp = @ - 2, !.eip = l]
  BY ZenonT(60) DEF call_handler
<1>8. IsCpu(cpuState') /\ cpuState'.eip = l /\ cpuState'.esp = u - 2
  <2>1. cpuState' = [eip |-> l, esp |-> u - 2, regs |-> cpuState.regs]
    BY <1>3, <1>7, ZenonT(60) DEF IsCpu
  <2>2. QED BY <2>1 DEF IsCpu
<1>9. Returns(cpuState', saved[1].cpu, stackMem')
  <2>1. {u + utf_regs, u + utf_eip, u + utf_esp} \subseteq ExceptionStack \ {u - 1, u - 2}
    BY <1>3, StackAssumption DEF ExceptionStack, FRAME, utf_regs, utf_eip, utf_esp
  <2>2. /\ stackMem'[u + utf_regs] = saved[1].cpu.regs
        /\ stackMem'[u + utf_eip] = Code(saved[1].cpu.eip)
        /\ stackMem'[u + utf_esp] = Address(saved[1].cpu.esp)
    BY <1>3, <1>6, <2>1, Zenon
  <2>3. QED BY <1>2, <1>3, <1>4, <1>6, <1>8, <2>2, Zenon DEF Returns
<1>10. Spared(stackMem')
  <2>1. PICK W : W = {u - 1, u - 2}
    BY ZenonT(60)
  <2>2. W \subseteq XBase .. u + FRAME - 1
    BY <1>3, <1>4, <2>1, StackAssumption DEF FRAME
  <2>3. \A a \in (UserStack \cup ExceptionStack) \ W : stackMem'[a] = stackMem[a]
    BY <1>6, <2>1, Zenon
  <2>4. QED BY <1>1, <1>2, <2>2, <2>3, FrameIsSpared, ZenonT(60)
<1>11. QED BY <1>1, <1>6, <1>8, <1>9, <1>10, InUpcall, UpcallStep, Zenon

LEMMA ReturnStep == ASSUME FInv, handler_return PROVE FInv'
<1>1. cpuState.eip = "handler" /\ saved' = saved /\ stackMem' = stackMem
  BY Zenon DEF handler_return, At
<1>2. PICK u \in Int : u = FrameAt(saved[1].cpu.esp)
  BY <1>1, InUpcall, Zenon
<1>3. /\ XBase <= u /\ u + FRAME <= UXSTACKTOP /\ cpuState.esp = u - 2 /\ IsCpu(cpuState)
      /\ stackMem[u + utf_regs] = saved[1].cpu.regs
      /\ stackMem[u + utf_eip] = Code(saved[1].cpu.eip)
      /\ stackMem[u + utf_esp] = Address(saved[1].cpu.esp)
      /\ stackMem[u - 2] = Code("unwind")
  BY <1>1, <1>2, InUpcall, Zenon DEF Returns
<1>4. cpuState' = [cpuState EXCEPT !.eip = stackMem[cpuState.esp][2], !.esp = @ + 2]
  BY Zenon DEF handler_return
<1>5. stackMem[cpuState.esp][2] = "unwind"
  BY <1>3 DEF Code
<1>6. IsCpu(cpuState') /\ cpuState'.eip = "unwind" /\ cpuState'.esp = u
  <2>1. cpuState' = [eip |-> "unwind", esp |-> (u - 2) + 2, regs |-> cpuState.regs]
    BY <1>3, <1>4, <1>5, ZenonT(60) DEF IsCpu
  <2>2. QED BY <2>1 DEF IsCpu
<1>7. Returns(cpuState', saved[1].cpu, stackMem')
  BY <1>1, <1>2, <1>3, <1>6, Zenon DEF Returns
<1>8. Spared(stackMem')
  BY <1>1, Zenon DEF Spared
<1>9. QED BY <1>1, <1>6, <1>7, <1>8, InUpcall, UpcallStep, Zenon

LEMMA UnwindStep == ASSUME FInv, unwind PROVE FInv'
<1>1. cpuState.eip = "unwind" /\ saved' = saved
  BY Zenon DEF unwind, At
<1>2. PICK u \in Int : u = FrameAt(saved[1].cpu.esp)
  BY <1>1, InUpcall, Zenon
<1>3. /\ XBase <= u /\ u + FRAME <= UXSTACKTOP /\ cpuState.esp = u /\ IsCpu(cpuState)
      /\ stackMem[u + utf_regs] = saved[1].cpu.regs
      /\ stackMem[u + utf_eip] = Code(saved[1].cpu.eip)
      /\ stackMem[u + utf_esp] = Address(saved[1].cpu.esp)
  BY <1>1, <1>2, InUpcall, Zenon DEF Returns
<1>4. PICK ecx \in Int : ecx = saved[1].cpu.esp - 1
  BY <1>1, InUpcall
<1>5. stackMem[u + utf_esp][2] - 1 = ecx
  BY <1>3, <1>4 DEF Address
<1>6. /\ stackMem' = [stackMem EXCEPT ![u + utf_esp] = Address(ecx)]
      /\ cpuState' = [cpuState EXCEPT !.eip = "store",
                                      !.regs = <<"upcall", ecx, stackMem[u + utf_eip]>>]
  BY <1>3, <1>5, ZenonT(60) DEF unwind
<1>7. /\ stackMem' = [a \in UserStack \cup ExceptionStack |-> stackMem'[a]]
      /\ stackMem'[u + utf_esp] = Address(ecx)
      /\ \A a \in (UserStack \cup ExceptionStack) \ {u + utf_esp} : stackMem'[a] = stackMem[a]
  <2>1. u + utf_esp \in ExceptionStack
    BY <1>3, StackAssumption DEF ExceptionStack, FRAME, utf_esp
  <2>2. stackMem = [a \in UserStack \cup ExceptionStack |-> stackMem[a]]
    BY <1>1, InUpcall, Zenon
  <2>3. QED BY <1>6, <2>1, <2>2, ZenonT(60)
<1>8. /\ IsCpu(cpuState') /\ cpuState'.eip = "store" /\ cpuState'.esp = u
      /\ cpuState'.regs = <<"upcall", ecx, Code(saved[1].cpu.eip)>>
  <2>1. PICK r : r = <<"upcall", ecx, stackMem[u + utf_eip]>>
    BY ZenonT(60)
  <2>2. cpuState' = [eip |-> "store", esp |-> u, regs |-> r]
    BY <1>3, <1>6, <2>1, ZenonT(60) DEF IsCpu
  <2>3. QED BY <1>3, <2>1, <2>2, Zenon DEF IsCpu
<1>9. Returns(cpuState', saved[1].cpu, stackMem')
  <2>1. {u + utf_regs, u + utf_eip} \subseteq ExceptionStack \ {u + utf_esp}
    BY <1>3, StackAssumption DEF ExceptionStack, FRAME, utf_regs, utf_eip, utf_esp
  <2>2. /\ stackMem'[u + utf_regs] = saved[1].cpu.regs
        /\ stackMem'[u + utf_eip] = Code(saved[1].cpu.eip)
    BY <1>3, <1>7, <2>1, Zenon
  <2>3. QED BY <1>2, <1>3, <1>4, <1>7, <1>8, <2>2, Zenon DEF Returns
<1>10. Spared(stackMem')
  <2>1. PICK W : W = {u + utf_esp}
    BY ZenonT(60)
  <2>2. W \subseteq XBase .. u + FRAME - 1
    BY <1>3, <2>1, StackAssumption DEF FRAME, utf_esp
  <2>3. \A a \in (UserStack \cup ExceptionStack) \ W : stackMem'[a] = stackMem[a]
    BY <1>7, <2>1, Zenon
  <2>4. QED BY <1>1, <1>2, <2>2, <2>3, FrameIsSpared, ZenonT(60)
<1>11. QED BY <1>1, <1>7, <1>8, <1>9, <1>10, InUpcall, UpcallStep, Zenon

(* The push for "ret": into the word to spare, or below the user's stack.  *)
LEMMA StoreStep == ASSUME FInv, store PROVE FInv'
<1>1. cpuState.eip = "store" /\ saved' = saved /\ IsMapped(cpuState.regs[2])
  BY Zenon DEF store, At
<1>2. PICK u \in Int : u = FrameAt(saved[1].cpu.esp)
  BY <1>1, InUpcall, Zenon
<1>3. PICK w \in Int : w = saved[1].cpu.esp - 1
  BY <1>1, InUpcall
<1>4. /\ XBase <= u /\ u + FRAME <= UXSTACKTOP /\ cpuState.esp = u /\ IsCpu(cpuState)
      /\ stackMem[u + utf_regs] = saved[1].cpu.regs
      /\ stackMem[u + utf_eip] = Code(saved[1].cpu.eip)
      /\ stackMem[u + utf_esp] = Address(w)
      /\ cpuState.regs = <<"upcall", w, Code(saved[1].cpu.eip)>>
  BY <1>1, <1>2, <1>3, InUpcall, Zenon DEF Returns
<1>5. /\ w \in UserStack \cup ExceptionStack
      /\ stackMem' = [stackMem EXCEPT ![w] = Code(saved[1].cpu.eip)]
      /\ cpuState' = [cpuState EXCEPT !.eip = "restore"]
  <2>1. cpuState.regs[2] = w /\ cpuState.regs[3] = Code(saved[1].cpu.eip)
    BY <1>4
  <2>2. QED BY <1>1, <2>1, Zenon DEF store, IsMapped
<1>6. /\ stackMem' = [a \in UserStack \cup ExceptionStack |-> stackMem'[a]]
      /\ stackMem'[w] = Code(saved[1].cpu.eip)
      /\ \A a \in (UserStack \cup ExceptionStack) \ {w} : stackMem'[a] = stackMem[a]
  <2>1. stackMem = [a \in UserStack \cup ExceptionStack |-> stackMem[a]]
    BY <1>1, InUpcall, Zenon
  <2>2. QED BY <1>5, <2>1, SMTT(60)
<1>7. IsCpu(cpuState') /\ cpuState'.eip = "restore" /\ cpuState'.esp = u
  BY <1>4, <1>5, Zenon DEF IsCpu
<1>8. /\ Len(saved) > 0 /\ 1 \in 1 .. Len(saved) /\ saved[1].cpu.esp \in Int
      /\ Len(saved) # 1 => saved[1].cpu.esp \in ExceptionStack
  <2>1. /\ Len(saved) > 0 /\ Len(saved) \in Nat /\ 1 \in 1 .. Len(saved)
        /\ saved[1].cpu.esp \in Int
    BY <1>1, InUpcall, Zenon
  <2>2. Len(saved) # 1 => 1 < Len(saved)
    <3>1. PICK n \in Nat : n = Len(saved)
      BY <2>1, Zenon
    <3>2. n # 1 => 1 < n
      BY <2>1, <3>1
    <3>3. QED BY <3>1, <3>2, Zenon
  <2>3. QED BY <2>1, <2>2, StackOf, Zenon
<1>9. \A a \in u .. u + FRAME - 1 : a \in ExceptionStack /\ a # w
  <2> TAKE a \in u .. u + FRAME - 1
  <2>1. a \in Int /\ a \in ExceptionStack
    BY <1>4, StackAssumption DEF ExceptionStack, FRAME
  <2>2. CASE saved[1].cpu.esp \in ExceptionStack
    <3>1. u = saved[1].cpu.esp - FRAME - 1
      BY <1>2, <2>2, Zenon DEF FrameAt
    <3>2. QED BY <1>3, <1>8, <2>1, <3>1 DEF FRAME
  <2>3. CASE saved[1].cpu.esp \notin ExceptionStack
    <3>1. saved[1].cpu.esp \in 0 .. USTACKTOP
      <4>1. 1 = Len(saved)
        BY <1>8, <2>3, Zenon
      <4>2. QED BY <1>8, <4>1, Zenon DEF FInv, LinkInv, KindInv
    <3>2. QED BY <1>3, <2>1, <3>1, StackAssumption DEF ExceptionStack
  <2>4. QED BY <2>1, <2>2, <2>3, Zenon
<1>10. Returns(cpuState', saved[1].cpu, stackMem')
  <2>1. {u + utf_regs, u + utf_eip, u + utf_esp} \subseteq u .. u + FRAME - 1
    BY DEF FRAME, utf_regs, utf_eip, utf_esp
  <2>2. /\ stackMem'[u + utf_regs] = saved[1].cpu.regs
        /\ stackMem'[u + utf_eip] = Code(saved[1].cpu.eip)
        /\ stackMem'[u + utf_esp] = Address(w)
    BY <1>4, <1>6, <1>9, <2>1, Zenon
  <2>3. QED BY <1>2, <1>3, <1>4, <1>6, <1>7, <2>2, Zenon DEF Returns
<1>11. Spared(stackMem')
  <2>1. PICK W : W = {w}
    BY ZenonT(60)
  <2>2. \A a \in (UserStack \cup ExceptionStack) \ W : stackMem'[a] = stackMem[a]
    BY <1>6, <2>1, Zenon
  <2>3. w \notin Live(saved[1].cpu.esp) /\ w < saved[1].cpu.esp
    <3>1. w < saved[1].cpu.esp
      BY <1>3, <1>8
    <3>2. \A a \in Live(saved[1].cpu.esp) : a \in Int /\ saved[1].cpu.esp <= a
      BY <1>8, StackAssumption DEF Live
    <3>3. QED BY <1>8, <3>1, <3>2
  <2>4. w \notin UserStack \/ Len(saved) = 1
    <3>1. CASE Len(saved) # 1
      <4>1. saved[1].cpu.esp \in ExceptionStack
        BY <1>8, <3>1, Zenon
      <4>2. QED BY <1>3, <4>1, StackAssumption DEF ExceptionStack, UserStack
    <3>2. QED BY <3>1, Zenon
  <2>5. \A x \in W : /\ x \in Int /\ x \notin Live(saved[1].cpu.esp)
                     /\ x \notin UserStack \/ Len(saved) = 1
                     /\ saved[1].cpu.esp \in ExceptionStack => x < saved[1].cpu.esp
    BY <2>1, <2>3, <2>4, Zenon
  <2>6. QED BY <1>8, <2>2, <2>5, BelowIsSpared, ZenonT(60)
<1>12. QED BY <1>1, <1>6, <1>7, <1>8, <1>10, <1>11, UpcallStep, Zenon

(* restore gives back what was interrupted.                                *)
LEMMA RestoreGivesBack ==
  ASSUME FInv, restore
  PROVE  /\ cpuState' = saved[1].cpu /\ stackMem' = stackMem /\ saved' = Tail(saved)
         /\ Len(saved) > 0
<1>1. cpuState.eip = "restore" /\ saved' = Tail(saved) /\ stackMem' = stackMem
  BY Zenon DEF restore, At
<1>2. PICK u \in Int : u = FrameAt(saved[1].cpu.esp)
  BY <1>1, InUpcall, Zenon
<1>3. PICK w \in Int : w = saved[1].cpu.esp - 1
  BY <1>1, InUpcall
<1>4. /\ cpuState.esp = u
      /\ stackMem[u + utf_regs] = saved[1].cpu.regs
      /\ stackMem[u + utf_esp] = Address(w)
      /\ stackMem[w] = Code(saved[1].cpu.eip)
  BY <1>1, <1>2, <1>3, InUpcall, Zenon DEF Returns
<1>5. stackMem[u + utf_esp][2] = w /\ stackMem[w][2] = saved[1].cpu.eip
  BY <1>4 DEF Address, Code
<1>6. cpuState' = [eip |-> saved[1].cpu.eip, esp |-> w + 1, regs |-> saved[1].cpu.regs]
  BY <1>4, <1>5, Zenon DEF restore
<1>7. w + 1 = saved[1].cpu.esp /\ IsCpu(saved[1].cpu) /\ Len(saved) > 0
  BY <1>1, <1>3, InUpcall
<1>8. QED BY <1>1, <1>6, <1>7, Zenon DEF IsCpu

LEMMA RestoreStep == ASSUME FInv, restore PROVE FInv'
<1>1. cpuState' = saved[1].cpu /\ stackMem' = stackMem /\ saved' = Tail(saved) /\ Len(saved) > 0
  BY RestoreGivesBack, Zenon
<1>2. /\ IsSequence(saved') /\ Len(saved) \in Nat /\ Len(saved') = Len(saved) - 1
      /\ \A i \in 1 .. Len(saved') : saved'[i] = saved[i + 1] /\ i + 1 \in 1 .. Len(saved)
      /\ 1 \in 1 .. Len(saved)
  BY <1>1, Popped DEF FInv
<1>3. ShapeInv'
  BY <1>1, <1>2, Zenon DEF FInv, LinkInv, ShapeInv
<1>4. KindInv'
  <2>1. saved[1].cpu.eip = "user" <=> Len(saved') = 0
    BY <1>2 DEF FInv, LinkInv, KindInv
  <2>2. saved[1].cpu.eip = "user" => saved[1].cpu.esp \in 0 .. USTACKTOP
    BY <1>2, Zenon DEF FInv, LinkInv, KindInv
  <2>3. \A i \in 1 .. Len(saved') :
          /\ saved'[i].cpu.eip \in {"user", "upcall", "handler", "null", "store"}
          /\ saved'[i].cpu.eip = "user" <=> i = Len(saved')
          /\ saved'[i].cpu.eip = "user" => saved'[i].cpu.esp \in 0 .. USTACKTOP
    <3> TAKE i \in 1 .. Len(saved')
    <3>1. i + 1 = Len(saved) <=> i = Len(saved')
      BY <1>2
    <3>2. QED BY <1>2, <3>1, SMTT(60) DEF FInv, LinkInv, KindInv
  <2>4. QED BY <1>1, <2>1, <2>2, <2>3, Zenon DEF KindInv
<1>5. ChainInv'
  <2>1. \A i \in 1 .. Len(saved) - 1 : Returns(saved[i].cpu, saved[i + 1].cpu, stackMem)
    BY Zenon DEF FInv, LinkInv, ChainInv
  <2>2. ASSUME Len(saved') > 0 PROVE Returns(saved[1].cpu, saved'[1].cpu, stackMem)
    <3>1. 1 \in 1 .. Len(saved) - 1 /\ 1 \in 1 .. Len(saved')
      BY <1>2, <2>2
    <3>2. saved'[1] = saved[1 + 1]
      BY <1>2, <3>1, Zenon
    <3>3. QED BY <2>1, <3>1, <3>2, Zenon
  <2>3. ASSUME NEW i \in 1 .. Len(saved') - 1
        PROVE  Returns(saved'[i].cpu, saved'[i + 1].cpu, stackMem)
    <3>1. i + 1 \in 1 .. Len(saved) - 1 /\ i \in 1 .. Len(saved') /\ i + 1 \in 1 .. Len(saved')
      BY <1>2
    <3>2. saved'[i] = saved[i + 1] /\ saved'[i + 1] = saved[(i + 1) + 1]
      BY <1>2, <3>1, Zenon
    <3>3. QED BY <2>1, <3>1, <3>2, Zenon
  <2>4. QED BY <1>1, <2>2, <2>3, Zenon DEF ChainInv
<1>6. StackInv'
  <2>1. \A i \in 1 .. Len(saved') :
          /\ saved'[i].stack = [a \in Live(saved'[i].cpu.esp) |-> stackMem[a]]
          /\ saved'[i].cpu.esp \in ExceptionStack => saved[1].cpu.esp < saved'[i].cpu.esp
    <3> TAKE i \in 1 .. Len(saved')
    <3>1. saved'[i] = saved[i + 1] /\ i + 1 \in 1 .. Len(saved) /\ 1 < i + 1
      BY <1>2
    <3>2. QED BY <1>2, <3>1, Zenon DEF FInv, LinkInv, StackInv
  <2>2. \A i, j \in 1 .. Len(saved') :
          i < j /\ saved'[j].cpu.esp \in ExceptionStack => saved'[i].cpu.esp < saved'[j].cpu.esp
    <3> TAKE i, j \in 1 .. Len(saved')
    <3> HAVE i < j /\ saved'[j].cpu.esp \in ExceptionStack
    <3>1. /\ saved'[i] = saved[i + 1] /\ saved'[j] = saved[j + 1] /\ i + 1 < j + 1
          /\ i + 1 \in 1 .. Len(saved) /\ j + 1 \in 1 .. Len(saved)
      BY <1>2
    <3>2. QED BY <3>1, Zenon DEF FInv, LinkInv, StackInv
  <2>3. QED BY <1>1, <2>1, <2>2, Zenon DEF StackInv
<1>7. QED BY <1>2, <1>3, <1>4, <1>5, <1>6, Zenon DEF FInv, LinkInv

LEMMA LinkNext == FInv /\ [FaultNext]_faultVars => FInv'
<1> SUFFICES ASSUME FInv, [FaultNext]_faultVars PROVE FInv'
  BY Zenon
<1>1. CASE UNCHANGED faultVars
  BY <1>1, Untouched, Zenon DEF faultVars
<1>2. CASE set_pgfault_handler \/ pop \/ \E v \in Values : push(v)
  BY <1>2, ProgramStep, Zenon
<1>3. CASE Fault
  <2>1. \E va : page_fault_handler(va)
    BY <1>3, Zenon DEF Fault
  <2>2. cpuState.eip \in {"user", "upcall", "handler", "null", "store"}
    BY <1>3, Zenon DEF Fault
  <2>3. QED BY <2>1, <2>2, FaultStep, Zenon
<1>4. CASE call_handler \/ handler_return \/ unwind \/ store \/ restore
  BY <1>4, CallStep, ReturnStep, UnwindStep, StoreStep, RestoreStep, Zenon
<1>5. QED BY <1>1, <1>2, <1>3, <1>4, Zenon DEF FaultNext

(* Page faults are invisible, for stacks of any size and any depth of      *)
(* faults in the handler and in the upcall's own way out (pfentry.S:44-62, *)
(* trap.c:411-418).                                                        *)
THEOREM FaultsAreInvisible == FaultSpec => FaultIsInvisible
<1>1. ASSUME FInv, FaultNext, cpuState.eip = "restore", cpuState' # cpuState
      PROVE  /\ cpuState' = saved[1].cpu
             /\ \A a \in DOMAIN saved[1].stack : stackMem'[a] = saved[1].stack[a]
  <2>1. restore
    BY <1>1, Zenon DEF FaultNext, set_pgfault_handler, pop, push, Fault, call_handler,
                handler_return, unwind, store, At
  <2>2. cpuState' = saved[1].cpu /\ stackMem' = stackMem /\ Len(saved) > 0
    BY <1>1, <2>1, RestoreGivesBack, Zenon
  <2>3. 1 \in 1 .. Len(saved)
    BY <1>1, <2>2, CountIsNat DEF FInv
  <2>4. saved[1].stack = [a \in Live(saved[1].cpu.esp) |-> stackMem[a]]
    BY <1>1, <2>3, Zenon DEF FInv, LinkInv, StackInv
  <2>5. QED BY <2>2, <2>4, Zenon
<1>2. FInv /\ [FaultNext]_faultVars =>
        [cpuState.eip = "restore" =>
           /\ cpuState' = saved[1].cpu
           /\ \A a \in DOMAIN saved[1].stack : stackMem'[a] = saved[1].stack[a]]_cpuState
  BY <1>1, Zenon DEF faultVars
<1>3. QED BY <1>2, LinkInit, LinkNext, PTL DEF FaultSpec, FaultIsInvisible

-----------------------------------------------------------------------------
(***************************************************************************)
(* The console, for every size of the screen and of the buffers and any    *)
(* number of keys and characters: the cursor stays on the screen, the ring *)
(* holds the newest characters, and no modifier is left behind.            *)
(***************************************************************************)

-----------------------------------------------------------------------------
(* The cursor.                                                             *)

LEMMA ScreenSize == CRT_SIZE \in Nat /\ CRT_SIZE >= 2 * CRT_COLS /\ CRT_COLS > 0
BY SizeAssumption DEF CRT_SIZE

LEMMA Quotient ==
  ASSUME NEW n \in Nat, n > 0, NEW a \in Nat
  PROVE  /\ a \div n \in Nat /\ a % n \in 0 .. n - 1
         /\ a = n * (a \div n) + (a % n)
OBVIOUS

LEMMA RowStartMeans ==
  ASSUME NEW pos \in Nat
  PROVE  RowStart(pos) \in 0 .. pos
<1>1. ASSUME NEW n \in Nat, n > 0 PROVE pos % n \in 0 .. pos
  <2>1. pos % n \in 0 .. n - 1 /\ pos \div n \in Nat /\ pos = n * (pos \div n) + (pos % n)
    BY <1>1, Quotient, Zenon
  <2>2. n * (pos \div n) \in Nat
    BY <2>1
  <2>3. QED BY <2>1, <2>2
<1>2. pos % CRT_COLS \in 0 .. pos
  BY <1>1, SizeAssumption
<1>3. QED BY <1>2 DEF RowStart

LEMMA ScrolledMeans ==
  ASSUME NEW pos \in 0 .. (CRT_SIZE - 1) + CRT_COLS
  PROVE  Scrolled(pos) \in 0 .. CRT_SIZE - 1
<1> USE ScreenSize, SizeAssumption
<1> HIDE DEF CRT_SIZE
<1>1. QED BY DEF Scrolled

(* cga_putc wraps, scrolls and backs up within the screen.                 *)
LEMMA PutcOnScreen ==
  ASSUME NEW pos \in 0 .. CRT_SIZE - 1, NEW c
  PROVE  cga_putc(pos, c) \in 0 .. CRT_SIZE - 1
<1> USE ScreenSize, SizeAssumption
<1> HIDE DEF CRT_SIZE
<1>1. \A p \in 0 .. CRT_SIZE - 1 : Scrolled(p + 1) \in 0 .. CRT_SIZE - 1
  BY ScrolledMeans
<1>2. CASE c = "BS"
  <2>1. (IF pos > 0 THEN pos - 1 ELSE pos) \in 0 .. (CRT_SIZE - 1) + CRT_COLS
    OBVIOUS
  <2>2. QED BY <1>2, <2>1, ScrolledMeans, Zenon DEF cga_putc
<1>3. CASE c = "LF"
  <2>1. RowStart(pos + CRT_COLS) \in 0 .. (CRT_SIZE - 1) + CRT_COLS
    BY RowStartMeans
  <2>2. QED BY <1>3, <2>1, ScrolledMeans, Zenon DEF cga_putc
<1>4. CASE c = "CR"
  <2>1. RowStart(pos) \in 0 .. (CRT_SIZE - 1) + CRT_COLS
    BY RowStartMeans
  <2>2. QED BY <1>4, <2>1, ScrolledMeans, Zenon DEF cga_putc
<1>5. CASE c = "TAB"
  <2>1. PICK p1 \in 0 .. CRT_SIZE - 1 : p1 = Scrolled(pos + 1)
    BY <1>1, Zenon
  <2>2. PICK p2 \in 0 .. CRT_SIZE - 1 : p2 = Scrolled(p1 + 1)
    BY <1>1, Zenon
  <2>3. PICK p3 \in 0 .. CRT_SIZE - 1 : p3 = Scrolled(p2 + 1)
    BY <1>1, Zenon
  <2>4. PICK p4 \in 0 .. CRT_SIZE - 1 : p4 = Scrolled(p3 + 1)
    BY <1>1, Zenon
  <2>5. PICK p5 \in 0 .. CRT_SIZE - 1 : p5 = Scrolled(p4 + 1)
    BY <1>1, Zenon
  <2>6. cga_putc(pos, c) = Scrolled(p5)
    BY <1>5, <2>1, <2>2, <2>3, <2>4, <2>5, Zenon DEF cga_putc
  <2>7. p5 \in 0 .. (CRT_SIZE - 1) + CRT_COLS
    OBVIOUS
  <2>8. QED BY <2>6, <2>7, ScrolledMeans, Zenon
<1>6. CASE c \notin {"BS", "LF", "CR", "TAB"}
  BY <1>1, <1>6, Zenon DEF cga_putc
<1>7. QED BY <1>2, <1>3, <1>4, <1>5, <1>6, Zenon

(* The cursor is always a cell of the screen, of whatever size, so that    *)
(* cga_putc writes in crt_buf only (console.c:165-206).                    *)
THEOREM CursorStaysOnScreen == ConsSpec => []CursorOnScreen
<1>1. ConsInit => CursorOnScreen
  BY Zenon DEF ConsInit, CursorOnScreen
<1>2. CursorOnScreen /\ [ConsNext]_consVars => CursorOnScreen'
  <2> SUFFICES ASSUME CursorOnScreen, [ConsNext]_consVars PROVE CursorOnScreen'
    BY Zenon
  <2>1. CASE UNCHANGED crt_pos
    BY <2>1, Zenon DEF CursorOnScreen
  <2>2. ASSUME NEW c, crt_pos' = cga_putc(crt_pos, c) PROVE CursorOnScreen'
    BY <2>2, PutcOnScreen, Zenon DEF CursorOnScreen
  <2>3. CASE cons_getc
    BY <2>1, <2>2, <2>3, Zenon DEF cons_getc
  <2>4. QED
    BY <2>1, <2>2, <2>3, ZenonT(60) DEF ConsNext, consVars, Press, Let_go, kbd_intr, serial_intr,
                                    sys_cputs
<1>3. QED BY <1>1, <1>2, PTL DEF ConsSpec
-----------------------------------------------------------------------------
(* The ring.  Slots and distances without %, for provers and readers.      *)

N == CONSBUFSIZE
Chars == {"NUL", "d", "D", "ctl-d", "BS", "LF", "CR", "s"}

Distance(r, w) == IF w >= r THEN w - r ELSE (w - r) + N
SlotAt(r, i) == IF r + i < N THEN r + i ELSE (r + i) - N

(* b holds, from r to w, the newest characters of a; t were taken before,  *)
(* and whole laps were lost.                                               *)
RingHolds(b, a, t) ==
  LET u == Distance(b.rpos, b.wpos)
  IN  /\ \E laps \in Nat : Len(a) = (t + u) + N * laps
      /\ \A i \in 0 .. u - 1 : b.buf[SlotAt(b.rpos, i)] = a[(Len(a) - u) + i + 1]

Buffers == [buf : [Slots -> Chars], rpos : Slots, wpos : Slots]

RingInv ==
  /\ cons \in Buffers /\ arrived \in Seq(Chars) /\ taken \in Nat
  /\ RingHolds(cons, arrived, taken)

LEMMA WrapOnce ==
  ASSUME NEW n \in Nat, n > 0, NEW a \in Int, -n < a, a < 2 * n
  PROVE  a % n = IF a < 0 THEN a + n ELSE IF a < n THEN a ELSE a - n
OBVIOUS

LEMMA Multiple ==
  ASSUME NEW n \in Nat, n > 0, NEW q \in Nat
  PROVE  (n * q) % n = 0
OBVIOUS

LEMMA DistanceMeans ==
  ASSUME NEW r \in Slots, NEW w \in Slots
  PROVE  Distance(r, w) \in Nat /\ Distance(r, w) < N /\ (r # w => Distance(r, w) > 0)
BY SizeAssumption DEF Distance, Slots, N

LEMMA DistanceLess ==
  ASSUME NEW r \in Slots, NEW w \in Slots, r # w,
         NEW v \in Slots, v = IF r + 1 = N THEN 0 ELSE r + 1
  PROVE  Distance(v, w) = Distance(r, w) - 1
<1> USE SizeAssumption DEF Slots, N
<1>1. CASE r + 1 = N
  <2>1. v = 0 /\ w < r
    BY <1>1
  <2>2. Distance(v, w) = w /\ Distance(r, w) = (w - r) + N
    BY <2>1 DEF Distance
  <2>3. QED BY <1>1, <2>2
<1>2. CASE r + 1 # N
  <2>1. v = r + 1
    BY <1>2, Zenon
  <2>2. CASE w > r
    BY <2>1, <2>2 DEF Distance
  <2>3. CASE w < r
    BY <2>1, <2>3 DEF Distance
  <2>4. QED BY <2>2, <2>3
<1>3. QED BY <1>1, <1>2, Zenon

LEMMA RingIntro ==
  ASSUME NEW b, NEW a, NEW t, NEW u, u = Distance(b.rpos, b.wpos),
         NEW laps \in Nat, Len(a) = (t + u) + N * laps,
         \A i \in 0 .. u - 1 : b.buf[SlotAt(b.rpos, i)] = a[(Len(a) - u) + i + 1]
  PROVE  RingHolds(b, a, t)
BY Zenon DEF RingHolds

LEMMA RingMeans ==
  ASSUME RingInv
  PROVE  /\ \A i \in 1 .. Unread :
              cons.buf[(cons.rpos + i - 1) % CONSBUFSIZE] = arrived[Len(arrived) - Unread + i]
         /\ (Len(arrived) - taken - Unread) % CONSBUFSIZE = 0
<1> USE SizeAssumption DEF N
<1>1. PICK r \in Slots, w \in Slots, l \in Nat :
        r = cons.rpos /\ w = cons.wpos /\ l = Len(arrived)
  BY DEF RingInv, Buffers
<1>2. PICK u \in Nat : u = Distance(r, w) /\ u < N
  BY DistanceMeans, Zenon
<1>3. Unread = u
  <2>1. (w - r) % N = IF w - r < 0 THEN (w - r) + N ELSE w - r
    BY WrapOnce DEF Slots
  <2>2. QED BY <1>1, <1>2, <2>1 DEF Unread, Distance, Slots
<1>4. /\ \E laps \in Nat : l = (taken + u) + N * laps
      /\ \A i \in 0 .. u - 1 : cons.buf[SlotAt(r, i)] = arrived[(l - u) + i + 1]
  BY <1>1, <1>2, ZenonT(60) DEF RingInv, RingHolds
<1>5. ASSUME NEW i \in 1 .. u
      PROVE  cons.buf[(r + i - 1) % N] = arrived[l - u + i]
  <2>1. PICK j \in 0 .. u - 1 : j = i - 1 /\ r + i - 1 = r + j /\ l - u + i = (l - u) + j + 1
    BY <1>2 DEF Slots
  <2>2. (r + j) % N = SlotAt(r, j)
    <3>1. PICK a \in Nat : a = r + j /\ a < 2 * N
      BY <1>2 DEF Slots
    <3>2. a % N = IF a < N THEN a ELSE a - N
      BY <3>1, WrapOnce
    <3>3. QED BY <3>1, <3>2, Zenon DEF SlotAt
  <2>3. QED BY <1>4, <2>1, <2>2, Zenon
<1>6. (l - taken - u) % N = 0
  <2>1. PICK laps \in Nat : l = (taken + u) + N * laps
    BY <1>4, Zenon
  <2>2. l - taken - u = N * laps
    BY <2>1 DEF RingInv
  <2>3. (N * laps) % N = 0
    BY Multiple
  <2>4. QED BY <2>2, <2>3, Zenon
<1>7. QED BY <1>1, <1>3, <1>5, <1>6, Zenon

(* cons_intr adds a character, and loses a lap if the ring was full.       *)
LEMMA StashRing ==
  ASSUME NEW b \in Buffers, NEW a \in Seq(Chars), NEW t \in Nat, RingHolds(b, a, t),
         NEW c \in Chars \cup {"NO"}
  PROVE  /\ Stash(b, c) \in Buffers /\ Note(a, c) \in Seq(Chars)
         /\ RingHolds(Stash(b, c), Note(a, c), t)
<1> USE SizeAssumption DEF N
<1>1. CASE c = "NO"
  BY <1>1, Zenon DEF Stash, Note
<1>2. CASE c # "NO"
  <2>1. c \in Chars
    BY <1>2, Zenon
  <2>2. PICK r \in Slots, w \in Slots, l \in Nat : r = b.rpos /\ w = b.wpos /\ l = Len(a)
    BY DEF Buffers
  <2>3. PICK v \in Slots : v = Advance(w) /\ v = IF w + 1 = N THEN 0 ELSE w + 1
    BY DEF Advance, Slots
  <2>4. PICK d \in Buffers : /\ d = Stash(b, c)
                             /\ d.rpos = r /\ d.wpos = v
                             /\ d.buf = [b.buf EXCEPT ![w] = c]
    <3>1. Stash(b, c) = [b EXCEPT !.buf = [b.buf EXCEPT ![w] = c], !.wpos = v]
      BY <1>2, <2>2, <2>3, Zenon DEF Stash
    <3>2. [b.buf EXCEPT ![w] = c] \in [Slots -> Chars]
      BY <2>1, Zenon DEF Buffers
    <3>3. QED BY <2>2, <3>1, <3>2, ZenonT(60) DEF Buffers
  <2>5. /\ Note(a, c) = Append(a, c) /\ Append(a, c) \in Seq(Chars)
        /\ Len(Append(a, c)) = l + 1 /\ Append(a, c)[l + 1] = c
        /\ \A i \in 1 .. l : Append(a, c)[i] = a[i]
    BY <1>2, <2>1, <2>2 DEF Note
  <2>6. PICK u \in Nat : u = Distance(r, w) /\ u < N
    BY DistanceMeans, Zenon
  <2>7. PICK laps \in Nat : l = (t + u) + N * laps
    BY <2>2, <2>6, ZenonT(60) DEF RingHolds
  <2>8. \A i \in 0 .. u - 1 : b.buf[SlotAt(r, i)] = a[(l - u) + i + 1]
    BY <2>2, <2>6, Zenon DEF RingHolds
  <2>9. CASE u = N - 1
    <3>1. Distance(r, v) = 0
      BY <2>3, <2>6, <2>9 DEF Distance, Slots
    <3>2. l + 1 = (t + 0) + N * (laps + 1)
      BY <2>7, <2>9
    <3>3. RingHolds(d, Append(a, c), t)
      <4>1. \A i \in 0 .. 0 - 1 :
              d.buf[SlotAt(d.rpos, i)] = Append(a, c)[(Len(Append(a, c)) - 0) + i + 1]
        OBVIOUS
      <4>2. laps + 1 \in Nat /\ Distance(d.rpos, d.wpos) = 0
        BY <2>4, <3>1
      <4>3. Len(Append(a, c)) = (t + 0) + N * (laps + 1)
        BY <2>5, <3>2, Zenon
      <4>4. QED BY <4>1, <4>2, <4>3, RingIntro, ZenonT(60)
    <3>4. QED BY <2>4, <2>5, <3>3, Zenon
  <2>10. CASE u # N - 1
    <3>1. Distance(r, v) = u + 1
      BY <2>3, <2>6, <2>10 DEF Distance, Slots
    <3>2. l + 1 = (t + (u + 1)) + N * laps
      BY <2>7
    <3>3. N * laps \in Nat /\ u <= l
      BY <2>7
    <3>4. ASSUME NEW i \in 0 .. u
          PROVE  d.buf[SlotAt(r, i)] = Append(a, c)[((l + 1) - (u + 1)) + i + 1]
      <4>1. CASE i = u
        <5>1. SlotAt(r, i) = w
          BY <2>6, <4>1 DEF SlotAt, Distance, Slots
        <5>2. ((l + 1) - (u + 1)) + i + 1 = l + 1
          BY <3>3, <4>1
        <5>3. d.buf[w] = c
          BY <2>4, Zenon DEF Buffers
        <5>4. QED BY <2>5, <5>1, <5>2, <5>3, SMTT(60)
      <4>2. CASE i # u
        <5>1. SlotAt(r, i) # w /\ SlotAt(r, i) \in Slots
          BY <2>6, <4>2 DEF SlotAt, Distance, Slots
        <5>2. d.buf[SlotAt(r, i)] = b.buf[SlotAt(r, i)]
          BY <2>4, <5>1, Zenon DEF Buffers
        <5>3. PICK k \in 1 .. l : /\ k = (l - u) + i + 1
                                  /\ k = ((l + 1) - (u + 1)) + i + 1
          BY <3>3, <4>2
        <5>4. b.buf[SlotAt(r, i)] = a[k]
          BY <2>8, <4>2, <5>3
        <5>5. QED BY <2>5, <5>2, <5>3, <5>4, ZenonT(60)
      <4>3. QED BY <4>1, <4>2, ZenonT(60)
    <3>5. RingHolds(d, Append(a, c), t)
      <4>1. PICK x : x = u + 1 /\ x - 1 = u
        OBVIOUS
      <4>2. \A i \in 0 .. x - 1 :
              d.buf[SlotAt(d.rpos, i)] = Append(a, c)[(Len(Append(a, c)) - x) + i + 1]
        BY <2>4, <2>5, <3>4, <4>1, ZenonT(60)
      <4>3. Len(Append(a, c)) = (t + x) + N * laps /\ x = Distance(d.rpos, d.wpos)
        BY <2>4, <2>5, <3>1, <3>2, <4>1, Zenon
      <4>4. QED BY <4>2, <4>3, RingIntro, ZenonT(60)
    <3>6. QED BY <2>4, <2>5, <3>5, Zenon
  <2>11. QED BY <2>9, <2>10, Zenon
<1>3. QED BY <1>1, <1>2, Zenon

(* cons_getc takes the oldest one that is left.                            *)
LEMMA TakeRing ==
  ASSUME NEW b \in Buffers, NEW a \in Seq(Chars), NEW t \in Nat, RingHolds(b, a, t),
         b.rpos # b.wpos
  PROVE  /\ [b EXCEPT !.rpos = Advance(@)] \in Buffers
         /\ RingHolds([b EXCEPT !.rpos = Advance(@)], a, t + 1)
<1> USE SizeAssumption DEF N
<1>1. PICK r \in Slots, w \in Slots, l \in Nat : r = b.rpos /\ w = b.wpos /\ l = Len(a)
  BY DEF Buffers
<1>2. PICK v \in Slots : v = Advance(r) /\ v = IF r + 1 = N THEN 0 ELSE r + 1
  BY DEF Advance, Slots
<1>3. PICK d \in Buffers : /\ d = [b EXCEPT !.rpos = Advance(@)]
                           /\ d.rpos = v /\ d.wpos = w /\ d.buf = b.buf
  <2>1. [b EXCEPT !.rpos = Advance(@)] = [b EXCEPT !.rpos = v]
    BY <1>1, <1>2, Zenon
  <2>2. /\ [b EXCEPT !.rpos = v] \in Buffers
        /\ [b EXCEPT !.rpos = v].rpos = v
        /\ [b EXCEPT !.rpos = v].wpos = w
        /\ [b EXCEPT !.rpos = v].buf = b.buf
    BY <1>1, Zenon DEF Buffers
  <2>3. QED BY <2>1, <2>2, ZenonT(60)
<1>4. PICK u \in Nat : u = Distance(r, w) /\ u < N /\ u > 0 /\ Distance(v, w) = u - 1
  <2>1. Distance(r, w) \in Nat /\ Distance(r, w) < N /\ Distance(r, w) > 0
    BY <1>1, DistanceMeans, Zenon
  <2>2. Distance(v, w) = Distance(r, w) - 1
    BY <1>1, <1>2, DistanceLess, Zenon
  <2>3. QED BY <2>1, <2>2, Zenon
<1>5. PICK laps \in Nat : l = (t + u) + N * laps
  BY <1>1, <1>4, ZenonT(60) DEF RingHolds
<1>6. \A i \in 0 .. u - 1 : b.buf[SlotAt(r, i)] = a[(l - u) + i + 1]
  BY <1>1, <1>4, ZenonT(60) DEF RingHolds
<1>7. l = ((t + 1) + (u - 1)) + N * laps
  BY <1>5
<1>8. ASSUME NEW i \in 0 .. (u - 1) - 1
      PROVE  d.buf[SlotAt(v, i)] = a[(l - (u - 1)) + i + 1]
  <2>1. i \in Nat /\ i + 1 < N /\ r \in 0 .. N - 1
    BY <1>1, <1>4 DEF Slots
  <2>2. SlotAt(v, i) = SlotAt(r, i + 1)
    BY <1>2, <2>1, SMTT(60) DEF SlotAt
  <2>3. (l - (u - 1)) + i + 1 = (l - u) + (i + 1) + 1
    OBVIOUS
  <2>4. b.buf[SlotAt(r, i + 1)] = a[(l - u) + (i + 1) + 1]
    BY <1>6
  <2>5. QED BY <1>3, <2>2, <2>3, <2>4, Zenon
<1>9. RingHolds(d, a, t + 1)
  <2>1. PICK x : x = u - 1
    BY Zenon
  <2>2. \A i \in 0 .. x - 1 : d.buf[SlotAt(d.rpos, i)] = a[(Len(a) - x) + i + 1]
    BY <1>1, <1>3, <1>8, <2>1, Zenon
  <2>3. Len(a) = ((t + 1) + x) + N * laps /\ x = Distance(d.rpos, d.wpos)
    BY <1>1, <1>3, <1>4, <1>7, <2>1, Zenon
  <2>4. QED BY <2>2, <2>3, RingIntro, ZenonT(60)
<1>10. QED BY <1>3, <1>9, Zenon
-----------------------------------------------------------------------------
(* The modifiers.                                                          *)

CodeSet == [key : Keys \cup {"E0"}, up : BOOLEAN]
Flags == {"SHIFT", "CTL", "CAPSLOCK", "E0ESC"}

About(d, m) == m \in shiftcode(d.key)
HeldDown(m) == \E k \in keysDown : m \in shiftcode(k)

(* The last code about m that is on its way is a release; if none is on    *)
(* its way, m is off.                                                      *)
Released(m, s, q) ==
  /\ (\A j \in 1 .. Len(q) : ~ About(q[j], m)) => m \notin s
  /\ \A j \in 1 .. Len(q) :
       About(q[j], m) /\ (\A l \in j + 1 .. Len(q) : ~ About(q[l], m)) => q[j].up

(* An E0 is followed by the code it belongs to.                            *)
Escapes(s, q) ==
  /\ "E0ESC" \in s => Len(q) > 0 /\ q[1].key # "E0"
  /\ \A j \in 1 .. Len(q) : q[j].key = "E0" => j < Len(q) /\ q[j + 1].key # "E0"

FlagsInv ==
  /\ kbd \in Seq(CodeSet) /\ keysDown \subseteq Keys /\ shift \subseteq Flags
  /\ \A m \in {"SHIFT", "CTL"} : HeldDown(m) \/ Released(m, shift, kbd)
  /\ Escapes(shift, kbd)

LEMMA FlagsMean ==
  FlagsInv /\ kbd = <<>> => shift \ {"CAPSLOCK"} \subseteq UNION {shiftcode(k) : k \in keysDown}
<1> SUFFICES ASSUME FlagsInv, kbd = <<>>, NEW m \in shift \ {"CAPSLOCK"}
             PROVE  \E k \in keysDown : m \in shiftcode(k)
  BY Zenon
<1>1. Len(kbd) = 0
  BY Zenon
<1>2. m \in {"SHIFT", "CTL"}
  BY <1>1 DEF FlagsInv, Flags, Escapes
<1>3. ~ Released(m, shift, kbd)
  BY <1>1 DEF Released
<1>4. QED BY <1>2, <1>3, Zenon DEF FlagsInv, HeldDown

(* What the keyboard sends for one key.                                    *)
LEMMA CodesSent ==
  ASSUME NEW q \in Seq(CodeSet), NEW x \in CodeSet,
         NEW p, p = q \o <<E0, x>> \/ p = q \o <<x>>
  PROVE  /\ p \in Seq(CodeSet) /\ Len(p) \in {Len(q) + 1, Len(q) + 2}
         /\ \A j \in 1 .. Len(q) : p[j] = q[j]
         /\ \A j \in Len(q) + 1 .. Len(p) - 1 : p[j] = E0
         /\ p[Len(p)] = x
<1>1. E0 \in CodeSet
  BY Zenon DEF CodeSet, E0
<1>2. CASE p = q \o <<E0, x>>
  <2>1. /\ <<E0, x>> \in Seq(CodeSet) /\ Len(<<E0, x>>) = 2
        /\ <<E0, x>>[1] = E0 /\ <<E0, x>>[2] = x
    BY <1>1
  <2>2. p \in Seq(CodeSet) /\ Len(p) = Len(q) + 2
    BY <1>2, <2>1
  <2>3. /\ \A j \in 1 .. Len(q) : p[j] = q[j]
        /\ p[Len(q) + 1] = E0 /\ p[Len(q) + 2] = x
    BY <1>2, <2>1
  <2>4. QED BY <2>2, <2>3
<1>3. CASE p = q \o <<x>>
  <2>1. <<x>> \in Seq(CodeSet) /\ Len(<<x>>) = 1 /\ <<x>>[1] = x
    OBVIOUS
  <2>2. p \in Seq(CodeSet) /\ Len(p) = Len(q) + 1
    BY <1>3, <2>1
  <2>3. (\A j \in 1 .. Len(q) : p[j] = q[j]) /\ p[Len(q) + 1] = x
    BY <1>3, <2>1
  <2>4. QED BY <2>2, <2>3
<1>4. QED BY <1>2, <1>3, Zenon

LEMMA SentEscapes ==
  ASSUME NEW q \in Seq(CodeSet), NEW x \in CodeSet, x.key \in Keys,
         NEW p, p = q \o <<E0, x>> \/ p = q \o <<x>>, NEW s, Escapes(s, q)
  PROVE  Escapes(s, p)
<1>1. /\ p \in Seq(CodeSet) /\ Len(p) \in {Len(q) + 1, Len(q) + 2}
      /\ \A j \in 1 .. Len(q) : p[j] = q[j]
      /\ \A j \in Len(q) + 1 .. Len(p) - 1 : p[j] = E0
      /\ p[Len(p)] = x
  BY CodesSent
<1>2. PICK l \in Nat : l = Len(q)
  OBVIOUS
<1>3. p[Len(p)].key # "E0"
  BY <1>1, Zenon DEF Keys
<1>4. "E0ESC" \in s => Len(p) > 0 /\ p[1].key # "E0"
  BY <1>1, <1>2 DEF Escapes
<1>5. ASSUME NEW j \in 1 .. Len(p), p[j].key = "E0" PROVE j < Len(p) /\ p[j + 1].key # "E0"
  <2>1. CASE j <= l
    <3>1. q[j].key = "E0" /\ j \in 1 .. Len(q)
      BY <1>1, <1>2, <1>5, <2>1
    <3>2. j < Len(q) /\ q[j + 1].key # "E0"
      BY <3>1, Zenon DEF Escapes
    <3>3. p[j + 1] = q[j + 1]
      <4>1. j + 1 \in 1 .. Len(q)
        BY <1>2, <3>1, <3>2
      <4>2. QED BY <1>1, <4>1, Zenon
    <3>4. QED BY <1>1, <1>2, <3>2, <3>3
  <2>2. CASE j > l
    <3>1. j # Len(p)
      BY <1>3, <1>5, Zenon
    <3>2. j + 1 = Len(p)
      BY <1>1, <1>2, <2>2, <3>1
    <3>3. QED BY <1>3, <3>1, <3>2
  <2>3. QED BY <1>2, <2>1, <2>2
<1>6. QED BY <1>4, <1>5, Zenon DEF Escapes

(* Codes of other keys leave m as it was, and a release releases.          *)
LEMMA SentReleased ==
  ASSUME NEW q \in Seq(CodeSet), NEW x \in CodeSet, x.key \in Keys,
         NEW p, p = q \o <<E0, x>> \/ p = q \o <<x>>, NEW s, NEW m \in {"SHIFT", "CTL"},
         \/ ~ About(x, m) /\ Released(m, s, q)
         \/ About(x, m) /\ x.up
  PROVE  Released(m, s, p)
<1>1. /\ p \in Seq(CodeSet) /\ Len(p) \in {Len(q) + 1, Len(q) + 2}
      /\ \A j \in 1 .. Len(q) : p[j] = q[j]
      /\ \A j \in Len(q) + 1 .. Len(p) - 1 : p[j] = E0
      /\ p[Len(p)] = x
  BY CodesSent, SMTT(60)
<1>2. PICK l \in Nat, n \in Nat : l = Len(q) /\ n = Len(p) /\ n \in {l + 1, l + 2}
  BY <1>1
<1>3. ~ About(E0, m)
  BY Zenon DEF About, E0, shiftcode
<1>4. p[n] = x
  BY <1>1, <1>2, Zenon
<1>5. \A j \in 1 .. n : j <= l \/ j = n \/ p[j] = E0
  BY <1>1, <1>2
<1>6. CASE ~ About(x, m) /\ Released(m, s, q)
  <2>1. \A j \in 1 .. n : About(p[j], m) => j \in 1 .. l /\ p[j] = q[j]
    BY <1>1, <1>2, <1>3, <1>4, <1>5, <1>6
  <2>2. ASSUME \A j \in 1 .. n : ~ About(p[j], m) PROVE m \notin s
    <3>1. \A j \in 1 .. l : ~ About(q[j], m)
      BY <1>1, <1>2, <2>2
    <3>2. QED BY <1>2, <1>6, <3>1, Zenon DEF Released
  <2>3. ASSUME NEW j \in 1 .. n, About(p[j], m), \A i \in j + 1 .. n : ~ About(p[i], m)
        PROVE  p[j].up
    <3>1. j \in 1 .. l /\ p[j] = q[j]
      BY <2>1, <2>3, Zenon
    <3>2. \A i \in j + 1 .. l : ~ About(q[i], m)
      BY <1>1, <1>2, <2>3, <3>1
    <3>3. QED BY <1>2, <1>6, <2>3, <3>1, <3>2, Zenon DEF Released
  <2>4. QED BY <1>2, <2>2, <2>3, Zenon DEF Released
<1>7. CASE About(x, m) /\ x.up
  <2>1. About(p[n], m) /\ p[n].up /\ n \in 1 .. n
    BY <1>2, <1>4, <1>7
  <2>2. ASSUME NEW j \in 1 .. n, \A i \in j + 1 .. n : ~ About(p[i], m) PROVE j = n
    <3>1. n \notin j + 1 .. n
      BY <2>1, <2>2, Zenon
    <3>2. QED BY <3>1
  <2>3. QED BY <1>2, <2>1, <2>2, Zenon DEF Released
<1>8. QED BY <1>6, <1>7, Zenon

LEMMA CodesMean ==
  ASSUME NEW k \in Keys, NEW t \in BOOLEAN
  PROVE  \E x \in CodeSet : /\ x.key = k /\ x.up = t
                            /\ Codes(k, t) = <<E0, x>> \/ Codes(k, t) = <<x>>
<1>1. PICK x : x = [key |-> k, up |-> t]
  BY ZenonT(60)
<1>2. x \in CodeSet /\ x.key = k /\ x.up = t
  BY <1>1, Zenon DEF CodeSet
<1>3. Codes(k, t) = <<E0, x>> \/ Codes(k, t) = <<x>>
  BY <1>1, Zenon DEF Codes
<1>4. QED BY <1>2, <1>3, Zenon

LEMMA PressInv == ASSUME FlagsInv, NEW k \in Keys, Press(k) PROVE FlagsInv'
<1>1. /\ kbd \in Seq(CodeSet) /\ keysDown' = keysDown \cup {k} /\ shift' = shift
  BY Zenon DEF Press, FlagsInv
<1>2. PICK t \in BOOLEAN : kbd' = kbd \o Codes(k, t)
  BY ZenonT(60) DEF Press
<1>3. PICK x \in CodeSet : x.key = k /\ (kbd' = kbd \o <<E0, x>> \/ kbd' = kbd \o <<x>>)
  BY <1>2, CodesMean, ZenonT(60)
<1>4. kbd' \in Seq(CodeSet) /\ Escapes(shift, kbd')
  BY <1>1, <1>3, CodesSent, SentEscapes, ZenonT(60) DEF FlagsInv
<1>5. ASSUME NEW m \in {"SHIFT", "CTL"} PROVE HeldDown(m)' \/ Released(m, shift, kbd')
  <2>1. CASE m \in shiftcode(k) \/ HeldDown(m)
    BY <1>1, <2>1, Zenon DEF HeldDown
  <2>2. CASE m \notin shiftcode(k) /\ Released(m, shift, kbd)
    <3>1. ~ About(x, m) /\ x.key \in Keys /\ x.up \in BOOLEAN
      BY <1>3, <2>2, Zenon DEF About, CodeSet
    <3>2. Released(m, shift, kbd')
      <4>1. PICK p : p = kbd' /\ (p = kbd \o <<E0, x>> \/ p = kbd \o <<x>>)
        BY <1>3, SMTT(60)
      <4>2. kbd \in Seq(CodeSet) /\ Released(m, shift, kbd)
        BY <1>1, <2>2, Zenon
      <4>3. Released(m, shift, p)
        BY <3>1, <4>1, <4>2, SentReleased, ZenonT(60)
      <4>4. QED BY <4>1, <4>3, Zenon
    <3>3. QED BY <3>2, Zenon
  <2>3. QED BY <2>1, <2>2, Zenon DEF FlagsInv
<1>6. \A m \in {"SHIFT", "CTL"} : HeldDown(m)' \/ Released(m, shift', kbd')
  BY <1>1, <1>5, Zenon
<1>7. keysDown' \subseteq Keys /\ shift' \subseteq Flags
  BY <1>1, Zenon DEF FlagsInv
<1>8. Escapes(shift', kbd')
  BY <1>1, <1>4, Zenon
<1>9. QED BY <1>4, <1>6, <1>7, <1>8, Zenon DEF FlagsInv, Released, Escapes, HeldDown

LEMMA LetGoInv == ASSUME FlagsInv, NEW k \in Keys, Let_go(k) PROVE FlagsInv'
<1>1. /\ kbd \in Seq(CodeSet) /\ keysDown' = keysDown \ {k} /\ shift' = shift
  BY Zenon DEF Let_go, FlagsInv
<1>2. PICK t \in BOOLEAN : t /\ kbd' = kbd \o Codes(k, t)
  BY ZenonT(60) DEF Let_go
<1>3. PICK x \in CodeSet : x.key = k /\ x.up /\ (kbd' = kbd \o <<E0, x>> \/ kbd' = kbd \o <<x>>)
  BY <1>2, CodesMean, ZenonT(60)
<1>4. kbd' \in Seq(CodeSet) /\ Escapes(shift, kbd')
  BY <1>1, <1>3, CodesSent, SentEscapes, ZenonT(60) DEF FlagsInv
<1>5. ASSUME NEW m \in {"SHIFT", "CTL"} PROVE HeldDown(m)' \/ Released(m, shift, kbd')
  <2>1. CASE m \in shiftcode(k)
    BY <1>1, <1>3, <2>1, SentReleased, ZenonT(60) DEF About
  <2>2. CASE m \notin shiftcode(k) /\ HeldDown(m)
    BY <1>1, <2>2, Zenon DEF HeldDown
  <2>3. CASE m \notin shiftcode(k) /\ Released(m, shift, kbd)
    <3>1. ~ About(x, m) /\ x.key \in Keys
      BY <1>3, <2>3, Zenon DEF About
    <3>2. Released(m, shift, kbd')
      BY <1>1, <1>3, <2>3, <3>1, SentReleased, SMTT(30)
    <3>3. QED BY <3>2, Zenon
  <2>4. QED BY <2>1, <2>2, <2>3, Zenon DEF FlagsInv
<1>6. \A m \in {"SHIFT", "CTL"} : HeldDown(m)' \/ Released(m, shift', kbd')
  BY <1>1, <1>5, Zenon
<1>7. keysDown' \subseteq Keys /\ shift' \subseteq Flags
  BY <1>1, Zenon DEF FlagsInv
<1>8. Escapes(shift', kbd')
  BY <1>1, <1>4, Zenon
<1>9. QED BY <1>4, <1>6, <1>7, <1>8, Zenon DEF FlagsInv, Released, Escapes, HeldDown

(* kbd_proc_data handles the first code.                                   *)
LEMMA KbdFlagsMean ==
  ASSUME NEW s \in SUBSET Flags, NEW d \in CodeSet
  PROVE  /\ kbd_flags(s, d) \subseteq Flags
         /\ "E0ESC" \in kbd_flags(s, d) => d.key = "E0"
         /\ \A m \in {"SHIFT", "CTL"} :
              /\ ~ About(d, m) /\ m \notin s => m \notin kbd_flags(s, d)
              /\ About(d, m) /\ d.up => m \notin kbd_flags(s, d)
         /\ kbd_char(s, d) \in Chars \cup {"NO"}
<1>1. CASE d.key = "E0"
  BY <1>1, Zenon DEF kbd_flags, kbd_char, Flags, About, shiftcode
<1>2. CASE d.key # "E0" /\ d.up
  BY <1>2, Zenon DEF kbd_flags, kbd_char, Flags, About, shiftcode
<1>3. CASE d.key # "E0" /\ ~ d.up
  <2>1. kbd_flags(s, d) = Toggle((s \ {"E0ESC"}) \cup shiftcode(d.key), togglecode(d.key))
    BY <1>3, Zenon DEF kbd_flags
  <2>2. shiftcode(d.key) \subseteq {"SHIFT", "CTL"} /\ togglecode(d.key) \subseteq {"CAPSLOCK"}
    BY Zenon DEF shiftcode, togglecode
  <2>3. kbd_char(s, d) = charcode(kbd_flags(s, d), d.key)
    BY <1>3, Zenon DEF kbd_char
  <2>4. \A f, k : charcode(f, k) \in Chars \cup {"NO"}
    BY Zenon DEF charcode, Chars
  <2>5. QED BY <1>3, <2>1, <2>2, <2>3, <2>4, ZenonT(60) DEF Toggle, Flags, About
<1>4. QED BY <1>1, <1>2, <1>3, Zenon

LEMMA KbdIntrInv == ASSUME FlagsInv, kbd_intr PROVE FlagsInv'
<1>1. PICK d \in CodeSet : d = kbd[1] /\ d = Head(kbd)
  BY DEF FlagsInv, kbd_intr
<1>2. /\ kbd \in Seq(CodeSet) /\ kbd # <<>> /\ kbd' = Tail(kbd) /\ keysDown' = keysDown
      /\ shift' = kbd_flags(shift, d) /\ shift \in SUBSET Flags
  BY <1>1, Zenon DEF FlagsInv, kbd_intr
<1>3. PICK n \in Nat : n = Len(kbd) /\ n > 0
  BY <1>2
<1>4. /\ kbd' \in Seq(CodeSet) /\ Len(kbd') = n - 1
      /\ \A j \in 1 .. n - 1 : kbd'[j] = kbd[j + 1]
  BY <1>2, <1>3
<1>5. /\ shift' \subseteq Flags
      /\ "E0ESC" \in shift' => d.key = "E0"
      /\ \A m \in {"SHIFT", "CTL"} : /\ ~ About(d, m) /\ m \notin shift => m \notin shift'
                                     /\ About(d, m) /\ d.up => m \notin shift'
  BY <1>2, KbdFlagsMean, ZenonT(60)
<1>6. ASSUME NEW m \in {"SHIFT", "CTL"}, Released(m, shift, kbd)
      PROVE  Released(m, shift', kbd')
  <2>1. ASSUME \A j \in 1 .. n - 1 : ~ About(kbd'[j], m) PROVE m \notin shift'
    <3>1. \A j \in 2 .. n : ~ About(kbd[j], m)
      <4>1. ASSUME NEW j \in 2 .. n PROVE ~ About(kbd[j], m)
        <5>1. j - 1 \in 1 .. n - 1 /\ kbd'[j - 1] = kbd[(j - 1) + 1] /\ (j - 1) + 1 = j
          BY <1>3, <1>4, <4>1
        <5>2. QED BY <2>1, <5>1, Zenon
      <4>2. QED BY <4>1, Zenon
    <3>2. CASE About(d, m)
      <4>1. 1 \in 1 .. Len(kbd) /\ \A j \in 1 + 1 .. Len(kbd) : ~ About(kbd[j], m)
        BY <1>3, <3>1
      <4>2. d.up
        BY <1>1, <1>6, <3>2, <4>1, Zenon DEF Released
      <4>3. QED BY <1>5, <3>2, <4>2, Zenon
    <3>3. CASE ~ About(d, m)
      <4>1. \A j \in 1 .. n : ~ About(kbd[j], m)
        BY <1>1, <1>3, <3>1, <3>3
      <4>2. m \notin shift
        BY <1>3, <1>6, <4>1, Zenon DEF Released
      <4>3. QED BY <1>5, <3>3, <4>2, Zenon
    <3>4. QED BY <3>2, <3>3, Zenon
  <2>2. ASSUME NEW j \in 1 .. n - 1, About(kbd'[j], m),
               \A l \in j + 1 .. n - 1 : ~ About(kbd'[l], m)
        PROVE  kbd'[j].up
    <3>1. j + 1 \in 1 .. n /\ kbd'[j] = kbd[j + 1]
      BY <1>3, <1>4
    <3>2. ASSUME NEW l \in (j + 1) + 1 .. n PROVE ~ About(kbd[l], m)
      <4>1. l - 1 \in j + 1 .. n - 1 /\ kbd'[l - 1] = kbd[(l - 1) + 1] /\ (l - 1) + 1 = l
        BY <1>3, <1>4, <3>2
      <4>2. QED BY <2>2, <4>1, Zenon
    <3>3. QED BY <1>3, <1>6, <2>2, <3>1, <3>2, Zenon DEF Released
  <2>3. QED BY <1>4, <2>1, <2>2, ZenonT(60) DEF Released
<1>7. \A m \in {"SHIFT", "CTL"} : HeldDown(m)' \/ Released(m, shift', kbd')
  BY <1>2, <1>6, Zenon DEF FlagsInv, HeldDown
<1>8. Escapes(shift', kbd')
  <2>1. "E0ESC" \in shift' => Len(kbd') > 0 /\ kbd'[1].key # "E0"
    BY <1>1, <1>3, <1>4, <1>5 DEF FlagsInv, Escapes
  <2>2. ASSUME NEW j \in 1 .. n - 1, kbd'[j].key = "E0"
        PROVE  j < n - 1 /\ kbd'[j + 1].key # "E0"
    <3>1. j + 1 \in 1 .. n /\ kbd[j + 1].key = "E0"
      BY <1>3, <1>4, <2>2
    <3>2. j + 1 < n /\ kbd[(j + 1) + 1].key # "E0"
      BY <1>3, <3>1, Zenon DEF FlagsInv, Escapes
    <3>3. j + 1 \in 1 .. n - 1
      BY <1>3, <3>2
    <3>4. QED BY <1>3, <1>4, <3>2, <3>3
  <2>3. QED BY <1>4, <2>1, <2>2, Zenon DEF Escapes
<1>9. QED BY <1>2, <1>4, <1>5, <1>7, <1>8, Zenon DEF FlagsInv, Released, Escapes, HeldDown

InputInv == RingInv /\ FlagsInv

LEMMA InputInit == ConsInit => InputInv
<1> SUFFICES ASSUME ConsInit PROVE InputInv
  BY Zenon
<1> USE SizeAssumption
<1>1. PICK b : b = EmptyBuffer
  BY Zenon
<1>2. b \in Buffers /\ b.rpos = 0 /\ b.wpos = 0
  BY <1>1 DEF EmptyBuffer, Buffers, Slots, Chars
<1>3. Distance(b.rpos, b.wpos) = 0
  BY <1>2 DEF Distance
<1>4. PICK a \in Seq(Chars), t \in Nat : a = <<>> /\ Len(a) = 0 /\ t = 0
  <2>1. <<>> \in Seq(Chars) /\ Len(<<>>) = 0
    OBVIOUS
  <2>2. QED BY <2>1, ZenonT(60)
<1>5. Len(a) = (t + t) + N * t /\ t = Distance(b.rpos, b.wpos)
  BY <1>3, <1>4 DEF N
<1>6. \A i \in 0 .. t - 1 : b.buf[SlotAt(b.rpos, i)] = a[(Len(a) - t) + i + 1]
  BY <1>4
<1>7. RingHolds(b, a, t)
  BY <1>5, <1>6, RingIntro, ZenonT(60)
<1>8. RingInv
  BY <1>1, <1>2, <1>4, <1>7, Zenon DEF ConsInit, RingInv
<1>9. FlagsInv
  BY DEF ConsInit, FlagsInv, Released, Escapes
<1>10. QED BY <1>8, <1>9, Zenon DEF InputInv

LEMMA InputStep == InputInv /\ [ConsNext]_consVars => InputInv'
<1> SUFFICES ASSUME InputInv, [ConsNext]_consVars PROVE InputInv'
  BY Zenon
<1>1. ASSUME UNCHANGED <<cons, arrived, taken>> PROVE RingInv'
  BY <1>1, Zenon DEF InputInv, RingInv
<1>2. ASSUME UNCHANGED <<kbd, keysDown, shift>> PROVE FlagsInv'
  BY <1>2, Zenon DEF InputInv, FlagsInv, HeldDown
<1>3. ASSUME NEW k \in Keys, Press(k) \/ Let_go(k) PROVE InputInv'
  BY <1>1, <1>3, PressInv, LetGoInv, ZenonT(60) DEF InputInv, Press, Let_go
<1>4. CASE kbd_intr
  <2>1. PICK d \in CodeSet : d = Head(kbd)
    BY <1>4 DEF InputInv, FlagsInv, kbd_intr
  <2>2. PICK c \in Chars \cup {"NO"} : c = kbd_char(shift, d)
    BY KbdFlagsMean, Zenon DEF InputInv, FlagsInv
  <2>3. cons' = Stash(cons, c) /\ arrived' = Note(arrived, c) /\ taken' = taken
    BY <1>4, <2>1, <2>2, Zenon DEF kbd_intr
  <2>4. RingInv'
    BY <2>3, StashRing, Zenon DEF InputInv, RingInv
  <2>5. QED BY <1>4, <2>4, KbdIntrInv, Zenon DEF InputInv
<1>5. CASE serial_intr
  <2>1. cons' = Stash(cons, "s") /\ arrived' = Note(arrived, "s") /\ taken' = taken
    BY <1>5, Zenon DEF serial_intr
  <2>2. "s" \in Chars \cup {"NO"}
    BY Zenon DEF Chars
  <2>3. RingInv'
    BY <2>1, <2>2, StashRing, Zenon DEF InputInv, RingInv
  <2>4. QED BY <1>2, <1>5, <2>3, Zenon DEF InputInv, serial_intr
<1>6. CASE cons_getc
  <2>1. /\ cons.rpos # cons.wpos /\ cons' = [cons EXCEPT !.rpos = Advance(@)]
        /\ taken' = taken + 1 /\ arrived' = arrived
    BY <1>6, Zenon DEF cons_getc
  <2>2. RingInv'
    BY <2>1, TakeRing DEF InputInv, RingInv
  <2>3. QED BY <1>2, <1>6, <2>2, Zenon DEF InputInv, cons_getc
<1>7. CASE UNCHANGED <<kbd, keysDown, shift, cons, arrived, taken>>
  BY <1>1, <1>2, <1>7, Zenon DEF InputInv
<1>8. QED BY <1>3, <1>4, <1>5, <1>6, <1>7, Zenon DEF ConsNext, consVars, sys_cputs, input

(* Whatever is typed and whenever it is read: the ring holds the newest    *)
(* characters in order, what is lost is whole laps of it, and no shift or  *)
(* control stays on once its keys are up (console.c:334-346, 402-415).     *)
THEOREM InputStaysIntact == ConsSpec => []InputIntact
<1>1. InputInv => InputIntact
  BY RingMeans, FlagsMean, Zenon DEF InputInv, InputIntact
<1>2. QED BY <1>1, InputInit, InputStep, PTL DEF ConsSpec
==============================================================================
