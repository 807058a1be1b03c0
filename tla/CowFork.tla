------------------------------ MODULE CowFork ------------------------------
(***************************************************************************)
(* fork() of lib/fork.c with copy-on-write pages: duppage, the page-fault  *)
(* handler pgfault and its installation (lib/pgfault.c), above the page    *)
(* system calls.  A step is a system call, the memcpy of pgfault, or a     *)
(* store of the program; the environments' steps interleave.  While an     *)
(* environment is inside fork() it stores only to its stack, which is one  *)
(* of the pages fork() is copying.                                         *)
(*                                                                         *)
(* A physical page is the set of places that map it with the value it      *)
(* holds; one that nobody maps is free, as Pmap shows of the reference     *)
(* counts, and is not recorded.  Other programs use memory too, so any     *)
(* call that needs some may fail.                                          *)
(***************************************************************************)
EXTENDS Integers, Sequences

CONSTANTS Envs,      \* environment slots
          Root,      \* the environment that runs at the start
          NoEnv,
          Order,     \* the virtual pages, in the order of their addresses
          Private,   \* those the program uses as its own memory
          Shared,    \* those marked PTE_SHARE
          Text,      \* read-only ones
          Stack,     \* the page of Private at USTACKTOP
          XStack,    \* the exception stack below UXSTACKTOP
          PFTEMP,    \* where pgfault builds the copy
          Values, Zero

VPages == {Order[i] : i \in 1 .. Len(Order)}

ASSUME LayoutAssumption ==
  /\ Order \in Seq(VPages)
  /\ VPages = Private \cup Shared \cup Text \cup {XStack, PFTEMP}
  /\ Private \cap (Shared \cup Text \cup {XStack, PFTEMP}) = {}
  /\ Shared \cap (Text \cup {XStack, PFTEMP}) = {}
  /\ {XStack, PFTEMP} \cap Text = {}
  /\ XStack # PFTEMP
  /\ Stack \in Private
  /\ Root \in Envs /\ NoEnv \notin Envs
  /\ Zero \in Values

VARIABLES
  frames,   \* the physical pages in use: where they are mapped, what they hold
  pte,      \* pte[e][v]: the permission of a mapping, or "none"
  pc,       \* pc[e]: free, embryo, user code, panic, or a place in fork/pgfault
  ret,      \* ret[e]: where pgfault returns to
  fva,      \* fva[e]: the page the fault was on
  child,    \* child[e]: envid in fork()
  vp,       \* vp[e]: the index in Order fork() has come to
  perm,     \* perm[e]: perm of duppage()
  upcall    \* upcall[e]: env_pgfault_upcall is set

memory == <<frames, pte>>
locals == <<ret, fva, child, vp, perm>>
vars == <<memory, pc, locals, upcall>>

Perms == {"none", "r", "w", "cow", "share"}
Places == Envs \X VPages

(* The places of fork() and duppage() between two system calls.            *)
InFork == {"exofork", "dup", "map", "remap", "upcall", "start"}
InHandler == {"pf_alloc", "pf_copy", "pf_map", "pf_unmap"}
Labels == {"free", "embryo", "user", "panic"} \cup InFork \cup InHandler
-----------------------------------------------------------------------------
(* Memory as the system calls see it.                                      *)

IsMapped(e, v) == pte[e][v] # "none"
IsWritable(e, v) == pte[e][v] \in {"w", "share"}

(* A page is freed with its last mapping (page_decref).                    *)
InUse(F) == {f \in F : f.at # {}}

sys_page_alloc(e, va) ==
  /\ frames' = InUse({[f EXCEPT !.at = @ \ {<<e, va>>}] : f \in frames})
                 \cup {[at |-> {<<e, va>>}, val |-> Zero]}
  /\ pte' = [pte EXCEPT ![e][va] = "w"]

sys_page_map(src, srcva, dst, dstva, pm) ==
  /\ IsMapped(src, srcva)
  /\ pm \in {"w", "share"} => IsWritable(src, srcva)
  /\ frames' = InUse({[f EXCEPT !.at = IF <<src, srcva>> \in @ THEN @ \cup {<<dst, dstva>>}
                                                               ELSE @ \ {<<dst, dstva>>}]
                       : f \in frames})
  /\ pte' = [pte EXCEPT ![dst][dstva] = pm]

sys_page_unmap(e, va) ==
  /\ frames' = InUse({[f EXCEPT !.at = @ \ {<<e, va>>}] : f \in frames})
  /\ pte' = [pte EXCEPT ![e][va] = "none"]

(* The program, or pgfault's memcpy, puts x where e maps va.               *)
SetPage(e, va, x) ==
  /\ frames' = {IF <<e, va>> \in f.at THEN [f EXCEPT !.val = x] ELSE f : f \in frames}
  /\ UNCHANGED pte

Holds(e, va, x) == \E f \in frames : <<e, va>> \in f.at /\ f.val = x

Goto(e, l) == pc' = [pc EXCEPT ![e] = l]

(* After a panic() (lib/panic.c) the kernel is in the monitor and keeps    *)
(* its lock: the model ends there.                                         *)
Serving == \A e \in Envs : pc[e] # "panic"

(* The program has been loaded; nothing of it is copy-on-write yet.        *)
Init ==
  /\ pte = [e \in Envs |-> [v \in VPages |->
              IF e # Root THEN "none"
              ELSE CASE v \in Private -> "w"
                     [] v \in Shared -> "share"
                     [] v \in Text -> "r"
                     [] OTHER -> "none"]]
  /\ frames = {[at |-> {<<Root, v>>}, val |-> Zero] : v \in Private \cup Shared \cup Text}
  /\ pc = [e \in Envs |-> IF e = Root THEN "user" ELSE "free"]
  /\ ret = [e \in Envs |-> "user"]
  /\ fva = [e \in Envs |-> Stack]
  /\ child = [e \in Envs |-> NoEnv]
  /\ vp = [e \in Envs |-> 1]
  /\ perm = [e \in Envs |-> "none"]
  /\ upcall = [e \in Envs |-> FALSE]
-----------------------------------------------------------------------------
(* The program.  Inside fork() it only stores to its stack.                *)

MayStore(e, v) == pc[e] = "user" \/ (pc[e] \in InFork /\ v = Stack)

Store(e, v, x) ==
  /\ MayStore(e, v) /\ IsWritable(e, v)
  /\ SetPage(e, v, x)
  /\ UNCHANGED <<pc, locals, upcall>>

(* env_destroy and env_free of e.                                          *)
Clear(e) ==
  /\ frames' = InUse({[f EXCEPT !.at = @ \ ({e} \X VPages)] : f \in frames})
  /\ pte' = [pte EXCEPT ![e] = [v \in VPages |-> "none"]]
  /\ pc' = [pc EXCEPT ![e] = "free"]
  /\ ret' = [ret EXCEPT ![e] = "user"]
  /\ fva' = [fva EXCEPT ![e] = Stack]
  /\ child' = [child EXCEPT ![e] = NoEnv]
  /\ vp' = [vp EXCEPT ![e] = 1]
  /\ perm' = [perm EXCEPT ![e] = "none"]
  /\ upcall' = [upcall EXCEPT ![e] = FALSE]

(* e exits, or its parent destroys it wherever it is.                      *)
env_destroy(e) == pc[e] \notin {"free", "embryo"} /\ Clear(e)

(* A store to a page that is not writable: page_fault_handler of the       *)
(* kernel, then the checks at the start of pgfault.                        *)
page_fault(e, v) ==
  /\ MayStore(e, v) /\ ~ IsWritable(e, v)
  /\ IF upcall[e] /\ IsWritable(e, XStack)
     THEN /\ IF pte[e][v] = "cow"
             THEN /\ Goto(e, "pf_alloc")
                  /\ ret' = [ret EXCEPT ![e] = pc[e]]
                  /\ fva' = [fva EXCEPT ![e] = v]
             ELSE Goto(e, "panic") /\ UNCHANGED <<ret, fva>>
          /\ UNCHANGED <<memory, child, vp, perm, upcall>>
     ELSE Clear(e)

pgfault_alloc(e) ==
  /\ pc[e] = "pf_alloc"
  /\ \/ Goto(e, "panic") /\ UNCHANGED memory
     \/ Goto(e, "pf_copy") /\ sys_page_alloc(e, PFTEMP)
  /\ UNCHANGED <<locals, upcall>>

(* A variant of pgfault that forgets the memcpy.                           *)
pgfault_copy_forgotten(e) ==
  /\ pc[e] = "pf_copy"
  /\ Goto(e, "pf_map")
  /\ UNCHANGED <<memory, locals, upcall>>

pgfault_copy(e) ==
  /\ pc[e] = "pf_copy"
  /\ \E x \in Values : Holds(e, fva[e], x) /\ SetPage(e, PFTEMP, x)
  /\ Goto(e, "pf_map")
  /\ UNCHANGED <<locals, upcall>>

pgfault_map(e) ==
  /\ pc[e] = "pf_map"
  /\ sys_page_map(e, PFTEMP, e, fva[e], "w")
  /\ Goto(e, "pf_unmap")
  /\ UNCHANGED <<locals, upcall>>

(* The last system call of pgfault; _pgfault_upcall then returns to the    *)
(* store that faulted.                                                     *)
pgfault_unmap(e) ==
  /\ pc[e] = "pf_unmap"
  /\ sys_page_unmap(e, PFTEMP)
  /\ Goto(e, ret[e])
  /\ ret' = [ret EXCEPT ![e] = "user"]
  /\ fva' = [fva EXCEPT ![e] = Stack]
  /\ UNCHANGED <<child, vp, perm, upcall>>
-----------------------------------------------------------------------------
(* fork().                                                                 *)

(* The first fork() installs the handler and its stack.                    *)
set_pgfault_handler(e) ==
  /\ pc[e] = "user"
  /\ IF upcall[e] THEN Goto(e, "exofork") /\ UNCHANGED <<memory, upcall>>
     ELSE \/ Goto(e, "panic") /\ UNCHANGED <<memory, upcall>>
          \/ /\ sys_page_alloc(e, XStack)
             /\ upcall' = [upcall EXCEPT ![e] = TRUE]
             /\ Goto(e, "exofork")
  /\ UNCHANGED locals

(* env_alloc finds no free slot, or no page for a directory.               *)
sys_exofork(e) ==
  /\ pc[e] = "exofork"
  /\ \/ Goto(e, "panic") /\ UNCHANGED <<child, vp>>
     \/ \E c \in Envs :
          /\ pc[c] = "free"
          /\ pc' = [pc EXCEPT ![e] = "dup", ![c] = "embryo"]
          /\ child' = [child EXCEPT ![e] = c]
          /\ vp' = [vp EXCEPT ![e] = 1]
  /\ UNCHANGED <<memory, ret, fva, perm, upcall>>

(* A variant that skips without counting up.                               *)
NextPage_stuck(e) ==
  IF vp[e] = Len(Order) THEN Goto(e, "upcall") /\ vp' = [vp EXCEPT ![e] = 1]
  ELSE /\ Goto(e, "dup")
       /\ vp' = [vp EXCEPT ![e] = IF IsMapped(e, Order[@]) THEN @ + 1 ELSE @]

(* The loop goes on to the next page, or leaves.                           *)
NextPage(e) ==
  IF vp[e] < Len(Order) THEN Goto(e, "dup") /\ vp' = [vp EXCEPT ![e] = @ + 1]
                        ELSE Goto(e, "upcall") /\ vp' = [vp EXCEPT ![e] = 1]

(* A variant that hands writable pages on as they are.                     *)
ChildPerm_writable(pm) == IF pm \in {"share", "r", "w"} THEN pm ELSE "cow"

(* The permission duppage gives the child, from the entry it reads.        *)
ChildPerm(pm) == IF pm = "share" THEN "share" ELSE IF pm = "r" THEN "r" ELSE "cow"

(* A variant that treats the exception stack like any other page.          *)
fork_page_all(e) ==
  LET v == Order[vp[e]]
  IN  /\ pc[e] = "dup"
      /\ IF IsMapped(e, v)
         THEN /\ perm' = [perm EXCEPT ![e] = ChildPerm(pte[e][v])]
              /\ Goto(e, "map")
              /\ vp' = vp
         ELSE perm' = perm /\ NextPage(e)
      /\ UNCHANGED <<memory, ret, fva, child, upcall>>

(* One iteration of fork()'s loop, up to duppage's first system call: a    *)
(* new exception stack, nothing for a page that is not there, or a look at *)
(* the entry.                                                              *)
fork_page(e) ==
  LET v == Order[vp[e]]
  IN  /\ pc[e] = "dup"
      /\ IF v = XStack
         THEN /\ perm' = perm
              /\ \/ Goto(e, "panic") /\ UNCHANGED <<memory, vp>>
                 \/ sys_page_alloc(child[e], XStack) /\ NextPage(e)
         ELSE /\ UNCHANGED memory
              /\ IF IsMapped(e, v)
                 THEN /\ perm' = [perm EXCEPT ![e] = ChildPerm(pte[e][v])]
                      /\ Goto(e, "map")
                      /\ vp' = vp
                 ELSE perm' = perm /\ NextPage(e)
      /\ UNCHANGED <<ret, fva, child, upcall>>

(* A variant of duppage that leaves the parent's entry as it is.           *)
duppage_map_only(e) ==
  LET v == Order[vp[e]]
  IN  /\ pc[e] = "map"
      /\ sys_page_map(e, v, child[e], v, perm[e])
      /\ NextPage(e)
      /\ perm' = [perm EXCEPT ![e] = "none"]
      /\ UNCHANGED <<ret, fva, child, upcall>>

(* duppage: the child's entry first.                                       *)
duppage_map(e) ==
  LET v == Order[vp[e]]
  IN  /\ pc[e] = "map"
      /\ \/ Goto(e, "panic") /\ UNCHANGED <<memory, vp>>
         \/ /\ sys_page_map(e, v, child[e], v, perm[e])
            /\ IF perm[e] = "cow" THEN Goto(e, "remap") /\ vp' = vp
                                  ELSE NextPage(e)
      /\ perm' = [perm EXCEPT ![e] = "none"]
      /\ UNCHANGED <<ret, fva, child, upcall>>

(* Then the parent's own, whatever it has become since it was looked at.   *)
duppage_remap(e) ==
  LET v == Order[vp[e]]
  IN  /\ pc[e] = "remap"
      /\ sys_page_map(e, v, e, v, "cow")
      /\ NextPage(e)
      /\ UNCHANGED <<ret, fva, child, perm, upcall>>

sys_env_set_pgfault_upcall(e) ==
  /\ pc[e] = "upcall"
  /\ upcall' = [upcall EXCEPT ![child[e]] = TRUE]
  /\ Goto(e, "start")
  /\ UNCHANGED <<memory, locals>>

sys_env_set_status(e) ==
  /\ pc[e] = "start"
  /\ pc' = [pc EXCEPT ![e] = "user", ![child[e]] = "user"]
  /\ child' = [child EXCEPT ![e] = NoEnv]
  /\ UNCHANGED <<memory, ret, fva, vp, perm, upcall>>
-----------------------------------------------------------------------------
pgfault(e) == pgfault_alloc(e) \/ pgfault_copy(e) \/ pgfault_map(e) \/ pgfault_unmap(e)

fork(e) ==
  \/ sys_exofork(e)
  \/ fork_page(e) \/ duppage_map(e) \/ duppage_remap(e)
  \/ sys_env_set_pgfault_upcall(e) \/ sys_env_set_status(e)

Next ==
  \E e \in Envs :
    \/ Serving /\ \E v \in Private \cup Shared, x \in Values : Store(e, v, x)
    \/ /\ Serving
       /\ \/ \E v \in Private \cup Text : page_fault(e, v)
          \/ pgfault(e)
          \/ set_pgfault_handler(e)
          \/ fork(e)
          \/ env_destroy(e)

Spec == Init /\ [][Next]_vars

(* Every environment keeps getting a CPU (KernelEnv's RoundRobin).         *)
Fairness == \A e \in Envs : WF_vars(Serving /\ (pgfault(e) \/ fork(e)))

FairSpec == Spec /\ Fairness
-----------------------------------------------------------------------------
TypeOK ==
  /\ frames \subseteq [at : SUBSET Places, val : Values]
  /\ pte \in [Envs -> [VPages -> Perms]]
  /\ pc \in [Envs -> Labels]
  /\ ret \in [Envs -> {"user"} \cup InFork]
  /\ fva \in [Envs -> Private]
  /\ child \in [Envs -> Envs \cup {NoEnv}]
  /\ vp \in [Envs -> 1 .. Len(Order)]
  /\ perm \in [Envs -> Perms]
  /\ upcall \in [Envs -> BOOLEAN]

Live == {e \in Envs : pc[e] \notin {"free", "embryo"}}
ReadPage(e, v) == (CHOOSE f \in frames : <<e, v>> \in f.at).val

(* What the programs see of the memory they were given.                    *)
PrivateView == [e \in Envs |-> [v \in Private |-> IF e \in Live THEN ReadPage(e, v) ELSE Zero]]
SharedView ==
  [v \in Shared |-> IF Live = {} THEN Zero ELSE ReadPage(CHOOSE e \in Live : TRUE, v)]

Memory == INSTANCE PrivateMemory WITH live <- Live, mem <- PrivateView, shared <- SharedView

(* fork() gives a copy of the memory: every store is seen by the           *)
(* environment that made it and by no other, shared pages apart, whatever  *)
(* copies are still to be made and however forks, faults and exits of      *)
(* parents and children interleave (lib/fork.c:75-82, 174-189).            *)
ImplementsPrivateMemory == Memory!Spec

(* Copying is invisible: no step of fork(), of the fault handler or of     *)
(* another environment's end changes what a running program finds in its   *)
(* memory (lib/fork.c:44-70).                                              *)
CopyingIsInvisible ==
  [][pc' # pc => \A e \in Live : e \in Live' =>
       \A v \in Private \cup Shared \cup Text : ReadPage(e, v)' = ReadPage(e, v)]_vars

(* Whoever can be sent to the handler has an exception stack of its own    *)
(* that can be written, so that the handler never faults itself            *)
(* (lib/fork.c:187-188).                                                   *)
OwnExceptionStack ==
  \A e \in Envs : upcall[e] =>
    pte[e][XStack] = "w" /\ \E f \in frames : f.at = {<<e, XStack>>}

(* Of a page that somebody still has to copy before writing, nobody has a  *)
(* writable mapping, but for the parent that is about to give up its own   *)
(* between the two system calls of duppage.                                *)
CowIsStable ==
  \A f \in frames : \A p, q \in f.at :
    pte[p[1]][p[2]] = "cow" /\ pte[q[1]][q[2]] = "w" =>
      p[2] = q[2] /\ p[1] = child[q[1]] /\ pc[p[1]] = "embryo"

(* A fork() ends, unless the environment is destroyed or somebody panics.  *)
ForkReturns == \A e \in Envs : pc[e] = "exofork" ~> (pc[e] \in {"user", "free"} \/ ~ Serving)
=============================================================================
