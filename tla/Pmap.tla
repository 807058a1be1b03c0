-------------------------------- MODULE Pmap ---------------------------------
(***************************************************************************)
(* Physical pages and address spaces: kern/pmap.c, env_setup_vm and        *)
(* env_free of kern/env.c, the page and IPC system calls of                *)
(* kern/syscall.c, and the TLB of each CPU.                                *)
(*                                                                         *)
(* The kernel's functions are operators from one memory to the next, named *)
(* as in the source; a system call holds the kernel lock throughout and is *)
(* one step.  Which environment a CPU runs is decided in KernelEnv; here a *)
(* CPU may run any environment that is ready and on no other CPU.          *)
(*                                                                         *)
(* The free list is a set: in which order pages are handed out again makes *)
(* no difference to anybody.                                               *)
(***************************************************************************)
EXTENDS Integers, FiniteSets

CONSTANTS Pages,     \* the physical pages page_init puts on the free list
          NoPage,    \* a zero entry, or a NULL page directory
          RefLimit,  \* 2^16: pp_ref is a uint16_t
          Envs,      \* slots of envs[]
          NoEnv,     \* curenv == NULL
          Root,      \* the environment the kernel creates at boot
          Dirs,      \* page directory indices below UTOP
          VAs,       \* virtual pages below UTOP
          PDX,       \* PDX[va]: the directory index of va
          Zero,      \* the virtual page at address 0
          NoVA,      \* an address from UTOP on: no page
          CPUs

ASSUME PageAssumption == NoPage \notin Pages /\ RefLimit \in Nat \ {0, 1}
ASSUME EnvAssumption == Root \in Envs /\ NoEnv \notin Envs
ASSUME AddressAssumption == PDX \in [VAs -> Dirs] /\ Zero \in VAs /\ NoVA \notin VAs
ASSUME FiniteAssumption == IsFiniteSet(Envs) /\ IsFiniteSet(Dirs) /\ IsFiniteSet(VAs)

VARIABLES mem,            \* page_free_list, pages[].pp_ref and all page tables
          env_parent_id,  \* the parent, or NoEnv
          phase,          \* "free", "embryo" (not started), "ready", "recv"
          env_ipc_dstva,  \* where the receiver's page goes
          asked,          \* the dstva argument of the receive e is blocked in
          curenv,         \* curenv[c], whose page directory c has loaded
          tlb             \* tlb[c]: the translations c has cached

procs == <<env_parent_id, phase, env_ipc_dstva, asked>>
vars == <<mem, env_parent_id, phase, env_ipc_dstva, asked, curenv, tlb>>

(* A page table entry: a page and whether it is writable.                  *)
PTE == [page : Pages \cup {NoPage}, w : BOOLEAN]
NoPte == [page |-> NoPage, w |-> FALSE]

Memory == [free : SUBSET Pages,                               \* page_free_list
           ref : [Pages -> 0 .. RefLimit - 1],                \* pp_ref
           dir : [Envs -> Pages \cup {NoPage}],               \* env_pgdir
           pde : [Envs -> [Dirs -> Pages \cup {NoPage}]],     \* page tables
           pte : [Envs -> [VAs -> PTE]]]

NoTables == [d \in Dirs |-> NoPage]
NoMappings == [va \in VAs |-> NoPte]
-----------------------------------------------------------------------------
(* The page allocator.                                                     *)

page_alloc(m, p) == [m EXCEPT !.free = @ \ {p}]

page_free(m, p) == [m EXCEPT !.free = @ \cup {p}]

page_incref(m, p) == [m EXCEPT !.ref[p] = (@ + 1) % RefLimit]

page_decref(m, p) ==
  LET n == [m EXCEPT !.ref[p] = (@ - 1) % RefLimit]
  IN  IF n.ref[p] = 0 THEN page_free(n, p) ELSE n
-----------------------------------------------------------------------------
(* Page tables.                                                            *)

(* pgdir_walk with create, as the set of memories it can return with: one, *)
(* with the page table of va in place, per page it may take for it; none   *)
(* when it returns NULL.                                                   *)
pgdir_walk(m, e, va) ==
  IF m.pde[e][PDX[va]] # NoPage
  THEN {m}
  ELSE {[page_incref(page_alloc(m, pt), pt) EXCEPT !.pde[e][PDX[va]] = pt] :
          pt \in m.free}

page_remove(m, e, va) ==
  IF m.pte[e][va].page = NoPage
  THEN m
  ELSE [page_decref(m, m.pte[e][va].page) EXCEPT !.pte[e][va] = NoPte]

set_pte(m, e, va, p, w) == [m EXCEPT !.pte[e][va] = [page |-> p, w |-> w]]

(* A variant that counts the new mapping after it has removed the old one. *)
page_insert_late(m, e, p, va, w) ==
  {set_pte(page_incref(page_remove(n, e, va), p), e, va, p, w) :
     n \in pgdir_walk(m, e, va)}

(* Empty when there is no memory for the page table (-E_NO_MEM).           *)
page_insert(m, e, p, va, w) ==
  {set_pte(page_remove(page_incref(n, p), e, va), e, va, p, w) :
     n \in pgdir_walk(m, e, va)}

env_setup_vm(m, e, p) == [page_incref(page_alloc(m, p), p) EXCEPT !.dir[e] = p]

(* How many references to p the address space of e holds.                  *)
Held(m, e, p) ==
  (IF m.dir[e] = p THEN 1 ELSE 0)
    + Cardinality({d \in Dirs : m.pde[e][d] = p})
    + Cardinality({va \in VAs : m.pte[e][va].page = p})

(* A variant that frees the mapped pages and the directory but leaves the  *)
(* page tables.                                                            *)
env_free_no_tables(m, e) ==
  LET drops(p) == (IF m.dir[e] = p THEN 1 ELSE 0)
                    + Cardinality({va \in VAs : m.pte[e][va].page = p})
  IN  [free |-> m.free \cup {p \in Pages : m.ref[p] \in 1 .. drops(p)},
       ref  |-> [p \in Pages |-> (m.ref[p] - drops(p)) % RefLimit],
       dir  |-> [m.dir EXCEPT ![e] = NoPage],
       pde  |-> [m.pde EXCEPT ![e] = NoTables],
       pte  |-> [m.pte EXCEPT ![e] = NoMappings]]

(* env_free removes every mapping, every page table and the directory, and *)
(* frees the pages whose count reaches zero on the way.                    *)
env_free(m, e) ==
  [free |-> m.free \cup {p \in Pages : m.ref[p] \in 1 .. Held(m, e, p)},
   ref  |-> [p \in Pages |-> (m.ref[p] - Held(m, e, p)) % RefLimit],
   dir  |-> [m.dir EXCEPT ![e] = NoPage],
   pde  |-> [m.pde EXCEPT ![e] = NoTables],
   pte  |-> [m.pte EXCEPT ![e] = NoMappings]]
-----------------------------------------------------------------------------
(* Boot: every page free, and env_create builds Root: its directory, and   *)
(* region_alloc one page (with its page table) for its stack.              *)
EmptyMemory == [free |-> Pages,
                ref |-> [p \in Pages |-> 0],
                dir |-> [e \in Envs |-> NoPage],
                pde |-> [e \in Envs |-> NoTables],
                pte |-> [e \in Envs |-> NoMappings]]

env_create(e, va) ==
  UNION {LET m == env_setup_vm(EmptyMemory, e, pd)
         IN  UNION {page_insert(page_alloc(m, p), e, p, va, TRUE) : p \in m.free} :
         pd \in Pages}

Init ==
  /\ \E va \in VAs : mem \in env_create(Root, va)
  /\ env_parent_id = [e \in Envs |-> NoEnv]
  /\ phase = [e \in Envs |-> IF e = Root THEN "ready" ELSE "free"]
  /\ env_ipc_dstva = [e \in Envs |-> Zero]
  /\ asked = [e \in Envs |-> NoVA]
  /\ curenv = [c \in CPUs |-> NoEnv]
  /\ tlb = [c \in CPUs |-> NoMappings]
-----------------------------------------------------------------------------
(* Running.                                                                *)

Flush(c) == tlb' = [tlb EXCEPT ![c] = NoMappings]

(* A variant of the context switch without lcr3.                           *)
env_run_no_lcr3(c, e) ==
  /\ curenv[c] = NoEnv
  /\ phase[e] = "ready"
  /\ \A d \in CPUs : curenv[d] # e
  /\ curenv' = [curenv EXCEPT ![c] = e]
  /\ UNCHANGED <<mem, procs, tlb>>

(* The scheduler gives c the ready environment e; lcr3 empties the TLB.    *)
env_run(c, e) ==
  /\ curenv[c] = NoEnv
  /\ phase[e] = "ready"
  /\ \A d \in CPUs : curenv[d] # e
  /\ curenv' = [curenv EXCEPT ![c] = e]
  /\ Flush(c)
  /\ UNCHANGED <<mem, procs>>

(* A timer interrupt or sys_yield takes c away from its environment.  What *)
(* c has cached goes when env_run or sched_halt loads cr3.                 *)
sys_yield(c) ==
  /\ curenv[c] # NoEnv
  /\ curenv' = [curenv EXCEPT ![c] = NoEnv]
  /\ UNCHANGED <<mem, procs, tlb>>

(* User code on c touches va, and the MMU caches the translation.          *)
Access(c, va) ==
  /\ curenv[c] # NoEnv
  /\ mem.pte[curenv[c]][va] # NoPte
  /\ tlb[c][va] = NoPte
  /\ tlb' = [tlb EXCEPT ![c][va] = mem.pte[curenv[c]][va]]
  /\ UNCHANGED <<mem, procs, curenv>>
-----------------------------------------------------------------------------
(* System calls of the environment on c.                                   *)

(* envid2env with checkperm.                                               *)
MayManage(c, e) ==
  /\ curenv[c] # NoEnv
  /\ phase[e] # "free"
  /\ e = curenv[c] \/ env_parent_id[e] = curenv[c]

(* The call ends in env_run(curenv), which reloads cr3, so the invlpg of   *)
(* tlb_invalidate on the way makes no difference to user code.             *)
Return(c) == Flush(c) /\ UNCHANGED curenv

sys_exofork(c, e) ==
  /\ curenv[c] # NoEnv
  /\ phase[e] = "free"
  /\ \E p \in mem.free : mem' = env_setup_vm(mem, e, p)
  /\ phase' = [phase EXCEPT ![e] = "embryo"]
  /\ env_parent_id' = [env_parent_id EXCEPT ![e] = curenv[c]]
  /\ Return(c)
  /\ UNCHANGED <<env_ipc_dstva, asked>>

(* sys_env_set_status(e, ENV_RUNNABLE) for a child that was not started.   *)
sys_env_set_status(c, e) ==
  /\ MayManage(c, e)
  /\ phase[e] = "embryo"
  /\ phase' = [phase EXCEPT ![e] = "ready"]
  /\ Return(c)
  /\ UNCHANGED <<mem, env_parent_id, env_ipc_dstva, asked>>

(* A variant that does not free the page when page_insert fails.           *)
sys_page_alloc_leak(c, e, va, w) ==
  /\ MayManage(c, e)
  /\ \E p \in mem.free :
       LET m == page_alloc(mem, p)
           inserted == page_insert(m, e, p, va, w)
       IN  mem' \in IF inserted = {} THEN {m} ELSE inserted
  /\ Return(c)
  /\ UNCHANGED procs

sys_page_alloc(c, e, va, w) ==
  /\ MayManage(c, e)
  /\ \E p \in mem.free :
       LET m == page_alloc(mem, p)
           inserted == page_insert(m, e, p, va, w)
       IN  mem' \in IF inserted = {} THEN {page_free(m, p)} ELSE inserted
  /\ Return(c)
  /\ UNCHANGED procs

(* A variant that does not look whether the source is writable.            *)
sys_page_map_any(c, src, srcva, dst, dstva, w) ==
  LET from == mem.pte[src][srcva]
  IN  /\ MayManage(c, src)
      /\ MayManage(c, dst)
      /\ from.page # NoPage
      /\ mem' \in page_insert(mem, dst, from.page, dstva, w)
      /\ Return(c)
      /\ UNCHANGED procs

sys_page_map(c, src, srcva, dst, dstva, w) ==
  LET from == mem.pte[src][srcva]
  IN  /\ MayManage(c, src)
      /\ MayManage(c, dst)
      /\ from.page # NoPage
      /\ w => from.w
      /\ mem' \in page_insert(mem, dst, from.page, dstva, w)
      /\ Return(c)
      /\ UNCHANGED procs

sys_page_unmap(c, e, va) ==
  /\ MayManage(c, e)
  /\ mem' = page_remove(mem, e, va)
  /\ Return(c)
  /\ UNCHANGED procs

(* env_destroy of an environment that is on no other CPU: one that is gets *)
(* freed by its own next trap (ZombieFreedByItsTrap in KernelEnv).  The id *)
(* e had names nobody any more, so its children have lost their parent.    *)
env_destroy(c, e) ==
  /\ MayManage(c, e)
  /\ \A d \in CPUs \ {c} : curenv[d] # e
  /\ mem' = env_free(mem, e)
  /\ phase' = [phase EXCEPT ![e] = "free"]
  /\ env_parent_id' = [x \in Envs |->
                         IF env_parent_id[x] = e THEN NoEnv ELSE env_parent_id[x]]
  /\ curenv' = [curenv EXCEPT ![c] = IF e = @ THEN NoEnv ELSE @]
  /\ Flush(c)
  /\ UNCHANGED <<env_ipc_dstva, asked>>

(* dstva is NoVA for a receive that takes no page.                         *)
sys_ipc_recv(c, dstva) ==
  LET e == curenv[c]
  IN  /\ e # NoEnv
      /\ phase' = [phase EXCEPT ![e] = "recv"]
      /\ env_ipc_dstva' = [env_ipc_dstva EXCEPT ![e] = IF dstva \in VAs THEN dstva ELSE @]
      /\ asked' = [asked EXCEPT ![e] = dstva]
      /\ curenv' = [curenv EXCEPT ![c] = NoEnv]
      /\ UNCHANGED <<mem, env_parent_id, tlb>>

(* The page part of a send; empty when the send fails.                     *)
ipc_transfer(m, src, srcva, dst, w) ==
  IF srcva = NoVA \/ env_ipc_dstva[dst] = NoVA
  THEN {m}
  ELSE IF m.pte[src][srcva].page = NoPage \/ (w /\ ~ m.pte[src][srcva].w)
  THEN {}
  ELSE page_insert(m, dst, m.pte[src][srcva].page, env_ipc_dstva[dst], w)

(* A send that succeeds.                                                   *)
sys_ipc_try_send(c, e, srcva, w) ==
  /\ curenv[c] # NoEnv
  /\ phase[e] = "recv"
  /\ mem' \in ipc_transfer(mem, curenv[c], srcva, e, w)
  /\ phase' = [phase EXCEPT ![e] = "ready"]
  /\ Return(c)
  /\ UNCHANGED <<env_parent_id, env_ipc_dstva, asked>>
-----------------------------------------------------------------------------
Step(c) ==
  \/ sys_yield(c)
  \/ \E va \in VAs : Access(c, va)
  \/ \E dstva \in VAs \cup {NoVA} : sys_ipc_recv(c, dstva)
  \/ \E e \in Envs :
       \/ env_run(c, e) \/ sys_exofork(c, e) \/ sys_env_set_status(c, e)
       \/ env_destroy(c, e)
       \/ \E srcva \in VAs \cup {NoVA}, w \in BOOLEAN : sys_ipc_try_send(c, e, srcva, w)

(* The page calls, on the environments of E.                               *)
PageCall(c, E) ==
  \E e \in E, va \in VAs :
    \/ sys_page_unmap(c, e, va)
    \/ \E w \in BOOLEAN : sys_page_alloc(c, e, va, w)
    \/ \E dst \in E, dstva \in VAs, w \in BOOLEAN :
         sys_page_map(c, e, va, dst, dstva, w)

(* Programs that make any page call on themselves and on any child.        *)
Next == \E c \in CPUs : Step(c) \/ PageCall(c, Envs)

Spec == Init /\ [][Next]_vars

(* Programs that change, as fork and spawn do, their own address space and *)
(* that of children they have not started.                                 *)
LibNext ==
  \E c \in CPUs :
    \/ Step(c)
    \/ PageCall(c, {e \in Envs : e = curenv[c] \/ phase[e] = "embryo"})

LibSpec == Init /\ [][LibNext]_vars
-----------------------------------------------------------------------------
TypeOK ==
  /\ mem \in Memory
  /\ env_parent_id \in [Envs -> Envs \cup {NoEnv}]
  /\ phase \in [Envs -> {"free", "embryo", "ready", "recv"}]
  /\ env_ipc_dstva \in [Envs -> VAs \cup {NoVA}]
  /\ asked \in [Envs -> VAs \cup {NoVA}]
  /\ curenv \in [CPUs -> Envs \cup {NoEnv}]
  /\ tlb \in [CPUs -> [VAs -> PTE]]

(* Who points to page p, over all address spaces.                          *)
Pointers(m, p) ==
  {<<"dir", e>> : e \in {x \in Envs : m.dir[x] = p}}
    \cup {<<"pde", x>> : x \in {y \in Envs \X Dirs : m.pde[y[1]][y[2]] = p}}
    \cup {<<"pte", x>> : x \in {y \in Envs \X VAs : m.pte[y[1]][y[2]].page = p}}

(* p is the page directory of e or one of its page tables.                 *)
IsTable(m, e, p) == m.dir[e] = p \/ \E d \in Dirs : m.pde[e][d] = p

Mapped(m, p) == \E e \in Envs, va \in VAs : m.pte[e][va].page = p
Writable(m, p) == \E e \in Envs, va \in VAs : m.pte[e][va] = [page |-> p, w |-> TRUE]

(* No count has reached the last value of pp_ref.  The kernel does not see *)
(* to it: one page mapped that often would wrap its count to zero.         *)
RefsFit == \A p \in Pages : mem.ref[p] + 1 < RefLimit

(* pp_ref is the number of pointers to the page (inc/memlayout.h:182), for *)
(* every order of inserting, replacing, removing, sharing and freeing.     *)
RefExact == \A p \in Pages : mem.ref[p] = Cardinality(Pointers(mem, p))

(* A page is free exactly when nothing points to it: no page in use can be *)
(* handed out again, and no page is lost, not even on an error path.       *)
FreeExact == \A p \in Pages : p \in mem.free <=> Pointers(mem, p) = {}

(* Page directories and page tables are private: no environment ever gets  *)
(* one mapped as data, and no two share one.                               *)
TablesPrivate ==
  \A p \in Pages, e \in Envs :
    IsTable(mem, e, p) => Cardinality(Pointers(mem, p)) = 1

(* A page that nobody can write stays one: no chain of sys_page_map calls  *)
(* and sends makes it writable for anybody (syscall.c:267, 372).           *)
ReadOnlyStep ==
  \A p \in Pages :
    Mapped(mem, p) /\ ~ Writable(mem, p) => ~ Writable(mem', p)

ReadOnlyStays == [][ReadOnlyStep]_vars

(* What a CPU has cached for the environment it runs is what the page      *)
(* tables say (pmap.c:648: "The TLB must be invalidated if you remove an   *)
(* entry from the page table").                                            *)
TlbCoherent ==
  \A c \in CPUs, va \in VAs :
    curenv[c] # NoEnv /\ tlb[c][va] # NoPte => tlb[c][va] = mem.pte[curenv[c]][va]

(* A receiver that asked for no page gets none (syscall.c:317).            *)
NoUnaskedPage ==
  [][\A e \in Envs :
       phase[e] = "recv" /\ phase'[e] = "ready" /\ asked[e] = NoVA
         => mem'.pte[e] = mem.pte[e]]_vars
=============================================================================
