------------------------------- MODULE PmapBoot -------------------------------
(***************************************************************************)
(* mem_init (kern/pmap.c): from the memory size in the CMOS to a kernel    *)
(* page directory, a list of free pages, and the local APIC mapped for     *)
(* every CPU (kern/lapic.c).                                               *)
(*                                                                         *)
(* Physical and virtual addresses are page numbers, in a layout of the     *)
(* same order as inc/memlayout.h with smaller regions; the virtual address *)
(* space has VaPages pages and kernel addresses wrap around at its end, as *)
(* 32-bit addresses do.  The free list is a sequence.  The self-checks     *)
(* that mem_init runs on the allocator are straight-line code: they are    *)
(* scripts of calls and assertions, executed one call a step.              *)
(***************************************************************************)
EXTENDS Integers, Sequences, FiniteSets

CONSTANTS MemorySizes,   \* what the CMOS may say: <<basemem, extmem, ext16mem>>
          Mem16,         \* the page at 16 MB
          NPTENTRIES,    \* pages that a page table maps
          MPENTRY, IOPHYSMEM, EXTPHYSMEM,
          KernelEnd,     \* first page after the kernel's bss
          InfosPerPage,  \* struct PageInfo's in a page
          EnvPages,      \* pages of the envs array
          NCPU, KSTKSIZE, KSTKGAP,
          Stacks,        \* percpu_kstacks: first page of each, a function on CPUs
          Bootstack,
          Lapic          \* physical page of the local APIC

(* Page directory entries, from UENVS up; 0 and 1 stand for user memory.   *)
UENVS == 2 * NPTENTRIES
UPAGES == 3 * NPTENTRIES
UVPT == 4 * NPTENTRIES
MMIOBASE == 5 * NPTENTRIES
MMIOLIM == 6 * NPTENTRIES
KSTACKTOP == 7 * NPTENTRIES
KERNBASE == 7 * NPTENTRIES
NPDENTRIES == 9
VaPages == NPDENTRIES * NPTENTRIES
KernPages == VaPages - KERNBASE
PDX(va) == va \div NPTENTRIES
PTX(va) == va % NPTENTRIES

ASSUME LayoutAssumption ==
  /\ 0 < MPENTRY /\ MPENTRY < IOPHYSMEM /\ IOPHYSMEM < EXTPHYSMEM
  /\ EXTPHYSMEM < KernelEnd /\ KernelEnd < NPTENTRIES
  /\ NCPU * (KSTKSIZE + KSTKGAP) <= NPTENTRIES
  /\ NCPU + 3 <= NPTENTRIES
  /\ EnvPages <= NPTENTRIES
  /\ InfosPerPage > 0
  /\ MemorySizes \subseteq Nat \X Nat \X Nat
  /\ Lapic >= 0
  /\ Stacks \in [0 .. NCPU - 1 -> EXTPHYSMEM .. KernelEnd - KSTKSIZE]
  /\ Bootstack \in EXTPHYSMEM .. KernelEnd - KSTKSIZE
  /\ \A i, j \in 0 .. NCPU - 1 : i < j => Stacks[i] + KSTKSIZE <= Stacks[j]

ArrayPages(n) == (n + InfosPerPage - 1) \div InfosPerPage

(* The largest machine leaves enough of the first 4 MB free for the tables *)
(* of mem_init (69 of some 700 pages in the real layout).                  *)
ASSUME LowMemoryAssumption ==
  (IOPHYSMEM - 2) + NPTENTRIES - (KernelEnd + 1 + ArrayPages(KernPages) + EnvPages)
    >= NPDENTRIES - PDX(UENVS) - 1

VARIABLES km,       \* physical memory and kern_pgdir
          kstep,    \* where mem_init is: a step, and an index in it
          outcome   \* "running", "panic", or "fault": an address that is not mapped

bootVars == <<km, kstep, outcome>>

Null == -1
NoTable == [i \in 0 .. NPTENTRIES - 1 |-> [pa |-> Null, w |-> FALSE, u |-> FALSE]]

BootInit ==
  /\ km = [npages |-> 0, nextfree |-> KernelEnd, pages |-> Null, envs |-> Null,
           free |-> <<>>, ref |-> <<>>, pgdir |-> Null,
           pde |-> [i \in 0 .. NPDENTRIES - 1 |-> Null], pdw |-> {}, pdu |-> {},
           pte |-> [i \in 0 .. NPDENTRIES - 1 |-> NoTable],
           base |-> MMIOBASE, pp |-> [i \in 0 .. 2 |-> Null], fl |-> <<>>, nfree |-> 0,
           installed |-> FALSE]
  /\ kstep = [at |-> "detect", i |-> 0]
  /\ outcome = "running"

Goto_(step) == kstep' = [at |-> step, i |-> 0]
Stop(why) == outcome' = why /\ UNCHANGED <<km, kstep>>

(* Until kern_pgdir is installed only the first 4 MB are mapped.           *)
Touchable(m, p) == m.installed \/ p < NPTENTRIES
-----------------------------------------------------------------------------
(* i386_detect_memory; sizes in pages, the kilobytes of a part of a page   *)
(* dropped.                                                                *)
i386_detect_memory(basemem, extmem, ext16mem) ==
  /\ kstep.at = "detect"
  /\ km' = [km EXCEPT !.npages = IF ext16mem > 0 THEN Mem16 + ext16mem
                                 ELSE IF extmem > 0 THEN EXTPHYSMEM + extmem
                                 ELSE basemem]
  /\ Goto_("kern_pgdir")
  /\ UNCHANGED outcome

(* boot_alloc and the memset of what it returns, kept as field what.       *)
boot_alloc(step, n, what, next) ==
  /\ kstep.at = step
  /\ IF km.nextfree + n >= km.npages THEN Stop("panic")
     ELSE IF ~ Touchable(km, km.nextfree + n - 1) THEN Stop("fault")
     ELSE /\ km' = [km EXCEPT !.nextfree = @ + n, ![what] = km.nextfree,
                              !.pde = IF what = "pgdir"
                                      THEN [@ EXCEPT ![PDX(UVPT)] = km.nextfree] ELSE @,
                              !.pdu = IF what = "pgdir" THEN {PDX(UVPT)} ELSE @]
          /\ Goto_(next)
          /\ UNCHANGED outcome

(* page_init's four reasons why page i is in use.                          *)
InUse(i) ==
  \/ i = 0
  \/ i \in IOPHYSMEM .. EXTPHYSMEM - 1
  \/ i \in EXTPHYSMEM .. km.nextfree - 1
  \/ i = MPENTRY

(* One iteration of page_init.                                             *)
page_init ==
  /\ kstep.at = "page_init"
  /\ IF kstep.i = km.npages
     THEN Goto_("check_low") /\ UNCHANGED <<km, outcome>>
     ELSE /\ km' = [km EXCEPT
               !.ref = [p \in 0 .. kstep.i |->
                          IF p < kstep.i THEN km.ref[p] ELSE IF InUse(p) THEN 1 ELSE 0],
               !.free = IF InUse(kstep.i) THEN @ ELSE <<kstep.i>> \o @]
          /\ kstep' = [kstep EXCEPT !.i = @ + 1]
          /\ UNCHANGED outcome
-----------------------------------------------------------------------------
(* The page allocator and the two-level table.                             *)

Taken(m) == [m EXCEPT !.free = Tail(@)]

(* page_free panics on a page in use, or that has a link: every page of    *)
(* the list but its last.                                                  *)
HasLink(m, p) == \E i \in 1 .. Len(m.free) - 1 : m.free[i] = p
FreePanics(m, p) == m.ref[p] # 0 \/ HasLink(m, p)
Freed(m, p) == [m EXCEPT !.free = <<p>> \o @]

page_decref(m, p) ==
  IF m.ref[p] = 1 THEN [m EXCEPT !.ref[p] = 0, !.free = <<p>> \o @]
  ELSE [m EXCEPT !.ref[p] = @ - 1]

(* pgdir_walk with create: a table for va, if there is one or a page is    *)
(* left for it.  pdw and pdu are the directory entries with PTE_W, PTE_U.  *)
pgdir_walk(m, va) ==
  IF m.pde[PDX(va)] # Null \/ m.free = <<>> THEN m
  ELSE [m EXCEPT !.free = Tail(@), !.ref[Head(m.free)] = @ + 1,
                 !.pde[PDX(va)] = Head(m.free), !.pte[PDX(va)] = NoTable,
                 !.pdw = @ \cup {PDX(va)}, !.pdu = @ \cup {PDX(va)}]

WalkFaults(m, va) ==
  m.pde[PDX(va)] = Null /\ m.free # <<>> /\ ~ Touchable(m, Head(m.free))

Pte(m, va) == m.pte[PDX(va)][PTX(va)]
SetPte(m, va, e) == [m EXCEPT !.pte[PDX(va)][PTX(va)] = e]
NotMapped == [pa |-> Null, w |-> FALSE, u |-> FALSE]

(* check_va2pa, and page_lookup: the page at va or Null.                   *)
check_va2pa(m, va) == IF m.pde[PDX(va)] = Null THEN Null ELSE Pte(m, va).pa

page_remove(m, va) ==
  IF check_va2pa(m, va) = Null THEN m
  ELSE SetPte(page_decref(m, Pte(m, va).pa), va, NotMapped)

(* page_insert once there is a table: count, remove, set, in this order.   *)
(* A variant that removes the old page before it counts the new one.       *)
insert_remove_first(m, p, va, e) ==
  LET r == page_remove(m, va) IN SetPte([r EXCEPT !.ref[p] = @ + 1], va, e)

insert(m, p, va, e) == SetPte(page_remove([m EXCEPT !.ref[p] = @ + 1], va), va, e)

InsertFails(m, va) == m.pde[PDX(va)] = Null /\ m.free = <<>>
page_insert(m, p, va, e) ==
  IF InsertFails(m, va) THEN m ELSE insert(pgdir_walk(m, va), p, va, e)
-----------------------------------------------------------------------------
(* The self-checks.  pp0, pp1 and pp2 are numbers 0 to 2, Null for none;   *)
(* PGSIZE is page 1 and PTSIZE the first page of the second table.         *)

PTSIZE == NPTENTRIES

Alloc(i) == [op |-> "alloc", i |-> i]                \* assert((ppI = page_alloc(0)))
Again(i) == [op |-> "again", i |-> i]                \* assert((pp = page_alloc(0)) && pp == ppI)
NoneLeft == [op |-> "none"]                          \* assert(!page_alloc(0))
Free(i) == [op |-> "free", i |-> i]
Steal == [op |-> "steal"]                            \* fl = page_free_list, and empty it
GiveBack == [op |-> "give"]
Insert(i, va, w, u) == [op |-> "insert", i |-> i, va |-> va, w |-> w, u |-> u]
CannotInsert(i, va) == [op |-> "cannot", i |-> i, va |-> va]
RemovePage(va) == [op |-> "remove", va |-> va]
Walk(va) == [op |-> "walk", va |-> va]
Drop(d, i) == [op |-> "drop", d |-> d, i |-> i]      \* kern_pgdir[d] = 0, ppI->pp_ref = 0
Held(i) == [op |-> "held", i |-> i]                  \* ppI->pp_ref, and ppI->pp_link == NULL
UserTable(d) == [op |-> "user", d |-> d]             \* kern_pgdir[d] & PTE_U
CountFree == [op |-> "count"]                        \* nfree
SameFree == [op |-> "same"]                          \* as many free pages as nfree
MapsTo(va, i) == [op |-> "at", va |-> va, i |-> i]   \* check_va2pa(va) == page2pa(ppI)
Ref(i, n) == [op |-> "ref", i |-> i, n |-> n]        \* ppI->pp_ref == n
TableIs(d, i) == [op |-> "table", d |-> d, i |-> i]  \* kern_pgdir[d] is ppI
Perm(va, w, u) == [op |-> "perm", va |-> va, w |-> w, u |-> u]

check_page_alloc ==
  <<CountFree, Alloc(0), Alloc(1), Alloc(2), Steal, NoneLeft, Free(0), Free(1), Free(2),
    Alloc(0), Alloc(1), Alloc(2), NoneLeft, Free(0), Again(0), GiveBack,
    Free(0), Free(1), Free(2), SameFree>>

check_page ==
  <<Alloc(0), Alloc(1), Alloc(2), Steal, NoneLeft, MapsTo(0, Null), CannotInsert(1, 0),
    Free(0), Insert(1, 0, TRUE, FALSE), TableIs(0, 0), MapsTo(0, 1), Ref(1, 1), Ref(0, 1),
    Insert(2, 1, TRUE, FALSE), MapsTo(1, 2), Ref(2, 1), NoneLeft,
    Insert(2, 1, TRUE, FALSE), MapsTo(1, 2), Ref(2, 1), NoneLeft,
    Insert(2, 1, TRUE, TRUE), MapsTo(1, 2), Ref(2, 1), Perm(1, TRUE, TRUE), UserTable(0),
    Insert(2, 1, TRUE, FALSE), Perm(1, TRUE, FALSE), CannotInsert(0, PTSIZE),
    Insert(1, 1, TRUE, FALSE), Perm(1, TRUE, FALSE), MapsTo(0, 1), MapsTo(1, 1), Ref(1, 2), Ref(2, 0),
    Again(2), RemovePage(0), MapsTo(0, Null), MapsTo(1, 1), Ref(1, 1), Ref(2, 0),
    Insert(1, 1, FALSE, FALSE), Held(1),
    RemovePage(1), MapsTo(0, Null), MapsTo(1, Null), Ref(1, 0), Ref(2, 0), Again(1), NoneLeft,
    TableIs(0, 0), Ref(0, 1), Drop(0, 0), Free(0), Walk(PTSIZE + 1), Drop(1, 0), Free(0), Walk(0), MapsTo(0, Null), Drop(0, 0),
    GiveBack, Free(0), Free(1), Free(2)>>

check_page_installed_pgdir ==
  <<Alloc(0), Alloc(1), Alloc(2), Free(0),
    Insert(1, 1, TRUE, FALSE), Ref(1, 1), MapsTo(1, 1),
    Insert(2, 1, TRUE, FALSE), MapsTo(1, 2), Ref(2, 1), Ref(1, 0),
    RemovePage(1), Ref(2, 0), TableIs(0, 0), Ref(0, 1), Drop(0, 0), Free(0)>>

PageOf(m, i) == IF i = Null THEN Null ELSE m.pp[i]

(* What a call asserts before or after it; a false assertion panics.       *)
Holds_(m, c) ==
  CASE c.op = "alloc" -> m.free # <<>> /\ \A j \in 0 .. c.i - 1 : Head(m.free) # m.pp[j]
    [] c.op = "again" -> m.free # <<>> /\ Head(m.free) = m.pp[c.i]
    [] c.op = "none" -> m.free = <<>>
    [] c.op = "free" -> ~ FreePanics(m, m.pp[c.i])
    [] c.op = "insert" -> ~ InsertFails(m, c.va)
    [] c.op = "cannot" -> InsertFails(m, c.va)
    [] c.op = "at" -> check_va2pa(m, c.va) = PageOf(m, c.i)
    [] c.op = "ref" -> m.ref[m.pp[c.i]] = c.n
    [] c.op = "table" -> m.pde[c.d] = m.pp[c.i]
    [] c.op = "held" -> m.ref[m.pp[c.i]] # 0 /\ ~ HasLink(m, m.pp[c.i])
    [] c.op = "user" -> c.d \in m.pdu
    [] c.op = "same" -> Len(m.free) = m.nfree
    [] c.op = "perm" -> Pte(m, c.va).w = c.w /\ Pte(m, c.va).u = c.u
    [] OTHER -> TRUE

Called(m, c) ==
  CASE c.op = "alloc" -> [Taken(m) EXCEPT !.pp[c.i] = Head(m.free)]
    [] c.op = "again" -> Taken(m)
    [] c.op = "free" -> Freed(m, m.pp[c.i])
    [] c.op = "steal" -> [m EXCEPT !.fl = m.free, !.free = <<>>]
    [] c.op = "give" -> [m EXCEPT !.free = m.fl, !.fl = <<>>]
    [] c.op = "insert" -> page_insert(m, m.pp[c.i], c.va, [pa |-> m.pp[c.i], w |-> c.w, u |-> c.u])
    [] c.op = "remove" -> page_remove(m, c.va)
    [] c.op = "walk" -> pgdir_walk(m, c.va)
    [] c.op = "drop" -> [m EXCEPT !.pde[c.d] = Null, !.pte[c.d] = NoTable, !.ref[m.pp[c.i]] = 0,
                                  !.pdw = @ \ {c.d}, !.pdu = @ \ {c.d}]
    [] c.op = "count" -> [m EXCEPT !.nfree = Len(m.free)]
    [] OTHER -> m

self_call(c, last, next) ==
  IF ~ Holds_(km, c) THEN Stop("panic")
  ELSE IF c.op \in {"walk", "insert"} /\ WalkFaults(km, c.va) THEN Stop("fault")
  ELSE /\ km' = Called(km, c)
       /\ IF last THEN Goto_(next) ELSE kstep' = [kstep EXCEPT !.i = @ + 1]
       /\ UNCHANGED outcome

self_check(step, calls, next) ==
  /\ kstep.at = step
  /\ self_call(calls[kstep.i + 1], kstep.i + 1 = Len(calls), next)

(* check_page_free_list; with low, the pages entry_pgdir maps come first.  *)
Reordered(free) ==
  SelectSeq(free, LAMBDA p : p < NPTENTRIES) \o SelectSeq(free, LAMBDA p : p >= NPTENTRIES)

page2kva(p) == (KERNBASE + p) % VaPages

FreeListReasonable(free) ==
  /\ \A i \in DOMAIN free :
       /\ free[i] < km.npages
       /\ free[i] \notin {0, IOPHYSMEM, EXTPHYSMEM - 1, EXTPHYSMEM, MPENTRY}
       /\ free[i] < EXTPHYSMEM \/ page2kva(free[i]) >= page2kva(km.nextfree)
  /\ \E i \in DOMAIN free : free[i] < EXTPHYSMEM
  /\ \E i \in DOMAIN free : free[i] >= EXTPHYSMEM

check_page_free_list(step, low, next) ==
  /\ kstep.at = step
  /\ IF ~ FreeListReasonable(km.free) THEN Stop("panic")
     ELSE /\ km' = [km EXCEPT !.free = IF low THEN Reordered(@) ELSE @]
          /\ Goto_(next)
          /\ UNCHANGED outcome
-----------------------------------------------------------------------------
(* Mappings above UTOP.  One iteration of boot_map_region: pgdir_walk      *)
(* returns NULL when no page is left, and storing there faults.            *)
MapPage(va, e) ==
  IF InsertFails(km, va) \/ WalkFaults(km, va) THEN Stop("fault")
  ELSE /\ km' = SetPte(pgdir_walk(km, va), va, e)
       /\ kstep' = [kstep EXCEPT !.i = @ + 1]
       /\ UNCHANGED outcome

boot_map_region(step, va, n, pa, w, u, next) ==
  /\ kstep.at = step
  /\ IF kstep.i < n
     THEN MapPage(va + kstep.i, [pa |-> pa + kstep.i, w |-> w, u |-> u])
     ELSE Goto_(next) /\ UNCHANGED <<km, outcome>>

(* mem_init_mp: the stack of every CPU, one after the other.               *)
StackBase(c) == KSTACKTOP - c * (KSTKSIZE + KSTKGAP) - KSTKSIZE

mem_init_mp ==
  /\ kstep.at = "mem_init_mp"
  /\ LET c == kstep.i \div KSTKSIZE
         i == kstep.i % KSTKSIZE
     IN  IF c < NCPU
         THEN MapPage(StackBase(c) + i, [pa |-> Stacks[c] + i, w |-> TRUE, u |-> FALSE])
         ELSE Goto_("check_kern_pgdir") /\ UNCHANGED <<km, outcome>>

(* n pages of device memory at pa; base moves when all are mapped.         *)
NextBase(n) == km.base + n

mmio_map_region(step, pa, n, next) ==
  /\ kstep.at = step
  /\ IF km.base + n > MMIOLIM THEN Stop("panic")
     ELSE IF kstep.i < n
     THEN MapPage(km.base + kstep.i, [pa |-> pa + kstep.i, w |-> TRUE, u |-> FALSE])
     ELSE /\ km' = [km EXCEPT !.base = NextBase(n)]
          /\ Goto_(next)
          /\ UNCHANGED outcome

(* The end of check_page: its two regions, of 2 and 1 pages, are where     *)
(* they should be; clear them.                                             *)
check_mmio ==
  /\ kstep.at = "check_mmio"
  /\ IF \/ check_va2pa(km, MMIOBASE) # 0 \/ check_va2pa(km, MMIOBASE + 1) # 1
        \/ check_va2pa(km, MMIOBASE + 2) # 0 \/ check_va2pa(km, MMIOBASE + 3) # Null
     THEN Stop("panic")
     ELSE /\ km' = [km EXCEPT !.pte[PDX(MMIOBASE)] =
                      [x \in DOMAIN @ |-> IF x <= 2 THEN NotMapped ELSE @[x]]]
          /\ Goto_("map_upages")
          /\ UNCHANGED outcome

KernPgdirRight ==
  /\ \A i \in 0 .. ArrayPages(km.npages) - 1 :
       Pte(km, UPAGES + i) = [pa |-> km.pages + i, w |-> FALSE, u |-> TRUE]
  /\ \A i \in 0 .. EnvPages - 1 :
       Pte(km, UENVS + i) = [pa |-> km.envs + i, w |-> FALSE, u |-> TRUE]
  /\ \A p \in 0 .. km.npages - 1 : check_va2pa(km, page2kva(p)) = p
  /\ \A c \in 0 .. NCPU - 1 :
       /\ \A i \in 0 .. KSTKSIZE - 1 : check_va2pa(km, StackBase(c) + i) = Stacks[c] + i
       /\ \A i \in 1 .. KSTKGAP : check_va2pa(km, StackBase(c) - i) = Null
  /\ \A d \in 0 .. NPDENTRIES - 1 : /\ (km.pde[d] = Null) <=> d < PDX(UENVS)
                                    /\ d >= PDX(KERNBASE) => d \in km.pdw

check_kern_pgdir ==
  /\ kstep.at = "check_kern_pgdir"
  /\ IF KernPgdirRight
     THEN Goto_("lcr3") /\ UNCHANGED <<km, outcome>>
     ELSE Stop("panic")

lcr3 ==
  /\ kstep.at = "lcr3"
  /\ km' = [km EXCEPT !.installed = TRUE]
  /\ Goto_("check_all")
  /\ UNCHANGED outcome

(* lapic_init, on every CPU in turn: one page of device memory each.  When *)
(* mp_init found no local APIC, lapicaddr is 0 and nothing is mapped.      *)
lapic_init ==
  /\ kstep.at = "lapic_init"
  /\ \/ kstep.i \in {0, NCPU} /\ Goto_("done") /\ UNCHANGED <<km, outcome>>
     \/ /\ kstep.i < NCPU
        /\ IF km.base + 1 > MMIOLIM THEN Stop("panic")
           ELSE /\ km' = [SetPte(km, km.base, [pa |-> Lapic, w |-> TRUE, u |-> FALSE])
                            EXCEPT !.base = NextBase(1)]
                /\ kstep' = [kstep EXCEPT !.i = @ + 1]
                /\ UNCHANGED outcome
-----------------------------------------------------------------------------
mem_init ==
  \/ boot_alloc("kern_pgdir", 1, "pgdir", "pages")
  \/ boot_alloc("pages", ArrayPages(km.npages), "pages", "envs")
  \/ boot_alloc("envs", EnvPages, "envs", "page_init")
  \/ page_init
  \/ check_page_free_list("check_low", TRUE, "check_page_alloc")
  \/ self_check("check_page_alloc", check_page_alloc, "check_page")
  \/ self_check("check_page", check_page, "mmio1")
  \/ mmio_map_region("mmio1", 0, 2, "mmio2")
  \/ mmio_map_region("mmio2", 0, 1, "check_mmio")
  \/ check_mmio
  \/ boot_map_region("map_upages", UPAGES, ArrayPages(km.npages), km.pages, FALSE, TRUE, "map_uenvs")
  \/ boot_map_region("map_uenvs", UENVS, EnvPages, km.envs, FALSE, TRUE, "map_stack")
  \/ boot_map_region("map_stack", KSTACKTOP - KSTKSIZE, KSTKSIZE, Bootstack, TRUE, FALSE, "map_kern")
  \/ boot_map_region("map_kern", KERNBASE, KernPages, 0, TRUE, FALSE, "mem_init_mp")
  \/ mem_init_mp
  \/ check_kern_pgdir
  \/ lcr3
  \/ check_page_free_list("check_all", FALSE, "check_installed")
  \/ self_check("check_installed", check_page_installed_pgdir, "lapic_init")

BootNext ==
  /\ outcome = "running"
  /\ \/ \E z \in MemorySizes : i386_detect_memory(z[1], z[2], z[3])
     \/ mem_init
     \/ lapic_init

BootSpec == BootInit /\ [][BootNext]_bootVars
-----------------------------------------------------------------------------
(* Where a page is, when mem_init is done.                                 *)
OnFreeList(p) == {i \in DOMAIN km.free : km.free[i] = p}
TableOf(p) == {d \in 0 .. NPDENTRIES - 1 : km.pde[d] = p}
Static(p) == p = 0 \/ p = MPENTRY \/ p \in IOPHYSMEM .. km.nextfree - 1

Mapped(va) == check_va2pa(km, va) # Null
NotUVPT == {va \in 0 .. VaPages - 1 : PDX(va) # PDX(UVPT)}

(* The pages the machine needs: those the kernel takes for good, a table   *)
(* for each region, and the three the self-checks borrow.                  *)
Fits(n) ==
  LET static == KernelEnd + 1 + ArrayPages(n) + EnvPages
      free == (IOPHYSMEM - 2) + (n - static)
  IN  static < n /\ n <= KernPages /\ free >= NPDENTRIES - PDX(UENVS) - 1 + 3

(* mem_init leaves memory as page_alloc and env_setup_vm rely on it        *)
(* (pmap.c:135-276).  Every page is once on the free list and unused, or   *)
(* a table of kern_pgdir, or the kernel's own for good; all of it is       *)
(* mapped at KERNBASE for the kernel alone; the user reads the two arrays  *)
(* and writes nothing; no two CPUs share a stack and each has its gap; no  *)
(* device page was mapped over another, and nothing is mapped below UTOP.  *)
(* Boot fails only on a machine with too little or too much memory, and    *)
(* never touches a page before it is mapped when there is enough.          *)
BootSound ==
  /\ outcome # "running" => ~ Fits(km.npages)
  /\ kstep.at = "done" =>
       /\ \A p \in 0 .. km.npages - 1 :
            \/ Cardinality(OnFreeList(p)) = 1 /\ km.ref[p] = 0 /\ TableOf(p) = {} /\ ~ Static(p)
            \/ Cardinality(TableOf(p)) = 1 /\ km.ref[p] = 1 /\ OnFreeList(p) = {}
            \/ Static(p) /\ km.ref[p] = 1 /\ OnFreeList(p) = {}
       /\ \A p \in 0 .. km.npages - 1 :
            Pte(km, KERNBASE + p) = [pa |-> p, w |-> TRUE, u |-> FALSE]
       /\ {<<va, Pte(km, va).pa>> : va \in {v \in NotUVPT : Mapped(v) /\ Pte(km, v).u}}
            = {<<UPAGES + i, km.pages + i>> : i \in 0 .. ArrayPages(km.npages) - 1}
              \cup {<<UENVS + i, km.envs + i>> : i \in 0 .. EnvPages - 1}
       /\ \A va \in NotUVPT : Pte(km, va).w => ~ Pte(km, va).u
       /\ \A c \in 0 .. NCPU - 1 :
            /\ Mapped(StackBase(c)) /\ ~ Mapped(StackBase(c) - 1)
            /\ \A d \in 0 .. NCPU - 1 :
                 Pte(km, StackBase(c)).pa = Pte(km, StackBase(d)).pa => c = d
       /\ {va \in MMIOBASE .. MMIOLIM - 1 : Mapped(va)} = MMIOBASE + 3 .. km.base - 1
       /\ km.base - (MMIOBASE + 3) \in {0, NCPU}
       /\ \A va \in 0 .. UENVS - 1 : ~ Mapped(va)
=============================================================================
