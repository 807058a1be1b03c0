# JOS in TLA+

A verification development for the JOS kernel, its user library, its file system
and its shell, kept under `src/sisop_2020b_g06_delpino_romero-main/` (paths below
are relative to that directory). Every definition is translated from the C code; the
comments of the code serve as the statements of what it is meant to do.

## The system and its parts

JOS is an exokernel-style teaching system for several x86 CPUs. The kernel offers
environments (processes), pages and a one-word message; `fork`, pipes, files and
`spawn` are library code in user mode, and the file system is an environment that
answers messages.

| Part | What is hard about it | Modules |
| --- | --- | --- |
| kernel lock (`kern/spinlock.c`) | unsynchronised reads, store buffers | `Spinlock` implements `BigLock` |
| environments, scheduler, traps, process and IPC calls (`kern/env.c`, `sched.c`, `trap.c`, `init.c`, `syscall.c`) | an environment destroyed while another CPU runs it, reuse of slots and ids, halting | `KernelEnv` |
| pages and address spaces (`kern/pmap.c`, `syscall.c`) | running out of memory halfway, counts, stale translations | `Pmap` |
| boot of the memory (`kern/pmap.c`, `lapic.c`) | every size of memory, a list built before there is an allocator | `PmapBoot` |
| page-fault upcall (`kern/trap.c`, `lib/pfentry.S`, `lib/pgfault.c`) | a fault in the handler, or in the upcall's own way out | `UserFault` |
| console (`kern/console.c`, `lib/readline.c`) | interrupts between the two codes of a key, a ring that overflows | `Console` |
| debugging information (`kern/kdebug.c`) | a binary search in a list with holes | `StabSearch` |
| copy-on-write fork (`lib/fork.c`) | a copy made in many system calls while everybody runs | `CowFork` implements `PrivateMemory` |
| pipes (`lib/pipe.c`, `fd.c`) | "closed" is guessed from two counts read one after the other | `Pipe` |
| open files (`fs/serv.c`, `lib/file.c`, `fd.c`, `ipc.c`) | a page shared by server and clients, reuse of entries by reference count, clients that die | `FileServer` implements `OpenFiles` |
| file system, block cache (`fs/fs.c`, `bc.c`) | block accounting, crashes between disk writes, a full disk | `FileSys` implements `Files` |
| spawn (`lib/spawn.c`) | many system calls, each of which may fail | `Spawn` |
| shell (`user/sh.c`) | who holds which end of which pipe | `Shell` |

The parts build on each other. `Spinlock` shows that a handler may be taken as one
step; `KernelEnv` and `Pmap` do so. `Pmap` shows that `pp_ref` counts the mappings,
which is what `CowFork`, `Pipe` and `FileServer` use it for. `KernelEnv` shows that
environments keep getting a CPU, which is the fairness of the modules above it.
`UserFault` shows that a fault is invisible, so that `CowFork` may treat `pgfault` as
steps between two instructions of the program. `FileServer` takes a file as its size
and leaves its contents to `FileSys`.

The proofs are in `PartsProofs` (the lock, page-fault upcalls, the console),
`KernelEnvProofs`, `PmapProofs`, `CowForkProofs`, `CowMemoryProofs`, `PipeProofs`,
`FileServerProofs` and `LoopProofs` (the search for debugging information, `spawn`).
The `MC*` modules and the `.cfg` files instantiate the rest for TLC. A definition
whose name has a suffix and whose comment calls it a variant (`page_insert_late`,
`FrameAt_top`) is a slip the code does not make: it is not part of any specification,
and stands before the definition it varies to show which property notices it.

### How state and actions correspond to the code

* **Spinlock.** `locked` and `cpu` are the fields of `struct spinlock`; `wbuf[c]` is
  the x86 store buffer of CPU `c`, which the plain stores to `lk->cpu` go through and
  which a locked `xchg` waits for. Each action is one access of `spin_lock` or
  `spin_unlock`. The recorded call stack (`pcs`) is left out.
* **KernelEnv.** A trap is two steps: the CPU leaves user mode (`Trap`, `Wake`), and
  later, with the lock, does everything up to `env_run` or `sched_halt`. Every handler
  ends in one of the scheduler's operators, which take the status table and `curenv`
  as the handler leaves them. `mode[c]` is where the CPU is. Memory is abstracted: a
  call that may fail for want of it may fail.
* **Pmap.** The functions of `pmap.c` are operators from memories to memories; those
  that allocate give the set of possible results, empty for `-E_NO_MEM`. A page table
  entry is a page and its write bit. The free list is a set, since its order matters to
  nobody. `env_free` is given in closed form: every reference the address space holds
  is dropped. TLBs are filled by `Access` and emptied where `cr3` is loaded, which
  every system call does on its way back; the `invlpg` before that changes nothing.
* **PmapBoot.** Addresses are page numbers, in a layout of the same order as
  `memlayout.h` with smaller regions, and wrap around at the end of the address space.
  Here the free list is a sequence. The self-tests `check_*` are scripts of calls and
  assertions, one call a step; a failed assertion is a panic. This is the default build:
  `TP1_PSE`, which maps the kernel with 4 MB pages, is off. `lapic_init` maps nothing on
  a machine without a local APIC.
* **UserFault.** Addresses count words. A step is an instruction of the upcall that
  can fault or that moves a word, or what the kernel does on a fault. `saved` is a
  history variable: what was interrupted, with its stack, to compare with what
  resumes. The handler is abstracted to mapping the page it was told of.
* **Console.** Keys send one or two codes; `kbd_intr` handles one code, so interrupts
  and polls fall between the two. The ring keeps `rpos` and `wpos`; `arrived` and
  `taken` are history. The editing and the echo of `readline` go with the `cons_getc`
  that feeds it.
* **StabSearch.** A step is a turn of the loop of `stab_binsearch`, or what
  `debuginfo_eip` does between two searches.
* **CowFork.** A step is a system call, the copy in `pgfault`, or a store of the
  program. A physical page is the set of places that map it and its value. While it is
  inside `fork` an environment stores only to its stack, which is itself one of the
  pages being copied. Installing the handler (page and upcall) is one step.
  `sys_exofork` fails when no slot is free or there is no page for a directory, and
  `fork` then panics.
* **Pipe.** One CPU, taken away between any two accesses. `fd` and `data` say who maps
  descriptor pages and ring; `runs` says whether `env_runs` changed since
  `_pipeisclosed` read it. The two `pageref` calls are evaluated in either order, as C
  allows. The byte written at position k is k.
* **FileServer.** A request is a send that is retried until the server receives, the
  handler, an answer that is retried until the client receives, and what the client
  then does to its descriptor: each system call is a step, other clients run in
  between, and a client may be destroyed at any of them. `fork` is one step, or it is cut
  short: the parent is destroyed in the middle of it, and the child, which nobody will
  start, keeps the descriptors it has so far (`fork_killed`). `fdpage` is the page that
  server and clients share, with `fd_offset` in it. `OpenFiles` says exactly by how much
  a transfer moves the position: by the bytes it moved, added to where the position is
  when it is done. A seek meanwhile therefore counts.
* **FileSys.** The functions of `fs.c` are operators on the server's state; a request
  runs to its end, or to a panic, and leaves a queue of the disk writes up to there, which
  `ide_write` performs one at a time. `call` is the request served last with what it read;
  `Files` says for each request exactly which words and sizes it changes and what it
  reads. A crash is any state between two of them, so what must hold of the disk after a
  crash is an invariant of `disk`. A block is words, block numbers or Files, by use.
* **Spawn.** One system call a step, each with its failure. Memory cells hold a byte of
  the file, a character of an argument or a part of a word, so that the property reads
  the child's memory back as the child would.
* **Shell.** `proc[k]` is a process in `runcmd` with its place in the line and its
  descriptors, `command[k]` the program it spawned. A command may end at any time, and
  must once nobody is left to write what it reads and its own output goes somewhere.
  `dup` does not fail here: all descriptors and their data lie in one 4 MB region
  (`lib/fd.c:8-16`), whose page table exists once a descriptor is open. The calls of
  `rewire` change only the descriptors of the process that makes them and are one step.
  `fork` may panic.

`Next` lets programs make the calls of its module at will; `LibNext` restricts them
to what `lib/` and `user/` do: a status or trap frame is set only for a child not
started yet, a dying child is not destroyed again, address spaces are changed only by
their owner or before the start, a pipe is handed to one child before it is used.

## What the runs check

| Run | Instance | Result |
| --- | --- | --- |
| `parts` | seven parts that share no state, one at a time: 3 CPUs for the lock; stacks of 3 and 24 words; a ring and a screen of a few cells, 2 keys, 1 serial character; every sorted table of 4 stabs; 16 memory sizes; 3 programs and 5 argument lists; 9 command lines, 3 processes | mutual exclusion, no false panic in `holding`, refinement of `BigLock`, the lock keeps moving; faults are invisible; input intact; the search finds the right function; `mem_init` leaves memory in order or refuses; a started child is complete; every pipeline finishes |
| `env_lib` | 2 CPUs, 3 slots, ids wrap after 2 generations, `LibNext` | table, CPUs, ids, free list and receivers agree; the kernel gives up only when idle; nobody waits for the lock in vain; zombies are freed by their own trap |
| `env_live` | the same, ids wrap at once, with fairness | zombies go away; round robin |
| `env_any_status` | arbitrary programs | **fails**: `OneCpuPerEnv` |
| `pmap` | 2 environments, 5 physical pages, `pp_ref` up to 2; either 1 CPU, 2 tables and arbitrary programs, or 2 CPUs, 1 virtual page and `LibNext` | counts and free list exact, tables private, read-only pages stay so, no stale translation |
| `pmap_unasked` | 1 CPU, `LibNext` | **fails**: `NoUnaskedPage` |
| `cow_fork` | 2 slots, 6 pages of all kinds, 2 values | copy-on-write memory is private memory; copying is invisible; `fork` returns |
| `pipe` | 2 environments, 2 descriptors, ring of 1, 2 bytes | "closed" is true, bytes in order, end of file is seen |
| `pipe_fork` | 3 environments, no bytes | **fails**: `ClosedIsTrue` |
| `file_server` | 2 clients with 2 descriptors, 2 table entries, ids that wrap, 3 requests | descriptors name their files, refinement of `OpenFiles`, requests are answered |
| `file_system` | 8 blocks of 2 words, 1 direct and 2 indirect blocks, 2 files, 4 requests | exact bitmap, safe disk, flush reaches the disk, refinement of `Files` |
| `disk_full` | 6 blocks | **fails**: `DiskFullIsAnError` |

The run `parts` puts small independent modules together only to explore them in one
go: the variable `part` names the one that moves, the others stay as they began, and
fairness is that of the part that moves. `pmap` likewise explores two machines that
differ in what programs may do. Type invariants of modules with proofs are part of the
proved invariants and are not repeated in the runs.

### Why the bounds are enough

Three CPUs give the lock a holder, a waiter and a newcomer that runs `holding`. Two
CPUs and three slots give a running, a dying and a new environment with a slot being
reused; ids wrap in the run, so the generation overflow happens. Five pages run out
in every call of two environments (each needs a directory and up to two tables).
A page has at most two references then, and `pp_ref` goes up to 2 (`RefLimit` is 3), so
counts reach their largest value, and `page_insert` of a page at its own address takes
one past it and back. With one value less `RefExact` fails, as it does in the kernel for a
page with 65536 references.
An exception stack of 24 words holds three frames and not a fourth, so a fault in the
handler, one in the upcall's last push, and the overflow all occur. The console's ring
of two overflows. The memory sizes include each one around the least that boots and
the most that does. Each line and program of the other parts is there for a branch:
empty commands, missing words, two pipes, redirections with a pipe; segments that
start inside a page, end in the file, or are zero-filled pages only. Two environment
slots are reused for grandchildren in `cow_fork`. A ring of one byte is full and empty
at once after each byte, and two bytes wrap around. Three requests of two clients let
an entry be closed and opened anew by the other. A file of up
to three blocks crosses from direct to indirect blocks both ways; seven words end
past the largest file, so `-E_INVAL` halfway through a write occurs; four requests
suffice to write, shrink, grow and flush. `MaxBytes`, `MaxSize`, `MaxRequests`,
`MaxServed`, `MaxFileSize`, `MaxKeys`, `MaxCodes`, `MaxSerial`, `MaxSpawns` and
`MaxProcs` are bounds of the model only (the last also of the kernel: `NENV`).

Deadlock is not checked: the systems may stop (monitor, all environments gone, panic,
a bound reached). That no CPU gets stuck is `StuckOnlyInMonitor`, that the lock goes on
is `LockMoves`, and that no pipeline hangs is `PipelineFinishes`.

### Where the code does not do what it says

* **`env_any_status`**: `sys_env_set_status` may mark an environment runnable that
  another CPU is running (`kern/syscall.c:121`); then two CPUs run it, which
  `kern/sched.c:26` and `user/stresssched.c:25` exclude. No library code does so.
* **`pmap_unasked`**: `sys_ipc_recv` keeps the old `env_ipc_dstva` when no page is
  asked for (`kern/syscall.c:422-431`); a page sent is mapped there all the same,
  against `kern/syscall.c:317`.
* **`pipe_fork`**: `fork` maps descriptors before rings; another holder asking in
  between is told "closed" although the other end is open, against
  `user/testpiperace2.c:34`.
* **`disk_full`**: `-E_NO_DISK` is kept in a `uint32_t` and compared with `< 0`
  (`fs/fs.c:159`, `192`); a full disk panics the server instead of failing the request.

### Limits met while modelling

These are in the models, or in the assumptions of the models, and have no run of
their own.

* Environments: a parent that destroys a dying child again frees it under its CPU
  (outside `LibNext`). A runnable environment may starve while others keep exiting,
  since the scan restarts at slot 0 (hence the premise of `RoundRobin`).
* Pages: a parent that remaps pages of a running child leaves stale entries in another
  CPU's TLB (outside `LibNext`). 65536 mappings of one page wrap `pp_ref`: the proofs
  are about behaviours in which that does not happen (`RefsFit`).
* Boot: `page_init` does not look at `npages_basemem` (`kern/pmap.c:336`);
  `boot_alloc` panics when memory is used up exactly (`pmap.c:120`); beyond 256 MB
  `check_page_free_list(1)` panics (`pmap.c:858`); `boot_map_region` follows a null
  pointer when pages run out, and page tables have to come from the first 4 MB
  (`LowMemoryAssumption`).
* Debugging information: after an exact match the search goes on with `addr + 1`, so a
  function, or a file, that starts one byte after another would be mistaken for it
  (`SpacedAssumption`, of `SO` and `FUN` stabs; lines may be as close as they like); a
  failed line search does
  not make `debuginfo_eip` fail.
* Console: `cons_intr` overwrites a full ring, so unread input is lost a lap at a
  time; releasing one of two shift keys that are down clears the flag.
* Open files: `o_fileid` reaches 2^31 and `open` then takes it for an error.
  `serve_read` does not limit `req_n` to the size of its answer, whose length
  `lib/file.c:125` asserts: in the model the client panics there, and what the server has
  copied past the page by then is left out. A client destroyed while its request is served, or without
  memory for the descriptor page, makes `ipc_send` panic in the server. The answer is
  taken from any sender. `seek` by one sharer of a descriptor between the read of
  another and its `fd_offset += r` moves the position past what either asked for, as
  `OpenFiles` says. The addition is one instruction, but not a locked one: with several
  CPUs a seek might fall in the middle of it and be lost, which is not modelled. `sync`
  after `fork`
  sends the request page with `PTE_W` although it is copy-on-write by then.
* `spawn` leaves the descriptor open when `sys_exofork` or `init_stack` fails, and in
  the latter case the child too; `UTEMP` stays mapped when a segment cannot be read; a
  short `readn` is not noticed; errors in `copy_shared_pages` are ignored.
* Shell: a symbol it has no case for, `&`, `;` or parentheses, is a panic. The line's own
  process waits for nobody when the left side of a `|` is empty. Exactly `MAXARGS`
  words write one past `argv` (`user/sh.c:145`); the model has the words and not the
  array.

## Fairness

* `Spinlock`: weak fairness per CPU and per store buffer. Nothing says that a given
  CPU gets the lock: the code has no queue.
* `KernelEnv`: every CPU keeps executing and its LAPIC timer keeps interrupting it
  (weak), and the timer interrupt is served infinitely often if it can be (strong). The
  latter assumes that a CPU does not lose every race for the lock and does not trap
  for other reasons only.
* `CowFork`: an environment inside `fork` or `pgfault` keeps getting a CPU.
* `Pipe`: every live environment is run again and again (weak) and then gets a step
  in (strong). `EofIsSeen` has one more premise: `_pipeisclosed` repeats as long as it
  is interrupted, so it must now and then complete undisturbed while nobody is halfway
  through a `close` or `dup`.
* `FileServer`: the server goes on with a request it has received, and a client that
  has sent one goes on to receive (weak: both are runnable and nobody disables them).
* `Shell`: every process in `runcmd` gets its turn, and a command that waits for
  nobody else in its pipeline ends (weak).

`FileSys`, `Pmap`, `UserFault`, `Console`, `StabSearch`, `PmapBoot` and `Spawn` have no
liveness: what they do is done in one piece, or by one environment, or it is up to
the user at the keyboard when it goes on.

## What is proved

TLAPS checks these for every value of the constants that satisfies the named
assumptions of the modules: any number of CPUs, environments, pages, descriptors or
entries, any size of a ring, a stack or a screen.

* **`PartsProofs`**, the lock: `MutualExclusionHolds`, `HoldingIsRight`,
  `LockRefinement`. Mutual exclusion alone is not inductive. `LockInv` adds that `locked`
  is 1 while anyone owns the lock (`LockedInv`), and where the stores to `lk->cpu` are
  (`BufferInv`): a CPU outside the lock has nothing buffered and `lk->cpu` does not name
  it. This is what makes the unsynchronised `holding` right, and it depends on the
  release being an `xchg`.
* **`PartsProofs`**, page-fault upcalls: `FaultsAreInvisible`. The invariant `FInv` is a
  chain: what runs has a frame from which it returns to `saved[1]`, which has one from
  which it returns to `saved[2]`, down to the program; each link lies below the stack it
  returns to, with one word between them. Every write is then shown to spare what is
  interrupted (`Spared`), the push of `store` into the spare word included.
* **`PartsProofs`**, the console: `InputStaysIntact` and `CursorStaysOnScreen`. The ring
  is related to the sequence of all that arrived up to whole laps (`RingHolds`), the
  modifiers to the keys held and the codes on their way (`FlagsInv`).
* **`KernelEnvProofs`**: for `LibSpec`, `TypeCorrect`, `NeverOnTwoCpus`, `StatusIsTrue`,
  `IdsNameSlots`, `FreeListIsExact`, `ReceiversAreParked`, `GivesUpRightly` and the
  action property `ZombiesAreFreedByTheirTrap`. The properties need each other, so `IInv`
  is their conjunction with `LockInv` (who holds the lock between steps), `CurenvInv`
  (who has a `curenv`) and `BootInv` (the machine before the first environment). Since
  every handler ends in the scheduler, one lemma each shows that `env_run`,
  `sched_halt`, `sched_yield` and `trap_return` re-establish `IInv` from a state "inside
  the kernel"; a handler then only has to show it reaches such a state.
* **`PmapProofs`**: `RefCountsExact`, `FreeListExact`, `TablesArePrivate` and
  `ReadOnlyIsKept` for arbitrary programs, `TlbIsCoherent` for `LibSpec`. Nothing is
  assumed of the sizes: a page may be mapped in more places than `pp_ref` can count. The
  theorems speak of the behaviours with `[]RefsFit`, in which no count reaches its last
  value between two calls, so that `page_insert` may raise it by one. The heart is
  `Good(m, taken, counted)`: counts, free list and tables of memory `m` agree, but for a
  page that was taken from the free list and is not mapped yet, and one that is counted
  once more than it is mapped, as in the middle of `page_insert` and `pgdir_walk`. Each
  function of `pmap.c` is shown to take one such memory to another; `IInv` is `Good` with
  neither, between calls.
* **`CowForkProofs`**: `HandlerHasItsStack` and `CowPagesAreStable`, from `IInv`, which
  follows the pages through every step of `fork` and `pgfault`: the page `duppage` is
  about (`PageInv`), what is at `PFTEMP` (`TempInv`), that a page has one writer
  (`WriterInv`) and a page to be copied none but a parent in `duppage` (`CowInv`), and
  when the child has its exception stack (`StackInv`).
* **`CowMemoryProofs`**: `CopiesAreInvisible` and the refinement `MemoryRefinement` of
  `PrivateMemory`. `MInv`, on top of the invariant of `CowForkProofs`, follows the places
  that show one physical page (`Same`, `Content`): a call takes some places from the pages
  they showed and keeps all the others together (`Kept`). A page is shown at one address,
  but for `PFTEMP` (`AddressInv`); `pgfault` has at `PFTEMP` what the faulting page holds
  (`HandlerInv`); a child has every page `fork` has come past, the same one as its parent,
  but for the stack (`CopyInv`). Every step is then a stutter of `PrivateMemory`, except
  the start of a child, the end of an environment, and the store of a program.
* **`PipeProofs`**: for `LibSpec`, `BytesArriveInOrder` from `PInv` and
  `ClosedIsNeverWrong` from `PInv /\ CInv`. `PInv` is as much about `fork`, `dup` and
  `close` as about positions: one environment writes, at most one other reads, and a
  test of the positions stays true until its own end acts on it. `CInv` says that whoever
  has a descriptor has the ring (`Covered`), that the counts an asker has read were
  true as long as `env_runs` has not changed, and that equal counts mean the other end
  is gone, by counting mappings (`FiniteSetTheorems`).
* **`FileServerProofs`**: `DescriptorsNameTheirFiles` and the refinement
  `ServerImplementsOpenFiles`. `FInv` relates the table, the pages and the descriptors
  with the place of every client and of the server in its request: an entry is reused
  only when no descriptor refers to it, so an id that is presented either is the
  entry's present one or is refused. A transfer of the server is the transfer under way
  of `OpenFiles`, whose description lasts, or is dropped, with the last descriptor.

* **`LoopProofs`**, the search: `FunctionIsRight`, for every address and every table whose
  files and functions are sorted (`SortedAssumption`) and do not start one byte after
  another (`SpacedAssumption`). `StabInv` says what the loop of
  `stab_binsearch` knows in the middle of its region: the stabs after `r` are too late, the
  one at `region_left` is early enough or nothing of the type comes before `l`, and the
  stabs of other types in between say nothing.
* **`LoopProofs`**, spawn: `ChildIsComplete`, for every program that satisfies
  `LinkerAssumption`, every argument list, every page size that is a multiple of 4
  (`PageAssumption`), and whichever calls fail. `SpawnInv` says which pages are in place
  when the loop is at offset `i` of a segment (`InPlace`, `Filled`), that the page at
  `UTEMP` is the next one of the image (`LoopInv`), and that the stack page holds `argc`,
  `argv` and the strings where the child looks for them (`StackHas`).

  Two arguments here are inductions over data: the largest stab before an address, and the
  sum of the lengths of the arguments. The first takes a least counterexample
  (`Least`, from the well-foundedness of the natural numbers); the second also has to
  show that the recursive function `Lengths` exists (`UptoExists`, `LengthsIs`).

Only model-checked, and why:

* liveness (`LockMoves`, `ZombieReaped`, `RoundRobin`, `ForkReturns`, `EofIsSeen`,
  `RequestAnswered`, `PipelineFinishes`) and `StuckOnlyInMonitor`, which speak of fairness
  or `ENABLED`;
* everything about `FileSys` (`BitmapExact`, `DiskSafe`, `FlushReachesDisk`,
  `ImplementsFiles`): a request is one step that folds over the blocks of a file, so each
  of its loops would need an induction of its own over all intermediate states;
* `BootSound`: most of it says that the kernel's own self-tests, scripts of some sixty
  calls, come out as they do, which is a computation rather than an argument.

## What is not modelled, and why

* `boot/main.c`, `boot.S`, `entry.S`, `mpentry.S`: machine set-up before any state the
  modules speak of exists.
* `kern/mpconfig.c`, `picirq.c`, `kclock.c`, the monitor, `trapentry.S`, and the device
  protocols in `fs/ide.c`, `kern/lapic.c` and `kern/console.c`: registers of devices.
  Breakpoints, which enter the monitor, are left out of `KernelEnv` with it.
* `load_icode` (the same job is done by `spawn`, which is modelled), `user_mem_check`
  (it only reads, and its verdict is part of what a call may return).
* `lib/string.c`, `printfmt.c`, `printf.c`, `args.c`: sequential code without state,
  within reach of unit tests. The kernel's and the shell's uses of it are abstracted.
* `fs/fsformat.c` (a host tool that runs once, but for the disk it leaves), the dead code
  `fork_v0`, the programs in `user/` other than the shell, which are clients and shape
  `LibNext`, and the course examples outside the JOS directory.
* Subdirectories: nothing under `fs/` creates one. The numbers inside an indirect block
  after a crash: `file_set_size` does not flush the indirect block, so `DiskSafe` is
  stated for `f_direct` and `f_indirect` only, which is all the code orders.
* Several CPUs in `Pipe`: the `env_runs` check of `_pipeisclosed` presupposes one, for it
  does not notice what other CPUs do meanwhile. Positions of the ring beyond 2^31.
* In `Shell`, comment lines, options and the end of the input; in `Spawn`, `spawnl`.

The modules cover about a third of all lines of C and assembly in the repository;
most of the rest is device code, strings, test programs and the course examples.
