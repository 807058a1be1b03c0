-------------------------------- MODULE Spawn --------------------------------
(***************************************************************************)
(* spawn (lib/spawn.c): a child environment is built from a program file,  *)
(* one system call a step, each of which may fail, and started.            *)
(*                                                                         *)
(* Memory is made of cells, PgBytes to a page.  A cell of the child holds  *)
(* 0, the byte of the file at an offset, a character of an argument, or a  *)
(* part of a word.  The child's pages are named by their first address     *)
(* divided by PgBytes; its stack page is StackPage.                        *)
(***************************************************************************)
EXTENDS Integers, Sequences, FiniteSets

CONSTANTS Programs,   \* what the program headers say: sequences of segments
          FileBytes,  \* length of the program file
          ArgLists,   \* sequences of strlen's
          PgBytes,
          StackPage,
          SharedPages,  \* pages the parent maps with PTE_SHARE
          MaxSpawns   \* calls of spawn

(* The linker: offset and address agree within a page, a file part is no   *)
(* larger than its segment, and no two segments share a page.              *)
PagesOf(g) == g.va \div PgBytes .. (g.va + g.memsz - 1) \div PgBytes

ASSUME LinkerAssumption ==
  \A prog \in Programs :
    /\ \A i \in DOMAIN prog :
         /\ prog[i].off % PgBytes = prog[i].va % PgBytes
         /\ prog[i].off >= prog[i].va % PgBytes
         /\ prog[i].filesz <= prog[i].memsz
         /\ PagesOf(prog[i]) \cap (SharedPages \cup {StackPage}) = {}
    /\ \A i, j \in DOMAIN prog : i # j => PagesOf(prog[i]) \cap PagesOf(prog[j]) = {}

ASSUME ProgramAssumption ==
  /\ Programs \subseteq Seq([load : BOOLEAN, va : Nat, memsz : Nat, filesz : Nat, off : Nat, w : BOOLEAN])
  /\ ArgLists \subseteq Seq(Nat) /\ FileBytes \in Nat
ASSUME PageAssumption ==
  /\ PgBytes \in Nat /\ PgBytes > 0 /\ PgBytes % 4 = 0
  /\ StackPage \in Nat /\ SharedPages \subseteq Nat
  /\ StackPage \notin SharedPages   \* PTE_SHARE is for descriptors

VARIABLES sp,       \* the call of spawn
          elf,      \* the program headers it has read
          childMem, \* the child's pages
          utemp,    \* the page at UTEMP, or NoPage
          kid,      \* the child: "none", "built", "runs" or "destroyed"
          unshared  \* shared pages whose mapping failed

spawnVars == <<sp, elf, childMem, utemp, kid, unshared>>

CellOffsets == 0 .. PgBytes - 1
Zero == <<"zero", 0, 0>>
FileByte(o) == <<"file", o, 0>>
Character(a, k) == <<"char", a, k>>  \* the k-th of argument a, 0 for its NUL
Word(v, part) == <<"word", v, part>>
ZeroPage == [o \in CellOffsets |-> Zero]
NoPage == <<>>
NoChildMem == [p \in {} |-> NoPage]

SpawnInit ==
  /\ sp = [at |-> "idle", calls |-> 0, fd |-> FALSE, seg |-> 1, i |-> 0, args |-> <<>>,
           esp |-> 0, left |-> {}]
  /\ elf = <<>>
  /\ childMem = NoChildMem
  /\ utemp = NoPage
  /\ kid = "none"
  /\ unshared = {}

Step(from, to) == sp.at = from /\ sp' = [sp EXCEPT !.at = to]

(* return r < 0: what is open or mapped stays so.                          *)
SpawnFails(from) == Step(from, "failed") /\ UNCHANGED <<elf, childMem, utemp, kid, unshared>>
-----------------------------------------------------------------------------
(* spawn is called, and opens the file.                                    *)
spawn_open(args) ==
  /\ sp.at \in {"idle", "failed", "started"}
  /\ sp.calls < MaxSpawns
  /\ sp' = [sp EXCEPT !.at = "header", !.calls = @ + 1, !.fd = TRUE, !.seg = 1, !.i = 0,
                      !.args = args, !.esp = 0, !.left = SharedPages]
  /\ elf' = <<>> /\ childMem' = NoChildMem /\ kid' = "none" /\ unshared' = {}
  /\ UNCHANGED utemp

(* The header: not a program, and the file is closed; or its segments.     *)
read_header ==
  \/ /\ sp.at = "header"
     /\ sp' = [sp EXCEPT !.at = "failed", !.fd = FALSE]
     /\ UNCHANGED <<elf, childMem, utemp, kid, unshared>>
  \/ /\ Step("header", "exofork")
     /\ \E prog \in Programs : elf' = prog
     /\ UNCHANGED <<childMem, utemp, kid, unshared>>

spawn_exofork ==
  \/ SpawnFails("exofork")
  \/ /\ Step("exofork", "stack_alloc")
     /\ kid' = "built"
     /\ UNCHANGED <<elf, childMem, utemp, unshared>>
-----------------------------------------------------------------------------
(* init_stack.  Offsets in the stack page.                                 *)

(* The lengths of the first strings, with their NULs.                      *)
Lengths(args) ==
  LET partial[n \in Nat] == IF n = 0 THEN 0 ELSE partial[n - 1] + args[n] + 1 IN partial
argc == Len(sp.args)
string_size == Lengths(sp.args)[argc]
string_store(a) == PgBytes - string_size + Lengths(sp.args)[a - 1]
argv_store == ((PgBytes - string_size) \div 4) * 4 - 4 * (argc + 1)

UTEMP2USTACK(o) == StackPage * PgBytes + o

(* The cells of the finished page: the words, the strings, and the rest.   *)
StackWord(w) ==
  IF w = argv_store - 8 THEN argc
  ELSE IF w = argv_store - 4 THEN UTEMP2USTACK(argv_store)
  ELSE IF w = argv_store + 4 * argc THEN 0
  ELSE UTEMP2USTACK(string_store((w - argv_store) \div 4 + 1))

ArgAt(o) == CHOOSE a \in 1 .. argc : o \in string_store(a) .. string_store(a) + sp.args[a]

StackCell(o) ==
  IF o \in argv_store - 8 .. argv_store + 4 * argc + 3
  THEN Word(StackWord(o - (o % 4)), o % 4)
  ELSE IF o >= PgBytes - string_size
  THEN LET a == ArgAt(o)
           k == o - string_store(a) + 1
       IN  Character(a, IF k > sp.args[a] THEN 0 ELSE k)
  ELSE Zero

(* Whether the words and the strings fit in the page.                      *)
StackFits == argv_store - 8 >= 0

stack_alloc ==
  \/ SpawnFails("stack_alloc")
  \/ /\ StackFits
     /\ Step("stack_alloc", "stack_map")
     /\ utemp' = [o \in CellOffsets |-> StackCell(o)]
     /\ UNCHANGED <<elf, childMem, kid, unshared>>

MapInChild(p, data, w) ==
  childMem' = [q \in DOMAIN childMem \cup {p} |->
                 IF q = p THEN [data |-> data, w |-> w] ELSE childMem[q]]

(* Mapped and unmapped here, or only unmapped on an error.                 *)
stack_map ==
  /\ sp.at = "stack_map"
  /\ utemp' = NoPage
  /\ \/ /\ MapInChild(StackPage, utemp, TRUE)
        /\ sp' = [sp EXCEPT !.at = "segments", !.esp = UTEMP2USTACK(argv_store - 8)]
     \/ /\ sp' = [sp EXCEPT !.at = "failed"]
        /\ UNCHANGED childMem
  /\ UNCHANGED <<elf, kid, unshared>>
-----------------------------------------------------------------------------
(* map_segment, page by page.                                              *)

(* The segment moved to a page boundary.                                   *)
(* A variant that leaves the file size as it was.                          *)
Aligned_short(g) ==
  LET i == g.va % PgBytes
  IN  [g EXCEPT !.va = @ - i, !.memsz = @ + i, !.off = @ - i]

Aligned(g) ==
  LET i == g.va % PgBytes
  IN  [g EXCEPT !.va = @ - i, !.memsz = @ + i, !.filesz = @ + i, !.off = @ - i]

Segment == Aligned(elf[sp.seg])
PageNow == (Segment.va + sp.i) \div PgBytes
InSegment == sp.at = "segments" /\ sp.seg <= Len(elf)
MorePages == InSegment /\ elf[sp.seg].load /\ sp.i < Segment.memsz

(* error: the child is destroyed and the file closed.                      *)
SegmentFails ==
  /\ sp' = [sp EXCEPT !.at = "failed", !.fd = FALSE]
  /\ kid' = "destroyed"
  /\ UNCHANGED <<elf, childMem, unshared>>

blank_page ==
  /\ MorePages /\ sp.i >= Segment.filesz
  /\ \/ SegmentFails /\ UNCHANGED utemp
     \/ /\ MapInChild(PageNow, ZeroPage, elf[sp.seg].w)
        /\ sp' = [sp EXCEPT !.i = @ + PgBytes]
        /\ UNCHANGED <<elf, utemp, kid, unshared>>

(* A fresh page at UTEMP.                                                  *)
segment_alloc ==
  /\ MorePages /\ sp.i < Segment.filesz
  /\ \/ SegmentFails /\ UNCHANGED utemp
     \/ /\ sp' = [sp EXCEPT !.at = "readn"]
        /\ utemp' = ZeroPage
        /\ UNCHANGED <<elf, childMem, kid, unshared>>

(* seek and readn.  Less than asked, at the end of the file, is no error;  *)
(* on an error the page at UTEMP stays.                                    *)
ReadCell(o) ==
  IF sp.i + o < Segment.filesz /\ Segment.off + sp.i + o < FileBytes
  THEN FileByte(Segment.off + sp.i + o) ELSE utemp[o]

segment_readn ==
  /\ sp.at = "readn"
  /\ \/ SegmentFails /\ UNCHANGED utemp
     \/ /\ sp' = [sp EXCEPT !.at = "segment_map"]
        /\ utemp' = [o \in CellOffsets |-> ReadCell(o)]
        /\ UNCHANGED <<elf, childMem, kid, unshared>>

(* A mapping that fails here panics.                                       *)
segment_map ==
  \/ /\ Step("segment_map", "panic")
     /\ UNCHANGED <<elf, childMem, utemp, kid, unshared>>
  \/ /\ sp.at = "segment_map"
     /\ MapInChild(PageNow, utemp, elf[sp.seg].w)
     /\ utemp' = NoPage
     /\ sp' = [sp EXCEPT !.at = "segments", !.i = @ + PgBytes]
     /\ UNCHANGED <<elf, kid, unshared>>

next_segment ==
  /\ InSegment /\ ~ MorePages
  /\ sp' = [sp EXCEPT !.seg = @ + 1, !.i = 0]
  /\ UNCHANGED <<elf, childMem, utemp, kid, unshared>>

spawn_close ==
  /\ sp.at = "segments" /\ sp.seg > Len(elf)
  /\ sp' = [sp EXCEPT !.at = "shared", !.fd = FALSE]
  /\ UNCHANGED <<elf, childMem, utemp, kid, unshared>>
-----------------------------------------------------------------------------
(* copy_shared_pages, in the order of addresses.  Errors are ignored.      *)
copy_shared_page(p) ==
  /\ sp.at = "shared" /\ p \in sp.left /\ \A q \in sp.left : p <= q
  /\ sp' = [sp EXCEPT !.left = @ \ {p}]
  /\ \/ MapInChild(p, ZeroPage, TRUE) /\ UNCHANGED unshared
     \/ unshared' = unshared \cup {p} /\ UNCHANGED childMem
  /\ UNCHANGED <<elf, utemp, kid>>

(* sys_env_set_trapframe and sys_env_set_status: the child is the caller's *)
(* own, so neither fails.                                                  *)
spawn_start ==
  /\ sp.left = {}
  /\ Step("shared", "started")
  /\ kid' = "runs"
  /\ UNCHANGED <<elf, childMem, utemp, unshared>>

SpawnNext ==
  \/ \E args \in ArgLists : spawn_open(args)
  \/ read_header \/ spawn_exofork
  \/ stack_alloc \/ stack_map
  \/ blank_page \/ segment_alloc \/ segment_readn \/ segment_map
  \/ next_segment \/ spawn_close
  \/ \E p \in SharedPages : copy_shared_page(p)
  \/ spawn_start

SpawnSpec == SpawnInit /\ [][SpawnNext]_spawnVars
-----------------------------------------------------------------------------
(* What the child finds, read back from its memory.                        *)

Loaded == {i \in DOMAIN elf : elf[i].load}
Cell(a) == childMem[a \div PgBytes].data[a % PgBytes]
WordAt(a) == Cell(a)[2]
IsWord(a) == \A b \in 0 .. 3 : Cell(a + b) = Word(WordAt(a), b)

(* The segment's part of the file, and zeros after it.                     *)
ImageByte(g, a) ==
  IF a < g.va + g.filesz /\ g.off + (a - g.va) < FileBytes
  THEN FileByte(g.off + (a - g.va)) ELSE Zero

StringAt(a, n) ==
  \A k \in 1 .. sp.args[n] + 1 :
    Cell(a + k - 1) = Character(n, IF k > sp.args[n] THEN 0 ELSE k)

(* A child that runs is complete (spawn.c:93-149).  It has the pages of    *)
(* its segments, with the bytes of the file, zeros where the file has      *)
(* none, and write permission only where the program asks for it; its      *)
(* stack holds argc, argv and every argument where umain looks for them;   *)
(* it shares every page the mapping did not fail for; and the parent has   *)
(* closed the file and unmapped UTEMP.                                     *)
StartedComplete ==
  kid = "runs" =>
    /\ DOMAIN childMem =
         {StackPage} \cup (SharedPages \ unshared) \cup UNION {PagesOf(elf[i]) : i \in Loaded}
    /\ \A i \in Loaded :
         /\ \A p \in PagesOf(elf[i]) : childMem[p].w = elf[i].w
         /\ \A a \in elf[i].va .. elf[i].va + elf[i].memsz - 1 : Cell(a) = ImageByte(elf[i], a)
    /\ sp.esp \div PgBytes = StackPage /\ sp.esp % 4 = 0
    /\ IsWord(sp.esp) /\ WordAt(sp.esp) = Len(sp.args)
    /\ IsWord(sp.esp + 4)
    /\ LET argv == WordAt(sp.esp + 4)
       IN  /\ \A n \in 1 .. Len(sp.args) :
                IsWord(argv + 4 * (n - 1)) /\ StringAt(WordAt(argv + 4 * (n - 1)), n)
           /\ Cell(argv + 4 * Len(sp.args)) = Word(0, 0)
    /\ ~ sp.fd
    /\ utemp = NoPage
=============================================================================
