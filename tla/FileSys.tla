------------------------------ MODULE FileSys -------------------------------
(***************************************************************************)
(* The file system of fs/fs.c on the block cache of fs/bc.c: the free-block *)
(* bitmap, files with direct and indirect blocks, the cached copies of the *)
(* disk blocks, and the writes that bring them to the disk one at a time.  *)
(* A crash may stop the server between any two of those writes; what it    *)
(* leaves is the value of disk.                                            *)
(*                                                                         *)
(* A block holds BLKSIZE words of a file, or NINDIRECT block numbers, or   *)
(* BLKFILES Files of the root directory.  Block 1 holds the File of the    *)
(* root directory, block 2 the set of free blocks.                         *)
(* All files are in the root directory: nothing in fs/ makes another one.  *)
(*                                                                         *)
(* The functions of the source are operators from server states to server  *)
(* states; those that also return something give a record [s, r].          *)
(***************************************************************************)
EXTENDS Integers, Sequences, SequencesExt

CONSTANTS NBLOCKS,     \* s_nblocks
          BLKSIZE, NDIRECT, NINDIRECT, BLKFILES,
          Names, NoName,
          Old,         \* the file on the disk image
          Values,      \* words clients write
          Counts,      \* lengths of their writes
          MaxSize,     \* bound on the positions and sizes they ask for
          MaxRequests  \* bound on the requests served

ASSUME DiskAssumption ==
  /\ NBLOCKS \in Nat /\ NBLOCKS > 3
  /\ {BLKSIZE, NDIRECT, NINDIRECT, BLKFILES} \subseteq Nat \ {0}
  /\ NoName \notin Names /\ Old \in Names
  /\ Values \subseteq Nat
  /\ Counts \subseteq Nat \ {0}
  /\ MaxSize \in Nat /\ MaxRequests \in Nat

Blocks == 1 .. NBLOCKS - 1
Words == (NDIRECT + NINDIRECT) * BLKSIZE    \* MAXFILESIZE

VARIABLES
  disk,     \* the blocks on the disk
  fs,       \* the server: cache, dirty, out, panic
  call,     \* the request served last, and the words it read
  requests  \* the number of requests so far

vars == <<disk, fs, call, requests>>

(* cache: the mapped blocks; dirty: those with PTE_D; out: the ide_writes  *)
(* still to come of the call that is being served; panic: why it stopped.  *)

NewFile ==
  [f_name |-> NoName, f_size |-> 0, f_direct |-> [i \in 0 .. NDIRECT - 1 |-> 0], f_indirect |-> 0]
NewWords == [i \in 0 .. BLKSIZE - 1 |-> 0]
NewPointers == [i \in 0 .. NINDIRECT - 1 |-> 0]
NewFiles == [j \in 0 .. BLKFILES - 1 |-> NewFile]

Up(s) == s.panic = "no"
Panic(s, why) == [s EXCEPT !.panic = IF @ = "no" THEN why ELSE @]
-----------------------------------------------------------------------------
(* The block cache.                                                        *)

Block(s, b) == IF b \in DOMAIN s.cache THEN s.cache[b] ELSE disk[b]

(* fs_init has mapped the bitmap, and nothing unmaps it.                   *)
Free(s) == s.cache[2]

(* A first access to a block reads it from the disk.                       *)
bc_pgfault(s, b) ==
  [s EXCEPT !.cache = @ @@ (b :> disk[b]),
            !.panic = IF b \in Free(s) THEN "reading free block" ELSE @]

Touch(s, b) == IF Up(s) /\ b \notin DOMAIN s.cache THEN bc_pgfault(s, b) ELSE s

(* A store to a block that is mapped, and to one that may not be.          *)
Put(s, b, content) ==
  IF Up(s) THEN [s EXCEPT !.cache[b] = content, !.dirty = @ \cup {b}] ELSE s
Store(s, b, content) == Put(Touch(s, b), b, content)

flush_block(s, b) ==
  IF Up(s) /\ b \in s.dirty
  THEN [s EXCEPT !.out = Append(@, <<b, s.cache[b]>>), !.dirty = @ \ {b}]
  ELSE s

(* Every access goes through diskaddr.                                     *)
diskaddr(s, b) == IF b \in Blocks THEN Touch(s, b) ELSE Panic(s, "bad block number")

(* memset(diskaddr(b), 0, BLKSIZE)                                         *)
Clear(s, b, zero) == Put(diskaddr(s, b), b, zero)
-----------------------------------------------------------------------------
(* The bitmap.                                                             *)

free_block(s, b) ==
  IF b = 0 THEN Panic(s, "attempt to free zero block") ELSE Put(s, 2, Free(s) \cup {b})

(* (uint32_t) -E_NO_DISK: not negative, and past the end of any disk.      *)
NoDisk == NBLOCKS

(* A variant that does not write the bitmap to the disk.                   *)
alloc_block_unflushed(s) ==
  IF Free(s) = {} THEN [s |-> s, r |-> NoDisk]
  ELSE [s |-> Put(s, 2, Free(s) \ {Min(Free(s))}), r |-> Min(Free(s))]

alloc_block(s) ==
  IF Free(s) = {} THEN [s |-> s, r |-> NoDisk]
  ELSE [s |-> flush_block(Put(s, 2, Free(s) \ {Min(Free(s))}), 2), r |-> Min(Free(s))]
-----------------------------------------------------------------------------
(* Files.  A struct File * is the block it is in and its place there.      *)

Root == <<1, 1>>
FileAt(s, f) == Block(s, f[1])[f[2]]
SetFile(s, f, file) == Store(s, f[1], [Block(s, f[1]) EXCEPT ![f[2]] = file])

(* The block number at ppdiskbno, for the filebno'th block of f.           *)
Pointer(s, f, n) ==
  IF n < NDIRECT THEN FileAt(s, f).f_direct[n]
  ELSE Block(s, FileAt(s, f).f_indirect)[n - NDIRECT]
SetNumber(s, b, i, number) == Store(s, b, [Block(s, b) EXCEPT ![i] = number])
SetPointer(s, f, n, b) ==
  IF n < NDIRECT THEN SetFile(s, f, [FileAt(s, f) EXCEPT !.f_direct[n] = b])
  ELSE SetNumber(s, FileAt(s, f).f_indirect, n - NDIRECT, b)

(* a is what alloc_block returned.                                         *)
SetIndirect(a, f) ==
  Clear(SetFile(a.s, f, [FileAt(a.s, f) EXCEPT !.f_indirect = a.r]), a.r, NewPointers)

file_block_walk(s, f, n, alloc) ==
  IF n >= NDIRECT + NINDIRECT THEN [s |-> s, r |-> "E_INVAL"]
  ELSE IF n < NDIRECT THEN [s |-> s, r |-> "ok"]
  ELSE IF FileAt(s, f).f_indirect # 0 THEN [s |-> Touch(s, FileAt(s, f).f_indirect), r |-> "ok"]
  ELSE IF alloc THEN [s |-> SetIndirect(alloc_block(s), f), r |-> "ok"]
  ELSE [s |-> s, r |-> "E_NOT_FOUND"]

Failed(w) == w.r # "ok" \/ ~ Up(w.s)

(* A variant that hands out the block of a file as it is.                  *)
GetNew_uncleared(a, f, n, zero) ==
  IF f = Root THEN Clear(SetPointer(a.s, f, n, a.r), a.r, zero)
  ELSE diskaddr(SetPointer(a.s, f, n, a.r), a.r)

(* The rest of file_get_block: a is what alloc_block returned, w what      *)
(* file_block_walk did.                                                    *)
GetNew(a, f, n, zero) == Clear(SetPointer(a.s, f, n, a.r), a.r, zero)

GetWalked(w, f, n, zero) ==
  IF Failed(w) THEN [s |-> w.s, r |-> "E_INVAL"]
  ELSE IF Pointer(w.s, f, n) # 0 THEN w
  ELSE [s |-> GetNew(alloc_block(w.s), f, n, zero), r |-> "ok"]

(* zero is what a cleared block looks like: words, or empty Files.         *)
file_get_block(s, f, n, zero) == GetWalked(file_block_walk(s, f, n, TRUE), f, n, zero)
-----------------------------------------------------------------------------
(* The root directory.                                                     *)

NBlocks(size) == (size + BLKSIZE - 1) \div BLKSIZE

(* A loop over the numbers from m to k - 1.                                *)
Loop(Body(_, _), s, m, k) == FoldLeft(Body, s, [i \in 1 .. k - m |-> m + i - 1])

Slots(s) ==
  {Pointer(s, Root, n) : n \in 0 .. NBlocks(FileAt(s, Root).f_size) - 1} \X (0 .. BLKFILES - 1)
Named(s, name) == {f \in Slots(s) : FileAt(s, f).f_name = name}

(* g is what file_get_block returned for the n'th block of the directory:  *)
(* the first File in it with that name.                                    *)
LookIn(g, n, name) ==
  LET blk == Pointer(g.s, Root, n)
      hits == {j \in 0 .. BLKFILES - 1 : FileAt(g.s, <<blk, j>>).f_name = name}
  IN  IF Failed(g) THEN [s |-> g.s, r |-> "E_INVAL", f |-> Root]
      ELSE IF hits = {} THEN [s |-> Touch(g.s, blk), r |-> "E_NOT_FOUND", f |-> Root]
      ELSE [s |-> Touch(g.s, blk), r |-> "ok", f |-> <<blk, Min(hits)>>]

(* The directory block by block, up to the first File with that name.      *)
dir_lookup(s, name) ==
  Loop(LAMBDA d, n : IF d.r # "E_NOT_FOUND" THEN d
                     ELSE LookIn(file_get_block(d.s, Root, n, NewFiles), n, name),
       [s |-> s, r |-> "E_NOT_FOUND", f |-> Root], 0, NBlocks(FileAt(s, Root).f_size))

FlushWalked(w, f, n) ==
  IF w.r # "ok" \/ Pointer(w.s, f, n) = 0 THEN w.s ELSE flush_block(w.s, Pointer(w.s, f, n))
FlushData(s, f) ==
  Loop(LAMBDA t, n : FlushWalked(file_block_walk(t, f, n, FALSE), f, n),
       s, 0, NBlocks(FileAt(s, f).f_size))

(* A variant that forgets the indirect block.                              *)
file_flush_direct(s, f) == flush_block(FlushData(s, f), f[1])

file_flush(s, f) ==
  IF FileAt(s, f).f_indirect = 0 THEN flush_block(FlushData(s, f), f[1])
  ELSE flush_block(flush_block(FlushData(s, f), f[1]), FileAt(s, f).f_indirect)

(* g is what file_get_block returned for the directory's n'th block.       *)
FirstOf(g, n) == [s |-> g.s, r |-> g.r, f |-> IF Failed(g) THEN Root ELSE <<Pointer(g.s, Root, n), 0>>]
Grow(s, n) ==
  FirstOf(file_get_block(SetFile(s, Root, [FileAt(s, Root) EXCEPT !.f_size = @ + BLKSIZE]),
                         Root, n, NewFiles), n)

(* A File in use nowhere, the first of a new block if there is none; d is  *)
(* what the search of the directory for one returned.                      *)
AllocFile(d) ==
  IF d.r # "E_NOT_FOUND" THEN d ELSE Grow(d.s, NBlocks(FileAt(d.s, Root).f_size))
dir_alloc_file(s) == AllocFile(dir_lookup(s, NoName))

(* a is what dir_alloc_file returned.                                      *)
SetName(a, name) ==
  IF Failed(a) THEN a.s
  ELSE file_flush(SetFile(a.s, a.f, [FileAt(a.s, a.f) EXCEPT !.f_name = name]), Root)
(* d is what the search for the name returned.                             *)
CreateIn(d, name) ==
  IF d.r # "E_NOT_FOUND" THEN d.s ELSE SetName(dir_alloc_file(d.s), name)

file_create(s, name) == CreateIn(dir_lookup(s, name), name)
-----------------------------------------------------------------------------
(* Sizes and contents.                                                     *)

(* w is what file_block_walk returned.                                     *)
FreeWalked(w, f, n) ==
  IF Failed(w) \/ Pointer(w.s, f, n) = 0 THEN w.s
  ELSE SetPointer(free_block(w.s, Pointer(w.s, f, n)), f, n, 0)

file_free_block(s, f, n) == FreeWalked(file_block_walk(s, f, n, FALSE), f, n)

(* A variant that forgets to free the indirect block.                      *)
DropIndirect_leaking(s, f) == SetFile(s, f, [FileAt(s, f) EXCEPT !.f_indirect = 0])

DropIndirect(s, f) ==
  SetFile(free_block(s, FileAt(s, f).f_indirect), f, [FileAt(s, f) EXCEPT !.f_indirect = 0])

FreeBlocks(s, f, new) ==
  Loop(LAMBDA t, n : file_free_block(t, f, n), s, new, NBlocks(FileAt(s, f).f_size))

TruncateIndirect(s, f, new) ==
  IF new <= NDIRECT /\ FileAt(s, f).f_indirect # 0 THEN DropIndirect(s, f) ELSE s

file_truncate_blocks(s, f, newsize) ==
  TruncateIndirect(FreeBlocks(s, f, NBlocks(newsize)), f, NBlocks(newsize))

SetSizeField(s, f, newsize) ==
  flush_block(SetFile(s, f, [FileAt(s, f) EXCEPT !.f_size = newsize]), f[1])

file_set_size(s, f, newsize) ==
  SetSizeField(IF FileAt(s, f).f_size > newsize THEN file_truncate_blocks(s, f, newsize) ELSE s,
               f, newsize)

(* One word at a time: the words of a block find it allocated.  g is what  *)
(* file_get_block returned; an error ends the read, with nothing.          *)
ReadGot(g, f, p, buf) ==
  IF Failed(g) THEN [s |-> g.s, r |-> g.r, buf |-> <<>>]
  ELSE LET t == Touch(g.s, Pointer(g.s, f, p \div BLKSIZE))
       IN  [s |-> t, r |-> "ok",
            buf |-> Append(buf, Block(t, Pointer(t, f, p \div BLKSIZE))[p % BLKSIZE])]

file_read(s, f, count, offset) ==
  Loop(LAMBDA t, p : IF Failed(t) THEN t
                     ELSE ReadGot(file_get_block(t.s, f, p \div BLKSIZE, NewWords), f, p, t.buf),
       [s |-> s, r |-> "ok", buf |-> <<>>],
       offset, Min({offset + count, FileAt(s, f).f_size}))

WriteGot(g, f, p, v) ==
  IF Failed(g) THEN g.s
  ELSE SetNumber(g.s, Pointer(g.s, f, p \div BLKSIZE), p % BLKSIZE, v)
WriteWord(s, f, p, v) ==
  WriteGot(file_get_block(s, f, p \div BLKSIZE, NewWords), f, p, v)

file_write(s, f, v, count, offset) ==
  Loop(LAMBDA t, p : WriteWord(t, f, p, v),
       IF offset + count > FileAt(s, f).f_size THEN file_set_size(s, f, offset + count) ELSE s,
       offset, offset + count)

fs_sync(s) == Loop(flush_block, s, 1, NBLOCKS)
-----------------------------------------------------------------------------
(* A new disk, or one with one file of one block.  fs_init has read the    *)
(* super block and the bitmap.                                             *)
EmptyDisk ==
  [b \in Blocks |-> CASE b = 1 -> <<NewFile>> [] b = 2 -> 3 .. NBLOCKS - 1 [] OTHER -> NewWords]
DiskWithFile(v) ==
  [EmptyDisk EXCEPT ![1][1] = [NewFile EXCEPT !.f_size = BLKSIZE, !.f_direct[0] = 3],
                    ![2] = 5 .. NBLOCKS - 1,
                    ![3] = [NewFiles EXCEPT ![0] = [NewFile EXCEPT !.f_name = Old, !.f_size = BLKSIZE, !.f_direct[0] = 4]],
                    ![4] = [i \in 0 .. BLKSIZE - 1 |-> v]]

(* A request about the file n, and what a read returned.                   *)
Call(op, n, v, count, offset, buf) ==
  [op |-> op, name |-> n, value |-> v, count |-> count, offset |-> offset, buf |-> buf]
NoCall == Call("none", NoName, 0, 0, 0, <<>>)

Init ==
  /\ disk \in {EmptyDisk} \cup {DiskWithFile(v) : v \in Values}
  /\ fs = [cache |-> [b \in {1, 2} |-> disk[b]], dirty |-> {}, out |-> <<>>, panic |-> "no"]
  /\ call = NoCall
  /\ requests = 0

(* The server has answered, and waits for the next request.                *)
Idle == Up(fs) /\ fs.out = <<>>
Opened == {f \in Slots(fs) : FileAt(fs, f).f_name # NoName}

(* The request c, which leaves the server in state s.                      *)
Serve(c, s) ==
  /\ Idle /\ requests < MaxRequests
  /\ fs' = s
  /\ call' = c
  /\ requests' = requests + 1
  /\ UNCHANGED disk

NameOf(f) == FileAt(fs, f).f_name

Create(n) == Serve(Call("create", n, 0, 0, 0, <<>>), file_create(fs, n))
SetSize(f, size) == Serve(Call("set_size", NameOf(f), 0, 0, size, <<>>), file_set_size(fs, f, size))
Read(f, count, offset) ==
  \E g \in {file_read(fs, f, count, offset)} :
    Serve(Call("read", NameOf(f), 0, count, offset, g.buf), g.s)
Write(f, v, count, offset) ==
  Serve(Call("write", NameOf(f), v, count, offset, <<>>), file_write(fs, f, v, count, offset))
Flush(f) == Serve(Call("flush", NameOf(f), 0, 0, 0, <<>>), file_flush(fs, f))
Sync == Serve(Call("sync", NoName, 0, 0, 0, <<>>), fs_sync(fs))

(* The next of the writes flush_block has asked for.  A panic comes after  *)
(* those that were asked for before it.                                    *)
ide_write ==
  /\ fs.out # <<>>
  /\ disk' = [disk EXCEPT ![Head(fs.out)[1]] = Head(fs.out)[2]]
  /\ fs' = [fs EXCEPT !.out = Tail(@)]
  /\ UNCHANGED <<call, requests>>

Next ==
  \/ ide_write
  \/ Sync
  \/ \E name \in Names : Create(name)
  \/ \E f \in Opened :
       \/ Flush(f)
       \/ Read(f, MaxSize, 0)
       \/ \E n \in 0 .. MaxSize : SetSize(f, n)
       \/ \E v \in Values, count \in Counts : \E offset \in 0 .. MaxSize - count : Write(f, v, count, offset)

Spec == Init /\ [][Next]_vars
-----------------------------------------------------------------------------
IsFile(c) ==
  /\ c.f_name \in Names \cup {NoName}
  /\ c.f_size \in 0 .. MaxSize + BLKSIZE
  /\ \A n \in 0 .. NDIRECT - 1 : c.f_direct[n] \in 0 .. NBLOCKS
  /\ c.f_indirect \in 0 .. NBLOCKS

(* The server stops for no other reason than a full disk: it neither frees *)
(* block 0 nor reads a free block (fs/fs.c:47, fs/bc.c:73).                *)
TypeOK ==
  /\ fs.panic \in {"no", "bad block number"}
  /\ DOMAIN disk = Blocks
  /\ DOMAIN fs.cache \subseteq Blocks /\ fs.dirty \subseteq DOMAIN fs.cache
  /\ \A s \in {fs, [fs EXCEPT !.cache = disk]} :
       IsFile(FileAt(s, Root)) /\ Free(s) \subseteq Blocks
  /\ Up(fs) => \A f \in Slots(fs) : IsFile(FileAt(fs, f))
  /\ \A i \in 1 .. Len(fs.out) : fs.out[i][1] \in Blocks
  /\ call.name \in Names \cup {NoName} /\ {call.count, call.offset} \subseteq 0 .. MaxSize
  /\ requests \in 0 .. MaxRequests

(* The blocks f points to, with where it does.                             *)
Direct(s, f) ==
  {<<f, n, FileAt(s, f).f_direct[n]>> : n \in 0 .. NDIRECT - 1} \cup {<<f, -1, FileAt(s, f).f_indirect>>}
Indirect(s, f) ==
  IF FileAt(s, f).f_indirect = 0 THEN {}
  ELSE {<<f, NDIRECT + i, Block(s, FileAt(s, f).f_indirect)[i]>> : i \in 0 .. NINDIRECT - 1}
Taken(ptrs) == {p \in ptrs : p[3] # 0}
Distinct(ptrs) == \A p, q \in ptrs : p[3] = q[3] => p = q

(* Every block is in use exactly once: it is reserved, or one pointer of   *)
(* one file leads to it, or it is free.  Nothing leaks, however files      *)
(* grow, shrink and have holes (fs/fs.c:43-78, 419-459).                   *)
BitmapExact ==
  fs.panic # "bad block number" =>
    LET ptrs == Taken(UNION {Direct(fs, f) \cup Indirect(fs, f) : f \in Slots(fs) \cup {Root}})
    IN  /\ Distinct(ptrs)
        /\ Free(fs) = Blocks \ ({1, 2} \cup {p[3] : p \in ptrs})

OnDisk == [fs EXCEPT !.cache = disk]

(* A request that needs a block when none is free ends in an error the     *)
(* client is told of, as fs/fs.c:176 says; the server goes on.             *)
DiskFullIsAnError == fs.panic # "bad block number"

(* Wherever a crash stops the server, no File on the disk points, by       *)
(* f_direct or f_indirect, to a block the bitmap on the disk calls free,   *)
(* and no two of these pointers lead to the same block (fs/fs.c:70-72,     *)
(* 467): a block is taken on the disk before a pointer to it is written,   *)
(* and given back only after.  It is not so for the numbers in indirect    *)
(* blocks, which file_set_size does not flush.                             *)
DiskSafe ==
  LET ptrs == Taken(UNION {Direct(OnDisk, f) : f \in Slots(OnDisk) \cup {Root}})
  IN  Distinct(ptrs) /\ \A p \in ptrs : p[3] \in Blocks \ Free(OnDisk)

(* The words of f: its blocks one after the other, a hole being 0.         *)
NthBlock(s, f, n) ==
  LET hole == n >= NDIRECT /\ FileAt(s, f).f_indirect \notin Blocks
  IN  IF hole \/ Pointer(s, f, n) \notin Blocks THEN NewWords ELSE Block(s, Pointer(s, f, n))
Contents(s, f) ==
  LET nth == [n \in 0 .. NDIRECT + NINDIRECT - 1 |-> NthBlock(s, f, n)]
  IN  SubSeq([p \in 1 .. Words |-> nth[(p - 1) \div BLKSIZE][(p - 1) % BLKSIZE]], 1, Words)

(* The files the last call was to bring to the disk.                       *)
Flushed == {f \in Opened : call.op = "sync" \/ (call.op = "flush" /\ call.name = NameOf(f))}

(* When the server answers a flush or a sync, the disk has the file as the *)
(* clients see it: size, pointers and every word (fs/fs.c:472-491).        *)
FlushReachesDisk ==
  Idle => \A f \in Flushed :
            /\ FileAt(OnDisk, f) = FileAt(fs, f)
            /\ Contents(OnDisk, f) = Contents(fs, f)

SizeOf(n) == IF Named(fs, n) = {} THEN -1 ELSE FileAt(fs, CHOOSE f \in Named(fs, n) : TRUE).f_size
WordsOf(n) ==
  IF Named(fs, n) = {} THEN [p \in 1 .. Words |-> 0] ELSE Contents(fs, CHOOSE f \in Named(fs, n) : TRUE)
F == INSTANCE Files WITH size <- [n \in Names |-> SizeOf(n)], word <- [n \in Names |-> WordsOf(n)],
                         up <- Up(fs)

(* Through bitmap, pointers and cache every file stays a file of its own:  *)
(* a write changes the words it was asked to and no other, a read gets     *)
(* what was last written there, a fresh block is 0.                        *)
ImplementsFiles == F!Spec
=============================================================================
