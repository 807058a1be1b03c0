----------------------------- MODULE FileServer -----------------------------
(***************************************************************************)
(* The file server's loop and its table of open files (fs/serv.c), the     *)
(* client side of it (lib/file.c and the file part of lib/fd.c), and the   *)
(* IPC library between them (lib/ipc.c).                                   *)
(*                                                                         *)
(* A client writes a request in its fsipcbuf, tries to send that page      *)
(* until the server receives, and then blocks for the answer; the server   *)
(* answers by trying to send until the client receives.  Each of these     *)
(* system calls is a step of its own, and other clients may run in         *)
(* between, or be destroyed.  Writing the request goes with the send that  *)
(* succeeds: it reads nothing that anybody else could change meanwhile.    *)
(*                                                                         *)
(* An Fd page is mapped by the server and by every descriptor that was     *)
(* handed it: clients store its fd_offset without asking the server, and   *)
(* the server takes an entry of opentab for free when no descriptor refers *)
(* to it.                                                                  *)
(*                                                                         *)
(* Of a file there is its size; what blocks and words become of requests   *)
(* is the subject of FileSys.  o_mode is stored but never read.            *)
(***************************************************************************)
EXTENDS Integers, FiniteSets

CONSTANTS Clients,       \* environments
          Shell,         \* the first of them
          NoClient,      \* nobody: the environment is gone
          MAXFD,         \* descriptors of a client
          MAXOPEN,       \* entries of opentab
          NoEntry,       \* no page mapped, or none sent
          Paths,
          NoPath,
          Image,         \* the sizes of the files on the disk image, -1 for no file
          Omodes,        \* records [acc, creat, excl, trunc]
          FileIdLimit,   \* 2^31: o_fileid is a uint32_t, and returned as an int
          FilePage,      \* PGSIZE, the size of readRet.ret_buf
          WriteBuf,      \* the size of write.req_buf
          Counts,        \* lengths of reads and writes
          Offsets,       \* where programs seek to
          Sizes,         \* sizes they ask of ftruncate
          MaxFileSize,   \* bound on the sizes clients make
          MaxServed      \* bound on the requests served

ASSUME ClientAssumption ==
  Shell \in Clients /\ NoClient \notin Clients /\ IsFiniteSet(Clients)
ASSUME TableAssumption ==
  /\ MAXFD \in Nat \ {0} /\ MAXOPEN \in Nat \ {0}
  /\ FileIdLimit \in Nat \ {0} /\ FileIdLimit % MAXOPEN = 0
  /\ NoEntry \notin 0 .. MAXOPEN - 1
ASSUME FileAssumption ==
  /\ NoPath \notin Paths
  /\ {FilePage, WriteBuf} \subseteq Nat \ {0}
  /\ Counts \subseteq Nat \ {0}
  /\ Offsets \cup Sizes \cup {MaxFileSize, MaxServed} \subseteq Nat
  /\ Image \in [Paths -> Nat \cup {-1}]
  /\ Omodes \subseteq [acc : {"RDONLY", "WRONLY", "RDWR"}, creat : BOOLEAN,
                       excl : BOOLEAN, trunc : BOOLEAN]

Fds == 0 .. MAXFD - 1
Entries == 0 .. MAXOPEN - 1
FileIds == 0 .. 2 * FileIdLimit - 1

VARIABLES
  opentab,  \* opentab[e]: o_fileid and o_file
  fdpage,   \* fdpage[e]: the page at o_fd, and whether the server has mapped it
  fsize,    \* fsize[f]: f_size, -1 if there is no such file
  fds,      \* fds[c][i]: the entry whose Fd page c maps at INDEX2FD(i)
  opened,   \* opened[c][i]: the path that open() was given for it
  cpc,      \* where each client is
  call,     \* call[c]: the call it is in, as far as its return depends on it
  server,   \* the server: where it is, whom it serves, r and pg of serve()
  fsreq,    \* the request page it has mapped, the fsipcbuf of its client
  panic,    \* who has called panic(), if anybody has
  served    \* the number of requests so far

tables == <<opentab, fdpage, fsize>>
clients == <<fds, opened, cpc, call>>
fsVars == <<opentab, fdpage, fsize, fds, opened, cpc, call, server, fsreq, panic, served>>

Closed == [i \in Fds |-> NoEntry]
NoCall == [op |-> "none", fd |-> 0, to |-> 0]
NoRequest == [type |-> "none", id |-> 0, n |-> 0, path |-> NoPath, mode |-> "none"]
NotServing == [at |-> "recv", whom |-> NoClient, r |-> 0, pg |-> NoEntry]
NoFd == [mapped |-> FALSE, id |-> 0, omode |-> "RDONLY", fd_offset |-> 0]

Idle(c) == cpc[c] = "user"
IsOpen(c, i) == fds[c][i] # NoEntry
Smaller(m, n) == IF m < n THEN m ELSE n

(* pages[].pp_ref of the Fd page of entry e.                               *)
Holders(e) == {m \in Clients \X Fds : fds[m[1]][m[2]] = e}
pageref(e) == (IF fdpage[e].mapped THEN 1 ELSE 0) + Cardinality(Holders(e))

FsInit ==
  /\ opentab = [e \in Entries |-> [o_fileid |-> e, o_file |-> NoPath]]
  /\ fdpage = [e \in Entries |-> NoFd]
  /\ fsize = Image
  /\ fds = [c \in Clients |-> Closed]
  /\ opened = [c \in Clients |-> [i \in Fds |-> NoPath]]
  /\ cpc = [c \in Clients |-> IF c = Shell THEN "user" ELSE "free"]
  /\ call = [c \in Clients |-> NoCall]
  /\ server = NotServing
  /\ fsreq = NoRequest
  /\ panic = "nobody"
  /\ served = 0
-----------------------------------------------------------------------------
(* The library calls of clients.                                           *)

(* c fills fsipcbuf, and ipc_send sends it to a server that receives.      *)
(* While it does not, sys_ipc_try_send fails with -E_IPC_NOT_RECV, and c   *)
(* yields and tries again.                                                 *)
Request(c, op, i, j, req) ==
  /\ server.at = "recv" /\ served < MaxServed
  /\ served' = served + 1
  /\ server' = [server EXCEPT !.at = "serve", !.whom = c]
  /\ fsreq' = req
  /\ cpc' = [cpc EXCEPT ![c] = "sent"]
  /\ call' = [call EXCEPT ![c] = [op |-> op, fd |-> i, to |-> j]]
  /\ UNCHANGED <<tables, fds, opened, panic>>

FileId(c, i) == fdpage[fds[c][i]].id
Mode(c, i) == fdpage[fds[c][i]].omode

(* fd_alloc finds the lowest descriptor whose page is not mapped.          *)
fd_alloc(c, i) == ~ IsOpen(c, i) /\ \A j \in 0 .. i - 1 : IsOpen(c, j)

open(c, f, mode) ==
  /\ Idle(c)
  /\ \E i \in Fds :
       /\ fd_alloc(c, i)
       /\ Request(c, "open", i, i, [NoRequest EXCEPT !.type = "open", !.path = f, !.mode = mode])

read(c, i, n) ==
  /\ Idle(c) /\ IsOpen(c, i) /\ Mode(c, i) # "WRONLY"
  /\ Request(c, "read", 0, 0, [NoRequest EXCEPT !.type = "read", !.id = FileId(c, i), !.n = n])

(* devfile_write sends as much as fits.                                    *)
write(c, i, n) ==
  /\ Idle(c) /\ IsOpen(c, i) /\ Mode(c, i) # "RDONLY"
  /\ fdpage[fds[c][i]].fd_offset + Smaller(n, WriteBuf) <= MaxFileSize
  /\ Request(c, "other", 0, 0,
             [NoRequest EXCEPT !.type = "write", !.id = FileId(c, i), !.n = Smaller(n, WriteBuf)])

ftruncate(c, i, n) ==
  /\ Idle(c) /\ IsOpen(c, i) /\ Mode(c, i) # "RDONLY"
  /\ Request(c, "other", 0, 0, [NoRequest EXCEPT !.type = "set_size", !.id = FileId(c, i), !.n = n])

fstat(c, i) ==
  /\ Idle(c) /\ IsOpen(c, i)
  /\ Request(c, "other", 0, 0, [NoRequest EXCEPT !.type = "stat", !.id = FileId(c, i)])

(* seek stores in the shared page, and asks nobody.                        *)
seek(c, i, off) ==
  /\ Idle(c) /\ IsOpen(c, i)
  /\ fdpage' = [fdpage EXCEPT ![fds[c][i]].fd_offset = off]
  /\ UNCHANGED <<opentab, fsize, clients, server, fsreq, panic, served>>

(* devfile_flush, for a close of descriptor i within the call op.          *)
Flush(c, op, i, j) ==
  Request(c, op, i, j, [NoRequest EXCEPT !.type = "flush", !.id = FileId(c, i)])

close(c, i) == Idle(c) /\ IsOpen(c, i) /\ Flush(c, "close", i, i)

(* dup closes newfdnum first, and then maps the old page there, if it is   *)
(* still mapped itself.                                                    *)
Duplicate(c, i, j) ==
  /\ fds' = [fds EXCEPT ![c][j] = fds[c][i]]
  /\ opened' = [opened EXCEPT ![c][j] = opened[c][i]]

dup(c, i, j) ==
  /\ Idle(c) /\ IsOpen(c, i)
  /\ IF IsOpen(c, j)
     THEN Flush(c, "dup", j, i)
     ELSE Duplicate(c, i, j) /\ UNCHANGED <<tables, cpc, call, server, fsreq, panic, served>>

sync(c) == Idle(c) /\ Request(c, "other", 0, 0, [NoRequest EXCEPT !.type = "sync"])
-----------------------------------------------------------------------------
(* The rest of fsipc.                                                      *)

(* panic() ends in a breakpoint trap, and so in the kernel monitor, which  *)
(* never returns and keeps the kernel lock: nobody makes a system call any *)
(* more, and where the calls of the others stood is forgotten.             *)
Panic(who) ==
  /\ panic' = who
  /\ cpc' = [c \in Clients |-> "free"]
  /\ call' = [c \in Clients |-> NoCall]
  /\ server' = NotServing
  /\ fsreq' = NoRequest
  /\ served' = MaxServed
  /\ UNCHANGED <<tables, fds, opened>>

(* ipc_send gives up: the page, sent with PTE_W, is copy-on-write.  sync   *)
(* alone can meet that, after a fork: the other calls have just written to *)
(* the page.                                                               *)
sync_panic(c) == Idle(c) /\ server.at = "recv" /\ Panic("sync")

ipc_recv(c) ==
  /\ cpc[c] = "sent"
  /\ cpc' = [cpc EXCEPT ![c] = "recv"]
  /\ UNCHANGED <<tables, fds, opened, call, server, fsreq, panic, served>>

Unmapped(c, i) ==
  /\ fds' = [fds EXCEPT ![c][i] = NoEntry]
  /\ opened' = [opened EXCEPT ![c][i] = NoPath]

(* fsipc returns.  Most calls then return too, and touch nothing that is   *)
(* shared; the others go on.                                               *)
AfterAnswer(c, r) ==
  IF call[c].op \in {"close", "dup", "exit"} \/ (call[c].op = "read" /\ r > FilePage)
  THEN "done" ELSE "user"

(* Whatever devfile_flush says, fd_close unmaps the Fd page.               *)
fd_close(c) ==
  /\ cpc[c] = "done" /\ call[c].op \in {"close", "dup", "exit"}
  /\ Unmapped(c, call[c].fd)
  /\ cpc' = [cpc EXCEPT ![c] = IF call[c].op = "close" THEN "user" ELSE call[c].op]
  /\ call' = [call EXCEPT ![c] = IF @.op = "dup" THEN @ ELSE NoCall]
  /\ UNCHANGED <<tables, server, fsreq, panic, served>>

(* devfile_read asserts that the answer fits in a page.                    *)
read_panic(c) == cpc[c] = "done" /\ call[c].op = "read" /\ Panic("read")

dup_map(c) ==
  /\ cpc[c] = "dup"
  /\ Duplicate(c, call[c].to, call[c].fd)
  /\ cpc' = [cpc EXCEPT ![c] = "user"]
  /\ call' = [call EXCEPT ![c] = NoCall]
  /\ UNCHANGED <<tables, server, fsreq, panic, served>>
-----------------------------------------------------------------------------
(* Environments.                                                           *)

(* Between the request and the answer the server knows c by an envid that  *)
(* names nobody once c is gone, whoever has its slot then.                 *)
Forget(c) == [server EXCEPT !.whom = IF @ = c THEN NoClient ELSE @]

env_destroy(c) ==
  /\ fds' = [fds EXCEPT ![c] = Closed]
  /\ opened' = [opened EXCEPT ![c] = [i \in Fds |-> NoPath]]
  /\ cpc' = [cpc EXCEPT ![c] = "free"]
  /\ call' = [call EXCEPT ![c] = NoCall]
  /\ server' = Forget(c)
  /\ UNCHANGED <<tables, fsreq, panic, served>>

(* exit: close_all flushes and unmaps the open descriptors one by one, and *)
(* then the environment ends.                                              *)
exit(c) ==
  /\ cpc[c] \in {"user", "exit"}
  /\ \/ \E i \in Fds : /\ IsOpen(c, i) /\ \A j \in 0 .. i - 1 : ~ IsOpen(c, j)
                       /\ Flush(c, "exit", i, i)
     \/ (\A i \in Fds : ~ IsOpen(c, i)) /\ env_destroy(c)

(* A fault, or sys_env_destroy by its parent, wherever c is.  A child that *)
(* was never started has lost its parent, and nobody else may destroy it.  *)
Kill(c) == cpc[c] \notin {"free", "orphan"} /\ env_destroy(c)

(* fork and spawn map every Fd page, being PTE_SHARE, in the child too.    *)
(* It may be one step: the parent holds each of them all the time, and the *)
(* server only asks whether somebody does.                                 *)
fork(c, d) ==
  /\ Idle(c) /\ cpc[d] = "free"
  /\ fds' = [fds EXCEPT ![d] = fds[c]]
  /\ opened' = [opened EXCEPT ![d] = opened[c]]
  /\ cpc' = [cpc EXCEPT ![d] = "user"]
  /\ UNCHANGED <<tables, call, server, fsreq, panic, served>>

(* Unless the parent is destroyed in the middle of it, with the first n    *)
(* pages mapped in a child that is still ENV_NOT_RUNNABLE.                 *)
fork_killed(c, d, n) ==
  /\ Idle(c) /\ cpc[d] = "free"
  /\ fds' = [fds EXCEPT ![d] = [i \in Fds |-> IF i < n THEN fds[c][i] ELSE NoEntry],
                        ![c] = Closed]
  /\ opened' = [opened EXCEPT ![d] = [i \in Fds |-> IF i < n THEN opened[c][i] ELSE NoPath],
                              ![c] = [i \in Fds |-> NoPath]]
  /\ cpc' = [cpc EXCEPT ![d] = "orphan", ![c] = "free"]
  /\ UNCHANGED <<tables, call, server, fsreq, panic, served>>
-----------------------------------------------------------------------------
(* The server.                                                             *)

Serving(type) == server.at = "serve" /\ fsreq.type = type

(* serve() is about to send its result, and the page of entry pg.  Of the  *)
(* result there is the number of bytes moved: an error has moved none, and *)
(* an open that fails is one that sends no page.                           *)
(* Nobody reads the request after that.                                    *)
Answer(pg) ==
  /\ server' = [server EXCEPT !.at = "reply", !.pg = pg]
  /\ fsreq' = [NoRequest EXCEPT !.path = fsreq.path]

(* A variant that takes an entry one descriptor still refers to.           *)
Available_early(e) == pageref(e) <= 2 /\ \A d \in 0 .. e - 1 : pageref(d) > 2

(* The first entry no client refers to.                                    *)
Available(e) == pageref(e) <= 1 /\ \A d \in 0 .. e - 1 : pageref(d) > 1

NextFileId(e) == (opentab[e].o_fileid + MAXOPEN) % (2 * FileIdLimit)

(* openfile_alloc: a new id, and a cleared page.                           *)
openfile_alloc(e) ==
  /\ opentab' = [opentab EXCEPT ![e].o_fileid = NextFileId(e)]
  /\ fdpage' = [fdpage EXCEPT ![e] = [NoFd EXCEPT !.mapped = TRUE]]

(* What file_create and file_open make of the path: it opens, or not.      *)
Exists(f) == fsize[f] >= 0
Opens(f, mode) == IF mode.creat THEN ~ Exists(f) \/ ~ mode.excl ELSE Exists(f)

(* All tests passed: the file, empty if new or truncated, is in entry e.   *)
open_entry(e, f, mode) ==
  /\ opentab' = [opentab EXCEPT ![e] = [o_fileid |-> NextFileId(e), o_file |-> f]]
  /\ fdpage' = [fdpage EXCEPT ![e] = [mapped |-> TRUE, id |-> NextFileId(e),
                                      omode |-> mode.acc, fd_offset |-> 0]]
  /\ fsize' = [fsize EXCEPT ![f] = IF mode.trunc \/ ~ Exists(f) THEN 0 ELSE @]
  /\ Answer(e)

(* An id that is negative as an int is taken for an error, as is a path    *)
(* that does not open, or a file_create that fails for some reason; the    *)
(* entry then keeps its new id and its old file.                           *)
serve_open ==
  LET f == fsreq.path
      mode == fsreq.mode
  IN  /\ Serving("open")
      /\ \/ /\ \A e \in Entries : pageref(e) > 1
            /\ Answer(NoEntry)
            /\ UNCHANGED tables
         \/ \E e \in Entries :
              /\ Available(e)
              /\ \/ /\ NextFileId(e) < FileIdLimit /\ Opens(f, mode)
                    /\ open_entry(e, f, mode)
                 \/ /\ \/ NextFileId(e) >= FileIdLimit
                       \/ ~ Opens(f, mode)
                       \/ mode.creat /\ ~ Exists(f)
                    /\ openfile_alloc(e)
                    /\ Answer(NoEntry)
                    /\ UNCHANGED fsize
                 \/ /\ pageref(e) = 0     \* sys_page_alloc finds no memory
                    /\ Answer(NoEntry)
                    /\ UNCHANGED tables
      /\ UNCHANGED <<clients, panic, served>>

(* Whether openfile_lookup finds the open file with this id.               *)
openfile_lookup(id) ==
  pageref(id % MAXOPEN) > 1 /\ opentab[id % MAXOPEN].o_fileid = id

Entry == fsreq.id % MAXOPEN
File == opentab[Entry].o_file
Offset == fdpage[Entry].fd_offset

(* Every other request about a file begins with openfile_lookup.           *)
serve_lookup_fails ==
  /\ server.at = "serve" /\ fsreq.type \in {"read", "write", "set_size", "stat", "flush"}
  /\ ~ openfile_lookup(fsreq.id)
  /\ Answer(NoEntry)
  /\ UNCHANGED <<tables, clients, panic, served>>

ServingFile(type) == Serving(type) /\ openfile_lookup(fsreq.id)

(* r of file_read or file_write is there; fd_offset is still the old one.  *)
Moved(r) == server' = [server EXCEPT !.at = "advance", !.r = r]

(* Both may find the disk full: reading a hole allocates its block, and    *)
(* writing has set the size by then.                                       *)
serve_read ==
  /\ ServingFile("read")
  /\ \/ /\ Moved(IF Offset >= fsize[File] THEN 0 ELSE Smaller(fsreq.n, fsize[File] - Offset))
        /\ UNCHANGED fsreq
     \/ Offset < fsize[File] /\ Answer(NoEntry)
  /\ UNCHANGED <<tables, clients, panic, served>>

serve_write ==
  /\ ServingFile("write")
  /\ fsize' = [fsize EXCEPT ![File] = IF Offset + fsreq.n > @ THEN Offset + fsreq.n ELSE @]
  /\ (Moved(fsreq.n) /\ UNCHANGED fsreq) \/ Answer(NoEntry)
  /\ UNCHANGED <<opentab, fdpage, clients, panic, served>>

(* A variant that stores the end of what it moved, computed beforehand for *)
(* the whole request.                                                      *)
advance_whole ==
  /\ server.at = "advance"
  /\ fdpage' = [fdpage EXCEPT ![Entry].fd_offset = @ + fsreq.n]
  /\ Answer(NoEntry)
  /\ UNCHANGED <<opentab, fsize, clients, panic, served>>

(* openFile->o_fd->fd_offset += r, one instruction, which no interrupt     *)
(* divides: a seek comes before or after it.  It is not locked, and a seek *)
(* on another CPU inside it, which would be lost, is not modelled.         *)
advance ==
  /\ server.at = "advance"
  /\ fdpage' = [fdpage EXCEPT ![Entry].fd_offset = @ + server.r]
  /\ Answer(NoEntry)
  /\ UNCHANGED <<opentab, fsize, clients, panic, served>>

serve_set_size ==
  /\ ServingFile("set_size")
  /\ fsize' = [fsize EXCEPT ![File] = fsreq.n]
  /\ Answer(NoEntry)
  /\ UNCHANGED <<opentab, fdpage, clients, panic, served>>

(* What these ask of the disk is in FileSys.                               *)
serve_stat_flush_sync ==
  /\ ServingFile("stat") \/ ServingFile("flush") \/ Serving("sync")
  /\ Answer(NoEntry)
  /\ UNCHANGED <<tables, clients, panic, served>>

(* A variant that tries once, whether or not the client receives yet.      *)
serve_reply_once ==
  /\ server.at = "reply" /\ server.whom # NoClient
  /\ cpc' = [cpc EXCEPT ![server.whom] = IF @ = "recv" THEN "user" ELSE @]
  /\ call' = [call EXCEPT ![server.whom] = IF cpc[server.whom] = "recv" THEN NoCall ELSE @]
  /\ server' = NotServing
  /\ fsreq' = NoRequest
  /\ UNCHANGED <<tables, fds, opened, panic, served>>

(* ipc_send(whom, r, pg, perm), once the client receives; the page of an   *)
(* opened file appears at the descriptor fd_alloc chose.  The server then  *)
(* unmaps fsreq and goes round to ipc_recv; all that others can see of it  *)
(* before that is that it does not receive yet.                            *)
serve_reply ==
  LET c == server.whom
  IN  /\ server.at = "reply" /\ c # NoClient /\ cpc[c] = "recv"
      /\ cpc' = [cpc EXCEPT ![c] = AfterAnswer(c, server.r)]
      /\ call' = [call EXCEPT ![c] = IF AfterAnswer(c, server.r) = "user" THEN NoCall ELSE @]
      /\ IF server.pg = NoEntry
         THEN UNCHANGED <<fds, opened>>
         ELSE /\ fds' = [fds EXCEPT ![c][call[c].fd] = server.pg]
              /\ opened' = [opened EXCEPT ![c][call[c].fd] = fsreq.path]
      /\ server' = NotServing
      /\ fsreq' = NoRequest
      /\ UNCHANGED <<tables, panic, served>>

(* ipc_send panics: -E_BAD_ENV, or -E_NO_MEM in mapping the page.          *)
serve_panic ==
  /\ server.at = "reply"
  /\ \/ server.whom = NoClient
     \/ server.whom # NoClient /\ server.pg # NoEntry /\ cpc[server.whom] = "recv"
  /\ Panic("server")

serve ==
  \/ serve_open \/ serve_lookup_fails \/ serve_read \/ serve_write \/ advance
  \/ serve_set_size \/ serve_stat_flush_sync
  \/ serve_reply \/ serve_panic
-----------------------------------------------------------------------------
(* The next step of the call c is in.                                      *)
InCall(c) ==
  sync_panic(c) \/ ipc_recv(c) \/ fd_close(c) \/ read_panic(c) \/ dup_map(c)

FsCalls ==
  \/ serve
  \/ \E c \in Clients :
       \/ InCall(c) \/ sync(c) \/ exit(c) \/ Kill(c)
       \/ \E d \in Clients : fork(c, d) \/ \E n \in Fds : fork_killed(c, d, n)
       \/ \E f \in Paths, mode \in Omodes : open(c, f, mode)
       \/ \E i \in Fds :
            \/ fstat(c, i) \/ close(c, i)
            \/ \E off \in Offsets : seek(c, i, off)
            \/ \E n \in Counts : read(c, i, n) \/ write(c, i, n)
            \/ \E n \in Sizes : ftruncate(c, i, n)
            \/ \E j \in Fds : dup(c, i, j)

FsNext == panic = "nobody" /\ FsCalls

FsSpec == FsInit /\ [][FsNext]_fsVars

(* Whoever is RUNNABLE runs again: the server goes on with a request, a    *)
(* client that has sent one goes on to receive.                            *)
FsFairness ==
  /\ WF_fsVars(panic = "nobody" /\ serve)
  /\ \A c \in Clients : WF_fsVars(panic = "nobody" /\ ipc_recv(c))
-----------------------------------------------------------------------------
FsTypeOK ==
  /\ opentab \in [Entries -> [o_fileid : FileIds, o_file : Paths \cup {NoPath}]]
  /\ fdpage \in [Entries -> [mapped : BOOLEAN, id : FileIds,
                             omode : {"RDONLY", "WRONLY", "RDWR"}, fd_offset : Nat]]
  /\ fsize \in [Paths -> Nat \cup {-1}]
  /\ fds \in [Clients -> [Fds -> Entries \cup {NoEntry}]]
  /\ opened \in [Clients -> [Fds -> Paths \cup {NoPath}]]
  /\ cpc \in [Clients -> {"free", "user", "orphan", "sent", "recv", "done", "dup", "exit"}]
  /\ server.at \in {"recv", "serve", "advance", "reply"}
  /\ server.whom \in Clients \cup {NoClient}
  /\ server.pg \in Entries \cup {NoEntry}

(* Every descriptor leads, through its Fd page, the id in it and the       *)
(* server's table, to the file that was opened, for as long as it is open: *)
(* entries are reused, ids wrap around, opens fail halfway, descriptors    *)
(* are shared and their owners die (fs/serv.c:63-97).                      *)
FdNamesItsFile ==
  \A c \in Clients, i \in Fds :
    IsOpen(c, i) => /\ openfile_lookup(FileId(c, i))
                    /\ FileId(c, i) % MAXOPEN = fds[c][i]
                    /\ opentab[fds[c][i]].o_file = opened[c][i]

(* Whoever sent a request gets an answer (lib/file.c:31), however many     *)
(* others compete, unless a panic stops them all.                          *)
RequestAnswered ==
  \A c \in Clients :
    cpc[c] \in {"sent", "recv"} ~> cpc[c] \notin {"sent", "recv"} \/ panic # "nobody"

Description(e) ==
  IF \E c \in Clients, i \in Fds : fds[c][i] = e
  THEN [file |-> opentab[e].o_file, pos |-> fdpage[e].fd_offset]
  ELSE NoEntry

(* The bytes file_read or file_write has moved, and for which description. *)
UnderWay ==
  IF server.at = "advance" THEN [key |-> Entry, bytes |-> server.r]
                           ELSE [key |-> NoEntry, bytes |-> 0]
Stopped == panic # "nobody"

O == INSTANCE OpenFiles WITH Keys <- Entries, NoKey <- NoEntry, NoDescription <- NoEntry,
                             ref <- fds, desc <- [e \in Entries |-> Description(e)],
                             size <- fsize, moving <- UnderWay, stopped <- Stopped

(* To its clients the table of entries, ids and shared pages is a set of   *)
(* open file descriptions: two descriptors share a position exactly when   *)
(* one was made from the other by dup, fork or spawn (lib/fd.c:168-171),   *)
(* and no seek of one sharer is lost in a transfer of another: the bytes   *)
(* moved are added to where it went (fs/serv.c:242,281).                   *)
ImplementsOpenFiles == O!Spec
=============================================================================
