-------------------------- MODULE FileServerProofs ---------------------------
(***************************************************************************)
(* Proofs about FileServer, for any number of clients, descriptors,        *)
(* entries of opentab and files, and any limit on file ids that is a       *)
(* multiple of MAXOPEN: descriptors keep naming their files, and the       *)
(* server and its clients together implement OpenFiles.                    *)
(*                                                                         *)
(* The invariant follows an Fd page from openfile_alloc to the descriptor: *)
(* while the answer is on its way the entry belongs to nobody, and it is   *)
(* not given away again because the server is busy with that answer.       *)
(***************************************************************************)
EXTENDS FileServer, FiniteSetTheorems, TLAPS

Ops == {"none", "open", "read", "other", "close", "dup", "exit"}
Places == {"free", "user", "orphan", "sent", "recv", "done", "dup", "exit"}
Types == {"none", "open", "read", "write", "set_size", "stat", "flush", "sync"}

OpenTab == [Entries -> [o_fileid : FileIds, o_file : Paths \cup {NoPath}]]
FdPage == [Entries -> [mapped : BOOLEAN, id : FileIds,
                       omode : {"RDONLY", "WRONLY", "RDWR"}, fd_offset : Nat]]
Calls == [op : Ops, fd : Fds, to : Fds]
Requests == [type : Types, id : FileIds, n : Nat,
             path : Paths \cup {NoPath}, mode : Omodes \cup {"none"}]
Servers == [at : {"recv", "serve", "advance", "reply"},
            whom : Clients \cup {NoClient}, r : Nat, pg : Entries \cup {NoEntry}]

TypesInv ==
  /\ opentab \in OpenTab
  /\ fdpage \in FdPage
  /\ fsize \in [Paths -> Nat \cup {-1}]
  /\ fds \in [Clients -> [Fds -> Entries \cup {NoEntry}]]
  /\ opened \in [Clients -> [Fds -> Paths \cup {NoPath}]]
  /\ cpc \in [Clients -> Places]
  /\ call \in [Clients -> Calls]
  /\ server \in Servers
  /\ fsreq \in Requests

(* Entry e is set up for file f.                                           *)
SetUp(e, f) ==
  /\ e \in Entries /\ f \in Paths
  /\ fdpage[e].mapped
  /\ fdpage[e].id = opentab[e].o_fileid
  /\ opentab[e].o_file = f

IdsInv == \A e \in Entries : opentab[e].o_fileid % MAXOPEN = e

HeldInv == \A c \in Clients, i \in Fds : IsOpen(c, i) => SetUp(fds[c][i], opened[c][i])

(* The slot of a client that is gone holds no descriptor.                  *)
GoneInv ==
  panic = "nobody" => \A c \in Clients : cpc[c] = "free" => fds[c] = Closed

(* A descriptor that waits for its page is closed meanwhile.               *)
WaitInv ==
  \A c \in Clients :
    cpc[c] \in {"sent", "recv"} /\ call[c].op = "open" => ~ IsOpen(c, call[c].fd)

(* Whom the server answers waits for the answer.                           *)
ServerInv ==
  /\ server.at = "recv" => server = NotServing
  /\ server.whom \in Clients => cpc[server.whom] \in {"sent", "recv"}
  /\ server.at = "serve" /\ fsreq.type = "open" =>
       /\ fsreq.path \in Paths /\ fsreq.mode \in Omodes
       /\ server.whom \in Clients => call[server.whom].op = "open"
  /\ server.at = "serve" => server.pg = NoEntry /\ server.r = 0
  /\ server.at = "advance" => server.pg = NoEntry

(* A page on its way to a client is nobody's yet.                          *)
ReplyInv ==
  server.pg # NoEntry =>
    /\ server.at = "reply"
    /\ SetUp(server.pg, fsreq.path)
    /\ fdpage[server.pg].fd_offset = 0
    /\ fsize[fsreq.path] >= 0
    /\ \A c \in Clients, i \in Fds : fds[c][i] # server.pg
    /\ server.whom \in Clients => call[server.whom].op = "open"

FInv ==
  /\ TypesInv /\ IdsInv /\ HeldInv /\ GoneInv /\ WaitInv
  /\ ServerInv /\ ReplyInv
-----------------------------------------------------------------------------
(* File ids.                                                               *)

LEMMA Quotient ==
  ASSUME NEW n \in Nat, n > 0, NEW a \in Nat
  PROVE  /\ a \div n \in Nat /\ a % n \in 0 .. n - 1
         /\ a = n * (a \div n) + (a % n)
OBVIOUS

LEMMA Multiple ==
  ASSUME NEW n \in Nat, n > 0, NEW q \in Nat, NEW e \in 0 .. n - 1
  PROVE  (n * q + e) % n = e
OBVIOUS

LEMMA SmallRemainder ==
  ASSUME NEW n \in Nat, n > 0, NEW e \in 0 .. n - 1
  PROVE  e % n = e
OBVIOUS

LEMMA EntryRemainder == \A e \in Entries : e % MAXOPEN = e
<1>1. MAXOPEN \in Nat /\ MAXOPEN > 0
  BY TableAssumption
<1>2. QED BY <1>1, SmallRemainder, Zenon DEF Entries

LEMMA WrapOnce ==
  ASSUME NEW b \in Nat, NEW a \in Nat, a < 2 * b
  PROVE  a % b = IF a < b THEN a ELSE a - b
OBVIOUS

LEMMA LimitIsMultiple == \E k \in Nat : FileIdLimit = MAXOPEN * k /\ k > 0
<1> USE TableAssumption
<1>1. FileIdLimit = MAXOPEN * (FileIdLimit \div MAXOPEN) + 0
  BY Quotient
<1>2. FileIdLimit \div MAXOPEN \in Nat
  BY Quotient
<1>3. FileIdLimit \div MAXOPEN # 0
  BY <1>1
<1>4. FileIdLimit = MAXOPEN * (FileIdLimit \div MAXOPEN)
  BY <1>1, <1>2
<1>5. QED BY <1>2, <1>3, <1>4

(* Adding MAXOPEN, even past the limit, keeps the index in the id.         *)
LEMMA NextFileIdGood ==
  ASSUME opentab \in OpenTab, IdsInv, NEW e \in Entries
  PROVE  NextFileId(e) \in FileIds /\ NextFileId(e) % MAXOPEN = e
<1> USE TableAssumption
<1> DEFINE o == opentab[e].o_fileid
           lim == 2 * FileIdLimit
<1>1. o \in FileIds /\ o % MAXOPEN = e
  BY Zenon DEF OpenTab, IdsInv
<1> HIDE DEF o
<1>2. PICK k \in Nat : FileIdLimit = MAXOPEN * k /\ k > 0
  BY LimitIsMultiple, Zenon
<1>3. MAXOPEN <= FileIdLimit
  BY <1>2
<1>4. PICK q \in Nat : o = MAXOPEN * q + e
  <2>1. o \in Nat
    BY <1>1 DEF FileIds
  <2>2. o \div MAXOPEN \in Nat /\ o = MAXOPEN * (o \div MAXOPEN) + (o % MAXOPEN)
    BY <2>1, Quotient
  <2>3. QED BY <1>1, <2>2, ZenonT(60)
<1>5. o + MAXOPEN \in Nat /\ o + MAXOPEN < 2 * lim
  BY <1>1, <1>3 DEF FileIds
<1>6. NextFileId(e) = IF o + MAXOPEN < lim THEN o + MAXOPEN ELSE (o + MAXOPEN) - lim
  <2>1. lim \in Nat
    OBVIOUS
  <2>2. NextFileId(e) = (o + MAXOPEN) % lim
    BY Zenon DEF NextFileId, o
  <2> HIDE DEF lim
  <2>3. PICK a \in Nat : a = o + MAXOPEN /\ a < 2 * lim
    BY <1>5, Zenon
  <2>4. a % lim = IF a < lim THEN a ELSE a - lim
    BY <2>1, <2>3, WrapOnce, Zenon
  <2>5. NextFileId(e) = a % lim
    BY <2>2, <2>3, Zenon
  <2>6. NextFileId(e) = IF a < lim THEN a ELSE a - lim
    BY <2>4, <2>5, Zenon
  <2>7. QED BY <2>3, <2>6, Zenon
<1>7. NextFileId(e) \in FileIds
  BY <1>1, <1>3, <1>5, <1>6 DEF FileIds
<1>8. CASE o + MAXOPEN < lim
  <2>1. NextFileId(e) = MAXOPEN * (q + 1) + e
    BY <1>4, <1>6, <1>8 DEF Entries
  <2>2. QED BY <1>7, <2>1, Multiple DEF Entries
<1>9. CASE ~ (o + MAXOPEN < lim)
  <2>1. (o + MAXOPEN) - lim = MAXOPEN * (q + 1 - 2 * k) + e
    BY <1>2, <1>4 DEF Entries
  <2>2. q + 1 - 2 * k >= 0
    <3>1. MAXOPEN * (q + 1) + e >= MAXOPEN * (2 * k)
      BY <1>2, <1>4, <1>9 DEF Entries
    <3>2. MAXOPEN * (q + 2) > MAXOPEN * (2 * k)
      BY <3>1 DEF Entries
    <3>3. q + 2 > 2 * k
      BY <3>2
    <3>4. QED BY <3>3
  <2>3. NextFileId(e) = MAXOPEN * (q + 1 - 2 * k) + e /\ q + 1 - 2 * k \in Nat
    BY <1>6, <1>9, <2>1, <2>2
  <2>4. QED BY <1>7, <2>3, Multiple DEF Entries
<1>10. QED BY <1>7, <1>8, <1>9, Zenon
-----------------------------------------------------------------------------
(* Who refers to an entry.                                                 *)

LEMMA HoldersFinite ==
  ASSUME NEW e
  PROVE  IsFiniteSet(Holders(e)) /\ Cardinality(Holders(e)) \in Nat
<1>1. IsFiniteSet(Fds)
  BY FS_Interval, TableAssumption DEF Fds
<1>2. IsFiniteSet(Clients \X Fds)
  BY <1>1, FS_Product, ClientAssumption, Zenon
<1>3. Holders(e) \in SUBSET (Clients \X Fds)
  BY Zenon DEF Holders
<1>4. IsFiniteSet(Holders(e))
  BY <1>2, <1>3, FS_Subset, Zenon
<1>5. QED BY <1>4, FS_CardinalityType, Zenon

(* pageref counts the server's mapping and the descriptors.                *)
LEMMA PagerefMeans ==
  ASSUME NEW e \in Entries, fdpage \in FdPage
  PROVE  /\ pageref(e) \in Nat
         /\ pageref(e) > 1 => \E c \in Clients, i \in Fds : fds[c][i] = e
         /\ \A c \in Clients, i \in Fds :
              fds[c][i] = e /\ fdpage[e].mapped => pageref(e) > 1
<1>1. IsFiniteSet(Holders(e)) /\ Cardinality(Holders(e)) \in Nat
  BY HoldersFinite, Zenon
<1>2. Cardinality(Holders(e)) = 0 <=> Holders(e) = {}
  BY <1>1, FS_EmptySet, Zenon
<1>3. Holders(e) # {} <=> \E c \in Clients, i \in Fds : fds[c][i] = e
  <2>1. ASSUME NEW c \in Clients, NEW i \in Fds, fds[c][i] = e PROVE <<c, i>> \in Holders(e)
    BY <2>1, Zenon DEF Holders
  <2>2. ASSUME NEW m \in Holders(e) PROVE \E c \in Clients, i \in Fds : fds[c][i] = e
    BY <2>2, Zenon DEF Holders
  <2>3. QED BY <2>1, <2>2, ZenonT(60)
<1>4. fdpage[e].mapped \in BOOLEAN
  BY Zenon DEF FdPage
<1>5. pageref(e) = (IF fdpage[e].mapped THEN 1 ELSE 0) + Cardinality(Holders(e))
  BY Zenon DEF pageref
<1>6. QED BY <1>1, <1>2, <1>3, <1>4, <1>5

(* An entry the server may take is nobody's.                               *)
LEMMA AvailableIsFree ==
  ASSUME TypesInv, HeldInv, NEW e \in Entries, pageref(e) <= 1
  PROVE  \A c \in Clients, i \in Fds : fds[c][i] # e
<1>1. pageref(e) \in Nat
  BY PagerefMeans, Zenon DEF TypesInv
<1>2. ASSUME NEW c \in Clients, NEW i \in Fds, fds[c][i] = e PROVE FALSE
  <2>1. fdpage[e].mapped
    BY <1>2, TableAssumption, Zenon DEF HeldInv, SetUp, IsOpen, Entries
  <2>2. pageref(e) > 1
    BY <1>2, <2>1, PagerefMeans, Zenon DEF TypesInv
  <2>3. QED BY <1>1, <2>2
<1>3. QED BY <1>2, Zenon

(* What openfile_lookup finds is somebody's.                               *)
LEMMA FoundIsHeld ==
  ASSUME FInv, openfile_lookup(fsreq.id)
  PROVE  /\ Entry \in Entries /\ File \in Paths
         /\ \E c \in Clients, i \in Fds : fds[c][i] = Entry
<1>1. Entry \in Entries
  BY TableAssumption DEF FInv, TypesInv, Requests, FileIds, Entry, Entries
<1>2. pageref(Entry) > 1
  BY Zenon DEF openfile_lookup, Entry
<1>3. PICK c \in Clients, i \in Fds : fds[c][i] = Entry
  BY <1>1, <1>2, PagerefMeans, Zenon DEF FInv, TypesInv
<1>4. SetUp(Entry, opened[c][i])
  BY <1>1, <1>3, TableAssumption, Zenon DEF FInv, HeldInv, IsOpen, Entries
<1>5. QED BY <1>1, <1>3, <1>4, Zenon DEF SetUp, File
-----------------------------------------------------------------------------
(* The invariant.                                                          *)

LEMMA InitInv == FsInit => FInv
<1> SUFFICES ASSUME FsInit PROVE FInv
  BY Zenon
<1> USE ClientAssumption, TableAssumption, FileAssumption DEF FsInit
<1>1. TypesInv
  <2>1. opentab \in OpenTab
    <3>1. PICK k \in Nat : FileIdLimit = MAXOPEN * k /\ k > 0
      BY LimitIsMultiple, ZenonT(60)
    <3>2. MAXOPEN <= FileIdLimit
      BY <3>1
    <3>3. Entries \subseteq FileIds
      BY <3>2 DEF Entries, FileIds
    <3>4. QED BY <3>3, Zenon DEF OpenTab
  <2>2. fdpage \in FdPage
    BY DEF FdPage, NoFd, FileIds
  <2>3. call \in [Clients -> Calls] /\ fsreq \in Requests /\ server \in Servers
    BY DEF Calls, NoCall, Ops, Fds, Requests, NoRequest, Types, FileIds, Servers,
           NotServing
  <2>4. QED BY <2>1, <2>2, <2>3, Zenon DEF TypesInv, Closed, Places
<1>2. IdsInv
  <2>1. \A e \in Entries : e % MAXOPEN = e
    BY EntryRemainder, Zenon
  <2>2. \A e \in Entries : opentab[e].o_fileid = e
    BY Zenon
  <2>3. QED BY <2>1, <2>2, Zenon DEF IdsInv
<1>3. HeldInv /\ GoneInv /\ WaitInv
  BY Zenon DEF HeldInv, GoneInv, WaitInv, IsOpen, Closed
<1>4. ServerInv /\ ReplyInv
  BY Zenon DEF ServerInv, ReplyInv, NotServing
<1>5. QED BY <1>1, <1>2, <1>3, <1>4, Zenon DEF FInv

(* Nothing of an entry that its holders rely on has changed.               *)
LEMMA SameEntries ==
  ASSUME opentab' = opentab,
         \A e \in Entries : fdpage'[e].mapped = fdpage[e].mapped /\ fdpage'[e].id = fdpage[e].id
  PROVE  (IdsInv => IdsInv') /\ \A e, f : SetUp(e, f) => SetUp(e, f)'
BY Zenon DEF IdsInv, SetUp

LEMMA RequestInv ==
  ASSUME FInv, NEW c \in Clients, cpc[c] \in {"user", "exit"},
         NEW op \in Ops, NEW i \in Fds, NEW j \in Fds, NEW req \in Requests,
         op = "open" => ~ IsOpen(c, i),
         req.type = "open" => op = "open" /\ req.path \in Paths /\ req.mode \in Omodes,
         Request(c, op, i, j, req)
  PROVE  FInv'
<1> USE ClientAssumption
<1>0. TypesInv /\ IdsInv /\ HeldInv /\ GoneInv /\ WaitInv /\ ServerInv /\ ReplyInv
  BY Zenon DEF FInv
<1>1. /\ opentab' = opentab /\ fdpage' = fdpage /\ fsize' = fsize /\ fds' = fds
      /\ opened' = opened /\ panic' = panic
      /\ cpc' = [cpc EXCEPT ![c] = "sent"]
      /\ call' = [call EXCEPT ![c] = [op |-> op, fd |-> i, to |-> j]]
      /\ fsreq' = req
  BY Zenon DEF Request, tables
<1>2. server' = [at |-> "serve", whom |-> c, r |-> 0, pg |-> NoEntry]
  <2>1. server = NotServing
    BY <1>0, Zenon DEF Request, ServerInv
  <2>2. server' = [server EXCEPT !.at = "serve", !.whom = c]
    BY Zenon DEF Request
  <2>3. QED BY <2>1, <2>2, ZenonT(60) DEF NotServing
<1>3. TypesInv'
  <2>1. cpc' \in [Clients -> Places] /\ call' \in [Clients -> Calls]
    BY <1>0, <1>1, Zenon DEF TypesInv, Places, Calls
  <2>2. server' \in Servers
    BY <1>2, Zenon DEF Servers
  <2>3. QED BY <1>0, <1>1, <2>1, <2>2, Zenon DEF TypesInv
<1>4. IdsInv' /\ HeldInv'
  BY <1>0, <1>1, SameEntries, Zenon DEF HeldInv, IsOpen
<1>5. GoneInv'
  BY <1>0, <1>1, Zenon DEF GoneInv, TypesInv
<1>6. WaitInv'
  BY <1>0, <1>1, Zenon DEF WaitInv, IsOpen, TypesInv
<1>7. ServerInv'
  BY <1>0, <1>1, <1>2, Zenon DEF ServerInv, TypesInv
<1>8. ReplyInv'
  BY <1>0, <1>2, Zenon DEF ReplyInv
<1>9. QED BY <1>3, <1>4, <1>5, <1>6, <1>7, <1>8, Zenon DEF FInv

(* The calls of a client that begin with a request.                        *)
LEMMA CallInv ==
  ASSUME FInv, NEW c \in Clients, cpc[c] \in {"user", "exit"},
         \/ sync(c) \/ \E i \in Fds : \E j \in Fds : IsOpen(c, i) /\
              (\E op \in {"close", "dup", "exit"} : Flush(c, op, i, j))
         \/ \E i \in Fds : fstat(c, i)
         \/ \E i \in Fds, n \in Counts : read(c, i, n) \/ write(c, i, n)
         \/ \E i \in Fds, n \in Sizes : ftruncate(c, i, n)
         \/ \E f \in Paths, mode \in Omodes : open(c, f, mode)
  PROVE  FInv'
<1> USE TableAssumption, FileAssumption
<1>1. 0 \in Fds /\ NoRequest \in Requests
  BY DEF Fds, NoRequest, Requests, Types, FileIds
<1>2. ASSUME NEW i \in Fds, IsOpen(c, i) PROVE FileId(c, i) \in FileIds
  BY <1>2 DEF FInv, TypesInv, FdPage, FileId, IsOpen
<1>3. CASE sync(c)
  <2>1. [NoRequest EXCEPT !.type = "sync"] \in Requests
    BY <1>1, Zenon DEF Requests, Types
  <2>2. QED BY <1>1, <1>3, <2>1, RequestInv, Zenon DEF sync, Ops, NoRequest
<1>4. ASSUME NEW i \in Fds, NEW j \in Fds, IsOpen(c, i),
             NEW op \in {"close", "dup", "exit"}, Flush(c, op, i, j)
      PROVE  FInv'
  <2>1. PICK req : req = [NoRequest EXCEPT !.type = "flush", !.id = FileId(c, i)]
    BY Zenon
  <2>2. req \in Requests /\ req.type # "open" /\ op \in Ops /\ op # "open"
    BY <1>1, <1>2, <1>4, <2>1, ZenonT(60) DEF Requests, Types, NoRequest, Ops
  <2>3. Request(c, op, i, j, req)
    BY <1>4, <2>1, ZenonT(60) DEF Flush
  <2>4. QED BY <2>2, <2>3, RequestInv, Zenon
<1>5. ASSUME NEW i \in Fds, fstat(c, i) PROVE FInv'
  <2>1. [NoRequest EXCEPT !.type = "stat", !.id = FileId(c, i)] \in Requests
    BY <1>1, <1>2, <1>5, ZenonT(60) DEF Requests, Types, fstat
  <2>2. QED BY <1>1, <1>5, <2>1, RequestInv, ZenonT(60) DEF fstat, Ops, NoRequest
<1>6. ASSUME NEW i \in Fds, NEW n \in Counts, read(c, i, n) PROVE FInv'
  <2>1. [NoRequest EXCEPT !.type = "read", !.id = FileId(c, i), !.n = n] \in Requests
    BY <1>1, <1>2, <1>6, ZenonT(60) DEF Requests, Types, read
  <2>2. QED BY <1>1, <1>6, <2>1, RequestInv, ZenonT(60) DEF read, Ops, NoRequest
<1>7. ASSUME NEW i \in Fds, NEW n \in Counts, write(c, i, n) PROVE FInv'
  <2>1. Smaller(n, WriteBuf) \in Nat
    BY Zenon DEF Smaller
  <2>2. [NoRequest EXCEPT !.type = "write", !.id = FileId(c, i), !.n = Smaller(n, WriteBuf)]
          \in Requests
    BY <1>1, <1>2, <1>7, <2>1, ZenonT(60) DEF Requests, Types, write
  <2>3. QED BY <1>1, <1>7, <2>2, RequestInv, ZenonT(60) DEF write, Ops, NoRequest
<1>8. ASSUME NEW i \in Fds, NEW n \in Sizes, ftruncate(c, i, n) PROVE FInv'
  <2>1. [NoRequest EXCEPT !.type = "set_size", !.id = FileId(c, i), !.n = n] \in Requests
    BY <1>1, <1>2, <1>8, ZenonT(60) DEF Requests, Types, ftruncate
  <2>2. QED BY <1>1, <1>8, <2>1, RequestInv, ZenonT(60) DEF ftruncate, Ops, NoRequest
<1>9. ASSUME NEW f \in Paths, NEW mode \in Omodes, open(c, f, mode) PROVE FInv'
  <2>1. PICK i \in Fds :
          /\ fd_alloc(c, i)
          /\ Request(c, "open", i, i,
                     [NoRequest EXCEPT !.type = "open", !.path = f, !.mode = mode])
    BY <1>9, ZenonT(60) DEF open
  <2>2. PICK req : req = [NoRequest EXCEPT !.type = "open", !.path = f, !.mode = mode]
    BY Zenon
  <2>3. req \in Requests /\ req.path \in Paths /\ req.mode \in Omodes
    BY <1>1, <2>2, ZenonT(60) DEF Requests, Types, NoRequest
  <2>4. QED BY <2>1, <2>2, <2>3, RequestInv, ZenonT(60) DEF fd_alloc, Ops
<1>10. QED BY <1>3, <1>4, <1>5, <1>6, <1>7, <1>8, <1>9

(* Steps of clients that touch no table and not the server.                *)
LEMMA DescriptorsInv ==
  ASSUME FInv, NEW c \in Clients,
         UNCHANGED <<opentab, fdpage, fsize, server, fsreq, panic>>,
         TypesInv',
         \A d \in Clients \ {c} : cpc'[d] = cpc[d] /\ call'[d] = call[d] /\ fds'[d] = fds[d]
                                    /\ opened'[d] = opened[d],
         cpc[c] \notin {"sent", "recv"}, cpc'[c] \notin {"sent", "recv", "free"},
         \A i \in Fds : fds'[c][i] # NoEntry =>
           \E d \in Clients, j \in Fds : fds'[c][i] = fds[d][j] /\ opened'[c][i] = opened[d][j]
  PROVE  FInv'
<1> USE ClientAssumption
<1>0. TypesInv /\ IdsInv /\ HeldInv /\ GoneInv /\ WaitInv /\ ServerInv /\ ReplyInv
  BY Zenon DEF FInv
<1>1. IdsInv' /\ \A e, f : SetUp(e, f) => SetUp(e, f)'
  BY <1>0, SameEntries, Zenon
<1>2. HeldInv'
  <2>1. ASSUME NEW d \in Clients, NEW i \in Fds, fds'[d][i] # NoEntry
        PROVE  SetUp(fds'[d][i], opened'[d][i])
    <3>1. PICK x \in Clients, j \in Fds :
            fds'[d][i] = fds[x][j] /\ opened'[d][i] = opened[x][j]
      BY <2>1
    <3>2. QED BY <1>0, <2>1, <3>1, Zenon DEF HeldInv, IsOpen
  <2>2. QED BY <1>0, <1>1, <2>1, Zenon DEF HeldInv, IsOpen
<1>3. GoneInv'
  BY <1>0, Zenon DEF GoneInv
<1>4. WaitInv'
  BY <1>0, Zenon DEF WaitInv, IsOpen
<1>5. ServerInv'
  BY <1>0, Zenon DEF ServerInv
<1>6. ReplyInv'
  <2>1. ASSUME server.pg # NoEntry, NEW d \in Clients, NEW i \in Fds PROVE fds'[d][i] # server.pg
    <3>1. CASE d = c
      BY <1>0, <2>1, <3>1 DEF ReplyInv
    <3>2. CASE d # c
      BY <1>0, <2>1, <3>2 DEF ReplyInv
    <3>3. QED BY <3>1, <3>2, Zenon
  <2>2. server.pg # NoEntry => SetUp(server.pg, fsreq.path)'
    BY <1>0, <1>1, Zenon DEF ReplyInv
  <2>3. server.pg # NoEntry /\ server.whom \in Clients => call'[server.whom].op = "open"
    BY <1>0, Zenon DEF ReplyInv, ServerInv
  <2>4. QED BY <1>0, <2>1, <2>2, <2>3, Zenon DEF ReplyInv
<1>7. QED BY <1>1, <1>2, <1>3, <1>4, <1>5, <1>6, Zenon DEF FInv

LEMMA CloseInv == ASSUME FInv, NEW c \in Clients, fd_close(c) PROVE FInv'
<1>1. /\ UNCHANGED <<opentab, fdpage, fsize, server, fsreq, panic>>
      /\ cpc[c] = "done" /\ call[c] \in Calls
      /\ call[c].op \in {"close", "dup", "exit"} /\ call[c].fd \in Fds
      /\ fds' = [fds EXCEPT ![c][call[c].fd] = NoEntry]
      /\ opened' = [opened EXCEPT ![c][call[c].fd] = NoPath]
      /\ cpc' = [cpc EXCEPT ![c] = IF call[c].op = "close" THEN "user" ELSE call[c].op]
      /\ call' = [call EXCEPT ![c] = IF @.op = "dup" THEN @ ELSE NoCall]
  BY Zenon DEF fd_close, tables, Unmapped, FInv, TypesInv, Calls
<1>2. NoCall \in Calls
  BY TableAssumption DEF NoCall, Calls, Ops, Fds
<1>3. TypesInv'
  <2>1. cpc' \in [Clients -> Places] /\ call' \in [Clients -> Calls]
    BY <1>1, <1>2, Zenon DEF FInv, TypesInv, Places
  <2>2. /\ fds' \in [Clients -> [Fds -> Entries \cup {NoEntry}]]
        /\ opened' \in [Clients -> [Fds -> Paths \cup {NoPath}]]
    BY <1>1, Zenon DEF FInv, TypesInv
  <2>3. QED BY <1>1, <2>1, <2>2, Zenon DEF FInv, TypesInv
<1>4. cpc'[c] \notin {"sent", "recv", "free"} /\ cpc[c] \notin {"sent", "recv"}
  BY <1>1, Zenon DEF FInv, TypesInv
<1>5. \A d \in Clients \ {c} : cpc'[d] = cpc[d] /\ call'[d] = call[d] /\ fds'[d] = fds[d]
                                 /\ opened'[d] = opened[d]
  BY <1>1, Zenon DEF FInv, TypesInv
<1>6. \A i \in Fds : fds'[c][i] # NoEntry =>
        fds'[c][i] = fds[c][i] /\ opened'[c][i] = opened[c][i]
  BY <1>1, Zenon DEF FInv, TypesInv
<1>7. QED BY <1>1, <1>3, <1>4, <1>5, <1>6, DescriptorsInv, Zenon

LEMMA DupInv ==
  ASSUME FInv, NEW c \in Clients, NEW i \in Fds, NEW j \in Fds, Duplicate(c, i, j),
         UNCHANGED <<opentab, fdpage, fsize, server, fsreq, panic>>,
         \/ cpc[c] = "user" /\ UNCHANGED <<cpc, call>>
         \/ /\ cpc[c] = "dup"
            /\ cpc' = [cpc EXCEPT ![c] = "user"]
            /\ call' = [call EXCEPT ![c] = NoCall]
  PROVE  FInv'
<1>1. /\ fds' = [fds EXCEPT ![c][j] = fds[c][i]]
      /\ opened' = [opened EXCEPT ![c][j] = opened[c][i]]
  BY Zenon DEF Duplicate
<1>2. NoCall \in Calls
  BY TableAssumption DEF NoCall, Calls, Ops, Fds
<1>3. TypesInv'
  <2>1. cpc' \in [Clients -> Places] /\ call' \in [Clients -> Calls]
    BY <1>2, ZenonT(60) DEF FInv, TypesInv, Places
  <2>2. /\ fds' \in [Clients -> [Fds -> Entries \cup {NoEntry}]]
        /\ opened' \in [Clients -> [Fds -> Paths \cup {NoPath}]]
    BY <1>1 DEF FInv, TypesInv
  <2>3. QED BY <2>1, <2>2, Zenon DEF FInv, TypesInv
<1>4. cpc'[c] \notin {"sent", "recv", "free"} /\ cpc[c] \notin {"sent", "recv"}
  BY Zenon DEF FInv, TypesInv
<1>5. \A d \in Clients \ {c} : cpc'[d] = cpc[d] /\ call'[d] = call[d] /\ fds'[d] = fds[d]
                                 /\ opened'[d] = opened[d]
  BY <1>1, Zenon DEF FInv, TypesInv
<1>6. \A k \in Fds : \/ fds'[c][k] = fds[c][k] /\ opened'[c][k] = opened[c][k]
                     \/ fds'[c][k] = fds[c][i] /\ opened'[c][k] = opened[c][i]
  BY <1>1, Zenon DEF FInv, TypesInv
<1>7. QED BY <1>3, <1>4, <1>5, <1>6, DescriptorsInv, Zenon

LEMMA ForkInv ==
  ASSUME FInv, NEW c \in Clients, NEW d \in Clients, fork(c, d)
  PROVE  FInv'
<1>1. /\ UNCHANGED <<opentab, fdpage, fsize, server, fsreq, panic>>
      /\ cpc[d] = "free"
      /\ fds' = [fds EXCEPT ![d] = fds[c]]
      /\ opened' = [opened EXCEPT ![d] = opened[c]]
      /\ cpc' = [cpc EXCEPT ![d] = "user"] /\ call' = call
  BY Zenon DEF fork, tables
<1>2. TypesInv'
  BY <1>1, Zenon DEF FInv, TypesInv, Places
<1>3. cpc'[d] \notin {"sent", "recv", "free"} /\ cpc[d] \notin {"sent", "recv"}
  BY <1>1, Zenon DEF FInv, TypesInv
<1>4. \A x \in Clients \ {d} : cpc'[x] = cpc[x] /\ call'[x] = call[x] /\ fds'[x] = fds[x]
                                 /\ opened'[x] = opened[x]
  BY <1>1, Zenon DEF FInv, TypesInv
<1>5. \A i \in Fds : fds'[d][i] = fds[c][i] /\ opened'[d][i] = opened[c][i]
  BY <1>1, Zenon DEF FInv, TypesInv
<1>6. QED BY <1>1, <1>2, <1>3, <1>4, <1>5, DescriptorsInv, Zenon

(* A client ends: nobody waits for an answer on its behalf any more.       *)
LEMMA DestroyInv ==
  ASSUME FInv, NEW c \in Clients, env_destroy(c)
  PROVE  FInv'
<1> USE ClientAssumption, TableAssumption
<1>0. TypesInv /\ IdsInv /\ HeldInv /\ GoneInv /\ WaitInv /\ ServerInv /\ ReplyInv
  BY Zenon DEF FInv
<1>1. /\ UNCHANGED <<opentab, fdpage, fsize, fsreq, panic>>
      /\ fds' = [fds EXCEPT ![c] = Closed]
      /\ opened' = [opened EXCEPT ![c] = [i \in Fds |-> NoPath]]
      /\ cpc' = [cpc EXCEPT ![c] = "free"]
      /\ call' = [call EXCEPT ![c] = NoCall]
  BY Zenon DEF env_destroy, tables
<1>2. /\ server'.at = server.at /\ server'.r = server.r /\ server'.pg = server.pg
      /\ server'.whom = IF server.whom = c THEN NoClient ELSE server.whom
      /\ server' \in Servers
      /\ server.whom # c => server' = server
  BY <1>0, ZenonT(60) DEF env_destroy, Forget, TypesInv, Servers
<1>3. TypesInv'
  <2>1. cpc' \in [Clients -> Places] /\ call' \in [Clients -> Calls]
    BY <1>0, <1>1 DEF TypesInv, Places, Calls, NoCall, Ops, Fds
  <2>2. /\ fds' \in [Clients -> [Fds -> Entries \cup {NoEntry}]]
        /\ opened' \in [Clients -> [Fds -> Paths \cup {NoPath}]]
    BY <1>0, <1>1, Zenon DEF TypesInv, Closed
  <2>3. QED BY <1>0, <1>1, <1>2, <2>1, <2>2, Zenon DEF TypesInv
<1>4. IdsInv' /\ \A e, f : SetUp(e, f) => SetUp(e, f)'
  BY <1>0, <1>1, SameEntries, Zenon
<1>5. \A d \in Clients, i \in Fds :
        fds'[d][i] = NoEntry \/ (d # c /\ fds'[d] = fds[d] /\ opened'[d] = opened[d])
  BY <1>0, <1>1, Zenon DEF TypesInv, Closed
<1>6. HeldInv'
  BY <1>0, <1>4, <1>5, Zenon DEF HeldInv, IsOpen
<1>7. GoneInv' /\ WaitInv'
  BY <1>0, <1>1, Zenon DEF GoneInv, WaitInv, IsOpen, TypesInv
<1>8. ServerInv'
  BY <1>0, <1>1, <1>2 DEF ServerInv, TypesInv, NotServing
<1>9. ReplyInv'
  <2>1. server.pg # NoEntry => SetUp(server.pg, fsreq.path)'
    BY <1>0, <1>1, <1>2, <1>4, Zenon DEF ReplyInv
  <2>2. ASSUME server.pg # NoEntry
        PROVE  \A d \in Clients, i \in Fds : fds'[d][i] # server.pg
    BY <1>0, <1>5, <2>2, Zenon DEF ReplyInv
  <2>3. server.pg # NoEntry /\ server'.whom \in Clients => call'[server'.whom].op = "open"
    BY <1>0, <1>1, <1>2, Zenon DEF ReplyInv, TypesInv
  <2>4. QED BY <1>0, <1>1, <1>2, <2>1, <2>2, <2>3, Zenon DEF ReplyInv
<1>10. QED BY <1>3, <1>4, <1>6, <1>7, <1>8, <1>9, Zenon DEF FInv

(* The parent ends in the middle of fork; neither is known to the server.  *)
LEMMA ForkKilledInv ==
  ASSUME FInv, NEW c \in Clients, NEW d \in Clients, NEW n \in Fds, fork_killed(c, d, n)
  PROVE  FInv'
<1> USE ClientAssumption, TableAssumption
<1>0. TypesInv /\ IdsInv /\ HeldInv /\ GoneInv /\ WaitInv /\ ServerInv /\ ReplyInv
  BY Zenon DEF FInv
<1> DEFINE some == [i \in Fds |-> IF i < n THEN fds[c][i] ELSE NoEntry]
           paths == [i \in Fds |-> IF i < n THEN opened[c][i] ELSE NoPath]
<1>1. /\ UNCHANGED <<opentab, fdpage, fsize, call, server, fsreq, panic>>
      /\ cpc[c] = "user" /\ cpc[d] = "free"
      /\ fds' = [fds EXCEPT ![d] = some, ![c] = Closed]
      /\ opened' = [opened EXCEPT ![d] = paths, ![c] = [i \in Fds |-> NoPath]]
      /\ cpc' = [cpc EXCEPT ![d] = "orphan", ![c] = "free"]
  BY Zenon DEF fork_killed, tables, Idle
<1>2. /\ some \in [Fds -> Entries \cup {NoEntry}] /\ paths \in [Fds -> Paths \cup {NoPath}]
      /\ \A i \in Fds : some[i] # NoEntry => some[i] = fds[c][i] /\ paths[i] = opened[c][i]
  <2>1. fds[c] \in [Fds -> Entries \cup {NoEntry}] /\ opened[c] \in [Fds -> Paths \cup {NoPath}]
    BY <1>0, Zenon DEF TypesInv
  <2>2. QED BY <2>1
<1> HIDE DEF some, paths
<1>3. TypesInv'
  BY <1>0, <1>1, <1>2, Zenon DEF TypesInv, Places, Closed
<1>4. IdsInv' /\ \A e, f : SetUp(e, f) => SetUp(e, f)'
  BY <1>0, <1>1, SameEntries, Zenon
<1>5. c # d /\ fds'[c] = Closed /\ fds'[d] = some /\ opened'[d] = paths
      /\ cpc'[c] = "free" /\ cpc'[d] = "orphan"
      /\ \A x \in Clients : x \notin {c, d} =>
           fds'[x] = fds[x] /\ opened'[x] = opened[x] /\ cpc'[x] = cpc[x]
  BY <1>0, <1>1, Zenon DEF TypesInv
<1>6. ASSUME NEW x \in Clients, NEW i \in Fds, fds'[x][i] # NoEntry
      PROVE  \E y \in Clients : fds'[x][i] = fds[y][i] /\ opened'[x][i] = opened[y][i]
  <2>1. CASE x = c
    BY <1>5, <1>6, <2>1, Zenon DEF Closed
  <2>2. CASE x = d
    BY <1>2, <1>5, <1>6, <2>2, Zenon
  <2>3. CASE x \notin {c, d}
    BY <1>5, <2>3, Zenon
  <2>4. QED BY <2>1, <2>2, <2>3, Zenon
<1>7. HeldInv'
  <2>1. ASSUME NEW x \in Clients, NEW i \in Fds, fds'[x][i] # NoEntry
        PROVE  SetUp(fds'[x][i], opened'[x][i])
    <3>1. PICK y \in Clients : fds'[x][i] = fds[y][i] /\ opened'[x][i] = opened[y][i]
      BY <1>6, <2>1, Zenon
    <3>2. QED BY <1>0, <2>1, <3>1, Zenon DEF HeldInv, IsOpen
  <2>2. QED BY <1>0, <1>4, <2>1, Zenon DEF HeldInv, IsOpen
<1>8. GoneInv'
  BY <1>0, <1>1, <1>5, Zenon DEF GoneInv
<1>9. WaitInv'
  BY <1>0, <1>1, <1>5, Zenon DEF WaitInv, IsOpen
<1>10. ServerInv'
  BY <1>0, <1>1, <1>5, Zenon DEF ServerInv
<1>11. ReplyInv'
  <2>1. ASSUME server.pg # NoEntry, NEW x \in Clients, NEW i \in Fds PROVE fds'[x][i] # server.pg
    <3>1. CASE fds'[x][i] = NoEntry
      BY <2>1, <3>1, Zenon
    <3>2. CASE fds'[x][i] # NoEntry
      <4>1. PICK y \in Clients : fds'[x][i] = fds[y][i]
        BY <1>6, <3>2, Zenon
      <4>2. QED BY <1>0, <2>1, <4>1, Zenon DEF ReplyInv
    <3>3. QED BY <3>1, <3>2, Zenon
  <2>2. server.pg # NoEntry => SetUp(server.pg, fsreq.path)'
    BY <1>0, <1>1, <1>4, Zenon DEF ReplyInv
  <2>3. QED BY <1>0, <1>1, <2>1, <2>2, Zenon DEF ReplyInv
<1>12. QED BY <1>3, <1>4, <1>7, <1>8, <1>9, <1>10, <1>11, Zenon DEF FInv

LEMMA PanicInv == ASSUME FInv, NEW who, who # "nobody", Panic(who) PROVE FInv'
<1> USE ClientAssumption, TableAssumption
<1>0. TypesInv /\ IdsInv /\ HeldInv /\ GoneInv /\ WaitInv /\ ServerInv /\ ReplyInv
  BY Zenon DEF FInv
<1>1. /\ UNCHANGED <<opentab, fdpage, fsize, fds, opened>>
      /\ cpc' = [c \in Clients |-> "free"]
      /\ call' = [c \in Clients |-> NoCall]
      /\ server' = NotServing /\ fsreq' = NoRequest /\ panic' # "nobody"
  BY Zenon DEF Panic, tables
<1>2. TypesInv'
  <2>1. NoCall \in Calls /\ NotServing \in Servers /\ NoRequest \in Requests
    BY DEF NoCall, Calls, Ops, Fds, NotServing, Servers, NoRequest, Requests, Types, FileIds
  <2>2. QED BY <1>0, <1>1, <2>1, Zenon DEF TypesInv, Places
<1>3. IdsInv' /\ HeldInv'
  BY <1>0, <1>1, SameEntries, Zenon DEF HeldInv, IsOpen
<1>4. GoneInv' /\ WaitInv'
  BY <1>0, <1>1, Zenon DEF GoneInv, WaitInv
<1>5. ServerInv' /\ ReplyInv'
  BY <1>0, <1>1, Zenon DEF ServerInv, ReplyInv, NotServing
<1>6. QED BY <1>2, <1>3, <1>4, <1>5, Zenon DEF FInv

LEMMA RecvInv == ASSUME FInv, NEW c \in Clients, ipc_recv(c) PROVE FInv'
<1> USE ClientAssumption
<1>0. TypesInv /\ IdsInv /\ HeldInv /\ GoneInv /\ WaitInv /\ ServerInv /\ ReplyInv
  BY Zenon DEF FInv
<1>1. /\ UNCHANGED <<opentab, fdpage, fsize, fds, opened, call, server, fsreq, panic>>
      /\ cpc[c] = "sent" /\ cpc' = [cpc EXCEPT ![c] = "recv"]
  BY Zenon DEF ipc_recv, tables
<1>2. TypesInv'
  BY <1>0, <1>1, Zenon DEF TypesInv, Places
<1>3. IdsInv' /\ \A e, f : SetUp(e, f) => SetUp(e, f)'
  BY <1>0, <1>1, SameEntries, Zenon
<1>4. HeldInv' /\ GoneInv' /\ WaitInv'
  <2>1. HeldInv'
    BY <1>0, <1>1, <1>3, Zenon DEF HeldInv, IsOpen
  <2>2. \A d \in Clients : d # c => cpc'[d] = cpc[d]
    BY <1>1
  <2>3. GoneInv' /\ WaitInv'
    BY <1>0, <1>1, <2>2, Zenon DEF GoneInv, WaitInv, IsOpen, TypesInv
  <2>4. QED BY <2>1, <2>3, Zenon
<1>5. ServerInv'
  BY <1>0, <1>1, Zenon DEF ServerInv, TypesInv
<1>6. ReplyInv'
  BY <1>0, <1>1, <1>3, Zenon DEF ReplyInv
<1>7. QED BY <1>2, <1>3, <1>4, <1>5, <1>6, Zenon DEF FInv

(* The request is done with, all but its path.                             *)
LEMMA AnswerMeans ==
  ASSUME TypesInv, NEW pg \in Entries \cup {NoEntry}, Answer(pg)
  PROVE  /\ server' \in Servers /\ server'.at = "reply" /\ server'.pg = pg
         /\ server'.whom = server.whom /\ server'.r = server.r
         /\ fsreq' \in Requests /\ fsreq'.path = fsreq.path /\ fsreq'.type = "none"
<1>1. /\ server \in Servers
      /\ server' = [server EXCEPT !.at = "reply", !.pg = pg]
  BY Zenon DEF Answer, TypesInv
<1>2. server' \in Servers /\ server'.at = "reply" /\ server'.pg = pg
      /\ server'.whom = server.whom /\ server'.r = server.r
  BY <1>1, ZenonT(60) DEF Servers
<1>3. fsreq' = [type |-> "none", id |-> 0, n |-> 0, path |-> fsreq.path, mode |-> "none"]
  BY Zenon DEF Answer, NoRequest
<1>4. 0 \in FileIds
  BY TableAssumption DEF FileIds
<1>5. fsreq.path \in Paths \cup {NoPath}
  BY Zenon DEF TypesInv, Requests
<1>6. fsreq' \in Requests
  BY <1>3, <1>4, <1>5, Zenon DEF Requests, Types
<1>7. QED BY <1>2, <1>3, <1>6, Zenon

(* Steps that store another fd_offset in the page of an entry in use.      *)
LEMMA OffsetInv ==
  ASSUME FInv, NEW e \in Entries, NEW off \in Nat, server.pg # e,
         fdpage' = [fdpage EXCEPT ![e].fd_offset = off],
         UNCHANGED <<opentab, fsize, fds, opened, cpc, call, panic>>,
         \/ UNCHANGED <<server, fsreq>>
         \/ server.at = "advance" /\ Answer(NoEntry)
  PROVE  FInv'
<1> USE ClientAssumption, TableAssumption
<1>0. TypesInv /\ IdsInv /\ HeldInv /\ GoneInv /\ WaitInv /\ ServerInv /\ ReplyInv
  BY Zenon DEF FInv
<1>1. /\ fdpage' \in FdPage
      /\ \A x \in Entries : /\ fdpage'[x].mapped = fdpage[x].mapped
                            /\ fdpage'[x].id = fdpage[x].id
                            /\ x # e => fdpage'[x] = fdpage[x]
  <2>1. fdpage \in FdPage /\ fdpage[e] \in [mapped : BOOLEAN, id : FileIds,
                               omode : {"RDONLY", "WRONLY", "RDWR"}, fd_offset : Nat]
    BY <1>0, Zenon DEF TypesInv, FdPage
  <2>2. /\ [fdpage[e] EXCEPT !.fd_offset = off] \in
             [mapped : BOOLEAN, id : FileIds,
              omode : {"RDONLY", "WRONLY", "RDWR"}, fd_offset : Nat]
        /\ [fdpage[e] EXCEPT !.fd_offset = off].mapped = fdpage[e].mapped
        /\ [fdpage[e] EXCEPT !.fd_offset = off].id = fdpage[e].id
    BY <2>1, Zenon
  <2>3. fdpage' = [fdpage EXCEPT ![e] = [fdpage[e] EXCEPT !.fd_offset = off]]
    BY Zenon
  <2>4. QED BY <2>1, <2>2, <2>3 DEF FdPage
<1>2. IdsInv' /\ \A x, f : SetUp(x, f) => SetUp(x, f)'
  BY <1>0, <1>1, SameEntries, Zenon
<1>3. HeldInv' /\ GoneInv' /\ WaitInv'
  BY <1>0, <1>2, Zenon DEF HeldInv, GoneInv, WaitInv, IsOpen
<1>4. CASE UNCHANGED <<server, fsreq>>
  <2>1. TypesInv'
    BY <1>0, <1>1, <1>4, Zenon DEF TypesInv
  <2>2. ServerInv'
    BY <1>0, <1>4, Zenon DEF ServerInv
  <2>3. ReplyInv'
    BY <1>0, <1>1, <1>2, <1>4 DEF ReplyInv, SetUp
  <2>4. QED BY <1>0, <1>2, <1>3, <2>1, <2>2, <2>3, Zenon DEF FInv
<1>5. CASE server.at = "advance" /\ Answer(NoEntry)
  <2>1. /\ server' \in Servers /\ server'.at = "reply" /\ server'.pg = NoEntry
        /\ server'.whom = server.whom /\ fsreq' \in Requests
    BY <1>0, <1>5, AnswerMeans, Zenon
  <2>2. TypesInv'
    BY <1>0, <1>1, <2>1, Zenon DEF TypesInv
  <2>3. ServerInv' /\ ReplyInv'
    BY <1>0, <2>1, Zenon DEF ServerInv, ReplyInv
  <2>4. QED BY <1>0, <1>2, <1>3, <2>2, <2>3, Zenon DEF FInv
<1>6. QED BY <1>4, <1>5, Zenon DEF FInv

LEMMA SeekInv ==
  ASSUME FInv, NEW c \in Clients, NEW i \in Fds, NEW off \in Offsets, seek(c, i, off)
  PROVE  FInv'
<1>1. fds[c][i] \in Entries /\ server.pg # fds[c][i] /\ off \in Nat
  BY FileAssumption DEF seek, IsOpen, FInv, TypesInv, ReplyInv
<1>2. /\ fdpage' = [fdpage EXCEPT ![fds[c][i]].fd_offset = off]
      /\ UNCHANGED <<opentab, fsize, fds, opened, cpc, call, panic, server, fsreq>>
  BY Zenon DEF seek, clients
<1>3. QED BY <1>1, <1>2, OffsetInv, ZenonT(60)

LEMMA AdvanceKeepsInv == ASSUME FInv, advance PROVE FInv'
<1>1. Entry \in Entries
  BY TableAssumption DEF FInv, TypesInv, Requests, FileIds, Entry, Entries
<1>2. server.pg # Entry
  BY <1>1, TableAssumption, Zenon DEF advance, FInv, ServerInv, Entries
<1>3. fdpage[Entry].fd_offset + server.r \in Nat
  BY <1>1 DEF FInv, TypesInv, FdPage, Servers
<1>4. /\ fdpage' = [fdpage EXCEPT ![Entry].fd_offset = fdpage[Entry].fd_offset + server.r]
      /\ UNCHANGED <<opentab, fsize, fds, opened, cpc, call, panic>>
      /\ server.at = "advance" /\ Answer(NoEntry)
  BY Zenon DEF advance, clients
<1>5. QED BY <1>1, <1>2, <1>3, <1>4, OffsetInv, ZenonT(60)
-----------------------------------------------------------------------------
(* The server's steps.                                                     *)

(* An answer without a page, once the entries that are held are as before. *)
LEMMA AnswerInv ==
  ASSUME FInv, Answer(NoEntry), UNCHANGED <<fds, opened, cpc, call, panic>>,
         opentab' \in OpenTab, fdpage' \in FdPage, fsize' \in [Paths -> Nat \cup {-1}],
         IdsInv',
         \A c \in Clients, i \in Fds : IsOpen(c, i) => SetUp(fds[c][i], opened[c][i])'
  PROVE  FInv'
<1>0. TypesInv /\ IdsInv /\ HeldInv /\ GoneInv /\ WaitInv /\ ServerInv /\ ReplyInv
  BY Zenon DEF FInv
<1>1. /\ server' \in Servers /\ server'.at = "reply" /\ server'.pg = NoEntry
      /\ server'.whom = server.whom /\ fsreq' \in Requests
  BY <1>0, AnswerMeans, Zenon
<1>2. TypesInv'
  BY <1>0, <1>1, Zenon DEF TypesInv
<1>3. HeldInv' /\ GoneInv' /\ WaitInv'
  BY <1>0, Zenon DEF HeldInv, GoneInv, WaitInv, IsOpen
<1>4. ServerInv' /\ ReplyInv'
  BY <1>0, <1>1, Zenon DEF ServerInv, ReplyInv
<1>5. QED BY <1>2, <1>3, <1>4, Zenon DEF FInv

(* The common case: the table and the Fd pages are as they were.           *)
LEMMA PlainAnswerInv ==
  ASSUME FInv, Answer(NoEntry), UNCHANGED <<opentab, fdpage, fds, opened, cpc, call, panic>>,
         fsize' \in [Paths -> Nat \cup {-1}]
  PROVE  FInv'
<1>1. opentab' \in OpenTab /\ fdpage' \in FdPage /\ IdsInv'
  BY SameEntries, Zenon DEF FInv, TypesInv
<1>2. \A c \in Clients, i \in Fds : IsOpen(c, i) => SetUp(fds[c][i], opened[c][i])'
  BY SameEntries, Zenon DEF FInv, HeldInv, SetUp
<1>3. QED BY <1>1, <1>2, AnswerInv, Zenon

LEMMA NewIdInv ==
  ASSUME FInv, NEW e \in Entries, NEW f \in Paths \cup {NoPath}, NEW page,
         pageref(e) <= 1,
         page \in [mapped : BOOLEAN, id : FileIds,
                   omode : {"RDONLY", "WRONLY", "RDWR"}, fd_offset : Nat],
         opentab' = [opentab EXCEPT ![e] = [o_fileid |-> NextFileId(e), o_file |-> f]],
         fdpage' = [fdpage EXCEPT ![e] = page],
         UNCHANGED <<fds, opened>>
  PROVE  /\ opentab' \in OpenTab /\ fdpage' \in FdPage /\ IdsInv'
         /\ opentab'[e] = [o_fileid |-> NextFileId(e), o_file |-> f] /\ fdpage'[e] = page
         /\ \A c \in Clients, i \in Fds : fds[c][i] # e
         /\ \A c \in Clients, i \in Fds : IsOpen(c, i) => SetUp(fds[c][i], opened[c][i])'
<1>0. TypesInv /\ IdsInv /\ HeldInv /\ GoneInv /\ WaitInv /\ ServerInv /\ ReplyInv
  BY Zenon DEF FInv
<1>1. NextFileId(e) \in FileIds /\ NextFileId(e) % MAXOPEN = e
  BY <1>0, NextFileIdGood, Zenon DEF TypesInv
<1>2. opentab \in OpenTab /\ fdpage \in FdPage
  BY <1>0, Zenon DEF TypesInv
<1>3. [o_fileid |-> NextFileId(e), o_file |-> f] \in
        [o_fileid : FileIds, o_file : Paths \cup {NoPath}]
  BY <1>1, Zenon
<1>4. /\ opentab' \in OpenTab /\ fdpage' \in FdPage
      /\ opentab'[e] = [o_fileid |-> NextFileId(e), o_file |-> f] /\ fdpage'[e] = page
      /\ \A x \in Entries : x # e => opentab'[x] = opentab[x] /\ fdpage'[x] = fdpage[x]
  BY <1>2, <1>3, Zenon DEF OpenTab, FdPage
<1>5. IdsInv'
  BY <1>0, <1>1, <1>4 DEF IdsInv
<1>6. \A c \in Clients, i \in Fds : fds[c][i] # e
  BY <1>0, AvailableIsFree, Zenon
<1>7. ASSUME NEW c \in Clients, NEW i \in Fds, IsOpen(c, i)
      PROVE  SetUp(fds[c][i], opened[c][i])'
  <2>1. SetUp(fds[c][i], opened[c][i]) /\ fds[c][i] # e
    BY <1>0, <1>6, <1>7, Zenon DEF HeldInv
  <2>2. QED BY <1>4, <2>1 DEF SetUp
<1>8. QED BY <1>4, <1>5, <1>6, <1>7, Zenon DEF FInv

LEMMA OpenEntryInv ==
  ASSUME FInv, Serving("open"), NEW e \in Entries, pageref(e) <= 1,
         UNCHANGED <<fds, opened, cpc, call, panic>>,
         open_entry(e, fsreq.path, fsreq.mode)
  PROVE  FInv'
<1>0. TypesInv /\ IdsInv /\ HeldInv /\ GoneInv /\ WaitInv /\ ServerInv /\ ReplyInv
  BY Zenon DEF FInv
<1> DEFINE f == fsreq.path
           mode == fsreq.mode
           page == [mapped |-> TRUE, id |-> NextFileId(e), omode |-> mode.acc, fd_offset |-> 0]
<1>1. f \in Paths /\ mode \in Omodes /\ server.pg = NoEntry
  BY <1>0, Zenon DEF Serving, ServerInv
<1>2. /\ opentab' = [opentab EXCEPT ![e] = [o_fileid |-> NextFileId(e), o_file |-> f]]
      /\ fdpage' = [fdpage EXCEPT ![e] = page]
      /\ fsize' = [fsize EXCEPT ![f] = IF mode.trunc \/ ~ Exists(f) THEN 0 ELSE @]
      /\ Answer(e)
  BY Zenon DEF open_entry
<1>3. NextFileId(e) \in FileIds
  BY <1>0, NextFileIdGood, Zenon DEF TypesInv
<1>4. mode.acc \in {"RDONLY", "WRONLY", "RDWR"} /\ mode.trunc \in BOOLEAN
  BY <1>1, FileAssumption, Zenon
<1>5. page \in [mapped : BOOLEAN, id : FileIds,
                omode : {"RDONLY", "WRONLY", "RDWR"}, fd_offset : Nat]
  BY <1>3, <1>4, Zenon
<1> HIDE DEF f, mode, page
<1>6. /\ opentab' \in OpenTab /\ fdpage' \in FdPage /\ IdsInv'
      /\ opentab'[e] = [o_fileid |-> NextFileId(e), o_file |-> f] /\ fdpage'[e] = page
      /\ \A c \in Clients, i \in Fds : fds[c][i] # e
      /\ \A c \in Clients, i \in Fds : IsOpen(c, i) => SetUp(fds[c][i], opened[c][i])'
  BY <1>1, <1>2, <1>5, NewIdInv, ZenonT(60)
<1>7. fsize' \in [Paths -> Nat \cup {-1}] /\ fsize'[f] >= 0
  BY <1>0, <1>1, <1>2, <1>4 DEF TypesInv, Exists
<1>8. /\ server' \in Servers /\ server'.at = "reply" /\ server'.pg = e
      /\ server'.whom = server.whom /\ fsreq' \in Requests /\ fsreq'.path = f
  BY <1>0, <1>2, AnswerMeans, Zenon DEF f
<1>9. TypesInv'
  BY <1>0, <1>6, <1>7, <1>8, ZenonT(60) DEF TypesInv
<1>10. HeldInv' /\ GoneInv' /\ WaitInv'
  BY <1>0, <1>6, Zenon DEF HeldInv, GoneInv, WaitInv, IsOpen
<1>11. ServerInv'
  BY <1>0, <1>8, Zenon DEF ServerInv
<1>12. /\ fdpage'[e].mapped /\ fdpage'[e].id = opentab'[e].o_fileid
       /\ opentab'[e].o_file = f /\ fdpage'[e].fd_offset = 0
  <2>1. opentab'[e] = [o_fileid |-> NextFileId(e), o_file |-> f] /\ fdpage'[e] = page
    BY <1>6, ZenonT(60)
  <2>2. page.mapped /\ page.id = NextFileId(e) /\ page.fd_offset = 0
    BY ZenonT(60) DEF page
  <2>3. opentab'[e].o_fileid = NextFileId(e) /\ opentab'[e].o_file = f
    BY <2>1
  <2>4. QED BY <2>1, <2>2, <2>3, Zenon
<1>13. server.whom \in Clients => call[server.whom].op = "open"
  BY <1>0, Zenon DEF ServerInv, Serving
<1>14. ReplyInv'
  <2>1. SetUp(server.pg, fsreq.path)'
    BY <1>1, <1>8, <1>12, Zenon DEF SetUp
  <2>2. fdpage'[server'.pg].fd_offset = 0 /\ fsize'[fsreq'.path] >= 0
    BY <1>7, <1>8, <1>12, Zenon
  <2>3. \A c \in Clients, i \in Fds : fds'[c][i] # server'.pg
    BY <1>6, <1>8, ZenonT(60)
  <2>4. server'.whom \in Clients => call'[server'.whom].op = "open"
    BY <1>8, <1>13, ZenonT(60)
  <2>5. QED BY <1>8, <2>1, <2>2, <2>3, <2>4, ZenonT(60) DEF ReplyInv
<1>15. QED BY <1>6, <1>9, <1>10, <1>11, <1>14, Zenon DEF FInv

LEMMA ServeOpenInv == ASSUME FInv, serve_open PROVE FInv'
<1>1. /\ Serving("open") /\ UNCHANGED <<fds, opened, cpc, call, panic>>
      /\ fsize \in [Paths -> Nat \cup {-1}]
  BY Zenon DEF serve_open, clients, FInv, TypesInv
<1>2. CASE Answer(NoEntry) /\ UNCHANGED tables
  BY <1>1, <1>2, PlainAnswerInv, Zenon DEF tables
<1>3. ASSUME NEW e \in Entries, Available(e), open_entry(e, fsreq.path, fsreq.mode) PROVE FInv'
  BY <1>1, <1>3, OpenEntryInv, Zenon DEF Available
<1>4. ASSUME NEW e \in Entries, Available(e), openfile_alloc(e), Answer(NoEntry), UNCHANGED fsize
      PROVE  FInv'
  <2>1. PICK f \in Paths \cup {NoPath} : f = opentab[e].o_file
    BY Zenon DEF FInv, TypesInv, OpenTab
  <2>2. opentab' = [opentab EXCEPT ![e] = [o_fileid |-> NextFileId(e), o_file |-> f]]
    <3>1. opentab \in OpenTab /\ opentab' = [opentab EXCEPT ![e].o_fileid = NextFileId(e)]
      BY <1>4, Zenon DEF openfile_alloc, FInv, TypesInv
    <3>2. opentab[e] \in [o_fileid : FileIds, o_file : Paths \cup {NoPath}]
      BY <3>1, Zenon DEF OpenTab
    <3>3. [opentab[e] EXCEPT !.o_fileid = NextFileId(e)]
            = [o_fileid |-> NextFileId(e), o_file |-> f]
      BY <2>1, <3>2
    <3>4. opentab' = [opentab EXCEPT ![e] = [opentab[e] EXCEPT !.o_fileid = NextFileId(e)]]
      BY <3>1, Zenon
    <3>5. QED BY <3>3, <3>4, ZenonT(60)
  <2>3. PICK page : page = [NoFd EXCEPT !.mapped = TRUE]
    BY ZenonT(60)
  <2>4. page \in [mapped : BOOLEAN, id : FileIds,
                  omode : {"RDONLY", "WRONLY", "RDWR"}, fd_offset : Nat]
    <3>1. 0 \in FileIds
      BY TableAssumption DEF FileIds
    <3>2. page = [mapped |-> TRUE, id |-> 0, omode |-> "RDONLY", fd_offset |-> 0]
      BY <2>3, ZenonT(60) DEF NoFd
    <3>3. QED BY <3>1, <3>2, Zenon
  <2>5. fdpage' = [fdpage EXCEPT ![e] = page]
    BY <1>4, <2>3, Zenon DEF openfile_alloc
  <2>6. /\ opentab' \in OpenTab /\ fdpage' \in FdPage /\ IdsInv'
        /\ \A c \in Clients, i \in Fds : IsOpen(c, i) => SetUp(fds[c][i], opened[c][i])'
    BY <1>1, <1>4, <2>2, <2>4, <2>5, NewIdInv, ZenonT(60) DEF Available
  <2>7. QED BY <1>1, <1>4, <2>6, AnswerInv, Zenon
<1>5. QED BY <1>2, <1>3, <1>4, Zenon DEF serve_open

(* Bytes have moved, and fd_offset is next.                                *)
LEMMA MovedInv ==
  ASSUME FInv, server.at = "serve", NEW r \in Nat, Moved(r),
         UNCHANGED <<opentab, fdpage, fds, opened, cpc, call, panic, fsreq>>,
         fsize' \in [Paths -> Nat \cup {-1}]
  PROVE  FInv'
<1>0. TypesInv /\ IdsInv /\ HeldInv /\ GoneInv /\ WaitInv /\ ServerInv /\ ReplyInv
  BY Zenon DEF FInv
<1>1. server \in Servers /\ server' = [server EXCEPT !.at = "advance", !.r = r]
  BY <1>0, Zenon DEF Moved, TypesInv
<1>2. /\ server' \in Servers /\ server'.at = "advance" /\ server'.pg = NoEntry
      /\ server'.whom = server.whom /\ server'.r = r
  BY <1>0, <1>1, ZenonT(60) DEF Servers, ServerInv
<1>3. TypesInv'
  BY <1>0, <1>2, Zenon DEF TypesInv
<1>4. IdsInv' /\ HeldInv' /\ GoneInv' /\ WaitInv'
  BY <1>0, SameEntries, Zenon DEF HeldInv, GoneInv, WaitInv, IsOpen
<1>5. ServerInv' /\ ReplyInv'
  BY <1>0, <1>2, Zenon DEF ServerInv, ReplyInv
<1>6. QED BY <1>3, <1>4, <1>5, Zenon DEF FInv

LEMMA SmallerMeans ==
  ASSUME NEW m \in Nat, NEW n \in Nat
  PROVE  Smaller(m, n) \in Nat /\ Smaller(m, n) <= m /\ Smaller(m, n) <= n
BY DEF Smaller

LEMMA FileTypes ==
  ASSUME FInv, openfile_lookup(fsreq.id)
  PROVE  /\ Entry \in Entries /\ File \in Paths /\ Offset \in Nat /\ fsreq.n \in Nat
         /\ fsize \in [Paths -> Nat \cup {-1}] /\ fsize[File] \in Nat \cup {-1}
<1>1. Entry \in Entries /\ File \in Paths
  BY FoundIsHeld, Zenon
<1>2. Offset \in Nat
  BY <1>1, Zenon DEF FInv, TypesInv, FdPage, Offset
<1>3. fsreq.n \in Nat
  BY Zenon DEF FInv, TypesInv, Requests
<1>4. QED BY <1>1, <1>2, <1>3, Zenon DEF FInv, TypesInv

(* What serve_read moves lies in the file.                                 *)
LEMMA ReadMoves ==
  ASSUME FInv, serve_read
  PROVE  \/ Answer(NoEntry)
         \/ /\ UNCHANGED fsreq
            /\ \E r \in Nat : Moved(r) /\ (r = 0 \/ Offset + r <= fsize[File])
<1>1. /\ Offset \in Nat /\ fsreq.n \in Nat /\ fsize[File] \in Nat \cup {-1}
  BY FileTypes, Zenon DEF serve_read, ServingFile
<1>2. CASE Offset >= fsize[File] /\ Moved(0) /\ UNCHANGED fsreq
  BY <1>2
<1>3. CASE ~ (Offset >= fsize[File]) /\ Moved(Smaller(fsreq.n, fsize[File] - Offset))
             /\ UNCHANGED fsreq
  <2>1. PICK m \in Nat : m = fsize[File] - Offset
    BY <1>1, <1>3
  <2>2. PICK n \in Nat : n = fsreq.n
    BY <1>1, Zenon
  <2>3. PICK r \in Nat : r = Smaller(n, m) /\ r <= m
    BY SmallerMeans, Zenon
  <2>4. Moved(r) /\ UNCHANGED fsreq
    BY <1>3, <2>1, <2>2, <2>3, Zenon
  <2>5. Offset + r <= fsize[File]
    BY <1>1, <2>1, <2>3
  <2>6. QED BY <2>4, <2>5, Zenon
<1>4. QED BY <1>2, <1>3, Zenon DEF serve_read

LEMMA ServeReadInv == ASSUME FInv, serve_read PROVE FInv'
<1>1. /\ server.at = "serve" /\ openfile_lookup(fsreq.id)
      /\ UNCHANGED <<opentab, fdpage, fsize, fds, opened, cpc, call, panic>>
  BY Zenon DEF serve_read, ServingFile, Serving, tables, clients
<1>2. fsize \in [Paths -> Nat \cup {-1}]
  BY Zenon DEF FInv, TypesInv
<1>3. CASE Answer(NoEntry)
  BY <1>1, <1>2, <1>3, PlainAnswerInv, Zenon
<1>4. ASSUME NEW r \in Nat, Moved(r), UNCHANGED fsreq PROVE FInv'
  BY <1>1, <1>2, <1>4, MovedInv, Zenon
<1>5. QED BY <1>3, <1>4, ReadMoves, Zenon

LEMMA ServeWriteInv == ASSUME FInv, serve_write PROVE FInv'
<1>1. /\ server.at = "serve" /\ openfile_lookup(fsreq.id)
      /\ UNCHANGED <<opentab, fdpage, fds, opened, cpc, call, panic>>
      /\ fsize' = [fsize EXCEPT ![File] = IF Offset + fsreq.n > @ THEN Offset + fsreq.n ELSE @]
  BY Zenon DEF serve_write, ServingFile, Serving, clients
<1>2. /\ Entry \in Entries /\ File \in Paths /\ Offset \in Nat /\ fsreq.n \in Nat
      /\ fsize \in [Paths -> Nat \cup {-1}] /\ fsize[File] \in Nat \cup {-1}
  BY <1>1, FileTypes, Zenon
<1>3. fsize' \in [Paths -> Nat \cup {-1}]
  BY <1>1, <1>2
<1>4. CASE Answer(NoEntry)
  BY <1>1, <1>3, <1>4, PlainAnswerInv, Zenon
<1>5. CASE Moved(fsreq.n) /\ UNCHANGED fsreq
  BY <1>1, <1>2, <1>3, <1>5, MovedInv, Zenon
<1>6. QED BY <1>4, <1>5, Zenon DEF serve_write

LEMMA ServeOthersInv ==
  ASSUME FInv, serve_lookup_fails \/ serve_set_size \/ serve_stat_flush_sync
  PROVE  FInv'
<1>1. fsize \in [Paths -> Nat \cup {-1}]
  BY Zenon DEF FInv, TypesInv
<1>2. CASE serve_lookup_fails \/ serve_stat_flush_sync
  BY <1>1, <1>2, PlainAnswerInv, Zenon DEF serve_lookup_fails, serve_stat_flush_sync, tables, clients
<1>3. CASE serve_set_size
  <2>1. fsreq.n \in Nat
    BY <1>3, FileTypes, Zenon DEF serve_set_size, ServingFile
  <2>2. fsize' \in [Paths -> Nat \cup {-1}]
    BY <1>1, <1>3, <2>1, ZenonT(60) DEF serve_set_size
  <2>3. QED BY <1>3, <2>2, PlainAnswerInv, Zenon DEF serve_set_size, clients
<1>4. QED BY <1>2, <1>3, Zenon

(* The page, if any, goes to the descriptor that waits for it.             *)
LEMMA ReplyKeepsInv == ASSUME FInv, serve_reply PROVE FInv'
<1> USE ClientAssumption, TableAssumption
<1>0. TypesInv /\ IdsInv /\ HeldInv /\ GoneInv /\ WaitInv /\ ServerInv /\ ReplyInv
  BY Zenon DEF FInv
<1> DEFINE c == server.whom
           i == call[c].fd
<1>1. c \in Clients /\ i \in Fds /\ cpc[c] = "recv" /\ server.at = "reply" /\ call[c] \in Calls
  BY <1>0, Zenon DEF serve_reply, TypesInv, Servers, Calls
<1>2. /\ UNCHANGED <<opentab, fdpage, fsize, panic>>
      /\ server' = NotServing /\ fsreq' = NoRequest
      /\ cpc' = [cpc EXCEPT ![c] = AfterAnswer(c, server.r)]
      /\ call' = [call EXCEPT ![c] = IF AfterAnswer(c, server.r) = "user" THEN NoCall ELSE @]
      /\ IF server.pg = NoEntry
         THEN UNCHANGED <<fds, opened>>
         ELSE /\ fds' = [fds EXCEPT ![c][i] = server.pg]
              /\ opened' = [opened EXCEPT ![c][i] = fsreq.path]
  BY Zenon DEF serve_reply, tables
<1>3. AfterAnswer(c, server.r) \in {"user", "done"}
  BY Zenon DEF AfterAnswer
<1> HIDE DEF c, i
<1>4. cpc' \in [Clients -> Places] /\ cpc'[c] \in {"user", "done"}
      /\ \A d \in Clients : d # c => cpc'[d] = cpc[d] /\ call'[d] = call[d]
  BY <1>0, <1>1, <1>2, <1>3, Zenon DEF TypesInv, Places
<1>5. NoCall \in Calls /\ NotServing \in Servers /\ NoRequest \in Requests
  BY DEF NoCall, Calls, Ops, Fds, NotServing, Servers, NoRequest, Requests, Types, FileIds
<1>6. call' \in [Clients -> Calls]
  BY <1>0, <1>1, <1>2, <1>5, Zenon DEF TypesInv
<1>7. /\ fds' \in [Clients -> [Fds -> Entries \cup {NoEntry}]]
      /\ opened' \in [Clients -> [Fds -> Paths \cup {NoPath}]]
      /\ \A d \in Clients, j \in Fds :
           \/ fds'[d][j] = fds[d][j] /\ opened'[d][j] = opened[d][j]
           \/ d = c /\ server.pg # NoEntry /\ fds'[d][j] = server.pg /\ opened'[d][j] = fsreq.path
      /\ \A d \in Clients : d # c => fds'[d] = fds[d]
  <2>1. server.pg \in Entries \cup {NoEntry} /\ fsreq.path \in Paths \cup {NoPath}
    BY <1>0, Zenon DEF TypesInv, Servers, Requests
  <2>2. /\ fds \in [Clients -> [Fds -> Entries \cup {NoEntry}]]
        /\ opened \in [Clients -> [Fds -> Paths \cup {NoPath}]]
    BY <1>0, Zenon DEF TypesInv
  <2>3. CASE server.pg = NoEntry
    <3>1. fds' = fds /\ opened' = opened
      BY <1>2, <2>3, Zenon
    <3>2. QED BY <2>2, <3>1, Zenon
  <2>4. CASE server.pg # NoEntry
    <3>1. /\ fds' = [fds EXCEPT ![c] = [fds[c] EXCEPT ![i] = server.pg]]
          /\ opened' = [opened EXCEPT ![c] = [opened[c] EXCEPT ![i] = fsreq.path]]
      BY <1>2, <2>4, Zenon
    <3>2. /\ fds' \in [Clients -> [Fds -> Entries \cup {NoEntry}]]
          /\ opened' \in [Clients -> [Fds -> Paths \cup {NoPath}]]
      BY <1>1, <2>1, <2>2, <3>1, Zenon
    <3>3. \A d \in Clients : d # c => fds'[d] = fds[d] /\ opened'[d] = opened[d]
      BY <2>2, <3>1, Zenon
    <3>4. \A j \in Fds :
            \/ fds'[c][j] = fds[c][j] /\ opened'[c][j] = opened[c][j]
            \/ fds'[c][j] = server.pg /\ opened'[c][j] = fsreq.path
      BY <1>1, <2>2, <3>1, Zenon
    <3>5. QED BY <1>1, <2>4, <3>2, <3>3, <3>4
  <2>5. QED BY <2>3, <2>4, Zenon
<1>8. TypesInv'
  BY <1>0, <1>2, <1>4, <1>5, <1>6, <1>7, Zenon DEF TypesInv
<1>9. IdsInv' /\ \A e, f : SetUp(e, f) => SetUp(e, f)'
  BY <1>0, <1>2, SameEntries, Zenon
<1>10. HeldInv'
  <2>1. ASSUME NEW d \in Clients, NEW j \in Fds, fds'[d][j] # NoEntry
        PROVE  SetUp(fds'[d][j], opened'[d][j])
    BY <1>0, <1>7, <2>1 DEF HeldInv, IsOpen, ReplyInv
  <2>2. QED BY <1>0, <1>9, <2>1, Zenon DEF HeldInv, IsOpen
<1>11. GoneInv'
  BY <1>0, <1>2, <1>4, <1>7, Zenon DEF GoneInv
<1>12. WaitInv'
  <2> SUFFICES ASSUME NEW d \in Clients, cpc'[d] \in {"sent", "recv"}, call'[d].op = "open"
               PROVE  ~ IsOpen(d, call[d].fd)'
    BY Zenon DEF WaitInv
  <2>1. d # c
    BY <1>4, Zenon
  <2>2. cpc'[d] = cpc[d] /\ call'[d] = call[d] /\ fds'[d] = fds[d]
    BY <1>4, <1>7, <2>1, Zenon
  <2>3. QED BY <1>0, <2>2, Zenon DEF WaitInv, IsOpen
<1>13. ServerInv' /\ ReplyInv'
  BY <1>0, <1>2, Zenon DEF ServerInv, ReplyInv, NotServing
<1>14. QED BY <1>8, <1>9, <1>10, <1>11, <1>12, <1>13, Zenon DEF FInv

LEMMA ServeInv == ASSUME FInv, serve PROVE FInv'
<1>1. serve_panic => FInv'
  BY PanicInv, Zenon DEF serve_panic
<1>2. QED BY <1>1, ServeOpenInv, ServeReadInv, ServeWriteInv, AdvanceKeepsInv, ServeOthersInv,
             ReplyKeepsInv, Zenon DEF serve

(* exit flushes one descriptor more, or ends the environment.              *)
LEMMA ExitInv == ASSUME FInv, NEW c \in Clients, exit(c) PROVE FInv'
<1>1. cpc[c] \in {"user", "exit"}
  BY Zenon DEF exit
<1>2. CASE env_destroy(c)
  BY <1>2, DestroyInv, Zenon
<1>3. ASSUME NEW i \in Fds, IsOpen(c, i), Flush(c, "exit", i, i) PROVE FInv'
  BY <1>1, <1>3, CallInv, Zenon
<1>4. QED BY <1>2, <1>3, Zenon DEF exit

LEMMA DupCallInv ==
  ASSUME FInv, NEW c \in Clients, NEW i \in Fds, NEW j \in Fds, dup(c, i, j)
  PROVE  FInv'
<1>1. cpc[c] = "user" /\ IsOpen(c, i)
  BY Zenon DEF dup, Idle
<1>2. CASE IsOpen(c, j)
  <2>1. Flush(c, "dup", j, i)
    BY <1>2, Zenon DEF dup
  <2>2. QED BY <1>1, <1>2, <2>1, CallInv, Zenon
<1>3. CASE ~ IsOpen(c, j)
  BY <1>1, <1>3, DupInv, Zenon DEF dup, tables
<1>4. QED BY <1>2, <1>3, Zenon

LEMMA InCallInv == ASSUME FInv, NEW c \in Clients, InCall(c) PROVE FInv'
<1>1. CASE sync_panic(c) \/ read_panic(c)
  BY <1>1, PanicInv, Zenon DEF sync_panic, read_panic
<1>2. CASE dup_map(c)
  <2>1. call[c].to \in Fds /\ call[c].fd \in Fds
    BY Zenon DEF FInv, TypesInv, Calls
  <2>2. QED BY <1>2, <2>1, DupInv, ZenonT(60) DEF dup_map, tables
<1>3. QED BY <1>1, <1>2, RecvInv, CloseInv, Zenon DEF InCall

(* Nothing changes.                                                        *)
LEMMA StutterInv == ASSUME FInv, UNCHANGED fsVars PROVE FInv'
<1>1. /\ UNCHANGED <<opentab, fdpage, fsize, fds, opened>>
      /\ UNCHANGED <<cpc, call, server, fsreq, panic>>
  BY Zenon DEF fsVars
<1>2. TypesInv'
  BY <1>1, ZenonT(60) DEF FInv, TypesInv
<1>3. IdsInv' /\ HeldInv'
  BY <1>1, ZenonT(60) DEF FInv, IdsInv, HeldInv, SetUp, IsOpen
<1>4. GoneInv' /\ WaitInv'
  BY <1>1, ZenonT(60) DEF FInv, GoneInv, WaitInv, IsOpen
<1>5. ServerInv'
  BY <1>1, ZenonT(60) DEF FInv, ServerInv
<1>6. ReplyInv'
  BY <1>1, ZenonT(60) DEF FInv, ReplyInv, SetUp
<1>7. QED BY <1>2, <1>3, <1>4, <1>5, <1>6, Zenon DEF FInv

LEMMA StepInv == FInv /\ [FsNext]_fsVars => FInv'
<1> SUFFICES ASSUME FInv, [FsNext]_fsVars PROVE FInv'
  BY Zenon
<1>1. CASE UNCHANGED fsVars
  BY <1>1, StutterInv, Zenon
<1>2. ASSUME NEW c \in Clients,
             \/ sync(c)
             \/ \E f \in Paths, mode \in Omodes : open(c, f, mode)
             \/ \E i \in Fds : \/ fstat(c, i)
                               \/ \E n \in Counts : read(c, i, n) \/ write(c, i, n)
                               \/ \E n \in Sizes : ftruncate(c, i, n)
      PROVE  FInv'
  <2>1. cpc[c] = "user"
    BY <1>2, ZenonT(60) DEF sync, open, fstat, read, write, ftruncate, Idle
  <2>2. QED BY <1>2, <2>1, CallInv, Zenon
<1>3. ASSUME NEW c \in Clients, NEW i \in Fds, close(c, i) PROVE FInv'
  BY <1>3, CallInv, Zenon DEF close, Idle
<1>4. ASSUME NEW c \in Clients, NEW i \in Fds, NEW off \in Offsets, seek(c, i, off) PROVE FInv'
  BY <1>4, SeekInv, Zenon
<1>5. ASSUME NEW c \in Clients, NEW i \in Fds, NEW j \in Fds, dup(c, i, j) PROVE FInv'
  BY <1>5, DupCallInv, Zenon
<1>6. ASSUME NEW c \in Clients, exit(c) \/ Kill(c) PROVE FInv'
  BY <1>6, ExitInv, DestroyInv, Zenon DEF Kill
<1>7. ASSUME NEW c \in Clients,
             \/ InCall(c)
             \/ \E d \in Clients : fork(c, d) \/ \E n \in Fds : fork_killed(c, d, n)
      PROVE  FInv'
  BY <1>7, InCallInv, ForkInv, ForkKilledInv, Zenon
<1>8. CASE serve
  BY <1>8, ServeInv, Zenon
<1>9. QED BY <1>1, <1>2, <1>3, <1>4, <1>5, <1>6, <1>7, <1>8, Zenon DEF FsNext, FsCalls

LEMMA InvHolds == FsSpec => []FInv
BY InitInv, StepInv, PTL DEF FsSpec

(* For any number of clients, descriptors and entries: as long as a        *)
(* descriptor is open, openfile_lookup finds, under the id in its Fd page, *)
(* the file that was opened (fs/serv.c:63-97).                             *)
THEOREM DescriptorsNameTheirFiles == FsSpec => []FdNamesItsFile
<1>1. FInv => FdNamesItsFile
  <2> SUFFICES ASSUME FInv, NEW c \in Clients, NEW i \in Fds, IsOpen(c, i)
               PROVE  /\ openfile_lookup(FileId(c, i))
                      /\ FileId(c, i) % MAXOPEN = fds[c][i]
                      /\ opentab[fds[c][i]].o_file = opened[c][i]
    BY Zenon DEF FdNamesItsFile
  <2>1. SetUp(fds[c][i], opened[c][i]) /\ IdsInv /\ fdpage \in FdPage
    BY Zenon DEF FInv, HeldInv, TypesInv
  <2>2. FileId(c, i) = opentab[fds[c][i]].o_fileid /\ FileId(c, i) % MAXOPEN = fds[c][i]
    BY <2>1, Zenon DEF SetUp, IdsInv, FileId
  <2>3. pageref(fds[c][i]) > 1
    BY <2>1, PagerefMeans, Zenon DEF SetUp
  <2>4. QED BY <2>1, <2>2, <2>3, Zenon DEF openfile_lookup, SetUp
<1>2. QED BY <1>1, InvHolds, PTL
-----------------------------------------------------------------------------
(* The refinement: each step is a step of OpenFiles, or none.              *)

Desc == [e \in Entries |-> Description(e)]

LEMMA DescValue ==
  ASSUME NEW e \in Entries
  PROVE  /\ Desc[e] = IF O!InUse(fds, e)
                      THEN [file |-> opentab[e].o_file, pos |-> fdpage[e].fd_offset] ELSE NoEntry
         /\ Desc'[e] = IF O!InUse(fds', e)
                       THEN [file |-> opentab'[e].o_file, pos |-> fdpage'[e].fd_offset]
                       ELSE NoEntry
BY Zenon DEF Desc, Description, O!InUse

(* Descriptions stay while those in use keep their file and position, and  *)
(* go with their last descriptor.                                          *)
LEMMA DescDropped ==
  ASSUME \A e \in Entries : O!InUse(fds', e) => O!InUse(fds, e),
         \A e \in Entries : O!InUse(fds', e) =>
           opentab'[e].o_file = opentab[e].o_file /\ fdpage'[e].fd_offset = fdpage[e].fd_offset
  PROVE  Desc' = O!Dropped(fds')
<1>1. \A e \in Entries : Desc'[e] = IF O!InUse(fds', e) THEN Desc[e] ELSE NoEntry
  BY DescValue, ZenonT(60)
<1>2. Desc' = [e \in Entries |-> Desc'[e]]
  BY Zenon DEF Desc
<1>3. O!Dropped(fds') = [e \in Entries |-> IF O!InUse(fds', e) THEN Desc[e] ELSE NoEntry]
  BY Zenon DEF O!Dropped, Desc
<1>4. QED BY <1>1, <1>2, <1>3, Zenon

LEMMA DescSame ==
  ASSUME \A e \in Entries : O!InUse(fds', e) <=> O!InUse(fds, e),
         \A e \in Entries : O!InUse(fds, e) =>
           opentab'[e].o_file = opentab[e].o_file /\ fdpage'[e].fd_offset = fdpage[e].fd_offset
  PROVE  Desc' = Desc
<1>1. \A e \in Entries : Desc'[e] = Desc[e]
  BY DescValue, ZenonT(60)
<1>2. Desc' = [e \in Entries |-> Desc'[e]] /\ Desc = [e \in Entries |-> Desc[e]]
  BY Zenon DEF Desc
<1>3. QED BY <1>1, <1>2, Zenon

(* No transfer begins or ends, and nobody panics.                          *)
Quiet == UnderWay' = UnderWay /\ Stopped' = Stopped

LEMMA QuietServer ==
  ASSUME panic' = panic,
         \/ server.at # "advance" /\ server'.at # "advance"
         \/ server'.at = server.at /\ server'.r = server.r /\ fsreq'.id = fsreq.id
  PROVE  Quiet
BY Zenon DEF Quiet, UnderWay, Stopped, Entry

LEMMA QuietAnswer ==
  ASSUME FInv, server.at # "advance", NEW pg, Answer(pg), panic' = panic
  PROVE  Quiet
<1>1. server'.at = "reply"
  BY Zenon DEF FInv, TypesInv, Servers, Answer
<1>2. QED BY <1>1, QuietServer, Zenon

(* Steps that change nothing clients were promised.                        *)
LEMMA Stutters ==
  ASSUME UNCHANGED <<opentab, fdpage, fsize, fds>>, Quiet
  PROVE  UNCHANGED O!vars
<1>1. Desc' = Desc
  BY DescSame, Zenon
<1>2. QED BY <1>1, Zenon DEF O!vars, Desc, Quiet

(* panic().                                                                *)
LEMMA PanicStep ==
  ASSUME panic = "nobody", NEW who, who # "nobody", Panic(who)
  PROVE  O!Next
<1>1. UNCHANGED <<opentab, fdpage, fsize, fds>> /\ server' = NotServing /\ panic' = who
  BY Zenon DEF Panic, tables
<1>2. Desc' = Desc
  BY <1>1, DescSame, Zenon
<1>3. UnderWay' = [key |-> NoEntry, bytes |-> 0]
  BY <1>1, Zenon DEF UnderWay, NotServing
<1>4. Stopped' = TRUE /\ ~ Stopped
  BY <1>1, Zenon DEF Stopped
<1>5. O!Stop
  BY <1>1, <1>2, <1>3, <1>4, Zenon DEF O!Stop, O!NoTransfer, Desc
<1>6. QED BY <1>4, <1>5, Zenon DEF O!Next

LEMMA ResizeStep ==
  ASSUME Quiet, ~ Stopped, NEW f \in Paths, NEW n, fsize' = [fsize EXCEPT ![f] = n],
         fsize \in [Paths -> Nat \cup {-1}],
         fds' = fds,
         \A e \in Entries : O!InUse(fds, e) =>
           opentab'[e].o_file = opentab[e].o_file /\ fdpage'[e].fd_offset = fdpage[e].fd_offset
  PROVE  O!Next
<1>1. Desc' = Desc
  BY DescSame, Zenon
<1>2. fsize' = [fsize EXCEPT ![f] = fsize'[f]]
  BY Zenon
<1>3. O!Resize(f)
  BY <1>1, <1>2, Zenon DEF O!Resize, Desc, Quiet
<1>4. QED BY <1>3, Zenon DEF O!Next

(* close and dup.                                                          *)
LEMMA ChangeStep ==
  ASSUME FInv, Quiet, ~ Stopped, NEW c \in Clients, NEW i \in Fds, NEW e \in {fds[c][j] : j \in Fds} \cup {NoEntry},
         fds' = [fds EXCEPT ![c][i] = e], UNCHANGED <<opentab, fdpage, fsize>>
  PROVE  O!Next
<1>1. fds \in [Clients -> [Fds -> Entries \cup {NoEntry}]]
  BY Zenon DEF FInv, TypesInv
<1>2. fds'[c][i] = e /\ fds' = [fds EXCEPT ![c][i] = fds'[c][i]]
  BY <1>1, ZenonT(60)
<1>3. \A d \in Clients, j \in Fds : fds'[d][j] = fds[d][j] \/ fds'[d][j] = e
  BY <1>1, Zenon
<1>4. \A x \in Entries : O!InUse(fds', x) => O!InUse(fds, x)
  BY <1>3, TableAssumption DEF O!InUse, Entries
<1>5. Desc' = O!Dropped(fds')
  BY <1>4, DescDropped, ZenonT(60)
<1>6. O!Change(c, i)
  BY <1>2, <1>5, Zenon DEF O!Change, Desc, Quiet
<1>7. QED BY <1>6, Zenon DEF O!Next

LEMMA EndStep == ASSUME FInv, ~ Stopped, NEW c \in Clients, env_destroy(c) PROVE O!Next
<1>0. Quiet
  <2>1. server'.at = server.at /\ server'.r = server.r /\ fsreq' = fsreq /\ panic' = panic
    BY ZenonT(60) DEF env_destroy, Forget, FInv, TypesInv, Servers
  <2>2. QED BY <2>1, QuietServer, Zenon
<1>1. /\ fds \in [Clients -> [Fds -> Entries \cup {NoEntry}]]
      /\ fds' = [fds EXCEPT ![c] = [i \in Fds |-> NoEntry]]
      /\ UNCHANGED <<opentab, fdpage, fsize>>
  BY Zenon DEF FInv, TypesInv, env_destroy, Closed, tables
<1>2. \A d \in Clients, j \in Fds : fds'[d][j] = fds[d][j] \/ fds'[d][j] = NoEntry
  BY <1>1, Zenon
<1>3. \A x \in Entries : O!InUse(fds', x) => O!InUse(fds, x)
  BY <1>2, TableAssumption, Zenon DEF O!InUse, Entries
<1>4. Desc' = O!Dropped(fds')
  BY <1>1, <1>3, DescDropped, ZenonT(60)
<1>5. O!End(c)
  BY <1>0, <1>1, <1>4, Zenon DEF O!End, Desc, Quiet
<1>6. QED BY <1>5, Zenon DEF O!Next

LEMMA ForkStep ==
  ASSUME FInv, panic = "nobody", NEW c \in Clients, NEW d \in Clients, fork(c, d)
  PROVE  O!Next
<1>0. Quiet /\ ~ Stopped
  BY QuietServer, Zenon DEF fork, Stopped
<1>1. /\ fds \in [Clients -> [Fds -> Entries \cup {NoEntry}]]
      /\ fds' = [fds EXCEPT ![d] = fds[c]] /\ c # d
      /\ UNCHANGED <<opentab, fdpage, fsize>>
  BY Zenon DEF FInv, TypesInv, fork, tables, Idle
<1>2. \A i \in Fds : fds[d][i] = NoEntry
  BY Zenon DEF FInv, GoneInv, fork, Closed
<1>3. \A x \in Clients, j \in Fds :
        fds'[x][j] = IF x = d THEN fds[c][j] ELSE fds[x][j]
  BY <1>1, Zenon
<1>4. ASSUME NEW e \in Entries PROVE O!InUse(fds', e) <=> O!InUse(fds, e)
  <2>1. ASSUME NEW x \in Clients, NEW j \in Fds, fds[x][j] = e PROVE fds'[x][j] = e
    BY <1>2, <1>3, <2>1, TableAssumption, Zenon DEF Entries
  <2>2. QED BY <1>3, <2>1 DEF O!InUse
<1>5. Desc' = Desc
  BY <1>1, <1>4, DescSame, ZenonT(60)
<1>6. O!Fork(c, d)
  BY <1>0, <1>1, <1>2, <1>5, Zenon DEF O!Fork, Desc, Quiet
<1>7. QED BY <1>0, <1>6, Zenon DEF O!Next

LEMMA OrphanStep ==
  ASSUME FInv, panic = "nobody", NEW c \in Clients, NEW d \in Clients, NEW n \in Fds,
         fork_killed(c, d, n)
  PROVE  O!Next
<1>0. Quiet /\ ~ Stopped
  BY QuietServer, Zenon DEF fork_killed, Stopped
<1> DEFINE some == [i \in Fds |-> IF i < n THEN fds[c][i] ELSE NoEntry]
<1>1. /\ fds \in [Clients -> [Fds -> Entries \cup {NoEntry}]] /\ c # d
      /\ fds' = [fds EXCEPT ![d] = some, ![c] = [i \in Fds |-> NoEntry]]
      /\ UNCHANGED <<opentab, fdpage, fsize>>
  BY Zenon DEF FInv, TypesInv, fork_killed, tables, Idle, Closed
<1>2. \A i \in Fds : fds[d][i] = NoEntry
  BY Zenon DEF FInv, GoneInv, fork_killed, Closed
<1>3. \A i \in Fds : some[i] = fds[c][i] \/ some[i] = NoEntry
  BY Zenon
<1> HIDE DEF some
<1>4. fds'[c] = [i \in Fds |-> NoEntry] /\ fds'[d] = some
      /\ \A x \in Clients : x \notin {c, d} => fds'[x] = fds[x]
  BY <1>1, Zenon
<1>5. \A e \in Entries : O!InUse(fds', e) => O!InUse(fds, e)
  <2> SUFFICES ASSUME NEW e \in Entries, NEW x \in Clients, NEW i \in Fds, fds'[x][i] = e
               PROVE  \E y \in Clients, j \in Fds : fds[y][j] = e
    BY Zenon DEF O!InUse
  <2>1. e # NoEntry
    BY TableAssumption, Zenon DEF Entries
  <2>2. CASE x = c
    BY <1>4, <2>1, <2>2, Zenon
  <2>3. CASE x = d
    BY <1>3, <1>4, <2>1, <2>3, Zenon
  <2>4. CASE x \notin {c, d}
    BY <1>4, <2>4, Zenon
  <2>5. QED BY <2>2, <2>3, <2>4, Zenon
<1>6. Desc' = O!Dropped(fds')
  BY <1>1, <1>5, DescDropped, ZenonT(60)
<1>7. O!Orphan(c, d, n)
  BY <1>0, <1>1, <1>2, <1>6, Zenon DEF O!Orphan, Desc, Quiet, some
<1>8. QED BY <1>0, <1>7, Zenon DEF O!Next

(* The page arrives: only now is there a description.                      *)
LEMMA OpenStep == ASSUME FInv, ~ Stopped, serve_reply, server.pg # NoEntry PROVE O!Next
<1>0. Quiet
  BY QuietServer, Zenon DEF serve_reply, NotServing
<1> DEFINE c == server.whom
           i == call[c].fd
           k == server.pg
           f == fsreq.path
<1>1. /\ c \in Clients /\ cpc[c] = "recv" /\ call[c].op = "open" /\ i \in Fds /\ k \in Entries
      /\ f \in Paths
  BY Zenon DEF serve_reply, FInv, TypesInv, Servers, Calls, ReplyInv, SetUp
<1>2. /\ fds \in [Clients -> [Fds -> Entries \cup {NoEntry}]]
      /\ fds' = [fds EXCEPT ![c][i] = k]
      /\ UNCHANGED <<opentab, fdpage, fsize>>
  BY Zenon DEF serve_reply, tables, FInv, TypesInv
<1>3. fds[c][i] = NoEntry
  BY <1>1, Zenon DEF FInv, WaitInv, IsOpen
<1>4. /\ opentab[k].o_file = f /\ fdpage[k].fd_offset = 0 /\ fsize[f] >= 0
      /\ \A d \in Clients, j \in Fds : fds[d][j] # k
  BY Zenon DEF FInv, ReplyInv, SetUp
<1> HIDE DEF c, i, k, f
<1>5. \A d \in Clients, j \in Fds :
        fds'[d][j] = IF d = c /\ j = i THEN k ELSE fds[d][j]
  BY <1>1, <1>2, Zenon
<1>6. ~ O!InUse(fds, k) /\ O!InUse(fds', k)
  BY <1>1, <1>4, <1>5, Zenon DEF O!InUse
<1>7. ASSUME NEW e \in Entries, e # k PROVE O!InUse(fds', e) <=> O!InUse(fds, e)
  <2>1. ASSUME NEW d \in Clients, NEW j \in Fds PROVE fds'[d][j] = e <=> fds[d][j] = e
    BY <1>3, <1>5, <1>7, TableAssumption, Zenon DEF Entries
  <2>2. QED BY <2>1, Zenon DEF O!InUse
<1>8. \A e \in Entries : Desc'[e] = IF e = k THEN [file |-> f, pos |-> 0] ELSE Desc[e]
  BY <1>2, <1>4, <1>6, <1>7, DescValue, ZenonT(60)
<1>9. Desc' = [Desc EXCEPT ![k] = [file |-> f, pos |-> 0]]
  <2>1. Desc' = [e \in Entries |-> Desc'[e]] /\ Desc = [e \in Entries |-> Desc[e]]
    BY Zenon DEF Desc
  <2>2. QED BY <1>1, <1>8, <2>1, Zenon
<1>10. O!Open(c, i, k, f)
  BY <1>0, <1>2, <1>3, <1>4, <1>6, <1>9, Zenon DEF O!Open, Desc, Quiet
<1>11. QED BY <1>1, <1>10, Zenon DEF O!Next

(* What storing fd_offset does to the description.                         *)
LEMMA OffsetStored ==
  ASSUME FInv, NEW k \in Entries, NEW off, O!InUse(fds, k),
         fdpage' = [fdpage EXCEPT ![k].fd_offset = off], UNCHANGED <<opentab, fds>>
  PROVE  /\ Desc[k] = [file |-> opentab[k].o_file, pos |-> fdpage[k].fd_offset]
         /\ Desc'[k] = [file |-> opentab[k].o_file, pos |-> off]
         /\ Desc' = [Desc EXCEPT ![k].pos = off]
<1>1. /\ fdpage[k] \in [mapped : BOOLEAN, id : FileIds,
                        omode : {"RDONLY", "WRONLY", "RDWR"}, fd_offset : Nat]
      /\ fdpage \in FdPage
  BY Zenon DEF FInv, TypesInv, FdPage
<1>2. fdpage' = [fdpage EXCEPT ![k] = [fdpage[k] EXCEPT !.fd_offset = off]]
  BY Zenon
<1>3. fdpage'[k] = [fdpage[k] EXCEPT !.fd_offset = off] /\ fdpage'[k].fd_offset = off
  BY <1>1, <1>2, Zenon DEF FdPage
<1>4. \A e \in Entries : e # k => fdpage'[e] = fdpage[e]
  BY <1>1, <1>2, Zenon DEF FdPage
<1>5. /\ Desc[k] = [file |-> opentab[k].o_file, pos |-> fdpage[k].fd_offset]
      /\ Desc'[k] = [file |-> opentab[k].o_file, pos |-> off]
  BY <1>3, DescValue, Zenon
<1>6. \A e \in Entries : e # k => Desc'[e] = Desc[e]
  BY <1>4, DescValue, ZenonT(60)
<1>7. Desc' = [e \in Entries |-> Desc'[e]] /\ Desc = [e \in Entries |-> Desc[e]]
  BY Zenon DEF Desc
<1>8. Desc' = [Desc EXCEPT ![k] = [Desc[k] EXCEPT !.pos = off]]
  <2>1. [Desc[k] EXCEPT !.pos = off] = [file |-> opentab[k].o_file, pos |-> off]
    BY <1>5
  <2>2. QED BY <1>5, <1>6, <1>7, <2>1, Zenon
<1>9. QED BY <1>5, <1>8, Zenon

LEMMA SeekStep ==
  ASSUME FInv, ~ Stopped, NEW c \in Clients, NEW i \in Fds, NEW off \in Offsets, seek(c, i, off)
  PROVE  O!Next
<1>0. Quiet
  BY QuietServer, Zenon DEF seek
<1>1. PICK k \in Entries : k = fds[c][i]
  BY Zenon DEF seek, IsOpen, FInv, TypesInv
<1>2. /\ fdpage' = [fdpage EXCEPT ![k].fd_offset = off]
      /\ UNCHANGED <<opentab, fds, fsize>> /\ O!InUse(fds, k)
  BY <1>1, Zenon DEF seek, clients, O!InUse
<1>3. Desc' = [Desc EXCEPT ![k].pos = off]
  BY <1>2, OffsetStored, ZenonT(60)
<1>4. O!Seek(k)
  BY <1>0, <1>2, <1>3, ZenonT(60) DEF O!Seek, Desc, Quiet
<1>5. QED BY <1>4, Zenon DEF O!Next

(* file_read and file_write have moved r bytes.                            *)
LEMMA TransferStep ==
  ASSUME FInv, ~ Stopped, server.at = "serve", openfile_lookup(fsreq.id), NEW r \in Nat, Moved(r),
         UNCHANGED <<opentab, fdpage, fds, fsreq, panic>>,
         \/ (r = 0 \/ Offset + r <= fsize[File]) /\ fsize' = fsize
         \/ Offset + r > fsize[File] /\ fsize' = [fsize EXCEPT ![File] = Offset + r]
  PROVE  O!Next
<1>1. PICK k \in Entries : k = Entry /\ O!InUse(fds, k)
  BY FoundIsHeld, Zenon DEF O!InUse
<1>2. Desc[k].file = File /\ Desc[k].pos = Offset
  <2>1. Desc[k] = [file |-> File, pos |-> Offset]
    BY <1>1, DescValue, Zenon DEF File, Offset
  <2>2. QED BY <2>1
<1>3. server'.at = "advance" /\ server'.r = r
  BY ZenonT(60) DEF FInv, TypesInv, Servers, Moved
<1>4. /\ UnderWay = [key |-> NoEntry, bytes |-> 0]
      /\ UnderWay' = [key |-> k, bytes |-> r]
      /\ Stopped' = Stopped
  BY <1>1, <1>3, Zenon DEF UnderWay, Stopped, Entry
<1>5. UnderWay'.bytes = r
  BY <1>4, Zenon
<1>6. Desc' = Desc
  BY DescSame, Zenon
<1>7. O!Transfer(k)
  BY <1>1, <1>2, <1>4, <1>5, <1>6, ZenonT(60) DEF O!Transfer, O!NoTransfer, Desc
<1>8. QED BY <1>7, Zenon DEF O!Next

(* fd_offset += r moves the position by as much, if anybody is left.       *)
LEMMA AdvanceStep == ASSUME FInv, ~ Stopped, advance PROVE O!Next
<1>1. PICK k \in Entries : k = Entry
  BY TableAssumption DEF FInv, TypesInv, Requests, FileIds, Entry, Entries
<1>2. PICK r \in Nat : r = server.r
  BY Zenon DEF FInv, TypesInv, Servers
<1>3. PICK p \in Nat : p = fdpage[k].fd_offset
  BY Zenon DEF FInv, TypesInv, FdPage
<1>4. /\ fdpage' = [fdpage EXCEPT ![k].fd_offset = p + r]
      /\ UNCHANGED <<opentab, fds, fsize>>
  BY <1>1, <1>2, <1>3, Zenon DEF advance, clients
<1>5. server'.at = "reply" /\ panic' = panic
  BY Zenon DEF FInv, TypesInv, Servers, advance, Answer
<1>6. /\ UnderWay = [key |-> k, bytes |-> r]
      /\ UnderWay' = [key |-> NoEntry, bytes |-> 0]
      /\ Stopped' = Stopped
  BY <1>1, <1>2, <1>5, Zenon DEF UnderWay, Stopped, advance
<1>7. UnderWay.key = k /\ UnderWay.bytes = r /\ UnderWay # [key |-> NoEntry, bytes |-> 0]
  BY <1>6, TableAssumption DEF Entries
<1>8. Desc' = IF O!InUse(fds, k) THEN [Desc EXCEPT ![k].pos = @ + r] ELSE Desc
  <2>1. CASE ~ O!InUse(fds, k)
    <3>1. \A e \in Entries : e # k => fdpage'[e] = fdpage[e]
      BY <1>4, Zenon DEF FInv, TypesInv, FdPage
    <3>2. QED BY <1>4, <2>1, <3>1, DescSame, Zenon
  <2>2. CASE O!InUse(fds, k)
    <3>1. /\ Desc[k] = [file |-> opentab[k].o_file, pos |-> p]
          /\ Desc' = [Desc EXCEPT ![k].pos = p + r]
      BY <1>3, <1>4, <2>2, OffsetStored, ZenonT(60)
    <3>2. Desc[k].pos = p
      BY <3>1
    <3>3. QED BY <2>2, <3>1, <3>2, ZenonT(60)
  <2>3. QED BY <2>1, <2>2, Zenon
<1>9. O!Move
  BY <1>4, <1>6, <1>7, <1>8, ZenonT(60) DEF O!Move, O!NoTransfer, Desc
<1>10. QED BY <1>9, Zenon DEF O!Next

LEMMA ServeOpenStep == ASSUME FInv, ~ Stopped, serve_open PROVE O!Next \/ UNCHANGED O!vars
<1>0. Quiet
  BY QuietAnswer, Zenon DEF serve_open, Serving, open_entry
<1>1. UNCHANGED fds /\ Serving("open") /\ fsreq.path \in Paths
      /\ fsize \in [Paths -> Nat \cup {-1}] /\ opentab \in OpenTab /\ fdpage \in FdPage
  BY Zenon DEF serve_open, clients, FInv, ServerInv, TypesInv, Serving
<1>2. CASE UNCHANGED tables
  BY <1>0, <1>1, <1>2, Stutters, Zenon DEF tables
<1>3. ASSUME NEW e \in Entries, Available(e)
      PROVE  \A x \in Entries : O!InUse(fds, x) => x # e
  BY <1>3, AvailableIsFree, Zenon DEF Available, FInv, O!InUse
<1>4. ASSUME NEW e \in Entries, Available(e), open_entry(e, fsreq.path, fsreq.mode) PROVE O!Next
  <2>1. PICK n : fsize' = [fsize EXCEPT ![fsreq.path] = n]
    BY <1>4, ZenonT(60) DEF open_entry
  <2>2. \A x \in Entries : x # e => opentab'[x] = opentab[x] /\ fdpage'[x] = fdpage[x]
    BY <1>1, <1>4, Zenon DEF open_entry, OpenTab, FdPage
  <2>3. QED BY <1>0, <1>1, <1>3, <1>4, <2>1, <2>2, ResizeStep, ZenonT(60)
<1>5. ASSUME NEW e \in Entries, Available(e), openfile_alloc(e), UNCHANGED fsize
      PROVE  UNCHANGED O!vars
  <2>1. \A x \in Entries : x # e => opentab'[x] = opentab[x] /\ fdpage'[x] = fdpage[x]
    BY <1>1, <1>5, Zenon DEF openfile_alloc, OpenTab, FdPage
  <2>2. Desc' = Desc
    BY <1>1, <1>3, <1>5, <2>1, DescSame, Zenon
  <2>3. QED BY <1>0, <1>1, <1>5, <2>2, Zenon DEF O!vars, Desc, Quiet
<1>6. QED BY <1>2, <1>4, <1>5, Zenon DEF serve_open

LEMMA ServeReadStep == ASSUME FInv, ~ Stopped, serve_read PROVE O!Next \/ UNCHANGED O!vars
<1>1. /\ server.at = "serve" /\ openfile_lookup(fsreq.id)
      /\ UNCHANGED <<opentab, fdpage, fsize, fds, panic>>
  BY Zenon DEF serve_read, ServingFile, Serving, tables, clients
<1>2. CASE Answer(NoEntry)
  BY <1>1, <1>2, QuietAnswer, Stutters, Zenon
<1>3. ASSUME NEW r \in Nat, Moved(r), r = 0 \/ Offset + r <= fsize[File], UNCHANGED fsreq
      PROVE  O!Next
  BY <1>1, <1>3, TransferStep, Zenon
<1>4. QED BY <1>2, <1>3, ReadMoves, Zenon

LEMMA ServeWriteStep == ASSUME FInv, ~ Stopped, serve_write PROVE O!Next
<1>1. /\ server.at = "serve" /\ openfile_lookup(fsreq.id)
      /\ UNCHANGED <<opentab, fdpage, fds, panic>>
      /\ fsize' = [fsize EXCEPT ![File] = IF Offset + fsreq.n > @ THEN Offset + fsreq.n ELSE @]
  BY Zenon DEF serve_write, ServingFile, Serving, clients
<1>2. /\ Offset \in Nat /\ fsreq.n \in Nat /\ File \in Paths
      /\ fsize \in [Paths -> Nat \cup {-1}] /\ fsize[File] \in Nat \cup {-1}
  BY <1>1, FileTypes, Zenon
<1>3. CASE Answer(NoEntry)
  <2>1. PICK n : fsize' = [fsize EXCEPT ![File] = n]
    BY <1>1, Zenon
  <2>2. Quiet
    BY <1>1, <1>3, QuietAnswer, Zenon
  <2>3. QED BY <1>1, <1>2, <2>1, <2>2, ResizeStep, ZenonT(60)
<1>4. CASE Moved(fsreq.n) /\ UNCHANGED fsreq
  <2>1. \/ Offset + fsreq.n <= fsize[File] /\ fsize' = fsize
        \/ Offset + fsreq.n > fsize[File] /\ fsize' = [fsize EXCEPT ![File] = Offset + fsreq.n]
    <3>1. Offset + fsreq.n <= fsize[File] \/ Offset + fsreq.n > fsize[File]
      BY <1>2
    <3>2. CASE Offset + fsreq.n > fsize[File]
      BY <1>1, <3>2, ZenonT(60)
    <3>3. CASE ~ (Offset + fsreq.n > fsize[File])
      <4>1. fsize' = [fsize EXCEPT ![File] = fsize[File]]
        BY <1>1, <3>3, ZenonT(60)
      <4>2. QED BY <1>2, <3>1, <3>3, <4>1, Zenon
    <3>4. QED BY <3>2, <3>3, Zenon
  <2>2. QED BY <1>1, <1>2, <1>4, <2>1, TransferStep, Zenon
<1>5. QED BY <1>3, <1>4, Zenon DEF serve_write

LEMMA ServeStep == ASSUME FInv, panic = "nobody", serve PROVE O!Next \/ UNCHANGED O!vars
<1>0. ~ Stopped
  BY Zenon DEF Stopped
<1>1. CASE serve_lookup_fails \/ serve_stat_flush_sync
  <2>1. server.at # "advance" /\ Answer(NoEntry) /\ panic' = panic
    BY <1>1, Zenon DEF serve_lookup_fails, serve_stat_flush_sync, ServingFile, Serving
  <2>2. QED BY <1>1, <2>1, QuietAnswer, Stutters, Zenon
            DEF serve_lookup_fails, serve_stat_flush_sync, tables, clients
<1>2. CASE serve_set_size
  <2>1. File \in Paths /\ fsize \in [Paths -> Nat \cup {-1}]
    BY <1>2, FileTypes, Zenon DEF serve_set_size, ServingFile
  <2>2. PICK n : fsize' = [fsize EXCEPT ![File] = n]
    BY <1>2, Zenon DEF serve_set_size
  <2>3. UNCHANGED <<opentab, fdpage, fds>>
    BY <1>2, Zenon DEF serve_set_size, clients
  <2>4. Quiet
    BY <1>2, QuietAnswer, Zenon DEF serve_set_size, ServingFile, Serving
  <2>5. QED BY <1>0, <2>1, <2>2, <2>3, <2>4, ResizeStep, ZenonT(60)
<1>3. CASE serve_reply
  <2>1. CASE server.pg = NoEntry
    <3>1. Quiet
      BY <1>3, QuietServer, Zenon DEF serve_reply, NotServing
    <3>2. QED BY <1>3, <2>1, <3>1, Stutters, Zenon DEF serve_reply, tables
  <2>2. QED BY <1>0, <1>3, <2>1, OpenStep, Zenon
<1>4. CASE serve_panic
  BY <1>4, PanicStep, Zenon DEF serve_panic
<1>5. QED BY <1>0, <1>1, <1>2, <1>3, <1>4, ServeOpenStep, ServeReadStep, ServeWriteStep,
             AdvanceStep, Zenon DEF serve

LEMMA RequestStep ==
  ASSUME FInv, NEW c, NEW op, NEW i, NEW j, NEW req, Request(c, op, i, j, req)
  PROVE  UNCHANGED O!vars
<1>1. server.at = "recv" /\ server'.at = "serve" /\ panic' = panic
  BY ZenonT(60) DEF Request, FInv, TypesInv, Servers
<1>2. QED BY <1>1, QuietServer, Stutters, Zenon DEF Request, tables

LEMMA ClientStep ==
  ASSUME FInv, panic = "nobody", NEW c \in Clients,
         \/ InCall(c) \/ exit(c) \/ Kill(c)
         \/ \E d \in Clients : fork(c, d) \/ \E n \in Fds : fork_killed(c, d, n)
         \/ \E i \in Fds, j \in Fds : dup(c, i, j)
  PROVE  O!Next \/ UNCHANGED O!vars
<1>0. ~ Stopped
  BY Zenon DEF Stopped
<1>1. call[c].fd \in Fds /\ call[c].to \in Fds
  BY Zenon DEF FInv, TypesInv, Calls
<1>2. CASE sync_panic(c) \/ read_panic(c) \/ ipc_recv(c)
  BY <1>2, PanicStep, QuietServer, Stutters, Zenon DEF sync_panic, read_panic, ipc_recv, tables
<1>3. CASE fd_close(c)
  <2>1. Quiet
    BY <1>3, QuietServer, Zenon DEF fd_close
  <2>2. QED BY <1>0, <1>1, <1>3, <2>1, ChangeStep, ZenonT(60) DEF fd_close, Unmapped, tables
<1>4. CASE dup_map(c)
  <2>1. PICK i \in Fds, j \in Fds : i = call[c].to /\ j = call[c].fd
    BY <1>1, Zenon
  <2>2. fds' = [fds EXCEPT ![c][j] = fds[c][i]] /\ UNCHANGED <<opentab, fdpage, fsize>>
    BY <1>4, <2>1, Zenon DEF dup_map, Duplicate, tables
  <2>3. fds[c][i] \in {fds[c][x] : x \in Fds} \cup {NoEntry}
    BY Zenon
  <2>4. Quiet
    BY <1>4, QuietServer, Zenon DEF dup_map
  <2>5. QED BY <1>0, <2>2, <2>3, <2>4, ChangeStep, ZenonT(60)
<1>5. CASE exit(c) \/ Kill(c)
  BY <1>0, <1>5, EndStep, RequestStep, ZenonT(60) DEF exit, Kill, Flush
<1>6. ASSUME NEW d \in Clients, fork(c, d) \/ \E n \in Fds : fork_killed(c, d, n) PROVE O!Next
  BY <1>6, ForkStep, OrphanStep, Zenon
<1>7. ASSUME NEW i \in Fds, NEW j \in Fds, dup(c, i, j) PROVE O!Next \/ UNCHANGED O!vars
  <2>1. CASE IsOpen(c, j)
    BY <1>7, <2>1, RequestStep, ZenonT(60) DEF dup, Flush
  <2>2. CASE ~ IsOpen(c, j)
    <3>1. Quiet
      BY <1>7, <2>2, QuietServer, Zenon DEF dup
    <3>2. QED BY <1>0, <1>7, <2>2, <3>1, ChangeStep DEF dup, Duplicate, tables
  <2>3. QED BY <2>1, <2>2, Zenon
<1>8. QED BY <1>2, <1>3, <1>4, <1>5, <1>6, <1>7, Zenon DEF InCall

LEMMA NextStep == FInv /\ [FsNext]_fsVars => [O!Next]_(O!vars)
<1> SUFFICES ASSUME FInv, [FsNext]_fsVars PROVE O!Next \/ UNCHANGED O!vars
  BY Zenon
<1>1. CASE UNCHANGED fsVars
  BY <1>1, QuietServer, Stutters, Zenon DEF fsVars
<1>2. ASSUME NEW c \in Clients,
             \/ sync(c)
             \/ \E f \in Paths, mode \in Omodes : open(c, f, mode)
             \/ \E i \in Fds : \/ fstat(c, i) \/ close(c, i)
                               \/ \E n \in Counts : read(c, i, n) \/ write(c, i, n)
                               \/ \E n \in Sizes : ftruncate(c, i, n)
      PROVE  UNCHANGED O!vars
  BY <1>2, RequestStep, ZenonT(60) DEF sync, open, fstat, close, Flush, read, write, ftruncate
<1>3. ASSUME panic = "nobody", NEW c \in Clients, NEW i \in Fds, NEW off \in Offsets,
             seek(c, i, off)
      PROVE  O!Next
  BY <1>3, SeekStep, Zenon DEF Stopped
<1>4. CASE panic = "nobody" /\ serve
  BY <1>4, ServeStep, Zenon
<1>5. QED BY <1>1, <1>2, <1>3, <1>4, ClientStep, Zenon DEF FsNext, FsCalls

LEMMA InitStep == FsInit => O!Init
<1> SUFFICES ASSUME FsInit PROVE O!Init
  BY Zenon
<1>1. fds = [c \in Clients |-> [i \in Fds |-> NoEntry]] /\ fsize \in [Paths -> Int]
  BY FileAssumption DEF FsInit, Closed
<1>2. \A e \in Entries : ~ O!InUse(fds, e)
  BY <1>1, TableAssumption, Zenon DEF O!InUse, Entries
<1>3. \A e \in Entries : Description(e) = NoEntry
  BY <1>2, Zenon DEF Description, O!InUse
<1>4. UnderWay = [key |-> NoEntry, bytes |-> 0] /\ Stopped = FALSE
  BY Zenon DEF FsInit, NotServing, UnderWay, Stopped
<1>5. QED BY <1>1, <1>3, <1>4, Zenon DEF O!Init, O!NoTransfer

(* The server's table, its ids, the pages it shares with clients, and the  *)
(* messages between them implement open file descriptions, whatever the    *)
(* interleaving and whoever dies (fs/serv.c, lib/file.c, lib/fd.c).        *)
THEOREM ServerImplementsOpenFiles == FsSpec => ImplementsOpenFiles
BY InitStep, NextStep, InvHolds, PTL DEF FsSpec, ImplementsOpenFiles, O!Spec
=============================================================================
