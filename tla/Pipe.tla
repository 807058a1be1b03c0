-------------------------------- MODULE Pipe --------------------------------
(***************************************************************************)
(* A pipe of lib/pipe.c between environments that share it: the read and   *)
(* write loops on the ring buffer, the guess _pipeisclosed makes from      *)
(* reference counts, and the calls of lib/fd.c and lib/fork.c that change  *)
(* the counts, one system call at a time: close, dup, close_all, fork.     *)
(* One CPU runs the environments; it may be taken from them anywhere.      *)
(*                                                                         *)
(* There is one pipe.  It has three pages: the descriptor of its reading   *)
(* end, that of its writing end, and the ring, which is mapped as the data *)
(* page of every descriptor.  A page's pp_ref is the number of its         *)
(* mappings (RefExact of Pmap).  The byte written at position k is k.      *)
(***************************************************************************)
EXTENDS Integers, FiniteSets

CONSTANTS Envs,         \* environment slots
          Root,         \* the environment that creates the pipe
          NoEnv,
          MAXFD,        \* descriptors of an environment
          PIPEBUFSIZ,   \* bytes the ring holds
          MaxBytes,     \* bound on the bytes ever written to a pipe
          Length        \* n of a read or write

ASSUME SizeAssumption ==
  /\ IsFiniteSet(Envs) /\ Root \in Envs /\ NoEnv \notin Envs
  /\ MAXFD \in Nat /\ MAXFD >= 2
  /\ PIPEBUFSIZ \in Nat \ {0}
  /\ MaxBytes \in Nat
  /\ Length \in Nat \ {0}

Fds == 0 .. MAXFD - 1

VARIABLES
  fd,       \* fd[e][i]: the end whose descriptor page e maps at INDEX2FD(i)
  data,     \* data[e][i]: whether e maps the ring at INDEX2DATA(i)
  p_rpos, p_wpos, p_buf,
  cur,      \* the environment on the CPU
  pc,       \* where each environment is
  op,       \* the library call it is in
  slot,     \* the descriptor the call is about, or has come to
  new,      \* newfdnum of dup
  kid,      \* envid of fork
  parent,   \* env_parent_id
  got,      \* bytes moved so far, i of devpipe_read and devpipe_write
  took,     \* the byte devpipe_read has taken
  half,     \* which pageref _pipeisclosed has evaluated, and its value
  runs      \* whether env_runs has changed since _pipeisclosed read it

ring == <<p_rpos, p_wpos, p_buf>>
maps == <<fd, data>>
family == <<kid, parent>>
calls == <<op, slot, new, family>>
moving == <<got, took>>
asking == <<half, runs>>
vars == <<maps, ring, cur, pc, calls, moving, asking>>

Closed == [i \in Fds |-> "none"]
NoData == [i \in Fds |-> FALSE]
Open(e, i) == fd[e][i] # "none"
Other(end) == IF end = "R" THEN "W" ELSE "R"

(* pageref() of a descriptor page and of the ring.                         *)
FdRef(end) == Cardinality({m \in Envs \X Fds : fd[m[1]][m[2]] = end})
RingRef == Cardinality({m \in Envs \X Fds : data[m[1]][m[2]]})

Goto(e, l) == pc' = [pc EXCEPT ![e] = l]

Init ==
  /\ fd = [e \in Envs |-> Closed]
  /\ data = [e \in Envs |-> NoData]
  /\ p_rpos = 0 /\ p_wpos = 0
  /\ p_buf = [k \in 0 .. PIPEBUFSIZ - 1 |-> 0]
  /\ cur = Root
  /\ pc = [e \in Envs |-> IF e = Root THEN "run" ELSE "free"]
  /\ op = [e \in Envs |-> "none"]
  /\ slot = [e \in Envs |-> 0]
  /\ new = [e \in Envs |-> 0]
  /\ kid = [e \in Envs |-> NoEnv]
  /\ parent = [e \in Envs |-> NoEnv]
  /\ got = [e \in Envs |-> 0]
  /\ took = [e \in Envs |-> 0]
  /\ half = [e \in Envs |-> <<"none", 0>>]
  /\ runs = [e \in Envs |-> FALSE]

(* e begins the call c on descriptor i, at the place l.                    *)
Begin(e, c, i, l) ==
  /\ cur = e /\ pc[e] = "run"
  /\ Goto(e, l)
  /\ op' = [op EXCEPT ![e] = c]
  /\ slot' = [slot EXCEPT ![e] = i]

At(e, l) == cur = e /\ pc[e] = l

(* The call returns.                                                       *)
Done(e) ==
  /\ Goto(e, "run")
  /\ op' = [op EXCEPT ![e] = "none"]
  /\ slot' = [slot EXCEPT ![e] = 0]
-----------------------------------------------------------------------------
(* pipe(): two descriptors, one ring.  Nobody else can see them yet, and   *)
(* when memory runs out everything is unmapped again.                      *)
pipe(e) ==
  /\ cur = e /\ pc[e] = "run"
  /\ RingRef = 0 /\ \A d \in Envs, i \in Fds : ~ Open(d, i)
  /\ fd' = [fd EXCEPT ![e] = [i \in Fds |-> IF i = 0 THEN "R" ELSE IF i = 1 THEN "W" ELSE "none"]]
  /\ data' = [data EXCEPT ![e] = [i \in Fds |-> i \in {0, 1}]]
  /\ p_rpos' = 0 /\ p_wpos' = 0
  /\ p_buf' = [k \in 0 .. PIPEBUFSIZ - 1 |-> 0]
  /\ UNCHANGED <<cur, pc, calls, moving, asking>>

(* close() and fd_close(): devpipe_close unmaps the descriptor first, then *)
(* its data page.                                                          *)
close(e, i) ==
  /\ Open(e, i)
  /\ Begin(e, "close", i, "close_fd")
  /\ UNCHANGED <<maps, ring, cur, new, family, moving, asking>>

(* dup closes newfdnum on its way, close_all the descriptor it is at.      *)
Closing(e) == IF op[e] = "dup" THEN new[e] ELSE slot[e]

devpipe_close_fd(e) ==
  /\ At(e, "close_fd")
  /\ fd' = [fd EXCEPT ![e][Closing(e)] = "none"]
  /\ Goto(e, "close_data")
  /\ UNCHANGED <<data, ring, cur, calls, moving, asking>>

devpipe_close_data_kept(e) ==
  /\ At(e, "close_data")
  /\ CASE op[e] = "close" -> Done(e)
       [] op[e] = "dup" -> Goto(e, "dup_data") /\ UNCHANGED <<op, slot>>
       [] op[e] = "exit" -> Goto(e, "exit") /\ UNCHANGED <<op, slot>>
  /\ UNCHANGED <<maps, ring, cur, new, family, moving, asking>>

devpipe_close_data(e) ==
  /\ At(e, "close_data")
  /\ data' = [data EXCEPT ![e][Closing(e)] = FALSE]
  /\ CASE op[e] = "close" -> Done(e)
       [] op[e] = "dup" -> Goto(e, "dup_data") /\ UNCHANGED <<op, slot>>
       [] op[e] = "exit" -> Goto(e, "exit") /\ UNCHANGED <<op, slot>>
  /\ UNCHANGED <<fd, ring, cur, new, family, moving, asking>>

(* dup(): the data page first, then the descriptor.  If i = j the close    *)
(* has taken the old one away, and both maps fail.                         *)
dup(e, i, j) ==
  /\ Open(e, i)
  /\ Begin(e, "dup", i, IF Open(e, j) THEN "close_fd" ELSE "dup_data")
  /\ new' = [new EXCEPT ![e] = j]
  /\ UNCHANGED <<maps, ring, cur, family, moving, asking>>

dup_data(e) ==
  /\ At(e, "dup_data")
  /\ data' = [data EXCEPT ![e][new[e]] = data[e][slot[e]] \/ @]
  /\ Goto(e, "dup_fd")
  /\ UNCHANGED <<fd, ring, cur, calls, moving, asking>>

dup_fd(e) ==
  /\ At(e, "dup_fd")
  /\ fd' = [fd EXCEPT ![e][new[e]] = fd[e][slot[e]]]
  /\ data' = [data EXCEPT ![e][new[e]] = @ /\ Open(e, slot[e])]
  /\ Done(e)
  /\ new' = [new EXCEPT ![e] = 0]
  /\ UNCHANGED <<ring, cur, family, moving, asking>>
-----------------------------------------------------------------------------
(* Environments come and go.                                               *)

Live == {e \in Envs : pc[e] \notin {"free", "embryo"}}

(* The CPU goes to d, or comes back to it after a trap: env_run counts.    *)
Asking == {"ask_1", "ask_2", "ask_nn"}
env_run(d) ==
  /\ d \in Live
  /\ cur' = d
  /\ runs' = [runs EXCEPT ![d] = pc[d] \in Asking]
  /\ UNCHANGED <<maps, ring, pc, calls, moving, half>>

(* e is gone, and with it its pages.  Its children have no parent then.    *)
env_destroy(e) ==
  /\ fd' = [fd EXCEPT ![e] = Closed]
  /\ data' = [data EXCEPT ![e] = NoData]
  /\ Goto(e, "free")
  /\ op' = [op EXCEPT ![e] = "none"]
  /\ slot' = [slot EXCEPT ![e] = 0]
  /\ new' = [new EXCEPT ![e] = 0]
  /\ kid' = [kid EXCEPT ![e] = NoEnv]
  /\ got' = [got EXCEPT ![e] = 0]
  /\ took' = [took EXCEPT ![e] = 0]
  /\ half' = [half EXCEPT ![e] = <<"none", 0>>]
  /\ cur' \in IF e # cur THEN {cur} ELSE IF Live = {e} THEN {NoEnv} ELSE Live \ {e}
  /\ runs' = [d \in Envs |-> d # e /\ (runs[d] \/ (d = cur' /\ d # cur /\ pc[d] \in Asking))]
  /\ parent' = [d \in Envs |-> IF e \in {d, parent[d]} THEN NoEnv ELSE parent[d]]
  /\ UNCHANGED ring

(* By a fault of its own, or by a parent that is between two calls.        *)
Kill(e) ==
  /\ e \in Live
  /\ cur \in {e, parent[e]} /\ (cur = e \/ pc[cur] = "run")
  /\ env_destroy(e)

exit(e) ==
  /\ Begin(e, "exit", 0, "exit")
  /\ UNCHANGED <<maps, ring, cur, new, family, moving, asking>>

(* close_all() closes what is open, and exit() ends the environment.       *)
close_all(e) ==
  /\ At(e, "exit")
  /\ \/ /\ \E i \in Fds : /\ Open(e, i)
                          /\ \A j \in Fds : Open(e, j) => i <= j
                          /\ slot' = [slot EXCEPT ![e] = i]
        /\ Goto(e, "close_fd")
        /\ UNCHANGED <<maps, ring, cur, op, new, family, moving, asking>>
     \/ (\A i \in Fds : ~ Open(e, i)) /\ env_destroy(e)

(* fork(): duppage maps the shared pages of e into the child in the order  *)
(* of their addresses, all descriptors before all data pages.              *)
fork(e, c) ==
  /\ pc[c] = "free"
  /\ cur = e /\ pc[e] = "run"
  /\ pc' = [pc EXCEPT ![e] = "fork_fd", ![c] = "embryo"]
  /\ op' = [op EXCEPT ![e] = "fork"]
  /\ kid' = [kid EXCEPT ![e] = c]
  /\ parent' = [parent EXCEPT ![c] = e]
  /\ UNCHANGED <<maps, ring, cur, slot, new, moving, asking>>

(* The loop goes on to the next descriptor, or to the place l.             *)
NextSlot(e, l) ==
  IF slot[e] < MAXFD - 1
  THEN slot' = [slot EXCEPT ![e] = @ + 1] /\ UNCHANGED pc
  ELSE slot' = [slot EXCEPT ![e] = 0] /\ Goto(e, l)

fork_fd(e) ==
  /\ At(e, "fork_fd")
  /\ fd' = [fd EXCEPT ![kid[e]][slot[e]] = fd[e][slot[e]]]
  /\ NextSlot(e, "fork_data")
  /\ UNCHANGED <<data, ring, cur, op, new, family, moving, asking>>

fork_data(e) ==
  /\ At(e, "fork_data")
  /\ data' = [data EXCEPT ![kid[e]][slot[e]] = data[e][slot[e]]]
  /\ NextSlot(e, "fork_start")
  /\ UNCHANGED <<fd, ring, cur, op, new, family, moving, asking>>

fork_start(e) ==
  /\ At(e, "fork_start")
  /\ pc' = [pc EXCEPT ![e] = "run", ![kid[e]] = "run"]
  /\ op' = [op EXCEPT ![e] = "none"]
  /\ kid' = [kid EXCEPT ![e] = NoEnv]
  /\ UNCHANGED parent
  /\ UNCHANGED <<maps, ring, cur, slot, new, moving, asking>>
-----------------------------------------------------------------------------
(* _pipeisclosed: two reference counts are compared, and the answer counts *)
(* if env_runs has not changed meanwhile.  C leaves open which of the two  *)
(* pageref() calls comes first.                                            *)

ask_n(e) ==
  /\ At(e, "ask_n")
  /\ runs' = [runs EXCEPT ![e] = FALSE]
  /\ Goto(e, "ask_1")
  /\ UNCHANGED <<maps, ring, cur, calls, moving, half>>

ask_1(e) ==
  /\ At(e, "ask_1")
  /\ \/ half' = [half EXCEPT ![e] = <<"fd", FdRef(fd[e][slot[e]])>>]
     \/ half' = [half EXCEPT ![e] = <<"ring", RingRef>>]
  /\ Goto(e, "ask_2")
  /\ UNCHANGED <<maps, ring, cur, calls, moving, runs>>

ask_2(e) ==
  LET second == IF half[e][1] = "fd" THEN RingRef ELSE FdRef(fd[e][slot[e]])
  IN  /\ At(e, "ask_2")
      /\ half' = [half EXCEPT ![e] = <<"ret", IF half[e][2] = second THEN 1 ELSE 0>>]
      /\ Goto(e, "ask_nn")
      /\ UNCHANGED <<maps, ring, cur, calls, moving, runs>>

ask_nn_trusting(e) ==
  /\ At(e, "ask_nn")
  /\ half' = [half EXCEPT ![e] = <<"none", 0>>]
  /\ runs' = [runs EXCEPT ![e] = FALSE]
  /\ IF half[e][2] = 1 THEN Goto(e, "closed") /\ UNCHANGED <<op, slot>>
     ELSE CASE op[e] = "read" -> Goto(e, "r_test") /\ UNCHANGED <<op, slot>>
            [] op[e] = "write" -> Goto(e, "w_test") /\ UNCHANGED <<op, slot>>
            [] op[e] = "pipeisclosed" -> Done(e)
  /\ UNCHANGED <<maps, ring, cur, new, family, moving>>

(* Not closed: pipeisclosed returns 0, read and write yield and try again. *)
ask_nn(e) ==
  /\ At(e, "ask_nn")
  /\ half' = [half EXCEPT ![e] = <<"none", 0>>]
  /\ runs' = [runs EXCEPT ![e] = FALSE]
  /\ IF runs[e] THEN Goto(e, "ask_n") /\ UNCHANGED <<op, slot>>
     ELSE IF half[e][2] = 1 THEN Goto(e, "closed") /\ UNCHANGED <<op, slot>>
     ELSE CASE op[e] = "read" -> Goto(e, "r_test") /\ UNCHANGED <<op, slot>>
            [] op[e] = "write" -> Goto(e, "w_test") /\ UNCHANGED <<op, slot>>
            [] op[e] = "pipeisclosed" -> Done(e)
  /\ UNCHANGED <<maps, ring, cur, new, family, moving>>

(* The answer is 1: read and write report end of file.                     *)
closed(e) ==
  /\ At(e, "closed")
  /\ Done(e)
  /\ got' = [got EXCEPT ![e] = 0]
  /\ UNCHANGED <<maps, ring, cur, new, family, took, asking>>

pipeisclosed(e, i) ==
  /\ Open(e, i)
  /\ Begin(e, "pipeisclosed", i, "ask_n")
  /\ UNCHANGED <<maps, ring, cur, new, family, moving, asking>>

_pipeisclosed(e) == ask_n(e) \/ ask_1(e) \/ ask_2(e) \/ ask_nn(e) \/ closed(e)
-----------------------------------------------------------------------------
read(e, i) ==
  /\ fd[e][i] = "R"
  /\ Begin(e, "read", i, "r_test")
  /\ UNCHANGED <<maps, ring, cur, new, family, moving, asking>>

r_test(e) ==
  /\ At(e, "r_test")
  /\ CASE p_rpos # p_wpos -> Goto(e, "r_take") /\ UNCHANGED <<op, slot, got>>
       [] p_rpos = p_wpos /\ got[e] = 0 -> Goto(e, "ask_n") /\ UNCHANGED <<op, slot, got>>
       [] p_rpos = p_wpos /\ got[e] > 0 -> Done(e) /\ got' = [got EXCEPT ![e] = 0]
  /\ UNCHANGED <<maps, ring, cur, new, family, took, asking>>

r_take(e) ==
  /\ At(e, "r_take")
  /\ took' = [took EXCEPT ![e] = p_buf[p_rpos % PIPEBUFSIZ]]
  /\ Goto(e, "r_inc")
  /\ UNCHANGED <<maps, ring, cur, calls, got, asking>>

(* The loop goes on with the next byte at l, or the call returns.          *)
NextByte(e, l) ==
  IF got[e] + 1 < Length
  THEN /\ got' = [got EXCEPT ![e] = @ + 1]
       /\ Goto(e, l)
       /\ UNCHANGED <<op, slot>>
  ELSE Done(e) /\ got' = [got EXCEPT ![e] = 0]

r_inc(e) ==
  /\ At(e, "r_inc")
  /\ p_rpos' = p_rpos + 1
  /\ took' = [took EXCEPT ![e] = 0]
  /\ NextByte(e, "r_test")
  /\ UNCHANGED <<maps, p_wpos, p_buf, cur, new, family, asking>>

write(e, i) ==
  /\ fd[e][i] = "W"
  /\ p_wpos + Length <= MaxBytes
  /\ Begin(e, "write", i, "w_test")
  /\ UNCHANGED <<maps, ring, cur, new, family, moving, asking>>

w_test_late(e) ==
  /\ At(e, "w_test")
  /\ Goto(e, IF p_wpos > p_rpos + PIPEBUFSIZ THEN "ask_n" ELSE "w_store")
  /\ UNCHANGED <<maps, ring, cur, calls, moving, asking>>

w_test(e) ==
  /\ At(e, "w_test")
  /\ Goto(e, IF p_wpos >= p_rpos + PIPEBUFSIZ THEN "ask_n" ELSE "w_store")
  /\ UNCHANGED <<maps, ring, cur, calls, moving, asking>>

w_store(e) ==
  /\ At(e, "w_store")
  /\ p_buf' = [p_buf EXCEPT ![p_wpos % PIPEBUFSIZ] = p_wpos]
  /\ Goto(e, "w_inc")
  /\ UNCHANGED <<maps, p_rpos, p_wpos, cur, calls, moving, asking>>

w_inc(e) ==
  /\ At(e, "w_inc")
  /\ p_wpos' = p_wpos + 1
  /\ NextByte(e, "w_test")
  /\ UNCHANGED <<maps, p_rpos, p_buf, cur, new, family, took, asking>>

devpipe_read(e) == r_test(e) \/ r_take(e) \/ r_inc(e)
devpipe_write(e) == w_test(e) \/ w_store(e) \/ w_inc(e)
-----------------------------------------------------------------------------
(* The next step of the call e is in.                                      *)
Step(e) ==
  \/ devpipe_close_fd(e) \/ devpipe_close_data(e) \/ close_all(e)
  \/ dup_data(e) \/ dup_fd(e)
  \/ fork_fd(e) \/ fork_data(e) \/ fork_start(e)
  \/ _pipeisclosed(e) \/ devpipe_read(e) \/ devpipe_write(e)

(* Nobody but e has the pipe.                                              *)
Unshared(e) == \A d \in Envs \ {e}, i \in Fds : ~ Open(d, i) /\ ~ data[d][i]

(* Any environment makes any call at any time.                             *)
Next ==
  \E e \in Envs :
    \/ Step(e) \/ pipe(e) \/ exit(e) \/ env_run(e) \/ Kill(e)
    \/ \E c \in Envs : fork(e, c)
    \/ \E i \in Fds : close(e, i) \/ pipeisclosed(e, i) \/ read(e, i) \/ write(e, i)
    \/ \E i, j \in Fds : dup(e, i, j)

Spec == Init /\ [][Next]_vars

(* As user/testpipe.c and user/sh.c do: the creator hands the pipe to one  *)
(* child before it uses it, and writes what the child reads.  Either may   *)
(* close and duplicate its descriptors.                                    *)
LibNext ==
  \/ pipe(Root)
  \/ \E c \in Envs : Unshared(Root) /\ fork(Root, c)
  \/ \E i \in Fds : write(Root, i)
  \/ \E e \in Envs \ {Root}, i \in Fds : read(e, i) \/ pipeisclosed(e, i)
  \/ \E e \in Envs :
       \/ Step(e) \/ exit(e) \/ env_run(e) \/ Kill(e)
       \/ \E i \in Fds : close(e, i)
       \/ \E i, j \in Fds : (e = Root \/ ~ Open(e, j)) /\ dup(e, i, j)

LibSpec == Init /\ [][LibNext]_vars

(* Every live environment keeps getting the CPU and uses it.               *)
Fairness == \A e \in Envs : WF_vars(env_run(e)) /\ SF_vars(Step(e))

FairSpec == LibSpec /\ Fairness
-----------------------------------------------------------------------------
Places == {"free", "embryo", "run", "close_fd", "close_data", "dup_data", "dup_fd", "exit",
           "fork_fd", "fork_data", "fork_start", "ask_n", "closed",
           "r_test", "r_take", "r_inc", "w_test", "w_store", "w_inc"} \cup Asking

Calls == {"none", "close", "dup", "exit", "fork", "pipeisclosed", "read", "write"}

TypeOK ==
  /\ fd \in [Envs -> [Fds -> {"none", "R", "W"}]]
  /\ data \in [Envs -> [Fds -> BOOLEAN]]
  /\ p_rpos \in 0 .. MaxBytes /\ p_wpos \in 0 .. MaxBytes
  /\ p_buf \in [0 .. PIPEBUFSIZ - 1 -> 0 .. MaxBytes]
  /\ cur \in Envs \cup {NoEnv}
  /\ pc \in [Envs -> Places]
  /\ op \in [Envs -> Calls]
  /\ slot \in [Envs -> Fds] /\ new \in [Envs -> Fds]
  /\ kid \in [Envs -> Envs \cup {NoEnv}]
  /\ parent \in [Envs -> Envs \cup {NoEnv}]
  /\ got \in [Envs -> 0 .. Length - 1]
  /\ took \in [Envs -> 0 .. MaxBytes]
  /\ half \in [Envs -> {"none", "fd", "ring", "ret"} \X Nat]
  /\ runs \in [Envs -> BOOLEAN]

(* Some descriptor of this end is still open, if only in a child that      *)
(* fork() is still making.                                                 *)
EndOpen(end) == \E e \in Envs, i \in Fds : fd[e][i] = end

(* "Closed" is never said of a pipe whose other end is open, although the  *)
(* two counts are read one after the other while others close and dup      *)
(* (lib/pipe.c:80-88, user/testpiperace2.c:34).                            *)
ClosedIsTrue ==
  \A e \in Envs : pc[e] = "closed" => ~ EndOpen(Other(fd[e][slot[e]]))

(* What a reader takes at position k is what was written at position k:    *)
(* nothing is lost, doubled or overwritten, although positions and bytes   *)
(* are stored separately (lib/pipe.c:133-134, 167-168).                    *)
BytesInOrder == \A e \in Envs : pc[e] = "r_inc" => took[e] = p_rpos

(* Nobody is between the two system calls of a close or a dup.             *)
Settled == \A e \in Envs : pc[e] \notin {"close_data", "dup_fd"}

(* A reader of a pipe nobody can write to any more is told so, or gets     *)
(* what is left (lib/pipe.c:119-124), if now and then the clock lets       *)
(* _pipeisclosed through undisturbed while nobody is halfway through a     *)
(* close or a dup.                                                         *)
EofIsSeen ==
  \A e \in Envs \ {Root} :
    ([]<>(pc[e] \in Asking) => []<><<ask_nn(e) /\ ~ runs[e] /\ Settled>>_vars) =>
    (op[e] = "read" /\ ~ EndOpen("W")) ~> op[e] = "none"
=============================================================================
