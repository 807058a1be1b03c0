----------------------------- MODULE PipeProofs -----------------------------
(***************************************************************************)
(* Proofs about Pipe when it is used as the library's programs use it: for *)
(* any number of environments and descriptors, any size of the ring and    *)
(* any length of reads and writes, the reader gets the bytes in the order  *)
(* they were written, and _pipeisclosed never says of an end that is open  *)
(* that it is closed.                                                      *)
(*                                                                         *)
(* Neither end takes a lock.  What makes the ring work is that one         *)
(* environment writes and at most one other has a descriptor to read from, *)
(* which is why the invariant is as much about fork, dup and close as      *)
(* about positions: a test of the positions stays true until its own end   *)
(* acts on it, since the other end only moves in the helpful direction.    *)
(*                                                                         *)
(* _pipeisclosed compares two reference counts that it reads one after the *)
(* other.  They tell the truth when every descriptor comes with the ring,  *)
(* which fork breaks for a while in the child it makes; the second         *)
(* invariant says that nobody can ask then.                                *)
(***************************************************************************)
EXTENDS Pipe, FiniteSetTheorems, TLAPS

N == PIPEBUFSIZ
Forking == {"fork_fd", "fork_data", "fork_start"}

(* The call an environment is in, by the place it is at.                   *)
Fits(l, c) ==
  /\ l \in {"r_test", "r_take", "r_inc"} => c = "read"
  /\ l \in {"w_test", "w_store", "w_inc"} => c = "write"
  /\ l \in {"close_fd", "close_data"} => c \in {"close", "dup", "exit"}
  /\ l \in {"dup_data", "dup_fd"} => c = "dup"
  /\ l = "exit" => c = "exit"
  /\ l \in Forking => c = "fork"
  /\ l \in {"run", "free", "embryo"} => c = "none"
  /\ l \in Asking \cup {"ask_n", "closed"} => c \in {"read", "write", "pipeisclosed"}

(* e has the pipe, or is about to be given it.                             *)
Uses(e) == (\E i \in Fds : Open(e, i)) \/ (e = kid[Root] /\ pc[Root] \in Forking)

CallTypes ==
  /\ fd \in [Envs -> [Fds -> {"none", "R", "W"}]]
  /\ pc \in [Envs -> Places] /\ op \in [Envs -> Calls]
  /\ slot \in [Envs -> Fds] /\ new \in [Envs -> Fds] /\ got \in [Envs -> Nat]
  /\ kid \in [Envs -> Envs \cup {NoEnv}]

(* Root writes, and one other environment at most reads.                   *)
CallInv ==
  /\ \A e \in Envs : Fits(pc[e], op[e])
  /\ \A e \in Envs : op[e] = "read" => e # Root /\ fd[e][slot[e]] = "R"
  /\ \A e \in Envs : op[e] = "write" => e = Root
  /\ \A e \in Envs : pc[e] \in Forking => e = Root
  /\ pc[Root] \in Forking => kid[Root] \in Envs \ {Root} /\ pc[kid[Root]] = "embryo"
  /\ \A d, e \in Envs \ {Root} : Uses(d) /\ Uses(e) => d = e

(* The ring holds the bytes between the positions; what an end has tested  *)
(* still holds when it acts.                                               *)
RingInv ==
  /\ p_rpos \in Nat /\ p_wpos \in Nat /\ p_buf \in [0 .. N - 1 -> Nat]
  /\ took \in [Envs -> Nat]
  /\ p_rpos <= p_wpos /\ p_wpos <= p_rpos + N
  /\ \A k \in Nat : p_rpos <= k /\ k < p_wpos => p_buf[k % N] = k
  /\ pc[Root] \in {"w_store", "w_inc"} => p_wpos < p_rpos + N
  /\ pc[Root] = "w_inc" => p_buf[p_wpos % N] = p_wpos
  /\ \A e \in Envs : pc[e] \in {"r_take", "r_inc"} => p_rpos < p_wpos
  /\ \A e \in Envs : pc[e] = "r_inc" => took[e] = p_rpos

PInv == CallTypes /\ CallInv /\ RingInv
-----------------------------------------------------------------------------
(* Two positions less than a ring apart have different slots.              *)
LEMMA SlotsDiffer ==
  ASSUME NEW n \in Nat \ {0}, NEW a \in Nat, NEW b \in Nat, a < b, b < a + n
  PROVE  a % n # b % n
<1>1. PICK qa \in Int, ra \in 0 .. n - 1 : a = n * qa + ra /\ ra = a % n
  <2>1. a \div n \in Int /\ a % n \in 0 .. n - 1 /\ a = n * (a \div n) + (a % n)
    OBVIOUS
  <2>2. QED BY <2>1, Zenon
<1>2. PICK qb \in Int, rb \in 0 .. n - 1 : b = n * qb + rb /\ rb = b % n
  <2>1. b \div n \in Int /\ b % n \in 0 .. n - 1 /\ b = n * (b \div n) + (b % n)
    OBVIOUS
  <2>2. QED BY <2>1, ZenonT(60)
<1>3. SUFFICES ASSUME ra = rb PROVE FALSE
  BY <1>1, <1>2, Zenon
<1>4. b - a = n * (qb - qa)
  BY <1>1, <1>2, <1>3, SMTT(60)
<1>5. CASE qb - qa <= 0
  <2>1. n * (qb - qa) <= 0
    BY <1>5
  <2>2. QED BY <1>4, <2>1
<1>6. CASE qb - qa >= 1
  <2>1. n * (qb - qa) >= n
    BY <1>6
  <2>2. QED BY <1>4, <2>1
<1>7. QED BY <1>5, <1>6

(* A slot is an index of the ring.                                         *)
LEMMA SlotIsIndex ==
  ASSUME NEW k \in Nat
  PROVE  k % N \in 0 .. N - 1
BY SizeAssumption DEF N

(* Only e moves.                                                           *)
Moves(e) ==
  /\ pc' \in [Envs -> Places] /\ op' \in [Envs -> Calls] /\ slot' \in [Envs -> Fds]
  /\ new' \in [Envs -> Fds] /\ got' \in [Envs -> Nat]
  /\ kid' \in [Envs -> Envs \cup {NoEnv}]
  /\ \A d \in Envs \ {e} : /\ pc'[d] = pc[d] /\ op'[d] = op[d] /\ slot'[d] = slot[d]
                           /\ kid'[d] = kid[d]

(* e moves on in a call, or from one to another, and gets no descriptor it *)
(* has no copy of.                                                         *)
LEMMA CallStep ==
  ASSUME CallTypes, CallInv, NEW e \in Envs, Moves(e),
         pc[e] \notin Forking \cup {"embryo"}, pc'[e] \notin Forking, Fits(pc'[e], op'[e]),
         fd' \in [Envs -> [Fds -> {"none", "R", "W"}]],
         \A d \in Envs \ {e} : fd'[d] = fd[d],
         (\E i \in Fds : fd'[e][i] # "none") => \E i \in Fds : Open(e, i),
         op'[e] = "read" => e # Root /\ fd'[e][slot'[e]] = "R", op'[e] = "write" => e = Root
  PROVE  CallTypes' /\ CallInv'
<1>1. CallTypes'
  BY Zenon DEF CallTypes, Moves
<1>2. \A d \in Envs : Fits(pc[d], op[d])'
  BY DEF CallInv, Fits, Moves
<1>3. /\ \A d \in Envs : op'[d] = "read" => d # Root /\ fd'[d][slot'[d]] = "R"
      /\ \A d \in Envs : op'[d] = "write" => d = Root
      /\ \A d \in Envs : pc'[d] \in Forking => d = Root
  <2>1. \A d \in Envs \ {e} : pc'[d] = pc[d] /\ op'[d] = op[d] /\ slot'[d] = slot[d]
    BY Zenon DEF Moves
  <2>2. QED BY <2>1 DEF CallInv
<1>4. pc'[Root] \in Forking => Root # e /\ pc[Root] \in Forking /\ kid'[Root] = kid[Root]
  BY SizeAssumption, Zenon DEF Moves
<1>5. pc'[Root] \in Forking => kid'[Root] \in Envs \ {Root} /\ pc'[kid'[Root]] = "embryo"
  BY <1>4 DEF CallInv, Moves
<1>6. \A d \in Envs : Uses(d)' => Uses(d)
  BY <1>4, Zenon DEF Uses, Open
<1>7. \A d, x \in Envs \ {Root} : Uses(d)' /\ Uses(x)' => d = x
  BY <1>6, Zenon DEF CallInv
<1>8. QED BY <1>1, <1>2, <1>3, <1>5, <1>7, Zenon DEF CallInv

(* The same of an environment that keeps its descriptors.                  *)
LEMMA CallOn ==
  ASSUME CallTypes, CallInv, NEW e \in Envs, Moves(e), fd' = fd,
         pc[e] \notin Forking \cup {"embryo"}, pc'[e] \notin Forking, Fits(pc'[e], op'[e]),
         op'[e] = "read" => e # Root /\ fd[e][slot'[e]] = "R", op'[e] = "write" => e = Root
  PROVE  CallTypes' /\ CallInv'
<1>1. /\ fd' \in [Envs -> [Fds -> {"none", "R", "W"}]]
      /\ (\E i \in Fds : fd'[e][i] # "none") => \E i \in Fds : Open(e, i)
  BY Zenon DEF CallTypes, Open
<1>2. QED BY <1>1, CallStep, Zenon

(* A step that leaves the ring alone and brings nobody to a place where it *)
(* relies on a test of the ring.                                           *)
LEMMA RingQuiet ==
  ASSUME RingInv, UNCHANGED ring, took' \in [Envs -> Nat],
         \A d \in Envs : pc'[d] \in {"r_take", "r_inc", "w_store", "w_inc"} =>
           pc'[d] = pc[d] /\ took'[d] = took[d]
  PROVE  RingInv'
<1>1. p_rpos' = p_rpos /\ p_wpos' = p_wpos /\ p_buf' = p_buf
  BY Zenon DEF ring
<1>2. QED BY <1>1, SizeAssumption, SMTT(60) DEF RingInv
-----------------------------------------------------------------------------
(* Calls begin, and go on without the ring.                                *)

(* The places of Begin.                                                    *)
LEMMA BeginEffect ==
  ASSUME CallTypes, NEW e \in Envs, NEW c \in Calls, NEW i \in Fds, NEW l \in Places,
         Begin(e, c, i, l), kid' = kid, got' = got, new' \in [Envs -> Fds]
  PROVE  /\ Moves(e) /\ pc[e] = "run" /\ pc'[e] = l /\ op'[e] = c /\ slot'[e] = i
         /\ \A d \in Envs \ {e} : pc'[d] = pc[d]
BY ZenonT(60) DEF Begin, Goto, Moves, CallTypes

(* close, exit, dup, pipeisclosed, read and write begin.                   *)
LEMMA BeginStep ==
  ASSUME PInv, NEW e \in Envs,
         \/ \E i \in Fds : close(e, i) \/ pipeisclosed(e, i)
         \/ \E i \in Fds : e # Root /\ read(e, i)
         \/ \E i \in Fds : e = Root /\ write(e, i)
         \/ \E i, j \in Fds : dup(e, i, j)
         \/ exit(e)
  PROVE  PInv'
<1> USE DEF PInv
<1>1. /\ fd' = fd /\ kid' = kid /\ got' = got /\ took' = took /\ UNCHANGED ring
      /\ new' \in [Envs -> Fds]
  BY Zenon DEF close, pipeisclosed, read, write, dup, exit, maps, family, moving, CallTypes
<1>2. 0 \in Fds
  BY SizeAssumption DEF Fds
<1>3. PICK c \in Calls, i \in Fds, l \in Places :
        /\ Begin(e, c, i, l) /\ Fits(l, c)
        /\ l \notin Forking \cup {"r_take", "r_inc", "w_store", "w_inc"}
        /\ c = "read" => e # Root /\ fd[e][i] = "R"
        /\ c = "write" => e = Root
  <2>1. CASE \E i \in Fds : close(e, i)
    BY <2>1, Zenon DEF close, Calls, Places, Fits, Forking, Asking
  <2>2. CASE \E i \in Fds : pipeisclosed(e, i)
    BY <2>2, Zenon DEF pipeisclosed, Calls, Places, Fits, Forking, Asking
  <2>3. CASE \E i \in Fds : e # Root /\ read(e, i)
    BY <2>3, Zenon DEF read, Calls, Places, Fits, Forking, Asking
  <2>4. CASE \E i \in Fds : e = Root /\ write(e, i)
    BY <2>4, Zenon DEF write, Calls, Places, Fits, Forking, Asking
  <2>5. CASE \E i, j \in Fds : dup(e, i, j)
    <3>1. PICK i \in Fds, l \in {"close_fd", "dup_data"} : Begin(e, "dup", i, l)
      BY <2>5, Zenon DEF dup
    <3>2. QED BY <3>1, Zenon DEF Calls, Places, Fits, Forking, Asking
  <2>6. CASE exit(e)
    BY <1>2, <2>6, Zenon DEF exit, Calls, Places, Fits, Forking, Asking
  <2>7. QED BY <2>1, <2>2, <2>3, <2>4, <2>5, <2>6, Zenon
<1>4. /\ Moves(e) /\ pc[e] = "run" /\ pc'[e] = l /\ op'[e] = c /\ slot'[e] = i
      /\ \A d \in Envs \ {e} : pc'[d] = pc[d]
  BY <1>1, <1>3, BeginEffect, Zenon
<1>5. CallTypes' /\ CallInv'
  <2>1. pc[e] \notin Forking \cup {"embryo"}
    BY <1>4, Zenon DEF Forking
  <2>2. QED BY <1>1, <1>3, <1>4, <2>1, CallOn, Zenon
<1>6. RingInv'
  <2>1. took' \in [Envs -> Nat]
    BY <1>1, Zenon DEF RingInv
  <2>2. QED BY <1>1, <1>3, <1>4, <2>1, RingQuiet, Zenon
<1>7. QED BY <1>5, <1>6, Zenon

(* The environments' clock, and the rest of what is no call.               *)
LEMMA RunStep ==
  ASSUME PInv, UNCHANGED <<fd, ring, pc, calls, moving>>
  PROVE  PInv'
<1>1. UNCHANGED <<fd, p_rpos, p_wpos, p_buf, pc, op, slot, new, kid, got, took>>
  BY Zenon DEF ring, calls, family, moving
<1>2. CallTypes' /\ RingInv'
  BY <1>1, Zenon DEF PInv, CallTypes, RingInv, N
<1>3. CallInv'
  BY <1>1 DEF PInv, CallInv, Fits, Uses, Open
<1>4. QED BY <1>2, <1>3, Zenon DEF PInv

(* An environment goes.                                                    *)
LEMMA DestroyStep ==
  ASSUME PInv, NEW e \in Envs, pc[e] \notin {"embryo"}, env_destroy(e)
  PROVE  PInv'
<1> USE DEF PInv
<1>1. 0 \in Fds
  BY SizeAssumption DEF Fds
<1>2. Moves(e) /\ pc'[e] = "free" /\ op'[e] = "none"
  BY <1>1, Zenon DEF env_destroy, Goto, Moves, CallTypes, Places, Calls
<1>3. /\ fd' \in [Envs -> [Fds -> {"none", "R", "W"}]]
      /\ \A d \in Envs \ {e} : fd'[d] = fd[d]
      /\ \A i \in Fds : fd'[e][i] = "none"
  BY Zenon DEF env_destroy, CallTypes, Closed
<1>4. took' \in [Envs -> Nat] /\ \A d \in Envs \ {e} : took'[d] = took[d]
  BY Zenon DEF env_destroy, RingInv
<1>5. RingInv'
  BY <1>2, <1>4, RingQuiet, Zenon DEF env_destroy, Moves
<1>6. CASE pc[e] \notin Forking
  <2>1. Fits(pc'[e], op'[e]) /\ pc'[e] \notin Forking
    BY <1>2, Zenon DEF Fits, Asking, Forking
  <2>2. QED BY <1>2, <1>3, <1>5, <1>6, <2>1, CallStep, Zenon
<1>7. CASE pc[e] \in Forking
  <2>1. e = Root
    BY <1>7, Zenon DEF CallInv
  <2>2. CallTypes'
    BY <1>2, <1>3, Zenon DEF CallTypes, Moves
  <2>3. \A d \in Envs : Fits(pc[d], op[d])'
    BY <1>2 DEF CallInv, Fits, Moves, Asking, Forking
  <2>4. /\ \A d \in Envs : op'[d] = "read" => d # Root /\ fd'[d][slot'[d]] = "R"
        /\ \A d \in Envs : op'[d] = "write" => d = Root
        /\ \A d \in Envs : pc'[d] \in Forking => d = Root
        /\ pc'[Root] \notin Forking
    <3>1. \A d \in Envs \ {e} : pc'[d] = pc[d] /\ op'[d] = op[d] /\ slot'[d] = slot[d]
      BY <1>2, Zenon DEF Moves
    <3>2. pc'[e] \notin Forking
      BY <1>2, Zenon DEF Forking
    <3>3. QED BY <1>2, <1>3, <2>1, <3>1, <3>2 DEF CallInv
  <2>5. \A d \in Envs : Uses(d)' => Uses(d)
    BY <1>3, <2>4 DEF Uses, Open
  <2>6. CallInv'
    BY <2>3, <2>4, <2>5, Zenon DEF CallInv
  <2>7. QED BY <1>5, <2>2, <2>6, Zenon
<1>8. QED BY <1>6, <1>7, Zenon
-----------------------------------------------------------------------------
(* close, dup and the question whether the pipe is closed.                 *)

(* A step of a call that leaves the ring alone.                            *)
LEMMA QuietCall ==
  ASSUME PInv, NEW e \in Envs, Moves(e), fd' = fd, UNCHANGED ring, took' = took,
         pc[e] \notin Forking \cup {"embryo"},
         pc'[e] \notin Forking \cup {"r_take", "r_inc", "w_store", "w_inc"},
         Fits(pc'[e], op'[e]), op'[e] = "none" \/ op'[e] = op[e],
         slot'[e] = slot[e] \/ op'[e] # "read"
  PROVE  PInv'
<1> USE DEF PInv
<1>1. CallTypes' /\ CallInv'
  <2>1. /\ op'[e] = "read" => e # Root /\ fd[e][slot'[e]] = "R"
        /\ op'[e] = "write" => e = Root
    BY Zenon DEF CallInv
  <2>2. QED BY <2>1, CallOn, Zenon
<1>2. took' \in [Envs -> Nat] /\ \A d \in Envs \ {e} : pc'[d] = pc[d]
  BY Zenon DEF RingInv, Moves
<1>3. RingInv'
  BY <1>2, RingQuiet, Zenon
<1>4. QED BY <1>1, <1>3, Zenon

(* What Done and Goto do.                                                  *)
LEMMA DoneEffect ==
  ASSUME CallTypes, NEW e \in Envs, Done(e), kid' = kid,
         new' \in [Envs -> Fds], got' \in [Envs -> Nat]
  PROVE  Moves(e) /\ pc'[e] = "run" /\ op'[e] = "none"
<1>1. 0 \in Fds
  BY SizeAssumption DEF Fds
<1>2. QED BY <1>1, ZenonT(60) DEF Done, Goto, Moves, CallTypes, Places, Calls

LEMMA GotoEffect ==
  ASSUME CallTypes, NEW e \in Envs, NEW l \in Places, Goto(e, l), op' = op, slot' = slot,
         kid' = kid, new' \in [Envs -> Fds], got' \in [Envs -> Nat]
  PROVE  Moves(e) /\ pc'[e] = l /\ op'[e] = op[e] /\ slot'[e] = slot[e]
BY ZenonT(60) DEF Goto, Moves, CallTypes

(* The step after devpipe_close has unmapped the data page.                *)
LEMMA CloseDataStep ==
  ASSUME PInv, NEW e \in Envs, devpipe_close_data(e)
  PROVE  PInv'
<1> USE DEF PInv
<1>1. /\ fd' = fd /\ kid' = kid /\ got' = got /\ took' = took /\ UNCHANGED ring
      /\ new' = new /\ pc[e] = "close_data"
  BY Zenon DEF devpipe_close_data, family, moving, At
<1>2. new' \in [Envs -> Fds] /\ got' \in [Envs -> Nat]
  BY <1>1, Zenon DEF CallTypes
<1>3. op[e] \in {"close", "dup", "exit"}
  BY <1>1, Zenon DEF CallInv, Fits
<1>4. \/ Done(e)
      \/ op[e] = "dup" /\ Goto(e, "dup_data") /\ op' = op /\ slot' = slot
      \/ op[e] = "exit" /\ Goto(e, "exit") /\ op' = op /\ slot' = slot
  BY <1>3, ZenonT(60) DEF devpipe_close_data
<1>5. pc[e] \notin Forking \cup {"embryo"}
  BY <1>1, Zenon DEF Forking
<1>6. CASE Done(e)
  <2>1. Moves(e) /\ pc'[e] = "run" /\ op'[e] = "none"
    BY <1>1, <1>2, <1>6, DoneEffect, Zenon
  <2>2. Fits(pc'[e], op'[e]) /\ pc'[e] \notin Forking
    BY <2>1, Zenon DEF Fits, Forking, Asking
  <2>3. QED BY <1>1, <1>5, <2>1, <2>2, QuietCall, Zenon
<1>7. ASSUME NEW l \in {"dup_data", "exit"}, Fits(l, op[e]), Goto(e, l), op' = op, slot' = slot
      PROVE  PInv'
  <2>1. l \in Places /\ l \notin Forking
    BY Zenon DEF Places, Forking
  <2>2. Moves(e) /\ pc'[e] = l /\ op'[e] = op[e] /\ slot'[e] = slot[e]
    BY <1>1, <1>2, <1>7, <2>1, GotoEffect, Zenon
  <2>3. QED BY <1>1, <1>5, <1>7, <2>1, <2>2, QuietCall, Zenon
<1>8. Fits("dup_data", "dup") /\ Fits("exit", "exit")
  BY Zenon DEF Fits, Asking, Forking
<1>9. QED BY <1>4, <1>6, <1>7, <1>8, Zenon

(* dup maps the data page.                                                 *)
LEMMA DupDataStep ==
  ASSUME PInv, NEW e \in Envs, dup_data(e)
  PROVE  PInv'
<1> USE DEF PInv
<1>1. /\ fd' = fd /\ kid' = kid /\ got' = got /\ took' = took /\ UNCHANGED ring
      /\ new' = new /\ op' = op /\ slot' = slot /\ pc[e] = "dup_data" /\ Goto(e, "dup_fd")
  BY Zenon DEF dup_data, calls, family, moving, At
<1>2. new' \in [Envs -> Fds] /\ got' \in [Envs -> Nat] /\ "dup_fd" \in Places
  BY <1>1, Zenon DEF CallTypes, Places
<1>3. op[e] = "dup"
  BY <1>1, Zenon DEF CallInv, Fits
<1>4. Moves(e) /\ pc'[e] = "dup_fd" /\ op'[e] = op[e] /\ slot'[e] = slot[e]
  BY <1>1, <1>2, GotoEffect, Zenon
<1>5. /\ Fits(pc'[e], op'[e]) /\ pc'[e] \notin Forking /\ pc[e] \notin Forking \cup {"embryo"}
  BY <1>1, <1>3, <1>4, Zenon DEF Fits, Forking, Asking
<1>6. QED BY <1>1, <1>4, <1>5, QuietCall, Zenon

(* devpipe_close unmaps the descriptor: nobody is reading from it.         *)
LEMMA CloseFdStep ==
  ASSUME PInv, NEW e \in Envs, devpipe_close_fd(e)
  PROVE  PInv'
<1> USE DEF PInv
<1>1. /\ kid' = kid /\ got' = got /\ took' = took /\ UNCHANGED ring
      /\ new' = new /\ op' = op /\ slot' = slot /\ pc[e] = "close_fd" /\ Goto(e, "close_data")
      /\ fd' = [fd EXCEPT ![e] = [fd[e] EXCEPT ![Closing(e)] = "none"]]
  BY Zenon DEF devpipe_close_fd, calls, family, moving, At
<1>2. new' \in [Envs -> Fds] /\ got' \in [Envs -> Nat] /\ "close_data" \in Places
  BY <1>1, Zenon DEF CallTypes, Places
<1>3. op[e] \in {"close", "dup", "exit"}
  BY <1>1, Zenon DEF CallInv, Fits
<1>4. Moves(e) /\ pc'[e] = "close_data" /\ op'[e] = op[e] /\ slot'[e] = slot[e]
  BY <1>1, <1>2, GotoEffect, Zenon
<1>5. /\ Fits(pc'[e], op'[e]) /\ pc'[e] \notin Forking /\ pc[e] \notin Forking \cup {"embryo"}
  BY <1>1, <1>3, <1>4, Zenon DEF Fits, Forking, Asking
<1>6. /\ fd' \in [Envs -> [Fds -> {"none", "R", "W"}]]
      /\ \A d \in Envs \ {e} : fd'[d] = fd[d]
      /\ \A i \in Fds : fd'[e][i] \in {"none", fd[e][i]}
  BY <1>1, ZenonT(60) DEF CallTypes
<1>7. CallTypes' /\ CallInv'
  <2>1. (\E i \in Fds : fd'[e][i] # "none") => \E i \in Fds : Open(e, i)
    BY <1>6, Zenon DEF Open
  <2>2. op'[e] # "read" /\ op'[e] # "write"
    BY <1>3, <1>4, Zenon
  <2>3. QED BY <1>4, <1>5, <1>6, <2>1, <2>2, CallStep, Zenon
<1>8. RingInv'
  <2>1. took' \in [Envs -> Nat]
    BY <1>1, Zenon DEF RingInv
  <2>2. \A d \in Envs \ {e} : pc'[d] = pc[d]
    BY <1>4, Zenon DEF Moves
  <2>3. QED BY <1>1, <1>4, <2>1, <2>2, RingQuiet, Zenon
<1>9. QED BY <1>7, <1>8, Zenon

(* dup maps the descriptor: a copy of one that e has.                      *)
LEMMA DupFdStep ==
  ASSUME PInv, NEW e \in Envs, dup_fd(e)
  PROVE  PInv'
<1> USE DEF PInv
<1>1. /\ kid' = kid /\ got' = got /\ took' = took /\ UNCHANGED ring /\ pc[e] = "dup_fd"
      /\ new' = [new EXCEPT ![e] = 0] /\ Done(e)
      /\ fd' = [fd EXCEPT ![e] = [fd[e] EXCEPT ![new[e]] = fd[e][slot[e]]]]
  BY Zenon DEF dup_fd, family, moving, At
<1>2. new' \in [Envs -> Fds] /\ got' \in [Envs -> Nat]
  BY <1>1, SizeAssumption DEF CallTypes, Fds
<1>3. Moves(e) /\ pc'[e] = "run" /\ op'[e] = "none"
  BY <1>1, <1>2, DoneEffect, Zenon
<1>4. /\ Fits(pc'[e], op'[e]) /\ pc'[e] \notin Forking /\ pc[e] \notin Forking \cup {"embryo"}
  BY <1>1, <1>3, Zenon DEF Fits, Forking, Asking
<1>5. slot[e] \in Fds /\ new[e] \in Fds /\ fd[e] \in [Fds -> {"none", "R", "W"}]
  BY Zenon DEF CallTypes
<1>6. /\ fd' \in [Envs -> [Fds -> {"none", "R", "W"}]]
      /\ \A d \in Envs \ {e} : fd'[d] = fd[d]
      /\ \A i \in Fds : fd'[e][i] \in {fd[e][i], fd[e][slot[e]]}
  BY <1>1, <1>5, Zenon DEF CallTypes
<1>7. CallTypes' /\ CallInv'
  <2>1. (\E i \in Fds : fd'[e][i] # "none") => \E i \in Fds : Open(e, i)
    BY <1>5, <1>6, Zenon DEF Open
  <2>2. QED BY <1>3, <1>4, <1>6, <2>1, CallStep, Zenon
<1>8. RingInv'
  <2>1. took' \in [Envs -> Nat]
    BY <1>1, Zenon DEF RingInv
  <2>2. \A d \in Envs \ {e} : pc'[d] = pc[d]
    BY <1>3, Zenon DEF Moves
  <2>3. QED BY <1>1, <1>3, <2>1, <2>2, RingQuiet, Zenon
<1>9. QED BY <1>7, <1>8, Zenon

(* close_all goes to the next descriptor that is open, or exit() ends.     *)
LEMMA CloseAllStep ==
  ASSUME PInv, NEW e \in Envs, close_all(e)
  PROVE  PInv'
<1> USE DEF PInv
<1>1. pc[e] = "exit"
  BY Zenon DEF close_all, At
<1>2. CASE env_destroy(e)
  BY <1>1, <1>2, DestroyStep, Zenon
<1>3. CASE /\ \E i \in Fds : slot' = [slot EXCEPT ![e] = i]
           /\ Goto(e, "close_fd")
           /\ UNCHANGED <<maps, ring, cur, op, new, family, moving, asking>>
  <2>1. /\ fd' = fd /\ kid' = kid /\ got' = got /\ took' = took /\ UNCHANGED ring
        /\ new' = new /\ op' = op
    BY <1>3, Zenon DEF maps, family, moving
  <2>2. Moves(e) /\ pc'[e] = "close_fd" /\ op'[e] = op[e]
    BY <1>3, <2>1, Zenon DEF Goto, Moves, CallTypes, Places
  <2>3. op[e] = "exit"
    BY <1>1, Zenon DEF CallInv, Fits
  <2>4. /\ Fits(pc'[e], op'[e]) /\ pc'[e] \notin Forking /\ pc[e] \notin Forking \cup {"embryo"}
    BY <1>1, <2>2, <2>3, Zenon DEF Fits, Forking, Asking
  <2>5. QED BY <2>1, <2>2, <2>3, <2>4, QuietCall, Zenon
<1>4. QED BY <1>2, <1>3, Zenon DEF close_all

(* _pipeisclosed only looks.                                               *)
LEMMA AskStep ==
  ASSUME PInv, NEW e \in Envs, _pipeisclosed(e)
  PROVE  PInv'
<1> USE DEF PInv
<1>1. /\ fd' = fd /\ kid' = kid /\ took' = took /\ UNCHANGED ring /\ new' = new
      /\ pc[e] \in Asking \cup {"ask_n", "closed"}
  BY ZenonT(60) DEF _pipeisclosed, ask_n, ask_1, ask_2, ask_nn, closed, maps, calls, family, moving, At, Asking
<1>2. /\ got' \in [Envs -> Nat] /\ new' \in [Envs -> Fds]
  <2>1. got' = got \/ got' = [got EXCEPT ![e] = 0]
    BY ZenonT(60) DEF _pipeisclosed, ask_n, ask_1, ask_2, ask_nn, closed, moving
  <2>2. QED BY <1>1, <2>1 DEF CallTypes
<1>3. op[e] \in {"read", "write", "pipeisclosed"} /\ pc[e] \notin Forking \cup {"embryo"}
  BY <1>1, Zenon DEF CallInv, Fits, Asking, Forking
<1>4. ASSUME Done(e) PROVE PInv'
  <2>1. Moves(e) /\ pc'[e] = "run" /\ op'[e] = "none"
    BY <1>1, <1>2, <1>4, DoneEffect, Zenon
  <2>2. Fits(pc'[e], op'[e]) /\ pc'[e] \notin Forking
    BY <2>1, Zenon DEF Fits, Forking, Asking
  <2>3. QED BY <1>1, <1>3, <2>1, <2>2, QuietCall, Zenon
<1>5. ASSUME NEW l \in Asking \cup {"ask_n", "closed", "r_test", "w_test"},
             l = "r_test" => op[e] = "read", l = "w_test" => op[e] = "write",
             Goto(e, l), op' = op, slot' = slot
      PROVE  PInv'
  <2>1. /\ l \in Places /\ l \notin Forking \cup {"r_take", "r_inc", "w_store", "w_inc"}
        /\ Fits(l, op[e])
    BY <1>3, <1>5, Zenon DEF Places, Forking, Asking, Fits
  <2>2. Moves(e) /\ pc'[e] = l /\ op'[e] = op[e] /\ slot'[e] = slot[e]
    BY <1>1, <1>2, <1>5, <2>1, GotoEffect, Zenon
  <2>3. QED BY <1>1, <1>3, <2>1, <2>2, QuietCall, Zenon
<1>6. CASE ask_n(e) \/ ask_1(e) \/ ask_2(e)
  BY <1>5, <1>6, Zenon DEF ask_n, ask_1, ask_2, calls, Asking
<1>7. CASE ask_nn(e)
  <2>1. \/ Goto(e, "ask_n") /\ op' = op /\ slot' = slot
        \/ Goto(e, "closed") /\ op' = op /\ slot' = slot
        \/ op[e] = "read" /\ Goto(e, "r_test") /\ op' = op /\ slot' = slot
        \/ op[e] = "write" /\ Goto(e, "w_test") /\ op' = op /\ slot' = slot
        \/ Done(e)
    BY <1>3, <1>7, ZenonT(60) DEF ask_nn
  <2>2. QED BY <1>4, <1>5, <2>1, Zenon
<1>8. CASE closed(e)
  BY <1>4, <1>8, Zenon DEF closed
<1>9. QED BY <1>6, <1>7, <1>8, Zenon DEF _pipeisclosed
-----------------------------------------------------------------------------
(* pipe and fork.                                                          *)

(* A new pipe: nobody has one, so nobody is reading.                       *)
LEMMA PipeStep ==
  ASSUME PInv, pipe(Root)
  PROVE  PInv'
<1> USE DEF PInv
<1>1. /\ pc[Root] = "run" /\ \A d \in Envs, i \in Fds : ~ Open(d, i)
      /\ p_rpos' = 0 /\ p_wpos' = 0 /\ p_buf' = [k \in 0 .. PIPEBUFSIZ - 1 |-> 0]
      /\ UNCHANGED <<pc, op, slot, new, kid, got, took>>
  BY Zenon DEF pipe, calls, family, moving
<1>2. /\ fd' \in [Envs -> [Fds -> {"none", "R", "W"}]]
      /\ \A d \in Envs \ {Root} : fd'[d] = fd[d]
  BY SizeAssumption, Zenon DEF pipe, CallTypes
<1>3. \A d \in Envs : op[d] # "read"
  BY <1>1, Zenon DEF CallInv, CallTypes, Open
<1>4. \A d \in Envs : pc[d] \notin {"r_take", "r_inc"}
  BY <1>3, Zenon DEF CallInv, Fits
<1>5. RingInv'
  <2>1. p_buf' \in [0 .. N - 1 -> Nat]
    BY <1>1, Zenon DEF N
  <2>2. pc'[Root] \notin {"w_store", "w_inc"} /\ \A d \in Envs : pc'[d] \notin {"r_take", "r_inc"}
    BY <1>1, <1>4, Zenon
  <2>3. N \in Nat
    BY SizeAssumption, Zenon DEF N
  <2>4. QED BY <1>1, <2>1, <2>2, <2>3 DEF RingInv
<1>6. CallTypes'
  BY <1>1, <1>2, Zenon DEF CallTypes
<1>7. CallInv'
  <2>1. \A d \in Envs \ {Root} : ~ Uses(d)'
    BY <1>1, <1>2, Zenon DEF Uses, Open, Forking
  <2>2. \A d \in Envs : Fits(pc[d], op[d])'
    BY <1>1, Zenon DEF CallInv, Fits
  <2>3. QED BY <1>1, <1>3, <2>1, <2>2, Zenon DEF CallInv
<1>8. QED BY <1>5, <1>6, <1>7, Zenon

(* fork(): nobody but Root has the pipe when the child is made.            *)
LEMMA ForkStep ==
  ASSUME PInv, NEW c \in Envs, Unshared(Root), fork(Root, c)
  PROVE  PInv'
<1> USE DEF PInv
<1>1. /\ pc[c] = "free" /\ pc[Root] = "run" /\ c # Root
      /\ pc' = [pc EXCEPT ![Root] = "fork_fd", ![c] = "embryo"]
      /\ op' = [op EXCEPT ![Root] = "fork"] /\ kid' = [kid EXCEPT ![Root] = c]
      /\ UNCHANGED <<fd, ring, slot, new, got, took>>
  BY Zenon DEF fork, maps, moving
<1>2. CallTypes'
  BY <1>1, ZenonT(60) DEF CallTypes, Places, Calls
<1>3. /\ pc'[Root] = "fork_fd" /\ pc'[c] = "embryo" /\ op'[Root] = "fork" /\ kid'[Root] = c
      /\ \A d \in Envs \ {Root, c} : pc'[d] = pc[d]
      /\ \A d \in Envs \ {Root} : op'[d] = op[d]
  BY <1>1, SizeAssumption, Zenon DEF CallTypes
<1>4. op[c] = "none"
  BY <1>1, Zenon DEF CallInv, Fits
<1>5. RingInv'
  <2>1. took' \in [Envs -> Nat]
    BY <1>1, Zenon DEF RingInv
  <2>2. QED BY <1>1, <1>3, <2>1, RingQuiet, ZenonT(60)
<1>6. CallInv'
  <2>1. \A d \in Envs : Fits(pc[d], op[d])'
    <3>1. Fits("fork_fd", "fork") /\ Fits("embryo", "none")
      BY Zenon DEF Fits, Forking, Asking
    <3>2. \A d \in Envs \ {Root, c} : Fits(pc'[d], op'[d])
      BY <1>3, Zenon DEF CallInv
    <3>3. QED BY <1>1, <1>3, <1>4, <3>1, <3>2, ZenonT(60)
  <2>2. \A d \in Envs \ {Root} : Uses(d)' => d = c
    BY <1>1, <1>3, Zenon DEF Uses, Unshared, Open
  <2>3. \A d \in Envs : pc'[d] \in Forking => d = Root
    BY <1>3, Zenon DEF CallInv, Forking
  <2>4. /\ \A d \in Envs : op'[d] = "read" => d # Root /\ fd'[d][slot'[d]] = "R"
        /\ \A d \in Envs : op'[d] = "write" => d = Root
    BY <1>1, <1>3 DEF CallInv
  <2>5. QED BY <1>1, <1>3, <2>1, <2>2, <2>3, <2>4, ZenonT(60) DEF CallInv
<1>7. QED BY <1>2, <1>5, <1>6, Zenon

(* NextSlot stays in the loop or goes to l.                                *)
LEMMA NextSlotEffect ==
  ASSUME CallTypes, NEW e \in Envs, NEW l \in Places, NextSlot(e, l)
  PROVE  /\ pc' \in [Envs -> Places] /\ slot' \in [Envs -> Fds]
         /\ \A d \in Envs \ {e} : pc'[d] = pc[d] /\ slot'[d] = slot[d]
         /\ pc'[e] \in {pc[e], l}
<1>1. MAXFD \in Nat /\ 0 \in Fds /\ slot[e] \in Fds
  BY SizeAssumption DEF CallTypes, Fds
<1>2. CASE slot[e] < MAXFD - 1
  <2>1. slot' = [slot EXCEPT ![e] = slot[e] + 1] /\ pc' = pc
    BY <1>2, Zenon DEF NextSlot
  <2>2. slot[e] + 1 \in Fds
    BY <1>1, <1>2 DEF Fds
  <2>3. QED BY <2>1, <2>2, Zenon DEF CallTypes
<1>3. CASE ~ (slot[e] < MAXFD - 1)
  <2>1. slot' = [slot EXCEPT ![e] = 0] /\ pc' = [pc EXCEPT ![e] = l]
    BY <1>3, Zenon DEF NextSlot, Goto
  <2>2. QED BY <1>1, <2>1, Zenon DEF CallTypes
<1>4. QED BY <1>2, <1>3, Zenon

(* fork() maps descriptors and data pages into its child.                  *)
LEMMA ForkPageStep ==
  ASSUME PInv, NEW e \in Envs, fork_fd(e) \/ fork_data(e)
  PROVE  PInv'
<1> USE DEF PInv
<1>1. /\ pc[e] \in {"fork_fd", "fork_data"} /\ UNCHANGED <<ring, op, new, kid, got, took>>
      /\ \E l \in {"fork_data", "fork_start"} : NextSlot(e, l)
      /\ fd' = fd \/ fd' = [fd EXCEPT ![kid[e]][slot[e]] = fd[e][slot[e]]]
  BY Zenon DEF fork_fd, fork_data, At, family, moving
<1>2. e = Root /\ pc[e] \in Forking
  BY <1>1, Zenon DEF CallInv, Forking
<1>3. PICK c \in Envs : c = kid[e] /\ c # Root /\ pc[c] = "embryo"
  BY <1>2, Zenon DEF CallInv
<1>4. op[c] = "none" /\ op[e] = "fork"
  BY <1>2, <1>3, Zenon DEF CallInv, Fits
<1>5. /\ pc' \in [Envs -> Places] /\ slot' \in [Envs -> Fds]
      /\ \A d \in Envs \ {e} : pc'[d] = pc[d] /\ slot'[d] = slot[d]
      /\ pc'[e] \in Forking
  <2>1. PICK l \in {"fork_data", "fork_start"} : NextSlot(e, l)
    BY <1>1, Zenon
  <2>2. l \in Places /\ l \in Forking
    BY Zenon DEF Places, Forking
  <2>3. QED BY <1>2, <2>1, <2>2, NextSlotEffect, Zenon
<1>6. /\ fd' \in [Envs -> [Fds -> {"none", "R", "W"}]]
      /\ \A d \in Envs \ {c} : fd'[d] = fd[d]
  <2>1. slot[e] \in Fds /\ fd[e][slot[e]] \in {"none", "R", "W"}
    BY Zenon DEF CallTypes
  <2>2. PICK row \in [Fds -> {"none", "R", "W"}] :
          row = [fd[c] EXCEPT ![slot[e]] = fd[e][slot[e]]]
    BY <2>1, ZenonT(60) DEF CallTypes
  <2>3. fd' = fd \/ fd' = [fd EXCEPT ![c] = row]
    BY <1>1, <1>3, <2>2, Zenon
  <2>4. QED BY <2>3, Zenon DEF CallTypes
<1>7. CallTypes'
  BY <1>1, <1>5, <1>6, Zenon DEF CallTypes
<1>8. RingInv'
  <2>1. took' \in [Envs -> Nat] /\ took' = took
    BY <1>1, Zenon DEF RingInv
  <2>2. pc'[e] \notin {"r_take", "r_inc", "w_store", "w_inc"}
    BY <1>5, Zenon DEF Forking
  <2>3. QED BY <1>1, <1>5, <2>1, <2>2, RingQuiet, Zenon
<1>9. CallInv'
  <2>1. \A d \in Envs : Fits(pc[d], op[d])'
    <3>1. Fits(pc'[e], op'[e])
      BY <1>1, <1>4, <1>5, Zenon DEF Fits, Forking, Asking
    <3>2. \A d \in Envs \ {e} : Fits(pc'[d], op'[d])
      BY <1>1, <1>5, Zenon DEF CallInv
    <3>3. QED BY <3>1, <3>2, Zenon
  <2>2. \A d \in Envs : Uses(d)' => Uses(d)
    BY <1>1, <1>2, <1>3, <1>6, Zenon DEF Uses, Open
  <2>3. \A d \in Envs : op'[d] = "read" => d # Root /\ fd'[d][slot'[d]] = "R"
    BY <1>1, <1>2, <1>4, <1>5, <1>6 DEF CallInv
  <2>4. /\ \A d \in Envs : op'[d] = "write" => d = Root
        /\ \A d \in Envs : pc'[d] \in Forking => d = Root
        /\ kid'[Root] \in Envs \ {Root} /\ pc'[kid'[Root]] = "embryo"
    BY <1>1, <1>2, <1>3, <1>5, Zenon DEF CallInv
  <2>5. QED BY <2>1, <2>2, <2>3, <2>4, Zenon DEF CallInv
<1>10. QED BY <1>7, <1>8, <1>9, Zenon

(* The child starts.                                                       *)
LEMMA ForkStartStep ==
  ASSUME PInv, NEW e \in Envs, fork_start(e)
  PROVE  PInv'
<1> USE DEF PInv
<1>1. /\ pc[e] = "fork_start" /\ op' = [op EXCEPT ![e] = "none"]
      /\ pc' = [pc EXCEPT ![e] = "run", ![kid[e]] = "run"]
      /\ kid' = [kid EXCEPT ![e] = NoEnv] /\ UNCHANGED <<fd, ring, slot, new, got, took>>
  BY Zenon DEF fork_start, At, maps, moving
<1>2. e = Root /\ pc[e] \in Forking
  BY <1>1, Zenon DEF CallInv, Forking
<1>3. PICK c \in Envs : c = kid[e] /\ c # Root /\ pc[c] = "embryo"
  BY <1>2, Zenon DEF CallInv
<1>4. op[c] = "none"
  BY <1>3, Zenon DEF CallInv, Fits
<1>5. /\ pc'[e] = "run" /\ pc'[c] = "run" /\ op'[e] = "none"
      /\ \A d \in Envs \ {e, c} : pc'[d] = pc[d]
      /\ \A d \in Envs \ {e} : op'[d] = op[d]
  BY <1>1, <1>2, <1>3, Zenon DEF CallTypes
<1>6. CallTypes'
  BY <1>1, <1>3, Zenon DEF CallTypes, Places, Calls
<1>7. RingInv'
  <2>1. took' \in [Envs -> Nat]
    BY <1>1, Zenon DEF RingInv
  <2>2. QED BY <1>1, <1>5, <2>1, RingQuiet, ZenonT(60)
<1>8. CallInv'
  <2>1. \A d \in Envs : Fits(pc[d], op[d])'
    <3>1. Fits("run", "none")
      BY Zenon DEF Fits, Forking, Asking
    <3>2. \A d \in Envs \ {e, c} : Fits(pc'[d], op'[d])
      BY <1>2, <1>5, Zenon DEF CallInv
    <3>3. QED BY <1>2, <1>3, <1>4, <1>5, <3>1, <3>2
  <2>2. pc'[Root] \notin Forking
    BY <1>2, <1>5, Zenon DEF Forking
  <2>3. \A d \in Envs : Uses(d)' => Uses(d)
    BY <1>1, <2>2, Zenon DEF Uses, Open
  <2>4. \A d \in Envs : pc'[d] \in Forking => d = Root
    BY <1>2, <1>5, Zenon DEF CallInv, Forking
  <2>5. /\ \A d \in Envs : op'[d] = "read" => d # Root /\ fd'[d][slot'[d]] = "R"
        /\ \A d \in Envs : op'[d] = "write" => d = Root
    BY <1>1, <1>2, <1>5 DEF CallInv
  <2>6. QED BY <2>1, <2>2, <2>3, <2>4, <2>5, Zenon DEF CallInv
<1>9. QED BY <1>6, <1>7, <1>8, Zenon
-----------------------------------------------------------------------------
(* The loops on the ring.                                                  *)

(* The next byte, or the end of the call.                                  *)
LEMMA NextByteEffect ==
  ASSUME CallTypes, NEW e \in Envs, NEW l \in {"r_test", "w_test"}, NextByte(e, l),
         kid' = kid, new' = new, Fits(l, op[e])
  PROVE  /\ Moves(e) /\ Fits(pc'[e], op'[e]) /\ pc'[e] \in {l, "run"}
         /\ (op'[e] = op[e] /\ slot'[e] = slot[e]) \/ op'[e] = "none"
<1>1. new' \in [Envs -> Fds] /\ l \in Places /\ 0 \in Nat
  BY Zenon DEF CallTypes, Places
<1>2. CASE got[e] + 1 < Length
  <2>1. got' = [got EXCEPT ![e] = got[e] + 1] /\ Goto(e, l) /\ op' = op /\ slot' = slot
    BY <1>2, Zenon DEF NextByte
  <2>2. got' \in [Envs -> Nat]
    BY <2>1 DEF CallTypes
  <2>3. Moves(e) /\ pc'[e] = l /\ op'[e] = op[e] /\ slot'[e] = slot[e]
    BY <1>1, <2>1, <2>2, GotoEffect, Zenon
  <2>4. QED BY <2>3, Zenon
<1>3. CASE ~ (got[e] + 1 < Length)
  <2>1. got' = [got EXCEPT ![e] = 0] /\ Done(e)
    BY <1>3, Zenon DEF NextByte
  <2>2. got' \in [Envs -> Nat]
    BY <1>1, <2>1, Zenon DEF CallTypes
  <2>3. Moves(e) /\ pc'[e] = "run" /\ op'[e] = "none"
    BY <1>1, <2>1, <2>2, DoneEffect, Zenon
  <2>4. Fits("run", "none")
    BY Zenon DEF Fits, Forking, Asking
  <2>5. QED BY <2>3, <2>4, Zenon
<1>4. QED BY <1>2, <1>3, Zenon

(* A step of a loop keeps the calls in order.                              *)
LEMMA LoopStep ==
  ASSUME PInv, NEW e \in Envs, Moves(e), fd' = fd,
         pc[e] \in {"r_test", "r_take", "r_inc", "w_test", "w_store", "w_inc"},
         pc'[e] \notin Forking, Fits(pc'[e], op'[e]),
         (op'[e] = op[e] /\ slot'[e] = slot[e]) \/ op'[e] = "none"
  PROVE  CallTypes' /\ CallInv'
<1>1. pc[e] \notin Forking \cup {"embryo"}
  BY Zenon DEF Forking
<1>2. /\ op'[e] = "read" => e # Root /\ fd[e][slot'[e]] = "R"
      /\ op'[e] = "write" => e = Root
  BY Zenon DEF PInv, CallInv
<1>3. QED BY <1>1, <1>2, CallOn, Zenon DEF PInv

(* Whoever reads is not Root, and is the only one.                         *)
LEMMA OneReader ==
  ASSUME PInv, NEW d \in Envs, NEW e \in Envs, op[d] = "read", op[e] = "read"
  PROVE  d = e /\ e # Root
<1>1. d # Root /\ e # Root /\ fd[d][slot[d]] = "R" /\ fd[e][slot[e]] = "R"
  BY Zenon DEF PInv, CallInv
<1>2. slot[d] \in Fds /\ slot[e] \in Fds
  BY Zenon DEF PInv, CallTypes
<1>3. Uses(d) /\ Uses(e)
  BY <1>1, <1>2, Zenon DEF Uses, Open
<1>4. QED BY <1>1, <1>3, Zenon DEF PInv, CallInv

(* devpipe_read looks for a byte.                                          *)
LEMMA ReadTestStep ==
  ASSUME PInv, NEW e \in Envs, r_test(e)
  PROVE  PInv'
<1> USE DEF PInv
<1>1. /\ pc[e] = "r_test" /\ UNCHANGED <<fd, ring, new, kid, took>>
  BY Zenon DEF r_test, At, maps, family
<1>2. op[e] = "read" /\ got[e] \in Nat /\ new' \in [Envs -> Fds]
  BY <1>1, Zenon DEF CallInv, Fits, CallTypes
<1>3. \/ p_rpos # p_wpos /\ Goto(e, "r_take") /\ op' = op /\ slot' = slot /\ got' = got
      \/ Goto(e, "ask_n") /\ op' = op /\ slot' = slot /\ got' = got
      \/ Done(e) /\ got' = [got EXCEPT ![e] = 0]
  <2>1. CASE p_rpos # p_wpos
    BY <2>1, ZenonT(60) DEF r_test
  <2>2. CASE p_rpos = p_wpos /\ got[e] = 0
    <3>1. ~ (p_rpos # p_wpos) /\ ~ (got[e] > 0)
      BY <2>2
    <3>2. QED BY <2>2, <3>1, Zenon DEF r_test
  <2>3. CASE p_rpos = p_wpos /\ got[e] > 0
    <3>1. ~ (p_rpos # p_wpos) /\ got[e] # 0
      BY <1>2, <2>3
    <3>2. QED BY <2>3, <3>1, ZenonT(60) DEF r_test
  <2>4. QED BY <1>2, <2>1, <2>2, <2>3
<1>4. got' \in [Envs -> Nat]
  BY <1>3 DEF CallTypes
<1>5. /\ Moves(e) /\ Fits(pc'[e], op'[e]) /\ pc'[e] \in {"r_take", "ask_n", "run"}
      /\ pc'[e] = "r_take" => p_rpos # p_wpos
      /\ (op'[e] = op[e] /\ slot'[e] = slot[e]) \/ op'[e] = "none"
  <2>1. CASE Done(e)
    <3>1. Moves(e) /\ pc'[e] = "run" /\ op'[e] = "none"
      BY <1>1, <1>2, <1>4, <2>1, DoneEffect, Zenon
    <3>2. QED BY <3>1, Zenon DEF Fits, Forking, Asking
  <2>2. ASSUME NEW l \in {"r_take", "ask_n"}, Goto(e, l), op' = op, slot' = slot
        PROVE  /\ Moves(e) /\ Fits(pc'[e], op'[e]) /\ pc'[e] = l
               /\ op'[e] = op[e] /\ slot'[e] = slot[e]
    <3>1. l \in Places
      BY Zenon DEF Places
    <3>2. Moves(e) /\ pc'[e] = l /\ op'[e] = op[e] /\ slot'[e] = slot[e]
      BY <1>1, <1>2, <1>4, <2>2, <3>1, GotoEffect, Zenon
    <3>3. Fits(l, op[e])
      BY <1>2, Zenon DEF Fits, Forking, Asking
    <3>4. QED BY <3>2, <3>3, Zenon
  <2>3. CASE p_rpos # p_wpos /\ Goto(e, "r_take") /\ op' = op /\ slot' = slot
    <3>1. /\ Moves(e) /\ Fits(pc'[e], op'[e]) /\ pc'[e] = "r_take"
          /\ op'[e] = op[e] /\ slot'[e] = slot[e]
      BY <2>2, <2>3, Zenon
    <3>2. QED BY <2>3, <3>1, Zenon
  <2>4. CASE Goto(e, "ask_n") /\ op' = op /\ slot' = slot
    <3>1. /\ Moves(e) /\ Fits(pc'[e], op'[e]) /\ pc'[e] = "ask_n"
          /\ op'[e] = op[e] /\ slot'[e] = slot[e]
      BY <2>2, <2>4, Zenon
    <3>2. QED BY <3>1, Zenon
  <2>5. QED BY <1>3, <2>1, <2>3, <2>4, Zenon
<1>6. CallTypes' /\ CallInv'
  <2>1. pc'[e] \notin Forking
    BY <1>5, Zenon DEF Forking
  <2>2. QED BY <1>1, <1>5, <2>1, LoopStep, Zenon
<1>7. RingInv'
  <2>1. \A d \in Envs \ {e} : pc'[d] = pc[d]
    BY <1>5, Zenon DEF Moves
  <2>2. /\ p_rpos' = p_rpos /\ p_wpos' = p_wpos /\ p_buf' = p_buf /\ took' = took
        /\ pc'[e] = "r_take" => p_rpos < p_wpos
    BY <1>1, <1>5 DEF ring, RingInv
  <2>3. QED BY <1>5, <2>1, <2>2, SizeAssumption, Zenon DEF RingInv
<1>8. QED BY <1>6, <1>7, Zenon

(* It takes the byte, which is the one that was put there.                 *)
LEMMA ReadTakeStep ==
  ASSUME PInv, NEW e \in Envs, r_take(e)
  PROVE  PInv'
<1> USE DEF PInv
<1>1. /\ pc[e] = "r_take" /\ Goto(e, "r_inc") /\ UNCHANGED <<fd, ring, op, slot, new, kid, got>>
      /\ took' = [took EXCEPT ![e] = p_buf[p_rpos % PIPEBUFSIZ]]
  BY Zenon DEF r_take, At, maps, calls, family
<1>2. op[e] = "read" /\ got' \in [Envs -> Nat] /\ new' \in [Envs -> Fds] /\ "r_inc" \in Places
  BY <1>1, Zenon DEF CallInv, Fits, CallTypes, Places
<1>3. Moves(e) /\ pc'[e] = "r_inc" /\ op'[e] = op[e] /\ slot'[e] = slot[e]
  BY <1>1, <1>2, GotoEffect, Zenon
<1>4. CallTypes' /\ CallInv'
  <2>1. Fits(pc'[e], op'[e]) /\ pc'[e] \notin Forking
    BY <1>2, <1>3, Zenon DEF Fits, Forking, Asking
  <2>2. QED BY <1>1, <1>3, <2>1, LoopStep, Zenon
<1>5. p_rpos \in Nat /\ p_rpos < p_wpos /\ p_buf[p_rpos % PIPEBUFSIZ] = p_rpos
  BY <1>1 DEF RingInv, N
<1>6. took' \in [Envs -> Nat] /\ took'[e] = p_rpos /\ \A d \in Envs \ {e} : took'[d] = took[d]
  BY <1>1, <1>5, Zenon DEF RingInv
<1>7. RingInv'
  <2>1. \A d \in Envs \ {e} : pc'[d] = pc[d]
    BY <1>3, Zenon DEF Moves
  <2>2. p_rpos' = p_rpos /\ p_wpos' = p_wpos /\ p_buf' = p_buf
    BY <1>1, Zenon DEF ring
  <2>3. QED BY <1>3, <1>5, <1>6, <2>1, <2>2, SizeAssumption, ZenonT(60) DEF RingInv
<1>8. QED BY <1>4, <1>7, Zenon

(* It moves the position; nobody else was about to.                        *)
LEMMA ReadIncStep ==
  ASSUME PInv, NEW e \in Envs, r_inc(e)
  PROVE  PInv'
<1> USE DEF PInv
<1>1. /\ pc[e] = "r_inc" /\ NextByte(e, "r_test") /\ UNCHANGED <<fd, p_wpos, p_buf, new, kid>>
      /\ p_rpos' = p_rpos + 1 /\ took' = [took EXCEPT ![e] = 0]
  BY Zenon DEF r_inc, At, maps, family
<1>2. op[e] = "read" /\ Fits("r_test", op[e])
  BY <1>1, Zenon DEF CallInv, Fits, Forking, Asking
<1>3. /\ Moves(e) /\ Fits(pc'[e], op'[e]) /\ pc'[e] \in {"r_test", "run"}
      /\ (op'[e] = op[e] /\ slot'[e] = slot[e]) \/ op'[e] = "none"
  BY <1>1, <1>2, NextByteEffect, Zenon
<1>4. CallTypes' /\ CallInv'
  <2>1. pc'[e] \notin Forking
    BY <1>3, Zenon DEF Forking
  <2>2. QED BY <1>1, <1>3, <2>1, LoopStep, Zenon
<1>5. RingInv'
  <2>1. e # Root
    BY <1>2, Zenon DEF CallInv
  <2>2. \A d \in Envs \ {e} : pc'[d] = pc[d] /\ pc[d] \notin {"r_take", "r_inc"}
    <3>1. \A d \in Envs : pc[d] \in {"r_take", "r_inc"} => op[d] = "read"
      BY Zenon DEF CallInv, Fits
    <3>2. QED BY <1>2, <1>3, <3>1, OneReader, Zenon DEF Moves
  <2>3. \A d \in Envs : pc'[d] \notin {"r_take", "r_inc"}
    BY <1>3, <2>2, Zenon
  <2>4. /\ p_rpos \in Nat /\ p_wpos \in Nat /\ N \in Nat /\ p_rpos < p_wpos
        /\ p_wpos <= p_rpos + N
        /\ took' \in [Envs -> Nat]
    BY <1>1, SizeAssumption, Zenon DEF RingInv, N
  <2>5. /\ p_rpos + 1 \in Nat /\ p_rpos + 1 <= p_wpos /\ p_wpos <= (p_rpos + 1) + N
        /\ \A k \in Nat : p_rpos + 1 <= k => p_rpos <= k
        /\ p_wpos < p_rpos + N => p_wpos < (p_rpos + 1) + N
    BY <2>4
  <2>6. pc'[Root] = pc[Root]
    BY <2>1, <2>2, SizeAssumption, Zenon
  <2>7. QED BY <1>1, <2>3, <2>4, <2>5, <2>6, ZenonT(60) DEF RingInv
<1>6. QED BY <1>4, <1>5, Zenon

(* devpipe_write looks for room.                                           *)
LEMMA WriteTestStep ==
  ASSUME PInv, NEW e \in Envs, w_test(e)
  PROVE  PInv'
<1> USE DEF PInv
<1>1. /\ pc[e] = "w_test" /\ UNCHANGED <<fd, ring, op, slot, new, kid, got, took>>
  BY Zenon DEF w_test, At, maps, calls, family, moving
<1>2. PICK l \in {"ask_n", "w_store"} :
        Goto(e, l) /\ (l = "w_store" => ~ (p_wpos >= p_rpos + PIPEBUFSIZ))
  BY Zenon DEF w_test
<1>3. /\ op[e] = "write" /\ e = Root /\ got' \in [Envs -> Nat] /\ new' \in [Envs -> Fds]
      /\ l \in Places
  BY <1>1, Zenon DEF CallInv, Fits, CallTypes, Places
<1>4. Moves(e) /\ pc'[e] = l /\ op'[e] = op[e] /\ slot'[e] = slot[e]
  BY <1>1, <1>2, <1>3, GotoEffect, Zenon
<1>5. CallTypes' /\ CallInv'
  <2>1. Fits(pc'[e], op'[e]) /\ pc'[e] \notin Forking
    BY <1>3, <1>4, Zenon DEF Fits, Forking, Asking
  <2>2. QED BY <1>1, <1>4, <2>1, LoopStep, Zenon
<1>6. RingInv'
  <2>1. \A d \in Envs \ {e} : pc'[d] = pc[d]
    BY <1>4, Zenon DEF Moves
  <2>2. /\ p_rpos' = p_rpos /\ p_wpos' = p_wpos /\ p_buf' = p_buf /\ took' = took
    BY <1>1, Zenon DEF ring
  <2>3. l = "w_store" => p_wpos < p_rpos + N
    BY <1>2, SizeAssumption DEF RingInv, N
  <2>4. QED BY <1>3, <1>4, <2>1, <2>2, <2>3, ZenonT(60) DEF RingInv
<1>7. QED BY <1>5, <1>6, Zenon

(* It stores the byte where no byte is waiting.                            *)
LEMMA WriteStoreStep ==
  ASSUME PInv, NEW e \in Envs, w_store(e)
  PROVE  PInv'
<1> USE DEF PInv
<1>1. /\ pc[e] = "w_store" /\ Goto(e, "w_inc")
      /\ UNCHANGED <<fd, p_rpos, p_wpos, op, slot, new, kid, got, took>>
      /\ p_buf' = [p_buf EXCEPT ![p_wpos % N] = p_wpos]
  BY Zenon DEF w_store, At, maps, calls, family, moving, N
<1>2. /\ op[e] = "write" /\ e = Root /\ got' \in [Envs -> Nat] /\ new' \in [Envs -> Fds]
      /\ "w_inc" \in Places
  BY <1>1, Zenon DEF CallInv, Fits, CallTypes, Places
<1>3. Moves(e) /\ pc'[e] = "w_inc" /\ op'[e] = op[e] /\ slot'[e] = slot[e]
  BY <1>1, <1>2, GotoEffect, Zenon
<1>4. CallTypes' /\ CallInv'
  <2>1. Fits(pc'[e], op'[e]) /\ pc'[e] \notin Forking
    BY <1>2, <1>3, Zenon DEF Fits, Forking, Asking
  <2>2. QED BY <1>1, <1>3, <2>1, LoopStep, Zenon
<1>5. /\ p_rpos \in Nat /\ p_wpos \in Nat /\ N \in Nat \ {0} /\ p_wpos < p_rpos + N
      /\ p_buf \in [0 .. N - 1 -> Nat]
  BY <1>1, <1>2, SizeAssumption, Zenon DEF RingInv, N
<1>6. p_wpos % N \in 0 .. N - 1
  BY <1>5, SlotIsIndex, ZenonT(60)
<1>7. p_buf' \in [0 .. N - 1 -> Nat] /\ p_buf'[p_wpos % N] = p_wpos
  BY <1>1, <1>5, <1>6, Zenon
<1>8. ASSUME NEW k \in Nat, p_rpos <= k, k < p_wpos PROVE p_buf'[k % N] = k
  <2>1. k % N \in 0 .. N - 1
    BY SlotIsIndex, Zenon
  <2>2. p_wpos < k + N
    BY <1>5, <1>8
  <2>3. k % N # p_wpos % N
    BY <1>5, <1>8, <2>2, SlotsDiffer, ZenonT(60)
  <2>4. p_buf[k % N] = k
    BY <1>8, Zenon DEF RingInv
  <2>5. QED BY <1>1, <1>5, <2>1, <2>3, <2>4, Zenon
<1>9. RingInv'
  <2>1. \A d \in Envs \ {e} : pc'[d] = pc[d]
    BY <1>3, Zenon DEF Moves
  <2>2. \A d \in Envs : pc'[d] \in {"r_take", "r_inc"} => pc'[d] = pc[d]
    BY <1>3, <2>1, Zenon
  <2>3. p_rpos' = p_rpos /\ p_wpos' = p_wpos /\ took' = took
    BY <1>1, Zenon
  <2>4. QED BY <1>2, <1>5, <1>7, <1>8, <2>2, <2>3, ZenonT(60) DEF RingInv
<1>10. QED BY <1>4, <1>9, Zenon

(* It moves the position over the byte it has stored.                      *)
LEMMA WriteIncStep ==
  ASSUME PInv, NEW e \in Envs, w_inc(e)
  PROVE  PInv'
<1> USE DEF PInv
<1>1. /\ pc[e] = "w_inc" /\ NextByte(e, "w_test") /\ UNCHANGED <<fd, p_rpos, p_buf, new, kid, took>>
      /\ p_wpos' = p_wpos + 1
  BY Zenon DEF w_inc, At, maps, family
<1>2. op[e] = "write" /\ Fits("w_test", op[e]) /\ e = Root
  BY <1>1, Zenon DEF CallInv, Fits, Forking, Asking
<1>3. /\ Moves(e) /\ Fits(pc'[e], op'[e]) /\ pc'[e] \in {"w_test", "run"}
      /\ (op'[e] = op[e] /\ slot'[e] = slot[e]) \/ op'[e] = "none"
  BY <1>1, <1>2, NextByteEffect, Zenon
<1>4. CallTypes' /\ CallInv'
  <2>1. pc'[e] \notin Forking
    BY <1>3, Zenon DEF Forking
  <2>2. QED BY <1>1, <1>3, <2>1, LoopStep, Zenon
<1>5. RingInv'
  <2>1. /\ p_rpos \in Nat /\ p_wpos \in Nat /\ N \in Nat /\ p_wpos < p_rpos + N
        /\ p_rpos <= p_wpos /\ p_buf[p_wpos % N] = p_wpos
    BY <1>1, <1>2, SizeAssumption, Zenon DEF RingInv, N
  <2>2. /\ p_wpos + 1 \in Nat /\ p_rpos <= p_wpos + 1 /\ p_wpos + 1 <= p_rpos + N
        /\ \A k \in Nat : k < p_wpos + 1 => k < p_wpos \/ k = p_wpos
        /\ p_rpos < p_wpos => p_rpos < p_wpos + 1
    BY <2>1
  <2>3. \A k \in Nat : p_rpos <= k /\ k < p_wpos + 1 => p_buf[k % N] = k
    BY <2>1, <2>2, SMTT(60) DEF RingInv
  <2>4. \A d \in Envs : pc'[d] \in {"r_take", "r_inc"} => pc'[d] = pc[d]
    BY <1>3, Zenon DEF Moves
  <2>5. pc'[Root] \notin {"w_store", "w_inc"}
    BY <1>2, <1>3, Zenon
  <2>6. QED BY <1>1, <2>2, <2>3, <2>4, <2>5, Zenon DEF RingInv
<1>6. QED BY <1>4, <1>5, Zenon
-----------------------------------------------------------------------------
(* Before there is a pipe.                                                 *)
LEMMA PipeInit == Init => PInv
<1> SUFFICES ASSUME Init PROVE PInv
  BY Zenon
<1>1. 0 \in Fds /\ N \in Nat
  BY SizeAssumption DEF Fds, N
<1>2. CallTypes
  BY <1>1, Zenon DEF Init, CallTypes, Closed, Places, Calls
<1>3. \A e \in Envs : /\ pc[e] \in {"run", "free"} /\ op[e] = "none"
                      /\ \A i \in Fds : ~ Open(e, i)
  BY Zenon DEF Init, Closed, Open
<1>4. CallInv
  <2>1. \A e \in Envs : Fits(pc[e], op[e]) /\ pc[e] \notin Forking
    BY <1>3, Zenon DEF Fits, Forking, Asking
  <2>2. \A e \in Envs : ~ Uses(e)
    BY <1>3, <2>1, SizeAssumption, Zenon DEF Uses
  <2>3. QED BY <1>3, <2>1, <2>2, SizeAssumption, SMTT(60) DEF CallInv
<1>5. RingInv
  BY <1>1, <1>3, SizeAssumption DEF Init, RingInv, N
<1>6. QED BY <1>2, <1>4, <1>5, Zenon DEF PInv

(* Every step keeps the invariant.                                         *)
LEMMA PipeNext == PInv /\ [LibNext]_vars => PInv'
<1> SUFFICES ASSUME PInv, [LibNext]_vars PROVE PInv'
  BY Zenon
<1>1. CASE UNCHANGED vars
  BY <1>1, RunStep, Zenon DEF vars, maps
<1>2. CASE LibNext
  <2>1. CASE pipe(Root) \/ \E c \in Envs : Unshared(Root) /\ fork(Root, c)
    BY <2>1, PipeStep, ForkStep, Zenon
  <2>2. CASE \/ \E i \in Fds : write(Root, i)
             \/ \E e \in Envs \ {Root}, i \in Fds : read(e, i) \/ pipeisclosed(e, i)
    BY <2>2, BeginStep, SizeAssumption, Zenon
  <2>3. ASSUME NEW e \in Envs, Step(e) PROVE PInv'
    <3>1. CASE devpipe_close_fd(e) \/ devpipe_close_data(e) \/ close_all(e)
      BY <3>1, CloseFdStep, CloseDataStep, CloseAllStep, Zenon
    <3>2. CASE dup_data(e) \/ dup_fd(e)
      BY <3>2, DupDataStep, DupFdStep, Zenon
    <3>3. CASE fork_fd(e) \/ fork_data(e) \/ fork_start(e)
      BY <3>3, ForkPageStep, ForkStartStep, Zenon
    <3>4. CASE _pipeisclosed(e)
      BY <3>4, AskStep, Zenon
    <3>5. CASE devpipe_read(e)
      BY <3>5, ReadTestStep, ReadTakeStep, ReadIncStep, SMTT(60) DEF devpipe_read
    <3>6. CASE devpipe_write(e)
      BY <3>6, WriteTestStep, WriteStoreStep, WriteIncStep, Zenon DEF devpipe_write
    <3>7. QED BY <2>3, <3>1, <3>2, <3>3, <3>4, <3>5, <3>6, Zenon DEF Step
  <2>4. ASSUME NEW e \in Envs, \/ exit(e) \/ \E i \in Fds : close(e, i)
                               \/ \E i, j \in Fds : dup(e, i, j)
        PROVE  PInv'
    BY <2>4, BeginStep, Zenon
  <2>5. ASSUME NEW e \in Envs, env_run(e) PROVE PInv'
    BY <2>5, RunStep, Zenon DEF env_run, maps
  <2>6. ASSUME NEW e \in Envs, Kill(e) PROVE PInv'
    BY <2>6, DestroyStep, Zenon DEF Kill, Live
  <2>7. QED BY <1>2, <2>1, <2>2, <2>3, <2>4, <2>5, <2>6, Zenon DEF LibNext
<1>3. QED BY <1>1, <1>2, Zenon

(* The reader gets, at each position, the byte that was written there, for *)
(* any size of ring and any reads and writes that overlap                  *)
(* (lib/pipe.c:118-136, 150-169).                                          *)
THEOREM BytesArriveInOrder == LibSpec => []BytesInOrder
<1>1. PInv => BytesInOrder
  BY Zenon DEF PInv, RingInv, BytesInOrder
<1>2. QED BY <1>1, PipeInit, PipeNext, PTL DEF LibSpec
-----------------------------------------------------------------------------
(* The types of what _pipeisclosed looks at.                               *)
AskTypes ==
  /\ data \in [Envs -> [Fds -> BOOLEAN]]
  /\ half = [e \in Envs |-> half[e]] /\ runs = [e \in Envs |-> runs[e]]

(* A descriptor of e comes with the ring, since dup maps the ring first    *)
(* and close unmaps it last; and the call that e is in has its descriptor. *)
Covered(e) == \A i \in Fds : Open(e, i) => data[e][i]
Local(e) ==
  /\ Covered(e)
  /\ pc[e] = "dup_fd" /\ Open(e, slot[e]) => data[e][new[e]]
  /\ pc[e] = "close_data" => ~ Open(e, Closing(e))
  /\ op[e] \in {"read", "write", "pipeisclosed"} => Open(e, slot[e])

(* fork maps all descriptors into its child before any ring; but until the *)
(* child starts nobody else has the pipe, and Root does not use it.        *)
EmbryoInv ==
  \A d \in Envs : pc[d] = "embryo" =>
    /\ pc[Root] = "free" \/ (pc[Root] \in Forking /\ kid[Root] = d)
    /\ \A e \in Envs \ {Root, d}, i \in Fds : ~ Open(e, i)

ForkInv ==
  pc[Root] \in Forking =>
    \A i \in Fds : Open(kid[Root], i) =>
      /\ Open(Root, i)
      /\ pc[Root] = "fork_start" \/ (pc[Root] = "fork_data" /\ i < slot[Root]) => data[kid[Root]][i]

(* As long as the CPU is not taken from e, the first of its two counts is  *)
(* right when it takes the second, and then the answer is.                 *)
AskInv ==
  \A e \in Envs : cur = e /\ ~ runs[e] =>
    /\ pc[e] = "ask_2" => half[e] \in {<<"fd", FdRef(fd[e][slot[e]])>>, <<"ring", RingRef>>}
    /\ pc[e] = "ask_nn" /\ half[e][2] = 1 => ~ EndOpen(Other(fd[e][slot[e]]))

CInv ==
  /\ AskTypes /\ EmbryoInv /\ ForkInv /\ AskInv /\ ClosedIsTrue
  /\ \A e \in Envs : pc[e] # "embryo" => Local(e)
-----------------------------------------------------------------------------
(* _pipeisclosed.  What a step of e leaves alone, and what it does.        *)

Same(d) ==
  /\ pc'[d] = pc[d] /\ op'[d] = op[d] /\ slot'[d] = slot[d] /\ new'[d] = new[d]
  /\ fd'[d] = fd[d] /\ data'[d] = data[d]

(* Every descriptor e has then is a copy of one it has now.                *)
Copies(e) == \A i \in Fds : fd'[e][i] # "none" => \E j \in Fds : fd'[e][i] = fd[e][j]

Acts(e) ==
  /\ cur = e /\ cur' = e /\ kid' = kid
  /\ \A d \in Envs \ {e} : Same(d)
  /\ Copies(e)

LEMMA LocalSame ==
  ASSUME NEW d \in Envs, Same(d), Local(d)
  PROVE  Local(d)'
<1>1. /\ pc'[d] = pc[d] /\ op'[d] = op[d] /\ slot'[d] = slot[d] /\ new'[d] = new[d]
      /\ fd'[d] = fd[d] /\ data'[d] = data[d]
  BY Zenon DEF Same
<1>2. Closing(d)' = Closing(d)
  BY <1>1, Zenon DEF Closing
<1>3. QED BY <1>1, <1>2, Zenon DEF Local, Covered, Open

(* No end of the pipe is opened, so what is closed stays so.               *)
LEMMA EndsStay ==
  ASSUME NEW e \in Envs, \A d \in Envs \ {e} : fd'[d] = fd[d], Copies(e), NEW end \in {"R", "W"},
         EndOpen(end)'
  PROVE  EndOpen(end)
<1>1. PICK d \in Envs, i \in Fds : fd'[d][i] = end
  BY Zenon DEF EndOpen
<1>2. CASE d = e
  <2>1. fd'[e][i] # "none"
    BY <1>1, <1>2, Zenon
  <2>2. QED BY <1>1, <1>2, <2>1, Zenon DEF Copies, EndOpen
<1>3. CASE d # e
  BY <1>1, <1>3, Zenon DEF EndOpen
<1>4. QED BY <1>2, <1>3, Zenon

LEMMA OtherEnd == \A x : Other(x) \in {"R", "W"}
BY Zenon DEF Other

(* An environment goes on in a call.                                       *)
LEMMA ActStep ==
  ASSUME PInv, CInv, NEW e \in Envs, Acts(e), AskTypes', Local(e)',
         pc[e] \notin Forking \cup {"embryo", "free"},
         pc'[e] \notin Forking \cup {"embryo"},
         pc'[e] \in {"ask_2", "ask_nn"} => AskInv',
         pc'[e] = "closed" => ~ EndOpen(Other(fd[e][slot[e]]))'
  PROVE  CInv'
<1>1. \A d \in Envs \ {e} : /\ Same(d) /\ pc'[d] = pc[d] /\ fd'[d] = fd[d] /\ data'[d] = data[d]
                            /\ slot'[d] = slot[d]
  BY Zenon DEF Acts, Same
<1>2. \A d \in Envs : pc'[d] # "embryo" => Local(d)'
  BY <1>1, LocalSame, Zenon DEF CInv
<1>3. EmbryoInv'
  <2> SUFFICES ASSUME NEW d \in Envs, pc'[d] = "embryo"
               PROVE  /\ pc'[Root] = "free" \/ (pc'[Root] \in Forking /\ kid'[Root] = d)
                      /\ \A x \in Envs \ {Root, d}, i \in Fds : ~ (fd'[x][i] # "none")
    BY Zenon DEF EmbryoInv, Open
  <2>1. d # e /\ pc[d] = "embryo"
    BY <1>1, Zenon
  <2>2. /\ pc[Root] = "free" \/ (pc[Root] \in Forking /\ kid[Root] = d)
        /\ \A x \in Envs \ {Root, d}, i \in Fds : ~ (fd[x][i] # "none")
    BY <2>1, Zenon DEF CInv, EmbryoInv, Open
  <2>3. e # Root
    BY <2>2, Zenon
  <2>4. pc'[Root] = pc[Root] /\ kid' = kid
    BY <1>1, <2>3, SizeAssumption, Zenon DEF Acts
  <2>5. \A i \in Fds : ~ (fd'[e][i] # "none")
    BY <2>1, <2>2, <2>3, Zenon DEF Acts, Copies
  <2>6. QED BY <1>1, <2>2, <2>4, <2>5
<1>4. ForkInv'
  <2> SUFFICES ASSUME pc'[Root] \in Forking PROVE ForkInv'
    BY Zenon DEF ForkInv
  <2>1. Root # e /\ Root \in Envs
    BY SizeAssumption, Zenon
  <2>2. Same(Root) /\ pc[Root] \in Forking /\ kid' = kid
    BY <1>1, <2>1, Zenon DEF Acts, Same
  <2>3. kid[Root] \in Envs /\ pc[kid[Root]] = "embryo"
    BY <2>2, Zenon DEF PInv, CallInv
  <2>4. kid[Root] # e
    BY <2>3, Zenon
  <2>5. /\ fd'[kid[Root]] = fd[kid[Root]] /\ data'[kid[Root]] = data[kid[Root]]
    BY <1>1, <2>3, <2>4, Zenon
  <2>6. QED BY <2>2, <2>5, Zenon DEF CInv, ForkInv, Same, Open
<1>5. AskInv'
  BY Zenon DEF AskInv, Acts
<1>6. ClosedIsTrue'
  <2> SUFFICES ASSUME NEW d \in Envs, pc'[d] = "closed", EndOpen(Other(fd[d][slot[d]]))'
               PROVE  FALSE
    BY Zenon DEF ClosedIsTrue
  <2>1. CASE d = e
    BY <2>1, Zenon
  <2>2. CASE d # e
    <3>1. pc[d] = "closed" /\ fd'[d] = fd[d] /\ slot'[d] = slot[d]
      BY <1>1, <2>2, Zenon
    <3>2. PICK end \in {"R", "W"} : end = Other(fd[d][slot[d]])
      BY OtherEnd, Zenon
    <3>3. EndOpen(end)'
      BY <3>1, <3>2, Zenon DEF Other
    <3>4. EndOpen(end)
      BY <1>1, <3>3, EndsStay, Zenon DEF Acts
    <3>5. QED BY <3>1, <3>2, <3>4, Zenon DEF CInv, ClosedIsTrue
  <2>3. QED BY <2>1, <2>2, Zenon
<1>7. QED BY <1>2, <1>3, <1>4, <1>5, <1>6, Zenon DEF CInv

(* The same when no page is mapped or unmapped.                            *)
LEMMA CallAct ==
  ASSUME PInv, CInv, NEW e \in Envs, cur = e, cur' = cur, fd' = fd, data' = data, kid' = kid,
         \A d \in Envs \ {e} : /\ pc'[d] = pc[d] /\ op'[d] = op[d]
                               /\ slot'[d] = slot[d] /\ new'[d] = new[d],
         AskTypes', pc[e] \notin Forking \cup {"embryo", "free"},
         pc'[e] \notin Forking \cup {"embryo", "dup_fd", "close_data"},
         pc'[e] \in {"ask_2", "ask_nn"} => AskInv',
         pc'[e] = "closed" => ~ EndOpen(Other(fd[e][slot'[e]])),
         op'[e] \in {"read", "write", "pipeisclosed"} => Open(e, slot'[e])
  PROVE  CInv'
<1>1. Acts(e)
  BY Zenon DEF Acts, Same, Copies
<1>2. Local(e)
  BY Zenon DEF CInv
<1>3. Local(e)'
  BY <1>2, Zenon DEF Local, Covered, Open
<1>4. pc'[e] = "closed" => ~ EndOpen(Other(fd[e][slot[e]]))'
  BY Zenon DEF EndOpen, Other
<1>5. QED BY <1>1, <1>3, <1>4, ActStep, Zenon

(* Calls begin.                                                            *)
LEMMA BeginAct ==
  ASSUME PInv, CInv, NEW e \in Envs,
         \/ \E i \in Fds : close(e, i) \/ pipeisclosed(e, i) \/ read(e, i) \/ write(e, i)
         \/ \E i, j \in Fds : dup(e, i, j)
         \/ exit(e)
  PROVE  CInv'
<1>1. /\ fd' = fd /\ data' = data /\ kid' = kid /\ cur' = cur /\ half' = half /\ runs' = runs
      /\ new' = new \/ \E j \in Fds : new' = [new EXCEPT ![e] = j]
  BY Zenon DEF close, pipeisclosed, read, write, dup, exit, maps, family, asking
<1>2. PICK c \in Calls, i \in Nat, l \in {"close_fd", "dup_data", "exit", "ask_n", "r_test", "w_test"} :
        /\ Begin(e, c, i, l)
        /\ c \in {"read", "write", "pipeisclosed"} => Open(e, i)
  <2>1. Fds \subseteq Nat /\ 0 \in Nat
    BY SizeAssumption DEF Fds
  <2>2. CASE \E i \in Fds : close(e, i)
    BY <2>1, <2>2, Zenon DEF close, Calls
  <2>3. CASE \E i \in Fds : pipeisclosed(e, i)
    BY <2>1, <2>3, Zenon DEF pipeisclosed, Calls
  <2>4. CASE \E i \in Fds : read(e, i)
    BY <2>1, <2>4, Zenon DEF read, Calls, Open
  <2>5. CASE \E i \in Fds : write(e, i)
    BY <2>1, <2>5, Zenon DEF write, Calls, Open
  <2>6. CASE \E i, j \in Fds : dup(e, i, j)
    <3>1. PICK i \in Fds, l \in {"close_fd", "dup_data"} : Begin(e, "dup", i, l)
      BY <2>6, Zenon DEF dup
    <3>2. QED BY <2>1, <3>1, Zenon DEF Calls
  <2>7. CASE exit(e)
    BY <2>1, <2>7, Zenon DEF exit, Calls
  <2>8. QED BY <2>2, <2>3, <2>4, <2>5, <2>6, <2>7, Zenon
<1>3. /\ cur = e /\ pc[e] = "run" /\ pc'[e] = l /\ op'[e] = c /\ slot'[e] = i
      /\ \A d \in Envs \ {e} : pc'[d] = pc[d] /\ op'[d] = op[d] /\ slot'[d] = slot[d]
  BY <1>2, Zenon DEF Begin, Goto, PInv, CallTypes
<1>4. \A d \in Envs \ {e} : new'[d] = new[d]
  BY <1>1, Zenon DEF PInv, CallTypes
<1>5. AskTypes'
  BY <1>1, Zenon DEF CInv, AskTypes
<1>6. /\ pc[e] \notin Forking \cup {"embryo", "free"}
      /\ pc'[e] \notin Forking \cup {"embryo", "dup_fd", "close_data", "ask_2", "ask_nn", "closed"}
  BY <1>3, Zenon DEF Forking
<1>7. QED BY <1>1, <1>2, <1>3, <1>4, <1>5, <1>6, CallAct, Zenon

(* The loops on the ring.                                                  *)
LEMMA LoopAct ==
  ASSUME PInv, CInv, NEW e \in Envs, devpipe_read(e) \/ devpipe_write(e)
  PROVE  CInv'
<1>1. /\ fd' = fd /\ data' = data /\ kid' = kid /\ cur' = cur /\ half' = half /\ runs' = runs
      /\ new' = new /\ cur = e
      /\ pc[e] \in {"r_test", "r_take", "r_inc", "w_test", "w_store", "w_inc"}
  BY ZenonT(60) DEF devpipe_read, devpipe_write, r_test, r_take, r_inc, w_test, w_store, w_inc, At, maps, calls,
         family, asking
<1>2. op[e] \in {"read", "write"} /\ got[e] \in Nat
  BY <1>1, Zenon DEF PInv, CallInv, Fits, CallTypes
<1>3. \/ Done(e)
      \/ \E l \in {"r_test", "r_take", "r_inc", "w_test", "w_store", "w_inc", "ask_n"} :
           Goto(e, l) /\ op' = op /\ slot' = slot
  <2>1. CASE r_test(e)
    <3>1. CASE p_rpos # p_wpos
      BY <2>1, <3>1, ZenonT(60) DEF r_test
    <3>2. CASE p_rpos = p_wpos /\ got[e] = 0
      <4>1. ~ (p_rpos # p_wpos) /\ ~ (got[e] > 0)
        BY <3>2
      <4>2. QED BY <2>1, <3>2, <4>1, Zenon DEF r_test
    <3>3. CASE p_rpos = p_wpos /\ got[e] > 0
      <4>1. ~ (p_rpos # p_wpos) /\ got[e] # 0
        BY <1>2, <3>3
      <4>2. QED BY <2>1, <3>3, <4>1, ZenonT(60) DEF r_test
    <3>4. QED BY <1>2, <3>1, <3>2, <3>3
  <2>2. CASE r_take(e) \/ w_test(e) \/ w_store(e)
    BY <2>2, Zenon DEF r_take, w_test, w_store, calls
  <2>3. CASE r_inc(e) \/ w_inc(e)
    BY <2>3, Zenon DEF r_inc, w_inc, NextByte
  <2>4. QED BY <2>1, <2>2, <2>3, Zenon DEF devpipe_read, devpipe_write
<1>4. /\ pc'[e] \in {"r_test", "r_take", "r_inc", "w_test", "w_store", "w_inc", "ask_n", "run"}
      /\ (op'[e] = op[e] /\ slot'[e] = slot[e]) \/ op'[e] = "none"
      /\ \A d \in Envs \ {e} : pc'[d] = pc[d] /\ op'[d] = op[d] /\ slot'[d] = slot[d]
  BY <1>3, Zenon DEF Done, Goto, PInv, CallTypes
<1>5. op'[e] \in {"read", "write", "pipeisclosed"} => Open(e, slot'[e])
  <2>1. Open(e, slot[e])
    BY <1>1, <1>2, Zenon DEF CInv, Local
  <2>2. QED BY <1>4, <2>1, Zenon
<1>6. AskTypes'
  BY <1>1, Zenon DEF CInv, AskTypes
<1>7. /\ pc[e] \notin Forking \cup {"embryo", "free"}
      /\ pc'[e] \notin Forking \cup {"embryo", "dup_fd", "close_data", "ask_2", "ask_nn", "closed"}
  BY <1>1, <1>4, Zenon DEF Forking
<1>8. QED BY <1>1, <1>4, <1>5, <1>6, <1>7, CallAct, Zenon

(* Nobody asks while a child is being made.                                *)
LEMMA NoEmbryo ==
  ASSUME PInv, CInv, NEW e \in Envs, op[e] \in {"read", "write", "pipeisclosed"}
  PROVE  \A d \in Envs : Covered(d)
<1>1. pc[e] \notin Forking \cup {"embryo", "free"} /\ slot[e] \in Fds
  BY Zenon DEF PInv, CallInv, Fits, CallTypes
<1>2. Open(e, slot[e])
  BY <1>1, Zenon DEF CInv, Local
<1>3. \A d \in Envs : pc[d] # "embryo"
  BY <1>1, <1>2, Zenon DEF CInv, EmbryoInv
<1>4. QED BY <1>3, Zenon DEF CInv, Local

(* close unmaps the descriptor.                                            *)
LEMMA CloseFdAct ==
  ASSUME PInv, CInv, NEW e \in Envs, devpipe_close_fd(e)
  PROVE  CInv'
<1>1. /\ data' = data /\ kid' = kid /\ cur' = cur /\ half' = half /\ runs' = runs /\ cur = e
      /\ new' = new /\ op' = op /\ slot' = slot /\ pc[e] = "close_fd" /\ Goto(e, "close_data")
      /\ fd' = [fd EXCEPT ![e] = [fd[e] EXCEPT ![Closing(e)] = "none"]]
  BY Zenon DEF devpipe_close_fd, calls, family, asking, At
<1>2. pc'[e] = "close_data" /\ \A d \in Envs \ {e} : pc'[d] = pc[d]
  BY <1>1, Zenon DEF Goto, PInv, CallTypes
<1>3. Closing(e) \in Fds /\ Closing(e)' = Closing(e)
  BY <1>1, Zenon DEF Closing, PInv, CallTypes
<1>4. /\ \A d \in Envs \ {e} : fd'[d] = fd[d]
      /\ \A i \in Fds : fd'[e][i] = IF i = Closing(e) THEN "none" ELSE fd[e][i]
  BY <1>1, <1>3, Zenon DEF PInv, CallTypes
<1>5. Acts(e)
  BY <1>1, <1>2, <1>4, Zenon DEF Acts, Same, Copies
<1>6. Local(e)'
  <2>1. Covered(e) /\ op[e] \notin {"read", "write", "pipeisclosed"}
    BY <1>1, Zenon DEF CInv, Local, PInv, CallInv, Fits
  <2>2. Covered(e)'
    BY <1>1, <1>4, <2>1, Zenon DEF Covered, Open
  <2>3. QED BY <1>1, <1>2, <1>3, <1>4, <2>1, <2>2, Zenon DEF Local, Open
<1>7. /\ pc[e] \notin Forking \cup {"embryo", "free"} /\ pc'[e] \notin Forking \cup {"embryo"}
  BY <1>1, <1>2, Zenon DEF Forking
<1>8. AskTypes'
  BY <1>1, Zenon DEF CInv, AskTypes
<1>9. QED BY <1>2, <1>5, <1>6, <1>7, <1>8, ActStep, Zenon

(* Then the ring, under no descriptor.                                     *)
LEMMA CloseDataAct ==
  ASSUME PInv, CInv, NEW e \in Envs, devpipe_close_data(e)
  PROVE  CInv'
<1>1. /\ fd' = fd /\ kid' = kid /\ cur' = cur /\ half' = half /\ runs' = runs /\ cur = e
      /\ new' = new /\ pc[e] = "close_data"
      /\ data' = [data EXCEPT ![e] = [data[e] EXCEPT ![Closing(e)] = FALSE]]
  BY Zenon DEF devpipe_close_data, family, asking, At
<1>2. op[e] \in {"close", "dup", "exit"}
  BY <1>1, Zenon DEF PInv, CallInv, Fits
<1>3. \/ Done(e)
      \/ Goto(e, "dup_data") /\ op' = op /\ slot' = slot
      \/ Goto(e, "exit") /\ op' = op /\ slot' = slot
  BY <1>2, ZenonT(60) DEF devpipe_close_data
<1>4. /\ pc'[e] \in {"run", "dup_data", "exit"} /\ op'[e] \in {"none", op[e]}
      /\ \A d \in Envs \ {e} : pc'[d] = pc[d] /\ op'[d] = op[d] /\ slot'[d] = slot[d]
  BY <1>3, Zenon DEF Done, Goto, PInv, CallTypes
<1>5. Closing(e) \in Fds
  BY Zenon DEF Closing, PInv, CallTypes
<1>6. /\ data' \in [Envs -> [Fds -> BOOLEAN]]
      /\ \A d \in Envs \ {e} : data'[d] = data[d]
      /\ \A i \in Fds \ {Closing(e)} : data'[e][i] = data[e][i]
  BY <1>1, <1>5, Zenon DEF CInv, AskTypes
<1>7. Acts(e)
  BY <1>1, <1>4, <1>6, Zenon DEF Acts, Same, Copies
<1>8. Local(e)'
  <2>1. Covered(e) /\ ~ Open(e, Closing(e))
    BY <1>1, Zenon DEF CInv, Local
  <2>2. Covered(e)'
    BY <1>1, <1>6, <2>1, Zenon DEF Covered, Open
  <2>3. QED BY <1>2, <1>4, <2>2, Zenon DEF Local
<1>9. /\ pc[e] \notin Forking \cup {"embryo", "free"} /\ pc'[e] \notin Forking \cup {"embryo"}
  BY <1>1, <1>4, Zenon DEF Forking
<1>10. AskTypes'
  BY <1>1, <1>6, Zenon DEF CInv, AskTypes
<1>11. QED BY <1>4, <1>7, <1>8, <1>9, <1>10, ActStep, Zenon

(* dup maps the ring.                                                      *)
LEMMA DupDataAct ==
  ASSUME PInv, CInv, NEW e \in Envs, dup_data(e)
  PROVE  CInv'
<1>1. /\ fd' = fd /\ kid' = kid /\ cur' = cur /\ half' = half /\ runs' = runs /\ cur = e
      /\ new' = new /\ op' = op /\ slot' = slot /\ pc[e] = "dup_data" /\ Goto(e, "dup_fd")
      /\ data' = [data EXCEPT ![e] = [data[e] EXCEPT ![new[e]] = data[e][slot[e]] \/ data[e][new[e]]]]
  BY Zenon DEF dup_data, calls, family, asking, At
<1>2. pc'[e] = "dup_fd" /\ op[e] = "dup" /\ \A d \in Envs \ {e} : pc'[d] = pc[d]
  BY <1>1, Zenon DEF Goto, PInv, CallTypes, CallInv, Fits
<1>3. new[e] \in Fds /\ slot[e] \in Fds
  BY Zenon DEF PInv, CallTypes
<1>4. /\ data' \in [Envs -> [Fds -> BOOLEAN]]
      /\ \A d \in Envs \ {e} : data'[d] = data[d]
      /\ \A i \in Fds : data[e][i] => data'[e][i]
      /\ data[e][slot[e]] => data'[e][new[e]]
  <2>1. PICK b \in BOOLEAN : b = (data[e][slot[e]] \/ data[e][new[e]])
    BY Zenon
  <2>2. data' = [data EXCEPT ![e] = [data[e] EXCEPT ![new[e]] = b]]
    BY <1>1, <2>1, Zenon
  <2>3. /\ data' \in [Envs -> [Fds -> BOOLEAN]]
        /\ \A d \in Envs \ {e} : data'[d] = data[d]
        /\ \A i \in Fds \ {new[e]} : data'[e][i] = data[e][i]
        /\ data'[e][new[e]] = b
    BY <1>3, <2>2, Zenon DEF CInv, AskTypes
  <2>4. QED BY <1>3, <2>1, <2>3, Zenon
<1>5. Acts(e)
  BY <1>1, <1>2, <1>4, Zenon DEF Acts, Same, Copies
<1>6. Local(e)'
  <2>1. Covered(e)
    BY <1>1, Zenon DEF CInv, Local
  <2>2. Covered(e)'
    BY <1>1, <1>4, <2>1, Zenon DEF Covered, Open
  <2>3. Open(e, slot[e]) => data'[e][new[e]]
    BY <1>3, <1>4, <2>1, Zenon DEF Covered
  <2>4. QED BY <1>1, <1>2, <2>2, <2>3, Zenon DEF Local, Open
<1>7. /\ pc[e] \notin Forking \cup {"embryo", "free"} /\ pc'[e] \notin Forking \cup {"embryo"}
  BY <1>1, <1>2, Zenon DEF Forking
<1>8. AskTypes'
  BY <1>1, <1>4, Zenon DEF CInv, AskTypes
<1>9. QED BY <1>2, <1>5, <1>6, <1>7, <1>8, ActStep, Zenon

(* Then the descriptor, over that ring.                                    *)
LEMMA DupFdAct ==
  ASSUME PInv, CInv, NEW e \in Envs, dup_fd(e)
  PROVE  CInv'
<1>1. /\ kid' = kid /\ cur' = cur /\ half' = half /\ runs' = runs /\ cur = e
      /\ new' = [new EXCEPT ![e] = 0] /\ pc[e] = "dup_fd" /\ Done(e)
      /\ fd' = [fd EXCEPT ![e] = [fd[e] EXCEPT ![new[e]] = fd[e][slot[e]]]]
      /\ data' = [data EXCEPT ![e] = [data[e] EXCEPT ![new[e]] = data[e][new[e]] /\ Open(e, slot[e])]]
  BY Zenon DEF dup_fd, family, asking, At
<1>2. /\ pc'[e] = "run" /\ op'[e] = "none"
      /\ \A d \in Envs \ {e} : /\ pc'[d] = pc[d] /\ op'[d] = op[d] /\ slot'[d] = slot[d]
                               /\ new'[d] = new[d]
  BY <1>1, Zenon DEF Done, Goto, PInv, CallTypes
<1>3. new[e] \in Fds /\ slot[e] \in Fds
  BY Zenon DEF PInv, CallTypes
<1>4. /\ data' \in [Envs -> [Fds -> BOOLEAN]]
      /\ \A d \in Envs \ {e} : data'[d] = data[d]
      /\ \A i \in Fds \ {new[e]} : data'[e][i] = data[e][i]
      /\ data[e][new[e]] /\ Open(e, slot[e]) => data'[e][new[e]]
  <2>1. PICK b \in BOOLEAN : b = (data[e][new[e]] /\ Open(e, slot[e]))
    BY Zenon
  <2>2. data' = [data EXCEPT ![e] = [data[e] EXCEPT ![new[e]] = b]]
    BY <1>1, <2>1, Zenon
  <2>3. /\ data' \in [Envs -> [Fds -> BOOLEAN]]
        /\ \A d \in Envs \ {e} : data'[d] = data[d]
        /\ \A i \in Fds \ {new[e]} : data'[e][i] = data[e][i]
        /\ data'[e][new[e]] = b
    BY <1>3, <2>2, Zenon DEF CInv, AskTypes
  <2>4. QED BY <1>3, <2>1, <2>3, Zenon
<1>5. /\ \A d \in Envs \ {e} : fd'[d] = fd[d]
      /\ \A i \in Fds \ {new[e]} : fd'[e][i] = fd[e][i]
      /\ fd'[e][new[e]] = fd[e][slot[e]]
  BY <1>1, <1>3, Zenon DEF PInv, CallTypes
<1>6. Acts(e)
  <2>1. Copies(e)
    BY <1>3, <1>5, Zenon DEF Copies
  <2>2. QED BY <1>1, <1>2, <1>4, <1>5, <2>1, Zenon DEF Acts, Same
<1>7. Local(e)'
  <2>1. Covered(e) /\ (Open(e, slot[e]) => data[e][new[e]])
    BY <1>1, Zenon DEF CInv, Local
  <2>2. Covered(e)'
    BY <1>4, <1>5, <2>1, Zenon DEF Covered, Open
  <2>3. QED BY <1>2, <2>2, Zenon DEF Local
<1>8. /\ pc[e] \notin Forking \cup {"embryo", "free"} /\ pc'[e] \notin Forking \cup {"embryo"}
  BY <1>1, <1>2, Zenon DEF Forking
<1>9. AskTypes'
  BY <1>1, <1>4, Zenon DEF CInv, AskTypes
<1>10. QED BY <1>2, <1>6, <1>7, <1>8, <1>9, ActStep, Zenon

(* The CPU is taken and given back: env_run counts.                        *)
LEMMA RunAct ==
  ASSUME PInv, CInv, NEW d \in Envs, env_run(d)
  PROVE  CInv'
<1>1. /\ UNCHANGED <<fd, data, pc, op, slot, new, kid, half>> /\ cur' = d
      /\ runs' = [runs EXCEPT ![d] = pc[d] \in Asking]
  BY Zenon DEF env_run, maps, calls, family
<1>2. runs'[d] = (pc[d] \in Asking) /\ runs' = [e \in Envs |-> runs'[e]]
  BY <1>1, ZenonT(60) DEF CInv, AskTypes
<1>3. AskTypes'
  BY <1>1, <1>2, Zenon DEF CInv, AskTypes
<1>4. \A e \in Envs : pc'[e] # "embryo" => Local(e)'
  BY <1>1, LocalSame, Zenon DEF CInv, Same
<1>5. EmbryoInv' /\ ForkInv'
  BY <1>1 DEF CInv, EmbryoInv, ForkInv, Open
<1>6. ClosedIsTrue'
  BY <1>1, Zenon DEF CInv, ClosedIsTrue, EndOpen, Other
<1>7. AskInv'
  BY <1>1, <1>2, ZenonT(60) DEF AskInv, Asking
<1>8. QED BY <1>3, <1>4, <1>5, <1>6, <1>7, Zenon DEF CInv

(* An environment goes, and the CPU with it if it had it.                  *)
LEMMA DestroyAct ==
  ASSUME PInv, CInv, NEW e \in Envs, pc[e] # "embryo", env_destroy(e),
         cur = e \/ cur \notin Envs \/ pc[cur] = "run"
  PROVE  CInv'
<1>1. /\ pc'[e] = "free" /\ op'[e] = "none"
      /\ \A i \in Fds : fd'[e][i] = "none"
      /\ kid'[e] = NoEnv
      /\ \A d \in Envs \ {e} : Same(d) /\ kid'[d] = kid[d]
  BY Zenon DEF env_destroy, Goto, Closed, Same, PInv, CallTypes, CInv, AskTypes
<1>2. \A d \in Envs \ {e} : pc'[d] = pc[d] /\ fd'[d] = fd[d] /\ data'[d] = data[d] /\ slot'[d] = slot[d]
  BY <1>1, Zenon DEF Same
<1>3. AskTypes'
  <2>1. data' \in [Envs -> [Fds -> BOOLEAN]]
    BY Zenon DEF env_destroy, NoData, CInv, AskTypes
  <2>2. half' = [d \in Envs |-> half'[d]] /\ runs' = [d \in Envs |-> runs'[d]]
    BY ZenonT(60) DEF env_destroy, CInv, AskTypes
  <2>3. QED BY <2>1, <2>2, Zenon DEF AskTypes
<1>4. \A d \in Envs : pc'[d] # "embryo" => Local(d)'
  <2>1. Local(e)'
    BY <1>1, Zenon DEF Local, Covered, Open
  <2>2. QED BY <1>1, <1>2, <2>1, LocalSame, Zenon DEF CInv
<1>5. EmbryoInv'
  <2> SUFFICES ASSUME NEW d \in Envs, pc'[d] = "embryo"
               PROVE  /\ pc'[Root] = "free" \/ (pc'[Root] \in Forking /\ kid'[Root] = d)
                      /\ \A x \in Envs \ {Root, d}, i \in Fds : ~ (fd'[x][i] # "none")
    BY Zenon DEF EmbryoInv, Open
  <2>1. d # e /\ pc[d] = "embryo"
    BY <1>1, <1>2, Zenon
  <2>2. /\ pc[Root] = "free" \/ (pc[Root] \in Forking /\ kid[Root] = d)
        /\ \A x \in Envs \ {Root, d}, i \in Fds : ~ (fd[x][i] # "none")
    BY <2>1, Zenon DEF CInv, EmbryoInv, Open
  <2>3. pc'[Root] = "free" \/ (pc'[Root] \in Forking /\ kid'[Root] = d)
    BY <1>1, <1>2, <2>2, SizeAssumption, Zenon
  <2>4. QED BY <1>1, <1>2, <2>2, <2>3
<1>6. ForkInv'
  <2> SUFFICES ASSUME pc'[Root] \in Forking PROVE ForkInv'
    BY Zenon DEF ForkInv
  <2>1. Root # e /\ Root \in Envs
    BY <1>1, SizeAssumption, Zenon DEF Forking
  <2>2. Same(Root) /\ pc[Root] \in Forking /\ kid'[Root] = kid[Root]
    BY <1>1, <2>1, Zenon DEF Same
  <2>3. kid[Root] \in Envs \ {e}
    BY <2>2, Zenon DEF PInv, CallInv
  <2>4. /\ fd'[kid[Root]] = fd[kid[Root]] /\ data'[kid[Root]] = data[kid[Root]]
    BY <1>2, <2>3, Zenon
  <2>5. QED BY <2>2, <2>4, Zenon DEF CInv, ForkInv, Same, Open
<1>7. AskInv'
  <2> SUFFICES ASSUME NEW d \in Envs, cur' = d, ~ runs'[d], pc'[d] \in {"ask_2", "ask_nn"}
               PROVE  FALSE
    BY Zenon DEF AskInv
  <2>1. d # e /\ pc[d] \in Asking
    BY <1>1, <1>2, Zenon DEF Asking
  <2>2. d = cur
    BY <2>1, ZenonT(60) DEF env_destroy
  <2>3. QED BY <2>1, <2>2, Zenon DEF Asking
<1>8. ClosedIsTrue'
  <2> SUFFICES ASSUME NEW d \in Envs, pc'[d] = "closed", EndOpen(Other(fd[d][slot[d]]))'
               PROVE  FALSE
    BY Zenon DEF ClosedIsTrue
  <2>1. pc[d] = "closed" /\ fd'[d] = fd[d] /\ slot'[d] = slot[d]
    BY <1>1, <1>2, Zenon
  <2>2. PICK end \in {"R", "W"} : end = Other(fd[d][slot[d]])
    BY OtherEnd, Zenon
  <2>3. EndOpen(end)'
    BY <2>1, <2>2, Zenon DEF Other
  <2>4. EndOpen(end)
    BY <1>1, <1>2, <2>3, EndsStay, Zenon DEF Copies
  <2>5. QED BY <2>1, <2>2, <2>4, Zenon DEF CInv, ClosedIsTrue
<1>9. QED BY <1>3, <1>4, <1>5, <1>6, <1>7, <1>8, Zenon DEF CInv

(* close_all.                                                              *)
LEMMA CloseAllAct ==
  ASSUME PInv, CInv, NEW e \in Envs, close_all(e)
  PROVE  CInv'
<1>1. pc[e] = "exit" /\ cur = e
  BY Zenon DEF close_all, At
<1>2. CASE env_destroy(e)
  BY <1>1, <1>2, DestroyAct, Zenon
<1>3. CASE /\ \E i \in Fds : slot' = [slot EXCEPT ![e] = i]
           /\ Goto(e, "close_fd")
           /\ UNCHANGED <<maps, ring, cur, op, new, family, moving, asking>>
  <2>1. /\ fd' = fd /\ data' = data /\ kid' = kid /\ cur' = cur /\ new' = new /\ op' = op
        /\ half' = half /\ runs' = runs
    BY <1>3, Zenon DEF maps, family, asking
  <2>2. /\ pc'[e] = "close_fd" /\ op[e] = "exit"
        /\ \A d \in Envs \ {e} : pc'[d] = pc[d] /\ slot'[d] = slot[d]
    BY <1>1, <1>3, Zenon DEF Goto, PInv, CallTypes, CallInv, Fits
  <2>3. AskTypes'
    BY <2>1, Zenon DEF CInv, AskTypes
  <2>4. /\ pc[e] \notin Forking \cup {"embryo", "free"}
        /\ pc'[e] \notin Forking \cup {"embryo", "dup_fd", "close_data", "ask_2", "ask_nn", "closed"}
        /\ op'[e] \notin {"read", "write", "pipeisclosed"}
    BY <1>1, <2>1, <2>2, Zenon DEF Forking
  <2>5. QED BY <1>1, <2>1, <2>2, <2>3, <2>4, CallAct, Zenon
<1>4. QED BY <1>2, <1>3, Zenon DEF close_all

(* A new pipe, when nobody has one.                                        *)
LEMMA PipeAct ==
  ASSUME PInv, CInv, pipe(Root)
  PROVE  CInv'
<1>1. /\ pc[Root] = "run" /\ UNCHANGED <<cur, pc, op, slot, new, kid, half, runs>>
      /\ \A d \in Envs, i \in Fds : ~ Open(d, i)
  BY Zenon DEF pipe, calls, family, asking
<1>2. /\ \A d \in Envs \ {Root} : fd'[d] = fd[d] /\ data'[d] = data[d]
      /\ \A i \in Fds : fd'[Root][i] # "none" => data'[Root][i]
      /\ data' \in [Envs -> [Fds -> BOOLEAN]]
  <2>1. /\ fd' = [fd EXCEPT ![Root] = [i \in Fds |-> IF i = 0 THEN "R" ELSE IF i = 1 THEN "W" ELSE "none"]]
        /\ data' = [data EXCEPT ![Root] = [i \in Fds |-> i \in {0, 1}]]
    BY Zenon DEF pipe
  <2>2. /\ \A d \in Envs \ {Root} : fd'[d] = fd[d] /\ data'[d] = data[d]
        /\ data' \in [Envs -> [Fds -> BOOLEAN]]
        /\ fd'[Root] = [i \in Fds |-> IF i = 0 THEN "R" ELSE IF i = 1 THEN "W" ELSE "none"]
        /\ data'[Root] = [i \in Fds |-> i \in {0, 1}]
    BY <2>1, SizeAssumption DEF PInv, CallTypes, CInv, AskTypes
  <2>3. \A i \in Fds : fd'[Root][i] # "none" => i \in {0, 1}
    BY <2>2, Zenon
  <2>4. \A i \in Fds : data'[Root][i] = (i \in {0, 1})
    BY <2>2, Zenon
  <2>5. QED BY <2>2, <2>3, <2>4, ZenonT(60)
<1>3. \A d \in Envs : pc[d] # "embryo"
  BY <1>1, Zenon DEF CInv, EmbryoInv, Forking
<1>4. \A d \in Envs : op[d] \notin {"read", "write", "pipeisclosed"}
  BY <1>1, <1>3, Zenon DEF CInv, Local, PInv, CallTypes
<1>5. \A d \in Envs : pc[d] \notin {"ask_2", "ask_nn", "closed"}
  BY <1>4, Zenon DEF PInv, CallInv, Fits, Asking
<1>6. \A d \in Envs : Local(d)'
  <2>1. \A d \in Envs \ {Root} : Same(d)
    BY <1>1, <1>2, Zenon DEF Same
  <2>2. Local(Root)'
    BY <1>1, <1>2, <1>4, SizeAssumption, Zenon DEF Local, Covered, Open
  <2>3. QED BY <1>3, <2>1, <2>2, LocalSame, Zenon DEF CInv
<1>7. AskTypes'
  BY <1>1, <1>2, Zenon DEF CInv, AskTypes
<1>8. EmbryoInv' /\ ForkInv' /\ AskInv' /\ ClosedIsTrue'
  BY <1>1, <1>3, <1>5, Zenon DEF EmbryoInv, ForkInv, AskInv, ClosedIsTrue, Forking
<1>9. QED BY <1>6, <1>7, <1>8, Zenon DEF CInv

(* fork() begins.                                                          *)
LEMMA ForkAct ==
  ASSUME PInv, CInv, NEW c \in Envs, Unshared(Root), fork(Root, c)
  PROVE  CInv'
<1>1. /\ pc[c] = "free" /\ pc[Root] = "run" /\ c # Root /\ cur = Root
      /\ pc' = [pc EXCEPT ![Root] = "fork_fd", ![c] = "embryo"]
      /\ op' = [op EXCEPT ![Root] = "fork"] /\ kid' = [kid EXCEPT ![Root] = c]
      /\ UNCHANGED <<fd, data, cur, slot, new, half, runs>>
  BY Zenon DEF fork, maps, asking
<1>2. /\ pc'[Root] = "fork_fd" /\ pc'[c] = "embryo" /\ op'[Root] = "fork" /\ kid'[Root] = c
      /\ \A d \in Envs \ {Root, c} : Same(d)
  BY <1>1, SizeAssumption, Zenon DEF PInv, CallTypes, Same
<1>3. \A d \in Envs : pc[d] # "embryo"
  BY <1>1, Zenon DEF CInv, EmbryoInv, Forking
<1>4. \A d \in Envs : pc'[d] # "embryo" => Local(d)'
  <2>1. Local(Root)'
    BY <1>1, <1>2, <1>3, SizeAssumption, Zenon DEF CInv, Local, Covered, Open
  <2>2. QED BY <1>2, <1>3, <2>1, LocalSame, Zenon DEF CInv
<1>5. \A d \in Envs \ {Root}, i \in Fds : ~ (fd'[d][i] # "none")
  BY <1>1, Zenon DEF Unshared, Open
<1>6. EmbryoInv'
  <2>1. \A d \in Envs : pc'[d] = "embryo" => d = c
    BY <1>2, <1>3, Zenon DEF Same
  <2>2. pc'[Root] \in Forking
    BY <1>2, Zenon DEF Forking
  <2>3. QED BY <1>2, <1>5, <2>1, <2>2, Zenon DEF EmbryoInv, Open
<1>7. ForkInv'
  BY <1>1, <1>2, <1>5 DEF ForkInv, Open
<1>8. AskTypes' /\ AskInv'
  BY <1>1, <1>2, Zenon DEF CInv, AskTypes, AskInv
<1>9. ClosedIsTrue'
  BY <1>1, <1>2 DEF CInv, ClosedIsTrue, EndOpen, Other, Same
<1>10. QED BY <1>4, <1>6, <1>7, <1>8, <1>9, Zenon DEF CInv

(* Between the two, nobody else has the pipe or asks.                      *)
LEMMA ForkingAlone ==
  ASSUME PInv, CInv, pc[Root] \in Forking
  PROVE  /\ kid[Root] \in Envs \ {Root} /\ pc[kid[Root]] = "embryo"
         /\ \A d \in Envs : pc[d] = "embryo" => d = kid[Root]
         /\ \A d \in Envs : pc[d] \notin {"ask_2", "ask_nn", "closed"}
<1>1. kid[Root] \in Envs \ {Root} /\ pc[kid[Root]] = "embryo"
  BY Zenon DEF PInv, CallInv
<1>2. \A d \in Envs : pc[d] = "embryo" => d = kid[Root]
  BY Zenon DEF CInv, EmbryoInv, Forking
<1>3. \A d \in Envs : pc[d] \notin {"ask_2", "ask_nn", "closed"}
  <2> SUFFICES ASSUME NEW d \in Envs, pc[d] \in {"ask_2", "ask_nn", "closed"} PROVE FALSE
    BY Zenon
  <2>1. op[d] \in {"read", "write", "pipeisclosed"} /\ pc[d] # "embryo" /\ d # Root
    BY Zenon DEF PInv, CallInv, Fits, Asking, Forking
  <2>2. Open(d, slot[d]) /\ slot[d] \in Fds
    BY <2>1, Zenon DEF CInv, Local, PInv, CallTypes
  <2>3. d # kid[Root]
    BY <1>1, <2>1, Zenon
  <2>4. QED BY <1>1, <2>1, <2>2, <2>3, Zenon DEF CInv, EmbryoInv
<1>4. QED BY <1>1, <1>2, <1>3, Zenon

(* What NextSlot does, exactly.                                            *)
LEMMA SlotMoves ==
  ASSUME CallTypes, NEW e \in Envs, NEW l \in Places, NextSlot(e, l)
  PROVE  /\ \A d \in Envs \ {e} : pc'[d] = pc[d] /\ slot'[d] = slot[d]
         /\ \/ slot'[e] = slot[e] + 1 /\ pc'[e] = pc[e]
            \/ slot[e] = MAXFD - 1 /\ slot'[e] = 0 /\ pc'[e] = l
<1>1. MAXFD \in Nat /\ slot[e] \in 0 .. MAXFD - 1
  BY SizeAssumption, Zenon DEF CallTypes, Fds
<1>2. CASE slot[e] < MAXFD - 1
  <2>1. slot' = [slot EXCEPT ![e] = slot[e] + 1] /\ pc' = pc
    BY <1>2, Zenon DEF NextSlot
  <2>2. QED BY <2>1, Zenon DEF CallTypes
<1>3. CASE ~ (slot[e] < MAXFD - 1)
  <2>1. slot' = [slot EXCEPT ![e] = 0] /\ pc' = [pc EXCEPT ![e] = l]
    BY <1>3, Zenon DEF NextSlot, Goto
  <2>2. slot[e] = MAXFD - 1
    BY <1>1, <1>3
  <2>3. QED BY <2>1, <2>2, Zenon DEF CallTypes
<1>4. QED BY <1>2, <1>3, Zenon

(* A step of fork() in its loops: only the child's pages change.           *)
LEMMA ForkLoop ==
  ASSUME PInv, CInv, pc[Root] \in Forking, pc'[Root] \in Forking, AskTypes', ForkInv',
         cur = Root, cur' = cur, op' = op, new' = new, kid' = kid,
         \A d \in Envs \ {Root} : pc'[d] = pc[d] /\ slot'[d] = slot[d],
         \A d \in Envs \ {kid[Root]} : fd'[d] = fd[d] /\ data'[d] = data[d]
  PROVE  CInv'
<1>1. /\ kid[Root] \in Envs \ {Root} /\ pc[kid[Root]] = "embryo"
      /\ \A d \in Envs : pc[d] = "embryo" => d = kid[Root]
      /\ \A d \in Envs : pc[d] \notin {"ask_2", "ask_nn", "closed"}
  BY ForkingAlone, Zenon
<1>2. /\ pc'[kid[Root]] = "embryo"
      /\ \A d \in Envs \ {Root, kid[Root]} : Same(d) /\ pc'[d] = pc[d] /\ fd'[d] = fd[d]
  BY <1>1, Zenon DEF Same
<1>3. pc'[Root] \notin {"embryo", "ask_2", "ask_nn", "closed", "dup_fd", "close_data"} /\ op[Root] = "fork"
  BY SizeAssumption, Zenon DEF Forking, PInv, CallInv, Fits
<1>4. \A d \in Envs : pc'[d] # "embryo" => Local(d)'
  <2>1. Local(Root)'
    <3>1. Covered(Root)
      BY <1>1, SizeAssumption, Zenon DEF CInv, Local
    <3>2. fd'[Root] = fd[Root] /\ data'[Root] = data[Root]
      BY <1>1, SizeAssumption, Zenon
    <3>3. Covered(Root)'
      BY <3>1, <3>2, Zenon DEF Covered, Open
    <3>4. QED BY <1>3, <3>3, Zenon DEF Local
  <2>2. QED BY <1>1, <1>2, <2>1, LocalSame, Zenon DEF CInv
<1>5. EmbryoInv'
  <2>1. \A d \in Envs : pc'[d] = "embryo" => d = kid[Root]
    BY <1>1, <1>2, <1>3, Zenon
  <2>2. \A x \in Envs \ {Root, kid[Root]}, i \in Fds : ~ (fd[x][i] # "none")
    BY <1>1, Zenon DEF CInv, EmbryoInv, Open
  <2>3. QED BY <1>2, <2>1, <2>2 DEF EmbryoInv, Open
<1>6. AskInv'
  BY <1>3, Zenon DEF AskInv
<1>7. ClosedIsTrue'
  BY <1>1, <1>2, <1>3, Zenon DEF ClosedIsTrue
<1>8. QED BY <1>4, <1>5, <1>6, <1>7, Zenon DEF CInv

(* The descriptors.                                                        *)
LEMMA ForkFdAct ==
  ASSUME PInv, CInv, NEW e \in Envs, fork_fd(e)
  PROVE  CInv'
<1>1. e = Root /\ pc[Root] = "fork_fd" /\ pc[Root] \in Forking
  BY Zenon DEF fork_fd, At, PInv, CallInv, Forking
<1>2. /\ cur = Root /\ cur' = cur /\ data' = data /\ half' = half /\ runs' = runs
      /\ op' = op /\ new' = new /\ kid' = kid /\ NextSlot(Root, "fork_data")
  BY <1>1, Zenon DEF fork_fd, At, family, asking
<1>3. PICK c \in Envs \ {Root} : c = kid[Root]
  BY <1>1, ForkingAlone, Zenon
<1>4. fd' = [fd EXCEPT ![c] = [fd[c] EXCEPT ![slot[Root]] = fd[Root][slot[Root]]]]
  BY <1>1, <1>3, Zenon DEF fork_fd
<1>5. /\ \A d \in Envs \ {Root} : pc'[d] = pc[d] /\ slot'[d] = slot[d]
      /\ pc'[Root] = "fork_fd" \/ (pc'[Root] = "fork_data" /\ slot'[Root] = 0)
  <2>1. "fork_data" \in Places
    BY Zenon DEF Places
  <2>2. QED BY <1>1, <1>2, <2>1, SlotMoves, SizeAssumption, Zenon DEF PInv
<1>6. /\ \A d \in Envs \ {c} : fd'[d] = fd[d]
      /\ \A i \in Fds : fd'[c][i] \in {fd[c][i], fd[Root][i]}
  BY <1>4, Zenon DEF PInv, CallTypes
<1>7. ForkInv'
  <2>1. \A i \in Fds : ~ (i < 0)
    BY SizeAssumption DEF Fds
  <2>2. \A i \in Fds : fd[c][i] # "none" => fd[Root][i] # "none"
    BY <1>1, <1>3, Zenon DEF CInv, ForkInv, Open
  <2>3. \A i \in Fds : fd'[c][i] # "none" => fd'[Root][i] # "none"
    BY <1>3, <1>6, <2>2, SizeAssumption, Zenon
  <2>4. QED BY <1>2, <1>3, <1>5, <2>1, <2>3, Zenon DEF ForkInv, Open
<1>8. AskTypes'
  BY <1>2, Zenon DEF CInv, AskTypes
<1>9. pc'[Root] \in Forking
  BY <1>5, Zenon DEF Forking
<1>10. \A d \in Envs \ {kid[Root]} : fd'[d] = fd[d] /\ data'[d] = data[d]
  BY <1>2, <1>3, <1>6, Zenon
<1>11. QED BY <1>1, <1>2, <1>5, <1>7, <1>8, <1>9, <1>10, ForkLoop, Zenon

(* The rings.                                                              *)
LEMMA ForkDataAct ==
  ASSUME PInv, CInv, NEW e \in Envs, fork_data(e)
  PROVE  CInv'
<1>1. e = Root /\ pc[Root] = "fork_data" /\ pc[Root] \in Forking
  BY Zenon DEF fork_data, At, PInv, CallInv, Forking
<1>2. /\ cur = Root /\ cur' = cur /\ fd' = fd /\ half' = half /\ runs' = runs
      /\ op' = op /\ new' = new /\ kid' = kid /\ NextSlot(Root, "fork_start")
  BY <1>1, Zenon DEF fork_data, At, family, asking
<1>3. PICK c \in Envs \ {Root} : c = kid[Root]
  BY <1>1, ForkingAlone, Zenon
<1>4. data' = [data EXCEPT ![c] = [data[c] EXCEPT ![slot[Root]] = data[Root][slot[Root]]]]
  BY <1>1, <1>3, Zenon DEF fork_data
<1>5. /\ \A d \in Envs \ {Root} : pc'[d] = pc[d] /\ slot'[d] = slot[d]
      /\ \/ pc'[Root] = "fork_data" /\ slot'[Root] = slot[Root] + 1
         \/ pc'[Root] = "fork_start" /\ slot[Root] = MAXFD - 1
  <2>1. "fork_start" \in Places
    BY Zenon DEF Places
  <2>2. QED BY <1>1, <1>2, <2>1, SlotMoves, SizeAssumption, Zenon DEF PInv
<1>6. /\ data' \in [Envs -> [Fds -> BOOLEAN]]
      /\ \A d \in Envs \ {c} : data'[d] = data[d]
      /\ \A i \in Fds \ {slot[Root]} : data'[c][i] = data[c][i]
      /\ data'[c][slot[Root]] = data[Root][slot[Root]]
  <2>1. slot[Root] \in Fds /\ data[Root][slot[Root]] \in BOOLEAN
    BY SizeAssumption DEF PInv, CallTypes, CInv, AskTypes
  <2>2. QED BY <1>4, <2>1, Zenon DEF CInv, AskTypes
<1>7. ForkInv'
  <2> SUFFICES ASSUME NEW i \in Fds, fd[c][i] # "none",
                      pc'[Root] = "fork_start" \/ i < slot'[Root]
               PROVE  data'[c][i]
    <3>1. \A i \in Fds : fd[c][i] # "none" => fd[Root][i] # "none"
      BY <1>1, <1>3, Zenon DEF CInv, ForkInv, Open
    <3>2. QED BY <1>2, <1>3, <3>1, Zenon DEF ForkInv, Open
  <2>1. Open(c, i) /\ Open(Root, i)
    BY <1>1, <1>3, Zenon DEF CInv, ForkInv, Open
  <2>2. i < slot[Root] \/ i = slot[Root]
    BY <1>5, SizeAssumption, SMTT(60) DEF PInv, CallTypes, Fds
  <2>3. CASE i < slot[Root]
    <3>1. i # slot[Root]
      BY <2>3, SizeAssumption DEF Fds
    <3>2. data[c][i]
      BY <1>1, <1>3, <2>1, <2>3, Zenon DEF CInv, ForkInv
    <3>3. QED BY <1>6, <3>1, <3>2, Zenon
  <2>4. CASE i = slot[Root]
    <3>1. data[Root][i]
      <4>1. pc[Root] # "embryo"
        BY <1>1, Zenon
      <4>2. Covered(Root)
        BY <4>1, SizeAssumption, Zenon DEF CInv, Local
      <4>3. QED BY <2>1, <4>2, Zenon DEF Covered
    <3>2. QED BY <1>6, <2>4, <3>1, ZenonT(60)
  <2>5. QED BY <2>2, <2>3, <2>4, Zenon
<1>8. AskTypes'
  BY <1>2, <1>6, Zenon DEF CInv, AskTypes
<1>9. pc'[Root] \in Forking
  BY <1>5, Zenon DEF Forking
<1>10. \A d \in Envs \ {kid[Root]} : fd'[d] = fd[d] /\ data'[d] = data[d]
  BY <1>2, <1>3, <1>6, Zenon
<1>11. QED BY <1>1, <1>2, <1>5, <1>7, <1>8, <1>9, <1>10, ForkLoop, Zenon

(* The child starts, with a ring for every descriptor.                     *)
LEMMA ForkStartAct ==
  ASSUME PInv, CInv, NEW e \in Envs, fork_start(e)
  PROVE  CInv'
<1>1. e = Root /\ pc[Root] = "fork_start" /\ pc[Root] \in Forking
  BY Zenon DEF fork_start, At, PInv, CallInv, Forking
<1>2. PICK c \in Envs \ {Root} : c = kid[Root] /\ pc[c] = "embryo"
  BY <1>1, ForkingAlone, Zenon
<1>3. /\ UNCHANGED <<fd, data, cur, slot, new, half, runs>> /\ cur = Root
      /\ op' = [op EXCEPT ![Root] = "none"] /\ pc' = [pc EXCEPT ![Root] = "run", ![c] = "run"]
  BY <1>1, <1>2, Zenon DEF fork_start, At, maps, asking
<1>4. /\ pc'[Root] = "run" /\ pc'[c] = "run" /\ op'[Root] = "none" /\ op'[c] = op[c]
      /\ \A d \in Envs \ {Root, c} : Same(d) /\ pc'[d] = pc[d]
  BY <1>2, <1>3, SizeAssumption, Zenon DEF PInv, CallTypes, Same
<1>5. op[c] = "none"
  BY <1>2, Zenon DEF PInv, CallInv, Fits
<1>6. \A d \in Envs \ {Root, c} : pc[d] \notin {"embryo", "ask_2", "ask_nn", "closed"}
  BY <1>1, <1>2, ForkingAlone, Zenon
<1>7. \A d \in Envs : pc'[d] \notin {"embryo", "ask_2", "ask_nn", "closed"}
  BY <1>4, <1>6, Zenon
<1>8. \A d \in Envs : Local(d)'
  <2>1. Covered(Root)'
    BY <1>1, <1>3, SizeAssumption, Zenon DEF CInv, Local, Covered, Open
  <2>2. Covered(c)'
    BY <1>1, <1>2, <1>3, Zenon DEF CInv, ForkInv, Covered, Open
  <2>3. Local(Root)' /\ Local(c)'
    BY <1>4, <1>5, <2>1, <2>2, Zenon DEF Local
  <2>4. QED BY <1>4, <1>6, <2>3, LocalSame, Zenon DEF CInv
<1>9. AskTypes'
  BY <1>3, Zenon DEF CInv, AskTypes
<1>10. EmbryoInv' /\ ForkInv' /\ AskInv' /\ ClosedIsTrue'
  BY <1>4, <1>7, Zenon DEF EmbryoInv, ForkInv, AskInv, ClosedIsTrue, Forking
<1>11. QED BY <1>8, <1>9, <1>10, Zenon DEF CInv
-----------------------------------------------------------------------------
(* The guess: with a ring for every descriptor, there are as many rings as *)
(* descriptors of one end only if the other end has none.                  *)
LEMMA CountsTell ==
  ASSUME CallTypes, \A d \in Envs : Covered(d), NEW end \in {"R", "W"}, FdRef(end) = RingRef
  PROVE  ~ EndOpen(Other(end))
<1> DEFINE S == {m \in Envs \X Fds : fd[m[1]][m[2]] = end}
           T == {m \in Envs \X Fds : data[m[1]][m[2]]}
<1>1. IsFiniteSet(T)
  <2>1. IsFiniteSet(Envs) /\ IsFiniteSet(Fds)
    BY SizeAssumption, FS_Interval DEF Fds
  <2>2. IsFiniteSet(Envs \X Fds)
    BY <2>1, FS_Product, Zenon
  <2>3. QED BY <2>2, FS_Subset, Zenon
<1>2. S \in SUBSET T
  <2> SUFFICES ASSUME NEW m \in Envs \X Fds, fd[m[1]][m[2]] = end PROVE data[m[1]][m[2]]
    BY Zenon
  <2>1. m[1] \in Envs /\ m[2] \in Fds /\ fd[m[1]][m[2]] # "none"
    BY Zenon
  <2>2. QED BY <2>1, Zenon DEF Covered, Open
<1>3. Cardinality(S) = Cardinality(T)
  BY Zenon DEF FdRef, RingRef
<1>4. S = T
  BY <1>1, <1>2, <1>3, FS_Subset, Zenon
<1>5. SUFFICES ASSUME NEW d \in Envs, NEW i \in Fds, fd[d][i] = Other(end) PROVE FALSE
  BY Zenon DEF EndOpen
<1>6. fd[d][i] # "none" /\ fd[d][i] # end
  BY <1>5, Zenon DEF Other
<1>7. data[d][i]
  BY <1>6, Zenon DEF Covered, Open
<1>8. <<d, i>> \in T
  BY <1>7, Zenon
<1>9. <<d, i>> \in S
  BY <1>4, <1>8, Zenon
<1>10. QED BY <1>6, <1>9, Zenon

(* The question itself, in one turn of e or with runs[e] set.              *)
LEMMA AskAct ==
  ASSUME PInv, CInv, NEW e \in Envs, _pipeisclosed(e)
  PROVE  CInv'
<1>1. /\ fd' = fd /\ data' = data /\ kid' = kid /\ cur' = cur /\ new' = new /\ cur = e
      /\ pc[e] \in {"ask_n", "ask_1", "ask_2", "ask_nn", "closed"}
      /\ half' = half \/ half' = [half EXCEPT ![e] = half'[e]]
      /\ runs' = runs \/ runs' = [runs EXCEPT ![e] = runs'[e]]
  <2>1. half = [d \in Envs |-> half[d]] /\ runs = [d \in Envs |-> runs[d]]
    BY Zenon DEF CInv, AskTypes
  <2>2. /\ half' = half \/ \E h : half' = [half EXCEPT ![e] = h]
        /\ runs' = runs \/ \E r : runs' = [runs EXCEPT ![e] = r]
    BY ZenonT(60) DEF _pipeisclosed, ask_n, ask_1, ask_2, ask_nn, closed, asking
  <2>3. /\ half' = half \/ half' = [half EXCEPT ![e] = half'[e]]
        /\ runs' = runs \/ runs' = [runs EXCEPT ![e] = runs'[e]]
    BY <2>1, <2>2, Zenon
  <2>4. QED BY <2>3, ZenonT(60) DEF _pipeisclosed, ask_n, ask_1, ask_2, ask_nn, closed, At, maps, calls, family
<1>2. AskTypes'
  <2>1. data' \in [Envs -> [Fds -> BOOLEAN]]
    BY <1>1, Zenon DEF CInv, AskTypes
  <2>2. half' = [d \in Envs |-> half'[d]] /\ runs' = [d \in Envs |-> runs'[d]]
    BY <1>1, Zenon DEF CInv, AskTypes
  <2>3. QED BY <2>1, <2>2, Zenon DEF AskTypes
<1>3. /\ op[e] \in {"read", "write", "pipeisclosed"}
      /\ pc[e] \notin Forking \cup {"embryo", "free"}
  BY <1>1, Zenon DEF PInv, CallInv, Fits, Asking, Forking
<1>4. Open(e, slot[e]) /\ slot[e] \in Fds
  BY <1>3, Zenon DEF CInv, Local, PInv, CallTypes
<1>5. PICK end \in {"R", "W"} : end = fd[e][slot[e]]
  BY <1>4, Zenon DEF PInv, CallTypes, Open
<1>6. ASSUME NEW l \in {"ask_n", "ask_1", "ask_2", "ask_nn", "closed", "r_test", "w_test"},
             Goto(e, l), op' = op, slot' = slot,
             l \in {"ask_2", "ask_nn"} => AskInv', l = "closed" => ~ EndOpen(Other(end))
      PROVE  CInv'
  <2>1. pc'[e] = l /\ \A d \in Envs \ {e} : pc'[d] = pc[d]
    BY <1>6, Zenon DEF Goto, PInv, CallTypes
  <2>2. pc'[e] \notin Forking \cup {"embryo", "dup_fd", "close_data"}
    BY <2>1, Zenon DEF Forking
  <2>3. QED BY <1>1, <1>2, <1>3, <1>4, <1>5, <1>6, <2>1, <2>2, CallAct, Zenon
<1>7. ASSUME Done(e) PROVE CInv'
  <2>1. /\ pc'[e] = "run" /\ op'[e] = "none"
        /\ \A d \in Envs \ {e} : pc'[d] = pc[d] /\ op'[d] = op[d] /\ slot'[d] = slot[d]
    BY <1>7, Zenon DEF Done, Goto, PInv, CallTypes
  <2>2. pc'[e] \notin Forking \cup {"embryo", "dup_fd", "close_data"}
    BY <2>1, Zenon DEF Forking
  <2>3. QED BY <1>1, <1>2, <1>3, <2>1, <2>2, CallAct, Zenon
<1>8. CASE ask_n(e)
  BY <1>6, <1>8, Zenon DEF ask_n, calls
<1>9. CASE ask_1(e)
  <2>1. Goto(e, "ask_2") /\ op' = op /\ slot' = slot
    BY <1>9, Zenon DEF ask_1, calls
  <2>2. /\ half'[e] \in {<<"fd", FdRef(fd[e][slot[e]])>>, <<"ring", RingRef>>}
    BY <1>9, Zenon DEF ask_1, CInv, AskTypes
  <2>3. FdRef(fd[e][slot[e]])' = FdRef(fd[e][slot[e]]) /\ RingRef' = RingRef
    BY <1>1, <2>1, Zenon DEF FdRef, RingRef
  <2>4. pc'[e] = "ask_2"
    BY <2>1, Zenon DEF Goto, PInv, CallTypes
  <2>5. AskInv'
    BY <1>1, <2>2, <2>3, <2>4, Zenon DEF AskInv
  <2>6. QED BY <1>6, <2>1, <2>5, Zenon
<1>10. CASE ask_2(e)
  <2>1. Goto(e, "ask_nn") /\ op' = op /\ slot' = slot /\ runs' = runs
    BY <1>10, Zenon DEF ask_2, calls
  <2>2. pc'[e] = "ask_nn" /\ pc[e] = "ask_2"
    BY <1>10, <2>1, Zenon DEF Goto, PInv, CallTypes, ask_2, At
  <2>3. ASSUME ~ runs[e], half'[e][2] = 1 PROVE ~ EndOpen(Other(end))
    <3>1. half[e] = <<"fd", FdRef(end)>> \/ half[e] = <<"ring", RingRef>>
      BY <1>1, <1>5, <2>2, <2>3, Zenon DEF CInv, AskInv
    <3>2. PICK second : /\ second = IF half[e][1] = "fd" THEN RingRef ELSE FdRef(end)
                        /\ half'[e] = <<"ret", IF half[e][2] = second THEN 1 ELSE 0>>
      BY <1>5, <1>10, Zenon DEF ask_2, CInv, AskTypes
    <3>3. half[e][2] = second
      BY <2>3, <3>2
    <3>4. FdRef(end) = RingRef
      BY <3>1, <3>2, <3>3
    <3>5. QED BY <1>3, <3>4, NoEmbryo, CountsTell, Zenon DEF PInv
  <2>4. AskInv'
    <3>1. EndOpen(Other(fd[e][slot[e]]))' => EndOpen(Other(end))
      BY <1>1, <1>5, <2>1, Zenon DEF EndOpen, Other
    <3>2. QED BY <1>1, <2>1, <2>2, <2>3, <3>1, Zenon DEF AskInv
  <2>5. QED BY <1>6, <2>1, <2>4, Zenon
<1>11. CASE ask_nn(e)
  <2>1. \/ Goto(e, "ask_n") /\ op' = op /\ slot' = slot
        \/ ~ runs[e] /\ half[e][2] = 1 /\ Goto(e, "closed") /\ op' = op /\ slot' = slot
        \/ Goto(e, "r_test") /\ op' = op /\ slot' = slot
        \/ Goto(e, "w_test") /\ op' = op /\ slot' = slot
        \/ Done(e)
    BY <1>3, <1>11, ZenonT(60) DEF ask_nn
  <2>2. ~ runs[e] /\ half[e][2] = 1 => ~ EndOpen(Other(end))
    BY <1>1, <1>5, <1>11, Zenon DEF ask_nn, At, CInv, AskInv
  <2>3. QED BY <1>6, <1>7, <2>1, <2>2, Zenon
<1>12. CASE closed(e)
  BY <1>7, <1>12, Zenon DEF closed
<1>13. QED BY <1>8, <1>9, <1>10, <1>11, <1>12, Zenon DEF _pipeisclosed
LEMMA ClosedInit == Init => CInv
<1> SUFFICES ASSUME Init PROVE CInv
  BY Zenon
<1>1. \A e \in Envs : pc[e] \in {"run", "free"} /\ op[e] = "none" /\ \A i \in Fds : fd[e][i] = "none"
  BY Zenon DEF Init, Closed
<1>2. AskTypes
  BY Zenon DEF Init, AskTypes, NoData
<1>3. \A e \in Envs : Local(e)
  BY <1>1, Zenon DEF Local, Covered, Open
<1>4. EmbryoInv /\ ForkInv /\ AskInv /\ ClosedIsTrue
  BY <1>1, SizeAssumption, Zenon DEF EmbryoInv, ForkInv, AskInv, ClosedIsTrue, Forking
<1>5. QED BY <1>2, <1>3, <1>4, Zenon DEF CInv

LEMMA ClosedNext == PInv /\ CInv /\ [LibNext]_vars => CInv'
<1> SUFFICES ASSUME PInv, CInv, [LibNext]_vars PROVE CInv'
  BY Zenon
<1>1. CASE UNCHANGED vars
  <2>1. UNCHANGED <<fd, data, cur, pc, op, slot, new, kid, half, runs>>
    BY <1>1, Zenon DEF vars, maps, calls, family, asking
  <2>2. AskTypes' /\ EmbryoInv' /\ ForkInv'
    BY <2>1 DEF CInv, AskTypes, EmbryoInv, ForkInv, Open
  <2>3. AskInv' /\ ClosedIsTrue'
    BY <2>1, ZenonT(60) DEF CInv, AskInv, ClosedIsTrue, EndOpen, Other, FdRef, RingRef
  <2>4. \A e \in Envs : pc'[e] # "embryo" => Local(e)'
    BY <2>1, LocalSame, Zenon DEF CInv, Same
  <2>5. QED BY <2>2, <2>3, <2>4, Zenon DEF CInv
<1>2. CASE LibNext
  <2>1. CASE pipe(Root) \/ \E c \in Envs : Unshared(Root) /\ fork(Root, c)
    BY <2>1, PipeAct, ForkAct, Zenon
  <2>2. CASE \/ \E i \in Fds : write(Root, i)
             \/ \E e \in Envs \ {Root}, i \in Fds : read(e, i) \/ pipeisclosed(e, i)
    BY <2>2, BeginAct, SizeAssumption, Zenon
  <2>3. ASSUME NEW e \in Envs, Step(e) PROVE CInv'
    <3>1. CASE devpipe_close_fd(e) \/ devpipe_close_data(e) \/ close_all(e)
      BY <3>1, CloseFdAct, CloseDataAct, CloseAllAct, Zenon
    <3>2. CASE dup_data(e) \/ dup_fd(e)
      BY <3>2, DupDataAct, DupFdAct, Zenon
    <3>3. CASE fork_fd(e) \/ fork_data(e) \/ fork_start(e)
      BY <3>3, ForkFdAct, ForkDataAct, ForkStartAct, Zenon
    <3>4. CASE _pipeisclosed(e) \/ devpipe_read(e) \/ devpipe_write(e)
      BY <3>4, AskAct, LoopAct, Zenon
    <3>5. QED BY <2>3, <3>1, <3>2, <3>3, <3>4, Zenon DEF Step
  <2>4. ASSUME NEW e \in Envs, \/ exit(e) \/ \E i \in Fds : close(e, i)
                               \/ \E i, j \in Fds : dup(e, i, j)
        PROVE  CInv'
    BY <2>4, BeginAct, Zenon
  <2>5. ASSUME NEW e \in Envs, env_run(e) PROVE CInv'
    BY <2>5, RunAct, Zenon
  <2>6. ASSUME NEW e \in Envs, Kill(e) PROVE CInv'
    BY <2>6, DestroyAct, Zenon DEF Kill, Live
  <2>7. QED BY <1>2, <2>1, <2>2, <2>3, <2>4, <2>5, <2>6, Zenon DEF LibNext
<1>3. QED BY <1>1, <1>2, Zenon

(* For any number of environments and descriptors, "closed" is never said  *)
(* of a pipe whose other end is open: _pipeisclosed may trust two counts   *)
(* that it reads one after the other, if env_runs has not changed and the  *)
(* pipe has been handed on before it is used (lib/pipe.c:80-98).           *)
THEOREM ClosedIsNeverWrong == LibSpec => []ClosedIsTrue
<1>1. CInv => ClosedIsTrue
  BY Zenon DEF CInv
<1>2. QED BY <1>1, PipeInit, PipeNext, ClosedInit, ClosedNext, PTL DEF LibSpec
=============================================================================
