--------------------------- MODULE PrivateMemory ---------------------------
(***************************************************************************)
(* What fork() promises (lib/fork.c:174-189): every environment has a      *)
(* memory of its own, a child starts with a copy of its parent's, and only *)
(* the pages marked to be shared are seen by all.  The child's stack is a  *)
(* private copy too, but of whatever the parent's held at some moment of   *)
(* fork(): the parent goes on using its stack while it copies it.          *)
(***************************************************************************)
CONSTANTS Envs, Root, Private, Stack, Shared, Values, Zero

VARIABLES live,    \* the environments that have been started
          mem,     \* mem[e][v] of a live environment, of its private pages
          shared   \* shared[v]: the pages all environments share

vars == <<live, mem, shared>>

Blank == [v \in Private |-> Zero]

Init == /\ live = {Root}
        /\ mem = [e \in Envs |-> Blank]
        /\ shared = [v \in Shared |-> Zero]

Write(e, v, x) ==
  /\ e \in live
  /\ mem' = [mem EXCEPT ![e][v] = x]
  /\ UNCHANGED <<live, shared>>

WriteShared(e, v, x) ==
  /\ e \in live
  /\ shared' = [shared EXCEPT ![v] = x]
  /\ UNCHANGED <<live, mem>>

Fork(e, c) ==
  /\ e \in live /\ c \notin live
  /\ live' = live \cup {c}
  /\ \E x \in Values : mem' = [mem EXCEPT ![c] = [mem[e] EXCEPT ![Stack] = x]]
  /\ UNCHANGED shared

(* The pages that are shared go when nobody is left to see them.           *)
Exit(e) ==
  /\ e \in live
  /\ live' = live \ {e}
  /\ mem' = [mem EXCEPT ![e] = Blank]
  /\ shared' = IF live' = {} THEN [v \in Shared |-> Zero] ELSE shared

Next ==
  \E e \in Envs :
    \/ \E v \in Private, x \in Values : Write(e, v, x)
    \/ \E v \in Shared, x \in Values : WriteShared(e, v, x)
    \/ \E c \in Envs : Fork(e, c)
    \/ Exit(e)

Spec == Init /\ [][Next]_vars
=============================================================================
