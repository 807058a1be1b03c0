------------------------------- MODULE MCPmap --------------------------------
(***************************************************************************)
(* Pmap on two small machines.  On one, arbitrary programs use two virtual *)
(* pages, each with a page table of its own, and one CPU.  On the other,   *)
(* programs that behave as lib/ and user/ do use one virtual page and two  *)
(* CPUs.                                                                   *)
(***************************************************************************)
EXTENDS Pmap, TLC

CONSTANTS v1, v2, d1, d2, c1, c2

VARIABLE machine

OneTable == [va \in VAs |-> d1]

TwoTables == v1 :> d1 @@ v2 :> d2

Symmetry == Permutations(Pages)

(* The second CPU never runs an environment.                               *)
OneCpu == curenv'[c2] = NoEnv

(* No call is about the second virtual page.                               *)
OneAddress ==
  \A e \in Envs :
    /\ mem'.pte[e][v2] = NoPte /\ mem'.pde[e][d2] = NoPage
    /\ env_ipc_dstva'[e] # v2 /\ asked'[e] # v2

MCInit == machine \in {"one_cpu", "two_cpus"} /\ Init

MCNext ==
  /\ UNCHANGED machine
  /\ \/ machine = "one_cpu" /\ Next /\ OneCpu
     \/ machine = "two_cpus" /\ LibNext /\ OneAddress

MCSpec == MCInit /\ [][MCNext]_<<machine, vars>>

(* One CPU under programs as in lib/ and user/.                            *)
MCLibSpec ==
  machine = "one_cpu" /\ Init /\ [][LibNext /\ UNCHANGED machine]_<<machine, vars>>
=============================================================================
