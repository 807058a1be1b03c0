------------------------------- MODULE MCParts -------------------------------
(***************************************************************************)
(* The parts that share no state with one another, explored together, one  *)
(* at a time: part names the one that moves, and the others stay as they   *)
(* began.  Fairness is that of the part that moves.                        *)
(***************************************************************************)
EXTENDS Spinlock, UserFault, Console, StabSearch, PmapBoot, Spawn, Shell

VARIABLE part

Parts == {"lock", "fault", "console", "stabs", "boot", "spawn", "shell"}

MCInit ==
  /\ part \in Parts
  /\ Init /\ FaultInit /\ ConsInit /\ StabInit /\ BootInit /\ SpawnInit /\ ShInit
  /\ part # "console" => crt_pos = 0

MCNext ==
  \/ /\ part = "lock" /\ Next
     /\ UNCHANGED <<part, faultVars, consVars, stabVars, bootVars, spawnVars, shVars>>
  \/ /\ part = "fault" /\ FaultNext
     /\ UNCHANGED <<part, vars, consVars, stabVars, bootVars, spawnVars, shVars>>
  \/ /\ part = "console" /\ ConsNext
     /\ UNCHANGED <<part, vars, faultVars, stabVars, bootVars, spawnVars, shVars>>
  \/ /\ part = "stabs" /\ StabNext
     /\ UNCHANGED <<part, vars, faultVars, consVars, bootVars, spawnVars, shVars>>
  \/ /\ part = "boot" /\ BootNext
     /\ UNCHANGED <<part, vars, faultVars, consVars, stabVars, spawnVars, shVars>>
  \/ /\ part = "spawn" /\ SpawnNext
     /\ UNCHANGED <<part, vars, faultVars, consVars, stabVars, bootVars, shVars>>
  \/ /\ part = "shell" /\ ShNext
     /\ UNCHANGED <<part, vars, faultVars, consVars, stabVars, bootVars, spawnVars>>

(* The fairness of Spinlock and of Shell, each in its own part.            *)
PartFairness ==
  /\ \A c \in CPUs : /\ WF_vars(part = "lock" /\ (spin_lock(c) \/ spin_unlock(c)))
                     /\ WF_vars(part = "lock" /\ Drain(c))
  /\ \A k \in Procs : /\ WF_shVars(part = "shell" /\ ~ halted /\ runcmd(k))
                      /\ WF_shVars(part = "shell" /\ ~ halted /\ Finish(k))

MCVars ==
  <<part, vars, faultVars, consVars, stabVars, bootVars, spawnVars, shVars>>

MCSpec == MCInit /\ [][MCNext]_MCVars /\ PartFairness

(* The lock never gets lost, in the behaviours that are the lock's         *)
(* (spinlock.c:71).                                                        *)
LockMoves == part = "lock" => LockKeepsMoving
-----------------------------------------------------------------------------
(* Every symbol table of four entries after its header, sorted as the      *)
(* linker sorts them.  Lines may be one byte apart.                        *)
MCEntries ==
  {[n_type |-> "PSYM", n_value |-> 0]}
    \cup [n_type : {"SO", "FUN"}, n_value : {0, 2}]
    \cup [n_type : {"SLINE"}, n_value : {0, 1}]
Sorted(t, type, within) ==
  \A i, j \in DOMAIN t :
    /\ i < j /\ t[i].n_type = type /\ t[j].n_type = type
    /\ \A k \in i .. j : t[k].n_type # within
    => t[i].n_value <= t[j].n_value
WithHeader(u) ==
  [i \in 0 .. LastStab |-> IF i = 0 THEN [n_type |-> "UNDF", n_value |-> 0] ELSE u[i]]
MCTables ==
  {t \in {WithHeader(u) : u \in [1 .. LastStab -> MCEntries]} :
     Sorted(t, "SO", "none") /\ Sorted(t, "FUN", "none") /\ Sorted(t, "SLINE", "FUN")}

(* Machines with base memory only, with every size around the least that   *)
(* boots, with the most that does and one page more, and above 16 MB.      *)
MCSizes ==
  {<<4, e, 0>> : e \in {0, 3} \cup 6 .. 15 \cup {35, 36}} \cup {<<4, 3, e>> : e \in {4, 12}}
MCStacks == [c \in 0 .. NCPU - 1 |-> 7 + c]

Load(va, memsz, filesz, off, w) ==
  [load |-> TRUE, va |-> va, memsz |-> memsz, filesz |-> filesz, off |-> off, w |-> w]
MCPrograms ==
  {<<Load(24, 30, 30, 0, FALSE), Load(101, 45, 20, 29, TRUE)>>,
   <<[Load(24, 24, 24, 0, FALSE) EXCEPT !.load = FALSE], Load(53, 19, 0, 5, TRUE)>>,
   <<Load(24, 48, 25, 24, TRUE)>>}
MCArgLists == {<<>>, <<2>>, <<1, 1>>, <<0, 3>>, <<1, 2>>}

MCLines ==
  {<<>>, <<"|", "x">>, <<"x", "|">>, <<"x", "<">>, <<"x", "|", "x">>,
   <<"x", "|", "x", "|", "x">>, <<"x", "<", "x", "|", "x", ">", "x">>,
   <<"x", " ", "x", " ", "x">>, <<"x", ";">>}
=============================================================================
