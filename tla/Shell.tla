-------------------------------- MODULE Shell --------------------------------
(***************************************************************************)
(* The shell (user/sh.c): one command line, from gettoken through runcmd   *)
(* to the end of every command of its pipeline.                            *)
(*                                                                         *)
(* Process 1 is the child umain forks for the line, and the only one it    *)
(* waits for.  A process that meets a '|' makes a pipe, forks another      *)
(* process for the rest of the line, and runs what it has read so far.     *)
(* Process k spawns command k, with a copy of its descriptors.             *)
(* Descriptors hold the console, a file, or an end of a pipe, which is     *)
(* named after the process forked at its '|'.  What dup, close, pipe, fork *)
(* and spawn do inside is in FileServer, Pipe, CowFork and Spawn.          *)
(*                                                                         *)
(* Characters: a space, the symbols, and x for any part of a word.         *)
(***************************************************************************)
EXTENDS Integers, Sequences, FiniteSets

CONSTANTS CommandLines,  \* sequences of characters
          MaxProcs,      \* environments there are for processes in runcmd
          NFD,           \* descriptors of a process
          MAXARGS

ASSUME ShellAssumption == MaxProcs \in Nat \ {0} /\ NFD \in Nat \ {0, 1} /\ MAXARGS \in Nat
ASSUME LineAssumption == CommandLines \subseteq Seq({" ", "<", ">", "|", ";", "x"})

Procs == 1 .. MaxProcs
Numbers == 0 .. NFD - 1

VARIABLES proc,     \* the processes in runcmd
          command,  \* command[k]: the program process k has spawned
          halted    \* a panic has stopped the machine

shVars == <<proc, command, halted>>

Object(kind, k) == [kind |-> kind, pipe |-> k]
NoFile == Object("none", 0)
Console0 == [i \in Numbers |-> IF i <= 1 THEN Object("console", 0) ELSE NoFile]
NoFiles == [i \in Numbers |-> NoFile]

(* A process's copy of the line, and where it is in it.                    *)
NoProc ==
  [at |-> "none", text |-> <<>>, s |-> 1, argc |-> 0, fds |-> NoFiles, pipe |-> 0, pipe_child |-> 0]
NoCommand == [runs |-> FALSE, fds |-> NoFiles]

ShInit ==
  /\ proc = [k \in Procs |-> NoProc]
  /\ command = [k \in Procs |-> NoCommand]
  /\ halted = FALSE

(* umain reads a line, forks and waits for the child, not for what the     *)
(* child leaves behind.  It panics when it cannot fork.                    *)
umain(t) ==
  /\ proc[1].at = "none"
  /\ \/ /\ proc' = [proc EXCEPT ![1] = [NoProc EXCEPT !.at = "parse", !.text = t, !.fds = Console0]]
        /\ UNCHANGED <<command, halted>>
     \/ halted' = TRUE /\ UNCHANGED <<proc, command>>
-----------------------------------------------------------------------------
(* Tokens.                                                                 *)

Symbols == {"<", ">", "|", ";"}
Least(S) == CHOOSE i \in S : \A j \in S : i <= j

(* _gettoken from position s: the token, "w" for a word and "0" at the     *)
(* end, and where it ends.                                                 *)
_gettoken(text, s) ==
  LET start == Least({i \in s .. Len(text) : text[i] # " "} \cup {Len(text) + 1})
      stop == Least({i \in start .. Len(text) : text[i] \in Symbols \cup {" "}} \cup {Len(text) + 1})
  IN  IF start > Len(text) THEN [t |-> "0", next |-> start]
      ELSE IF text[start] \in Symbols THEN [t |-> text[start], next |-> start + 1]
      ELSE [t |-> "w", next |-> stop]

gettoken(k) == _gettoken(proc[k].text, proc[k].s)
Parsing(k, t) == proc[k].at = "parse" /\ gettoken(k).t = t
RestOf(k) == gettoken(k).next
-----------------------------------------------------------------------------
(* runcmd.                                                                 *)

(* exit closes everything.  Whoever waits for k by its environment id sees *)
(* that the id is gone, even when the slot is used again.                  *)
exit_process(k) ==
  /\ proc' = [j \in Procs |->
               IF j = k THEN NoProc
               ELSE IF proc[j].pipe_child = k THEN [proc[j] EXCEPT !.pipe_child = 0]
               ELSE proc[j]]
  /\ UNCHANGED <<command, halted>>

argument(k) ==
  /\ Parsing(k, "w")
  /\ IF proc[k].argc = MAXARGS
     THEN exit_process(k)
     ELSE /\ proc' = [proc EXCEPT ![k].argc = @ + 1, ![k].s = RestOf(k)]
          /\ UNCHANGED <<command, halted>>

FreeFd(fds, n) == fds[n] = NoFile /\ \A m \in 0 .. n - 1 : fds[m] # NoFile

(* fds after n was opened for file f and, unless it is std already, was    *)
(* moved there by dup and close.  dup of an open descriptor cannot fail:   *)
(* the table that maps it maps every descriptor and its data, in one 4 MB  *)
(* (lib/fd.c:8-16), so sys_page_map needs no memory.                       *)
Redirected(fds, n, f, std) == IF n = std THEN [fds EXCEPT ![n] = f] ELSE [fds EXCEPT ![std] = f]

(* '<' and '>': a word must follow, and the file must open.                *)
redirect(k, sym, std) ==
  LET word == _gettoken(proc[k].text, RestOf(k))
  IN  /\ Parsing(k, sym)
      /\ \/ exit_process(k)
         \/ /\ word.t = "w"
            /\ \E n \in Numbers :
                 /\ FreeFd(proc[k].fds, n)
                 /\ proc' = [proc EXCEPT ![k].fds = Redirected(@, n, Object("file", 0), std),
                                         ![k].s = word.next]
            /\ UNCHANGED <<command, halted>>

Close(fds, S) == [i \in Numbers |-> IF i \in S THEN NoFile ELSE fds[i]]

(* The ends of the pipe at p0 and p1 of both processes: dup, close, close. *)
(* A variant in which the right-hand side keeps the write end.             *)
Right_keeps(fds, p0, p1) == Close([fds EXCEPT ![0] = fds[p0]], {p0} \ {0})

Right(fds, p0, p1) == Close([fds EXCEPT ![0] = fds[p0]], ({p0} \ {0}) \cup {p1})

Left(fds, p0, p1) == Close([fds EXCEPT ![1] = fds[p1]], ({p1} \ {1}) \cup {p0})

Holds(end) ==
  \/ \E k \in Procs, i \in Numbers : proc[k].fds[i] = end
  \/ \E k \in Procs, i \in Numbers : command[k].fds[i] = end

(* An environment, and the name of a pipe, that nobody uses.               *)
Unused(j) ==
  /\ proc[j].at = "none"
  /\ ~ Holds(Object("read", j))
  /\ ~ Holds(Object("write", j))

(* '|': pipe and fork, each of which may fail, fork with a panic; the      *)
(* child first has everything the parent has.                              *)
pipe_fork(k) ==
  /\ Parsing(k, "|")
  /\ \/ exit_process(k)
     \/ halted' = TRUE /\ UNCHANGED <<proc, command>>
     \/ \E p0, p1 \in Numbers, j \in Procs \ {1} :
          LET fds == [proc[k].fds EXCEPT ![p0] = Object("read", j), ![p1] = Object("write", j)]
          IN  /\ Unused(j)
              /\ FreeFd(proc[k].fds, p0)
              /\ FreeFd([proc[k].fds EXCEPT ![p0] = Object("read", j)], p1)
              /\ proc' = [proc EXCEPT
                            ![k] = [@ EXCEPT !.at = "left", !.fds = fds, !.pipe = j, !.pipe_child = j],
                            ![j] = [NoProc EXCEPT !.at = "right", !.text = proc[k].text,
                                                  !.s = RestOf(k), !.fds = fds, !.pipe = j]]
              /\ UNCHANGED <<command, halted>>

(* One step, though it is three calls: until the last of them the process  *)
(* holds more ends than after, and others that see it can only wait.       *)
rewire(k) ==
  /\ proc[k].at \in {"left", "right"}
  /\ LET pipe == proc[k].pipe
         p0 == Least({i \in Numbers : proc[k].fds[i] = Object("read", pipe)})
         p1 == Least({i \in Numbers : proc[k].fds[i] = Object("write", pipe)})
     IN  proc' = [proc EXCEPT
                    ![k] = IF @.at = "left"
                           THEN [@ EXCEPT !.at = "runit", !.fds = Left(@, p0, p1)]
                           ELSE [@ EXCEPT !.at = "parse", !.fds = Right(@, p0, p1)]]
  /\ UNCHANGED <<command, halted>>

end_of_line(k) ==
  /\ Parsing(k, "0")
  /\ proc' = [proc EXCEPT ![k].at = "runit"]
  /\ UNCHANGED <<command, halted>>

(* Any other symbol: "bad return %d from gettoken".                        *)
bad_token(k) == Parsing(k, ";") /\ halted' = TRUE /\ UNCHANGED <<proc, command>>

(* runit: spawn, which may fail, and close_all; nothing for an empty line. *)
spawn(k) ==
  /\ proc[k].at = "runit"
  /\ IF proc[k].argc = 0
     THEN exit_process(k)
     ELSE /\ \/ command' = [command EXCEPT ![k] = [runs |-> TRUE, fds |-> proc[k].fds]]
             \/ UNCHANGED command
          /\ proc' = [proc EXCEPT ![k].at = "wait", ![k].fds = NoFiles]
          /\ UNCHANGED halted

(* wait for the command, then for the process after the '|', and exit.     *)
wait(k) ==
  /\ proc[k].at = "wait"
  /\ ~ command[k].runs
  /\ proc[k].pipe_child = 0
  /\ exit_process(k)
-----------------------------------------------------------------------------
(* Commands.                                                               *)

(* A command has nothing more to wait for: its input ends, or is no pipe;  *)
(* its output is taken by a command, or by nobody any more, or is no pipe. *)
InputEnds(fds) == fds[0].kind = "read" => ~ Holds(Object("write", fds[0].pipe))
OutputGoes(fds) ==
  fds[1].kind = "write" =>
    \/ ~ Holds(Object("read", fds[1].pipe))
    \/ \E j \in Procs : command[j].runs /\ command[j].fds[0] = Object("read", fds[1].pipe)

End(k) ==
  /\ command[k].runs
  /\ command' = [command EXCEPT ![k] = NoCommand]
  /\ UNCHANGED <<proc, halted>>

Finish(k) == InputEnds(command[k].fds) /\ OutputGoes(command[k].fds) /\ End(k)
-----------------------------------------------------------------------------
runcmd(k) ==
  \/ argument(k) \/ redirect(k, "<", 0) \/ redirect(k, ">", 1)
  \/ pipe_fork(k) \/ rewire(k) \/ end_of_line(k) \/ bad_token(k)
  \/ spawn(k) \/ wait(k)

(* A command may also end before it has read and written everything.       *)
ShNext ==
  /\ ~ halted
  /\ \/ \E t \in CommandLines : umain(t)
     \/ \E k \in Procs : runcmd(k) \/ End(k)

ShSpec == ShInit /\ [][ShNext]_shVars

(* The scheduler gives every process its turn, and a command that waits    *)
(* for nobody else in its pipeline ends.                                   *)
ShFairness ==
  \A k \in Procs : WF_shVars(~ halted /\ runcmd(k)) /\ WF_shVars(~ halted /\ Finish(k))
-----------------------------------------------------------------------------
(* Every process and every command of a pipeline ends, so the prompt comes *)
(* back: none waits for ever for another, whatever fails on the way,       *)
(* because nobody keeps an end of a pipe that it does not use              *)
(* (sh.c:99-113, and close_all at sh.c:161).                               *)
PipelineFinishes ==
  \A k \in Procs :
    (proc[k].at # "none" \/ command[k].runs)
      ~> (halted \/ (proc[k].at = "none" /\ ~ command[k].runs))
=============================================================================
