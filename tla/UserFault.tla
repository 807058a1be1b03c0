----------------------------- MODULE UserFault ------------------------------
(***************************************************************************)
(* Page faults of a user environment: page_fault_handler (kern/trap.c),    *)
(* the upcall (lib/pfentry.S) and set_pgfault_handler (lib/pgfault.c).     *)
(*                                                                         *)
(* The kernel pushes a UTrapframe on the exception stack and starts the    *)
(* upcall there; the upcall calls the C handler and then returns to the    *)
(* point of the fault through one word pushed on the stack that was in use *)
(* then.  The handler may fault itself, and so may that one push, so that  *)
(* frames nest on the exception stack.                                     *)
(*                                                                         *)
(* Addresses count words.  utf_regs is one of them, and eflags goes with   *)
(* it.  The user's stack is in two pages, the lower one not mapped yet.    *)
(* A gap that is never mapped separates it from the exception stack.       *)
(***************************************************************************)
EXTENDS Integers, Sequences

CONSTANTS USTACKTOP,   \* the user stack is 0 .. USTACKTOP - 1,
          UMapped,     \* of which UMapped .. USTACKTOP - 1 are mapped at first
          XBase,       \* UXSTACKTOP - PGSIZE
          UXSTACKTOP,
          Values       \* what registers and words of the stack hold

(* sizeof(struct UTrapframe), and the offsets of its fields.               *)
FRAME == 6
utf_fault_va == 0
utf_regs == 2
utf_eip == 3
utf_esp == 5

ASSUME StackAssumption ==
  /\ {USTACKTOP, UMapped, XBase, UXSTACKTOP} \subseteq Nat
  /\ UMapped < USTACKTOP /\ USTACKTOP + 2 <= XBase /\ XBase + FRAME <= UXSTACKTOP
ASSUME ValueAssumption == Values # {}

VARIABLES cpuState,   \* eip, esp and regs, in user mode
          stackMem,   \* the words of both stacks
          lowMapped,  \* the lower page of the user stack is mapped
          upcall,     \* env_pgfault_upcall is set
          handler,    \* _pgfault_handler: set or not, or the step on the way
          saved,      \* the interrupted states, with their stacks, latest first
          dead        \* the environment was destroyed

faultVars == <<cpuState, stackMem, lowMapped, upcall, handler, saved, dead>>

UserStack == 0 .. USTACKTOP - 1
ExceptionStack == XBase .. UXSTACKTOP - 1

(* A word of the stack or of a register: data, an address of the stack or  *)
(* of code, or the registers of the upcall.                                *)
Data(v) == <<"data", v>>
Address(x) == <<"address", x>>
Code(l) == <<"code", l>>
Nothing == Data(CHOOSE v \in Values : TRUE)

(* The address can be written without a fault.                             *)
IsMapped(a) ==
  \/ a \in UserStack /\ (lowMapped \/ a >= UMapped)
  \/ a \in ExceptionStack /\ handler # "none"

FaultInit ==
  /\ cpuState = [eip |-> "user", esp |-> USTACKTOP, regs |-> Nothing]
  /\ stackMem = [a \in UserStack \cup ExceptionStack |-> Nothing]
  /\ lowMapped = FALSE
  /\ upcall = FALSE
  /\ handler = "none"
  /\ saved = <<>>
  /\ dead = FALSE
-----------------------------------------------------------------------------
(* The program.                                                            *)

At(eip) == ~ dead /\ cpuState.eip = eip
Live(esp) == IF esp \in ExceptionStack THEN esp .. UXSTACKTOP - 1 ELSE esp .. USTACKTOP - 1

(* set_pgfault_handler, the first time: a page for the exception stack,    *)
(* the upcall, and the handler.                                            *)
set_pgfault_handler ==
  /\ At("user")
  /\ \/ handler = "none" /\ handler' = "stack" /\ UNCHANGED upcall
     \/ handler = "stack" /\ ~ upcall /\ upcall' = TRUE /\ UNCHANGED handler
     \/ upcall /\ handler' = "set" /\ UNCHANGED upcall
  /\ UNCHANGED <<cpuState, stackMem, lowMapped, saved, dead>>

(* It pushes a word, or pops one into its registers.                       *)
push(v) ==
  /\ At("user") /\ cpuState.esp > 0 /\ IsMapped(cpuState.esp - 1)
  /\ stackMem' = [stackMem EXCEPT ![cpuState.esp - 1] = Data(v)]
  /\ cpuState' = [cpuState EXCEPT !.esp = @ - 1]
  /\ UNCHANGED <<lowMapped, upcall, handler, saved, dead>>

pop ==
  /\ At("user") /\ cpuState.esp < USTACKTOP
  /\ cpuState' = [cpuState EXCEPT !.esp = @ + 1, !.regs = stackMem[cpuState.esp]]
  /\ UNCHANGED <<stackMem, lowMapped, upcall, handler, saved, dead>>
-----------------------------------------------------------------------------
(* The kernel.                                                             *)

(* A variant that does not see that the exception stack is in use.         *)
FrameAt_top(esp) == UXSTACKTOP - FRAME

(* Where the frame goes: below the stack in use, with one word to spare,   *)
(* if that is the exception stack already, or at its top.                  *)
FrameAt(esp) == IF esp \in ExceptionStack THEN esp - FRAME - 1 ELSE UXSTACKTOP - FRAME

(* Without an upcall, or without room for the frame, env_destroy.          *)
page_fault_handler(va) ==
  LET u == FrameAt(cpuState.esp)
  IN  IF upcall /\ \A a \in u .. u + FRAME - 1 : a \in ExceptionStack
      THEN /\ stackMem' = [stackMem EXCEPT ![u + utf_fault_va] = va,
                                           ![u + utf_regs] = cpuState.regs,
                                           ![u + utf_eip] = Code(cpuState.eip),
                                           ![u + utf_esp] = Address(cpuState.esp)]
           /\ saved' = <<[cpu |-> cpuState,
                          stack |-> [a \in Live(cpuState.esp) |-> stackMem[a]]]>> \o saved
           /\ cpuState' = [cpuState EXCEPT !.eip = "upcall", !.esp = u]
           /\ UNCHANGED <<lowMapped, upcall, handler, dead>>
      ELSE dead' = TRUE /\ UNCHANGED <<cpuState, stackMem, lowMapped, upcall, handler, saved>>

(* The fault: of the program or the handler, on some page; of a push to a  *)
(* page that is not mapped; of a jump to a handler that is not there.      *)
Fault ==
  /\ ~ dead
  /\ \/ cpuState.eip \in {"user", "handler"} /\ page_fault_handler(Nothing)
     \/ /\ cpuState.eip = "user" /\ cpuState.esp > 0 /\ ~ IsMapped(cpuState.esp - 1)
        /\ page_fault_handler(Address(cpuState.esp - 1))
     \/ /\ cpuState.eip = "upcall" /\ ~ IsMapped(cpuState.esp - 2)
        /\ page_fault_handler(Address(cpuState.esp - 1))
     \/ /\ cpuState.eip = "store" /\ ~ IsMapped(cpuState.regs[2])
        /\ page_fault_handler(Address(cpuState.regs[2]))
     \/ cpuState.eip = "null" /\ page_fault_handler(Nothing)
-----------------------------------------------------------------------------
(* The upcall.                                                             *)

(* Push the argument, and call what _pgfault_handler holds.                *)
call_handler ==
  /\ At("upcall") /\ IsMapped(cpuState.esp - 2)
  /\ stackMem' = [stackMem EXCEPT ![cpuState.esp - 1] = Address(cpuState.esp),
                                  ![cpuState.esp - 2] = Code("unwind")]
  /\ cpuState' = [cpuState EXCEPT !.esp = @ - 2,
                                  !.eip = IF handler = "set" THEN "handler" ELSE "null"]
  /\ UNCHANGED <<lowMapped, upcall, handler, saved, dead>>

(* The handler maps the page that was missing, and returns.                *)
handler_return ==
  LET u == stackMem[cpuState.esp + 1][2]
      va == stackMem[u + utf_fault_va]
  IN  /\ At("handler")
      /\ lowMapped' = (lowMapped \/ (va[1] = "address" /\ va[2] \in UserStack))
      /\ cpuState' = [cpuState EXCEPT !.eip = stackMem[cpuState.esp][2], !.esp = @ + 2]
      /\ UNCHANGED <<stackMem, upcall, handler, saved, dead>>

(* %ecx is where the trap-time eip goes, %eax is that eip.                 *)
unwind ==
  LET u == cpuState.esp
      ecx == stackMem[u + utf_esp][2] - 1
  IN  /\ At("unwind")
      /\ stackMem' = [stackMem EXCEPT ![u + utf_esp] = Address(ecx)]
      /\ cpuState' = [cpuState EXCEPT !.eip = "store",
                                      !.regs = <<"upcall", ecx, stackMem[u + utf_eip]>>]
      /\ UNCHANGED <<lowMapped, upcall, handler, saved, dead>>

store ==
  /\ At("store") /\ IsMapped(cpuState.regs[2])
  /\ stackMem' = [stackMem EXCEPT ![cpuState.regs[2]] = cpuState.regs[3]]
  /\ cpuState' = [cpuState EXCEPT !.eip = "restore"]
  /\ UNCHANGED <<lowMapped, upcall, handler, saved, dead>>

(* popal, popfl, popl %esp and ret.                                        *)
restore ==
  LET u == cpuState.esp
      esp == stackMem[u + utf_esp][2]
  IN  /\ At("restore")
      /\ cpuState' = [eip |-> stackMem[esp][2], esp |-> esp + 1, regs |-> stackMem[u + utf_regs]]
      /\ saved' = Tail(saved)
      /\ UNCHANGED <<stackMem, lowMapped, upcall, handler, dead>>
-----------------------------------------------------------------------------
FaultNext ==
  \/ set_pgfault_handler \/ pop \/ Fault
  \/ \E v \in Values : push(v)
  \/ call_handler \/ handler_return \/ unwind \/ store \/ restore

FaultSpec == FaultInit /\ [][FaultNext]_faultVars
-----------------------------------------------------------------------------
(* A page fault leaves no trace in the code it interrupts, whether that is *)
(* the program, the handler, or the upcall on its way out: it resumes with *)
(* its own eip, esp and registers, and every word of its stack in place    *)
(* (pfentry.S:44-62, trap.c:411-418).                                      *)
FaultIsInvisible ==
  [][cpuState.eip = "restore" =>
       /\ cpuState' = saved[1].cpu
       /\ \A a \in DOMAIN saved[1].stack : stackMem'[a] = saved[1].stack[a]]_cpuState
=============================================================================
