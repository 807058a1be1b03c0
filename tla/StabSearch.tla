----------------------------- MODULE StabSearch -----------------------------
(***************************************************************************)
(* Debugging information: stab_binsearch and debuginfo_eip of              *)
(* kern/kdebug.c, which the kernel monitor's backtrace uses.               *)
(*                                                                         *)
(* One step is one turn of the loop of stab_binsearch, or what             *)
(* debuginfo_eip does between two searches: for the source file, for the   *)
(* function in it, and for the line in that.  Names are the indices of     *)
(* the stabs they come from.                                               *)
(***************************************************************************)
EXTENDS Integers, FiniteSets, FiniteSetsExt

CONSTANTS LastStab,   \* the index of the last stab
          Tables,     \* tables of stabs
          Addresses

ASSUME StabTableAssumption ==
  LastStab \in Nat /\ \A t \in Tables :
    t \in [0 .. LastStab -> [n_type : {"UNDF", "SO", "SOL", "FUN", "SLINE", "PSYM"}, n_value : Nat]]
ASSUME AddressAssumption == Addresses \subseteq Nat

(* No source file and no function is one byte long: after an exact match   *)
(* stab_binsearch goes on with addr + 1, and would take a stab at addr + 1 *)
(* for a match too.  Lines may be one byte apart, and often are.           *)
ASSUME SpacedAssumption ==
  \A t \in Tables : \A i, j \in DOMAIN t :
    t[i].n_type = t[j].n_type /\ t[i].n_type \in {"SO", "FUN"}
      => t[j].n_value # t[i].n_value + 1

(* The linker puts a header first, and "Some stab types are arranged in    *)
(* increasing order by instruction address" (kdebug.c:25).                 *)
ASSUME SortedAssumption ==
  \A t \in Tables :
    /\ t[0].n_type = "UNDF"
    /\ \A i, j \in DOMAIN t :
         i < j /\ t[i].n_type = t[j].n_type /\ t[i].n_type \in {"SO", "FUN"}
           => t[i].n_value <= t[j].n_value

VARIABLES stabs, eip,  \* the table and the address looked up
          search,      \* the call of stab_binsearch under way
          found,       \* lfile, rfile, lfun, rfun of debuginfo_eip
          info         \* what it has filled in, and whether it has returned

stabVars == <<stabs, eip, search, found, info>>

(* A call of stab_binsearch on the region lo .. hi.                        *)
Call(type, lo, hi, addr) ==
  [type |-> type, l |-> lo, r |-> hi, region_left |-> lo, region_right |-> hi,
   any_matches |-> FALSE, addr |-> addr, done |-> FALSE]

NoInfo == [stage |-> "idle", fn |-> -1, fn_addr |-> 0, line |-> -1, file |-> -1, narg |-> 0]

StabInit ==
  /\ stabs = CHOOSE t \in Tables : TRUE
  /\ eip = 0
  /\ search = [Call("SO", 0, LastStab, 0) EXCEPT !.done = TRUE]
  /\ found = [lfile |-> 0, rfile |-> 0, lfun |-> 0, rfun |-> 0]
  /\ info = NoInfo
-----------------------------------------------------------------------------
(* stab_binsearch.                                                         *)

Matches(lo, hi) == {i \in lo .. hi : stabs[i].n_type = search.type}
true_m == (search.l + search.r) \div 2

(* A variant that cuts the region at m instead of before it.               *)
compare_off_by_one(m) ==
  IF stabs[m].n_value < search.addr
  THEN [search EXCEPT !.region_left = m, !.l = true_m + 1, !.any_matches = TRUE]
  ELSE IF stabs[m].n_value > search.addr
  THEN [search EXCEPT !.region_right = m, !.r = m - 1, !.any_matches = TRUE]
  ELSE [search EXCEPT !.region_left = m, !.l = m, !.addr = @ + 1, !.any_matches = TRUE]

(* An exact match goes on to look for the right end of the region.         *)
compare(m) ==
  IF stabs[m].n_value < search.addr
  THEN [search EXCEPT !.region_left = m, !.l = true_m + 1, !.any_matches = TRUE]
  ELSE IF stabs[m].n_value > search.addr
  THEN [search EXCEPT !.region_right = m - 1, !.r = m - 1, !.any_matches = TRUE]
  ELSE [search EXCEPT !.region_left = m, !.l = m, !.addr = @ + 1, !.any_matches = TRUE]

halve ==
  /\ ~ search.done /\ search.l <= search.r
  /\ search' = IF Matches(search.l, true_m) = {}
               THEN [search EXCEPT !.l = true_m + 1]
               ELSE compare(Max(Matches(search.l, true_m)))
  /\ UNCHANGED <<stabs, eip, found, info>>

(* The loop is over; from the right end back to the nearest match.         *)
finish ==
  /\ ~ search.done /\ search.l > search.r
  /\ search' =
       [search EXCEPT
          !.done = TRUE,
          !.region_right = IF search.any_matches THEN @ ELSE search.region_left - 1,
          !.region_left = IF search.any_matches /\ search.region_right >= @
                          THEN Max(Matches(@ + 1, search.region_right) \cup {@})
                          ELSE IF search.any_matches THEN search.region_right ELSE @]
  /\ UNCHANGED <<stabs, eip, found, info>>
-----------------------------------------------------------------------------
(* debuginfo_eip.                                                          *)

(* It begins: the address belongs to the kernel or to a program, each with *)
(* its own table, which the program may not have.                          *)
debuginfo_eip(t, addr) ==
  /\ stabs' = t /\ eip' = addr
  /\ \/ /\ search' = Call("SO", 0, LastStab, addr)
        /\ info' = [NoInfo EXCEPT !.stage = "file", !.fn_addr = addr]
     \/ /\ info' = [NoInfo EXCEPT !.stage = "error", !.fn_addr = addr]
        /\ UNCHANGED search
  /\ UNCHANGED found

Finished(stage) == search.done /\ info.stage = stage

file_found ==
  /\ Finished("file")
  /\ IF search.region_left = 0
     THEN info' = [info EXCEPT !.stage = "error"] /\ UNCHANGED <<search, found>>
     ELSE /\ info' = [info EXCEPT !.stage = "function"]
          /\ found' = [found EXCEPT !.lfile = search.region_left, !.rfile = search.region_right]
          /\ search' = Call("FUN", search.region_left, search.region_right, eip)
  /\ UNCHANGED <<stabs, eip>>

(* Lines are relative to their function, if there is one.                  *)
function_found ==
  LET lfun == search.region_left
  IN  /\ Finished("function")
      /\ found' = [found EXCEPT !.lfun = lfun, !.rfun = search.region_right]
      /\ IF lfun <= search.region_right
         THEN /\ info' = [info EXCEPT !.stage = "line", !.fn = lfun, !.fn_addr = stabs[lfun].n_value]
              /\ search' = Call("SLINE", lfun, search.region_right, eip - stabs[lfun].n_value)
         ELSE /\ info' = [info EXCEPT !.stage = "line"]
              /\ search' = Call("SLINE", found.lfile, found.rfile, eip)
      /\ UNCHANGED <<stabs, eip>>

NamesFile(i) == stabs[i].n_type = "SOL" \/ (stabs[i].n_type = "SO" /\ stabs[i].n_value # 0)

(* The file is the nearest one named before the line; the arguments are    *)
(* the N_PSYM stabs right after the function.                              *)
line_found ==
  LET lline == search.region_left
      files == {i \in found.lfile .. lline : NamesFile(i)}
      args == {i \in found.lfun + 1 .. found.rfun - 1 :
                 \A j \in found.lfun + 1 .. i : stabs[j].n_type = "PSYM"}
  IN  /\ Finished("line")
      /\ info' = [info EXCEPT !.stage = "done",
                              !.line = IF lline <= search.region_right THEN lline ELSE @,
                              !.file = IF files = {} THEN @ ELSE Max(files),
                              !.narg = Cardinality(args)]
      /\ UNCHANGED <<stabs, eip, search, found>>

StabNext ==
  \/ info.stage = "idle" /\ \E t \in Tables, addr \in Addresses : debuginfo_eip(t, addr)
  \/ halve \/ finish \/ file_found \/ function_found \/ line_found

StabSpec == StabInit /\ [][StabNext]_stabVars
-----------------------------------------------------------------------------
(* The stabs of a type in a region that start at or before addr.           *)
Before(type, lo, hi, addr) ==
  {i \in lo .. hi : stabs[i].n_type = type /\ stabs[i].n_value <= addr}
FirstAfter(type, lo, hi) == {i \in lo .. hi : stabs[i].n_type = type}

(* The search ends with the last stab of its type at or before the         *)
(* address, and with the stab before the next one, wherever the stabs of   *)
(* other types are in between (kdebug.c:39-43).  So the monitor reports    *)
(* the last function that starts at or before eip in the file, and never   *)
(* one that starts after it.                                               *)
FunctionRight ==
  /\ info.stage # "error" => info.fn_addr <= eip
  /\ info.stage \in {"line", "done"} =>
       LET starts == Before("FUN", found.lfile, found.rfile, eip)
       IN  starts # {} =>
             /\ info.fn = Max(starts)
             /\ found.rfun = Min(FirstAfter("FUN", info.fn + 1, found.rfile) \cup {found.rfile + 1}) - 1
=============================================================================
