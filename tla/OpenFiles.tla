----------------------------- MODULE OpenFiles ------------------------------
(***************************************************************************)
(* What clients are promised of open files: open() makes a description of  *)
(* its own, a file and a position in it; dup, fork and spawn hand the same *)
(* description on; reading and writing move its position on by the bytes   *)
(* they moved; and it lasts as long as some descriptor refers to it.       *)
(*                                                                         *)
(* A transfer is not one step: it moves bytes from the position it finds,  *)
(* and adds their number to the position there is when it is done, where   *)
(* another sharer may have sought meanwhile.  No seek is lost for that.    *)
(***************************************************************************)
EXTENDS Integers

CONSTANTS Clients, Fds, Keys, NoKey, Paths, NoDescription,
          Offsets   \* where programs seek to

VARIABLES ref,    \* ref[c][i]: the key of the description of descriptor i
          desc,   \* desc[k]: the description, if any descriptor refers to it
          size,   \* size[f]: -1 if there is no such file
          moving, \* the transfer under way: its description, and the bytes moved
          stopped \* whether the machine has stopped

vars == <<ref, desc, size, moving, stopped>>

NoTransfer == [key |-> NoKey, bytes |-> 0]

InUse(r, k) == \E c \in Clients, i \in Fds : r[c][i] = k

Init ==
  /\ ref = [c \in Clients |-> [i \in Fds |-> NoKey]]
  /\ desc = [k \in Keys |-> NoDescription]
  /\ size \in [Paths -> Int]
  /\ moving = NoTransfer
  /\ stopped = FALSE

Open(c, i, k, f) ==
  /\ ref[c][i] = NoKey /\ ~ InUse(ref, k) /\ size[f] >= 0
  /\ ref' = [ref EXCEPT ![c][i] = k]
  /\ desc' = [desc EXCEPT ![k] = [file |-> f, pos |-> 0]]
  /\ UNCHANGED <<size, moving, stopped>>

(* Bytes move at the position of k: those of a read are in the file, and a *)
(* write makes the file as long as it takes.                               *)
Transfer(k) ==
  LET f == desc[k].file
      end == desc[k].pos + moving'.bytes
  IN  /\ InUse(ref, k)
      /\ moving = NoTransfer /\ moving' = [key |-> k, bytes |-> moving'.bytes]
      /\ \/ (moving'.bytes = 0 \/ end <= size[f]) /\ UNCHANGED size
         \/ end > size[f] /\ size' = [size EXCEPT ![f] = end]
      /\ UNCHANGED <<ref, desc, stopped>>

(* The position moves by as much, if anybody still refers to it.           *)
Move ==
  LET k == moving.key
  IN  /\ moving # NoTransfer /\ moving' = NoTransfer
      /\ desc' = IF InUse(ref, k) THEN [desc EXCEPT ![k].pos = @ + moving.bytes] ELSE desc
      /\ UNCHANGED <<ref, size, stopped>>

Seek(k) ==
  /\ InUse(ref, k)
  /\ \E off \in Offsets : desc' = [desc EXCEPT ![k].pos = off]
  /\ UNCHANGED <<ref, size, moving, stopped>>

(* A file is made, grows or shrinks.                                       *)
Resize(f) ==
  /\ size' = [size EXCEPT ![f] = size'[f]]
  /\ UNCHANGED <<ref, desc, moving, stopped>>

Dropped(r) == [k \in Keys |-> IF InUse(r, k) THEN desc[k] ELSE NoDescription]

(* dup() and close().                                                      *)
Change(c, i) ==
  /\ ref'[c][i] \in {ref[c][j] : j \in Fds} \cup {NoKey}
  /\ ref' = [ref EXCEPT ![c][i] = ref'[c][i]]
  /\ desc' = Dropped(ref')
  /\ UNCHANGED <<size, moving, stopped>>

(* fork(), and the end of an environment.                                  *)
Fork(c, d) ==
  /\ \A i \in Fds : ref[d][i] = NoKey
  /\ ref' = [ref EXCEPT ![d] = ref[c]]
  /\ UNCHANGED <<desc, size, moving, stopped>>

End(c) ==
  /\ ref' = [ref EXCEPT ![c] = [i \in Fds |-> NoKey]]
  /\ desc' = Dropped(ref')
  /\ UNCHANGED <<size, moving, stopped>>

(* c ends in the middle of fork().  The child, which nobody will ever      *)
(* start, keeps the descriptors it was handed so far.                      *)
Orphan(c, d, n) ==
  /\ c # d /\ \A i \in Fds : ref[d][i] = NoKey
  /\ ref' = [ref EXCEPT ![d] = [i \in Fds |-> IF i < n THEN ref[c][i] ELSE NoKey],
                        ![c] = [i \in Fds |-> NoKey]]
  /\ desc' = Dropped(ref')
  /\ UNCHANGED <<size, moving, stopped>>

(* A panic() stops everybody, whatever is under way.                       *)
Stop ==
  /\ stopped' = TRUE /\ moving' = NoTransfer
  /\ UNCHANGED <<ref, desc, size>>

Next ==
  /\ ~ stopped
  /\ \/ \E c \in Clients, i \in Fds :
          Change(c, i) \/ \E k \in Keys, f \in Paths : Open(c, i, k, f)
     \/ \E c, d \in Clients : Fork(c, d) \/ \E n \in Fds : Orphan(c, d, n)
     \/ \E c \in Clients : End(c)
     \/ \E k \in Keys : Transfer(k) \/ Seek(k)
     \/ Move
     \/ \E f \in Paths : Resize(f)
     \/ Stop

Spec == Init /\ [][Next]_vars
=============================================================================
