------------------------------- MODULE Files --------------------------------
(***************************************************************************)
(* What the file system promises its clients: every file is a size and a   *)
(* sequence of words of its own.  A word never written is 0.  Shrinking a  *)
(* file drops whole blocks; what lies behind the new end in the last block *)
(* stays, and is seen again when the file grows.  A file may be given a    *)
(* size it has no room for; the words behind its last block are never      *)
(* written, and a read that comes to them fails.                           *)
(***************************************************************************)
EXTENDS Integers, Sequences

CONSTANTS Names, NoName, Values, BLKSIZE, Words, MaxSize

VARIABLES size,    \* size[n]: the size of the file n, -1 if there is none
          word,    \* word[n][p]: the p'th word of n
          call,    \* the request served last, and the words it read
          up       \* FALSE when the server has stopped

vars == <<size, word, call, up>>

(* Whatever the disk holds to begin with.                                  *)
Init ==
  /\ size \in [Names -> -1 .. Words]
  /\ word \in [Names -> [1 .. Words -> Values \cup {0}]]
  /\ call.op = "none"
  /\ up = TRUE

(* The request is done, or the server stops before it is.                  *)
Create(n) ==
  /\ call'.op = "create" /\ call'.name = n
  /\ \/ size' = [size EXCEPT ![n] = IF @ = -1 THEN 0 ELSE @]
     \/ ~ up' /\ UNCHANGED size
  /\ UNCHANGED word

(* The end of the last block a file of size l needs.                       *)
BlockEnd(l) == BLKSIZE * ((l + BLKSIZE - 1) \div BLKSIZE)

SetSize(n, l) ==
  /\ call'.op = "set_size" /\ call'.name = n /\ call'.offset = l /\ up'
  /\ size' = [size EXCEPT ![n] = l]
  /\ word' = [word EXCEPT ![n] = [p \in 1 .. Words |->
                                    IF l < size[n] /\ p > BlockEnd(l) THEN 0 ELSE @[p]]]

(* The file grows first: when the write ends early, the size is already    *)
(* that of the end.                                                        *)
Write(n, v, count, offset) ==
  LET last == offset + count
      Fill(end) == [p \in 1 .. Words |-> IF p \in offset + 1 .. end THEN v ELSE word[n][p]]
  IN  /\ call'.op = "write" /\ call'.name = n
      /\ call'.value = v /\ call'.count = count /\ call'.offset = offset
      /\ size' = [size EXCEPT ![n] = IF @ < last THEN last ELSE @]
      /\ \/ word' = [word EXCEPT ![n] = Fill(last)]
         \/ ~ up' /\ \E end \in offset .. last - 1 : word' = [word EXCEPT ![n] = Fill(end)]

(* A read gets the words of the file from its offset on, up to its end.    *)
Read(n, count, offset) ==
  LET end == IF offset + count < size[n] THEN offset + count ELSE size[n]
  IN  /\ call'.op = "read" /\ call'.name = n
      /\ call'.count = count /\ call'.offset = offset
      /\ call'.buf = IF up' /\ end <= Words THEN SubSeq(word[n], offset + 1, end) ELSE <<>>
      /\ UNCHANGED <<size, word>>

(* The disk is no matter of this specification.                            *)
Flush == call'.op \in {"flush", "sync"} /\ up' /\ UNCHANGED <<size, word>>

Next ==
  /\ up = TRUE
  /\ \/ Flush
     \/ \E n \in Names : Create(n)
     \/ \E n \in {m \in Names : size[m] # -1}, i \in 0 .. MaxSize :
          \/ SetSize(n, i)
          \/ \E c \in 0 .. MaxSize : Read(n, c, i) \/ \E v \in Values : Write(n, v, c, i)

Spec == Init /\ [][Next]_vars
=============================================================================
