----------------------------- MODULE MCFileServer ----------------------------
(* FileServer with two clients that share descriptors, a table of two open *)
(* files and ids that wrap around, on a file with a byte and one that is   *)
(* not there yet.                                                          *)
EXTENDS FileServer

CONSTANTS a, b  \* the paths

MCImage == [f \in Paths |-> IF f = a THEN 1 ELSE -1]

MCOmodes ==
  {[acc |-> "RDONLY", creat |-> FALSE, excl |-> FALSE, trunc |-> FALSE],
   [acc |-> "RDWR", creat |-> TRUE, excl |-> FALSE, trunc |-> TRUE]}

MCSpec == FsSpec /\ FsFairness
=============================================================================
