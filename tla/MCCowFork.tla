----------------------------- MODULE MCCowFork -----------------------------
(* Pages named after their place in memory, in the order of the addresses. *)
EXTENDS CowFork

CONSTANTS pftemp, text, data, share, stack, xstack

Layout == <<pftemp, text, data, share, stack, xstack>>
=============================================================================
