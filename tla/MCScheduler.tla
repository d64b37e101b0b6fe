---------------------------- MODULE MCScheduler ----------------------------
(* Two books, the daemon and one interactive caller.                       *)
EXTENDS Scheduler, TLC
CONSTANTS b1, b2
AnyBook == Permutations(Books)
=============================================================================
