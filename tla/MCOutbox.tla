------------------------------ MODULE MCOutbox ------------------------------
(* Small instances of Outbox: two calls of the worker, one or two chapters *)
(* and operator appends.  The calls are interchangeable.                   *)
EXTENDS Outbox, TLC
CONSTANTS w1, w2
AnyOrder == Permutations(Workers)
=============================================================================
