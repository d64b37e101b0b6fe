----------------------------- MODULE MCBookLock -----------------------------
(* Two writers in one process and one in another.                          *)
EXTENDS BookLock
CONSTANTS p, q, a, b, c
TaskProcess == [t \in {a, b, c} |-> IF t = c THEN q ELSE p]
=============================================================================
