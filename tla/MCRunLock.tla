------------------------------ MODULE MCRunLock ------------------------------
(***************************************************************************)
(* Two processes, one of which makes two overlapping calls: contention     *)
(* inside a process and between processes.                                 *)
(***************************************************************************)
EXTENDS RunLock

CONSTANTS c1, c2, c3, p1, p2

MCProcessOf == [c \in Caller |-> IF c = c3 THEN p2 ELSE p1]
=============================================================================
