------------------------------ MODULE MCJobBoard ------------------------------
(* JobBoard for TLC: all workers of a small pool run.                       *)
EXTENDS JobBoard

AllWorkers == 0 .. NumWorkers - 1
=============================================================================
