------------------------------- MODULE MCHarness -------------------------------
(* Two pools in the order of the command line, a host of three cores, for TLC. *)
EXTENDS Harness

CONSTANTS ckpool, pogolo

TwoPools == <<ckpool, pogolo>>
OnePool == <<ckpool>>

ThreeCores == 0 .. 2
NodeCores == {0}
\* one core, then a cpuset that leaves none for the load generator
SomeCoreLists == {<<{1}, {2}>>, <<{1}, {1, 2}>>}
===============================================================================
