----------------------------- MODULE MCWorkAudit -----------------------------
(* WorkAudit for TLC.  Extranonce1s, works, job ids and difficulties are   *)
(* only ever compared for equality, so each is a symmetry set.             *)
EXTENDS WorkAudit, TLC

Symmetry ==
    Permutations(Conns) \cup Permutations(Extranonce1s)
        \cup Permutations(Works) \cup Permutations(JobIds) \cup Permutations(Diffs)
=============================================================================
