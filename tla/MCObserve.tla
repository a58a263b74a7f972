----------------------------- MODULE MCObserve ------------------------------
(* Two threads that do any mixture of jobs.                                *)
EXTENDS Observe

CONSTANTS t1, t2

Symmetry == Permutations({t1, t2})
=============================================================================
