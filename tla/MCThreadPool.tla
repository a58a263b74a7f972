---------------------------- MODULE MCThreadPool ----------------------------
(* A small instance of ThreadPool: the first start rejects what does not   *)
(* fit, the second has the caller run it.  There is no symmetry, because it *)
(* is unsound for liveness.                                                *)
EXTENDS ThreadPool

MCCallerRuns == <<FALSE, TRUE>>
=============================================================================
