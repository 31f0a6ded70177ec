---------------------------- MODULE MCThreadPool ----------------------------
(* Model-checking instance of ThreadPool.  No symmetry: the run checks a    *)
(* liveness property.                                                       *)
EXTENDS ThreadPool

=============================================================================
