---------------------------- MODULE MCHeapTimer ----------------------------
(* Model-checking instances of HeapTimer.  No symmetry: the run checks      *)
(* liveness properties.                                                     *)
EXTENDS HeapTimer

=============================================================================
