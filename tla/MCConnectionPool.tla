-------------------------- MODULE MCConnectionPool --------------------------
(* Model-checking instances of ConnectionPool.                              *)
EXTENDS ConnectionPool, TLC

Symmetry == Permutations(Threads) \cup Permutations(Conns)

=============================================================================
