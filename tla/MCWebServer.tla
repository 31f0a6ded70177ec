---------------------------- MODULE MCWebServer ----------------------------
(* Model-checking instances of WebServer.                                   *)
EXTENDS WebServer, TLC

Symmetry == Permutations(Conns) \cup Permutations(Fds) \cup Permutations(Workers)

=============================================================================
