--------------------------- MODULE MCUserRegistry ---------------------------
(* Model-checking instances of UserRegistry.                                *)
EXTENDS UserRegistry

=============================================================================
