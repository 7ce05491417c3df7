------------------------- MODULE MCMigrationDispatch -------------------------
(* TLC instances of MigrationDispatch. *)
EXTENDS MigrationDispatch, TLC

\* Invocations are interchangeable, and so are boxes.
Symmetry == Permutations(Invocation) \cup Permutations(Box)
=============================================================================
