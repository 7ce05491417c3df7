------------------------- MODULE MCUniverseMigration -------------------------
(* TLC instances of UniverseMigration. *)
EXTENDS UniverseMigration, TLC

\* The members of each set are interchangeable.
Symmetry == Permutations(Symbol) \cup Permutations(Runner)
               \cup Permutations(Producer)
=============================================================================
