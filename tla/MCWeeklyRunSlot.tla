--------------------------- MODULE MCWeeklyRunSlot ---------------------------
(* TLC instances of WeeklyRunSlot and WeeklyRerun. *)
EXTENDS WeeklyRerun, TLC

\* Executions are interchangeable, and so are rerun invocations.
Symmetry == Permutations(Execution) \cup Permutations(Rerun)
=============================================================================
