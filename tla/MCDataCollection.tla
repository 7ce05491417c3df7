--------------------------- MODULE MCDataCollection ---------------------------
(* TLC instances of DataCollection. *)
EXTENDS DataCollection

CONSTANTS a, b, c    \* units

\* Two workloads; the first also runs a unit nobody verifies or waits for.
MCUnit == {a, b, c}
MCUnitsOf == <<<<a, c>>, <<b>>>>
MCNamed == {a, b}

\* One workload of one unit.
MCSingle == {a}
MCSingleOf == <<<<a>>>>
=============================================================================
