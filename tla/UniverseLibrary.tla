--------------------------- MODULE UniverseLibrary ---------------------------
(***************************************************************************)
(* What the universe library promises whoever reads it, without the boxes, *)
(* the pipelines and what each of them remembers.  The library is at a     *)
(* `level`, every symbol has at least that level's columns, and it only    *)
(* ever grows: rows are added to it, a symbol is rewritten with the rows   *)
(* it has, the level rises by one once the last symbol is there.           *)
(***************************************************************************)
EXTENDS Naturals

CONSTANTS Symbol, Day

VARIABLES
    level,       \* the columns a reader may count on
    lib,         \* symbol -> its columns' version and its rows
    reported     \* <<symbol, day>> a writer was told is stored

Init ==
    /\ level = 0
    /\ lib = [s \in Symbol |-> [ver |-> 0, rows |-> {1}]]
    /\ reported = {}

\* One day's rows for some symbols, while all of them are at the level.
Append(S, d) ==
    /\ \A s \in Symbol : lib[s].ver = level
    /\ lib' = [s \in Symbol |->
                 IF s \in S THEN [lib[s] EXCEPT !.rows = @ \cup {d}] ELSE lib[s]]
    /\ reported' = reported \cup (S \X {d})
    /\ UNCHANGED level

\* One symbol is written whole, at the level or ahead of it, and loses no row.
Rewrite(s) ==
    /\ DOMAIN lib' = Symbol
    /\ \A t \in Symbol \ {s} : lib'[t] = lib[t]
    /\ level <= lib'[s].ver
    /\ lib[s].rows \subseteq lib'[s].rows
    /\ UNCHANGED <<level, reported>>

Advance ==
    /\ \A s \in Symbol : lib[s].ver = level + 1
    /\ level' = level + 1
    /\ UNCHANGED <<lib, reported>>

Next == \/ Advance
        \/ \E s \in Symbol : Rewrite(s)
        \/ \E S \in SUBSET Symbol, d \in Day : Append(S, d)

Spec == Init /\ [][Next]_<<level, lib, reported>>
=============================================================================
