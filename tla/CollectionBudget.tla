-------------------------- MODULE CollectionBudget --------------------------
(***************************************************************************)
(* What the poll budget of the consumer's wait is worth.  Its derivation   *)
(* (infrastructure/step_function.json, CheckCollectionReadinessBudget)     *)
(* counts the lag and one cap for every workload up to the last one that   *)
(* writes a waited unit.  DataCollection, with a history variable that     *)
(* remembers whether the collection launched any workload a second time.   *)
(***************************************************************************)
EXTENDS DataCollection

VARIABLE retried     \* history: $.attempts was counted up

BudgetInit == Init /\ retried = FALSE

BudgetNext == Next /\ retried' = (retried \/ attempts' > attempts)

budgetVars == <<vars, retried>>
BudgetSpec == BudgetInit /\ [][BudgetNext]_budgetVars

-----------------------------------------------------------------------------
(* Property *)

\* When the budget runs out, and no workload needed its retry, every workload
\* with a waited unit has been hard-stopped or is at its cap: the claim of the
\* comment on CheckCollectionReadinessBudget, which the budget does not keep
\* when a retry is used.
BudgetCoversFirstAttempts ==
    cpc = "exhausted" /\ ~retried =>
        \/ ppc \in ProducerEnded
        \/ item > LastWaited
        \/ item = LastWaited /\ ppc = "verify"
        \/ item = LastWaited /\ ppc = "poll" /\ box[cur].age = Cap
=============================================================================
