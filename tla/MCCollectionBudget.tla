-------------------------- MODULE MCCollectionBudget --------------------------
(* TLC instance of CollectionBudget, on the workloads of MCDataCollection. *)
EXTENDS CollectionBudget, MCDataCollection
=============================================================================
