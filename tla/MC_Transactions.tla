---- MODULE MC_Transactions ----
(* TLC instance of Transactions: application tasks are interchangeable. *)
EXTENDS Transactions, TLC

Symmetry == Permutations(AppTasks)
====
