---- MODULE MC_Reservations ----
(* TLC instance of Reservations: connectors and ids are interchangeable. *)
EXTENDS Reservations, TLC

Symmetry == Permutations(Connectors) \cup Permutations(Ids)
====
