----------------------------- MODULE MCInventory -----------------------------
(* Model values and symmetry for the runs of Inventory on its own. *)
EXTENDS Inventory, TLC

\* Clerks and products are only compared.
Interchangeable == Permutations(Clerks) \cup Permutations(Products)
==============================================================================
