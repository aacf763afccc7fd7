------------------------------- MODULE MCSales -------------------------------
(* Model values and symmetry for the runs of Sales and Queries. *)
EXTENDS Queries, TLC

\* Tickets, tables and products are created alike and only compared.
Interchangeable == Permutations(Tickets) \cup Permutations(Tables) \cup Permutations(Products)
==============================================================================
