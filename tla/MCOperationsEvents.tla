-------------------------- MODULE MCOperationsEvents --------------------------
(* Model values and symmetry for the runs of OperationsEvents. *)
EXTENDS OperationsEvents

\* Clients and writers are only compared.
Interchangeable == Permutations(Clients) \cup Permutations(Writers)
===============================================================================
