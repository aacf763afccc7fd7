--------------------------- MODULE MCAdministration ---------------------------
(* Model values and symmetry for the run of Administration. *)
EXTENDS Administration, TLC

\* Clients, and users, are alike and only compared; the seed takes the ids of
\* the other tables in order.
Interchangeable == Permutations(Clients) \cup Permutations(Users)
==============================================================================
