---------------------------- MODULE MCIdempotency ----------------------------
(* Model values and symmetry for the runs of Idempotency. *)
EXTENDS Idempotency, TLC

\* Attempts, keys and bodies are only compared.
Interchangeable ==
    Permutations(Attempts) \cup Permutations(Keys) \cup Permutations(Bodies)
=============================================================================
