---- MODULE MCWriteQueue ----
(* Callers and keys are interchangeable: Next and the invariants treat them alike. *)
EXTENDS WriteQueue, TLC

Symmetry == Permutations(Callers) \cup Permutations(Keys)
====
