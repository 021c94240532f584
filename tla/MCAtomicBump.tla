---- MODULE MCAtomicBump ----
(* Three goroutines, four chunk T0's: every order of three concurrent bumps. *)
EXTENDS AtomicBump, TLC

MCValues == 1..4
Symmetry == Permutations(Callers)
====
