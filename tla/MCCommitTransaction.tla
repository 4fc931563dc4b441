------------------------ MODULE MCCommitTransaction ------------------------
(* Symmetry for the model checker: branches are interchangeable.           *)
EXTENDS CommitTransaction, TLC
Symmetry == Permutations(Branches)
=============================================================================
