--------------------------- MODULE MCFileMutation ---------------------------
(* Symmetry of the small instance of FileMutation: files and read slots    *)
(* are interchangeable.                                                    *)
EXTENDS FileMutation, TLC

Symmetry == Permutations(Files) \cup Permutations(Reads)
=============================================================================
