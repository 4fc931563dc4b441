----------------------- MODULE MCRepositoryPublication -----------------------
(* Model values and symmetry for the small instances of                    *)
(* RepositoryPublication that TLC checks.  Reads and worktrees are         *)
(* interchangeable: no definition tells two of them apart.                 *)
EXTENDS RepositoryPublication, TLC

Symmetry == Permutations(Worktrees) \cup Permutations(Reads)
=============================================================================
