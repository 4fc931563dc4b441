--------------------------- MODULE MCRefCommands ---------------------------
(* Three commits: a common one, one of the repository, one of somebody     *)
(* else.                                                                   *)
EXTENDS RefCommands, TLC
CONSTANTS base, ours, theirs

MCAncestors == [c \in {base, ours, theirs} |-> {base, c}]

(* Main may be anywhere, or absent; nobody has changed anything yet.       *)
MCInitially ==
    {r \in [heads: [Branches -> Ref], head: Branches, tracking: Ref,
            upstream: {"none", "tracking"}, ready: {TRUE}, occupied: {"none"}] :
        /\ r.heads[Other] = base /\ r.heads[r.head] # NoCommit
        /\ r.upstream = "tracking" => r.heads[Main] # NoCommit}

Interchangeable == Permutations({ours, theirs})
=============================================================================
