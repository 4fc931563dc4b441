------------------------------ MODULE GitRefs ------------------------------
(***************************************************************************)
(* What the commands that move refs work on: a repository with its         *)
(* branches, one branch of a remote server, and the Git processes that     *)
(* push, pull, fetch, configure an upstream and switch branches.           *)
(*                                                                         *)
(* Git is not part of the program; it is modelled by what the recipes of   *)
(* remote-operation.ts and repository-session.ts ask of it.  Commits are   *)
(* given with their ancestors; only the branch Main has a counterpart on   *)
(* the server.                                                             *)
(***************************************************************************)
EXTENDS Naturals

CONSTANTS Commits, Ancestors,   \* a commit is an ancestor of itself
          NoCommit              \* a ref that does not exist

ASSUME CommitGraph ==
    /\ NoCommit \notin Commits
    /\ Ancestors \in [Commits -> SUBSET Commits]
    /\ \A c \in Commits : c \in Ancestors[c]

Main == "main"
Other == "other"
Branches == {Main, Other}
Ref == Commits \cup {NoCommit}

(* tracking is the remote-tracking ref of Main.  upstream is what Main is  *)
(* configured to track: nothing, tracking, or something else.  ready: the  *)
(* worktree is clean, with no lock and no operation in progress.  occupied *)
(* is the branch of the other worktree.                                    *)
Repository ==
    [heads: [Branches -> Ref], head: Branches \cup {"detached"}, tracking: Ref,
     upstream: {"none", "tracking", "elsewhere"}, ready: BOOLEAN,
     occupied: Branches \cup {"none"}]

Contains(ref, old) == old = NoCommit \/ (ref # NoCommit /\ old \in Ancestors[ref])

(* The ref has no commit, or one that is not in base: ahead > 0.           *)
Ahead(ref, base) == ~Contains(base, ref)

(* What one step of another program can make of a repository.              *)
ForeignChanges(r, server) ==
    {[r EXCEPT !.tracking = server],
     [r EXCEPT !.ready = ~@]}
    \cup {[r EXCEPT !.heads[b] = c] : b \in Branches, c \in Commits}
    \cup {[r EXCEPT !.heads[b] = NoCommit] : b \in Branches \ {r.head, r.occupied}}
    \cup {[r EXCEPT !.head = b] :
            b \in {x \in Branches \ {r.occupied} : r.heads[x] # NoCommit} \cup {"detached"}}
    \cup {[r EXCEPT !.occupied = b] :
            b \in {x \in Branches \ {r.head} : r.heads[x] # NoCommit} \cup {"none"}}
    \cup {[r EXCEPT !.upstream = u] : u \in {"none", "tracking", "elsewhere"}}

-----------------------------------------------------------------------------
(* A Git process: what it was started for, how far it has come, the commit *)
(* it read, and whether it still runs.                                     *)
Process ==
    [kind: {"none", "push", "pull", "configure", "switch"}, commit: Ref,
     stage: {"started", "read", "acted", "recorded"}, live: BOOLEAN]

NoProcess == [kind |-> "none", commit |-> NoCommit, stage |-> "started", live |-> FALSE]
Started(kind) == [kind |-> kind, commit |-> NoCommit, stage |-> "started", live |-> TRUE]

(* Where a switch goes: a local branch, or a new local branch Main that    *)
(* tracks the remote one.                                                  *)
Targets == Branches \cup {"tracking"}
TargetBranch(target) == IF target = "tracking" THEN Main ELSE target

CanSwitch(r, target) ==
    IF target = "tracking"
      THEN r.heads[Main] = NoCommit /\ r.tracking # NoCommit
      ELSE r.heads[target] # NoCommit /\ r.occupied # target

Switched(r, target) ==
    IF target = "tracking"
      THEN [r EXCEPT !.heads[Main] = r.tracking, !.upstream = "tracking", !.head = Main]
      ELSE [r EXCEPT !.head = target]

(* The branch that HEAD is attached to, fast-forwarded to a commit.        *)
CanFastForward(r, commit) ==
    r.head \in Branches /\ r.heads[r.head] # NoCommit /\ commit # NoCommit
    /\ Contains(commit, r.heads[r.head])

FastForwarded(r, commit) == [r EXCEPT !.heads[r.head] = commit]

(* fetch <branch>:<tracking ref>, without force: a ref that is not an      *)
(* ancestor of what was fetched is left alone, and the fetch fails.        *)
CanTrack(r, commit) == commit # NoCommit /\ Contains(commit, r.tracking)

=============================================================================
