------------------------ MODULE OperationCoordination ------------------------
(***************************************************************************)
(* The admission relation of the Operation Coordinator: the lane and the   *)
(* state claims the engine derives from an operation's kind and target,    *)
(* and when two operations conflict.                                       *)
(* Source: packages/repository-engine/src/operation-coordinator.ts.        *)
(*                                                                         *)
(* A target is a record whose fields depend on its kind.  Generations,     *)
(* Refs and Remotes are the opaque identities of worktree generations,     *)
(* full ref names and configured remotes; NoRef and NoRemote stand for     *)
(* null.  A malformed target throws before anything is admitted, so only   *)
(* well-formed targets are represented.                                    *)
(***************************************************************************)
CONSTANTS Generations, Refs, Remotes, NoRef, NoRemote

ASSUME CoordinationAssumption == NoRef \notin Refs /\ NoRemote \notin Remotes

-----------------------------------------------------------------------------
(* The targets, one set per lane.  "creates" is not part of the code's     *)
(* target: it is the local branch the command will create, which the       *)
(* target names nowhere.  A commit has no attached ref when HEAD is        *)
(* detached, and also when HEAD is an unborn branch, which it creates; a   *)
(* switch to a Remote-tracking Branch creates the local one.               *)

LocalTarget ==
    [kind: {"stage", "unstage"}, worktree: Generations]
      \cup [kind: {"commit"}, worktree: Generations, attachedRef: Refs,
            creates: {NoRef}]
      \cup [kind: {"commit"}, worktree: Generations, attachedRef: {NoRef},
            creates: Refs \cup {NoRef}]

(* A Local Branch target has no remote; a Remote-tracking one names its.   *)
SwitchTarget ==
    [kind: {"branch_switch"}, worktree: Generations,
     currentRef: Refs \cup {NoRef}, ref: Refs, remote: {NoRemote},
     creates: {NoRef}]
      \cup [kind: {"branch_switch"}, worktree: Generations,
            currentRef: Refs \cup {NoRef}, ref: Refs, remote: Remotes,
            creates: Refs]

RemoteTarget ==
    [kind: {"fetch"}, remotes: (SUBSET Remotes) \ {{}}]
      \cup [kind: {"pull"}, worktree: Generations, localRef: Refs,
            upstreamRef: Refs, remote: Remotes]
      \cup [kind: {"push", "publish"}, worktree: Generations, localRef: Refs,
            destinationRef: Refs, remote: Remotes]

CoordinatedTarget == LocalTarget \cup SwitchTarget \cup RemoteTarget

-----------------------------------------------------------------------------
ClaimWorktree(g, facts) == {<<"worktree", g, fact>> : fact \in facts}
ClaimRef(ref) == IF ref = NoRef THEN {} ELSE {<<"ref", ref>>}
ClaimRemote(remote) == IF remote = NoRemote THEN {} ELSE {<<"remote", remote>>}

(* The state an operation claims until its outcome is known.               *)
Claims(t) ==
    CASE t.kind \in {"stage", "unstage"} ->
             ClaimWorktree(t.worktree, {"availability", "status", "index"})
      [] t.kind = "commit" ->
             ClaimWorktree(t.worktree, {"availability", "status", "head", "index"})
               \cup ClaimRef(t.attachedRef)
      [] t.kind = "branch_switch" ->
             ClaimWorktree(t.worktree, {"availability", "status", "head", "index"})
               \cup {<<"repository", "branch_occupancy">>}
               \cup ClaimRef(t.currentRef) \cup ClaimRef(t.ref)
               \cup ClaimRemote(t.remote)
      [] t.kind = "fetch" -> {<<"remote", r>> : r \in t.remotes}
      [] t.kind = "pull" ->
             ClaimWorktree(t.worktree,
                           {"availability", "status", "head", "index", "upstream"})
               \cup ClaimRef(t.localRef) \cup ClaimRef(t.upstreamRef)
               \cup ClaimRemote(t.remote)
      [] t.kind \in {"push", "publish"} ->
             ClaimWorktree(t.worktree, {"availability", "head", "upstream"})
               \cup ClaimRef(t.localRef) \cup ClaimRef(t.destinationRef)
               \cup ClaimRemote(t.remote)
               \cup {<<"remote_destination", t.remote, t.destinationRef>>}

Lane(t) ==
    CASE t.kind \in {"stage", "unstage", "commit"} -> <<"local", t.worktree>>
      [] t.kind = "branch_switch" -> <<"branch">>
      [] t.kind \in {"fetch", "pull", "push", "publish"} -> <<"remote">>

(* A mutant: lanes alone decide, as if the cross-lane claims were dropped. *)
ConflictsByLane(left, right) == Lane(left) = Lane(right)

Conflicts(left, right) ==
    \/ Lane(left) = Lane(right)
    \/ Claims(left) \cap Claims(right) # {}

-----------------------------------------------------------------------------
(* What the Git commands of each operation change, and the facts its       *)
(* execution verified and still relies on while they run: repository-      *)
(* session.ts and remote-operation.ts, not the coordinator.  The claims    *)
(* above are right when they cover these (see SessionProofs).  A           *)
(* fact is a tuple: a worktree's HEAD, Index or files, the object a branch *)
(* points to, its upstream configuration, the tracking refs of a remote,   *)
(* or a ref of the remote repository.                                      *)

BranchFact(ref) == IF ref = NoRef THEN {} ELSE {<<"branch", ref>>}
TrackingFact(remote) == IF remote = NoRemote THEN {} ELSE {<<"tracking", remote>>}

UpstreamFact(ref) == IF ref = NoRef THEN {} ELSE {<<"upstream", ref>>}

(* git add, rm --cached or reset --quiet HEAD.                             *)
MutationWrites(t) == {<<"index", t.worktree>>}

(* git commit advances the attached branch, makes the unborn one, or moves *)
(* a detached HEAD; the promoted private Index becomes the worktree's.     *)
CommitWrites(t) ==
    {<<"index", t.worktree>>} \cup BranchFact(t.attachedRef) \cup BranchFact(t.creates)
      \cup (IF t.attachedRef = NoRef /\ t.creates = NoRef
             THEN {<<"head", t.worktree>>} ELSE {})

(* git switch --no-guess, with --track=direct -c for a Remote-tracking one.*)
SwitchWrites(t) ==
    {<<"head", t.worktree>>, <<"index", t.worktree>>, <<"files", t.worktree>>}
      \cup BranchFact(t.creates) \cup UpstreamFact(t.creates)

(* git fetch --no-tags --no-prune of one branch, for each remote.          *)
FetchWrites(t) == {<<"tracking", r>> : r \in t.remotes}

(* git pull --ff-only into the branch that is checked out.                 *)
PullWrites(t) ==
    {<<"index", t.worktree>>, <<"files", t.worktree>>}
      \cup BranchFact(t.localRef) \cup TrackingFact(t.remote)

(* git push; publish then fetches and sets the branch's upstream.          *)
PushWrites(t) ==
    {<<"destination", t.remote, t.destinationRef>>} \cup TrackingFact(t.remote)
      \cup (IF t.kind = "publish" THEN UpstreamFact(t.localRef) ELSE {})

Writes(t) ==
    CASE t.kind \in {"stage", "unstage"} -> MutationWrites(t)
      [] t.kind = "commit" -> CommitWrites(t)
      [] t.kind = "branch_switch" -> SwitchWrites(t)
      [] t.kind = "fetch" -> FetchWrites(t)
      [] t.kind = "pull" -> PullWrites(t)
      [] t.kind \in {"push", "publish"} -> PushWrites(t)

(* The worktree and Index revisions and the baseline of the files.         *)
MutationReliesOn(t) ==
    {<<"head", t.worktree>>, <<"index", t.worktree>>, <<"files", t.worktree>>}

(* The HEAD and the Index the user saw, checked again under the lock, and  *)
(* that an unborn branch is unborn.                                        *)
CommitReliesOn(t) ==
    {<<"head", t.worktree>>, <<"index", t.worktree>>}
      \cup BranchFact(t.attachedRef) \cup BranchFact(t.creates)

(* A clean worktree, the target's object, and for a Remote-tracking one    *)
(* that no Local Branch has the name.                                      *)
SwitchReliesOn(t) ==
    {<<"head", t.worktree>>, <<"index", t.worktree>>, <<"files", t.worktree>>}
      \cup BranchFact(t.currentRef) \cup TrackingFact(t.remote)
      \cup (IF t.remote = NoRemote THEN BranchFact(t.ref) ELSE BranchFact(t.creates))

(* A clean worktree attached to the branch, and the branch's object.       *)
PullReliesOn(t) ==
    {<<"head", t.worktree>>, <<"index", t.worktree>>, <<"files", t.worktree>>}
      \cup BranchFact(t.localRef) \cup TrackingFact(t.remote)

(* The branch that is checked out, its object and its upstream.            *)
PushReliesOn(t) ==
    {<<"head", t.worktree>>, <<"upstream", t.localRef>>} \cup BranchFact(t.localRef)

ReliesOn(t) ==
    CASE t.kind \in {"stage", "unstage"} -> MutationReliesOn(t)
      [] t.kind = "commit" -> CommitReliesOn(t)
      [] t.kind = "branch_switch" -> SwitchReliesOn(t)
      [] t.kind = "fetch" -> {}
      [] t.kind = "pull" -> PullReliesOn(t)
      [] t.kind \in {"push", "publish"} -> PushReliesOn(t)

(* The facts one of them changes while the other one changes or has        *)
(* verified them: running both at once lets one invalidate the other.      *)
Contended(left, right) ==
    (Writes(left) \cap (Writes(right) \cup ReliesOn(right)))
      \cup (Writes(right) \cap (Writes(left) \cup ReliesOn(left)))

Interferes(left, right) == Contended(left, right) # {}

(* The facts of the branch a command creates, which no claim of it names.  *)
Created(t) ==
    IF t.kind \in {"commit", "branch_switch"}
    THEN BranchFact(t.creates) \cup UpstreamFact(t.creates) ELSE {}

(* They interfere in something else than a branch one of them creates.     *)
InterferesInExisting(left, right) ==
    ~(Contended(left, right) \subseteq Created(left) \cup Created(right))
=============================================================================
