---------------------------- MODULE RefCommands ----------------------------
(***************************************************************************)
(* Push, Pull, Publish and Branch switch: the execute and reconcile        *)
(* callbacks of repository-session.ts (337-997 and 2225-2445), one command *)
(* among other programs that use the repository and the server.            *)
(*                                                                         *)
(* A refresh is answered with the snapshot published last, by itself or by *)
(* another read (see RepositoryPublication): Observe publishes, at any     *)
(* time.  A revision is the state it numbers.  An abort fails the call of  *)
(* execute that waits for Git at once, while the process may go on.        *)
(***************************************************************************)
EXTENDS GitRefs

CONSTANTS Kinds,        \* the commands given
          Initially,    \* the repositories to begin with
          MaxForeign    \* bound: steps of other programs

ASSUME CommandAssumption ==
    /\ Kinds \subseteq {"push", "pull", "publish", "switch"} /\ MaxForeign \in Nat
    /\ Initially \subseteq Repository

VARIABLES
    repo, server,    \* the repository, and the branch on the server
    published,       \* the snapshot published last
    git,             \* the process that execute started
    op,              \* the command
    served, foreign  \* history: what the server had since the dispatch;
                     \* steps of other programs

vars == <<repo, server, published, git, op, served, foreign>>

Snapshot == [seen: Repository, fresh: BOOLEAN]
Stages == {"idle", "refreshing", "confirming", "running", "fetching", "fetched",
           "verifying", "configuring", "returned", "threw"}
Evidence == {"none", "rejected", "no_change", "completed", "failed_known", "unknown",
             "publish_unconfigured", "attempted"}
Outcomes == {"none", "rejected", "no_change", "succeeded", "partial_success",
             "failed_known", "unknown_outcome"}

(* An attempt to reconcile: read is what its fetch read from the server;   *)
(* current, a history variable, that a read was published since it asked.  *)
Attempt ==
    [stage: {"idle", "fetching", "fetched", "refreshing"}, evidence: Evidence,
     read: Ref, late: BOOLEAN, current: BOOLEAN]
NoAttempt == [stage |-> "idle", evidence |-> "none", read |-> NoCommit,
              late |-> FALSE, current |-> FALSE]

Command ==
    [kind: Kinds \cup {"none"}, target: Targets, pc: Stages,
     initial: Repository,          \* the snapshot the command was given on
     read: Ref,                    \* what the fetch of execute read
     aborted: BOOLEAN, evidence: Evidence, attempt: Attempt, outcome: Outcomes]

Confirmed == op.initial.heads[Main]

-----------------------------------------------------------------------------
(* Other programs, and reads of the repository.                            *)
Serves(commit) == server' = commit /\ served' = served \cup {commit}
LeavesRefs == UNCHANGED <<repo, server, served>>

(* A step before the dispatch makes another initial state, one after the   *)
(* outcome is known changes nothing.                                       *)
InProgress == op.pc # "idle" /\ op.outcome \in {"none", "unknown_outcome"}

ForeignStep(where) ==
    /\ InProgress /\ foreign.steps < MaxForeign
    /\ foreign' = [foreign EXCEPT !.steps = @ + 1, !.local = @ \/ where = "local"]

SomeonePushes ==
    /\ ForeignStep("server")
    /\ \E commit \in Ref \ {server} : Serves(commit)
    /\ UNCHANGED <<repo, published, git, op>>

SomeoneChangesRepository ==
    /\ ForeignStep("local")
    /\ repo' \in ForeignChanges(repo, server)
    /\ UNCHANGED <<server, served, published, git, op>>

(* A read ends; one that fails keeps the snapshot and says so.             *)
Observe ==
    /\ InProgress
    /\ published' \in {[seen |-> repo, fresh |-> TRUE], [published EXCEPT !.fresh = FALSE]}
    /\ op' = [op EXCEPT !.attempt.current =
                           @ \/ (op.attempt.stage = "refreshing" /\ published'.fresh)]
    /\ UNCHANGED <<repo, server, served, git, foreign>>

-----------------------------------------------------------------------------
(* The Git process that execute started.                                   *)
GitReads ==
    /\ git.live /\ git.stage = "started" /\ git.kind \in {"push", "pull"}
    /\ IF git.kind = "push"
         THEN /\ git' = [git EXCEPT !.stage = "read", !.commit = repo.heads[Main]]
              /\ UNCHANGED repo
         ELSE /\ git' = [git EXCEPT !.stage = "read", !.commit = server]
              /\ repo' = IF server = NoCommit THEN repo ELSE [repo EXCEPT !.tracking = server]
    /\ UNCHANGED <<server, served, published, op, foreign>>

(* The server takes a push, or HEAD's branch is fast-forwarded.            *)
GitMovesRef ==
    /\ git.live /\ git.stage = "read" /\ git.commit # NoCommit
    /\ git' = [git EXCEPT !.stage = "acted"]
    /\ \/ /\ git.kind = "push" /\ Contains(git.commit, server)
          /\ Serves(git.commit) /\ UNCHANGED repo
       \/ /\ git.kind = "pull" /\ CanFastForward(repo, git.commit)
          /\ repo' = FastForwarded(repo, git.commit) /\ UNCHANGED <<server, served>>
    /\ UNCHANGED <<published, op, foreign>>

(* A push that was taken is noted in the remote-tracking ref.              *)
GitTracksPush ==
    /\ git.live /\ git.stage = "acted" /\ git.kind = "push"
    /\ git' = [git EXCEPT !.stage = "recorded"]
    /\ repo' = [repo EXCEPT !.tracking = git.commit]
    /\ UNCHANGED <<server, served, published, op, foreign>>

GitConfigures ==
    /\ git.live /\ git.stage = "started" /\ git.kind = "configure"
    /\ git' = [git EXCEPT !.stage = "acted"]
    /\ repo' = [repo EXCEPT !.upstream = "tracking"]
    /\ UNCHANGED <<server, served, published, op, foreign>>

GitSwitches ==
    /\ git.live /\ git.stage = "started" /\ git.kind = "switch"
    /\ CanSwitch(repo, op.target)
    /\ git' = [git EXCEPT !.stage = "acted"]
    /\ repo' = Switched(repo, op.target)
    /\ UNCHANGED <<server, served, published, op, foreign>>

-----------------------------------------------------------------------------
(* execute.                                                                *)
Goes(stage) == op' = [op EXCEPT !.pc = stage]
Returns(evidence) == op' = [op EXCEPT !.pc = "returned", !.evidence = evidence]
At(stage) == op.pc = stage /\ UNCHANGED <<published, foreign>>

(* What a command requires of the snapshot it is given on; Push and Pull   *)
(* also read the configured upstream.                                      *)
Applies(kind, r) ==
    CASE kind \in {"push", "pull"} ->
            /\ r.head = Main /\ r.heads[Main] # NoCommit
            /\ r.upstream = "tracking" /\ r.tracking # NoCommit
            /\ repo.upstream = "tracking"
      [] kind = "publish" -> r.head = Main /\ r.heads[Main] # NoCommit /\ r.upstream = "none"
      [] OTHER -> TRUE

Dispatch ==
    /\ op.pc = "idle"
    /\ \E kind \in Kinds, target \in Targets :
          /\ Applies(kind, published.seen)
          /\ kind # "switch" => target = Main
          /\ op' = [op EXCEPT !.pc = "refreshing", !.kind = kind, !.target = target,
                              !.initial = published.seen]
    /\ served' = {server} /\ foreign' = [foreign EXCEPT !.local = FALSE]
    /\ UNCHANGED <<repo, server, published, git>>

(* refsRevision and worktreeRevision; the other worktree is in neither.    *)
AsConfirmed(r) == [r EXCEPT !.occupied = op.initial.occupied] = op.initial

TargetIsFree(r) ==
    IF op.target = "tracking" THEN r.heads[Main] = NoCommit /\ r.tracking # NoCommit
    ELSE /\ r.heads[op.target] # NoCommit
         /\ (r.occupied = op.target) = (op.initial.occupied = op.target)
         /\ op.initial.occupied # op.target

(* A process is not started for a signal that is aborted.                  *)
Starts(kind, stage) ==
    IF op.aborted THEN Goes("threw") /\ UNCHANGED git
    ELSE Goes(stage) /\ git' = Started(kind)

(* The refresh is answered: revisions, refs and status must be those that  *)
(* were confirmed.  Only the freshness of the one worktree is looked at (a *)
(* stale one is rejected), so a snapshot that was retained after a failed  *)
(* read of the rest of the repository does.                                *)
CheckTarget ==
    /\ At("refreshing") /\ LeavesRefs
    /\ \/ Returns("rejected") /\ UNCHANGED git     \* not read, or not permitted
       \/ /\ AsConfirmed(published.seen) /\ published.seen.ready
          /\ \/ op.kind \in {"push", "pull"} /\ Goes("confirming") /\ UNCHANGED git
             \/ op.kind = "publish" /\ Starts("push", "running")
             \/ op.kind = "switch" /\ TargetIsFree(published.seen)
                /\ Starts("switch", "running")

(* Push and Pull read the configured upstream again and compare the branch *)
(* with it as it was observed.                                             *)
ConfirmUpstream ==
    /\ At("confirming") /\ LeavesRefs
    /\ LET ahead == Ahead(Confirmed, op.initial.tracking)
           behind == Ahead(op.initial.tracking, Confirmed)
       IN  \/ Returns("rejected") /\ UNCHANGED git      \* not read, or not available
           \/ /\ repo.upstream = "tracking"
              /\ CASE op.kind = "push" /\ ~behind /\ ahead -> Starts("push", "running")
                   [] op.kind = "push" /\ ~behind /\ ~ahead ->
                         Returns("no_change") /\ UNCHANGED git
                   [] op.kind = "pull" /\ behind /\ ~ahead -> Starts("pull", "running")
                   [] op.kind = "pull" /\ ~behind -> Returns("no_change") /\ UNCHANGED git
                   [] OTHER -> Returns("rejected") /\ UNCHANGED git

(* The process exits: with 0 only if it did its work.  Another exit status *)
(* is a known failure if its diagnostic is recognised; for a switch it is  *)
(* an exception, a hook's failure too.                                     *)
GitExits ==
    /\ At("running") /\ LeavesRefs /\ ~op.aborted
    /\ git' = [git EXCEPT !.live = FALSE]
    /\ \/ /\ op.kind = "switch"
          /\ \/ git.stage = "acted" /\ Returns("attempted")
             \/ Goes("threw")
       \/ /\ op.kind \in {"push", "pull"}
          /\ \/ git.stage \in {"acted", "recorded"} /\ Returns("completed")
             \/ Returns("failed_known") \/ Returns("unknown")
             \/ Goes("threw")
       \/ /\ op.kind = "publish"
          /\ \/ git.stage \in {"acted", "recorded"} /\ Goes("fetching")
             \/ Goes("fetching")                            \* outcome unknown
             \/ Returns("failed_known")
             \/ Goes("threw")

(* The abort ends the call, not yet the process.                           *)
AbortEndsCall ==
    /\ At("running") /\ op.aborted /\ Goes("threw")
    /\ LeavesRefs /\ UNCHANGED git

(* Publish: the remote-tracking ref is fetched, the effect verified, and   *)
(* only then the upstream configured.                                      *)
FetchReads ==
    /\ At("fetching") /\ LeavesRefs /\ UNCHANGED git
    /\ \/ op' = [op EXCEPT !.pc = "fetched", !.read = server]
       \/ Returns("unknown")

FetchWrites ==
    /\ At("fetched") /\ UNCHANGED <<server, served, git>>
    /\ \/ /\ CanTrack(repo, op.read)
          /\ repo' = [repo EXCEPT !.tracking = op.read]
          /\ Goes("verifying") \/ Returns("unknown")
       \/ Returns("unknown") /\ UNCHANGED repo

\* Mutant: the upstream is configured after any fetch.
VerifyNothing ==
    /\ At("verifying") /\ LeavesRefs
    /\ \/ Returns("publish_unconfigured") /\ UNCHANGED git
       \/ Starts("configure", "configuring")

VerifyPublication ==
    /\ At("verifying") /\ LeavesRefs
    /\ \/ Returns("publish_unconfigured") /\ UNCHANGED git
       \/ /\ published.seen.tracking = Confirmed /\ ~op.aborted
          /\ Starts("configure", "configuring")

(* Whatever goes wrong here, an abort too, leaves a published branch.      *)
ConfigureEnds ==
    /\ At("configuring") /\ LeavesRefs
    /\ \/ /\ ~op.aborted /\ git' = [git EXCEPT !.live = FALSE]
          /\ \/ git.stage = "acted" /\ Returns("completed")
             \/ Returns("publish_unconfigured")
       \/ op.aborted /\ Returns("publish_unconfigured") /\ UNCHANGED git

-----------------------------------------------------------------------------
(* A cancellation or the timeout aborts; the session reconciles a timeout  *)
(* while execute runs, every command after it, and again on recovery.      *)
Abort ==
    /\ op.pc \notin {"idle", "returned", "threw"} /\ ~op.aborted
    /\ op' = [op EXCEPT !.aborted = TRUE]
    /\ UNCHANGED <<repo, server, served, published, git, foreign>>

Over == op.pc \in {"returned", "threw"}
(* #attempt of the session: while execute runs nothing is known.           *)
Ends(outcome) ==
    op' = [op EXCEPT !.attempt = NoAttempt,
                     !.outcome = IF op.attempt.late THEN "unknown_outcome" ELSE outcome]
Unknown == Ends("unknown_outcome")

\* Mutant: reconciles without asking the server.
FirstStageOffline(evidence) == "refreshing"

(* A command that changed nothing need not ask the server, nor a switch.   *)
FirstStage(evidence) ==
    IF op.kind = "switch" \/ evidence \in {"rejected", "no_change"}
    THEN "refreshing" ELSE "fetching"

StartReconciliation ==
    /\ Over \/ op.aborted
    /\ op.attempt.stage = "idle" /\ op.outcome \in {"none", "unknown_outcome"}
    /\ LET evidence == IF op.pc = "returned" THEN op.evidence ELSE "none"
       IN  op' = [op EXCEPT !.attempt = [NoAttempt EXCEPT !.stage = FirstStage(evidence),
                                                          !.evidence = evidence,
                                                          !.late = ~Over]]
    /\ UNCHANGED <<repo, server, served, published, git, foreign>>

(* reconcileRemoteTracking: refresh_tracking, within ten seconds.          *)
ReconcileFetchReads ==
    /\ op.attempt.stage = "fetching"
    /\ \/ op' = [op EXCEPT !.attempt.stage = "fetched", !.attempt.read = server]
       \/ Unknown
    /\ LeavesRefs /\ UNCHANGED <<published, git, foreign>>

ReconcileFetchWrites ==
    /\ op.attempt.stage = "fetched"
    /\ \/ /\ CanTrack(repo, op.attempt.read)
          /\ repo' = [repo EXCEPT !.tracking = op.attempt.read]
          /\ \/ op' = [op EXCEPT !.attempt.stage = "refreshing", !.attempt.current = FALSE]
             \/ Unknown
       \/ Unknown /\ UNCHANGED repo
    /\ UNCHANGED <<server, served, published, git, foreign>>

(* What the snapshot shows.                                                *)
Shown == published.seen
IsPublished == Shown.tracking = Confirmed
OnUpstream == Shown.head = Main /\ Shown.upstream = "tracking"

ShowsEffect ==
    CASE op.kind \in {"push", "publish"} ->
            OnUpstream /\ IsPublished /\ Shown.heads[Main] = Confirmed
      [] op.kind = "pull" -> OnUpstream /\ Shown.heads[Main] = Shown.tracking
      [] OTHER -> op.attempt.evidence = "attempted" /\ Shown.head = TargetBranch(op.target)

(* The outcome that the evidence of execute and the refresh give.  A read  *)
(* may fail or find no repository, which a switch takes for a failure.     *)
FinishRemote ==
    LET evidence == op.attempt.evidence
    IN  \/ evidence # "rejected" /\ (evidence = "no_change" => op.kind # "pull") /\ Unknown
        \/ evidence \in {"rejected", "no_change"} /\ Ends(evidence)
           /\ (evidence = "no_change" /\ op.kind = "push" => published.fresh)
        \/ /\ evidence \notin {"rejected", "no_change"} /\ published.fresh
           /\ CASE ShowsEffect -> Ends("succeeded")
                [] ~ShowsEffect /\ op.kind = "publish" /\ IsPublished -> Ends("partial_success")
                [] OTHER -> IF evidence = "failed_known" THEN Ends("failed_known")
                            ELSE Unknown

FinishSwitch ==
    \/ op.attempt.evidence = "rejected" /\ Ends("rejected")
    \/ /\ op.attempt.evidence # "rejected"
       /\ \/ Unknown
          \/ Ends(IF ShowsEffect THEN "succeeded" ELSE "failed_known")
          \/ Ends("failed_known")

\* Mutant: a known failure is reported without looking at the repository.
FinishBelieving ==
    /\ op.attempt.stage = "refreshing"
    /\ IF op.attempt.evidence = "failed_known" THEN Ends("failed_known")
       ELSE IF op.kind = "switch" THEN FinishSwitch ELSE FinishRemote
    /\ LeavesRefs /\ UNCHANGED <<published, git, foreign>>

FinishReconciliation ==
    /\ op.attempt.stage = "refreshing"
    /\ IF op.kind = "switch" THEN FinishSwitch ELSE FinishRemote
    /\ LeavesRefs /\ UNCHANGED <<published, git, foreign>>

-----------------------------------------------------------------------------
Init ==
    /\ repo \in Initially
    /\ server \in Ref /\ served = {server}
    /\ published = [seen |-> repo, fresh |-> TRUE]
    /\ git = NoProcess
    /\ op = [kind |-> "none", target |-> Main, pc |-> "idle", initial |-> repo,
             read |-> NoCommit, aborted |-> FALSE, evidence |-> "none",
             attempt |-> NoAttempt, outcome |-> "none"]
    /\ foreign = [steps |-> 0, local |-> FALSE]

Others == SomeonePushes \/ SomeoneChangesRepository \/ Observe
Git == GitReads \/ GitMovesRef \/ GitTracksPush \/ GitConfigures \/ GitSwitches
Execute == Dispatch \/ CheckTarget \/ ConfirmUpstream \/ GitExits \/ AbortEndsCall
           \/ FetchReads \/ FetchWrites \/ VerifyPublication \/ ConfigureEnds
Reconcile == StartReconciliation \/ ReconcileFetchReads \/ ReconcileFetchWrites
             \/ FinishReconciliation
Next == Others \/ Git \/ Execute \/ Abort \/ Reconcile

Spec == Init /\ [][Next]_vars

-----------------------------------------------------------------------------
TypeOK ==
    /\ repo \in Repository /\ server \in Ref /\ published \in Snapshot
    /\ git \in Process /\ op \in Command
    /\ served \subseteq Ref /\ foreign \in [steps: Nat, local: BOOLEAN]

(* The process is one that execute started, and it stops with it unless it *)
(* was aborted; a command that was rejected or changed nothing started     *)
(* none.                                                                   *)
ProcessFollowsExecute ==
    /\ git.kind # "none" =>
          /\ op.pc \notin {"idle", "refreshing", "confirming"}
          /\ op.evidence \notin {"rejected", "no_change"}
          /\ git.kind = op.kind \/ (op.kind = "publish" /\ git.kind \in {"push", "configure"})
    /\ git.live => op.pc \in {"running", "configuring"} \/ op.aborted
    /\ op.pc = "running" => git.live

(* An outcome is known only after execute has ended, and it is what its    *)
(* evidence allows.                                                        *)
Known == Outcomes \ {"none", "unknown_outcome"}

OutcomeFollowsEvidence ==
    /\ op.evidence # "none" <=> op.pc = "returned"
    /\ op.outcome \in Known => Over /\ op.attempt.stage = "idle"
    /\ op.outcome = "rejected" <=> op.evidence = "rejected" /\ op.outcome \in Known
    /\ op.outcome = "no_change" <=> op.evidence = "no_change" /\ op.outcome \in Known
    /\ op.outcome = "failed_known" /\ op.kind # "switch" => op.evidence = "failed_known"
    /\ op.outcome = "partial_success" => op.kind = "publish"
    /\ op.attempt.stage # "idle" => Over \/ op.aborted
    /\ op.attempt.stage # "idle" /\ ~op.attempt.late =>
          Over /\ op.attempt.evidence = op.evidence

(* The server has had the commit, or more.                                 *)
WasServed(commit) == \E s \in served : Contains(s, commit)

(* An attempt that asks the server first.                                  *)
AsksServer == op.kind # "switch" /\ op.attempt.evidence \notin {"rejected", "no_change"}
Verifies == AsksServer /\ op.attempt.stage = "refreshing"

(* What the processes and the fetches read was on the server.              *)
ReadsAreServed ==
    /\ server \in served
    /\ op.pc = "fetched" => op.read \in served
    /\ op.attempt.stage = "fetched" \/ Verifies => op.attempt.read \in served
    /\ git.kind = "push" /\ git.stage \in {"acted", "recorded"} => git.commit \in served
    /\ git.kind = "pull" /\ git.stage # "started" => git.commit \in served

(* The remote-tracking ref is where it was, or where the server was; after *)
(* the fetch of an attempt the latter.                                     *)
TrackingIsServed ==
    /\ \A r \in {repo, published.seen} : r.tracking \in served \cup {op.initial.tracking}
    /\ Verifies => repo.tracking \in served
    /\ Verifies /\ op.attempt.current => published.seen.tracking \in served

(* As long as nobody else touches the repository, it is what was confirmed *)
(* but for what the command itself does.                                   *)
IsOurs(r) ==
    /\ op.kind # "switch" => r.head = Main
    /\ op.kind \in {"push", "pull"} => r.upstream = "tracking"
    /\ op.kind \in {"push", "publish"} => r.heads[Main] = Confirmed
    /\ op.kind = "pull" => r.heads[Main] \in served \cup {Confirmed}

RepositoryIsOurs ==
    op.pc # "idle" /\ ~foreign.local =>
        /\ IsOurs(repo) /\ IsOurs(published.seen)
        /\ git.kind = "push" /\ git.stage # "started" => git.commit = Confirmed

(* A verification that finds the remote-tracking ref at the commit finds   *)
(* it for a reason, even if what it reads is old: a fetch has moved the    *)
(* ref or confirmed it.                                                    *)
ServerIsKnown == WasServed(op.initial.tracking) \/ WasServed(Confirmed)

PublicationIsVerified ==
    op.kind \in {"push", "publish"} /\ ~foreign.local =>
        /\ repo.tracking = op.initial.tracking \/ ServerIsKnown
        /\ op.pc = "verifying" \/ Verifies => ServerIsKnown
        /\ git.kind = "configure" => WasServed(Confirmed)

(* What execute knows when it is over.                                     *)
ExecuteIsKnown ==
    /\ op.pc = "idle" => /\ published = [seen |-> repo, fresh |-> TRUE]
                         /\ op.attempt = NoAttempt /\ op.outcome = "none" /\ ~op.aborted
    /\ op.pc # "idle" => op.kind # "none"
    /\ op.pc # "idle" /\ op.kind \in {"push", "publish"} => Confirmed # NoCommit
    /\ op.pc = "confirming" \/ op.evidence = "no_change" => op.kind \in {"push", "pull"}
    /\ op.pc \in {"fetching", "fetched", "verifying", "configuring"} => op.kind = "publish"
    /\ op.evidence \in {"failed_known", "attempted"} => ~git.live
    /\ op.evidence = "failed_known" => op.kind # "switch"
    /\ op.evidence = "attempted" => git.stage = "acted"
    /\ op.kind = "pull" /\ op.pc \notin {"idle", "refreshing", "confirming"} =>
          op.evidence \in {"rejected", "no_change"} \/ Confirmed # op.initial.tracking

(* After a failure the snapshot of an undisturbed attempt is the           *)
(* repository.                                                             *)
FailureIsObserved ==
    Verifies /\ op.evidence = "failed_known" /\ ~foreign.local =>
        /\ repo.tracking = op.attempt.read
        /\ op.attempt.current => published.seen = repo

(* The inductive invariant of the commands.                                *)
CommandInv ==
    /\ TypeOK /\ ProcessFollowsExecute /\ OutcomeFollowsEvidence /\ ReadsAreServed
    /\ TrackingIsServed /\ RepositoryIsOurs /\ PublicationIsVerified
    /\ ExecuteIsKnown /\ FailureIsObserved

Reports(outcome) == op.outcome # outcome /\ op'.outcome = outcome

(* A reported effect is real: what Push or Publish confirmed was on the    *)
(* server since the command was given, whatever Git's exit status, a stale *)
(* remote-tracking ref or a late answer say; Pull left the branch at a     *)
(* commit of the server; a switch was made by its own process.             *)
SuccessIsReal ==
    [][(Reports("succeeded") \/ Reports("partial_success"))
          /\ (op.attempt.current \/ ~foreign.local) =>
         CASE op.kind \in {"push", "publish"} -> WasServed(Confirmed)
           [] op.kind = "pull" -> published.seen.heads[Main] \in served
           [] OTHER -> git.stage = "acted"]_vars

(* If nobody else touches the repository and the refresh is answered with  *)
(* a snapshot of its own or a later one, a known failure of Push, Publish  *)
(* or Pull is the truth: the fetch of the reconciliation did not find the  *)
(* commit on the server, or the branch not at the commit it found.         *)
KnownFailureIsObserved ==
    [][Reports("failed_known") /\ op.kind # "switch" /\ op.attempt.current /\ ~foreign.local =>
         IF op.kind = "pull" THEN repo.heads[Main] # op.attempt.read
         ELSE Confirmed # op.attempt.read]_vars

(* Publish makes the remote branch the upstream only when the server has   *)
(* had the confirmed commit, if no other program moved a ref of this       *)
(* repository meanwhile (one that moves the tracking ref can fake it).     *)
UpstreamAfterPublication ==
    git.kind = "configure" /\ ~foreign.local => WasServed(Confirmed)

=============================================================================
