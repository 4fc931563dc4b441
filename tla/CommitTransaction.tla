------------------------- MODULE CommitTransaction -------------------------
(***************************************************************************)
(* A Commit command: the execute and reconcile callbacks of                *)
(* repository-session.ts (1880-2230) and the Index transaction they use    *)
(* (2673-2745), among other programs that stage, commit, switch branches   *)
(* and hold the Index lock, and a user who edits the Commit Draft.         *)
(*                                                                         *)
(* An Index is the number of its tree, a commit is a number, HEAD is the   *)
(* branch it is attached to and its commit.  A refresh answers with what   *)
(* was published last, by itself or by another read (RepositoryPublication *)
(* shows why): Observe publishes, at any time.                             *)
(*                                                                         *)
(* An abort fails the Git calls under way and to come at once, while the   *)
(* process may go on (execFile in repository-engine.ts 776): git is the    *)
(* process, op.pc the place where execute is.                              *)
(***************************************************************************)
EXTENDS Naturals

CONSTANTS Branches,      \* what HEAD may be attached to
          MaxTrees, MaxCommits, MaxRevisions,
          MaxForeign     \* bounds what other programs do

ASSUME CommitAssumption ==
    Branches # {} /\ {MaxTrees, MaxCommits, MaxRevisions, MaxForeign} \subseteq Nat

VARIABLES
    index, trees,        \* the tree in the Index, the newest tree
    lock,                \* who holds index.lock
    head, commits,       \* HEAD, the newest commit
    draft,               \* the Commit Draft
    published,           \* the snapshot published last
    private,             \* the private Index
    git,                 \* the process git commit
    made,                \* the commit it made
    op,                  \* the operation
    heads, foreign       \* history: what HEAD was, steps of other programs

repository == <<index, trees, lock, head, commits, heads>>
vars == <<repository, draft, published, private, git, made, op, foreign>>

Head == [branch: Branches, id: Nat]
Snapshot == [head: Head, index: Nat, locked: BOOLEAN]
Draft == [revision: Nat, empty: BOOLEAN]
NoTree == [exists |-> FALSE, tree |-> 0]
TreeFile == [exists: BOOLEAN, tree: Nat]
NoCommit == [exists |-> FALSE, id |-> 0, parent |-> 0, tree |-> 0, hooked |-> FALSE, message |-> 0]
Commit == [exists: BOOLEAN, id: Nat, parent: Nat, tree: Nat, hooked: BOOLEAN, message: Nat]
Process == [running: BOOLEAN, parent: Nat, hooked: BOOLEAN]

Stages == {"idle", "refreshing", "preparing", "inspecting_head", "inspecting_index",
           "inspecting_lock", "locking", "copying", "verifying", "starting", "committing",
           "discarding", "promoting", "releasing", "identifying", "returned", "threw"}
WithPrivateIndex == {"verifying", "starting", "committing", "discarding", "promoting"}
BeforeGit == {"idle", "refreshing", "preparing", "inspecting_head", "inspecting_index",
              "inspecting_lock", "locking", "copying", "verifying", "starting"}
Known == {"rejected", "failed_known", "attempted", "succeeded"}
Evidence == {"none", "rejected", "failed_known", "attempted"}
Outcomes == {"none", "rejected", "failed_known", "succeeded", "unknown_outcome"}

Operation ==
    [pc: Stages,
     initial: Snapshot,             \* latestBase when the command was dispatched
     draftRevision: Nat,
     aborted: BOOLEAN,
     expectedTree: Nat,             \* expectedIndexTree
     seenHead: Nat, seenTree: Nat,  \* finalInspection
     evidence: Evidence,
     identified: BOOLEAN,           \* commitIntent names the commit
     attempt: Evidence \cup {"idle"},
     outcome: Outcomes,
     lockUnread: BOOLEAN]           \* history: removeOwnedSentinel gave up

NotDispatched(snapshot) ==
    [pc |-> "idle", initial |-> snapshot, draftRevision |-> 0, aborted |-> FALSE,
     expectedTree |-> 0, seenHead |-> 0, seenTree |-> 0, evidence |-> "none",
     identified |-> FALSE, attempt |-> "idle", outcome |-> "none",
     lockUnread |-> FALSE]

-----------------------------------------------------------------------------
(* Other programs and the user.                                            *)
ForeignStep == foreign < MaxForeign /\ foreign' = foreign + 1
MovesHead(h) == head' = h /\ heads' = heads \cup {h}

ForeignLocks ==
    /\ ForeignStep /\ lock = "free" /\ lock' = "foreign"
    /\ UNCHANGED <<index, trees, head, commits, heads, draft, published, private, git, made, op>>

(* The owner of the lock replaces the Index or leaves it, and releases it. *)
ForeignUnlocks ==
    /\ lock = "foreign" /\ lock' = "free"
    /\ \/ UNCHANGED <<index, trees>>
       \/ trees < MaxTrees /\ trees' = trees + 1 /\ index' = trees + 1
    /\ UNCHANGED <<head, commits, heads, draft, published, private, git, made, op, foreign>>

(* update-ref, symbolic-ref and reset --soft need no Index lock.           *)
ForeignMovesHead ==
    /\ ForeignStep
    /\ \/ commits < MaxCommits /\ commits' = commits + 1
          /\ MovesHead([head EXCEPT !.id = commits + 1])
       \/ \E h \in [branch: Branches, id: 0 .. commits] : MovesHead(h) /\ UNCHANGED commits
    /\ UNCHANGED <<index, trees, lock, draft, published, private, git, made, op>>

EditDraft(empty) ==
    /\ draft.revision < MaxRevisions
    /\ draft' = [revision |-> draft.revision + 1, empty |-> empty]
    /\ UNCHANGED <<repository, published, private, git, made, op, foreign>>

Observe ==
    /\ published' = [head |-> head, index |-> index, locked |-> lock # "free"]
    /\ UNCHANGED <<repository, draft, private, git, made, op, foreign>>

-----------------------------------------------------------------------------
(* execute: the refresh and the checks of what it shows.                   *)
Goes(stage) == op' = [op EXCEPT !.pc = stage]
Rejects == op' = [op EXCEPT !.pc = "returned", !.evidence = "rejected"]
Throws == Goes("threw")
At(stage) == op.pc = stage /\ UNCHANGED <<draft, published, foreign>>
KeepsRepository == UNCHANGED repository
KeepsProcess == UNCHANGED <<private, git, made>>

Dispatch ==
    /\ At("idle")
    /\ op' = [op EXCEPT !.pc = "refreshing", !.initial = published,
                        !.draftRevision = draft.revision]
    /\ KeepsRepository /\ KeepsProcess

(* The command names the worktree revision and the draft revision the      *)
(* client saw.                                                             *)
AsReviewed ==
    published.head = op.initial.head /\ published.index = op.initial.index
    /\ draft.revision = op.draftRevision

CheckTarget ==
    /\ At("refreshing")
    /\ \/ Rejects                                  \* not read, or not permitted
       \/ ~published.locked /\ AsReviewed /\ ~draft.empty /\ Goes("preparing")
    /\ KeepsRepository /\ KeepsProcess

(* The author is known, and write-tree gives the tree of the Index; it     *)
(* fails while the Index is locked.                                        *)
WriteExpectedTree ==
    /\ At("preparing")
    /\ \/ ~op.aborted /\ Rejects
       \/ Throws
       \/ ~op.aborted /\ lock = "free"
          /\ op' = [op EXCEPT !.pc = "inspecting_head", !.expectedTree = index]
    /\ KeepsRepository /\ KeepsProcess

(* inspectCommitTarget: HEAD, the tree of the Index, then the lock.        *)
InspectHead ==
    /\ At("inspecting_head")
    /\ \/ Throws
       \/ ~op.aborted /\ op' = [op EXCEPT !.pc = "inspecting_index", !.seenHead = head.id]
    /\ KeepsRepository /\ KeepsProcess

InspectIndex ==
    /\ At("inspecting_index")
    /\ \/ Throws
       \/ ~op.aborted /\ lock = "free"
          /\ op' = [op EXCEPT !.pc = "inspecting_lock", !.seenTree = index]
    /\ KeepsRepository /\ KeepsProcess

InspectLock ==
    /\ At("inspecting_lock")
    /\ IF lock = "free" /\ op.seenHead = op.initial.head.id /\ op.seenTree = op.expectedTree
         THEN Goes("locking") ELSE Rejects
    /\ KeepsRepository /\ KeepsProcess

-----------------------------------------------------------------------------
(* beginCommitIndexTransaction: the sentinel is created exclusively (and   *)
(* left, if its own stat fails) ...                                        *)
TakeLock ==
    /\ At("locking")
    /\ \/ lock # "free" /\ Rejects /\ UNCHANGED lock
       \/ Throws /\ UNCHANGED lock
       \/ lock = "free" /\ lock' = "ours" /\ Throws
       \/ lock = "free" /\ lock' = "ours" /\ Goes("copying")
    /\ UNCHANGED <<index, trees, head, commits, heads>> /\ KeepsProcess

\* Mutant: the Index is copied before the lock is taken.
CopyUnlocked ==
    /\ At("copying")
    /\ private' = [exists |-> TRUE, tree |-> op.seenTree] /\ Goes("verifying")
    /\ UNCHANGED <<repository, git, made>>

(* ... and the Index copied under it.  If that fails both files go, unless *)
(* that fails too.                                                         *)
CopyIndex ==
    /\ At("copying")
    /\ \/ private' = [exists |-> TRUE, tree |-> index] /\ Goes("verifying") /\ UNCHANGED lock
       \/ /\ Throws /\ lock' \in {"free", lock}
          /\ private' \in {private, [exists |-> TRUE, tree |-> index]}
    /\ UNCHANGED <<index, trees, head, commits, heads, git, made>>

\* Mutant: the tree is not compared.
VerifyHeadOnly ==
    /\ At("verifying")
    /\ IF head.id = op.initial.head.id
         THEN Goes("starting") ELSE op' = [op EXCEPT !.pc = "discarding", !.evidence = "rejected"]
    /\ KeepsRepository /\ KeepsProcess

\* Mutant: rejects without giving the Index back.
VerifyWithoutCleanup ==
    /\ At("verifying")
    /\ IF private.tree = op.expectedTree /\ head.id = op.initial.head.id
         THEN Goes("starting") ELSE Rejects
    /\ KeepsRepository /\ KeepsProcess

(* The tree of the private Index and HEAD are compared once more; execute  *)
(* does not clean up when one of them cannot be read.                      *)
Verify ==
    /\ At("verifying")
    /\ \/ Throws
       \/ /\ ~op.aborted
          /\ IF private.tree = op.expectedTree /\ head.id = op.initial.head.id
               THEN Goes("starting")
               ELSE op' = [op EXCEPT !.pc = "discarding", !.evidence = "rejected"]
    /\ KeepsRepository /\ KeepsProcess

-----------------------------------------------------------------------------
(* git commit, with the private Index.                                     *)
StartGit ==
    /\ At("starting")
    /\ \/ op.aborted /\ Throws /\ UNCHANGED git
       \/ ~op.aborted /\ Goes("committing")
          /\ git' = [running |-> TRUE, parent |-> head.id, hooked |-> FALSE]
    /\ KeepsRepository /\ UNCHANGED <<private, made>>

(* A hook may stage something: it is told of the private Index.            *)
HookStages ==
    /\ git.running /\ trees < MaxTrees
    /\ trees' = trees + 1 /\ private' = [private EXCEPT !.tree = trees + 1]
    /\ git' = [git EXCEPT !.hooked = TRUE]
    /\ UNCHANGED <<index, lock, head, commits, heads, draft, published, made, op, foreign>>

(* The branch is updated only if it still is where git commit found it.    *)
GitUpdatesRef ==
    /\ git.running /\ ~made.exists /\ head.id = git.parent /\ commits < MaxCommits
    /\ commits' = commits + 1 /\ MovesHead([head EXCEPT !.id = commits + 1])
    /\ made' = [exists |-> TRUE, id |-> commits + 1, parent |-> git.parent,
                tree |-> private.tree, hooked |-> git.hooked, message |-> op.draftRevision]
    /\ UNCHANGED <<index, trees, lock, draft, published, private, git, op, foreign>>

(* Its exit: success, an exit code, or none (killed, output too large).    *)
(* Git may fail after it moved HEAD, when it cannot write its Index.       *)
GitExits ==
    /\ At("committing") /\ git' = [git EXCEPT !.running = FALSE]
    /\ ~op.aborted
    /\ \/ made.exists /\ Goes("promoting")
       \/ op' = [op EXCEPT !.pc = "discarding", !.evidence = "failed_known"]
       \/ Throws
    /\ KeepsRepository /\ UNCHANGED <<private, made>>

(* The abort ends the call, not yet the process.                           *)
AbortEndsCall ==
    /\ At("committing") /\ op.aborted /\ Throws
    /\ KeepsRepository /\ KeepsProcess

GitExitsUnseen ==
    /\ op.pc = "threw" /\ git.running /\ git' = [git EXCEPT !.running = FALSE]
    /\ UNCHANGED <<repository, draft, published, private, made, op, foreign>>

(* removeOwnedSentinel: a lock that is removed, one that cannot be, and    *)
(* one that cannot be looked at (the stat), which is left without an error.*)
FreesLock(next) == lock' = "free" /\ Goes(next)
LockResists == UNCHANGED lock /\ Throws
LeavesLock(next) == UNCHANGED lock /\ op' = [op EXCEPT !.pc = next, !.lockUnread = TRUE]
RemoveOwnedSentinel(next) == FreesLock(next) \/ LockResists \/ LeavesLock(next)

(* cleanupKnownFailure; that the private Index resists is ignored.         *)
Discard ==
    /\ At("discarding") /\ private' \in {NoTree, private}
    /\ RemoveOwnedSentinel("returned")
    /\ UNCHANGED <<index, trees, head, commits, heads, git, made>>

(* promote: the private Index becomes the Index, then the lock goes.       *)
Promote ==
    /\ At("promoting")
    /\ \/ index' = private.tree /\ private' = NoTree /\ Goes("releasing")
       \/ UNCHANGED <<index, private>> /\ Throws
    /\ UNCHANGED <<trees, lock, head, commits, heads, git, made>>

Release ==
    /\ At("releasing") /\ RemoveOwnedSentinel("identifying")
    /\ UNCHANGED <<index, trees, head, commits, heads>> /\ KeepsProcess

(* rev-list names the commit of the output, and its parent.                *)
Identify ==
    /\ At("identifying")
    /\ \/ op' = [op EXCEPT !.pc = "returned", !.evidence = "attempted", !.identified = TRUE]
       \/ Throws
    /\ KeepsRepository /\ KeepsProcess

-----------------------------------------------------------------------------
(* A cancellation or the timeout aborts; the session reconciles a timeout  *)
(* while execute runs and every operation after it, and again on recovery. *)
Abort ==
    /\ op.pc \notin {"idle", "returned", "threw"} /\ ~op.aborted
    /\ op' = [op EXCEPT !.aborted = TRUE]
    /\ UNCHANGED <<repository, draft, published, private, git, made, foreign>>

StartReconciliation ==
    /\ op.pc \in {"returned", "threw"} \/ op.aborted
    /\ op.attempt = "idle" /\ op.outcome \in {"none", "unknown_outcome"}
    /\ op' = [op EXCEPT !.attempt = IF op.pc = "returned" THEN op.evidence ELSE "none"]
    /\ UNCHANGED <<repository, draft, published, private, git, made, foreign>>

Ends(outcome) == op' = [op EXCEPT !.attempt = "idle", !.outcome = outcome]

\* Mutant: the parent of the commit is not compared.
ShowsCommitOfAnyParent ==
    /\ op.identified
    /\ published.head.id = made.id /\ made.id # op.initial.head.id
    /\ published.head.branch = op.initial.head.branch

(* HEAD, as the refresh shows it, is the commit that execute identified.   *)
ShowsCommit ==
    /\ op.identified
    /\ published.head.id = made.id /\ made.id # op.initial.head.id
    /\ made.parent = op.initial.head.id
    /\ published.head.branch = op.initial.head.branch

ClearDraft ==
    IF draft.revision = op.draftRevision
      THEN draft' = [revision |-> draft.revision + 1, empty |-> TRUE]
      ELSE UNCHANGED draft

FinishReconciliation ==
    /\ op.attempt # "idle"
    /\ \/ Ends("unknown_outcome") /\ UNCHANGED draft    \* not read, or not fresh
       \/ /\ op.attempt \in {"rejected", "failed_known"}
          /\ Ends(op.attempt) /\ UNCHANGED draft
       \/ /\ op.attempt \in {"attempted", "none"} /\ ShowsCommit
          /\ Ends("succeeded") /\ ClearDraft
    /\ UNCHANGED <<repository, published, private, git, made, foreign>>

-----------------------------------------------------------------------------
Init ==
    /\ index = 0 /\ trees = 0 /\ lock = "free" /\ commits = 0
    /\ head \in [branch: Branches, id: {0}] /\ heads = {head}
    /\ draft = [revision |-> 0, empty |-> FALSE]
    /\ published = [head |-> head, index |-> 0, locked |-> FALSE]
    /\ private = NoTree /\ git = [running |-> FALSE, parent |-> 0, hooked |-> FALSE]
    /\ made = NoCommit /\ op = NotDispatched(published) /\ foreign = 0

Others == ForeignLocks \/ ForeignUnlocks \/ ForeignMovesHead \/ Observe
          \/ \E empty \in BOOLEAN : EditDraft(empty)
Execute == Dispatch \/ CheckTarget \/ WriteExpectedTree \/ InspectHead \/ InspectIndex
           \/ InspectLock \/ TakeLock \/ CopyIndex \/ Verify \/ StartGit \/ GitExits
           \/ AbortEndsCall \/ Discard \/ Promote \/ Release \/ Identify
Next == Others \/ Execute \/ HookStages \/ GitUpdatesRef \/ GitExitsUnseen
        \/ Abort \/ StartReconciliation \/ FinishReconciliation

Spec == Init /\ [][Next]_vars

-----------------------------------------------------------------------------
TypeOK ==
    /\ index \in Nat /\ trees \in Nat /\ lock \in {"free", "ours", "foreign"}
    /\ head \in Head /\ commits \in Nat /\ heads \subseteq Head
    /\ draft \in Draft /\ published \in Snapshot /\ private \in TreeFile
    /\ git \in Process /\ made \in Commit /\ op \in Operation /\ foreign \in Nat

(* What another program staged is never overwritten: the Index that        *)
(* promote replaces is the one that was verified and committed.            *)
StagingIsKept == [][index' # index => lock = "foreign" \/ index = op.expectedTree]_vars

(* Unless a hook changed it, the commit has the tree that was inspected    *)
(* before the lock was taken, whoever staged meanwhile.                    *)
CommitsInspectedTree == made.exists /\ ~made.hooked => made.tree = op.expectedTree

(* Success is reported only of the commit this operation made, on what was *)
(* reviewed, and after HEAD was at it on the reviewed branch; a commit of  *)
(* another program is never taken for it.                                  *)
SuccessIsOurs ==
    op.outcome = "succeeded" =>
        /\ made.exists /\ made.parent = op.initial.head.id
        /\ [op.initial.head EXCEPT !.id = made.id] \in heads

(* A known outcome leaves no process behind, and our lock only if it could *)
(* not be looked at when it was to be removed; a rejected command made no  *)
(* commit.                                                                 *)
KnownOutcomeIsClean ==
    op.outcome \in {"rejected", "failed_known", "succeeded"} =>
        /\ ~git.running
        /\ lock = "ours" => op.lockUnread
        /\ op.outcome = "rejected" => ~made.exists

(* The operation clears the draft only when it is the message of the       *)
(* commit and the commit is verified; what is typed meanwhile stays.       *)
DraftIsKept ==
    [][op' # op /\ draft' # draft =>
          made.exists /\ made.message = draft.revision /\ op'.outcome = "succeeded"]_vars

(* Where execute holds the lock and the private Index, and what it knows   *)
(* of the Index there.                                                     *)
LockIsHeld ==
    /\ op.pc \in {"copying", "releasing"} \cup WithPrivateIndex => lock = "ours"
    /\ lock = "ours" => \/ op.pc \in {"copying", "releasing", "threw"} \cup WithPrivateIndex
                        \/ op.pc \in {"identifying", "returned"} /\ op.lockUnread
    /\ op.pc \in WithPrivateIndex => private.exists
    /\ op.pc \in {"starting", "committing", "promoting"} => index = op.expectedTree
    /\ op.pc = "verifying" => private.tree = index
    /\ op.pc = "starting" => private.tree = op.expectedTree
    /\ git.running /\ ~git.hooked => private.tree = op.expectedTree

(* What the process did, as far as execute has come.                       *)
CommitIsTracked ==
    /\ git.running => op.pc \in {"committing", "threw"} /\ op.evidence = "none"
    /\ op.pc = "committing" => git.running
    /\ made.exists => /\ op.pc \notin BeforeGit
                      /\ op.evidence # "rejected"
                      /\ made.message = op.draftRevision
    /\ op.pc \in {"promoting", "releasing", "identifying"} => made.exists
    /\ head \in heads /\ published.head \in heads

(* What is known of execute, and what reconciliation made of it.           *)
EvidenceIsKnown ==
    /\ op.evidence # "none" => op.pc \in {"discarding", "returned", "threw"}
    /\ op.identified => op.pc = "returned" /\ op.evidence = "attempted" /\ made.exists
    /\ op.evidence = "attempted" => op.identified
    /\ op.attempt \in Known => op.pc = "returned" /\ op.attempt = op.evidence
    /\ op.outcome \in Known => op.pc = "returned" /\ op.attempt = "idle"
    /\ op.outcome \in {"rejected", "failed_known"} => op.outcome = op.evidence

(* The inductive invariant of the transaction.                             *)
CommitInv ==
    /\ TypeOK /\ LockIsHeld /\ CommitIsTracked /\ EvidenceIsKnown
    /\ CommitsInspectedTree /\ SuccessIsOurs
=============================================================================
