------------------------- MODULE RepositoryPublication -------------------------
(***************************************************************************)
(* How one Repository Session reads the repository and publishes what it   *)
(* read.  Sources, under packages/repository-engine/src:                   *)
(*   repository-publication.ts   generations, publication, supersession    *)
(*   repository-observation.ts   the coherent observation of one read      *)
(*   observation-publication.ts  what a scoped or failed read retains      *)
(*   repository-engine.ts        open().read                               *)
(*                                                                         *)
(* Git and other tools change the repository at any time.  Facts are       *)
(* represented by version numbers: the shared refs (with the remote        *)
(* configuration), and per worktree its HEAD, Index, status and changes.   *)
(* A later state is a different state: a change that is undone is not      *)
(* represented.  The worktree topology is one more fact of full reads and  *)
(* stays fixed; ids and the text of facts are left out.                    *)
(* Reads are the calls of readSnapshot in progress.                        *)
(***************************************************************************)
EXTENDS Naturals

CONSTANTS Worktrees, Reads,
          MaxAttempts,    \* MAX_COHERENCE_ATTEMPTS
          MaxRefsChanges, MaxWorktreeChanges,   \* bounds on the changes others make
          MaxReads        \* bound on the number of reads

ASSUME PublicationAssumption ==
    MaxAttempts \in Nat \ {0} /\ MaxReads \in Nat

VARIABLES
    repo,         \* the truth: version of the refs and of each worktree
    generation, closed, published, reads,
    requested     \* the truth when the latest read was requested, for properties

vars == <<repo, generation, closed, published, reads, requested>>

Facts == [refs: Nat, worktree: [Worktrees -> Nat]]

(* The published snapshot.  seenWith[w] is the version of the refs when    *)
(* the state of w was read; it is not in the code and serves a property.   *)
Snapshot == [exists: BOOLEAN, refs: Nat, worktree: [Worktrees -> Nat],
             freshness: [Worktrees -> {"fresh", "stale", "failed"}],
             refresh: {"fresh", "stale"}, revision: Nat,
             seenWith: [Worktrees -> Nat]]

(* One worktree as a read has seen it.                                     *)
Sample == [kind: {"pending", "fresh", "failed"}, version: Nat, seenWith: Nat]
Pending == [kind |-> "pending", version |-> 0, seenWith |-> 0]
Failed == [kind |-> "failed", version |-> 0, seenWith |-> 0]
AllPending == [w \in Worktrees |-> Pending]

Read == [stage: {"idle", "shared", "worktrees", "observed", "failed"},
         generation: Nat, scope: SUBSET Worktrees, attempt: Nat,
         refs: Nat, sample: [Worktrees -> Sample]]

NoSnapshot == [exists |-> FALSE, refs |-> 0, worktree |-> [w \in Worktrees |-> 0],
               freshness |-> [w \in Worktrees |-> "failed"],
               refresh |-> "fresh", revision |-> 0,
               seenWith |-> [w \in Worktrees |-> 0]]

Idle == [stage |-> "idle", generation |-> 0, scope |-> {}, attempt |-> 0,
         refs |-> 0, sample |-> AllPending]

-----------------------------------------------------------------------------
(* The repository, changed by anyone (after close() it is of no interest). *)
ChangeRefs ==
    /\ ~closed /\ repo.refs < MaxRefsChanges
    /\ repo' = [repo EXCEPT !.refs = @ + 1]
    /\ UNCHANGED <<generation, closed, published, reads, requested>>

ChangeWorktree(w) ==
    /\ ~closed /\ repo.worktree[w] < MaxWorktreeChanges
    /\ repo' = [repo EXCEPT !.worktree[w] = @ + 1]
    /\ UNCHANGED <<generation, closed, published, reads, requested>>

-----------------------------------------------------------------------------
(* Reading.  A scoped read reuses the topology of the published snapshot;  *)
(* without one it becomes a full read.  After close(), which aborts every  *)
(* read, a read can only fail: what it still sees goes nowhere.            *)
NewRead(number, scope) ==
    [Idle EXCEPT !.stage = "shared", !.generation = number, !.scope = scope]

StartRead(r, scope) ==
    /\ ~closed /\ reads[r].stage = "idle"
    /\ generation < MaxReads
    /\ generation' = generation + 1
    /\ reads' = [reads EXCEPT ![r] =
           NewRead(generation + 1, IF published.exists THEN scope ELSE Worktrees)]
    /\ requested' = repo
    /\ UNCHANGED <<repo, closed, published>>

ObserveShared(r) ==
    /\ ~closed /\ reads[r].stage = "shared"
    /\ reads' = [reads EXCEPT ![r].stage = "worktrees", ![r].refs = repo.refs]
    /\ UNCHANGED <<repo, generation, closed, published, requested>>

(* A failure of one worktree is a result of its own.                       *)
ObserveWorktree(r, w) ==
    /\ ~closed /\ reads[r].stage = "worktrees"
    /\ w \in reads[r].scope /\ reads[r].sample[w].kind = "pending"
    /\ \E seen \in {[kind |-> "fresh", version |-> repo.worktree[w],
                     seenWith |-> repo.refs], Failed} :
          reads' = [reads EXCEPT ![r].sample[w] = seen]
    /\ UNCHANGED <<repo, generation, closed, published, requested>>

(* What is left of a read that failed.                                     *)
FailedRead(read) == [Idle EXCEPT !.stage = "failed", !.generation = read.generation]

Retried(read, refs) ==
    [read EXCEPT !.attempt = read.attempt + 1, !.refs = refs, !.sample = AllPending]

(* The refs are read again: if they moved, so may have the worktrees.      *)
CompareShared(r) ==
    /\ ~closed /\ reads[r].stage = "worktrees"
    /\ \A w \in reads[r].scope : reads[r].sample[w].kind # "pending"
    /\ LET read == reads[r]
           next == IF repo.refs = read.refs
                   THEN [read EXCEPT !.stage = "observed", !.attempt = 0]
                   ELSE IF read.attempt + 1 = MaxAttempts THEN FailedRead(read)
                   ELSE Retried(read, repo.refs)
       IN  reads' = [reads EXCEPT ![r] = next]
    /\ UNCHANGED <<repo, generation, closed, published, requested>>

(* Git fails, or the read is aborted by a newer publication or by close(). *)
ReadFails(r) ==
    /\ reads[r].stage \in {"shared", "worktrees"}
    /\ reads' = [reads EXCEPT ![r] = FailedRead(@)]
    /\ UNCHANGED <<repo, generation, closed, published, requested>>

-----------------------------------------------------------------------------
(* readSnapshot after its await.  The answer, unless it is an error, is    *)
(* what is published when it is given.                                     *)
Ended(r) == reads[r].stage \in {"observed", "failed"}
Answer(r) == reads' = [reads EXCEPT ![r] = Idle]
Answered(r) == Ended(r) /\ reads'[r] = Idle

AnswerClosed(r) ==
    /\ Ended(r) /\ closed
    /\ Answer(r)
    /\ UNCHANGED <<repo, generation, closed, published, requested>>

(* A newer read exists: this one publishes nothing, and the caller gets    *)
(* what is published (an error if nothing is).                             *)
NeverSuperseded(r) == FALSE       \* mutant: the generations are not compared
Superseded(r) == reads[r].generation # generation

AnswerSuperseded(r) ==
    /\ Ended(r) /\ ~closed /\ Superseded(r)
    /\ Answer(r)
    /\ UNCHANGED <<repo, generation, closed, published, requested>>

(* A failed read keeps the last snapshot and marks it stale.               *)
PublishStaleSilently(r) ==        \* mutant: the failure is not shown
    /\ reads[r].stage = "failed" /\ ~closed /\ ~Superseded(r)
    /\ Answer(r)
    /\ UNCHANGED <<repo, generation, closed, published, requested>>
PublishStale(r) ==
    /\ reads[r].stage = "failed" /\ ~closed /\ ~Superseded(r)
    /\ Answer(r)
    /\ published' = IF published.exists /\ published.refresh = "fresh"
                    THEN [published EXCEPT !.refresh = "stale", !.revision = @ + 1]
                    ELSE published
    /\ UNCHANGED <<repo, generation, closed, requested>>

(* publishObservedFacts for one worktree: read afresh; read and failed; or *)
(* out of scope, when it is retained and stale once the refs have moved.   *)
FreshnessKept(refs, w) == published.freshness[w]   \* mutant of RetainedFreshness
RetainedFreshness(refs, w) ==
    IF refs # published.refs THEN "stale" ELSE published.freshness[w]

Freshness(read, w) ==
    IF w \notin read.scope THEN RetainedFreshness(read.refs, w)
    ELSE IF read.sample[w].kind = "fresh" THEN "fresh"
    ELSE IF published.freshness[w] = "failed" THEN "failed" ELSE "stale"

(* repositoryRevision: a fact of the refs or of a worktree changed, or the *)
(* previous snapshot was stale.                                            *)
RevisionIgnoringRecovery(refs, worktree, freshness) ==   \* mutant of Revision
    IF published.exists /\ <<refs, worktree, freshness>> =
                           <<published.refs, published.worktree, published.freshness>>
    THEN published.revision ELSE published.revision + 1
Revision(refs, worktree, freshness) ==
    IF published.exists /\ published.refresh = "fresh"
       /\ <<refs, worktree, freshness>> =
          <<published.refs, published.worktree, published.freshness>>
    THEN published.revision ELSE published.revision + 1

Candidate(read) ==
    LET seen == {w \in read.scope : read.sample[w].kind = "fresh"}
        worktree == [w \in Worktrees |-> IF w \in seen THEN read.sample[w].version
                                         ELSE published.worktree[w]]
        freshness == [w \in Worktrees |-> Freshness(read, w)]
    IN  [exists |-> TRUE, refs |-> read.refs, worktree |-> worktree,
         freshness |-> freshness, refresh |-> "fresh",
         revision |-> Revision(read.refs, worktree, freshness),
         seenWith |-> [w \in Worktrees |-> IF w \in seen THEN read.sample[w].seenWith
                                           ELSE published.seenWith[w]]]

(* What a caller is given of a snapshot.  A candidate that is the same to  *)
(* it is not published.                                                    *)
External(s) == [s EXCEPT !.seenWith = NoSnapshot.seenWith]

PublishObservation(r) ==
    /\ reads[r].stage = "observed" /\ ~closed /\ ~Superseded(r)
    /\ Answer(r)
    /\ LET candidate == Candidate(reads[r])
       IN  published' = IF External(candidate) = External(published) THEN published
                        ELSE candidate
    /\ UNCHANGED <<repo, generation, closed, requested>>

Close ==
    /\ ~closed
    /\ closed' = TRUE /\ generation' = generation + 1
    /\ UNCHANGED <<repo, published, reads, requested>>

-----------------------------------------------------------------------------
Init ==
    /\ repo = [refs |-> 0, worktree |-> [w \in Worktrees |-> 0]]
    /\ requested = repo
    /\ generation = 0 /\ closed = FALSE
    /\ published = NoSnapshot
    /\ reads = [r \in Reads |-> Idle]

ReadStep(r) ==
    \/ ObserveShared(r) \/ CompareShared(r) \/ ReadFails(r)
    \/ \E w \in Worktrees : ObserveWorktree(r, w)
    \/ AnswerClosed(r) \/ AnswerSuperseded(r)
    \/ PublishStale(r) \/ PublishObservation(r)

Next ==
    \/ ChangeRefs \/ \E w \in Worktrees : ChangeWorktree(w)
    \/ \E r \in Reads : \/ \E scope \in (SUBSET Worktrees) \ {{}} : StartRead(r, scope)
                        \/ ReadStep(r)
    \/ Close

Spec == Init /\ [][Next]_vars

-----------------------------------------------------------------------------
(* The types of the variables.                                             *)
TypeOK ==
    /\ repo \in Facts /\ requested \in Facts /\ generation \in Nat /\ closed \in BOOLEAN
    /\ published \in Snapshot
    /\ reads \in [Reads -> Read]

(* A snapshot is coherent: a worktree it calls fresh was read while the    *)
(* refs were those the same snapshot shows, however many reads of other    *)
(* scopes contributed to it ("coherent for its declared revisions").       *)
CoherentSnapshot ==
    \A w \in Worktrees :
        published.freshness[w] = "fresh" => published.seenWith[w] = published.refs

(* Every read in progress has a generation of its own.                     *)
Active(r) == reads[r].stage # "idle"
GenerationsDiffer ==
    /\ \A r \in Reads : Active(r) => reads[r].generation <= generation
    /\ \A r, q \in Reads : Active(r) /\ Active(q) /\ r # q
                            => reads[r].generation # reads[q].generation

(* What the latest read has seen lies between its request and now, and the *)
(* refs it holds do not come after those its worktrees were read with.     *)
ReadIsBetween(read) ==
    LET latest == read.generation = generation
    IN  IF read.stage \in {"worktrees", "observed"}
        THEN /\ read.refs <= repo.refs
             /\ latest => requested.refs <= read.refs
             /\ \A w \in Worktrees : read.sample[w].kind = "fresh" =>
                  /\ latest => requested.worktree[w] <= read.sample[w].version
                  /\ read.sample[w].version <= repo.worktree[w]
                  /\ read.refs <= read.sample[w].seenWith
                  /\ read.sample[w].seenWith <= repo.refs
        ELSE \A w \in Worktrees : read.sample[w] = Pending

(* The second look at the refs makes the observation coherent.             *)
ObservedTogether(read) ==
    read.stage = "observed" =>
        \A w \in Worktrees : read.sample[w].kind = "fresh"
                                => read.sample[w].seenWith = read.refs

(* The request of the latest read is of the past, and so is the snapshot;  *)
(* until that read ends the snapshot is even older than its request, for   *)
(* nobody else can publish.                                                *)
SnapshotPrecedes ==
    /\ requested.refs <= repo.refs
    /\ published.refs <= repo.refs
    /\ \A w \in Worktrees : /\ requested.worktree[w] <= repo.worktree[w]
                            /\ published.worktree[w] <= repo.worktree[w]
    /\ \A r \in Reads : Active(r) /\ ~Superseded(r) =>
          /\ published.refs <= requested.refs
          /\ \A w \in Worktrees : published.worktree[w] <= requested.worktree[w]

(* The inductive invariant of the reads and the snapshot.                  *)
PublicationInv ==
    /\ TypeOK
    /\ CoherentSnapshot
    /\ GenerationsDiffer
    /\ \A r \in Reads : ReadIsBetween(reads[r]) /\ ObservedTogether(reads[r])
    /\ SnapshotPrecedes

(* Two published snapshots with the same revision are the same, so that a  *)
(* client may compare revisions instead of contents.                       *)
RevisionCounts ==
    External(published') # External(published) =>
        published'.revision > published.revision
RevisionIdentifiesSnapshot == [][RevisionCounts]_vars

(* Reads overlap and end in any order; what is published never goes back   *)
(* to an older state of the refs or of a worktree.                         *)
NeverGoesBack ==
    /\ published'.refs >= published.refs
    /\ \A w \in Worktrees : published'.worktree[w] >= published.worktree[w]
PublishedNeverGoesBack == [][NeverGoesBack]_vars

(* What a read that no newer one superseded shows as fresh is at least as  *)
(* new as the repository was when the read was requested.                  *)
Covers(snapshot, read) ==
    /\ snapshot.refs >= requested.refs
    /\ \A w \in read.scope :
          snapshot.freshness[w] = "fresh"
              => snapshot.worktree[w] >= requested.worktree[w]
AnswerIsCurrent ==
    \A r \in Reads :
        Answered(r) /\ ~closed /\ ~Superseded(r)
        /\ published'.exists /\ published'.refresh = "fresh"
            => Covers(published', reads[r])
LatestReadIsCurrent == [][AnswerIsCurrent]_vars
=============================================================================
