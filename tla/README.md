# Verification of codex-git

codex-git serves one local Git repository to a browser UI, standalone or inside
the Codex desktop app: a TypeScript engine observes the repository, publishes
immutable snapshots and runs Git commands as *operations* with a result that is
reconciled against the repository; a loopback HTTP server, a launcher, a UI store
and a host adapter stand around it.  This directory holds TLA+ models of the engine's
concurrent core and of the parts around it that keep state, the TLC configurations that check
them, and theorems checked by TLAPS.

The program is one JavaScript thread, so an *action* here is one turn of the
event loop: from a call, a timer or a settled promise to the next `await`.

## 1. Inventory

| Component (under `src/`) | State | Operations and interactions | What is hard | What makes it correct |
|---|---|---|---|---|
| Operation coordination, `operation-coordinator.ts` | none | derives a lane and state claims from a target, compares two | claims of different lanes overlap | operations that interfere conflict, but in a branch one of them creates |
| Operation session, `operation-session.ts`, `operation-coordinator-lifecycle.ts`, `operation-lifecycle.ts` | records with lease, phase, execution, result; retention queue; open/closing/closed | dispatch, run, reconcile, cancel, recover, time out, close; calls the `execute` and `reconcile` hooks of the repository session, publishes summaries | a process that outlives its timeout, late exits, recovery, shutdown | exclusion, one final known result, everything settles, close resolves |
| Publication, `repository-publication.ts`, `repository-observation.ts`, `observation-publication.ts`, `repository-engine.ts` | generation, published snapshot, reads in progress | snapshot, full and scoped refresh, close; many Git reads per refresh | reads overlap and end in any order, the repository moves meanwhile | coherent, monotonic, current snapshots |
| Repository session, `repository-session.ts` | latest snapshot, operation summaries, drafts, branch bindings | one `execute`/`reconcile` pair per command; merges summaries into snapshots | preconditions and results read from snapshots that may be old | outcomes tell the truth |
| Refresh scheduler, `repository-refresh.ts` | debounce timer, pending scope, foreground count | file events, polls, foreground reads, dispatch | no lost invalidation | the snapshot catches up |
| Invalidation delivery, `invalidation-stream.ts`, `event-stream.ts`, `standalone-runtime.ts`, `protocol-repository-source.ts` | bounded queue and history, connections, requests of the window | publish, pump, subscribe, replay, request, settle | overflow, reconnection, events during a request | the window catches up, and never goes back |
| Discovery, `repository-engine.ts` | identities of worktrees with their evidence, session generation | list and resolve the registrations, check that the repository is the same before and after, publish | a path that is registered again, a repository that is replaced, reads that overlap | an id never passes to another worktree, a session shows one repository |
| Commit drafts, `repository-session.ts` 1010-1045 and 2200-2207, `repository-store.ts` | text and revision per worktree; in a window the text, the revision it believes, writes and loads in flight | get, compare-and-set update, clear by a commit; type, load, write, retry after a conflict, submit | two windows, a commit that clears what is typed, lost calls | a commit takes the text that is shown, only committed text goes |
| Protocol dispatch, `protocol-dispatch.ts` | command records, native action table | commands, snapshots, native actions; calls the runtime's handlers | retries, collisions, answers out of order | one execution per command id, actions on current targets, every request is answered |
| Commit transaction, `repository-session.ts` 2550-2745 | private index, index lock | begin, promote, clean up | failure between the steps | the index is never half written, a known outcome leaves the lock only if it could not be read |
| Branch switch and remote operations, `repository-session.ts` 337-1310 and 2225-2445, `remote-operation.ts` | evidence of `execute`, captured snapshot | push, pull, publish, fetch, switch; a fetch verifies a publication and every outcome | the exit status says little, the server and the refs move, aborted processes go on | reported effects are real, known failures are true |
| Git read policy, `git-read-policy.ts` | queue, running count, shared reads | run | bounded concurrency | every read runs |
| UI store and source, `repository-store.ts`, `protocol-repository-source.ts` | view state, drafts, requests | user actions, HTTP calls, events | answers out of order, draft conflicts | no lost draft, no stale view |
| Host adapter, `codex-cdp/src` and `codex-runtime.ts` | target last seen, missing polls, renderers, bypass leases, flags of connection and runtime | launch, attach, poll, replace, reinstall, degrade, fall back, close | replacement, reload, broken session, refused command and close at once | mounted only under the bypass, nothing left behind that was not refused, follows the page or gives it up |
| Protocol schemas, launcher wiring, UI views, Git output parsers | | | | not modelled: declarative or presentation |

`PROJECT.json` lists the components with their status, and under `hazards` the
places where this code is hard to test.

## 2. Modules

| Module | Models | Composes |
|---|---|---|
| `OperationCoordination` | targets, claims, lanes, `Conflicts`; `Interferes`, from what Git really writes and relies on | |
| `OperationContract` | abstract: what the session promises about one operation | |
| `OperationSession` | the session and its lifecycle store, all operations | `OperationCoordination`, implements `OperationContract` |
| `OperationSessionInv` | the inductive invariant `IInv` | `OperationSession` |
| `SessionProofs` | theorems about `OperationCoordination`, `OperationSession` and `WorktreeDiscovery` | |
| `RepositoryPublication` | reads, generations, publication, supersession, stale retention | |
| `RepositoryPublicationProofs` | theorems about `RepositoryPublication` and `FileMutation` | |
| `RefreshScheduler`, `RefreshSchedulerProofs` | events, debounce, polls, background and foreground reads, dispatch | |
| `FileMutation` | stage and unstage: preconditions, per-file execution, reconciliation, recovery | `RepositoryPublication` |
| `InvalidationDelivery` | session stream, launcher's pump, event broker, connection and snapshot requests of a window | |
| `CommitTransaction`, `CommitTransactionProofs` | a commit: checks, Index lock, private Index, process, hooks, reconciliation, draft | |
| `GitRefs` | mostly external: branches, a remote branch and its tracking ref, the Git processes that move them | |
| `RefCommands`, `RefCommandsProofs` | push, pull, publish and branch switch among other programs | `GitRefs` |
| `WorktreeDiscovery` | overlapping discoveries, identities of registrations, continuity of the repository, the target of a mutation | |
| `CommitDraft`, `CommitDraftProofs` | the session's draft of a worktree and the windows that type, load, write and submit it | |
| `CommandOnce` | abstract: what the protocol promises about a client command id | |
| `ProtocolDispatch`, `ProtocolDispatchProofs` | commands under client ids, snapshots, native actions | implements `CommandOnce` |
| `DedicatedHost` | runtime, instance, connection, renderers and bypass leases of the dedicated host | |
| `LauncherProofs` | theorems about `InvalidationDelivery` and `DedicatedHost` | |
| `MC*` | symmetry and values for TLC | |

### OperationSession

A record has the fields of the code's `SessionRecord`: `phase`, `lease`, `result`,
`execution`, `cancellationRequested`, `timedOut`, the armed timer, the attempt in
progress (`reconciling`).  `process` is the promise of `execute()` and `run` the place
where `#run` is, because those two outlive each other: a timeout is reconciled while the
process runs, and its exit is reconciled after.  `published` is the last summary the
observer got.  One action per handler: `Admit`, `RejectBusy`, `AdmitInterrupted`,
`ProcessExits`, `ResumeRun`, `OperationTimesOut`, `Cancel`, `Recover`, `StartAttempt`,
`FinishAttempt`, `Close`, `CloseDrained`, `CloseTimesOut`.  What a hook returns is
abstracted to known or unknown; targets are members of small sets of worktrees, refs and remotes.
A target of `OperationCoordination` has one field the code's has not: `creates`, the local branch the
command will create (the first commit on an unborn HEAD, a switch to a Remote-tracking Branch).  `Claims` does not read it,
`Writes` and `ReliesOn` do.

### RepositoryPublication

Facts are version numbers, one for the shared refs and the remote configuration, one
per worktree for its HEAD, Index, status and changes; Git and other programs raise them.
A read goes through the stages of `observe`: the refs, each worktree of its scope, the
refs again; if they moved it starts over, `MaxAttempts` times.  After its await
`readSnapshot` compares its generation with the newest and answers or publishes.
`seenWith` (the refs at the time a worktree was read) and `requested` (the repository
when the latest read was requested) are not in the code and serve the properties.

### FileMutation

`execute` and `reconcile` of stage and unstage, whose refreshes are reads of
`RepositoryPublication`; other clients start reads too.  A Git process changes the
worktree or not, whatever its exit status.  The command continues in the step that
answers its read, because only microtasks lie between the two.

### RefreshScheduler

The scope of a read is the set of worktrees it observes: all, the selected one or the
others.  `pending`, `background` and `debounce` are the variables of the code;
a call of a client is somewhere between its start and its end, and
`foregroundRefreshes` counts those that are in the foreground.  What a read
publishes, and to whom it answers, is `RepositoryPublication`'s subject; here a read succeeds,
fails or gives way, and what it saw is a version number per worktree.
`latest`, `since`, `stale` and `unread` are history: the state of the worktrees, what a read in
progress has still to see, and the events no read has covered.

### InvalidationDelivery

`stream` is the subscription of the launcher: its bounded queue, and the event its pump
was resolved with.  `broker` numbers events and keeps the last few; `link` is the
connection of one window (clients of the broker do not affect each other), with what was written and not yet
received; `source` and `requests` are the window's protocol source.  A
snapshot is the number of its revision.  A connection that breaks delivers a prefix of what was
written, and the browser reconnects with the last id it saw, if it saw one.  The launcher
starts its pump only if its first refresh found a repository.  `due` is history: the
newest revision published while the window listened.

### CommitTransaction

`op.pc` is the `await` where `execute` is; `index`, `lock`, `head` are the worktree's, which
other programs change as Git allows: the Index by the holder of its lock, HEAD
at any time.  `op.lockUnread`: `removeOwnedSentinel` could not read the lock and returned without removing it,
which the code does not tell from a lock that is somebody else's.  Every file operation and every Git call may fail, with the clean-up that the code
does or omits there.  `git` and its hooks run beside `execute`: an abort makes
`execFile` fail at once, and the process may still commit.  A refresh is answered with the snapshot
published last, which any other read may have published (`Observe`): that is
what `RepositoryPublication` leaves to rely on.  Trees, commits and texts are numbers.

### RefCommands

One command at a time, from the snapshot it was given on to the outcome the session keeps.
`op.pc` is the `await` of `execute`: the refresh, the second look at the configured upstream (push, pull),
the process, and for a publish the fetch that verifies it and the configuration of the
upstream.  `git` runs beside it, reads the commit first and moves the ref later, and survives an abort.
`op.attempt` is a reconciliation: a fetch from the server unless the command cannot have
changed anything, a refresh, and the comparison of its snapshot with what was confirmed.
A timeout is reconciled once while `execute` runs, and its outcome stays unknown; unknown outcomes
are reconciled again.  Snapshots are answered as in `CommitTransaction`.  `server` is the remote's branch, which anybody may
move or delete, by force too; `served` and `attempt.current` are history: what the
server has had since the dispatch, and that a read was published after an attempt asked for one.

### WorktreeDiscovery

A directory is the number of its incarnation.  `repository`, `admin`, `directory` and `link` are the
common Git directory, the registrations, the working trees and what their `.git` files name (their own
Git directory, the common one, or one elsewhere); other
programs remove, make again, move or redirect them, or replace the repository and put it back (`aside` is what they
put back, `undone` what they took away: history for `OneRepositoryIsPublished`).  A read checks the repository, lists the
registrations, and for each one looks at the directory, asks Git for its Git directory, follows the backlink and looks
at that directory, one await after the other and the registrations in any order; it checks the repository again and ends.
One that a newer read overtook publishes nothing.  `generations` is the
code's map: an id for each path, with the evidence it was issued for.  A mutation names a worktree of the
snapshot, looks it up, inspects it once and again for each file, and starts Git.  An inspection reads
the paths from Git and then, in any order, the three identities, with other programs' steps between any two of these and
before Git starts; one that does not agree refuses the command, or one file of it.  `since` is history: the step at which the
inspection under way began.

### CommitDraft

`drafts` holds the session's texts by revision; the code keeps the last.  A window has what the store has: the text it
shows, the revision it believes (none until its first load), whether its user has touched the
text, its load and its write loop (`queueDraftWrite`): set, on a refusal get and set once more, and another
round while the text has changed.  A commit waits for the writes, is sent with the revision the
window believes unless a load or a write has failed, takes the session's text if that is still its revision, and
clears it on success if it still is then.  A call may be lost on its way to the server or back.

### ProtocolDispatch

A request is one HTTP exchange; a client that lost an answer sends another one with the same body.
`phase` says how far its dispatch has come, `commandRecords` is the code's map from a client
command id to fingerprint and response, `issuedNativeActions` its table.  A snapshot request joins
the refresh another one has asked for; a native action reads the repository itself.  A read that fails or is overtaken
answers with what is published (`Answers`), as it was or marked stale, or with an
error (the session is closed, or such a failure is not retained); an answer the schema refuses is an error too.
Targets vanish for good, for an id is given once.  `started` and `since` are history.

### DedicatedHost

`listed` is the page a discovery would find.  The instance polls it and tells the connection of a page that
has changed, or that was missing `MaxMissing` times; the connection replaces its renderer, one
replacement after the other, or degrades; the runtime then falls back to the standalone surface.
A renderer goes through acquisition of its lease, installation and attachment.  A
reload of the page takes the bridge out of it and ends the bypass of its sessions; every reload that an attached renderer hears
queues a reinstallation, which turns the bypass on, then mounts the bridge, or tries again, or gives up, each a step of its
own; one under way goes on when the renderer is closed, and the close waits for it.  Whoever is still connecting hears
nothing (`unheard`).  A session may break at any time, and a command may be refused on one that is open: `refused` says
which of bridge and lease a close could not take back.  A lease that is refused stays counted, and
a close that could not release it does not come to the session.  `close()` of the runtime closes connection and instance at once.

## 3. Runs

| Run | Instance | Shows |
|---|---|---|
| `session` | 2 operations whose targets share a worktree and a remote or create one branch, retention 1 | all orders of admission, exit, timeout, cancellation, recovery and close: exclusion, retention, retry, the contract; dispatches settle, close resolves, late exits are reconciled |
| `publication` | 2 worktrees, 3 reads of which 2 overlap, 1 change per fact, 2 attempts | coherence, monotonicity, currency, revisions |
| `scheduler` | 2 worktrees (the selected one, another), 2 calls, 2 changes, 1 failure | background reads give way to operations, changes are published in the end, dispatches end |
| `file_mutation` | 2 files, 1 worktree, 4 reads of which 2 overlap, 1 foreign change | what an outcome claims holds |
| `commit_transaction` | 2 branches, 2 new trees, 2 new commits, 2 steps of other programs besides the release of their lock, 1 edit of the draft | nothing staged is lost or committed unseen, outcomes are true, known outcomes leave the Index free unless its lock could not be read |
| `ref_commands` | 3 commits (a common one, one of the repository, one of somebody else), every initial repository of 2 branches whose second one is at the common commit, 1 step of another program on the server or here | reported effects are real, known failures true, upstreams configured for published branches only |
| `invalidation_delivery` | 3 revisions, queue and history of 1, 2 breaks, 1 failed request, 1 refresh, 1 operation | the window never goes back and catches up, whatever is lost |
| `invalidation_first_load` | 2 revisions, nothing fails | the first disagreement below |
| `protocol_dispatch` | 3 requests of any kind, 1 id, 2 commands, 1 target, 3 states of the repository | a command runs once and its receipts agree, actions are performed on current targets, every request is answered |
| `worktree_discovery` | a main and a linked worktree, 3 reads of which 2 overlap, 2 changes | an id stays with its registration, one repository is published, a mutation runs where it was shown unless something changed after its last inspection began |
| `commit_draft` | 2 windows (3 edits of two texts, 1 edit of another), 1 commit, 1 lost call | the revision a window believes names what it shows, a commit takes what is shown, only committed text goes, the windows come to rest |
| `dedicated_host` | 2 pages that may be listed again, 2 polls until the page is given up, 3 events of any kind (another page or none, a reload, a broken session or process, a repeated installation) | mounted only under the bypass but for two exceptions, nothing left behind that was not refused, the host follows the page or gives it up |

*Why the bounds are enough.* Exclusion, retention and the contract concern pairs of operations
(the proofs cover any number).  A wrong publication needs an
older read, a newer one and an earlier snapshot: three reads, two at once.  A
scoped read leaves a worktree out, so there are two.  With two calls a dispatch overlaps a foreground read or
another dispatch (the proofs cover any number); two changes put one before a read and one during it, and the failure delays the second.
Partial success needs two files; four reads are the first snapshot, the precondition, the reconciliation and one read of
another client at any time (or a recovery).
A commit is endangered by one foreign
staging, one foreign commit or change of branch, one hook and one edit, before or after each check;
two foreign steps let the lock be taken and HEAD moved in the same behaviour.
A queue and a history of one overflow with the second event; two breaks
sever a connection and then its replay.
Three commits give a branch that is equal, ahead, behind or diverged; one step of
another program falls between any two steps of the command (the proofs cover any number).
Three requests are a command, its repetition and a collision, or an old snapshot answer, a newer one and an
action (the proofs cover any number).  Two changes remove a worktree and make it again; three reads show it,
overlap the changes and show the result.  Three edits put a text before, during and after a write,
the other window's one makes it conflict, and the commit falls anywhere (3 edits and 2 commits
were also checked).  Three events list another page and the first one again, or a
reload, a second one during the reinstallation and a broken session.

*The one constraint.* `worktree_discovery` does not interleave the steps of reads with the inspections of a
command (`ReadsRest`): these read nothing that a read writes, nor the other way round.  Other programs are interleaved with both,
and reads with the command until it has looked up its target.

*Deadlock* is not checked: sessions may be idle, and the bounds end the behaviours.

*Fairness.*  `session`: weak fairness for timers, for microtasks (the
start of an attempt, the resumption of `#run`) and for the hooks' reconciliations,
which are bounded by the Git read timeouts; none for the exit of a process nor for
any call of a client: a Git process may hang for ever, and nobody need cancel, recover or close.
`LateExitIsReconciled` starts from an exit that happens.
`scheduler`: weak fairness for the two short polls (interval timers), the
end of a read (Git reads time out) and the end of an operation (the session settles it);
none for the debounce timer, which every event restarts and which may thus never fire.

`invalidation_delivery`: weak fairness for the pump, the connection, the negotiation, the server's answers and the
settling of requests (promises settle and an `EventSource` reconnects and delivers); the bounds on breaks and
failures say that these do not go on for ever.  None for a new revision, a refresh or the user.

`protocol_dispatch`: weak fairness for microtasks, for handlers, which are answered when an
operation is admitted or settled (`EveryDispatchSettles`), and for reads (Git has time limits); none for the clients.
`commit_draft`: weak fairness for the tasks of the windows, for calls, which are answered or fail, and for the end of a
commit, which has a deadline; none for users.  `dedicated_host`: weak fairness for the timer that polls, for
commands of a session, which are answered or fail with it, and for waits, which have an end; none for pages,
reloads, breaks or the user's close.

*A property per hazard.*  `NoInterference` (lanes do not suffice),
`ClosingAbortsProcesses`, `RetentionKeepsUnresolved`, `RetryAllowedIsSafe`,
`EveryDispatchSettles`, `CloseResolves`, `LateExitIsReconciled`,
`ImplementsContract` for the session; `CoherentSnapshot`, `PublishedNeverGoesBack`,
`LatestReadIsCurrent`, `RevisionIdentifiesSnapshot` for publication;
`OperationsRunAlone`, `CatchesUp`, `DispatchesEnd` for the scheduler;
`ViewNeverGoesBack`, `DueIsShown` for delivery;
`ReportedSuccessIsReal`, `RejectedChangedNothing`, `KnownFailureIsObserved` for
mutations; `CommitsInspectedTree`, `StagingIsKept`, `SuccessIsOurs`, `KnownOutcomeIsClean`
for commits; `SuccessIsReal`, `KnownFailureIsObserved`, `UpstreamAfterPublication` for
the commands on refs; `ImplementsCommandOnce`, `PerformedOnCurrentTarget`, `EveryRequestIsAnswered` for the
protocol; `IdsFollowRegistrations`, `OneRepositoryIsPublished`, `MutationRunsWhereShown` for discovery;
`RevisionNamesShownText`, `CommitTakesShownText`, `OnlyCommittedTextIsTaken`, `WindowsComeToRest` for drafts;
`MountedUnderBypass`, `NothingIsLeftBehind`, `FollowsTarget` for the host.
Every one is violated by a mutant of the code that `PROJECT.json` names; the mutated operators stand before the
ones they replace and are marked as mutants.  The inductive invariants of the proofs were
checked by TLC while they were found, as were the type invariants of the modules without proofs, and are not run again.

### Disagreements with the documentation

`invalidation_first_load` violates `SettledViewIsCurrent`.  The source ignores events until it
shows a repository (`requiresSnapshot`), also those that arrive while its first snapshot is
in flight.  If the server answered with the revision before that event, the window
shows it, all is delivered, and nothing tells it to ask again until the next change.
`DueIsShown` shows that the window catches up with whatever is published once it shows
a repository on a stream that is open or can be resumed.

More were met while modelling.  The first three show as counterexamples when the property named is put in the place
of the one that is checked; the others are stated in the properties and theorems as exceptions.

- A read that a newer one supersedes is answered with the snapshot published *before* it, and nothing in
  the answer says so (`repository-publication.ts:196-201`).  The reconciliation of a mutation
  (`repository-session.ts:1704-1845`) takes it for the state after the mutation, finds the requested change
  absent and reports `failed_known` for a command that succeeded, although
  `docs/architecture/mvp-technical-architecture.md:463` says "requested effect absent and state known".
  `KnownFailureIsObserved` shows that this is the only way: whenever the
  reconciliation saw the worktree as of its own request, the outcome is true.
- `git commit` exits with a code also when it has moved HEAD and then cannot write its Index; the code takes every exit code
  for a commit that was not made, and the reconciliation reports `failed_known` without
  comparing HEAD (`repository-session.ts:2102-2110`, `2174-2180`).  The draft is kept, and a retry
  commits twice or finds nothing staged.
- When `git switch` moves HEAD and then exits with another status than 0, as it does when a
  post-checkout hook fails, or is aborted after it moved HEAD, `execute` throws, and the reconciliation
  compares HEAD with the target only if it did not (`repository-session.ts:2426-2433`): `failed_known`,
  "Git did not complete the Branch switch.", with a snapshot that shows the target checked out.
- A lease that could not be released, because its session broke or the command was refused on an open one, stays
  counted, and in the second case the session stays open: `closeOnce` does not come to `session.close()`
  (`csp-bypass.ts:86-90`, `remote-renderer.ts:256-260`).  `docs/host-integration/codex-compatibility.md:22-25` says "released after any
  replacement, failed attachment, or connection close".  If the same page is listed again, the next session on it only
  counts and mounts without a bypass of its own: the exception `KeptLease` of `MountedUnderBypass`, and `refused` in `NothingIsLeftBehind`.
- A page that is reloaded while its renderer is being connected is heard by nobody, for the renderer subscribes when the
  installation has ended (`remote-renderer.ts:57-89`, `131`): the bridge is mounted without the bypass, or is gone from the page.
  The exception `unheard`; the document above says that the lease is granted before mounting.
- The first commit on an unborn branch and a switch to a Remote-tracking Branch in another worktree may create the
  same local branch.  Neither target names it, so both are admitted (`ClaimsMissCreation`), although
  `docs/architecture/mvp-technical-architecture.md:419-421` says "Admission rejects an overlap whose effects could change another
  operation's verified target."  `NoInterference` leaves out the facts of such a branch and nothing else; what Git makes of
  the race is not modelled.
- `removeOwnedSentinel` returns without removing the lock when it cannot read it (`repository-session.ts:2718-2726`), and the
  outcome is known all the same: the Index stays locked.  `KnownOutcomeIsClean` excepts this case (`lockUnread`).
- A mutation inspects its worktree and then starts Git; what another program changes after the first read of that
  inspection is not seen, so Git may run in other directories (`repository-session.ts:1626-1678`).
  `MutationRunsWhereShown` says that this is the only way.

Smaller observations.  `UpstreamAfterPublication` needs that
nobody moves the tracking ref here: the snapshot that verifies a publication may be
older than its fetch.  `SuccessIsReal` says that the server *had* the commit: a push pushes a
name, so a commit made meanwhile may come with it.  After its own commit a window counts the revision
up without asking, and a first load that failed refuses commits until a write succeeds.
`close()` of the Codex runtime closes connection and instance at once, so the
first may reject because the second has ended the process, and is not tried again.  What a read observes after the second check
of continuity, and all that a read of single worktrees observes, are refs and HEADs of whatever is at the path by
then (`repository-engine.ts:190-196`, `221-229`): `OneRepositoryIsPublished` speaks of topologies only.

## 4. Proofs

`SessionProofs` holds the theorems of three modules.  Of `OperationCoordination`: claims cover every fact two
operations can interfere in but those of a branch that one of them creates (`InterferenceConflicts`), that exception is
needed (`ClaimsMissCreation`), and the relation is symmetric.

Of `OperationSession`, for any sets of operations and targets and any retention:
the invariant `IInv` (`Invariance`), and from it type correctness,
`NoInterference`, `ClosingAbortsProcesses`, `RetentionKeepsUnresolved`,
`RetryAllowedIsSafe`, `KnownResultIsFinal` and the refinement `ImplementsContract`.
The properties are not inductive: exclusion needs that a record with a running
process, an armed timer or an attempt under way still has its lease, that a
record without a known result is still stored, and that where `#run` is agrees with what the
record knows of the process.  `IInv` is the conjunction of these named parts.
The proof has one step per action; `Publish`, `Reconcile`, `Settle` and the other
transformations of a record have lemmas.  Assumptions: `SessionAssumption`
(targets are well formed, retention is a number).

Of `WorktreeDiscovery`, for any main and linked worktrees, reads and changes (`MainAssumption`,
`ReadAssumption`): `DiscoveryInv` (`DiscoveryInvariance`), and from it `MutationRunsWhereShown`
(`CommandsRunWhereShown`), `OneRepositoryIsPublished` (`OneRepositoryPublished`) and `IdsFollowRegistrations` (`IdsFollow`).
The properties are about two topologies published one after the other, or an id shown long ago, and meanwhile
an id is held in several places: the generations, the published and the discovered snapshot, every read
under way, a command.  The invariant follows it to all of them: one that is held was issued by a read
(`IdsAreIssued`) and stands for one identity (`IdsAreUnique`) and one registration (`RecordsAgree`), whose evidence
names it (`RecordsAreSound`); what a read has found lies in a repository, the opened one or one that had been put in its
place (`FoundIsSomewhere`, `OneRepositoryIsSeen`); what an inspection has compared is still as it was shown, unless
something changed since the inspection began (`StillAgrees`, `MutationIsShown`); and the read that may publish knows the latest generations and keeps
the ids of the directories they name (`LatestFollowsOn`).

`RepositoryPublicationProofs`, for any worktrees, number of reads, changes and attempts
(`PublicationAssumption`: these are a set and numbers):
the invariant `PublicationInv`, and from it `CoherentSnapshot`, `PublishedNeverGoesBack`,
`LatestReadIsCurrent` and `RevisionIdentifiesSnapshot`.  A read must be known to
lie between the published snapshot and the repository, since
it may publish; this needs in turn that generations
differ, that the reads in progress began after what was published was requested, and that
the snapshot a read had before it precedes what it sees.
The proof has one step per action, and lemmas on how one read advances,
how answers are given and how the others are left alone.

The same module proves `FileMutation`, a command among those reads, for any files
(`FileMutationAssumption`: its worktree is one of them, `NoRead` is no read): `MutationInv` (`MutationInvariance`),
and from it `ReportedSuccessIsReal` (`SuccessIsReal`), `RejectedChangedNothing` (`RejectionIsClean`) and
`KnownFailureIsObserved` (`KnownFailureIsClean`).  `MutationInv` adds to the publication's invariant that the command waits
for an active read exactly in the phases that start one, so no answer of it is lost (`WaitsForItsRead`); which
files can have been changed at each phase and with each kind of evidence (`EffectsAreTracked`); and that the reconciling read
was requested after the last change of a file (`OutcomeIsConcluded`).  `PublicationAroundCommands`: what was proved of
publication holds while a command reads and writes among the reads.

`RefreshSchedulerProofs`, for any worktrees and calls (`SchedulerAssumption`): `SchedulerInv`, and from it
`PendingIsServed` and `OperationsRunAlone`.  The added part is `WaitsForBackground`: a
dispatch that waits while a background read runs waits for that read,
so that none is left when it proceeds.

`CommitTransactionProofs`, for any branches, trees and steps of other programs
(`CommitAssumption`): `CommitInv`, and from it `CommitsInspectedTree`, `SuccessIsOurs`,
`KnownOutcomeIsClean`, `StagingIsKept` and `DraftIsKept`.  The added parts say at which stages the lock is ours and the
Index what was inspected (`LockIsHeld`), when the process runs and the commit can exist
(`CommitIsTracked`), and where evidence and outcomes come from (`EvidenceIsKnown`): a known one from a clean-up that freed our lock or could not read it.
One lemma per action, part by part.

`LauncherProofs`, of `InvalidationDelivery`, for any limits and bounds (`LimitAssumption`, `BoundAssumption`):
`DeliveryInv`, and from it `NewestIsKept` and `ViewNeverGoesBack`.  The second needs that one request is in flight at a
time and that its answer is not older than what is shown.

Of `DedicatedHost`, for any targets, which may all be listed again, and any bounds (`HostAssumption`): `HostInv`
(`HostInvariance`), and from it `NothingIsLeftBehind` (`HostLeavesNothing`) and `MountedUnderBypass` (`BridgeIsUnderBypass`).
The parts say which lists of renderers can exist
(`RenderersAreSound`), that the leases counted for a page are exactly those of the renderers that have one
(`LeasesAreCounted`), and what is still held at each stage of attaching, replacing and closing (`AttachInv`, `ReplacementInv`,
`CloseInv`, `SessionInv`): an attach that fails after it took a lease, or that finds
the runtime closed, must still be on its way to give it back.  For the bypass, a renderer begins when
all earlier ones have ended (`OrderInv`), so a lease that is counted before its own was kept; and a renderer whose bridge is to stay
has turned its bypass on since the last reload, or did not hear it, or an earlier one of its page kept its
lease (`BypassInv`).

`CommitDraftProofs`, for any texts, windows and bounds (`TextAssumption`, `RevisionAssumption`, `BoundAssumption`):
`DraftInv` (`DraftInvariance`), and from it `RevisionNamesShownText` (`ShownTextIsNamed`),
`CommitTakesShownText` (`ShownTextIsCommitted`) and `OnlyCommittedTextIsTaken` (`NoTextIsLost`).  The session's answers must be
followed while they travel: each is a text and the revision it was saved under (`AnswersAreDrafts`), what was committed was
named by its submission (`CommitsAreNamed`), and a window knows a revision only with the text it shows, or has a
call pending that will tell it (`WindowInv`: `KnowsRevision`, `RestIsNamed`, `SubmissionIsKnown`).

`RefCommandsProofs`, for any commits and ancestors, initial repositories and steps of other programs
(`CommitGraph`, `CommandAssumption`: a commit is among its ancestors, the kinds and types are right):
`CommandInv`, and from it `UpstreamAfterPublication`, `SuccessIsReal` and `KnownFailureIsObserved`.  The added
parts say that the tracking ref is where it was or where the server has been
(`TrackingIsServed`), that a repository nobody else touches is as confirmed but for what the command does
(`RepositoryIsOurs`), that after a fetch the server is known to have had the old tracking ref or the confirmed
commit (`PublicationIsVerified`), so that even an old snapshot proves a publication, and that a snapshot
read after an attempt's fetch is the repository (`FailureIsObserved`).

`ProtocolDispatchProofs`, for any ids, commands, requests, targets and states of the repository
(`DispatchAssumption`: the constants that mean "none" are none of the others): `DispatchInv`, and from it
`PerformedOnCurrentTarget` and the refinement `ImplementsCommandOnce`.  `DispatchInv` says that a record
tells what was started and answered under its id (`RecordsTell`), that a request which waits on a record or has its
receipt named that record's command (`RepliesTell`), that a record has one owner (`OneOwner`: without it
two receipts could say "accepted"), and that what a read has found is no older than what is
published unless a later read has overtaken it (`ReadsAgree`).  Steps of reads and steps of commands leave each other
alone (`CommandsLeftAlone`, `ReadsLeftAlone`).

Only model-checked: liveness, since fairness and `ENABLED` are beyond the prover.  Every invariant and every
action property of the passing runs has a theorem.  The inductive invariants were invariants of TLC runs on the
small instances before they were proved.
Where one module of proofs extends two components, the names `Init`, `Next` and `Spec` of one of them
carry its name (`DiscoveryInit`, `HostNext`, `MutationSpec`).
Nothing in a proved module is recursive.

## 5. Not modelled

Parsing and formatting of Git output, opaque ids, schemas and views.  In
`RepositoryPublication` the topology of worktrees is fixed (`WorktreeDiscovery` changes it), a worktree is read in one
step: its own Index comparison loop is not represented.  A fact that changes and changes back is two changes: the code
could not see the first, the model can.

In `InvalidationDelivery` the other requests of the source (details, diffs, branch search, remote overlays)
and the native notifications are left out; the type invariant leaves out the connection, and a
source is not activated again after its last listener left.

In `RefCommands` the fetch command and the classification of diagnostics are left out (a failure is
recognised or not), and so is the fetch of a reconciliation that goes on after its ten seconds:
what it does is what a fetch of another program does.  A revision is the state it
numbers, so a state that comes back is not told from the first.

In `CommitTransaction` only its owner
removes a lock; deletion by hand, between the comparison of its identity and its removal
too, is left out, and so are the reasons of rejections.

Left out as functions of one answer of Git, without state of their own: `change-review.ts`, worktree
provenance, branch search, details and diffs.  `git-read-policy.ts` is a queue before a counter with one
promise per key; it has unit tests for both.  In the loopback
server the admission of a request (token, origin, body limits) is left out, in
`ProtocolDispatch` the endpoints that keep no state.  In the store the branch picker,
the selection of files and their diffs, the outcomes of operations and the cancellation of a commit are left
out, in the host what the page tells of its context, the scripts evaluated in it and whether the
surface is open.  `DedicatedHost` does not model two runtimes on one instance: a runtime launches its own and attaches
once, so two live sessions never share a page and a lease is
only counted beside one that was kept.  When a connect fails, the release of its lease and the close of its session are one
step, for nobody else acts on them meanwhile.  A reload is taken to end the bypass, as the code takes it to when it turns it on
again.  Commands of a session are answered, refused or fail with it; the code has no deadline for one.

## 6. Plan

1. The fetch command, whose outcome is a ref per branch of the remote.
2. The branch picker and the selection of files in the store: late answers to requests that were replaced.
3. `GitReadPolicy`: bounded sharing.
4. The coherence loop inside the read of one worktree, composed with `WorktreeDiscovery`.

Theorems: the safety properties of these parts as they are modelled, and an abstract specification of what a
file mutation promises its caller, with `FileMutation` shown to implement it.
