--------------------------- MODULE RefreshScheduler ---------------------------
(***************************************************************************)
(* When a Repository Session reads the repository                          *)
(* (packages/repository-engine/src/repository-refresh.ts): file events are *)
(* debounced, polls back them up, and both run as background reads that    *)
(* give way to the calls of clients.                                       *)
(*                                                                         *)
(* Scopes are sets of worktrees: none is undefined, all of them is 'all'.  *)
(* The topology, and with it the watchers, stays fixed.  A read is taken   *)
(* for what RepositoryPublication shows of it: if it succeeds and no later *)
(* one started, everything in its scope that had happened when it started  *)
(* is published.  Reads of the operations themselves are not represented;  *)
(* a read they supersede is one that fails.                                *)
(***************************************************************************)
EXTENDS Naturals, Sequences

CONSTANTS Worktrees, Selected,
          Others,           \* nonSelectedWorktreeIds, a sequence
          Calls,            \* the calls of snapshot, requestRefresh and dispatch
          None, Background,
          MaxFailures,      \* bound on the reads that fail
          MaxChanges        \* bound on the changes of the repository

ASSUME SchedulerAssumption ==
    /\ Selected \in Worktrees /\ Others \in Seq(Worktrees \ {Selected}) /\ Others # <<>>
    /\ \A w \in Worktrees \ {Selected} : \E i \in DOMAIN Others : Others[i] = w
    /\ None \notin Calls /\ Background \notin Calls /\ None # Background
    /\ MaxFailures \in Nat /\ MaxChanges \in Nat

VARIABLES
    closed, configured,
    debounce,         \* debounceTimer is armed
    pending,          \* pendingScope
    background,       \* the scope of backgroundRefresh, and what changed since it began
    requested,        \* the call whose read is requestedRefresh
    calls, cursor,
    failures, changes,
    latest,           \* the read that started last
    stale,            \* changed since the read that published them
    unread            \* reported by an event since a read of them started

repository == <<failures, changes, latest, stale, unread>>
vars == <<closed, configured, debounce, pending, background, requested, calls, cursor,
          repository>>

Read == [scope: SUBSET Worktrees, since: SUBSET Worktrees]
NoRead == [scope |-> {}, since |-> {}]
Call == [phase: {"new", "reading", "waiting", "operating", "done"},
         since: SUBSET Worktrees, awaits: SUBSET (Calls \cup {Background})]
NewCall == [phase |-> "new", since |-> {}, awaits |-> {}]

(* foregroundRefreshes counts these.                                       *)
InForeground(phase) == phase \in {"reading", "waiting", "operating"}
Foreground == \E c \in Calls : InForeground(calls[c].phase)
ForegroundAfter(c) == \E d \in Calls \ {c} : InForeground(calls[d].phase)

-----------------------------------------------------------------------------
(* startBackgroundRefresh(scope), with rest as pendingScope, running as    *)
(* backgroundRefresh and busy for foregroundRefreshes > 0.                 *)
StartUnlessPending(scope, rest, running, busy) ==        \* mutant
    IF closed THEN background' = running /\ pending' = rest
    ELSE IF running # NoRead \/ busy \/ rest # {}
         THEN background' = running /\ pending' = rest \cup scope
         ELSE background' = [scope |-> scope, since |-> {}] /\ pending' = rest
StartBackground(scope, rest, running, busy) ==
    IF closed THEN background' = running /\ pending' = rest
    ELSE IF running # NoRead \/ busy
         THEN background' = running /\ pending' = rest \cup scope
         ELSE background' = [scope |-> scope, since |-> {}] /\ pending' = rest

(* startPendingBackgroundRefresh.                                          *)
StartPending(running, busy) ==
    IF busy \/ pending = {} THEN background' = running /\ pending' = pending
    ELSE StartBackground(pending, {}, running, busy)

(* A background read that starts in this step is the latest one, and reads *)
(* what had been reported.                                                 *)
NoteStart(running, known) ==
    IF background' # running
    THEN latest' = Background /\ unread' = known \ background'.scope
    ELSE latest' = latest /\ unread' = known

-----------------------------------------------------------------------------
(* The repository changes; a watcher may report it, at any later time, as  *)
(* the worktree or as the whole (the common directory), or not at all.     *)
Change(w) ==
    /\ ~closed /\ changes < MaxChanges
    /\ changes' = changes + 1
    /\ stale' = stale \cup {w}
    /\ background' = IF background = NoRead THEN NoRead
                     ELSE [background EXCEPT !.since = @ \cup {w}]
    /\ calls' = [c \in Calls |-> IF calls[c].phase # "reading" THEN calls[c]
                                 ELSE [calls[c] EXCEPT !.since = @ \cup {w}]]
    /\ UNCHANGED <<closed, configured, debounce, pending, requested, cursor, failures,
                   latest, unread>>

(* scheduleFilesystemRefresh                                               *)
FileEvent(scope) ==
    /\ configured /\ ~closed
    /\ pending' = pending \cup scope
    /\ debounce' = TRUE
    /\ unread' = unread \cup scope
    /\ UNCHANGED <<closed, configured, background, requested, calls, cursor, failures,
                   changes, latest, stale>>

DebounceFires ==
    /\ debounce
    /\ debounce' = FALSE
    /\ StartBackground(IF pending = {} THEN Worktrees ELSE pending, {}, background, Foreground)
    /\ NoteStart(background, unread)
    /\ UNCHANGED <<closed, configured, requested, calls, cursor, failures, changes, stale>>

(* configurePolling                                                        *)
Poll(scope) ==
    /\ configured /\ ~closed
    /\ StartBackground(scope, pending, background, Foreground)
    /\ NoteStart(background, unread)
    /\ UNCHANGED <<closed, configured, debounce, requested, calls, failures, changes, stale>>

PollSelected == Poll({Selected}) /\ UNCHANGED cursor
PollOther == Poll({Others[cursor]}) /\ cursor' = (cursor % Len(Others)) + 1
PollAll == Poll(Worktrees) /\ UNCHANGED cursor

-----------------------------------------------------------------------------
(* The end of a read: observeResult, and what it published.                *)
Published(read, scope, since) ==
    \/ /\ latest = read
       /\ stale' = stale \ (scope \ since)
       /\ configured' = (configured \/ ~closed)
       /\ UNCHANGED failures
    \/ /\ latest # read \/ failures < MaxFailures
       /\ failures' = IF latest # read THEN failures ELSE failures + 1
       /\ UNCHANGED <<stale, configured>>

BackgroundEnds ==
    /\ background # NoRead
    /\ Published(Background, background.scope, background.since)
    /\ StartPending(NoRead, Foreground)
    /\ NoteStart(NoRead, unread)
    /\ calls' = [c \in Calls |-> [calls[c] EXCEPT !.awaits = @ \ {Background}]]
    /\ UNCHANGED <<closed, debounce, requested, cursor, changes>>

(* snapshot and requestRefresh; a second requestRefresh joins the first.   *)
CallSnapshot(c) ==
    /\ calls[c].phase = "new"
    /\ calls' = [calls EXCEPT ![c].phase = "reading"]
    /\ latest' = c /\ unread' = {}
    /\ UNCHANGED <<closed, configured, debounce, pending, background, requested, cursor,
                   failures, changes, stale>>

CallRefresh(c) ==
    /\ calls[c].phase = "new" /\ requested = None
    /\ calls' = [calls EXCEPT ![c].phase = "reading"]
    /\ requested' = c
    /\ latest' = c /\ unread' = {}
    /\ UNCHANGED <<closed, configured, debounce, pending, background, cursor,
                   failures, changes, stale>>

ReadEnds(c) ==
    /\ calls[c].phase = "reading"
    /\ Published(c, Worktrees, calls[c].since)
    /\ StartPending(background, ForegroundAfter(c))
    /\ NoteStart(background, unread)
    /\ requested' = IF requested = c THEN None ELSE requested
    /\ calls' = [d \in Calls |->
           IF d = c THEN [calls[d] EXCEPT !.phase = "done"]
           ELSE [calls[d] EXCEPT !.awaits = @ \ {c}]]
    /\ UNCHANGED <<closed, debounce, cursor, changes>>

-----------------------------------------------------------------------------
(* dispatch waits for the reads that are under way, then runs the          *)
(* operation, which is over when it settles.                               *)
Dispatch(c) ==
    /\ calls[c].phase = "new"
    /\ calls' = [calls EXCEPT
           ![c].phase = "waiting",
           ![c].awaits = {r \in {requested} : r # None}
                           \cup (IF background = NoRead THEN {} ELSE {Background})]
    /\ UNCHANGED <<closed, configured, debounce, pending, background, requested, cursor,
                   repository>>

DispatchUnawaited(c) ==      \* mutant: does not wait
    /\ calls[c].phase = "waiting"
    /\ calls' = [calls EXCEPT ![c].phase = "operating"]
    /\ UNCHANGED <<closed, configured, debounce, pending, background, requested, cursor,
                   repository>>
DispatchWhenAlone(c) ==      \* mutant: waits for every call in the foreground
    /\ calls[c].phase = "waiting" /\ calls[c].awaits = {} /\ ~ForegroundAfter(c)
    /\ calls' = [calls EXCEPT ![c].phase = "operating"]
    /\ UNCHANGED <<closed, configured, debounce, pending, background, requested, cursor,
                   repository>>
DispatchProceeds(c) ==
    /\ calls[c].phase = "waiting" /\ calls[c].awaits = {}
    /\ calls' = [calls EXCEPT ![c].phase = "operating"]
    /\ UNCHANGED <<closed, configured, debounce, pending, background, requested, cursor,
                   repository>>

(* The operation settled, or dispatch threw, as it does when the refresh   *)
(* it awaits is rejected: that happens only until something is published.  *)
DispatchEnds(c) ==
    /\ calls[c].phase = "operating" \/ (calls[c].phase = "waiting" /\ ~configured)
    /\ calls' = [calls EXCEPT ![c].phase = "done"]
    /\ StartPending(background, ForegroundAfter(c))
    /\ NoteStart(background, unread)
    /\ UNCHANGED <<closed, configured, debounce, requested, cursor, failures, changes, stale>>

Close ==
    /\ ~closed
    /\ closed' = TRUE /\ debounce' = FALSE
    /\ latest' = None
    /\ UNCHANGED <<configured, pending, background, requested, calls, cursor,
                   failures, changes, stale, unread>>

-----------------------------------------------------------------------------
Init ==
    /\ closed = FALSE /\ configured = FALSE /\ debounce = FALSE
    /\ pending = {} /\ background = NoRead /\ requested = None
    /\ calls = [c \in Calls |-> NewCall]
    /\ cursor = 1
    /\ failures = 0 /\ changes = 0 /\ latest = None
    /\ stale = Worktrees /\ unread = {}

CallStep(c) ==
    \/ CallSnapshot(c) \/ CallRefresh(c) \/ Dispatch(c)
    \/ ReadEnds(c) \/ DispatchProceeds(c) \/ DispatchEnds(c)

Next ==
    \/ \E w \in Worktrees : Change(w) \/ FileEvent({w})
    \/ FileEvent(Worktrees)
    \/ DebounceFires \/ PollSelected \/ PollOther \/ PollAll \/ BackgroundEnds
    \/ \E c \in Calls : CallStep(c)
    \/ Close

Spec == Init /\ [][Next]_vars

(* Polls go on, reads end (Git reads time out) and operations settle.  The *)
(* debounce timer need not fire, for every event puts it off once more,    *)
(* and the slow poll of the whole repository is not relied upon either.    *)
Fairness ==
    /\ WF_vars(PollSelected) /\ WF_vars(PollOther)
    /\ WF_vars(BackgroundEnds)
    /\ \A c \in Calls :
          /\ WF_vars(ReadEnds(c)) /\ WF_vars(DispatchProceeds(c))
          /\ WF_vars(DispatchEnds(c) /\ calls[c].phase = "operating")

FairSpec == Spec /\ Fairness

-----------------------------------------------------------------------------
(* The types of the variables.                                             *)
TypeOK ==
    /\ closed \in BOOLEAN /\ configured \in BOOLEAN /\ debounce \in BOOLEAN
    /\ pending \subseteq Worktrees /\ background \in Read
    /\ requested \in Calls \cup {None}
    /\ calls \in [Calls -> Call] /\ cursor \in DOMAIN Others
    /\ failures \in Nat /\ changes \in Nat
    /\ latest \in Calls \cup {None, Background}
    /\ stale \subseteq Worktrees /\ unread \subseteq Worktrees

(* No event is lost: until a read of them starts, reported worktrees are   *)
(* pending, and something is under way whose end starts that read.         *)
PendingIsServed ==
    ~closed => /\ unread \subseteq pending
               /\ pending # {} => debounce \/ background # NoRead \/ Foreground

(* No background read competes with an operation for the repository.       *)
OperationsRunAlone ==
    \A c \in Calls : calls[c].phase = "operating" => background = NoRead

(* A dispatch that still waits knows of the background read it waits for.  *)
WaitsForBackground ==
    \A c \in Calls : calls[c].phase = "waiting" /\ background # NoRead
                         => Background \in calls[c].awaits

(* The inductive invariant of the scheduler.                               *)
SchedulerInv == TypeOK /\ PendingIsServed /\ OperationsRunAlone /\ WaitsForBackground

(* What changes is published in the end, also when no event reports it and *)
(* although reads fail and give way: polling is the fallback.              *)
CatchesUp ==
    \A w \in Worktrees : configured /\ w \in stale ~> w \notin stale \/ closed

(* Every dispatch is carried out: nothing it waits for waits for it.       *)
DispatchesEnd ==
    \A c \in Calls : calls[c].phase = "waiting" ~> calls[c].phase = "done"
=============================================================================
