--------------------------- MODULE OperationSession ---------------------------
(***************************************************************************)
(* One Operation Session: admission, execution, cancellation, timeout,     *)
(* reconciliation, retention and bounded shutdown of Git operations.       *)
(* Sources, all under packages/repository-engine/src:                      *)
(*   operation-session.ts                 dispatch, #run, #attempt          *)
(*   operation-coordinator-lifecycle.ts   activate, reconcile, settle, ... *)
(*   operation-lifecycle.ts               the store, retention and close   *)
(*                                                                         *)
(* The program is one JavaScript thread: an action is one turn, from an    *)
(* event (a call, a timer, a promise that settles) to the next await.      *)
(* Promises that are resolved in the same turn as their cause are not      *)
(* separate steps unless another turn can come between.                    *)
(*                                                                         *)
(* Ops are the operation identities the session will issue (it issues each *)
(* once); Targets are the requested operations.  The evidence a hook       *)
(* returns is abstracted to whether the outcome is known.                  *)
(***************************************************************************)
EXTENDS OperationCoordination, Naturals, FiniteSets, Sequences

CONSTANTS Ops, Targets, TerminalRetention

ASSUME SessionAssumption ==
    /\ Targets \subseteq CoordinatedTarget /\ Targets # {}
    /\ TerminalRetention \in Nat

VARIABLES
    storeState,      \* LifecycleStore.#state
    record,          \* the SessionRecord of each operation
    operations,      \* keys of LifecycleStore.#operations
    knownTerminals   \* LifecycleStore.#knownTerminals, oldest first

vars == <<storeState, record, operations, knownTerminals>>

-----------------------------------------------------------------------------
(* Records.  "none" is undefined.  known stands for every verified outcome *)
(* (succeeded, failed, partial, rejected by a precondition), ended for a   *)
(* process that returned or threw.                                         *)

Phase == {"unissued", "running", "reconciling", "terminal"}
Result == {"none", "rejected", "known", "unknown_outcome"}
Execution == {"none", "timed_out", "ended"}

(* A reconciliation attempt: requested and not yet started, or waiting for *)
(* a hook that was called with the execution it saw at its start.          *)
Attempt == {"none", "scheduled", "busy", "timed_out", "ended"}

Summary == [phase: Phase, cancellationRequested: BOOLEAN,
            retryAllowed: BOOLEAN, timedOut: BOOLEAN]

SessionRecord ==
    [target: Targets, phase: Phase, lease: BOOLEAN, result: Result,
     cancellationRequested: BOOLEAN, timedOut: BOOLEAN,
     operationTimeout: BOOLEAN,                   \* the timer is armed
     execution: Execution,
     busyConflicts: BOOLEAN,                      \* refused, not admitted
     reconciling: Attempt,
     process: {"unstarted", "running", "exited"}, \* the promise of execute()
     run: {"idle", "executing", "first", "resume", "done"}, \* where #run is
     draining: BOOLEAN,                           \* close() waits for it
     published: Summary]                          \* last one the observer got

Known(r) == r.result \in {"rejected", "known"}

(* operation-lifecycle.ts knownTerminal(); the mutant forgets the result.  *)
TerminalPhase(r) == r.phase = "terminal"
KnownTerminal(r) == r.phase = "terminal" /\ ~r.lease /\ Known(r)

(* summarize(); the mutant offers a retry after any outcome.               *)
RetryAllowedAtTerminal(r) == r.phase = "terminal"
RetryAllowed(r) == r.phase = "terminal" /\ Known(r) /\ r.reconciling = "none"

Summarize(r) ==
    [phase |-> r.phase, cancellationRequested |-> r.cancellationRequested,
     retryAllowed |-> RetryAllowed(r), timedOut |-> r.timedOut]

(* LifecycleStore.publish: nothing is published once the store is closed.  *)
Publish(r) ==
    IF storeState = "closed" THEN r ELSE [r EXCEPT !.published = Summarize(r)]

Unpublished == [phase |-> "unissued", cancellationRequested |-> FALSE,
                retryAllowed |-> FALSE, timedOut |-> FALSE]

NewRecord(t) ==
    [target |-> t, phase |-> "running", lease |-> TRUE, result |-> "none",
     cancellationRequested |-> FALSE, timedOut |-> FALSE,
     operationTimeout |-> FALSE, execution |-> "none", busyConflicts |-> FALSE,
     reconciling |-> "none", process |-> "unstarted", run |-> "idle",
     draining |-> FALSE, published |-> Unpublished]

Unissued ==
    [NewRecord(CHOOSE t \in Targets : TRUE)
       EXCEPT !.phase = "unissued", !.lease = FALSE]

-----------------------------------------------------------------------------
(* Transformations of one record, shared by the actions.                   *)

RequestCancellation(r) ==
    IF r.cancellationRequested THEN r
    ELSE Publish([r EXCEPT !.cancellationRequested = TRUE])

(* lifecycle.reconcile: at most one attempt at a time.                     *)
Reconcile(r) ==
    IF r.reconciling # "none" THEN r
    ELSE Publish([r EXCEPT !.phase = "reconciling", !.reconciling = "scheduled"])

(* Session.#reconcile: a known result is never reconciled again, and there *)
(* is nothing to reconcile before the process ended or timed out.          *)
ReconcileUnlessKnown(r) ==
    IF Known(r) \/ (r.execution = "none" /\ ~r.busyConflicts)
    THEN r ELSE Reconcile(r)

(* lifecycle.settle, without retention.  It resolves the drain waiting for *)
(* this record and lets #run continue.                                     *)
Settle(r, result) ==
    Publish([r EXCEPT
               !.operationTimeout = FALSE, !.phase = "terminal",
               !.result = result, !.lease = (result = "unknown_outcome"),
               !.reconciling = "none", !.draining = FALSE,
               !.run = IF @ = "first" THEN "resume" ELSE @])

(* LifecycleStore.retainTerminal, called with the settled record of o: the *)
(* oldest known results beyond the retention are forgotten.                *)
RetainTerminal(o, r) ==
    LET retained == IF KnownTerminal(r) THEN Append(knownTerminals, o)
                    ELSE knownTerminals
    IN  IF Len(retained) <= TerminalRetention
        THEN /\ knownTerminals' = retained
             /\ operations' = operations \cup {o}
        ELSE /\ knownTerminals' = Tail(retained)
             /\ operations' = (operations \cup {o}) \ {Head(retained)}

Leased == {o \in operations : record[o].lease}
ConflictsOf(t) == {o \in Leased : Conflicts(record[o].target, t)}

-----------------------------------------------------------------------------
(* dispatch(): atomic up to the admission decision.                        *)

(* No conflict: the record is added, published as accepted and running,    *)
(* its timer armed and execute() called.                                   *)
Admit(o, t) ==
    /\ storeState = "open" /\ record[o].phase = "unissued"
    /\ ConflictsOf(t) = {}
    /\ record' = [record EXCEPT ![o] =
           Publish([NewRecord(t) EXCEPT !.operationTimeout = TRUE,
                                        !.process = "running",
                                        !.run = "executing"])]
    /\ operations' = operations \cup {o}
    /\ UNCHANGED <<storeState, knownTerminals>>

(* A conflict: a record of its own, holding a lease until the refusal is   *)
(* settled, and a new attempt for each conflict whose outcome is unknown.  *)
RejectBusy(o, t) ==
    /\ storeState = "open" /\ record[o].phase = "unissued"
    /\ ConflictsOf(t) # {}
    /\ record' = [p \in Ops |->
           IF p = o
           THEN Reconcile([NewRecord(t) EXCEPT !.busyConflicts = TRUE])
           ELSE IF p \in ConflictsOf(t) /\ record[p].result = "unknown_outcome"
           THEN ReconcileUnlessKnown(record[p])
           ELSE record[p]]
    /\ operations' = operations \cup {o}
    /\ UNCHANGED <<storeState, knownTerminals>>

(* close(): admission stops; every operation without a known result is     *)
(* cancelled, or reconciled again when its outcome is unknown.  The mutant *)
(* waits for the processes without cancelling them.                        *)
BeginDrainWaiting(r) ==
    IF r.result = "unknown_outcome"
    THEN [Reconcile(r) EXCEPT !.draining = TRUE]
    ELSE [r EXCEPT !.draining = TRUE]
BeginDrain(r) ==
    IF r.result = "unknown_outcome"
    THEN [Reconcile(r) EXCEPT !.draining = TRUE]
    ELSE [RequestCancellation(r) EXCEPT !.draining = TRUE]

DrainAll(records) ==
    [o \in Ops |-> IF o \in operations /\ ~KnownTerminal(records[o])
                   THEN BeginDrain(records[o]) ELSE records[o]]

(* The observer of a publication made by activate() closes the session:    *)
(* the new operation is settled as rejected and never executes.            *)
AdmitInterrupted(o, t) ==
    /\ storeState = "open" /\ record[o].phase = "unissued"
    /\ ConflictsOf(t) = {}
    /\ storeState' = "closing"
    /\ LET settled == Settle(BeginDrain(NewRecord(t)), "rejected")
       IN  /\ record' = [DrainAll(record) EXCEPT ![o] = settled]
           /\ RetainTerminal(o, settled)

-----------------------------------------------------------------------------
(* #run: execute() settles, and the record is reconciled once, then once   *)
(* more if that attempt could not tell the outcome.                        *)
ProcessExits(o) ==
    /\ record[o].process = "running"
    /\ record' = [record EXCEPT ![o] =
           ReconcileUnlessKnown([@ EXCEPT !.process = "exited",
                                          !.execution = "ended",
                                          !.run = "first"])]
    /\ UNCHANGED <<storeState, operations, knownTerminals>>

ReconcileAgain(r) == IF r.result = "unknown_outcome"
                     THEN ReconcileUnlessKnown(r) ELSE r
ResumeRunOnce(o) ==        \* mutant: the second attempt is dropped
    /\ record[o].run = "resume"
    /\ record' = [record EXCEPT ![o].run = "done"]
    /\ UNCHANGED <<storeState, operations, knownTerminals>>
ResumeRun(o) ==
    /\ record[o].run = "resume"
    /\ record' = [record EXCEPT ![o] = [ReconcileAgain(@) EXCEPT !.run = "done"]]
    /\ UNCHANGED <<storeState, operations, knownTerminals>>

(* The timer: cancellation is requested, and an operation whose process    *)
(* has not ended is reconciled as timed out.  The mutant only cancels.     *)
OperationTimesOutCancels(o) ==
    /\ record[o].operationTimeout
    /\ record' = [record EXCEPT ![o] =
           RequestCancellation([@ EXCEPT !.operationTimeout = FALSE,
                                         !.timedOut = TRUE])]
    /\ UNCHANGED <<storeState, operations, knownTerminals>>
OperationTimesOut(o) ==
    /\ record[o].operationTimeout
    /\ LET fired == RequestCancellation([record[o] EXCEPT
                                           !.operationTimeout = FALSE,
                                           !.timedOut = TRUE])
       IN  record' = [record EXCEPT ![o] =
               IF fired.execution # "none" THEN fired
               ELSE ReconcileUnlessKnown([fired EXCEPT !.execution = "timed_out"])]
    /\ UNCHANGED <<storeState, operations, knownTerminals>>

(* cancel() and recover() of an operation whose outcome is unknown ask for *)
(* one more attempt; cancel() of one without a result requests cancellation.*)
Cancel(o) ==
    /\ o \in operations /\ record[o].result = "none"
    /\ record' = [record EXCEPT ![o] = RequestCancellation(@)]
    /\ UNCHANGED <<storeState, operations, knownTerminals>>

Recover(o) ==
    /\ o \in operations /\ record[o].result = "unknown_outcome"
    /\ record' = [record EXCEPT ![o] = Reconcile(@)]
    /\ UNCHANGED <<storeState, operations, knownTerminals>>

-----------------------------------------------------------------------------
(* #attempt: the hook is called with the execution of that moment, and its *)
(* answer is settled when it comes.                                        *)
StartAttempt(o) ==
    /\ record[o].reconciling = "scheduled"
    /\ record' = [record EXCEPT ![o].reconciling =
           IF record[o].busyConflicts THEN "busy" ELSE record[o].execution]
    /\ UNCHANGED <<storeState, operations, knownTerminals>>

(* What an attempt can establish.  Any hook may throw; a process that has  *)
(* not confirmed its end leaves the outcome unknown whatever the hook says.*)
OutcomesTrustingHook(attempt) ==    \* mutant: the timed-out case is dropped
    IF attempt = "busy" THEN {"rejected", "unknown_outcome"}
    ELSE {"known", "unknown_outcome"}
Outcomes(attempt) ==
    CASE attempt = "busy" -> {"rejected", "unknown_outcome"}
      [] attempt = "ended" -> {"known", "unknown_outcome"}
      [] attempt = "timed_out" -> {"unknown_outcome"}
      [] OTHER -> {}

FinishAttempt(o) ==
    /\ record[o].reconciling \in {"busy", "timed_out", "ended"}
    /\ \E result \in Outcomes(record[o].reconciling) :
          LET settled == Settle(record[o], result)
          IN  /\ record' = [record EXCEPT ![o] = settled]
              /\ RetainTerminal(o, settled)
    /\ UNCHANGED storeState

-----------------------------------------------------------------------------
Close ==
    /\ storeState = "open"
    /\ storeState' = "closing"
    /\ record' = DrainAll(record)
    /\ UNCHANGED <<operations, knownTerminals>>

Draining == {o \in Ops : record[o].draining}

CloseDrainedOnceKnown ==   \* mutant: an unknown outcome keeps close() waiting
    /\ storeState = "closing" /\ Draining = {}
    /\ \A o \in operations : Known(record[o])
    /\ storeState' = "closed"
    /\ UNCHANGED <<record, operations, knownTerminals>>
CloseDrained ==
    /\ storeState = "closing" /\ Draining = {}
    /\ storeState' = "closed"
    /\ UNCHANGED <<record, operations, knownTerminals>>

(* The close timer: what has not settled is marked and cancelled.          *)
CloseTimesOut ==
    /\ storeState = "closing" /\ Draining # {}
    /\ storeState' = "closed"
    /\ record' = [o \in Ops |->
           IF o \in Draining
           THEN Publish(RequestCancellation([record[o] EXCEPT !.timedOut = TRUE]))
           ELSE record[o]]
    /\ UNCHANGED <<operations, knownTerminals>>

-----------------------------------------------------------------------------
Init ==
    /\ storeState = "open"
    /\ record = [o \in Ops |-> Unissued]
    /\ operations = {}
    /\ knownTerminals = <<>>

Next ==
    \/ \E o \in Ops, t \in Targets :
          Admit(o, t) \/ RejectBusy(o, t) \/ AdmitInterrupted(o, t)
    \/ \E o \in Ops :
          \/ ProcessExits(o) \/ ResumeRun(o) \/ OperationTimesOut(o)
          \/ Cancel(o) \/ Recover(o)
          \/ StartAttempt(o) \/ FinishAttempt(o)
    \/ Close \/ CloseDrained \/ CloseTimesOut

Spec == Init /\ [][Next]_vars

(* Timers fire, queued turns run and the bounded reads of a hook answer.   *)
(* Nothing obliges a Git process to exit, and no caller has to call.       *)
Fairness ==
    /\ \A o \in Ops : WF_vars(OperationTimesOut(o))
    /\ \A o \in Ops : WF_vars(StartAttempt(o))
    /\ \A o \in Ops : WF_vars(FinishAttempt(o))
    /\ \A o \in Ops : WF_vars(ResumeRun(o))
    /\ WF_vars(CloseDrained) /\ WF_vars(CloseTimesOut)

FairSpec == Spec /\ Fairness

-----------------------------------------------------------------------------
(* Properties.                                                             *)

(* Every variable has its type.                                            *)
TypeOK ==
    /\ storeState \in {"open", "closing", "closed"}
    /\ record \in [Ops -> SessionRecord]
    /\ operations \subseteq Ops
    /\ knownTerminals \in Seq(Ops)

Running(o) == record[o].process = "running"

(* Two Git processes that run at the same time never touch what the other  *)
(* one changes or verified: claims, leases, timeouts and unknown outcomes  *)
(* of operation-session.ts together, against what the commands do.  The    *)
(* branch that a command creates is excepted: its target does not name it, *)
(* so a switch to a Remote-tracking Branch may create the branch that a    *)
(* first commit in another worktree is about to create.                    *)
NoInterference ==
    \A a, b \in Ops :
        (a # b /\ Running(a) /\ Running(b))
            => ~InterferesInExisting(record[a].target, record[b].target)

(* From the moment close() is called, every process still running has been *)
(* asked to stop, also one that timed out earlier or is only drained.      *)
ClosingAbortsProcesses ==
    storeState # "open" =>
        \A o \in Ops : Running(o) => record[o].cancellationRequested

(* Retention forgets only finished operations: one that may still change   *)
(* the repository, or is still being reconciled, can be found by its id.   *)
RetentionKeepsUnresolved ==
    /\ Len(knownTerminals) <= TerminalRetention
    /\ \A o \in Ops :
          (record[o].phase # "unissued" /\ ~Known(record[o])) => o \in operations

(* The observer is told that a retry is allowed only when no process of    *)
(* the operation runs and its outcome is known (the architecture document: *)
(* an Unknown Outcome disables blind retry).                               *)
RetryAllowedIsSafe ==
    \A o \in Ops :
        record[o].published.retryAllowed
            => (Known(record[o]) /\ ~Running(o) /\ ~record[o].lease)

(* A known result is final: late exits, timers, cancel, recover and close  *)
(* neither change it nor reopen the record.                                *)
KnownResultIsFinal ==
    [][\A o \in Ops : Known(record[o]) =>
          /\ record'[o].result = record[o].result
          /\ record'[o].phase = "terminal"
          /\ ~record'[o].lease
          /\ record'[o].reconciling = "none"]_vars

(* Every dispatched operation gets an answer, even if its Git process      *)
(* never exits: the timer and the bounded reconciliation see to it.        *)
EveryDispatchSettles ==
    \A o \in Ops : record[o].phase # "unissued" ~> record[o].result # "none"

(* close() resolves whatever the processes and attempts do.                *)
CloseResolves == storeState = "closing" ~> storeState = "closed"

(* A process that exits after it timed out is reconciled once more, now    *)
(* with its real end, even if an attempt was under way when it exited.     *)
LateExitIsReconciled ==
    \A o \in Ops : record[o].run = "first" ~> record[o].reconciling = "ended"

(* The contract this session implements.                                   *)
Status(o) ==
    IF record[o].phase = "unissued" THEN "new"
    ELSE IF record[o].process = "unstarted" THEN "refused"
    ELSE IF record[o].lease THEN "holding" ELSE "done"

Contract == INSTANCE OperationContract WITH
    Interferes <- InterferesInExisting,
    accepting  <- storeState = "open",
    status     <- [o \in Ops |-> Status(o)],
    mutating   <- [o \in Ops |-> Running(o)],
    request    <- [o \in Ops |-> record[o].target]

ImplementsContract == Contract!Spec
=============================================================================
