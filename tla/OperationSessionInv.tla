-------------------------- MODULE OperationSessionInv --------------------------
(***************************************************************************)
(* The inductive invariant of OperationSession: model-checked by           *)
(* MCOperationSession, proved in SessionProofs.                            *)
(***************************************************************************)
EXTENDS OperationSession

(* A record that is not issued has done nothing; one that is holds a lease *)
(* exactly until its result is known.                                      *)
LeaseInv(r) ==
    /\ r.phase = "unissued" =>
          /\ ~r.lease /\ r.result = "none" /\ r.process = "unstarted"
          /\ r.reconciling = "none" /\ ~r.draining
    /\ r.phase # "unissued" => (r.lease <=> ~Known(r))

(* A process runs only inside execute(), of an admitted operation; its end *)
(* is what "ended" means.                                                  *)
ProcessInv(r) ==
    /\ r.process = "running" => (r.execution # "ended" /\ ~r.busyConflicts)
    /\ r.busyConflicts => r.process = "unstarted"
    /\ r.process = "unstarted" => (r.execution = "none" /\ ~r.operationTimeout)
    /\ r.execution = "timed_out" => r.cancellationRequested
    /\ r.operationTimeout => r.result = "none"
    /\ r.run \in {"first", "resume"} => r.process = "exited"

(* An attempt rests on what was established when it started.               *)
AttemptInv(r) ==
    /\ r.reconciling # "none" => (r.busyConflicts \/ r.execution # "none")
    /\ r.reconciling = "ended" => r.execution = "ended"
    /\ r.reconciling = "busy" => r.busyConflicts
    /\ r.result = "unknown_outcome" => (r.busyConflicts \/ r.execution # "none")

(* A known result leaves nothing behind, and only it allows a retry.       *)
KnownInv(r) ==
    /\ Known(r) => /\ r.phase = "terminal"
                   /\ r.reconciling = "none"
                   /\ r.process # "running"
                   /\ ~r.draining
    /\ r.published.retryAllowed => Known(r)

RecordInv(r) == LeaseInv(r) /\ ProcessInv(r) /\ AttemptInv(r) /\ KnownInv(r)

(* An operation holds its claims from admission until its result is known. *)
Holding(o) == record[o].lease /\ record[o].process # "unstarted"

HoldersInv ==
    \A a, b \in Ops : (a # b /\ Holding(a) /\ Holding(b))
                         => ~Conflicts(record[a].target, record[b].target)

StoreInv ==
    /\ \A o \in Ops : record[o].lease => o \in operations
    /\ \A o \in operations : record[o].phase # "unissued"
    /\ \A i \in DOMAIN knownTerminals : Known(record[knownTerminals[i]])
    /\ Len(knownTerminals) <= TerminalRetention

(* The whole: why leases, results, processes and attempts always agree.    *)
IInv ==
    /\ TypeOK
    /\ \A o \in Ops : RecordInv(record[o])
    /\ StoreInv
    /\ HoldersInv
    /\ ClosingAbortsProcesses
=============================================================================
