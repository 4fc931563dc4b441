-------------------------- MODULE OperationContract --------------------------
(***************************************************************************)
(* What an Operation Session promises its callers, without timers,         *)
(* attempts or records: every requested operation is either refused or     *)
(* runs under a lease that excludes every interfering operation, the lease *)
(* outlives the Git process, and nothing starts once the session closed.   *)
(* Docs: docs/architecture/mvp-technical-architecture.md, "Operation       *)
(* coordination"; source: packages/repository-engine/src/operation-        *)
(* session.ts.  OperationSession implements it.                            *)
(***************************************************************************)
CONSTANTS Ops, Targets, Interferes(_, _)

VARIABLES
    accepting,   \* operations may still start
    status,      \* of each operation
    mutating,    \* its Git process may be changing the repository
    request      \* its target once it holds a lease

vars == <<accepting, status, mutating, request>>

Init ==
    /\ accepting = TRUE
    /\ status = [o \in Ops |-> "new"]
    /\ mutating = [o \in Ops |-> FALSE]
    /\ request \in [Ops -> Targets]

Holders == {o \in Ops : status[o] = "holding"}

(* Admission is atomic and never waits in a queue.                         *)
Start(o, t) ==
    /\ accepting /\ status[o] = "new"
    /\ \A p \in Holders : ~Interferes(request[p], t)
    /\ status' = [status EXCEPT ![o] = "holding"]
    /\ mutating' = [mutating EXCEPT ![o] = TRUE]
    /\ request' = [request EXCEPT ![o] = t]
    /\ UNCHANGED accepting

(* Refused as busy, or because the session is closing.                     *)
Refuse(o, t) ==
    /\ accepting /\ status[o] = "new"
    /\ status' = [status EXCEPT ![o] = "refused"]
    /\ request' = [request EXCEPT ![o] = t]
    /\ accepting' \in {accepting, FALSE}
    /\ UNCHANGED mutating

(* The Git process ends, whether or not anyone was still waiting for it.   *)
Stop(o) ==
    /\ mutating[o]
    /\ mutating' = [mutating EXCEPT ![o] = FALSE]
    /\ UNCHANGED <<accepting, status, request>>

(* The outcome is established: only after the process ended.               *)
Finish(o) ==
    /\ status[o] = "holding" /\ ~mutating[o]
    /\ status' = [status EXCEPT ![o] = "done"]
    /\ UNCHANGED <<accepting, mutating, request>>

StopAccepting ==
    /\ accepting
    /\ accepting' = FALSE
    /\ UNCHANGED <<status, mutating, request>>

Next ==
    \/ \E o \in Ops, t \in Targets : Start(o, t) \/ Refuse(o, t)
    \/ \E o \in Ops : Stop(o) \/ Finish(o)
    \/ StopAccepting

Spec == Init /\ [][Next]_vars
=============================================================================
