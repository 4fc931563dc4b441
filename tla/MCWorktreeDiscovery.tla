------------------------- MODULE MCWorktreeDiscovery -------------------------
(* The small instance of WorktreeDiscovery that TLC checks.                  *)
EXTENDS WorktreeDiscovery

(* Reads are not interleaved with the inspections of a command: neither uses *)
(* what the other writes.  They are with the command before it looks up its  *)
(* target, and other programs' steps are with everything.                    *)
ReadsRest ==
    mutation.step \in {"none", "begun", "ended"} \/ Active = {}
=============================================================================
