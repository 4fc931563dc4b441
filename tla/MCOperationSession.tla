-------------------------- MODULE MCOperationSession --------------------------
(* Two operations of OperationSession for TLC.                             *)
EXTENDS OperationSessionInv

CONSTANTS w1, w2, main, topic, tracking, origin, o1, o2

(* A switch to a Remote-tracking Branch conflicts across lanes with a push *)
(* from its worktree, and creates the branch that a first commit in the    *)
(* other worktree creates.                                                 *)
MCTargets == {
    [kind |-> "commit", worktree |-> w1, attachedRef |-> NoRef, creates |-> main],
    [kind |-> "branch_switch", worktree |-> w2, currentRef |-> topic,
     ref |-> tracking, remote |-> origin, creates |-> main],
    [kind |-> "push", worktree |-> w2, localRef |-> topic,
     destinationRef |-> topic, remote |-> origin] }

=============================================================================
