---------------------------- MODULE FileMutation ----------------------------
(***************************************************************************)
(* A Stage or Unstage command and the reads around it: the execute and     *)
(* reconcile callbacks of repository-session.ts (1514-1845), composed with *)
(* the reads of RepositoryPublication, which other clients start as well.  *)
(* A read of the command is one of those reads, and the command goes on in *)
(* the step that answers it.                                               *)
(*                                                                         *)
(* The command changes the Index of one worktree, one file at a time.      *)
(* appliedAt[f] is the version of the worktree from which the requested    *)
(* state of f is visible; other programs never undo it.  The content that  *)
(* an inspection compares is not represented, its verdict is free.  A Git  *)
(* process may fail after it wrote the Index, and may exit 0 with the      *)
(* requested state absent (the file was edited again): the exit status and *)
(* the effect are independent.  Leases, timeouts and retention are in      *)
(* OperationSession.                                                       *)
(***************************************************************************)
EXTENDS RepositoryPublication

CONSTANTS Files,        \* the fileIds of the command
          Worktree,     \* its worktree
          NoRead

ASSUME FileMutationAssumption == Worktree \in Worktrees /\ NoRead \notin Reads

VARIABLE op

allVars == <<vars, op>>

Operation ==
    [phase: {"submitted", "checking", "executing", "executed", "reconciling", "terminal"},
     expected: Nat,                    \* the worktree as the client saw it
     read: Reads \cup {NoRead},
     evidence: {"none", "rejected", "attempted", "threw"},
     effects: [Files -> {"none", "completed", "failed", "stale", "blocked"}],
     outcome: {"none", "succeeded", "partial_success", "failed_known",
               "rejected", "unknown_outcome"},
     succeeded: SUBSET Files,
     appliedAt: [Files -> Nat],        \* 0: the requested state is absent
     requestedAt: Nat, seen: Nat]      \* for properties: the worktree when the
                                       \* reconciling read was requested, and as
                                       \* the reconciliation saw it

Submitted ==
    [phase |-> "submitted", expected |-> 0, read |-> NoRead, evidence |-> "none",
     effects |-> [f \in Files |-> "none"], outcome |-> "none", succeeded |-> {},
     appliedAt |-> [f \in Files |-> 0], requestedAt |-> 0, seen |-> 0]

-----------------------------------------------------------------------------
(* execute: a full refresh, then the target must be what the client saw.   *)
Dispatch(r) ==
    /\ op.phase = "submitted" /\ published.exists
    /\ StartRead(r, Worktrees)
    /\ op' = [op EXCEPT !.phase = "checking", !.read = r,
                        !.expected = published.worktree[Worktree]]

AnswerStep(r) ==
    AnswerClosed(r) \/ AnswerSuperseded(r) \/ PublishStale(r) \/ PublishObservation(r)

(* The read failed, or the worktree moved since: stale.  A lock, an        *)
(* operation in progress or an unsuitable change rejects it as well.       *)
Checked(r) ==
    /\ op.phase = "checking" /\ op.read = r
    /\ AnswerStep(r)
    /\ \/ /\ ~closed /\ published'.exists
          /\ published'.worktree[Worktree] = op.expected
          /\ published'.freshness[Worktree] = "fresh"
          /\ op' = [op EXCEPT !.phase = "executing", !.read = NoRead]
       \/ op' = [op EXCEPT !.phase = "executed", !.read = NoRead,
                           !.evidence = "rejected"]

Remaining == {f \in Files : op.effects[f] = "none"}
NoEffect == Remaining = Files

(* The inspection just before the file's Git process refuses it: the whole *)
(* command if it is the first file, else this file only.                   *)
RefuseAlways(f, verdict) ==       \* mutant: rejects whatever was done before
    /\ op.phase = "executing" /\ f \in Remaining
    /\ op' = [op EXCEPT !.phase = "executed", !.evidence = "rejected"]
    /\ UNCHANGED vars
Refuse(f, verdict) ==
    /\ op.phase = "executing" /\ f \in Remaining
    /\ op' = IF NoEffect
             THEN [op EXCEPT !.phase = "executed", !.evidence = "rejected"]
             ELSE [op EXCEPT !.effects[f] = verdict]
    /\ UNCHANGED vars

Apply(f, applied) ==
    repo' = IF applied THEN [repo EXCEPT !.worktree[Worktree] = @ + 1] ELSE repo

AppliedAt(f, applied) == IF applied THEN repo.worktree[Worktree] + 1 ELSE 0

RunGit(f, exit, applied) ==
    /\ op.phase = "executing" /\ f \in Remaining
    /\ Apply(f, applied)
    /\ op' = [op EXCEPT !.effects[f] = exit, !.appliedAt[f] = AppliedAt(f, applied)]
    /\ UNCHANGED <<generation, closed, published, reads, requested>>

(* The process was aborted, or failed in a way that is not known.          *)
Interrupted(f, applied) ==
    /\ op.phase = "executing" /\ f \in Remaining
    /\ Apply(f, applied)
    /\ op' = [op EXCEPT !.phase = "executed", !.evidence = "threw",
                        !.appliedAt[f] = AppliedAt(f, applied)]
    /\ UNCHANGED <<generation, closed, published, reads, requested>>

Attempted ==
    /\ op.phase = "executing" /\ Remaining = {}
    /\ op' = [op EXCEPT !.phase = "executed", !.evidence = "attempted"]
    /\ UNCHANGED vars

-----------------------------------------------------------------------------
(* reconcile: a full refresh, and what it shows of each file.  A later     *)
(* recovery of an unknown outcome is the same again.                       *)
Reconcile(r) ==
    /\ \/ op.phase = "executed"
       \/ op.phase = "terminal" /\ op.outcome = "unknown_outcome"
    /\ StartRead(r, Worktrees)
    /\ op' = [op EXCEPT !.phase = "reconciling", !.read = r, !.outcome = "none",
                        !.requestedAt = repo.worktree[Worktree]]

ReachedByExit(f, snapshot) == op.effects[f] = "completed"   \* mutant of Reached
ReachedUnlessFailed(f, snapshot) ==                         \* mutant of Reached
    /\ op.effects[f] = "completed"
    /\ op.appliedAt[f] # 0 /\ op.appliedAt[f] <= snapshot.worktree[Worktree]
Reached(f, snapshot) ==
    /\ op.effects[f] \in {"completed", "failed"}
    /\ op.appliedAt[f] # 0 /\ op.appliedAt[f] <= snapshot.worktree[Worktree]

AttemptedOutcome(snapshot, reached) ==
    CASE snapshot.freshness[Worktree] # "fresh" -> "unknown_outcome"
      [] OTHER -> CASE reached = Files -> "succeeded"
                    [] reached # {} /\ reached # Files -> "partial_success"
                    [] reached = {} ->
                         IF \A f \in Files : op.effects[f] = "stale" THEN "rejected"
                         ELSE "failed_known"

Refreshed(snapshot) == ~closed /\ snapshot.exists /\ snapshot.refresh = "fresh"

Outcome(snapshot) ==
    CASE ~Refreshed(snapshot) \/ op.evidence = "threw" -> "unknown_outcome"
      [] Refreshed(snapshot) /\ op.evidence = "rejected" -> "rejected"
      [] Refreshed(snapshot) /\ op.evidence = "attempted" ->
           AttemptedOutcome(snapshot, {f \in Files : Reached(f, snapshot)})

Reconciled(r) ==
    /\ op.phase = "reconciling" /\ op.read = r
    /\ AnswerStep(r)
    /\ LET outcome == Outcome(published')
       IN  op' = [op EXCEPT
               !.phase = "terminal", !.read = NoRead, !.outcome = outcome,
               !.seen = published'.worktree[Worktree],
               !.succeeded = IF outcome \in {"succeeded", "partial_success"}
                             THEN {f \in Files : Reached(f, published')} ELSE {}]

-----------------------------------------------------------------------------
(* Everything else: other clients' reads, other programs, close.           *)
Elsewhere ==
    /\ \/ ChangeRefs \/ \E w \in Worktrees : ChangeWorktree(w)
       \/ \E r \in Reads :
            \/ \E scope \in (SUBSET Worktrees) \ {{}} : StartRead(r, scope)
            \/ ObserveShared(r) \/ CompareShared(r) \/ ReadFails(r)
            \/ \E w \in Worktrees : ObserveWorktree(r, w)
            \/ op.read # r /\ AnswerStep(r)
       \/ Close
    /\ op' = op

MutationInit == Init /\ op = Submitted

MutationNext ==
    \/ \E r \in Reads : Dispatch(r) \/ Checked(r) \/ Reconcile(r) \/ Reconciled(r)
    \/ \E f \in Files :
         \/ \E verdict \in {"stale", "blocked"} : Refuse(f, verdict)
         \/ \E applied \in BOOLEAN :
              \/ \E exit \in {"completed", "failed"} : RunGit(f, exit, applied)
              \/ Interrupted(f, applied)
    \/ Attempted
    \/ Elsewhere

MutationSpec == MutationInit /\ [][MutationNext]_allVars

-----------------------------------------------------------------------------
MutationTypeOK == TypeOK /\ op \in Operation

(* Where the command is: it waits for a read exactly in the phases that    *)
(* started one, and no answer of that read is lost.                        *)
WaitsForItsRead ==
    IF op.phase \in {"checking", "reconciling"}
    THEN op.read \in Reads /\ Active(op.read)
    ELSE op.read = NoRead

(* What is known of the files while the command goes on.                   *)
EffectsAreTracked ==
    /\ \A f \in Files :
          /\ op.appliedAt[f] <= repo.worktree[Worktree]
          /\ op.effects[f] \notin {"completed", "failed"} /\ op.evidence # "threw"
                => op.appliedAt[f] = 0
    /\ op.evidence = "none" <=> op.phase \in {"submitted", "checking", "executing"}
    /\ op.evidence = "rejected" => NoEffect
    /\ op.evidence = "attempted" => Remaining = {}
    /\ op.phase \in {"submitted", "checking"} => NoEffect

(* What a terminal outcome was concluded from.                             *)
OutcomeIsConcluded ==
    /\ op.outcome # "none" <=> op.phase = "terminal"
    /\ op.phase \in {"reconciling", "terminal"} =>
          \A f \in Files : op.appliedAt[f] <= op.requestedAt
    /\ op.outcome = "rejected" => op.evidence \in {"rejected", "attempted"}

(* A file reported as staged (or unstaged) is: success is never concluded  *)
(* from an exit status, nor from a snapshot of the time before.            *)
ReportedSuccessIsReal ==
    /\ \A f \in op.succeeded : op.appliedAt[f] # 0
    /\ op.outcome = "succeeded" => op.succeeded = Files

(* A rejected command changed nothing, although files are inspected one by *)
(* one while earlier files have been run.                                  *)
RejectedChangedNothing ==
    op.outcome = "rejected" => \A f \in Files : op.appliedAt[f] = 0

(* When the reconciliation saw the worktree as it was after the command,   *)
(* a known failure means that no file was changed.                         *)
KnownFailureIsObserved ==
    op.outcome = "failed_known" /\ op.seen >= op.requestedAt
        => \A f \in Files : op.appliedAt[f] = 0

(* The inductive invariant of the command among the reads.                 *)
MutationInv ==
    /\ PublicationInv /\ MutationTypeOK
    /\ WaitsForItsRead /\ EffectsAreTracked /\ OutcomeIsConcluded
    /\ ReportedSuccessIsReal /\ RejectedChangedNothing /\ KnownFailureIsObserved
=============================================================================
