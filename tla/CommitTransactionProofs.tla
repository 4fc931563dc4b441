---------------------- MODULE CommitTransactionProofs ----------------------
(***************************************************************************)
(* CommitInv is an invariant of CommitTransaction, and with it the safety  *)
(* properties of a commit: for any branches and any number of steps of     *)
(* other programs.  First come the forms a step of the operation takes,    *)
(* then one lemma per action, part by part of the invariant.               *)
(***************************************************************************)
EXTENDS CommitTransaction, TLAPS

(* execute goes on to a stage, with what it then knows.                    *)
Advances(stage, evidence) ==
    /\ op' \in Operation /\ op'.pc = stage /\ op'.evidence = evidence
    /\ op'.initial = op.initial /\ op'.draftRevision = op.draftRevision
    /\ op'.aborted = op.aborted /\ op'.expectedTree = op.expectedTree
    /\ op'.identified = op.identified /\ op'.attempt = op.attempt
    /\ op'.outcome = op.outcome /\ op'.lockUnread = op.lockUnread

LEMMA Going ==
    ASSUME op \in Operation, NEW stage \in Stages, op' = [op EXCEPT !.pc = stage]
    PROVE  Advances(stage, op.evidence)
  BY DEF Operation, Advances

LEMMA Concluding ==
    ASSUME op \in Operation, NEW stage \in Stages, NEW e \in Evidence,
           op' = [op EXCEPT !.pc = stage, !.evidence = e]
    PROVE  Advances(stage, e)
  BY DEF Operation, Advances

LEMMA Advancing ==
    ASSUME op \in Operation
    PROVE  /\ \A stage \in Stages : op' = [op EXCEPT !.pc = stage] => Advances(stage, op.evidence)
           /\ \A stage \in Stages, e \in Evidence :
                  op' = [op EXCEPT !.pc = stage, !.evidence = e] => Advances(stage, e)
<1>1. ASSUME NEW stage \in Stages, op' = [op EXCEPT !.pc = stage]
      PROVE  Advances(stage, op.evidence)
  BY <1>1, Going
<1>2. ASSUME NEW stage \in Stages, NEW e \in Evidence,
             op' = [op EXCEPT !.pc = stage, !.evidence = e]
      PROVE  Advances(stage, e)
  BY <1>2, Concluding
<1> QED  BY <1>1, <1>2

(* execute notes what it observed.                                         *)
Notes(stage) ==
    /\ op' \in Operation /\ op'.pc = stage /\ op'.evidence = op.evidence
    /\ op'.initial = op.initial /\ op'.draftRevision = op.draftRevision
    /\ op'.aborted = op.aborted /\ op'.identified = op.identified
    /\ op'.attempt = op.attempt /\ op'.outcome = op.outcome
    /\ op'.lockUnread = op.lockUnread

LEMMA Noting ==
    ASSUME op \in Operation, NEW stage \in Stages, NEW n \in Nat
    PROVE  /\ op' = [op EXCEPT !.pc = stage, !.expectedTree = n] =>
                  Notes(stage) /\ op'.expectedTree = n
           /\ op' = [op EXCEPT !.pc = stage, !.seenHead = n] =>
                  Notes(stage) /\ op'.expectedTree = op.expectedTree
           /\ op' = [op EXCEPT !.pc = stage, !.seenTree = n] =>
                  Notes(stage) /\ op'.expectedTree = op.expectedTree
<1>1. CASE op' = [op EXCEPT !.pc = stage, !.expectedTree = n]
  BY <1>1 DEF Operation, Notes
<1>2. CASE op' = [op EXCEPT !.pc = stage, !.seenHead = n]
  BY <1>2 DEF Operation, Notes
<1>3. CASE op' = [op EXCEPT !.pc = stage, !.seenTree = n]
  BY <1>3 DEF Operation, Notes
<1>4. CASE /\ op' # [op EXCEPT !.pc = stage, !.expectedTree = n]
           /\ op' # [op EXCEPT !.pc = stage, !.seenHead = n]
           /\ op' # [op EXCEPT !.pc = stage, !.seenTree = n]
  BY <1>4
<1> QED  BY <1>1, <1>2, <1>3, <1>4

(* An attempt to reconcile ends.                                           *)
Concludes(outcome) ==
    /\ op' \in Operation /\ op'.attempt = "idle" /\ op'.outcome = outcome
    /\ op'.pc = op.pc /\ op'.evidence = op.evidence
    /\ op'.initial = op.initial /\ op'.draftRevision = op.draftRevision
    /\ op'.aborted = op.aborted /\ op'.expectedTree = op.expectedTree
    /\ op'.identified = op.identified /\ op'.lockUnread = op.lockUnread

LEMMA Ending ==
    ASSUME op \in Operation, NEW outcome \in Outcomes, Ends(outcome)
    PROVE  Concludes(outcome)
  BY DEF Operation, Ends, Concludes

(* execute returns with the commit identified.                             *)
Identifies ==
    /\ op' \in Operation /\ op'.pc = "returned" /\ op'.evidence = "attempted"
    /\ op'.initial = op.initial /\ op'.draftRevision = op.draftRevision
    /\ op'.aborted = op.aborted /\ op'.expectedTree = op.expectedTree
    /\ op'.attempt = op.attempt /\ op'.outcome = op.outcome
    /\ op'.lockUnread = op.lockUnread

LEMMA Identifying ==
    ASSUME op \in Operation,
           op' = [op EXCEPT !.pc = "returned", !.evidence = "attempted", !.identified = TRUE]
    PROVE  Identifies /\ op'.identified = TRUE
  BY DEF Operation, Identifies, Stages, Evidence

(* execute goes on, and leaves the lock without an error.                  *)
Leaves(stage) ==
    /\ op' \in Operation /\ op'.pc = stage /\ op'.evidence = op.evidence
    /\ op'.initial = op.initial /\ op'.draftRevision = op.draftRevision
    /\ op'.aborted = op.aborted /\ op'.expectedTree = op.expectedTree
    /\ op'.identified = op.identified /\ op'.attempt = op.attempt
    /\ op'.outcome = op.outcome /\ op'.lockUnread = TRUE

LEMMA Leaving ==
    ASSUME op \in Operation, NEW stage \in Stages,
           op' = [op EXCEPT !.pc = stage, !.lockUnread = TRUE]
    PROVE  Leaves(stage)
  BY DEF Operation, Leaves

LEMMA Dispatching ==
    ASSUME op \in Operation, published \in Snapshot, draft \in Draft
    PROVE  [op EXCEPT !.pc = "refreshing", !.initial = published,
                      !.draftRevision = draft.revision] \in Operation
  BY DEF Operation, Draft, Stages

LEMMA Aborting ==
    ASSUME op \in Operation
    PROVE  [op EXCEPT !.aborted = TRUE] \in Operation
  BY DEF Operation

USE DEF Stages, Evidence, Outcomes, WithPrivateIndex, BeforeGit, Known

(* The actions, one by one.                                                *)
LEMMA ForeignLocksStep == CommitInv /\ ForeignLocks => CommitInv'
<1> SUFFICES ASSUME CommitInv, ForeignLocks PROVE CommitInv'
  OBVIOUS
<1>0. TypeOK /\ LockIsHeld /\ CommitIsTracked /\ EvidenceIsKnown /\ CommitsInspectedTree /\ SuccessIsOurs
  BY DEF CommitInv
<1> USE DEF ForeignLocks, ForeignStep
<1>1. TypeOK'
  BY <1>0 DEF TypeOK, Operation, Head, Snapshot, Draft, TreeFile, Commit, Process
<1>2. LockIsHeld'
  BY <1>0 DEF TypeOK, Operation, LockIsHeld
<1>3. CommitIsTracked'
  BY <1>0 DEF TypeOK, Operation, CommitIsTracked, LockIsHeld, EvidenceIsKnown
<1>4. EvidenceIsKnown'
  BY <1>0 DEF TypeOK, Operation, EvidenceIsKnown
<1>5. CommitsInspectedTree'
  BY <1>0 DEF TypeOK, Operation, LockIsHeld, CommitIsTracked, CommitsInspectedTree
<1>6. SuccessIsOurs'
  BY <1>0 DEF TypeOK, Operation, SuccessIsOurs, EvidenceIsKnown, CommitIsTracked, Head, Snapshot, Commit
<1>7. QED  BY <1>1, <1>2, <1>3, <1>4, <1>5, <1>6 DEF CommitInv

LEMMA ForeignUnlocksStep == CommitInv /\ ForeignUnlocks => CommitInv'
<1> SUFFICES ASSUME CommitInv, ForeignUnlocks PROVE CommitInv'
  OBVIOUS
<1>0. TypeOK /\ LockIsHeld /\ CommitIsTracked /\ EvidenceIsKnown /\ CommitsInspectedTree /\ SuccessIsOurs
  BY DEF CommitInv
<1> USE DEF ForeignUnlocks
<1>1. TypeOK'
  BY <1>0 DEF TypeOK, Operation, Head, Snapshot, Draft, TreeFile, Commit, Process
<1>2. LockIsHeld'
  BY <1>0 DEF TypeOK, Operation, LockIsHeld
<1>3. CommitIsTracked'
  BY <1>0 DEF TypeOK, Operation, CommitIsTracked, LockIsHeld, EvidenceIsKnown
<1>4. EvidenceIsKnown'
  BY <1>0 DEF TypeOK, Operation, EvidenceIsKnown
<1>5. CommitsInspectedTree'
  BY <1>0 DEF TypeOK, Operation, LockIsHeld, CommitIsTracked, CommitsInspectedTree
<1>6. SuccessIsOurs'
  BY <1>0 DEF TypeOK, Operation, SuccessIsOurs, EvidenceIsKnown, CommitIsTracked, Head, Snapshot, Commit
<1>7. QED  BY <1>1, <1>2, <1>3, <1>4, <1>5, <1>6 DEF CommitInv

LEMMA ForeignMovesHeadStep == CommitInv /\ ForeignMovesHead => CommitInv'
<1> SUFFICES ASSUME CommitInv, ForeignMovesHead PROVE CommitInv'
  OBVIOUS
<1>0. TypeOK /\ LockIsHeld /\ CommitIsTracked /\ EvidenceIsKnown /\ CommitsInspectedTree /\ SuccessIsOurs
  BY DEF CommitInv
<1> USE DEF ForeignMovesHead, ForeignStep, MovesHead
<1>1. TypeOK'
  BY <1>0 DEF TypeOK, Operation, Head, Snapshot, Draft, TreeFile, Commit, Process
<1>2. LockIsHeld'
  BY <1>0 DEF TypeOK, Operation, LockIsHeld
<1>3. CommitIsTracked'
  BY <1>0 DEF TypeOK, Operation, CommitIsTracked, LockIsHeld, EvidenceIsKnown
<1>4. EvidenceIsKnown'
  BY <1>0 DEF TypeOK, Operation, EvidenceIsKnown
<1>5. CommitsInspectedTree'
  BY <1>0 DEF TypeOK, Operation, LockIsHeld, CommitIsTracked, CommitsInspectedTree
<1>6. SuccessIsOurs'
  BY <1>0 DEF TypeOK, Operation, SuccessIsOurs, EvidenceIsKnown, CommitIsTracked, Head, Snapshot, Commit
<1>7. QED  BY <1>1, <1>2, <1>3, <1>4, <1>5, <1>6 DEF CommitInv

LEMMA ObserveStep == CommitInv /\ Observe => CommitInv'
<1> SUFFICES ASSUME CommitInv, Observe PROVE CommitInv'
  OBVIOUS
<1>0. TypeOK /\ LockIsHeld /\ CommitIsTracked /\ EvidenceIsKnown /\ CommitsInspectedTree /\ SuccessIsOurs
  BY DEF CommitInv
<1> USE DEF Observe, repository
<1>1. TypeOK'
  BY <1>0 DEF TypeOK, Operation, Head, Snapshot, Draft, TreeFile, Commit, Process
<1>2. LockIsHeld'
  BY <1>0 DEF TypeOK, Operation, LockIsHeld
<1>3. CommitIsTracked'
  BY <1>0 DEF TypeOK, Operation, CommitIsTracked, LockIsHeld, EvidenceIsKnown
<1>4. EvidenceIsKnown'
  BY <1>0 DEF TypeOK, Operation, EvidenceIsKnown
<1>5. CommitsInspectedTree'
  BY <1>0 DEF TypeOK, Operation, LockIsHeld, CommitIsTracked, CommitsInspectedTree
<1>6. SuccessIsOurs'
  BY <1>0 DEF TypeOK, Operation, SuccessIsOurs, EvidenceIsKnown, CommitIsTracked, Head, Snapshot, Commit
<1>7. QED  BY <1>1, <1>2, <1>3, <1>4, <1>5, <1>6 DEF CommitInv

LEMMA DispatchStep == CommitInv /\ Dispatch => CommitInv'
<1> SUFFICES ASSUME CommitInv, Dispatch PROVE CommitInv'
  OBVIOUS
<1>0. TypeOK /\ LockIsHeld /\ CommitIsTracked /\ EvidenceIsKnown /\ CommitsInspectedTree /\ SuccessIsOurs
  BY DEF CommitInv
<1> USE DEF Dispatch, At, KeepsRepository, repository, KeepsProcess
<1>1. TypeOK'
  BY <1>0, Dispatching DEF TypeOK
<1>2. LockIsHeld'
  BY <1>0 DEF TypeOK, Operation, LockIsHeld
<1>3. CommitIsTracked'
  BY <1>0 DEF TypeOK, Operation, CommitIsTracked, LockIsHeld, EvidenceIsKnown
<1>4. EvidenceIsKnown'
  BY <1>0 DEF TypeOK, Operation, EvidenceIsKnown
<1>5. CommitsInspectedTree'
  BY <1>0 DEF TypeOK, Operation, LockIsHeld, CommitIsTracked, CommitsInspectedTree
<1>6. SuccessIsOurs'
  BY <1>0 DEF TypeOK, Operation, SuccessIsOurs, EvidenceIsKnown, CommitIsTracked, Head, Snapshot, Commit
<1>7. QED  BY <1>1, <1>2, <1>3, <1>4, <1>5, <1>6 DEF CommitInv

LEMMA CheckTargetStep == CommitInv /\ CheckTarget => CommitInv'
<1> SUFFICES ASSUME CommitInv, CheckTarget PROVE CommitInv'
  OBVIOUS
<1>0. TypeOK /\ LockIsHeld /\ CommitIsTracked /\ EvidenceIsKnown /\ CommitsInspectedTree /\ SuccessIsOurs
  BY DEF CommitInv
<1>a. \/ Advances("returned", "rejected")
      \/ Advances("preparing", op.evidence)
  BY <1>0, Advancing, Noting, Identifying, Ending DEF TypeOK, Head, CheckTarget, Goes, Rejects, At, KeepsRepository, repository, KeepsProcess, AsReviewed
<1> USE DEF CheckTarget, At, KeepsRepository, repository, KeepsProcess, AsReviewed, Advances, Notes, Concludes, Identifies
<1>1. TypeOK'
  BY <1>0, <1>a DEF TypeOK, Head, Snapshot, Draft, TreeFile, Commit, Process
<1>2. LockIsHeld'
  BY <1>0, <1>a DEF TypeOK, Operation, LockIsHeld
<1>3. CommitIsTracked'
  BY <1>0, <1>a DEF TypeOK, Operation, CommitIsTracked, LockIsHeld, EvidenceIsKnown
<1>4. EvidenceIsKnown'
  BY <1>0, <1>a DEF TypeOK, Operation, EvidenceIsKnown
<1>5. CommitsInspectedTree'
  BY <1>0, <1>a DEF TypeOK, Operation, LockIsHeld, CommitIsTracked, CommitsInspectedTree
<1>6. SuccessIsOurs'
  BY <1>0, <1>a DEF TypeOK, Operation, SuccessIsOurs, EvidenceIsKnown, CommitIsTracked, Head, Snapshot, Commit
<1>7. QED  BY <1>1, <1>2, <1>3, <1>4, <1>5, <1>6 DEF CommitInv

LEMMA WriteExpectedTreeStep == CommitInv /\ WriteExpectedTree => CommitInv'
<1> SUFFICES ASSUME CommitInv, WriteExpectedTree PROVE CommitInv'
  OBVIOUS
<1>0. TypeOK /\ LockIsHeld /\ CommitIsTracked /\ EvidenceIsKnown /\ CommitsInspectedTree /\ SuccessIsOurs
  BY DEF CommitInv
<1>a. \/ Advances("returned", "rejected")
      \/ Advances("threw", op.evidence)
      \/ (op'.expectedTree = index /\ Notes("inspecting_head"))
  BY <1>0, Advancing, Noting, Identifying, Ending DEF TypeOK, Head, WriteExpectedTree, Rejects, Throws, Goes, At, KeepsRepository, repository, KeepsProcess
<1> USE DEF WriteExpectedTree, At, KeepsRepository, repository, KeepsProcess, Advances, Notes, Concludes, Identifies
<1>1. TypeOK'
  BY <1>0, <1>a DEF TypeOK, Head, Snapshot, Draft, TreeFile, Commit, Process
<1>2. LockIsHeld'
  <2>1. CASE Advances("returned", "rejected")
    BY <1>0, <2>1 DEF TypeOK, TreeFile, Process, LockIsHeld, CommitIsTracked
  <2>2. CASE Advances("threw", op.evidence)
    BY <1>0, <2>2 DEF TypeOK, TreeFile, Process, LockIsHeld, CommitIsTracked
  <2>3. CASE (op'.expectedTree = index /\ Notes("inspecting_head"))
    BY <1>0, <2>3 DEF TypeOK, TreeFile, Process, LockIsHeld, CommitIsTracked
  <2> QED  BY <1>a, <2>1, <2>2, <2>3
<1>3. CommitIsTracked'
  BY <1>0, <1>a DEF TypeOK, Operation, CommitIsTracked, LockIsHeld, EvidenceIsKnown
<1>4. EvidenceIsKnown'
  BY <1>0, <1>a DEF TypeOK, Operation, EvidenceIsKnown
<1>5. CommitsInspectedTree'
  BY <1>0, <1>a DEF TypeOK, Operation, LockIsHeld, CommitIsTracked, CommitsInspectedTree
<1>6. SuccessIsOurs'
  BY <1>0, <1>a DEF TypeOK, Operation, SuccessIsOurs, EvidenceIsKnown, CommitIsTracked, Head, Snapshot, Commit
<1>7. QED  BY <1>1, <1>2, <1>3, <1>4, <1>5, <1>6 DEF CommitInv

LEMMA InspectHeadStep == CommitInv /\ InspectHead => CommitInv'
<1> SUFFICES ASSUME CommitInv, InspectHead PROVE CommitInv'
  OBVIOUS
<1>0. TypeOK /\ LockIsHeld /\ CommitIsTracked /\ EvidenceIsKnown /\ CommitsInspectedTree /\ SuccessIsOurs
  BY DEF CommitInv
<1>a. \/ Advances("threw", op.evidence)
      \/ (op'.expectedTree = op.expectedTree /\ Notes("inspecting_index"))
  BY <1>0, Advancing, Noting, Identifying, Ending DEF TypeOK, Head, InspectHead, Throws, Goes, At, KeepsRepository, repository, KeepsProcess
<1> USE DEF InspectHead, At, KeepsRepository, repository, KeepsProcess, Advances, Notes, Concludes, Identifies
<1>1. TypeOK'
  BY <1>0, <1>a DEF TypeOK, Head, Snapshot, Draft, TreeFile, Commit, Process
<1>2. LockIsHeld'
  BY <1>0, <1>a DEF TypeOK, Operation, LockIsHeld
<1>3. CommitIsTracked'
  BY <1>0, <1>a DEF TypeOK, Operation, CommitIsTracked, LockIsHeld, EvidenceIsKnown
<1>4. EvidenceIsKnown'
  BY <1>0, <1>a DEF TypeOK, Operation, EvidenceIsKnown
<1>5. CommitsInspectedTree'
  BY <1>0, <1>a DEF TypeOK, Operation, LockIsHeld, CommitIsTracked, CommitsInspectedTree
<1>6. SuccessIsOurs'
  BY <1>0, <1>a DEF TypeOK, Operation, SuccessIsOurs, EvidenceIsKnown, CommitIsTracked, Head, Snapshot, Commit
<1>7. QED  BY <1>1, <1>2, <1>3, <1>4, <1>5, <1>6 DEF CommitInv

LEMMA InspectIndexStep == CommitInv /\ InspectIndex => CommitInv'
<1> SUFFICES ASSUME CommitInv, InspectIndex PROVE CommitInv'
  OBVIOUS
<1>0. TypeOK /\ LockIsHeld /\ CommitIsTracked /\ EvidenceIsKnown /\ CommitsInspectedTree /\ SuccessIsOurs
  BY DEF CommitInv
<1>a. \/ Advances("threw", op.evidence)
      \/ (op'.expectedTree = op.expectedTree /\ Notes("inspecting_lock"))
  BY <1>0, Advancing, Noting, Identifying, Ending DEF TypeOK, Head, InspectIndex, Throws, Goes, At, KeepsRepository, repository, KeepsProcess
<1> USE DEF InspectIndex, At, KeepsRepository, repository, KeepsProcess, Advances, Notes, Concludes, Identifies
<1>1. TypeOK'
  BY <1>0, <1>a DEF TypeOK, Head, Snapshot, Draft, TreeFile, Commit, Process
<1>2. LockIsHeld'
  BY <1>0, <1>a DEF TypeOK, Operation, LockIsHeld
<1>3. CommitIsTracked'
  BY <1>0, <1>a DEF TypeOK, Operation, CommitIsTracked, LockIsHeld, EvidenceIsKnown
<1>4. EvidenceIsKnown'
  BY <1>0, <1>a DEF TypeOK, Operation, EvidenceIsKnown
<1>5. CommitsInspectedTree'
  BY <1>0, <1>a DEF TypeOK, Operation, LockIsHeld, CommitIsTracked, CommitsInspectedTree
<1>6. SuccessIsOurs'
  BY <1>0, <1>a DEF TypeOK, Operation, SuccessIsOurs, EvidenceIsKnown, CommitIsTracked, Head, Snapshot, Commit
<1>7. QED  BY <1>1, <1>2, <1>3, <1>4, <1>5, <1>6 DEF CommitInv

LEMMA InspectLockStep == CommitInv /\ InspectLock => CommitInv'
<1> SUFFICES ASSUME CommitInv, InspectLock PROVE CommitInv'
  OBVIOUS
<1>0. TypeOK /\ LockIsHeld /\ CommitIsTracked /\ EvidenceIsKnown /\ CommitsInspectedTree /\ SuccessIsOurs
  BY DEF CommitInv
<1>a. \/ (lock = "free" /\ Advances("locking", op.evidence))
      \/ Advances("returned", "rejected")
  BY <1>0, Advancing, Noting, Identifying, Ending DEF TypeOK, Head, InspectLock, Goes, Rejects, At, KeepsRepository, repository, KeepsProcess
<1> USE DEF InspectLock, At, KeepsRepository, repository, KeepsProcess, Advances, Notes, Concludes, Identifies
<1>1. TypeOK'
  BY <1>0, <1>a DEF TypeOK, Head, Snapshot, Draft, TreeFile, Commit, Process
<1>2. LockIsHeld'
  BY <1>0, <1>a DEF TypeOK, Operation, LockIsHeld
<1>3. CommitIsTracked'
  BY <1>0, <1>a DEF TypeOK, Operation, CommitIsTracked, LockIsHeld, EvidenceIsKnown
<1>4. EvidenceIsKnown'
  BY <1>0, <1>a DEF TypeOK, Operation, EvidenceIsKnown
<1>5. CommitsInspectedTree'
  BY <1>0, <1>a DEF TypeOK, Operation, LockIsHeld, CommitIsTracked, CommitsInspectedTree
<1>6. SuccessIsOurs'
  BY <1>0, <1>a DEF TypeOK, Operation, SuccessIsOurs, EvidenceIsKnown, CommitIsTracked, Head, Snapshot, Commit
<1>7. QED  BY <1>1, <1>2, <1>3, <1>4, <1>5, <1>6 DEF CommitInv

LEMMA TakeLockStep == CommitInv /\ TakeLock => CommitInv'
<1> SUFFICES ASSUME CommitInv, TakeLock PROVE CommitInv'
  OBVIOUS
<1>0. TypeOK /\ LockIsHeld /\ CommitIsTracked /\ EvidenceIsKnown /\ CommitsInspectedTree /\ SuccessIsOurs
  BY DEF CommitInv
<1>a. \/ (UNCHANGED lock /\ Advances("returned", "rejected"))
      \/ (UNCHANGED lock /\ Advances("threw", op.evidence))
      \/ (lock' = "ours" /\ Advances("copying", op.evidence))
      \/ (lock' = "ours" /\ Advances("threw", op.evidence))
  BY <1>0, Advancing, Noting, Identifying, Ending DEF TypeOK, Head, TakeLock, Goes, Rejects, Throws, At, KeepsProcess
<1> USE DEF TakeLock, At, KeepsProcess, Advances, Notes, Concludes, Identifies
<1>1. TypeOK'
  BY <1>0, <1>a DEF TypeOK, Head, Snapshot, Draft, TreeFile, Commit, Process
<1>2. LockIsHeld'
  BY <1>0, <1>a DEF TypeOK, Operation, LockIsHeld
<1>3. CommitIsTracked'
  BY <1>0, <1>a DEF TypeOK, Operation, CommitIsTracked, LockIsHeld, EvidenceIsKnown
<1>4. EvidenceIsKnown'
  BY <1>0, <1>a DEF TypeOK, Operation, EvidenceIsKnown
<1>5. CommitsInspectedTree'
  BY <1>0, <1>a DEF TypeOK, Operation, LockIsHeld, CommitIsTracked, CommitsInspectedTree
<1>6. SuccessIsOurs'
  BY <1>0, <1>a DEF TypeOK, Operation, SuccessIsOurs, EvidenceIsKnown, CommitIsTracked, Head, Snapshot, Commit
<1>7. QED  BY <1>1, <1>2, <1>3, <1>4, <1>5, <1>6 DEF CommitInv

LEMMA CopyIndexStep == CommitInv /\ CopyIndex => CommitInv'
<1> SUFFICES ASSUME CommitInv, CopyIndex PROVE CommitInv'
  OBVIOUS
<1>0. TypeOK /\ LockIsHeld /\ CommitIsTracked /\ EvidenceIsKnown /\ CommitsInspectedTree /\ SuccessIsOurs
  BY DEF CommitInv
<1>a. \/ (private' = [exists |-> TRUE, tree |-> index] /\ UNCHANGED lock /\ Advances("verifying", op.evidence))
      \/ (lock' \in {"free", lock} /\ private' \in {private, [exists |-> TRUE, tree |-> index]}
          /\ Advances("threw", op.evidence))
  <2>1. CASE Goes("verifying") /\ private' = [exists |-> TRUE, tree |-> index] /\ UNCHANGED lock
    BY <1>0, <2>1, Going DEF TypeOK, Goes
  <2>2. CASE /\ Throws /\ lock' \in {"free", lock}
             /\ private' \in {private, [exists |-> TRUE, tree |-> index]}
    <3>1. Advances("threw", op.evidence)
      BY <1>0, <2>2, Going DEF TypeOK, Goes, Throws
    <3> QED  BY <2>2, <3>1
  <2> QED  BY <2>1, <2>2 DEF CopyIndex
<1>b. private' \in TreeFile
  <2>1. [exists |-> TRUE, tree |-> index] \in TreeFile
    BY <1>0 DEF TypeOK, TreeFile
  <2>2. private \in TreeFile
    BY <1>0 DEF TypeOK
  <2> QED  BY <1>a, <2>1, <2>2
<1> USE DEF CopyIndex, At, Advances, Notes, Concludes, Identifies
<1>1. TypeOK'
  <2>1. CASE (private' = [exists |-> TRUE, tree |-> index] /\ UNCHANGED lock /\ Advances("verifying", op.evidence))
    BY <1>0, <1>b, <2>1 DEF TypeOK, Snapshot, Draft, Commit, Process
  <2>2. CASE (lock' \in {"free", lock} /\ private' \in {private, [exists |-> TRUE, tree |-> index]}
          /\ Advances("threw", op.evidence))
    BY <1>0, <1>b, <2>2 DEF TypeOK, Snapshot, Draft, Commit, Process
  <2> QED  BY <1>a, <2>1, <2>2
<1>2. LockIsHeld'
  <2>1. CASE (private' = [exists |-> TRUE, tree |-> index] /\ UNCHANGED lock /\ Advances("verifying", op.evidence))
    BY <1>0, <2>1 DEF TypeOK, TreeFile, Process, LockIsHeld, CommitIsTracked
  <2>2. CASE (lock' \in {"free", lock} /\ private' \in {private, [exists |-> TRUE, tree |-> index]}
          /\ Advances("threw", op.evidence))
    BY <1>0, <2>2 DEF LockIsHeld, CommitIsTracked
  <2> QED  BY <1>a, <2>1, <2>2
<1>3. CommitIsTracked'
  BY <1>0, <1>a DEF TypeOK, Operation, CommitIsTracked, LockIsHeld, EvidenceIsKnown
<1>4. EvidenceIsKnown'
  BY <1>0, <1>a DEF TypeOK, Operation, EvidenceIsKnown
<1>5. CommitsInspectedTree'
  BY <1>0, <1>a DEF TypeOK, Operation, LockIsHeld, CommitIsTracked, CommitsInspectedTree
<1>6. SuccessIsOurs'
  BY <1>0, <1>a DEF TypeOK, Operation, SuccessIsOurs, EvidenceIsKnown, CommitIsTracked, Head, Snapshot, Commit
<1>7. QED  BY <1>1, <1>2, <1>3, <1>4, <1>5, <1>6 DEF CommitInv

LEMMA VerifyStep == CommitInv /\ Verify => CommitInv'
<1> SUFFICES ASSUME CommitInv, Verify PROVE CommitInv'
  OBVIOUS
<1>0. TypeOK /\ LockIsHeld /\ CommitIsTracked /\ EvidenceIsKnown /\ CommitsInspectedTree /\ SuccessIsOurs
  BY DEF CommitInv
<1>a. \/ Advances("threw", op.evidence)
      \/ (private.tree = op.expectedTree /\ Advances("starting", op.evidence))
      \/ Advances("discarding", "rejected")
  BY <1>0, Advancing, Noting, Identifying, Ending DEF TypeOK, Head, Verify, Goes, Throws, At, KeepsRepository, repository, KeepsProcess
<1> USE DEF Verify, At, KeepsRepository, repository, KeepsProcess, Advances, Notes, Concludes, Identifies
<1>1. TypeOK'
  BY <1>0, <1>a DEF TypeOK, Head, Snapshot, Draft, TreeFile, Commit, Process
<1>2. LockIsHeld'
  <2>1. CASE Advances("threw", op.evidence)
    BY <1>0, <2>1 DEF TypeOK, TreeFile, Process, LockIsHeld, CommitIsTracked
  <2>2. CASE (private.tree = op.expectedTree /\ Advances("starting", op.evidence))
    BY <1>0, <2>2 DEF TypeOK, TreeFile, Process, LockIsHeld, CommitIsTracked
  <2>3. CASE Advances("discarding", "rejected")
    BY <1>0, <2>3 DEF TypeOK, TreeFile, Process, LockIsHeld, CommitIsTracked
  <2> QED  BY <1>a, <2>1, <2>2, <2>3
<1>3. CommitIsTracked'
  BY <1>0, <1>a DEF TypeOK, Operation, CommitIsTracked, LockIsHeld, EvidenceIsKnown
<1>4. EvidenceIsKnown'
  BY <1>0, <1>a DEF TypeOK, Operation, EvidenceIsKnown
<1>5. CommitsInspectedTree'
  BY <1>0, <1>a DEF TypeOK, Operation, LockIsHeld, CommitIsTracked, CommitsInspectedTree
<1>6. SuccessIsOurs'
  BY <1>0, <1>a DEF TypeOK, Operation, SuccessIsOurs, EvidenceIsKnown, CommitIsTracked, Head, Snapshot, Commit
<1>7. QED  BY <1>1, <1>2, <1>3, <1>4, <1>5, <1>6 DEF CommitInv

LEMMA StartGitStep == CommitInv /\ StartGit => CommitInv'
<1> SUFFICES ASSUME CommitInv, StartGit PROVE CommitInv'
  OBVIOUS
<1>0. TypeOK /\ LockIsHeld /\ CommitIsTracked /\ EvidenceIsKnown /\ CommitsInspectedTree /\ SuccessIsOurs
  BY DEF CommitInv
<1>a. \/ (UNCHANGED git /\ Advances("threw", op.evidence))
      \/ (git' = [running |-> TRUE, parent |-> head.id, hooked |-> FALSE] /\ Advances("committing", op.evidence))
  BY <1>0, Advancing, Noting, Identifying, Ending DEF TypeOK, Head, StartGit, Goes, Throws, At, KeepsRepository, repository
<1> USE DEF StartGit, At, KeepsRepository, repository, Advances, Notes, Concludes, Identifies
<1>1. TypeOK'
  <2>1. CASE (UNCHANGED git /\ Advances("threw", op.evidence))
    BY <1>0, <2>1 DEF TypeOK, Head, Snapshot, Draft, TreeFile, Commit, Process
  <2>2. CASE (git' = [running |-> TRUE, parent |-> head.id, hooked |-> FALSE] /\ Advances("committing", op.evidence))
    BY <1>0, <2>2 DEF TypeOK, Head, Snapshot, Draft, TreeFile, Commit, Process
  <2> QED  BY <1>a, <2>1, <2>2
<1>2. LockIsHeld'
  BY <1>0, <1>a DEF TypeOK, Operation, LockIsHeld
<1>3. CommitIsTracked'
  <2>1. CASE (UNCHANGED git /\ Advances("threw", op.evidence))
    BY <1>0, <2>1 DEF TypeOK, Process, CommitIsTracked, LockIsHeld, EvidenceIsKnown
  <2>2. CASE (git' = [running |-> TRUE, parent |-> head.id, hooked |-> FALSE] /\ Advances("committing", op.evidence))
    BY <1>0, <2>2 DEF TypeOK, Process, CommitIsTracked, LockIsHeld, EvidenceIsKnown
  <2> QED  BY <1>a, <2>1, <2>2
<1>4. EvidenceIsKnown'
  BY <1>0, <1>a DEF TypeOK, Operation, EvidenceIsKnown
<1>5. CommitsInspectedTree'
  BY <1>0, <1>a DEF TypeOK, Operation, LockIsHeld, CommitIsTracked, CommitsInspectedTree
<1>6. SuccessIsOurs'
  BY <1>0, <1>a DEF TypeOK, Operation, SuccessIsOurs, EvidenceIsKnown, CommitIsTracked, Head, Snapshot, Commit
<1>7. QED  BY <1>1, <1>2, <1>3, <1>4, <1>5, <1>6 DEF CommitInv

LEMMA GitExitsStep == CommitInv /\ GitExits => CommitInv'
<1> SUFFICES ASSUME CommitInv, GitExits PROVE CommitInv'
  OBVIOUS
<1>0. TypeOK /\ LockIsHeld /\ CommitIsTracked /\ EvidenceIsKnown /\ CommitsInspectedTree /\ SuccessIsOurs
  BY DEF CommitInv
<1>a. \/ (made.exists /\ Advances("promoting", op.evidence))
      \/ Advances("discarding", "failed_known")
      \/ Advances("threw", op.evidence)
  BY <1>0, Advancing, Noting, Identifying, Ending DEF TypeOK, Head, GitExits, Goes, Throws, At, KeepsRepository, repository
<1> USE DEF GitExits, At, KeepsRepository, repository, Advances, Notes, Concludes, Identifies
<1>1. TypeOK'
  BY <1>0, <1>a DEF TypeOK, Head, Snapshot, Draft, TreeFile, Commit, Process
<1>2. LockIsHeld'
  BY <1>0, <1>a DEF TypeOK, Operation, LockIsHeld
<1>3. CommitIsTracked'
  BY <1>0, <1>a DEF TypeOK, Operation, CommitIsTracked, LockIsHeld, EvidenceIsKnown
<1>4. EvidenceIsKnown'
  BY <1>0, <1>a DEF TypeOK, Operation, EvidenceIsKnown
<1>5. CommitsInspectedTree'
  BY <1>0, <1>a DEF TypeOK, Operation, LockIsHeld, CommitIsTracked, CommitsInspectedTree
<1>6. SuccessIsOurs'
  BY <1>0, <1>a DEF TypeOK, Operation, SuccessIsOurs, EvidenceIsKnown, CommitIsTracked, Head, Snapshot, Commit
<1>7. QED  BY <1>1, <1>2, <1>3, <1>4, <1>5, <1>6 DEF CommitInv

LEMMA AbortEndsCallStep == CommitInv /\ AbortEndsCall => CommitInv'
<1> SUFFICES ASSUME CommitInv, AbortEndsCall PROVE CommitInv'
  OBVIOUS
<1>0. TypeOK /\ LockIsHeld /\ CommitIsTracked /\ EvidenceIsKnown /\ CommitsInspectedTree /\ SuccessIsOurs
  BY DEF CommitInv
<1> USE DEF AbortEndsCall, Throws, Goes, At, KeepsRepository, repository, KeepsProcess
<1>1. TypeOK'
  BY <1>0 DEF TypeOK, Operation, Head, Snapshot, Draft, TreeFile, Commit, Process
<1>2. LockIsHeld'
  BY <1>0 DEF TypeOK, Operation, LockIsHeld
<1>3. CommitIsTracked'
  BY <1>0 DEF TypeOK, Operation, CommitIsTracked, LockIsHeld, EvidenceIsKnown
<1>4. EvidenceIsKnown'
  BY <1>0 DEF TypeOK, Operation, EvidenceIsKnown
<1>5. CommitsInspectedTree'
  BY <1>0 DEF TypeOK, Operation, LockIsHeld, CommitIsTracked, CommitsInspectedTree
<1>6. SuccessIsOurs'
  BY <1>0 DEF TypeOK, Operation, SuccessIsOurs, EvidenceIsKnown, CommitIsTracked, Head, Snapshot, Commit
<1>7. QED  BY <1>1, <1>2, <1>3, <1>4, <1>5, <1>6 DEF CommitInv

LEMMA DiscardStep == CommitInv /\ Discard => CommitInv'
<1> SUFFICES ASSUME CommitInv, Discard PROVE CommitInv'
  OBVIOUS
<1>0. TypeOK /\ LockIsHeld /\ CommitIsTracked /\ EvidenceIsKnown /\ CommitsInspectedTree /\ SuccessIsOurs
  BY DEF CommitInv
<1>a. \/ (lock' = "free" /\ Advances("returned", op.evidence))
      \/ (UNCHANGED lock /\ Advances("threw", op.evidence))
      \/ (UNCHANGED lock /\ Leaves("returned"))
  BY <1>0, Going, Leaving
     DEF TypeOK, Discard, RemoveOwnedSentinel, FreesLock, LockResists, LeavesLock, Goes, Throws
<1>b. private' \in TreeFile
  <2>1. NoTree \in TreeFile
    BY DEF NoTree, TreeFile
  <2>2. private \in TreeFile
    BY <1>0 DEF TypeOK
  <2> QED  BY <2>1, <2>2 DEF Discard
<1> USE DEF Discard, At, NoTree, Advances, Notes, Concludes, Identifies, Leaves
<1>1. TypeOK'
  BY <1>0, <1>a, <1>b DEF TypeOK, Snapshot, Draft, Commit, Process
<1>2. LockIsHeld'
  <2>1. CASE (lock' = "free" /\ Advances("returned", op.evidence))
    BY <1>0, <2>1 DEF TypeOK, TreeFile, Process, LockIsHeld, CommitIsTracked
  <2>2. CASE (UNCHANGED lock /\ Advances("threw", op.evidence))
    BY <1>0, <2>2 DEF TypeOK, TreeFile, Process, LockIsHeld, CommitIsTracked
  <2>3. CASE (UNCHANGED lock /\ Leaves("returned"))
    BY <1>0, <2>3 DEF TypeOK, TreeFile, Process, LockIsHeld, CommitIsTracked
  <2> QED  BY <1>a, <2>1, <2>2, <2>3
<1>3. CommitIsTracked'
  BY <1>0, <1>a DEF TypeOK, Operation, CommitIsTracked, LockIsHeld, EvidenceIsKnown
<1>4. EvidenceIsKnown'
  BY <1>0, <1>a DEF TypeOK, Operation, EvidenceIsKnown
<1>5. CommitsInspectedTree'
  BY <1>0, <1>a DEF TypeOK, Operation, LockIsHeld, CommitIsTracked, CommitsInspectedTree
<1>6. SuccessIsOurs'
  BY <1>0, <1>a DEF TypeOK, Operation, SuccessIsOurs, EvidenceIsKnown, CommitIsTracked, Head, Snapshot, Commit
<1>7. QED  BY <1>1, <1>2, <1>3, <1>4, <1>5, <1>6 DEF CommitInv

LEMMA PromoteStep == CommitInv /\ Promote => CommitInv'
<1> SUFFICES ASSUME CommitInv, Promote PROVE CommitInv'
  OBVIOUS
<1>0. TypeOK /\ LockIsHeld /\ CommitIsTracked /\ EvidenceIsKnown /\ CommitsInspectedTree /\ SuccessIsOurs
  BY DEF CommitInv
<1>a. \/ (index' = private.tree /\ private' = NoTree /\ Advances("releasing", op.evidence))
      \/ (UNCHANGED <<index, private>> /\ Advances("threw", op.evidence))
  BY <1>0, Advancing, Noting, Identifying, Ending DEF TypeOK, Head, Promote, Goes, Throws, At, NoTree
<1> USE DEF Promote, At, NoTree, Advances, Notes, Concludes, Identifies
<1>1. TypeOK'
  <2>1. CASE (index' = private.tree /\ private' = NoTree /\ Advances("releasing", op.evidence))
    BY <1>0, <2>1 DEF TypeOK, Head, Snapshot, Draft, TreeFile, Commit, Process
  <2>2. CASE (UNCHANGED <<index, private>> /\ Advances("threw", op.evidence))
    BY <1>0, <2>2 DEF TypeOK, Head, Snapshot, Draft, TreeFile, Commit, Process
  <2> QED  BY <1>a, <2>1, <2>2
<1>2. LockIsHeld'
  <2>1. CASE (index' = private.tree /\ private' = NoTree /\ Advances("releasing", op.evidence))
    BY <1>0, <2>1 DEF TypeOK, TreeFile, Process, LockIsHeld, CommitIsTracked
  <2>2. CASE (UNCHANGED <<index, private>> /\ Advances("threw", op.evidence))
    BY <1>0, <2>2 DEF TypeOK, TreeFile, Process, LockIsHeld, CommitIsTracked
  <2> QED  BY <1>a, <2>1, <2>2
<1>3. CommitIsTracked'
  BY <1>0, <1>a DEF TypeOK, Operation, CommitIsTracked, LockIsHeld, EvidenceIsKnown
<1>4. EvidenceIsKnown'
  BY <1>0, <1>a DEF TypeOK, Operation, EvidenceIsKnown
<1>5. CommitsInspectedTree'
  BY <1>0, <1>a DEF TypeOK, Operation, LockIsHeld, CommitIsTracked, CommitsInspectedTree
<1>6. SuccessIsOurs'
  BY <1>0, <1>a DEF TypeOK, Operation, SuccessIsOurs, EvidenceIsKnown, CommitIsTracked, Head, Snapshot, Commit
<1>7. QED  BY <1>1, <1>2, <1>3, <1>4, <1>5, <1>6 DEF CommitInv

LEMMA ReleaseStep == CommitInv /\ Release => CommitInv'
<1> SUFFICES ASSUME CommitInv, Release PROVE CommitInv'
  OBVIOUS
<1>0. TypeOK /\ LockIsHeld /\ CommitIsTracked /\ EvidenceIsKnown /\ CommitsInspectedTree /\ SuccessIsOurs
  BY DEF CommitInv
<1>a. \/ (lock' = "free" /\ Advances("identifying", op.evidence))
      \/ (UNCHANGED lock /\ Advances("threw", op.evidence))
      \/ (UNCHANGED lock /\ Leaves("identifying"))
  BY <1>0, Going, Leaving
     DEF TypeOK, Release, RemoveOwnedSentinel, FreesLock, LockResists, LeavesLock, Goes, Throws
<1> USE DEF Release, At, KeepsProcess, Advances, Leaves
<1>1. TypeOK'
  BY <1>0, <1>a DEF TypeOK, Operation, Head, Snapshot, Draft, TreeFile, Commit, Process
<1>2. LockIsHeld'
  BY <1>0, <1>a DEF TypeOK, Operation, LockIsHeld
<1>3. CommitIsTracked'
  BY <1>0, <1>a DEF TypeOK, Operation, CommitIsTracked, LockIsHeld, EvidenceIsKnown
<1>4. EvidenceIsKnown'
  BY <1>0, <1>a DEF TypeOK, Operation, EvidenceIsKnown
<1>5. CommitsInspectedTree'
  BY <1>0, <1>a DEF TypeOK, Operation, LockIsHeld, CommitIsTracked, CommitsInspectedTree
<1>6. SuccessIsOurs'
  BY <1>0, <1>a DEF TypeOK, Operation, SuccessIsOurs, EvidenceIsKnown, CommitIsTracked, Head, Snapshot, Commit
<1>7. QED  BY <1>1, <1>2, <1>3, <1>4, <1>5, <1>6 DEF CommitInv

LEMMA IdentifyStep == CommitInv /\ Identify => CommitInv'
<1> SUFFICES ASSUME CommitInv, Identify PROVE CommitInv'
  OBVIOUS
<1>0. TypeOK /\ LockIsHeld /\ CommitIsTracked /\ EvidenceIsKnown /\ CommitsInspectedTree /\ SuccessIsOurs
  BY DEF CommitInv
<1>a. \/ (op'.identified = TRUE /\ Identifies)
      \/ Advances("threw", op.evidence)
  BY <1>0, Advancing, Noting, Identifying, Ending DEF TypeOK, Head, Identify, Throws, Goes, At, KeepsRepository, repository, KeepsProcess
<1> USE DEF Identify, At, KeepsRepository, repository, KeepsProcess, Advances, Notes, Concludes, Identifies
<1>1. TypeOK'
  BY <1>0, <1>a DEF TypeOK, Head, Snapshot, Draft, TreeFile, Commit, Process
<1>2. LockIsHeld'
  BY <1>0, <1>a DEF TypeOK, Operation, LockIsHeld
<1>3. CommitIsTracked'
  <2>1. CASE (op'.identified = TRUE /\ Identifies)
    BY <1>0, <2>1 DEF TypeOK, Process, CommitIsTracked, LockIsHeld, EvidenceIsKnown
  <2>2. CASE Advances("threw", op.evidence)
    BY <1>0, <2>2 DEF TypeOK, Process, CommitIsTracked, LockIsHeld, EvidenceIsKnown
  <2> QED  BY <1>a, <2>1, <2>2
<1>4. EvidenceIsKnown'
  <2>1. CASE (op'.identified = TRUE /\ Identifies)
    BY <1>0, <2>1 DEF TypeOK, EvidenceIsKnown, CommitIsTracked
  <2>2. CASE Advances("threw", op.evidence)
    BY <1>0, <2>2 DEF TypeOK, EvidenceIsKnown, CommitIsTracked
  <2> QED  BY <1>a, <2>1, <2>2
<1>5. CommitsInspectedTree'
  BY <1>0, <1>a DEF TypeOK, Operation, LockIsHeld, CommitIsTracked, CommitsInspectedTree
<1>6. SuccessIsOurs'
  BY <1>0, <1>a DEF TypeOK, Operation, SuccessIsOurs, EvidenceIsKnown, CommitIsTracked, Head, Snapshot, Commit
<1>7. QED  BY <1>1, <1>2, <1>3, <1>4, <1>5, <1>6 DEF CommitInv

LEMMA HookStagesStep == CommitInv /\ HookStages => CommitInv'
<1> SUFFICES ASSUME CommitInv, HookStages PROVE CommitInv'
  OBVIOUS
<1>0. TypeOK /\ LockIsHeld /\ CommitIsTracked /\ EvidenceIsKnown /\ CommitsInspectedTree /\ SuccessIsOurs
  BY DEF CommitInv
<1>a. private' \in TreeFile /\ private'.exists = private.exists
  BY <1>0 DEF HookStages, TypeOK, TreeFile
<1>b. git' \in Process /\ git'.running = git.running
  BY <1>0 DEF HookStages, TypeOK, Process
<1>c. git'.hooked
  BY <1>0 DEF HookStages, TypeOK, Process
<1>d. op.pc \in {"committing", "threw"}
  BY <1>0 DEF HookStages, CommitIsTracked
<1>e. trees' \in Nat /\ UNCHANGED <<index, lock, head, commits, heads, draft, published, made, op, foreign>>
  BY <1>0 DEF HookStages, TypeOK
<1>1. TypeOK'
  BY <1>0, <1>a, <1>b, <1>e DEF TypeOK
<1>2. LockIsHeld'
  BY <1>0, <1>a, <1>c, <1>d, <1>e DEF LockIsHeld
<1>3. CommitIsTracked'
  BY <1>0, <1>b, <1>e DEF CommitIsTracked
<1>4. (EvidenceIsKnown /\ CommitsInspectedTree /\ SuccessIsOurs)'
  BY <1>0, <1>e DEF EvidenceIsKnown, CommitsInspectedTree, SuccessIsOurs
<1> QED  BY <1>1, <1>2, <1>3, <1>4 DEF CommitInv

LEMMA GitUpdatesRefStep == CommitInv /\ GitUpdatesRef => CommitInv'
<1> SUFFICES ASSUME CommitInv, GitUpdatesRef PROVE CommitInv'
  OBVIOUS
<1>0. TypeOK /\ LockIsHeld /\ CommitIsTracked /\ EvidenceIsKnown /\ CommitsInspectedTree /\ SuccessIsOurs
  BY DEF CommitInv
<1> USE DEF GitUpdatesRef, MovesHead
<1>1. TypeOK'
  BY <1>0 DEF TypeOK, Operation, Head, Snapshot, Draft, TreeFile, Commit, Process
<1>2. LockIsHeld'
  BY <1>0 DEF TypeOK, Operation, LockIsHeld
<1>3. CommitIsTracked'
  BY <1>0 DEF TypeOK, Operation, CommitIsTracked, LockIsHeld, EvidenceIsKnown
<1>4. EvidenceIsKnown'
  BY <1>0 DEF TypeOK, Operation, EvidenceIsKnown
<1>5. CommitsInspectedTree'
  BY <1>0 DEF TypeOK, Operation, LockIsHeld, CommitIsTracked, CommitsInspectedTree
<1>6. SuccessIsOurs'
  BY <1>0 DEF TypeOK, Operation, SuccessIsOurs, EvidenceIsKnown, CommitIsTracked, Head, Snapshot, Commit
<1>7. QED  BY <1>1, <1>2, <1>3, <1>4, <1>5, <1>6 DEF CommitInv

LEMMA GitExitsUnseenStep == CommitInv /\ GitExitsUnseen => CommitInv'
<1> SUFFICES ASSUME CommitInv, GitExitsUnseen PROVE CommitInv'
  OBVIOUS
<1>0. TypeOK /\ LockIsHeld /\ CommitIsTracked /\ EvidenceIsKnown /\ CommitsInspectedTree /\ SuccessIsOurs
  BY DEF CommitInv
<1>a. git' \in Process /\ ~git'.running
  BY <1>0 DEF GitExitsUnseen, TypeOK, Process
<1> USE DEF GitExitsUnseen, repository
<1>1. TypeOK'
  BY <1>0, <1>a DEF TypeOK, Operation, Head, Snapshot, Draft, TreeFile, Commit, Process
<1>2. LockIsHeld'
  BY <1>0, <1>a DEF TypeOK, Operation, LockIsHeld
<1>3. CommitIsTracked'
  BY <1>0, <1>a DEF TypeOK, Operation, CommitIsTracked, LockIsHeld, EvidenceIsKnown
<1>4. EvidenceIsKnown'
  BY <1>0, <1>a DEF TypeOK, Operation, EvidenceIsKnown
<1>5. CommitsInspectedTree'
  BY <1>0, <1>a DEF TypeOK, Operation, LockIsHeld, CommitIsTracked, CommitsInspectedTree
<1>6. SuccessIsOurs'
  BY <1>0, <1>a DEF TypeOK, Operation, SuccessIsOurs, EvidenceIsKnown, CommitIsTracked, Head, Snapshot, Commit
<1>7. QED  BY <1>1, <1>2, <1>3, <1>4, <1>5, <1>6 DEF CommitInv

LEMMA AbortStep == CommitInv /\ Abort => CommitInv'
<1> SUFFICES ASSUME CommitInv, Abort PROVE CommitInv'
  OBVIOUS
<1>0. TypeOK /\ LockIsHeld /\ CommitIsTracked /\ EvidenceIsKnown /\ CommitsInspectedTree /\ SuccessIsOurs
  BY DEF CommitInv
<1> USE DEF Abort, repository
<1>1. TypeOK'
  BY <1>0, Aborting DEF TypeOK
<1>2. LockIsHeld'
  BY <1>0 DEF TypeOK, Operation, LockIsHeld
<1>3. CommitIsTracked'
  BY <1>0 DEF TypeOK, Operation, CommitIsTracked, LockIsHeld, EvidenceIsKnown
<1>4. EvidenceIsKnown'
  BY <1>0 DEF TypeOK, Operation, EvidenceIsKnown
<1>5. CommitsInspectedTree'
  BY <1>0 DEF TypeOK, Operation, LockIsHeld, CommitIsTracked, CommitsInspectedTree
<1>6. SuccessIsOurs'
  BY <1>0 DEF TypeOK, Operation, SuccessIsOurs, EvidenceIsKnown, CommitIsTracked, Head, Snapshot, Commit
<1>7. QED  BY <1>1, <1>2, <1>3, <1>4, <1>5, <1>6 DEF CommitInv

LEMMA StartReconciliationStep == CommitInv /\ StartReconciliation => CommitInv'
<1> SUFFICES ASSUME CommitInv, StartReconciliation PROVE CommitInv'
  OBVIOUS
<1>0. TypeOK /\ LockIsHeld /\ CommitIsTracked /\ EvidenceIsKnown /\ CommitsInspectedTree /\ SuccessIsOurs
  BY DEF CommitInv
<1> USE DEF StartReconciliation, repository
<1>1. TypeOK'
  BY <1>0 DEF TypeOK, Operation, Head, Snapshot, Draft, TreeFile, Commit, Process
<1>2. LockIsHeld'
  BY <1>0 DEF TypeOK, Operation, LockIsHeld
<1>3. CommitIsTracked'
  BY <1>0 DEF TypeOK, Operation, CommitIsTracked, LockIsHeld, EvidenceIsKnown
<1>4. EvidenceIsKnown'
  BY <1>0 DEF TypeOK, Operation, EvidenceIsKnown
<1>5. CommitsInspectedTree'
  BY <1>0 DEF TypeOK, Operation, LockIsHeld, CommitIsTracked, CommitsInspectedTree
<1>6. SuccessIsOurs'
  BY <1>0 DEF TypeOK, Operation, SuccessIsOurs, EvidenceIsKnown, CommitIsTracked, Head, Snapshot, Commit
<1>7. QED  BY <1>1, <1>2, <1>3, <1>4, <1>5, <1>6 DEF CommitInv

LEMMA FinishReconciliationStep == CommitInv /\ FinishReconciliation => CommitInv'
<1> SUFFICES ASSUME CommitInv, FinishReconciliation PROVE CommitInv'
  OBVIOUS
<1>0. TypeOK /\ LockIsHeld /\ CommitIsTracked /\ EvidenceIsKnown /\ CommitsInspectedTree /\ SuccessIsOurs
  BY DEF CommitInv
<1>1. UNCHANGED <<repository, published, private, git, made, foreign>>
  BY DEF FinishReconciliation
<1>2. draft' \in Draft
  <2>1. CASE UNCHANGED draft
    BY <1>0, <2>1 DEF TypeOK
  <2>2. CASE draft' = [revision |-> draft.revision + 1, empty |-> TRUE]
    BY <1>0, <2>2 DEF TypeOK, Draft
  <2> QED  BY <2>1, <2>2 DEF FinishReconciliation, ClearDraft
<1>3. \/ Concludes("unknown_outcome")
      \/ op.attempt \in {"rejected", "failed_known"} /\ Concludes(op.attempt)
      \/ ShowsCommit /\ Concludes("succeeded")
  BY <1>0, Ending DEF FinishReconciliation, TypeOK
<1>4. ShowsCommit => op.pc = "returned" /\ op.evidence = "attempted" /\ made.exists
  BY <1>0 DEF ShowsCommit, EvidenceIsKnown
<1>5. TypeOK'
  BY <1>0, <1>1, <1>2, <1>3 DEF TypeOK, Concludes, repository
<1>6. LockIsHeld'
  BY <1>0, <1>1, <1>3 DEF LockIsHeld, Concludes, repository
<1>7. CommitIsTracked'
  BY <1>0, <1>1, <1>3 DEF CommitIsTracked, Concludes, repository
<1>8. EvidenceIsKnown'
  BY <1>0, <1>1, <1>3, <1>4 DEF EvidenceIsKnown, Concludes
<1>9. CommitsInspectedTree'
  BY <1>0, <1>1, <1>3 DEF CommitsInspectedTree, Concludes
<1>10. SuccessIsOurs'
  <2>1. CASE ShowsCommit /\ Concludes("succeeded")
    <3>1. made.parent = op.initial.head.id /\ published.head \in heads
          /\ published.head.id = made.id /\ published.head.branch = op.initial.head.branch
      BY <1>0, <2>1 DEF ShowsCommit, CommitIsTracked
    <3>2. [op.initial.head EXCEPT !.id = made.id] = published.head
      BY <1>0, <3>1 DEF TypeOK, Operation, Snapshot, Head
    <3> QED  BY <1>0, <1>1, <1>4, <2>1, <3>1, <3>2 DEF SuccessIsOurs, Concludes, repository
  <2>2. CASE Concludes("unknown_outcome")
    BY <2>2 DEF SuccessIsOurs, Concludes
  <2>3. CASE op.attempt \in {"rejected", "failed_known"} /\ Concludes(op.attempt)
    BY <2>3 DEF SuccessIsOurs, Concludes
  <2> QED  BY <1>3, <2>1, <2>2, <2>3
<1> QED  BY <1>5, <1>6, <1>7, <1>8, <1>9, <1>10 DEF CommitInv

LEMMA EditDraftStep == ASSUME NEW empty \in BOOLEAN, CommitInv, EditDraft(empty) PROVE CommitInv'
  BY DEF EditDraft, repository, CommitInv, TypeOK, LockIsHeld, CommitIsTracked, EvidenceIsKnown,
      CommitsInspectedTree, SuccessIsOurs, Draft

LEMMA StutterStep == CommitInv /\ UNCHANGED vars => CommitInv'
  BY DEF vars, repository, CommitInv, TypeOK, LockIsHeld, CommitIsTracked, EvidenceIsKnown,
      CommitsInspectedTree, SuccessIsOurs

LEMMA InitEstablishes == Init => CommitInv
<1> SUFFICES ASSUME Init PROVE CommitInv
  OBVIOUS
<1>1. head \in Head /\ head \in heads /\ published \in Snapshot /\ published.head = head
  BY DEF Init, Head, Snapshot
<1>2. /\ op \in Operation /\ op.pc = "idle" /\ op.evidence = "none" /\ op.outcome = "none"
      /\ op.attempt = "idle" /\ ~op.identified
  BY <1>1 DEF Init, NotDispatched, Operation
<1>3. draft \in Draft /\ private \in TreeFile /\ ~private.exists
      /\ git \in Process /\ ~git.running /\ made \in Commit /\ ~made.exists
  BY DEF Init, NoTree, NoCommit, Draft, TreeFile, Process, Commit
<1>4. TypeOK
  BY <1>1, <1>2, <1>3 DEF Init, TypeOK
<1>5. LockIsHeld /\ CommitIsTracked /\ EvidenceIsKnown /\ CommitsInspectedTree /\ SuccessIsOurs
  BY <1>1, <1>2, <1>3 DEF Init, LockIsHeld, CommitIsTracked, EvidenceIsKnown,
      CommitsInspectedTree, SuccessIsOurs
<1> QED  BY <1>4, <1>5 DEF CommitInv

LEMMA StepPreserves == CommitInv /\ [Next]_vars => CommitInv'
<1> SUFFICES ASSUME CommitInv, [Next]_vars PROVE CommitInv'
  OBVIOUS
<1>1. CASE Others
  BY <1>1, ForeignLocksStep, ForeignUnlocksStep, ForeignMovesHeadStep, ObserveStep, EditDraftStep
  DEF Others
<1>2. CASE Execute
  BY <1>2, DispatchStep, CheckTargetStep, WriteExpectedTreeStep, InspectHeadStep,
     InspectIndexStep, InspectLockStep, TakeLockStep, CopyIndexStep, VerifyStep, StartGitStep,
     GitExitsStep, AbortEndsCallStep, DiscardStep, PromoteStep, ReleaseStep, IdentifyStep
  DEF Execute
<1>3. CASE HookStages \/ GitUpdatesRef \/ GitExitsUnseen \/ Abort \/ StartReconciliation
           \/ FinishReconciliation
  BY <1>3, HookStagesStep, GitUpdatesRefStep, GitExitsUnseenStep, AbortStep,
     StartReconciliationStep, FinishReconciliationStep
<1>4. CASE UNCHANGED vars
  BY <1>4, StutterStep
<1> QED  BY <1>1, <1>2, <1>3, <1>4 DEF Next

(* The invariant of the transaction, for every number of steps of others.  *)
THEOREM CommitInvariance == Spec => []CommitInv
<1>1. Init => CommitInv
  BY InitEstablishes
<1>2. CommitInv /\ [Next]_vars => CommitInv'
  BY StepPreserves
<1> QED  BY <1>1, <1>2, PTL DEF Spec

(* What is committed has the tree that was inspected.                      *)
THEOREM CommitHasInspectedTree == Spec => []CommitsInspectedTree
<1>1. CommitInv => CommitsInspectedTree
  BY DEF CommitInv
<1> QED  BY <1>1, CommitInvariance, PTL

(* No commit of another program is reported as this one.                   *)
THEOREM ReportedSuccessIsOurs == Spec => []SuccessIsOurs
<1>1. CommitInv => SuccessIsOurs
  BY DEF CommitInv
<1> QED  BY <1>1, CommitInvariance, PTL

(* A known outcome leaves no process, and our lock only where the stat in  *)
(* removeOwnedSentinel failed.                                             *)
THEOREM KnownOutcomesAreClean == Spec => []KnownOutcomeIsClean
<1>1. CommitInv => KnownOutcomeIsClean
  <2> SUFFICES ASSUME CommitInv, op.outcome \in {"rejected", "failed_known", "succeeded"}
               PROVE  /\ ~git.running
                      /\ lock = "ours" => op.lockUnread
                      /\ op.outcome = "rejected" => ~made.exists
    BY DEF KnownOutcomeIsClean
  <2>1. op.pc = "returned" /\ (op.outcome = "rejected" => op.evidence = "rejected")
    BY DEF CommitInv, EvidenceIsKnown
  <2>2. lock = "ours" => op.lockUnread
    BY <2>1 DEF CommitInv, LockIsHeld
  <2>3. ~git.running /\ (op.outcome = "rejected" => ~made.exists)
    BY <2>1 DEF CommitInv, CommitIsTracked
  <2> QED  BY <2>2, <2>3
<1> QED  BY <1>1, CommitInvariance, PTL

(* No content that another program staged is overwritten.                  *)
THEOREM StagingIsNotLost == Spec => StagingIsKept
<1>1. CommitInv /\ [Next]_vars => [index' # index => lock = "foreign" \/ index = op.expectedTree]_vars
  <2> SUFFICES ASSUME CommitInv, Next, index' # index
               PROVE  lock = "foreign" \/ index = op.expectedTree
    OBVIOUS
  <2>1. ForeignUnlocks \/ Promote
    BY DEF Next, Others, Execute, repository, KeepsRepository, At, ForeignLocks, ForeignMovesHead,
           EditDraft, Observe, Dispatch, CheckTarget, WriteExpectedTree, InspectHead, InspectIndex,
           InspectLock, TakeLock, CopyIndex, Verify, StartGit, GitExits, AbortEndsCall, Discard,
           Release, Identify, HookStages, GitUpdatesRef, GitExitsUnseen, Abort,
           StartReconciliation, FinishReconciliation
  <2>2. CASE Promote
    BY <2>2 DEF Promote, At, CommitInv, LockIsHeld
  <2>3. CASE ForeignUnlocks
    BY <2>3 DEF ForeignUnlocks
  <2> QED  BY <2>1, <2>2, <2>3
<1> QED  BY <1>1, CommitInvariance, PTL DEF Spec, StagingIsKept

(* The draft is cleared only when its text is the message of the verified  *)
(* commit.                                                                 *)
THEOREM DraftsAreKept == Spec => DraftIsKept
<1>1. CommitInv /\ [Next]_vars =>
          [op' # op /\ draft' # draft =>
               made.exists /\ made.message = draft.revision /\ op'.outcome = "succeeded"]_vars
  <2> SUFFICES ASSUME CommitInv, Next, op' # op, draft' # draft
               PROVE  made.exists /\ made.message = draft.revision /\ op'.outcome = "succeeded"
    OBVIOUS
  <2>1. FinishReconciliation
    BY DEF Next, Others, Execute, repository, KeepsRepository, At, ForeignLocks, ForeignUnlocks,
           ForeignMovesHead, EditDraft, Observe, Dispatch, CheckTarget, WriteExpectedTree,
           InspectHead, InspectIndex, InspectLock, TakeLock, CopyIndex, Verify, StartGit, GitExits,
           AbortEndsCall, Discard, Promote, Release, Identify, HookStages, GitUpdatesRef,
           GitExitsUnseen, Abort, StartReconciliation
  <2>2. ShowsCommit /\ Ends("succeeded") /\ draft.revision = op.draftRevision
    BY <2>1 DEF FinishReconciliation, ClearDraft
  <2>3. made.exists /\ made.message = op.draftRevision
    BY <2>2 DEF ShowsCommit, CommitInv, CommitIsTracked, EvidenceIsKnown
  <2>4. op'.outcome = "succeeded"
    BY <2>2 DEF Ends, CommitInv, TypeOK, Operation
  <2> QED  BY <2>2, <2>3, <2>4
<1> QED  BY <1>1, CommitInvariance, PTL DEF Spec, DraftIsKept
=============================================================================
