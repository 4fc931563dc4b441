------------------------- MODULE RefCommandsProofs -------------------------
(***************************************************************************)
(* CommandInv is an invariant of RefCommands, and with it the properties   *)
(* of push, pull, publish and switch: for any commits and ancestors, any   *)
(* repositories to begin with and any number of steps of other programs.   *)
(* First come the forms a step takes, then one lemma per action.           *)
(***************************************************************************)
EXTENDS RefCommands, TLAPS

USE CommitGraph DEF Ref

(* The command goes on, in execute.                                        *)
SameCommand ==
    /\ op' \in Command /\ op'.kind = op.kind /\ op'.target = op.target
    /\ op'.initial = op.initial

Advances(stage, evidence) ==
    /\ SameCommand /\ op'.pc = stage /\ op'.evidence = evidence
    /\ op'.aborted = op.aborted /\ op'.attempt = op.attempt /\ op'.outcome = op.outcome

LEMMA Going ==
    ASSUME op \in Command, NEW stage \in Stages, Goes(stage)
    PROVE  Advances(stage, op.evidence)
  BY DEF Command, Advances, SameCommand, Goes

LEMMA Returning ==
    ASSUME op \in Command, NEW e \in Evidence, Returns(e)
    PROVE  Advances("returned", e)
  BY DEF Command, Advances, SameCommand, Returns, Stages

(* The command is reconciled.                                              *)
Reconciles ==
    /\ SameCommand /\ op'.pc = op.pc /\ op'.evidence = op.evidence
    /\ op'.read = op.read /\ op'.aborted = op.aborted

LEMMA Attempting ==
    ASSUME op \in Command, NEW a \in Attempt, op' = [op EXCEPT !.attempt = a]
    PROVE  Reconciles /\ op'.attempt = a /\ op'.outcome = op.outcome
  BY DEF Command, Reconciles, SameCommand

NoAttemptEnds(outcome) ==
    /\ Reconciles /\ op'.attempt = NoAttempt
    /\ op'.outcome = IF op.attempt.late THEN "unknown_outcome" ELSE outcome

LEMMA NoAttemptType == NoAttempt \in Attempt
  BY DEF NoAttempt, Attempt, Evidence

LEMMA Ending ==
    ASSUME op \in Command, NEW outcome \in Outcomes, Ends(outcome)
    PROVE  NoAttemptEnds(outcome)
<1>1. "unknown_outcome" \in Outcomes  BY DEF Outcomes
<1>2. op.attempt.late \in BOOLEAN  BY DEF Command, Attempt
<1>3. (IF op.attempt.late THEN "unknown_outcome" ELSE outcome) \in Outcomes
  BY <1>1, <1>2
<1> QED  BY <1>3, NoAttemptType DEF Command, Ends, NoAttemptEnds, Reconciles, SameCommand

(* The values of the fields of a process.                                  *)
LEMMA StartedFacts ==
    ASSUME NEW kind \in {"push", "pull", "configure", "switch"}
    PROVE  /\ Started(kind) \in Process /\ Started(kind).kind = kind
           /\ Started(kind).stage = "started" /\ Started(kind).live = TRUE
  BY DEF Started, Process

LEMMA ExitFacts ==
    ASSUME git \in Process, git' = [git EXCEPT !.live = FALSE]
    PROVE  /\ git' \in Process /\ git'.kind = git.kind /\ git'.stage = git.stage
           /\ git'.commit = git.commit /\ git'.live = FALSE
  BY DEF Process

(* What contains a commit, and what the server has had.                    *)
LEMMA ContainsItself ==
    ASSUME NEW c \in Ref
    PROVE  Contains(c, c)
  BY DEF Contains

LEMMA ServedItself ==
    ASSUME NEW c \in served, c \in Ref
    PROVE  WasServed(c)
  BY ContainsItself DEF WasServed

LEMMA StillServed ==
    ASSUME served \subseteq served', SameCommand
    PROVE  /\ WasServed(Confirmed) => WasServed(Confirmed)'
           /\ ServerIsKnown => ServerIsKnown'
  BY DEF WasServed, ServerIsKnown, Confirmed, SameCommand

-----------------------------------------------------------------------------
(* Other programs.                                                         *)
LEMMA ForeignTyping ==
    ASSUME NEW r \in Repository, NEW s \in Ref, NEW q \in ForeignChanges(r, s)
    PROVE  q \in Repository /\ q.tracking \in {r.tracking, s}
<1>1. CASE q = [r EXCEPT !.tracking = s]
  BY <1>1 DEF Repository
<1>2. CASE q = [r EXCEPT !.ready = ~@]
  <2>1. (~r.ready) \in BOOLEAN
    OBVIOUS
  <2> QED  BY <1>2, <2>1 DEF Repository
<1>3. ASSUME NEW b \in Branches, NEW c \in Commits \cup {NoCommit},
             q = [r EXCEPT !.heads[b] = c]
      PROVE  q \in Repository /\ q.tracking \in {r.tracking, s}
  BY <1>3 DEF Repository
<1>4. ASSUME NEW b \in Branches \cup {"detached"}, q = [r EXCEPT !.head = b]
      PROVE  q \in Repository /\ q.tracking \in {r.tracking, s}
  BY <1>4 DEF Repository
<1>5. ASSUME NEW b \in Branches \cup {"none"}, q = [r EXCEPT !.occupied = b]
      PROVE  q \in Repository /\ q.tracking \in {r.tracking, s}
  BY <1>5 DEF Repository
<1>6. ASSUME NEW u \in {"none", "tracking", "elsewhere"}, q = [r EXCEPT !.upstream = u]
      PROVE  q \in Repository /\ q.tracking \in {r.tracking, s}
  BY <1>6 DEF Repository
<1> QED  BY <1>1, <1>2, <1>3, <1>4, <1>5, <1>6 DEF ForeignChanges

LEMMA ForeignFacts ==
    ASSUME TypeOK, NEW where, ForeignStep(where)
    PROVE  /\ foreign' \in [steps: Nat, local: BOOLEAN]
           /\ foreign'.local = (foreign.local \/ where = "local")
           /\ op.pc # "idle"
<1>1. foreign.steps + 1 \in Nat  BY DEF TypeOK
<1>2. (foreign.local \/ where = "local") \in BOOLEAN  OBVIOUS
<1> QED  BY <1>1, <1>2 DEF ForeignStep, TypeOK, InProgress

LEMMA SomeonePushesStep ==
    ASSUME CommandInv, SomeonePushes
    PROVE  CommandInv'
<1>1. PICK commit \in Ref : Serves(commit)
  BY DEF SomeonePushes
<1>2. /\ ForeignStep("server") /\ UNCHANGED <<repo, published, git, op>>
      /\ server' = commit /\ served' = served \cup {commit}
  BY <1>1 DEF SomeonePushes, Serves
<1>3. foreign'.local = foreign.local /\ TypeOK'
  <2>1. TypeOK /\ foreign.local \in BOOLEAN  BY DEF CommandInv, TypeOK
  <2>2. foreign' \in [steps: Nat, local: BOOLEAN]
        /\ foreign'.local = (foreign.local \/ FALSE)
    BY <1>2, <2>1, ForeignFacts
  <2>3. foreign'.local = foreign.local
    <3>1. CASE foreign.local = TRUE  BY <3>1, <2>2
    <3>2. CASE foreign.local = FALSE  BY <3>2, <2>2
    <3> QED  BY <2>1, <3>1, <3>2
  <2> QED  BY <1>2, <2>1, <2>2, <2>3 DEF TypeOK
<1>4. SameCommand
  BY <1>2 DEF SameCommand, CommandInv, TypeOK
<1>5. ProcessFollowsExecute' /\ OutcomeFollowsEvidence'
  BY <1>2 DEF CommandInv, ProcessFollowsExecute, OutcomeFollowsEvidence, Over
<1>6. ReadsAreServed'
  BY <1>2 DEF CommandInv, ReadsAreServed, Verifies, AsksServer
<1>7. TrackingIsServed'
  BY <1>2 DEF CommandInv, TrackingIsServed, Verifies, AsksServer
<1>8. RepositoryIsOurs'
  BY <1>2, <1>3 DEF CommandInv, RepositoryIsOurs, IsOurs, Confirmed
<1>9. PublicationIsVerified'
  BY <1>2, <1>3, <1>4, StillServed
     DEF CommandInv, PublicationIsVerified, Verifies, AsksServer
<1>10. ExecuteIsKnown' /\ FailureIsObserved'
  <2>1. op.pc # "idle"  BY <1>2, ForeignFacts DEF CommandInv
  <2> QED  BY <1>2, <1>3, <2>1 DEF CommandInv, ExecuteIsKnown, FailureIsObserved, Verifies,
                                   AsksServer, Confirmed
<1> QED  BY <1>3, <1>5, <1>6, <1>7, <1>8, <1>9, <1>10 DEF CommandInv

LEMMA SomeoneChangesRepositoryStep ==
    ASSUME CommandInv, SomeoneChangesRepository
    PROVE  CommandInv'
<1>1. /\ ForeignStep("local") /\ UNCHANGED <<server, served, published, git, op>>
      /\ repo' \in ForeignChanges(repo, server)
  BY DEF SomeoneChangesRepository
<1>2. repo' \in Repository /\ repo'.tracking \in {repo.tracking, server}
  BY <1>1, ForeignTyping DEF CommandInv, TypeOK
<1>3. foreign' \in [steps: Nat, local: BOOLEAN] /\ foreign'.local /\ op.pc # "idle"
  BY <1>1, ForeignFacts DEF CommandInv
<1>4. TypeOK'
  BY <1>1, <1>2, <1>3 DEF CommandInv, TypeOK
<1>5. ProcessFollowsExecute' /\ OutcomeFollowsEvidence'
  BY <1>1 DEF CommandInv, ProcessFollowsExecute, OutcomeFollowsEvidence, Over
<1>6. ReadsAreServed'
  BY <1>1 DEF CommandInv, ReadsAreServed, Verifies, AsksServer
<1>7. TrackingIsServed'
  BY <1>1, <1>2 DEF CommandInv, TrackingIsServed, ReadsAreServed, Verifies, AsksServer
<1>8. RepositoryIsOurs' /\ PublicationIsVerified' /\ FailureIsObserved'
  BY <1>3 DEF RepositoryIsOurs, PublicationIsVerified, FailureIsObserved
<1>9. ExecuteIsKnown'
  BY <1>1, <1>3 DEF CommandInv, ExecuteIsKnown, Confirmed
<1> QED  BY <1>4, <1>5, <1>6, <1>7, <1>8, <1>9 DEF CommandInv

(* A read is published or fails.                                           *)
ObservesAs(p) ==
    /\ published' = p /\ Reconciles /\ op'.outcome = op.outcome
    /\ op'.attempt \in Attempt
    /\ op'.attempt.stage = op.attempt.stage /\ op'.attempt.evidence = op.attempt.evidence
    /\ op'.attempt.read = op.attempt.read /\ op'.attempt.late = op.attempt.late
    /\ op'.attempt.current => op.attempt.current \/ p.fresh

LEMMA ObserveFacts ==
    ASSUME TypeOK, Observe
    PROVE  /\ published' \in Snapshot
           /\ ObservesAs(published')
           /\ published'.seen \in {repo, published.seen}
           /\ published'.fresh => published'.seen = repo
           /\ op.pc # "idle"
<1> DEFINE old == op.attempt
           now == old.current \/ (old.stage = "refreshing" /\ published'.fresh)
           new == [old EXCEPT !.current = now]
<1>1. op \in Command /\ old \in Attempt  BY DEF TypeOK, Command
<1>2. now \in BOOLEAN  OBVIOUS
<1>3. /\ new \in Attempt /\ new.stage = old.stage /\ new.evidence = old.evidence
      /\ new.read = old.read /\ new.late = old.late /\ new.current = now
  BY <1>1, <1>2 DEF Attempt
<1>4. op' = [op EXCEPT !.attempt = new]
  BY <1>1 DEF Observe, Command, Attempt
<1>5. Reconciles /\ op'.attempt = new /\ op'.outcome = op.outcome
  BY <1>1, <1>3, <1>4, Attempting
<1>6. now => old.current \/ published'.fresh
  OBVIOUS
<1>7. ObservesAs(published')
  BY <1>3, <1>5, <1>6 DEF ObservesAs
<1>8. CASE published' = [seen |-> repo, fresh |-> TRUE]
  BY <1>7, <1>8 DEF Observe, TypeOK, Snapshot, InProgress
<1>9. CASE published' = [published EXCEPT !.fresh = FALSE]
  BY <1>7, <1>9 DEF Observe, TypeOK, Snapshot, InProgress
<1> QED  BY <1>8, <1>9 DEF Observe

LEMMA ObserveStep ==
    ASSUME CommandInv, Observe
    PROVE  CommandInv'
<1>1. UNCHANGED <<repo, server, served, git, foreign>>
  BY DEF Observe
<1>2. /\ published' \in Snapshot /\ ObservesAs(published')
      /\ published'.seen \in {repo, published.seen}
      /\ published'.fresh => published'.seen = repo
      /\ op.pc # "idle"
  BY ObserveFacts DEF CommandInv
<1>3. SameCommand /\ TypeOK'
  BY <1>1, <1>2 DEF CommandInv, TypeOK, ObservesAs, Reconciles, SameCommand
<1>4. /\ op'.kind = op.kind /\ op'.initial = op.initial /\ op'.pc = op.pc
      /\ op'.evidence = op.evidence /\ op'.read = op.read /\ op'.aborted = op.aborted
      /\ op'.outcome = op.outcome /\ op'.attempt.stage = op.attempt.stage
      /\ op'.attempt.evidence = op.attempt.evidence /\ op'.attempt.read = op.attempt.read
      /\ op'.attempt.late = op.attempt.late
      /\ op'.attempt.current => op.attempt.current \/ published'.seen = repo
  BY <1>2 DEF ObservesAs, Reconciles, SameCommand
<1>5. ProcessFollowsExecute' /\ OutcomeFollowsEvidence'
  BY <1>1, <1>4 DEF CommandInv, ProcessFollowsExecute, OutcomeFollowsEvidence, Over
<1>6. ReadsAreServed'
  BY <1>1, <1>4 DEF CommandInv, ReadsAreServed, Verifies, AsksServer
<1>7. TrackingIsServed'
  BY <1>1, <1>2, <1>4 DEF CommandInv, TrackingIsServed, Verifies, AsksServer
<1>8. RepositoryIsOurs'
  BY <1>1, <1>2, <1>4 DEF CommandInv, RepositoryIsOurs, IsOurs, Confirmed
<1>9. PublicationIsVerified'
  BY <1>1, <1>3, <1>4, StillServed DEF CommandInv, PublicationIsVerified, Verifies, AsksServer
<1>10. ExecuteIsKnown' /\ FailureIsObserved'
  BY <1>1, <1>2, <1>4
     DEF CommandInv, ExecuteIsKnown, FailureIsObserved, Verifies, AsksServer, Confirmed
<1> QED  BY <1>3, <1>5, <1>6, <1>7, <1>8, <1>9, <1>10 DEF CommandInv

-----------------------------------------------------------------------------
(* The Git process: what it leaves alone.                                  *)
Proceeds(stage) ==
    /\ git' \in Process /\ git'.kind = git.kind /\ git'.live = git.live
    /\ git'.stage = stage

LEMMA Proceeding ==
    ASSUME git \in Process, NEW stage \in {"started", "read", "acted", "recorded"}
    PROVE  /\ git' = [git EXCEPT !.stage = stage] =>
                  Proceeds(stage) /\ git'.commit = git.commit
           /\ \A c \in Ref : git' = [git EXCEPT !.stage = stage, !.commit = c] =>
                  Proceeds(stage) /\ git'.commit = c
<1>1. git' = [git EXCEPT !.stage = stage] => Proceeds(stage) /\ git'.commit = git.commit
  BY DEF Proceeds, Process
<1>2. ASSUME NEW c \in Ref, git' = [git EXCEPT !.stage = stage, !.commit = c]
      PROVE  Proceeds(stage) /\ git'.commit = c
  BY <1>2 DEF Proceeds, Process
<1> QED  BY <1>1, <1>2

(* What a step of the process cannot disturb.                              *)
LEMMA GitKeeps ==
    ASSUME CommandInv, git.live, git.kind # "none", NEW stage, Proceeds(stage),
           served \subseteq served', server' \in served',
           git'.kind \in {"push", "pull"} /\ stage # "started" =>
               git'.commit \in served' \/ (git'.kind = "push" /\ stage = "read"),
           UNCHANGED <<published, op, foreign>>
    PROVE  /\ ProcessFollowsExecute' /\ OutcomeFollowsEvidence' /\ ReadsAreServed'
           /\ ExecuteIsKnown' /\ FailureIsObserved' /\ op.pc # "idle" /\ SameCommand
<1>1. git'.kind = git.kind /\ git'.live = git.live /\ git'.stage = stage
  BY DEF Proceeds
<1>2. op.pc # "idle" /\ SameCommand
  BY DEF CommandInv, ProcessFollowsExecute, SameCommand, TypeOK
<1>3. ProcessFollowsExecute' /\ OutcomeFollowsEvidence'
  BY <1>1 DEF CommandInv, ProcessFollowsExecute, OutcomeFollowsEvidence, Over
<1>4. ReadsAreServed'
  BY <1>1 DEF CommandInv, ReadsAreServed, Verifies, AsksServer
<1>5. ExecuteIsKnown' /\ FailureIsObserved'
  BY <1>1, <1>2 DEF CommandInv, ExecuteIsKnown, FailureIsObserved, Confirmed
<1> QED  BY <1>2, <1>3, <1>4, <1>5

LEMMA GitReadsStep ==
    ASSUME CommandInv, GitReads
    PROVE  CommandInv'
<1>1. /\ git.live /\ git.stage = "started" /\ git.kind \in {"push", "pull"}
      /\ UNCHANGED <<server, served, published, op, foreign>>
  BY DEF GitReads
<1>2. /\ repo \in Repository /\ git \in Process /\ server \in Ref /\ repo.heads[Main] \in Ref
      /\ server \in served
  BY DEF CommandInv, TypeOK, Repository, Branches, ReadsAreServed
<1>3. /\ Proceeds("read")
      /\ \/ git.kind = "push" /\ git'.commit = repo.heads[Main] /\ repo' = repo
         \/ /\ git.kind = "pull" /\ git'.commit = server
            /\ repo' \in {repo, [repo EXCEPT !.tracking = server]}
  BY <1>1, <1>2, Proceeding DEF GitReads
<1>4. /\ repo' \in Repository /\ repo'.head = repo.head /\ repo'.upstream = repo.upstream
      /\ repo'.heads = repo.heads
      /\ repo'.tracking = repo.tracking \/ (git.kind = "pull" /\ repo'.tracking = server)
  BY <1>2, <1>3 DEF Repository
<1>5. TypeOK'
  BY <1>1, <1>3, <1>4 DEF CommandInv, TypeOK, Proceeds
<1>6. /\ ProcessFollowsExecute' /\ OutcomeFollowsEvidence' /\ ReadsAreServed'
      /\ ExecuteIsKnown' /\ FailureIsObserved' /\ op.pc # "idle" /\ SameCommand
  BY <1>1, <1>2, <1>3, GitKeeps DEF Proceeds
<1>7. TrackingIsServed'
  BY <1>1, <1>2, <1>4 DEF CommandInv, TrackingIsServed, Verifies, AsksServer
<1>8. RepositoryIsOurs'
  BY <1>1, <1>3, <1>4, <1>6
     DEF CommandInv, RepositoryIsOurs, IsOurs, Confirmed, ProcessFollowsExecute, Proceeds
<1>9. PublicationIsVerified'
  BY <1>1, <1>3, <1>4, <1>6, StillServed
     DEF CommandInv, PublicationIsVerified, Verifies, AsksServer, ProcessFollowsExecute, Proceeds
<1> QED  BY <1>5, <1>6, <1>7, <1>8, <1>9 DEF CommandInv

LEMMA GitMovesRefStep ==
    ASSUME CommandInv, GitMovesRef
    PROVE  CommandInv'
<1>1. /\ git.live /\ git.stage = "read" /\ git.commit # NoCommit
      /\ git' = [git EXCEPT !.stage = "acted"] /\ UNCHANGED <<published, op, foreign>>
  BY DEF GitMovesRef
<1>2. repo \in Repository /\ git \in Process /\ git.commit \in Ref
  BY DEF CommandInv, TypeOK, Process
<1>3. Proceeds("acted") /\ git'.commit = git.commit
  BY <1>1, <1>2, Proceeding
<1>4. CASE git.kind = "push" /\ Serves(git.commit) /\ repo' = repo
  <2>1. server' = git.commit /\ served' = served \cup {git.commit} /\ repo' = repo
    BY <1>4 DEF Serves
  <2>2. TypeOK'
    BY <1>1, <1>2, <1>3, <2>1 DEF CommandInv, TypeOK, Proceeds
  <2>3. /\ ProcessFollowsExecute' /\ OutcomeFollowsEvidence' /\ ReadsAreServed'
        /\ ExecuteIsKnown' /\ FailureIsObserved' /\ op.pc # "idle" /\ SameCommand
    <3>1. served \subseteq served' /\ server' \in served' /\ git'.commit \in served'
      BY <1>3, <2>1
    <3>2. git.kind # "none"  BY <1>4
    <3> QED  BY <1>1, <1>3, <3>1, <3>2, GitKeeps
  <2>4. TrackingIsServed'
    BY <1>1, <2>1 DEF CommandInv, TrackingIsServed, Verifies, AsksServer
  <2>5. RepositoryIsOurs'
    BY <1>1, <1>3, <1>4, <2>1 DEF CommandInv, RepositoryIsOurs, IsOurs, Confirmed, Proceeds
  <2>6. PublicationIsVerified'
    BY <1>1, <1>3, <1>4, <2>1, <2>3, StillServed
       DEF CommandInv, PublicationIsVerified, Verifies, AsksServer, Proceeds
  <2> QED  BY <2>2, <2>3, <2>4, <2>5, <2>6 DEF CommandInv
<1>5. CASE /\ git.kind = "pull" /\ CanFastForward(repo, git.commit)
           /\ repo' = FastForwarded(repo, git.commit) /\ UNCHANGED <<server, served>>
  <2>1. op.kind = "pull" /\ git.commit \in served /\ repo.head \in Branches
    BY <1>1, <1>5 DEF CommandInv, ProcessFollowsExecute, ReadsAreServed, CanFastForward
  <2>2. /\ repo' \in Repository /\ repo'.head = repo.head /\ repo'.upstream = repo.upstream
        /\ repo'.tracking = repo.tracking
        /\ repo.head = Main => repo'.heads[Main] = git.commit
    BY <1>2, <1>5, <2>1 DEF FastForwarded, Repository, Main, Branches
  <2>3. TypeOK'
    BY <1>1, <1>3, <1>5, <2>2 DEF CommandInv, TypeOK, Proceeds
  <2>4. /\ ProcessFollowsExecute' /\ OutcomeFollowsEvidence' /\ ReadsAreServed'
        /\ ExecuteIsKnown' /\ FailureIsObserved' /\ op.pc # "idle" /\ SameCommand
    <3>1. served \subseteq served' /\ server' \in served' /\ git'.commit \in served'
      BY <1>3, <1>5, <2>1 DEF CommandInv, ReadsAreServed
    <3>2. git.kind # "none"  BY <1>5
    <3> QED  BY <1>1, <1>3, <3>1, <3>2, GitKeeps
  <2>5. TrackingIsServed'
    BY <1>1, <1>5, <2>2 DEF CommandInv, TrackingIsServed, Verifies, AsksServer
  <2>6. RepositoryIsOurs'
    BY <1>1, <1>3, <1>5, <2>1, <2>2, <2>4
       DEF CommandInv, RepositoryIsOurs, IsOurs, Confirmed, Proceeds
  <2>7. PublicationIsVerified'
    BY <1>1, <2>1 DEF PublicationIsVerified
  <2> QED  BY <2>3, <2>4, <2>5, <2>6, <2>7 DEF CommandInv
<1> QED  BY <1>4, <1>5 DEF GitMovesRef

LEMMA GitTracksPushStep ==
    ASSUME CommandInv, GitTracksPush
    PROVE  CommandInv'
<1>1. /\ git.live /\ git.stage = "acted" /\ git.kind = "push"
      /\ git' = [git EXCEPT !.stage = "recorded"]
      /\ repo' = [repo EXCEPT !.tracking = git.commit]
      /\ UNCHANGED <<server, served, published, op, foreign>>
  BY DEF GitTracksPush
<1>2. /\ repo \in Repository /\ git \in Process /\ git.commit \in Ref /\ git.commit \in served
      /\ server \in served
  BY <1>1 DEF CommandInv, TypeOK, Process, ReadsAreServed
<1>3. Proceeds("recorded") /\ git'.commit = git.commit
  BY <1>1, <1>2, Proceeding
<1>4. /\ repo' \in Repository /\ repo'.head = repo.head /\ repo'.upstream = repo.upstream
      /\ repo'.tracking = git.commit /\ repo'.heads = repo.heads
  BY <1>1, <1>2 DEF Repository
<1>5. TypeOK'
  BY <1>1, <1>3, <1>4 DEF CommandInv, TypeOK, Proceeds
<1>6. /\ ProcessFollowsExecute' /\ OutcomeFollowsEvidence' /\ ReadsAreServed'
      /\ ExecuteIsKnown' /\ FailureIsObserved' /\ op.pc # "idle" /\ SameCommand
  <2>1. served \subseteq served' /\ server' \in served' /\ git'.commit \in served'
    BY <1>1, <1>2, <1>3
  <2>2. git.kind # "none"  BY <1>1
  <2> QED  BY <1>1, <1>3, <2>1, <2>2, GitKeeps
<1>7. TrackingIsServed'
  BY <1>1, <1>2, <1>4 DEF CommandInv, TrackingIsServed, Verifies, AsksServer
<1>8. RepositoryIsOurs'
  BY <1>1, <1>3, <1>4 DEF CommandInv, RepositoryIsOurs, IsOurs, Confirmed, Proceeds
<1>9. PublicationIsVerified'
  <2>1. SUFFICES ASSUME op.kind \in {"push", "publish"}, ~foreign.local
                 PROVE  PublicationIsVerified'
    BY <1>1 DEF PublicationIsVerified
  <2>2. git.commit = Confirmed
    BY <1>1, <1>6, <2>1 DEF CommandInv, RepositoryIsOurs
  <2>3. ServerIsKnown
    BY <1>2, <2>2, ServedItself DEF ServerIsKnown
  <2>4. ServerIsKnown'
    BY <1>1, <1>6, <2>3, StillServed
  <2> QED  BY <1>1, <1>3, <2>4 DEF PublicationIsVerified, Proceeds
<1> QED  BY <1>5, <1>6, <1>7, <1>8, <1>9 DEF CommandInv

LEMMA SwitchedTyping ==
    ASSUME NEW r \in Repository, NEW target \in Targets
    PROVE  Switched(r, target) \in Repository /\ Switched(r, target).tracking = r.tracking
<1>1. CASE target = "tracking"
  <2>1. Switched(r, target) =
          [r EXCEPT !.heads[Main] = r.tracking, !.upstream = "tracking", !.head = Main]
    BY <1>1, Zenon DEF Switched
  <2> DEFINE q == [r EXCEPT !.heads[Main] = r.tracking]
  <2>2. Main \in Branches
    BY DEF Branches
  <2>3. q \in Repository /\ q.tracking = r.tracking
    BY <2>2 DEF Repository
  <2>4. Switched(r, target) = [q EXCEPT !.upstream = "tracking", !.head = Main]
    BY <2>1, Zenon
  <2> HIDE DEF q
  <2> QED  BY <2>2, <2>3, <2>4 DEF Repository
<1>2. CASE target \in Branches /\ target # "tracking"
  <2>1. Switched(r, target) = [r EXCEPT !.head = target]
    BY <1>2 DEF Switched
  <2> QED  BY <1>2, <2>1 DEF Repository
<1> QED  BY <1>1, <1>2 DEF Targets

(* The upstream is configured, or the branch switched.                     *)
LEMMA GitConfiguresStep ==
    ASSUME CommandInv, GitConfigures \/ GitSwitches
    PROVE  CommandInv'
<1>1. /\ git.live /\ git.stage = "started" /\ git.kind \in {"configure", "switch"}
      /\ git' = [git EXCEPT !.stage = "acted"]
      /\ UNCHANGED <<server, served, published, op, foreign>>
  BY DEF GitConfigures, GitSwitches
<1>2. repo \in Repository /\ git \in Process /\ op.target \in Targets /\ server \in served
  BY DEF CommandInv, TypeOK, Command, ReadsAreServed
<1>3. Proceeds("acted")
  BY <1>1, <1>2, Proceeding
<1>4. /\ repo' \in Repository /\ repo'.tracking = repo.tracking
      /\ \/ git.kind = "switch"
         \/ /\ git.kind = "configure" /\ repo'.head = repo.head /\ repo'.heads = repo.heads
  <2>1. CASE GitConfigures
    BY <1>2, <2>1 DEF GitConfigures, Repository
  <2>2. CASE GitSwitches
    BY <1>2, <2>2, SwitchedTyping DEF GitSwitches
  <2> QED  BY <2>1, <2>2
<1>5. TypeOK'
  BY <1>1, <1>3, <1>4 DEF CommandInv, TypeOK, Proceeds
<1>6. /\ ProcessFollowsExecute' /\ OutcomeFollowsEvidence' /\ ReadsAreServed'
      /\ ExecuteIsKnown' /\ FailureIsObserved' /\ op.pc # "idle" /\ SameCommand
  <2>1. served \subseteq served' /\ server' \in served' /\ git'.kind \notin {"push", "pull"}
    BY <1>1, <1>2, <1>3 DEF Proceeds
  <2>2. git.kind # "none"  BY <1>1
  <2> QED  BY <1>1, <1>3, <2>1, <2>2, GitKeeps
<1>7. TrackingIsServed'
  BY <1>1, <1>4 DEF CommandInv, TrackingIsServed, Verifies, AsksServer
<1>8. RepositoryIsOurs'
  BY <1>1, <1>3, <1>4
     DEF CommandInv, RepositoryIsOurs, IsOurs, Confirmed, ProcessFollowsExecute, Proceeds
<1>9. PublicationIsVerified'
  BY <1>1, <1>3, <1>4, <1>6, StillServed
     DEF CommandInv, PublicationIsVerified, Verifies, AsksServer, Proceeds
<1> QED  BY <1>5, <1>6, <1>7, <1>8, <1>9 DEF CommandInv

-----------------------------------------------------------------------------
(* execute.                                                                *)
LEMMA DispatchStep ==
    ASSUME CommandInv, Dispatch
    PROVE  CommandInv'
<1>1. PICK kind \in Kinds, target \in Targets :
        /\ Applies(kind, published.seen)
        /\ op' = [op EXCEPT !.pc = "refreshing", !.kind = kind, !.target = target,
                            !.initial = published.seen]
  BY DEF Dispatch
<1>2. /\ op.pc = "idle" /\ repo' = repo /\ server' = server /\ published' = published
      /\ git' = git /\ served' = {server}
  BY DEF Dispatch
<1>3. /\ published.seen = repo /\ repo \in Repository /\ op \in Command /\ server \in Ref
      /\ op.attempt = NoAttempt /\ op.outcome = "none" /\ op.evidence = "none"
      /\ git.kind = "none" /\ (git.live => op.aborted)
  BY <1>2 DEF CommandInv, TypeOK, ExecuteIsKnown, OutcomeFollowsEvidence,
              ProcessFollowsExecute
<1>4. /\ op' \in Command /\ op'.pc = "refreshing" /\ op'.kind = kind /\ op'.initial = repo
      /\ op'.attempt = NoAttempt /\ op'.outcome = "none" /\ op'.evidence = "none"
      /\ op'.aborted = op.aborted
  <2>1. "refreshing" \in Stages  BY DEF Stages
  <2> QED  BY <1>1, <1>3, <2>1 DEF Command
<1>5. foreign' \in [steps: Nat, local: BOOLEAN] /\ foreign'.local = FALSE
  BY DEF CommandInv, TypeOK, Dispatch
<1>6. TypeOK'
  BY <1>2, <1>3, <1>4, <1>5 DEF CommandInv, TypeOK
<1>7. op'.attempt.stage = "idle" /\ op'.attempt.current = FALSE
  BY <1>4 DEF NoAttempt
<1>8. ProcessFollowsExecute'
  <2>1. git'.kind = "none" /\ git'.live = git.live  BY <1>2, <1>3
  <2>2. git'.live => op'.aborted  BY <2>1, <1>3, <1>4
  <2> QED  BY <1>4, <2>1, <2>2 DEF ProcessFollowsExecute
<1>9. OutcomeFollowsEvidence'
  BY <1>4, <1>7 DEF OutcomeFollowsEvidence, Known
<1>10. ReadsAreServed' /\ TrackingIsServed'
  <2>1. /\ server' \in served' /\ git'.kind = "none" /\ ~Verifies'
        /\ repo'.tracking = op'.initial.tracking /\ published'.seen.tracking = op'.initial.tracking
    BY <1>2, <1>3, <1>4, <1>7 DEF Verifies
  <2> QED  BY <1>4, <1>7, <2>1 DEF ReadsAreServed, TrackingIsServed
<1>11. /\ kind # "switch" => repo.head = Main /\ repo.heads[Main] # NoCommit
       /\ kind \in {"push", "pull"} => repo.upstream = "tracking"
  BY <1>1, <1>3, CommandAssumption DEF Applies
<1>12. RepositoryIsOurs'
  <2>1. repo' = repo /\ published'.seen = repo /\ git'.kind = "none"
    BY <1>2, <1>3
  <2> QED  BY <1>4, <1>11, <2>1, CommandAssumption DEF RepositoryIsOurs, IsOurs, Confirmed
<1>13. PublicationIsVerified' /\ FailureIsObserved'
  <2>1. repo' = repo /\ git'.kind = "none"
    BY <1>2, <1>3
  <2> QED  BY <1>4, <1>7, <2>1 DEF PublicationIsVerified, FailureIsObserved, Verifies
<1>14. ExecuteIsKnown'
  BY <1>3, <1>4, <1>11, CommandAssumption DEF ExecuteIsKnown, Confirmed
<1> QED  BY <1>6, <1>8, <1>9, <1>10, <1>12, <1>13, <1>14 DEF CommandInv

(* Execute leaves the process alone, starts one, or has seen it exit.      *)
Starting(kind) == git' = Started(kind)
Exiting == git' = [git EXCEPT !.live = FALSE]

LEMMA GitForms ==
    ASSUME CommandInv,
           \/ git' = git
           \/ \E kind \in {"push", "pull", "configure", "switch"} : Starting(kind)
           \/ Exiting
    PROVE  /\ git' \in Process
           /\ git'.stage = "started" \/ (git'.kind = git.kind /\ git'.stage = git.stage
                                         /\ git'.commit = git.commit)
  BY StartedFacts, ExitFacts DEF CommandInv, TypeOK, Starting, Exiting

(* A step of execute that leaves the refs alone.                           *)
Executing == op.pc \notin {"idle", "returned", "threw"}

LEMMA ExecutingFacts ==
    ASSUME CommandInv, Executing
    PROVE  /\ op.evidence = "none" /\ op.outcome \notin Known
           /\ op.attempt.stage # "idle" => op.aborted /\ op.attempt.late
           /\ op \in Command /\ git \in Process /\ repo \in Repository /\ server \in Ref
           /\ op.initial \in Repository /\ Confirmed \in Ref
<1>1. op \in Command /\ git \in Process /\ repo \in Repository /\ server \in Ref
  BY DEF CommandInv, TypeOK
<1>2. op.initial \in Repository /\ Confirmed \in Ref
  BY <1>1 DEF Command, Repository, Confirmed, Branches
<1> QED  BY <1>1, <1>2 DEF CommandInv, Executing, OutcomeFollowsEvidence, Over

LEMMA ExecuteKeeps ==
    ASSUME CommandInv, Executing,
           NEW stage \in Stages, NEW e \in Evidence, Advances(stage, e),
           stage # "idle", stage = "fetched" => op'.read \in served,
           e # "none" <=> stage = "returned",
           LeavesRefs, UNCHANGED <<published, foreign>>,
           \/ git' = git
           \/ \E kind \in {"push", "pull", "configure", "switch"} : Starting(kind)
           \/ Exiting
    PROVE  /\ TypeOK' /\ OutcomeFollowsEvidence' /\ ReadsAreServed' /\ TrackingIsServed'
           /\ RepositoryIsOurs'
           /\ stage # "verifying" /\ (git'.kind = "configure" => git.kind = "configure")
                 => PublicationIsVerified'
           /\ e # "failed_known" \/ ~op.aborted => FailureIsObserved'
<1>1. /\ git' \in Process
      /\ git'.stage = "started" \/ (git'.kind = git.kind /\ git'.stage = git.stage
                                    /\ git'.commit = git.commit)
  BY GitForms
<1>2. /\ op' \in Command /\ op'.kind = op.kind /\ op'.initial = op.initial
      /\ op'.pc = stage /\ op'.evidence = e /\ op'.attempt = op.attempt
      /\ op'.aborted = op.aborted /\ op'.outcome = op.outcome
      /\ UNCHANGED <<repo, server, served, published, foreign>> /\ SameCommand
  BY DEF Advances, SameCommand, LeavesRefs
<1>3. TypeOK'
  BY <1>1, <1>2 DEF CommandInv, TypeOK
<1>4. OutcomeFollowsEvidence'
  <2>1. op'.outcome \notin Known
    BY <1>2, ExecutingFacts
  <2>2. op'.attempt.stage # "idle" => op'.aborted /\ op'.attempt.late
    BY <1>2, ExecutingFacts
  <2>3. op'.outcome \notin {"rejected", "no_change", "failed_known", "partial_success"}
    BY <2>1 DEF Known, Outcomes
  <2> QED  BY <1>2, <2>1, <2>2, <2>3 DEF OutcomeFollowsEvidence
<1>5. ReadsAreServed'
  BY <1>1, <1>2 DEF CommandInv, ReadsAreServed, Verifies, AsksServer
<1>6. TrackingIsServed'
  BY <1>2 DEF CommandInv, TrackingIsServed, Verifies, AsksServer
<1>7. RepositoryIsOurs'
  BY <1>1, <1>2 DEF CommandInv, RepositoryIsOurs, IsOurs, Confirmed, Executing
<1>8. ASSUME stage # "verifying", git'.kind = "configure" => git.kind = "configure"
      PROVE  PublicationIsVerified'
  BY <1>2, <1>8, StillServed DEF CommandInv, PublicationIsVerified, Verifies, AsksServer
<1>9. ASSUME e # "failed_known" \/ ~op.aborted
      PROVE  FailureIsObserved'
  BY <1>2, <1>9, ExecutingFacts DEF FailureIsObserved, Verifies
<1> QED  BY <1>3, <1>4, <1>5, <1>6, <1>7, <1>8, <1>9

(* The command is turned down, or ends without an effect, before a process *)
(* was started.                                                            *)
LEMMA RefusedStep ==
    ASSUME CommandInv, op.pc \in {"refreshing", "confirming"},
           NEW e \in {"rejected", "no_change"}, Returns(e), LeavesRefs, git' = git,
           e = "no_change" => op.pc = "confirming",
           UNCHANGED <<published, foreign>>
    PROVE  CommandInv'
<1>1. Executing /\ e \in Evidence /\ "returned" \in Stages
  BY DEF Executing, Evidence, Stages
<1>2. Advances("returned", e)
  BY <1>1, Returning, ExecutingFacts
<1>3. /\ TypeOK' /\ OutcomeFollowsEvidence' /\ ReadsAreServed' /\ TrackingIsServed'
      /\ RepositoryIsOurs' /\ FailureIsObserved' /\ PublicationIsVerified'
  BY <1>1, <1>2, ExecuteKeeps
<1>4. git.kind = "none"
  BY DEF CommandInv, ProcessFollowsExecute
<1>5. /\ op'.pc = "returned" /\ op'.evidence = e /\ op'.kind = op.kind
      /\ op'.initial = op.initial /\ op'.aborted = op.aborted
  BY <1>2 DEF Advances, SameCommand
<1>6. ProcessFollowsExecute'
  BY <1>4, <1>5 DEF CommandInv, ProcessFollowsExecute
<1>7. ExecuteIsKnown'
  BY <1>5 DEF CommandInv, ExecuteIsKnown, Confirmed
<1> QED  BY <1>3, <1>4, <1>6, <1>7 DEF CommandInv

(* A process is started, or the command has been aborted.                  *)
LEMMA StartsStep ==
    ASSUME CommandInv, op.pc \in {"refreshing", "confirming", "verifying"},
           NEW kind \in {"push", "pull", "configure", "switch"}, NEW stage \in {"running", "configuring"},
           Starts(kind, stage), LeavesRefs, UNCHANGED <<published, foreign>>,
           kind = op.kind \/ (op.kind = "publish" /\ kind \in {"push", "configure"}),
           stage = "configuring" => op.kind = "publish",
           op.kind = "pull" => Confirmed # op.initial.tracking,
           kind = "configure" /\ ~foreign.local => WasServed(Confirmed) /\ ServerIsKnown
    PROVE  CommandInv'
<1>1. Executing /\ "none" \in Evidence /\ {"running", "configuring", "threw"} \subseteq Stages
  BY DEF Executing, Evidence, Stages
<1>2. op.evidence = "none" /\ op \in Command
  BY <1>1, ExecutingFacts
<1>3. CASE op.aborted
  <2>1. Goes("threw") /\ git' = git
    BY <1>3 DEF Starts
  <2>2. Advances("threw", "none")
    BY <1>1, <1>2, <2>1, Going
  <2>3. /\ TypeOK' /\ OutcomeFollowsEvidence' /\ ReadsAreServed' /\ TrackingIsServed'
        /\ RepositoryIsOurs' /\ FailureIsObserved' /\ PublicationIsVerified'
    BY <1>1, <2>1, <2>2, ExecuteKeeps
  <2>4. /\ op'.pc = "threw" /\ op'.evidence = "none" /\ op'.kind = op.kind
        /\ op'.initial = op.initial /\ op'.aborted = op.aborted /\ op'.attempt = op.attempt
    BY <2>2 DEF Advances, SameCommand
  <2>5. ProcessFollowsExecute' /\ ExecuteIsKnown'
    BY <1>3, <2>1, <2>4 DEF CommandInv, ProcessFollowsExecute, ExecuteIsKnown, Confirmed
  <2> QED  BY <2>3, <2>5 DEF CommandInv
<1>4. CASE ~op.aborted
  <2>1. Goes(stage) /\ Starting(kind)
    BY <1>4 DEF Starts, Starting
  <2>2. Advances(stage, "none")
    BY <1>1, <1>2, <2>1, Going
  <2>3. /\ TypeOK' /\ OutcomeFollowsEvidence' /\ ReadsAreServed' /\ TrackingIsServed'
        /\ RepositoryIsOurs' /\ FailureIsObserved'
    BY <1>1, <2>1, <2>2, ExecuteKeeps
  <2>4. /\ op'.pc = stage /\ op'.evidence = "none" /\ op'.kind = op.kind
        /\ op'.initial = op.initial /\ op'.aborted = op.aborted /\ op'.attempt = op.attempt
    BY <2>2 DEF Advances, SameCommand
  <2>5. git'.kind = kind /\ git'.live = TRUE
    BY <2>1, StartedFacts DEF Starting
  <2>6. ProcessFollowsExecute' /\ ExecuteIsKnown'
    BY <2>4, <2>5 DEF CommandInv, ProcessFollowsExecute, ExecuteIsKnown, Confirmed
  <2>7. PublicationIsVerified'
    <3>1. SameCommand /\ served \subseteq served' /\ UNCHANGED <<repo, foreign>>
      BY <2>2 DEF Advances, LeavesRefs
    <3> QED  BY <2>4, <2>5, <3>1, StillServed
             DEF CommandInv, PublicationIsVerified, Verifies, AsksServer
  <2> QED  BY <2>3, <2>6, <2>7 DEF CommandInv
<1> QED  BY <1>3, <1>4

LEMMA CheckTargetStep ==
    ASSUME CommandInv, CheckTarget
    PROVE  CommandInv'
<1>1. op.pc = "refreshing" /\ UNCHANGED <<published, foreign>> /\ LeavesRefs
  BY DEF CheckTarget, At
<1>2. Executing /\ op \in Command /\ "confirming" \in Stages
  BY <1>1, ExecutingFacts DEF Executing, Stages
<1>3. CASE Returns("rejected") /\ git' = git
  BY <1>1, <1>3, RefusedStep
<1>4. CASE op.kind \in {"push", "pull"} /\ Goes("confirming") /\ git' = git
  <2>1. op.evidence = "none" /\ "none" \in Evidence
    BY <1>2, ExecutingFacts DEF Evidence
  <2>2. Advances("confirming", "none")
    BY <1>2, <1>4, <2>1, Going
  <2>3. git.kind = "none"
    BY <1>1 DEF CommandInv, ProcessFollowsExecute
  <2>4. /\ TypeOK' /\ OutcomeFollowsEvidence' /\ ReadsAreServed' /\ TrackingIsServed'
        /\ RepositoryIsOurs' /\ FailureIsObserved' /\ PublicationIsVerified'
    BY <1>1, <1>2, <1>4, <2>1, <2>2, <2>3, ExecuteKeeps
  <2>5. /\ op'.pc = "confirming" /\ op'.evidence = "none" /\ op'.kind = op.kind
        /\ op'.initial = op.initial /\ op'.aborted = op.aborted
    BY <2>2 DEF Advances, SameCommand
  <2>6. ProcessFollowsExecute' /\ ExecuteIsKnown'
    BY <1>1, <1>4, <2>3, <2>5 DEF CommandInv, ProcessFollowsExecute, ExecuteIsKnown, Confirmed
  <2> QED  BY <2>4, <2>6 DEF CommandInv
<1>5. CASE op.kind = "publish" /\ Starts("push", "running")
  BY <1>1, <1>5, StartsStep
<1>6. CASE op.kind = "switch" /\ Starts("switch", "running")
  BY <1>1, <1>6, StartsStep
<1> QED  BY <1>1, <1>3, <1>4, <1>5, <1>6 DEF CheckTarget

(* What the comparison with the upstream leads to.                         *)
LEMMA ConfirmUpstreamCases ==
    ASSUME CommandInv, ConfirmUpstream
    PROVE  \/ (Returns("rejected") \/ Returns("no_change")) /\ git' = git
           \/ op.kind = "push" /\ Starts("push", "running")
           \/ op.kind = "pull" /\ Starts("pull", "running") /\ Confirmed # op.initial.tracking
<1> DEFINE ahead == Ahead(Confirmed, op.initial.tracking)
           behind == Ahead(op.initial.tracking, Confirmed)
<1>1. behind => Confirmed # op.initial.tracking
  <2>1. Executing /\ Confirmed \in Ref
    BY ExecutingFacts DEF Executing, ConfirmUpstream, At
  <2> QED  BY <2>1, ContainsItself DEF Ahead
<1>2. \/ Returns("rejected") /\ UNCHANGED git
      \/ CASE op.kind = "push" /\ ~behind /\ ahead -> Starts("push", "running")
           [] op.kind = "push" /\ ~behind /\ ~ahead -> Returns("no_change") /\ UNCHANGED git
           [] op.kind = "pull" /\ behind /\ ~ahead -> Starts("pull", "running")
           [] op.kind = "pull" /\ ~behind -> Returns("no_change") /\ UNCHANGED git
           [] OTHER -> Returns("rejected") /\ UNCHANGED git
  BY DEF ConfirmUpstream
<1> HIDE DEF ahead, behind
<1> QED  BY <1>1, <1>2

LEMMA ConfirmUpstreamStep ==
    ASSUME CommandInv, ConfirmUpstream
    PROVE  CommandInv'
<1>1. op.pc = "confirming" /\ UNCHANGED <<published, foreign>> /\ LeavesRefs
  BY DEF ConfirmUpstream, At
<1>2. CASE (Returns("rejected") \/ Returns("no_change")) /\ git' = git
  BY <1>1, <1>2, RefusedStep
<1>3. CASE op.kind = "push" /\ Starts("push", "running")
  BY <1>1, <1>3, StartsStep
<1>4. CASE op.kind = "pull" /\ Starts("pull", "running") /\ Confirmed # op.initial.tracking
  BY <1>1, <1>4, StartsStep
<1> QED  BY <1>2, <1>3, <1>4, ConfirmUpstreamCases

(* The call of execute that waits for the process is over.                 *)
LEMMA CallEndsStep ==
    ASSUME CommandInv, op.pc \in {"running", "configuring"},
           NEW stage \in {"threw", "returned", "fetching"},
           NEW e \in Evidence \ {"rejected", "no_change"},
           e # "none" <=> stage = "returned",
           Advances(stage, e), LeavesRefs, UNCHANGED <<published, foreign>>,
           Exiting \/ (op.aborted /\ git' = git /\ e \notin {"failed_known", "attempted"}),
           e = "failed_known" => op.kind # "switch" /\ ~op.aborted,
           e = "attempted" => git.stage = "acted",
           stage = "fetching" => op.kind = "publish"
    PROVE  CommandInv'
<1>1. Executing /\ stage \in Stages
  BY DEF Executing, Stages
<1>2. /\ op'.pc = stage /\ op'.evidence = e /\ op'.kind = op.kind
      /\ op'.initial = op.initial /\ op'.aborted = op.aborted
  BY DEF Advances, SameCommand
<1>3. /\ git'.kind = git.kind /\ git'.stage = git.stage
      /\ (git'.live = FALSE) \/ (op.aborted /\ git'.live = git.live
                                 /\ e \notin {"failed_known", "attempted"})
  BY <1>1, ExitFacts, ExecutingFacts DEF Exiting
<1>4. /\ TypeOK' /\ OutcomeFollowsEvidence' /\ ReadsAreServed' /\ TrackingIsServed'
      /\ RepositoryIsOurs' /\ FailureIsObserved' /\ PublicationIsVerified'
  BY <1>1, <1>3, ExecuteKeeps
<1>5. ProcessFollowsExecute'
  BY <1>2, <1>3 DEF CommandInv, ProcessFollowsExecute
<1>6. ExecuteIsKnown'
  <2>1. /\ op.kind \in {"push", "publish"} => op.initial.heads[Main] # NoCommit
        /\ op.kind = "pull" => op.initial.heads[Main] # op.initial.tracking
        /\ op.kind # "none"
    <3>1. op.evidence = "none"
      BY <1>1, ExecutingFacts
    <3> QED  BY <3>1 DEF CommandInv, ExecuteIsKnown, Confirmed
  <2>2. e \in {"failed_known", "attempted"} => git'.live = FALSE
    BY <1>3
  <2> QED  BY <1>2, <1>3, <2>1, <2>2 DEF ExecuteIsKnown, Confirmed
<1> QED  BY <1>4, <1>5, <1>6 DEF CommandInv

LEMMA GitExitsStep ==
    ASSUME CommandInv, GitExits \/ AbortEndsCall
    PROVE  CommandInv'
<1>1. /\ op.pc = "running" /\ UNCHANGED <<published, foreign>> /\ LeavesRefs
      /\ \/ Exiting /\ ~op.aborted
         \/ op.aborted /\ git' = git /\ Goes("threw")
  BY DEF GitExits, AbortEndsCall, At, Exiting
<1>2. Executing /\ op \in Command /\ op.evidence = "none"
  BY <1>1, ExecutingFacts DEF Executing
<1>3. {"threw", "fetching"} \subseteq Stages
      /\ {"none", "attempted", "completed", "failed_known", "unknown"} \subseteq Evidence
  BY DEF Stages, Evidence
<1>4. CASE Goes("threw")
  <2>1. Advances("threw", "none")
    BY <1>2, <1>3, <1>4, Going
  <2> QED  BY <1>1, <1>3, <2>1, CallEndsStep
<1>5. CASE Goes("fetching") /\ op.kind = "publish" /\ Exiting
  <2>1. Advances("fetching", "none")
    BY <1>2, <1>3, <1>5, Going
  <2> QED  BY <1>1, <1>3, <1>5, <2>1, CallEndsStep
<1>6. CASE Returns("attempted") /\ git.stage = "acted" /\ Exiting
  <2>1. Advances("returned", "attempted")
    BY <1>2, <1>3, <1>6, Returning
  <2> QED  BY <1>1, <1>3, <1>6, <2>1, CallEndsStep
<1>7. ASSUME NEW e \in {"completed", "failed_known", "unknown"}, Returns(e),
             op.kind # "switch", Exiting, ~op.aborted
      PROVE  CommandInv'
  <2>1. Advances("returned", e)
    BY <1>2, <1>3, <1>7, Returning
  <2> QED  BY <1>1, <1>3, <1>7, <2>1, CallEndsStep
<1>8. CASE AbortEndsCall
  BY <1>4, <1>8 DEF AbortEndsCall
<1>9. CASE GitExits
  <2>1. Exiting /\ ~op.aborted
    BY <1>9 DEF GitExits, Exiting
  <2>2. CASE op.kind = "switch"
    BY <1>4, <1>6, <1>9, <2>1, <2>2 DEF GitExits
  <2>3. CASE op.kind # "switch"
    BY <1>4, <1>5, <1>7, <1>9, <2>1, <2>3 DEF GitExits
  <2> QED  BY <2>2, <2>3
<1> QED  BY <1>8, <1>9

(* Publish: the fetch, the verification, the configuration.                *)
LEMMA TrackFacts ==
    ASSUME CommandInv, NEW read \in served, CanTrack(repo, read),
           repo' = [repo EXCEPT !.tracking = read]
    PROVE  /\ repo' \in Repository /\ repo'.head = repo.head /\ repo'.upstream = repo.upstream
           /\ repo'.tracking = read /\ repo'.heads = repo.heads
           /\ op.kind \in {"push", "publish"} /\ ~foreign.local => ServerIsKnown
<1>1. repo \in Repository /\ read \in Ref
  BY DEF CommandInv, TypeOK
<1>2. Contains(read, repo.tracking)
  BY DEF CanTrack
<1>3. WasServed(repo.tracking)
  BY <1>2 DEF WasServed
<1>4. op.kind \in {"push", "publish"} /\ ~foreign.local => ServerIsKnown
  BY <1>3 DEF CommandInv, PublicationIsVerified, ServerIsKnown
<1> QED  BY <1>1, <1>4 DEF Repository

LEMMA FetchReadsStep ==
    ASSUME CommandInv, FetchReads
    PROVE  CommandInv'
<1>1. op.pc = "fetching" /\ UNCHANGED <<published, foreign, git>> /\ LeavesRefs
  BY DEF FetchReads, At
<1>2. Executing /\ op \in Command /\ op.evidence = "none" /\ server \in Ref /\ server \in served
  BY <1>1, ExecutingFacts DEF Executing, CommandInv, ReadsAreServed
<1>3. PICK stage \in {"fetched", "returned"}, e \in {"none", "unknown"} :
        /\ Advances(stage, e) /\ (e # "none" <=> stage = "returned")
        /\ stage = "fetched" => op'.read \in served
  <2>1. CASE op' = [op EXCEPT !.pc = "fetched", !.read = server]
    <3>1. Advances("fetched", "none") /\ op'.read = server
      BY <1>2, <2>1 DEF Command, Advances, SameCommand, Stages
    <3> QED  BY <1>2, <3>1
  <2>2. CASE Returns("unknown")
    <3>1. Advances("returned", "unknown")
      BY <1>2, <2>2, Returning DEF Evidence
    <3> QED  BY <3>1
  <2> QED  BY <2>1, <2>2 DEF FetchReads
<1>4. stage \in Stages /\ e \in Evidence
  BY DEF Stages, Evidence
<1>5. /\ TypeOK' /\ OutcomeFollowsEvidence' /\ ReadsAreServed' /\ TrackingIsServed'
      /\ RepositoryIsOurs' /\ FailureIsObserved' /\ PublicationIsVerified'
  BY <1>1, <1>2, <1>3, <1>4, ExecuteKeeps
<1>6. /\ op'.pc = stage /\ op'.evidence = e /\ op'.kind = op.kind
      /\ op'.initial = op.initial /\ op'.aborted = op.aborted
  BY <1>3 DEF Advances, SameCommand
<1>7. ProcessFollowsExecute' /\ ExecuteIsKnown'
  BY <1>1, <1>6 DEF CommandInv, ProcessFollowsExecute, ExecuteIsKnown, Confirmed
<1> QED  BY <1>5, <1>7 DEF CommandInv

LEMMA FetchWritesStep ==
    ASSUME CommandInv, FetchWrites
    PROVE  CommandInv'
<1>1. op.pc = "fetched" /\ UNCHANGED <<published, foreign, git, server, served>>
  BY DEF FetchWrites, At
<1>2. /\ Executing /\ op \in Command /\ op.evidence = "none" /\ op.read \in served
      /\ op.kind = "publish" /\ op.outcome \notin Known
      /\ op.attempt.stage # "idle" => op.aborted /\ op.attempt.late
  BY <1>1, ExecutingFacts DEF Executing, CommandInv, ReadsAreServed, ExecuteIsKnown
<1>3. PICK stage \in {"verifying", "returned"}, e \in {"none", "unknown"} :
        /\ Advances(stage, e) /\ (e # "none" <=> stage = "returned")
        /\ \/ repo' = repo /\ stage = "returned"
           \/ CanTrack(repo, op.read) /\ repo' = [repo EXCEPT !.tracking = op.read]
  <2>1. CASE Goes("verifying") /\ CanTrack(repo, op.read)
             /\ repo' = [repo EXCEPT !.tracking = op.read]
    <3>1. Advances("verifying", "none")
      BY <1>2, <2>1, Going DEF Stages
    <3> QED  BY <2>1, <3>1
  <2>2. CASE /\ Returns("unknown")
             /\ \/ repo' = repo
                \/ CanTrack(repo, op.read) /\ repo' = [repo EXCEPT !.tracking = op.read]
    <3>1. Advances("returned", "unknown")
      BY <1>2, <2>2, Returning DEF Evidence
    <3> QED  BY <2>2, <3>1
  <2> QED  BY <2>1, <2>2 DEF FetchWrites
<1>4. stage \in Stages /\ e \in Evidence
  BY DEF Stages, Evidence
<1>5. /\ op'.pc = stage /\ op'.evidence = e /\ op'.kind = op.kind /\ op' \in Command
      /\ op'.initial = op.initial /\ op'.aborted = op.aborted
      /\ op'.attempt = op.attempt /\ op'.outcome = op.outcome /\ SameCommand
  BY <1>3 DEF Advances, SameCommand
<1>6. ProcessFollowsExecute' /\ ExecuteIsKnown'
  BY <1>1, <1>2, <1>5 DEF CommandInv, ProcessFollowsExecute, ExecuteIsKnown, Confirmed
<1>7. CASE repo' = repo /\ stage = "returned"
  <2>1. /\ TypeOK' /\ OutcomeFollowsEvidence' /\ ReadsAreServed' /\ TrackingIsServed'
        /\ RepositoryIsOurs' /\ FailureIsObserved' /\ PublicationIsVerified'
    BY <1>1, <1>2, <1>3, <1>4, <1>7, ExecuteKeeps DEF LeavesRefs
  <2> QED  BY <1>6, <2>1 DEF CommandInv
<1>8. CASE CanTrack(repo, op.read) /\ repo' = [repo EXCEPT !.tracking = op.read]
  <2>1. /\ repo' \in Repository /\ repo'.head = repo.head /\ repo'.upstream = repo.upstream
        /\ repo'.tracking = op.read /\ repo'.heads = repo.heads
        /\ ~foreign.local => ServerIsKnown
    BY <1>2, <1>8, TrackFacts
  <2>2. TypeOK'
    BY <1>1, <1>5, <2>1 DEF CommandInv, TypeOK
  <2>3. OutcomeFollowsEvidence'
    <3>1. op'.outcome \notin {"rejected", "no_change", "failed_known", "partial_success"}
      BY <1>2, <1>5 DEF Known, Outcomes
    <3> QED  BY <1>2, <1>3, <1>5, <3>1 DEF OutcomeFollowsEvidence
  <2>4. ReadsAreServed'
    BY <1>1, <1>5 DEF CommandInv, ReadsAreServed, Verifies, AsksServer
  <2>5. TrackingIsServed'
    BY <1>1, <1>2, <1>5, <2>1 DEF CommandInv, TrackingIsServed, Verifies, AsksServer
  <2>6. RepositoryIsOurs'
    BY <1>1, <1>2, <1>5, <2>1 DEF CommandInv, RepositoryIsOurs, IsOurs, Confirmed
  <2>7. PublicationIsVerified'
    BY <1>1, <1>5, <2>1, StillServed DEF CommandInv, PublicationIsVerified, Verifies, AsksServer
  <2>8. FailureIsObserved'
    BY <1>3, <1>5 DEF FailureIsObserved
  <2> QED  BY <1>6, <2>2, <2>3, <2>4, <2>5, <2>6, <2>7, <2>8 DEF CommandInv
<1> QED  BY <1>3, <1>7, <1>8

LEMMA VerifyPublicationStep ==
    ASSUME CommandInv, VerifyPublication
    PROVE  CommandInv'
<1>1. op.pc = "verifying" /\ UNCHANGED <<published, foreign>> /\ LeavesRefs
  BY DEF VerifyPublication, At
<1>2. /\ Executing /\ op \in Command /\ op.kind = "publish" /\ op.evidence = "none"
      /\ Confirmed \in Ref
  BY <1>1, ExecutingFacts DEF Executing, CommandInv, ExecuteIsKnown
<1>3. CASE Returns("publish_unconfigured") /\ git' = git
  <2>1. Advances("returned", "publish_unconfigured") /\ "returned" \in Stages
        /\ "publish_unconfigured" \in Evidence
    BY <1>2, <1>3, Returning DEF Evidence, Stages
  <2>2. /\ TypeOK' /\ OutcomeFollowsEvidence' /\ ReadsAreServed' /\ TrackingIsServed'
        /\ RepositoryIsOurs' /\ FailureIsObserved' /\ PublicationIsVerified'
    BY <1>1, <1>2, <1>3, <2>1, ExecuteKeeps
  <2>3. /\ op'.pc = "returned" /\ op'.evidence = "publish_unconfigured" /\ op'.kind = op.kind
        /\ op'.initial = op.initial /\ op'.aborted = op.aborted
    BY <2>1 DEF Advances, SameCommand
  <2>4. ProcessFollowsExecute' /\ ExecuteIsKnown'
    BY <1>1, <1>2, <1>3, <2>3
       DEF CommandInv, ProcessFollowsExecute, ExecuteIsKnown, Confirmed
  <2> QED  BY <2>2, <2>4 DEF CommandInv
<1>4. CASE published.seen.tracking = Confirmed /\ Starts("configure", "configuring")
  <2>1. ASSUME ~foreign.local
        PROVE  WasServed(Confirmed) /\ ServerIsKnown
    <3>1. Confirmed \in served \/ Confirmed = op.initial.tracking
      BY <1>4 DEF CommandInv, TrackingIsServed
    <3>2. ServerIsKnown
      BY <1>1, <1>2, <2>1 DEF CommandInv, PublicationIsVerified
    <3>3. WasServed(Confirmed)
      BY <1>2, <3>1, <3>2, ServedItself DEF ServerIsKnown
    <3> QED  BY <3>2, <3>3
  <2> QED  BY <1>1, <1>2, <1>4, <2>1, StartsStep
<1> QED  BY <1>1, <1>3, <1>4 DEF VerifyPublication

LEMMA ConfigureEndsStep ==
    ASSUME CommandInv, ConfigureEnds
    PROVE  CommandInv'
<1>1. /\ op.pc = "configuring" /\ UNCHANGED <<published, foreign>> /\ LeavesRefs
      /\ Exiting \/ (op.aborted /\ git' = git)
  BY DEF ConfigureEnds, At, Exiting
<1>2. Executing /\ op \in Command
  BY <1>1, ExecutingFacts DEF Executing
<1>3. PICK e \in {"completed", "publish_unconfigured"} : Returns(e)
  BY DEF ConfigureEnds
<1>4. e \in Evidence /\ Advances("returned", e)
  BY <1>2, <1>3, Returning DEF Evidence
<1> QED  BY <1>1, <1>4, CallEndsStep

-----------------------------------------------------------------------------
(* Reconciliation.                                                         *)
LEMMA AbortStep ==
    ASSUME CommandInv, Abort
    PROVE  CommandInv'
<1>1. op.pc # "idle" /\ UNCHANGED <<repo, server, served, published, git, foreign>>
      /\ op \in Command /\ op' = [op EXCEPT !.aborted = TRUE]
  BY DEF Abort, CommandInv, TypeOK
<1>2. /\ SameCommand /\ op'.pc = op.pc /\ op'.evidence = op.evidence /\ op'.read = op.read
      /\ op'.aborted = TRUE /\ op'.attempt = op.attempt /\ op'.outcome = op.outcome
  BY <1>1 DEF Command, SameCommand
<1>3. op'.kind = op.kind /\ op'.initial = op.initial /\ op' \in Command
  BY <1>2 DEF SameCommand
<1>4. TypeOK'
  BY <1>1, <1>3 DEF CommandInv, TypeOK
<1>5. ProcessFollowsExecute'
  BY <1>1, <1>2, <1>3 DEF CommandInv, ProcessFollowsExecute
<1>6. OutcomeFollowsEvidence'
  BY <1>1, <1>2, <1>3 DEF CommandInv, OutcomeFollowsEvidence, Over
<1>7. ReadsAreServed' /\ TrackingIsServed'
  BY <1>1, <1>2, <1>3 DEF CommandInv, ReadsAreServed, TrackingIsServed, Verifies, AsksServer
<1>8. RepositoryIsOurs'
  BY <1>1, <1>2, <1>3 DEF CommandInv, RepositoryIsOurs, IsOurs, Confirmed
<1>9. PublicationIsVerified'
  BY <1>1, <1>2, <1>3, StillServed DEF CommandInv, PublicationIsVerified, Verifies, AsksServer
<1>10. ExecuteIsKnown' /\ FailureIsObserved'
  BY <1>1, <1>2, <1>3
     DEF CommandInv, ExecuteIsKnown, FailureIsObserved, Verifies, AsksServer, Confirmed
<1> QED  BY <1>4, <1>5, <1>6, <1>7, <1>8, <1>9, <1>10 DEF CommandInv

(* A step of an attempt that has not just moved the ref.                   *)
LEMMA ReconcileKeeps ==
    ASSUME CommandInv, op.pc # "idle", Reconciles, ~Verifies',
           op'.attempt.stage = "fetched" => op'.attempt.read \in served,
           UNCHANGED <<repo, server, served, published, git, foreign>>
    PROVE  /\ TypeOK' /\ ProcessFollowsExecute' /\ ReadsAreServed' /\ TrackingIsServed'
           /\ RepositoryIsOurs' /\ PublicationIsVerified' /\ ExecuteIsKnown' /\ FailureIsObserved'
<1>1. /\ op' \in Command /\ op'.kind = op.kind /\ op'.initial = op.initial /\ op'.pc = op.pc
      /\ op'.evidence = op.evidence /\ op'.read = op.read /\ op'.aborted = op.aborted
      /\ SameCommand
  BY DEF Reconciles, SameCommand
<1>2. TypeOK'
  BY <1>1 DEF CommandInv, TypeOK
<1>3. ProcessFollowsExecute' /\ ExecuteIsKnown'
  BY <1>1 DEF CommandInv, ProcessFollowsExecute, ExecuteIsKnown, Confirmed
<1>4. ReadsAreServed' /\ TrackingIsServed'
  BY <1>1 DEF CommandInv, ReadsAreServed, TrackingIsServed
<1>5. RepositoryIsOurs'
  BY <1>1 DEF CommandInv, RepositoryIsOurs, IsOurs, Confirmed
<1>6. PublicationIsVerified'
  BY <1>1, StillServed DEF CommandInv, PublicationIsVerified
<1>7. FailureIsObserved'
  BY DEF FailureIsObserved
<1> QED  BY <1>2, <1>3, <1>4, <1>5, <1>6, <1>7

LEMMA AttemptStarts ==
    ASSUME CommandInv, op.attempt.stage # "idle" \/ Over \/ op.aborted
    PROVE  op.pc # "idle" /\ op \in Command /\ op.attempt \in Attempt
<1>1. op \in Command /\ op.attempt \in Attempt
  BY DEF CommandInv, TypeOK, Command
<1> QED  BY <1>1 DEF CommandInv, ExecuteIsKnown, Over, NoAttempt

LEMMA StartReconciliationStep ==
    ASSUME CommandInv, StartReconciliation
    PROVE  CommandInv'
<1> DEFINE evidence == IF op.pc = "returned" THEN op.evidence ELSE "none"
           late == ~Over
           new == [NoAttempt EXCEPT !.stage = FirstStage(evidence), !.evidence = evidence,
                                    !.late = late]
<1>1. /\ Over \/ op.aborted
      /\ op.attempt.stage = "idle" /\ op.outcome \in {"none", "unknown_outcome"}
      /\ op' = [op EXCEPT !.attempt = new]
      /\ UNCHANGED <<repo, server, served, published, git, foreign>>
  BY DEF StartReconciliation
<1>2. op.pc # "idle" /\ op \in Command
  BY <1>1, AttemptStarts
<1>3. evidence = op.evidence /\ evidence \in Evidence
  BY <1>2 DEF CommandInv, OutcomeFollowsEvidence, Command
<1>4. FirstStage(evidence) \in {"refreshing", "fetching"} /\ late \in BOOLEAN
  BY DEF FirstStage
<1>5. /\ new \in Attempt /\ new.stage = FirstStage(evidence) /\ new.evidence = evidence
      /\ new.late = late
  BY <1>3, <1>4 DEF NoAttempt, Attempt
<1> HIDE DEF new
<1>6. Reconciles /\ op'.attempt = new /\ op'.outcome = op.outcome
  BY <1>1, <1>2, <1>5, Attempting
<1> HIDE DEF evidence, late
<1>7. ~Verifies' /\ op'.attempt.stage # "fetched"
  BY <1>4, <1>5, <1>6 DEF Verifies, AsksServer, FirstStage, Reconciles, SameCommand
<1>8. OutcomeFollowsEvidence'
  <2>1. op'.attempt.stage # "idle" /\ op'.attempt.late = ~Over /\ op'.attempt.evidence = op.evidence
    BY <1>3, <1>4, <1>5, <1>6 DEF late
  <2>2. Over' = Over /\ op'.pc = op.pc /\ op'.evidence = op.evidence /\ op'.aborted = op.aborted
        /\ op'.kind = op.kind
    BY <1>6 DEF Over, Reconciles, SameCommand
  <2> QED  BY <1>1, <1>6, <2>1, <2>2 DEF CommandInv, OutcomeFollowsEvidence, Known
<1>9. /\ TypeOK' /\ ProcessFollowsExecute' /\ ReadsAreServed' /\ TrackingIsServed'
      /\ RepositoryIsOurs' /\ PublicationIsVerified' /\ ExecuteIsKnown' /\ FailureIsObserved'
  BY <1>1, <1>2, <1>6, <1>7, ReconcileKeeps
<1> QED  BY <1>8, <1>9 DEF CommandInv

(* An attempt ends with an outcome that the evidence allows.               *)
Allowed(outcome) ==
    \/ outcome = "unknown_outcome"
    \/ outcome = op.attempt.evidence /\ outcome \in {"rejected", "no_change"}
    \/ /\ op.attempt.evidence \notin {"rejected", "no_change"}
       /\ \/ outcome = "succeeded"
          \/ outcome = "partial_success" /\ op.kind = "publish"
          \/ outcome = "failed_known" /\ (op.kind # "switch" => op.attempt.evidence = "failed_known")

LEMMA AttemptEnds ==
    ASSUME CommandInv, op.attempt.stage # "idle",
           NEW outcome \in Outcomes, Ends(outcome), ~op.attempt.late => Allowed(outcome)
    PROVE  Reconciles /\ ~Verifies' /\ op'.attempt.stage = "idle" /\ OutcomeFollowsEvidence'
<1>1. op \in Command /\ op.attempt \in Attempt /\ op.attempt.late \in BOOLEAN
  BY AttemptStarts DEF Attempt
<1>2. NoAttemptEnds(outcome)
  BY <1>1, Ending
<1>3. /\ Reconciles /\ op'.attempt.stage = "idle" /\ op'.pc = op.pc /\ op'.kind = op.kind
      /\ op'.evidence = op.evidence
  BY <1>2 DEF NoAttemptEnds, NoAttempt, Reconciles, SameCommand
<1>4. OutcomeFollowsEvidence'
  <2>1. CASE op.attempt.late
    <3>1. op'.outcome = "unknown_outcome"
      BY <1>2, <2>1 DEF NoAttemptEnds
    <3> QED  BY <1>3, <3>1 DEF CommandInv, OutcomeFollowsEvidence, Known
  <2>2. CASE ~op.attempt.late
    <3>1. op'.outcome = outcome
      BY <1>2, <2>2 DEF NoAttemptEnds
    <3>2. Over /\ op.attempt.evidence = op.evidence
      BY <2>2 DEF CommandInv, OutcomeFollowsEvidence
    <3> QED  BY <1>3, <2>2, <3>1, <3>2 DEF CommandInv, OutcomeFollowsEvidence, Known, Over, Allowed
  <2> QED  BY <1>1, <2>1, <2>2
<1> QED  BY <1>3, <1>4 DEF Verifies

LEMMA ReconcileFetchReadsStep ==
    ASSUME CommandInv, ReconcileFetchReads
    PROVE  CommandInv'
<1>1. /\ op.attempt.stage = "fetching"
      /\ UNCHANGED <<repo, server, served, published, git, foreign>>
  BY DEF ReconcileFetchReads, LeavesRefs
<1>2. op.pc # "idle" /\ op \in Command /\ op.attempt \in Attempt /\ server \in served /\ server \in Ref
  BY <1>1, AttemptStarts DEF CommandInv, ReadsAreServed, TypeOK
<1>3. /\ Reconciles /\ ~Verifies' /\ OutcomeFollowsEvidence'
      /\ op'.attempt.stage = "fetched" => op'.attempt.read \in served
  <2>1. CASE Unknown
    <3>1. Ends("unknown_outcome") /\ Allowed("unknown_outcome") /\ "unknown_outcome" \in Outcomes
      BY <2>1 DEF Unknown, Allowed, Outcomes
    <3> QED  BY <1>1, <3>1, AttemptEnds
  <2>2. CASE op' = [op EXCEPT !.attempt.stage = "fetched", !.attempt.read = server]
    <3> DEFINE new == [op.attempt EXCEPT !.stage = "fetched", !.read = server]
    <3>1. /\ new \in Attempt /\ new.stage = "fetched" /\ new.read = server
          /\ new.evidence = op.attempt.evidence /\ new.late = op.attempt.late
      BY <1>2 DEF Attempt
    <3>2. op' = [op EXCEPT !.attempt = new]
      BY <1>2, <2>2 DEF Command, Attempt
    <3> HIDE DEF new
    <3>3. Reconciles /\ op'.attempt = new /\ op'.outcome = op.outcome
      BY <1>2, <3>1, <3>2, Attempting
    <3>4. OutcomeFollowsEvidence'
      BY <1>1, <3>1, <3>3
         DEF CommandInv, OutcomeFollowsEvidence, Known, Over, Reconciles, SameCommand
    <3> QED  BY <1>2, <3>1, <3>3, <3>4 DEF Verifies
  <2> QED  BY <2>1, <2>2 DEF ReconcileFetchReads
<1>4. /\ TypeOK' /\ ProcessFollowsExecute' /\ ReadsAreServed' /\ TrackingIsServed'
      /\ RepositoryIsOurs' /\ PublicationIsVerified' /\ ExecuteIsKnown' /\ FailureIsObserved'
  BY <1>1, <1>2, <1>3, ReconcileKeeps
<1> QED  BY <1>3, <1>4 DEF CommandInv

LEMMA ReconcileFetchWritesStep ==
    ASSUME CommandInv, ReconcileFetchWrites
    PROVE  CommandInv'
<1>1. /\ op.attempt.stage = "fetched" /\ op.attempt.read \in served
      /\ UNCHANGED <<server, served, published, git, foreign>>
  BY DEF ReconcileFetchWrites, CommandInv, ReadsAreServed
<1>2. op.pc # "idle" /\ op \in Command /\ op.attempt \in Attempt
  BY <1>1, AttemptStarts
<1>3. PICK ended \in BOOLEAN :
        /\ Reconciles /\ OutcomeFollowsEvidence'
        /\ ended => ~Verifies' /\ op'.attempt.stage = "idle"
        /\ ~ended => /\ op'.attempt.stage = "refreshing" /\ op'.attempt.read = op.attempt.read
                     /\ op'.attempt.current = FALSE
        /\ \/ repo' = repo /\ ended
           \/ /\ CanTrack(repo, op.attempt.read)
              /\ repo' = [repo EXCEPT !.tracking = op.attempt.read]
  <2>1. CASE Unknown
    <3>1. Ends("unknown_outcome") /\ Allowed("unknown_outcome") /\ "unknown_outcome" \in Outcomes
      BY <2>1 DEF Unknown, Allowed, Outcomes
    <3>2. Reconciles /\ ~Verifies' /\ op'.attempt.stage = "idle" /\ OutcomeFollowsEvidence'
      BY <1>1, <3>1, AttemptEnds
    <3> QED  BY <3>2 DEF ReconcileFetchWrites
  <2>2. CASE /\ op' = [op EXCEPT !.attempt.stage = "refreshing", !.attempt.current = FALSE]
             /\ CanTrack(repo, op.attempt.read)
             /\ repo' = [repo EXCEPT !.tracking = op.attempt.read]
    <3> DEFINE new == [op.attempt EXCEPT !.stage = "refreshing", !.current = FALSE]
    <3>1. /\ new \in Attempt /\ new.stage = "refreshing" /\ new.read = op.attempt.read
          /\ new.evidence = op.attempt.evidence /\ new.late = op.attempt.late
          /\ new.current = FALSE
      BY <1>2 DEF Attempt
    <3>2. op' = [op EXCEPT !.attempt = new]
      BY <1>2, <2>2 DEF Command, Attempt
    <3> HIDE DEF new
    <3>3. Reconciles /\ op'.attempt = new /\ op'.outcome = op.outcome
      BY <1>2, <3>1, <3>2, Attempting
    <3>4. OutcomeFollowsEvidence'
      BY <1>1, <3>1, <3>3
         DEF CommandInv, OutcomeFollowsEvidence, Known, Over, Reconciles, SameCommand
    <3> QED  BY <2>2, <3>1, <3>3, <3>4
  <2> QED  BY <2>1, <2>2 DEF ReconcileFetchWrites
<1>4. CASE ended /\ repo' = repo
  <2>1. /\ TypeOK' /\ ProcessFollowsExecute' /\ ReadsAreServed' /\ TrackingIsServed'
        /\ RepositoryIsOurs' /\ PublicationIsVerified' /\ ExecuteIsKnown' /\ FailureIsObserved'
    BY <1>1, <1>2, <1>3, <1>4, ReconcileKeeps
  <2> QED  BY <1>3, <2>1 DEF CommandInv
<1>5. CASE /\ CanTrack(repo, op.attempt.read)
           /\ repo' = [repo EXCEPT !.tracking = op.attempt.read]
  <2>1. /\ repo' \in Repository /\ repo'.head = repo.head /\ repo'.upstream = repo.upstream
        /\ repo'.tracking = op.attempt.read /\ repo'.heads = repo.heads
        /\ op.kind \in {"push", "publish"} /\ ~foreign.local => ServerIsKnown
    BY <1>1, <1>5, TrackFacts
  <2>2. /\ op' \in Command /\ op'.kind = op.kind /\ op'.initial = op.initial /\ op'.pc = op.pc
        /\ op'.evidence = op.evidence /\ op'.read = op.read /\ op'.aborted = op.aborted
        /\ SameCommand
    BY <1>3 DEF Reconciles, SameCommand
  <2>3. /\ Verifies' => op'.attempt.read = op.attempt.read /\ op'.attempt.current = FALSE
        /\ op'.attempt.stage # "fetched"
    BY <1>3
  <2>4. TypeOK'
    BY <1>1, <2>1, <2>2 DEF CommandInv, TypeOK
  <2>5. ProcessFollowsExecute' /\ ExecuteIsKnown'
    BY <1>1, <1>2, <2>2 DEF CommandInv, ProcessFollowsExecute, ExecuteIsKnown, Confirmed
  <2>6. ReadsAreServed' /\ TrackingIsServed'
    BY <1>1, <2>1, <2>2, <2>3 DEF CommandInv, ReadsAreServed, TrackingIsServed
  <2>7. RepositoryIsOurs'
    BY <1>1, <2>1, <2>2 DEF CommandInv, RepositoryIsOurs, IsOurs, Confirmed
  <2>8. PublicationIsVerified'
    BY <1>1, <2>1, <2>2, StillServed DEF CommandInv, PublicationIsVerified
  <2>9. FailureIsObserved'
    BY <2>1, <2>3 DEF FailureIsObserved
  <2> QED  BY <1>3, <2>4, <2>5, <2>6, <2>7, <2>8, <2>9 DEF CommandInv
<1> QED  BY <1>3, <1>4, <1>5

(* What FinishRemote and FinishSwitch lead to.                             *)
LEMMA FinishCases ==
    ASSUME CommandInv, FinishReconciliation
    PROVE  \E outcome \in Outcomes :
             /\ Ends(outcome) /\ (~op.attempt.late => Allowed(outcome))
             /\ outcome \in {"succeeded", "failed_known", "partial_success"} /\ op.kind # "switch"
                  => op.attempt.evidence \notin {"rejected", "no_change"}
             /\ outcome = "succeeded" => ShowsEffect
             /\ outcome = "partial_success" => op.kind = "publish" /\ IsPublished
             /\ outcome = "failed_known" /\ op.kind # "switch" =>
                  ~ShowsEffect /\ (op.kind = "publish" => ~IsPublished)
<1> DEFINE evidence == op.attempt.evidence
           Fits(outcome) ==
             /\ Ends(outcome) /\ (~op.attempt.late => Allowed(outcome))
             /\ outcome \in {"succeeded", "failed_known", "partial_success"} /\ op.kind # "switch"
                  => op.attempt.evidence \notin {"rejected", "no_change"}
             /\ outcome = "succeeded" => ShowsEffect
             /\ outcome = "partial_success" => op.kind = "publish" /\ IsPublished
             /\ outcome = "failed_known" /\ op.kind # "switch" =>
                  ~ShowsEffect /\ (op.kind = "publish" => ~IsPublished)
<1>1. {"unknown_outcome", "rejected", "no_change", "succeeded", "partial_success",
       "failed_known"} \subseteq Outcomes
  BY DEF Outcomes
<1>2. CASE Unknown
  <2>1. Fits("unknown_outcome")
    BY <1>2 DEF Unknown, Allowed
  <2> QED  BY <1>1, <2>1
<1>3. CASE evidence \in {"rejected", "no_change"} /\ Ends(evidence)
  <2>1. Fits(evidence)
    BY <1>3 DEF Allowed
  <2> QED  BY <1>1, <1>3, <2>1
<1>4. CASE op.kind # "switch" /\ evidence \notin {"rejected", "no_change"} /\ ~Unknown
  <2>1. CASE ShowsEffect
    <3>1. Fits("succeeded")
      BY <1>4, <2>1 DEF FinishReconciliation, FinishRemote, Allowed
    <3> QED  BY <1>1, <3>1
  <2>2. CASE ~ShowsEffect /\ op.kind = "publish" /\ IsPublished
    <3>1. Fits("partial_success")
      BY <1>4, <2>2 DEF FinishReconciliation, FinishRemote, Allowed
    <3> QED  BY <1>1, <3>1
  <2>3. CASE ~ShowsEffect /\ ~(op.kind = "publish" /\ IsPublished)
    <3>1. Ends("failed_known") /\ evidence = "failed_known"
      BY <1>4, <2>3 DEF FinishReconciliation, FinishRemote
    <3>2. Fits("failed_known")
      BY <1>4, <2>3, <3>1 DEF Allowed
    <3> QED  BY <1>1, <3>2
  <2> QED  BY <2>1, <2>2, <2>3
<1>5. CASE op.kind = "switch" /\ evidence # "rejected" /\ ~Unknown
  <2>1. ~op.attempt.late => evidence \notin {"rejected", "no_change"}
    <3>1. op.attempt.stage # "idle"
      BY DEF FinishReconciliation
    <3> QED  BY <1>5, <3>1 DEF CommandInv, OutcomeFollowsEvidence, ExecuteIsKnown
  <2>2. \/ Ends("succeeded") /\ ShowsEffect
        \/ Ends("failed_known")
    BY <1>5 DEF FinishReconciliation, FinishSwitch
  <2>3. CASE Ends("succeeded") /\ ShowsEffect
    <3>1. Fits("succeeded")
      BY <1>5, <2>1, <2>3 DEF Allowed
    <3> QED  BY <1>1, <3>1
  <2>4. CASE Ends("failed_known")
    <3>1. Fits("failed_known")
      BY <1>5, <2>1, <2>4 DEF Allowed
    <3> QED  BY <1>1, <3>1
  <2> QED  BY <2>2, <2>3, <2>4
<1> QED  BY <1>2, <1>3, <1>4, <1>5 DEF FinishReconciliation, FinishRemote, FinishSwitch

LEMMA FinishReconciliationStep ==
    ASSUME CommandInv, FinishReconciliation
    PROVE  CommandInv'
<1>1. op.attempt.stage = "refreshing"
      /\ UNCHANGED <<repo, server, served, published, git, foreign>>
  BY DEF FinishReconciliation, LeavesRefs
<1>2. PICK outcome \in Outcomes : Ends(outcome) /\ (~op.attempt.late => Allowed(outcome))
  BY FinishCases
<1>3. Reconciles /\ ~Verifies' /\ op'.attempt.stage = "idle" /\ OutcomeFollowsEvidence'
  BY <1>1, <1>2, AttemptEnds
<1>4. op.pc # "idle"
  BY <1>1, AttemptStarts
<1>5. /\ TypeOK' /\ ProcessFollowsExecute' /\ ReadsAreServed' /\ TrackingIsServed'
      /\ RepositoryIsOurs' /\ PublicationIsVerified' /\ ExecuteIsKnown' /\ FailureIsObserved'
  BY <1>1, <1>3, <1>4, ReconcileKeeps
<1> QED  BY <1>3, <1>5 DEF CommandInv

-----------------------------------------------------------------------------
(* The invariant holds.                                                    *)
LEMMA InitInv ==
    ASSUME Init
    PROVE  CommandInv
<1>1. repo \in Repository /\ server \in Ref
  BY CommandAssumption DEF Init
<1>2. /\ op.kind = "none" /\ op.pc = "idle" /\ op.initial = repo /\ op.aborted = FALSE
      /\ op.evidence = "none" /\ op.attempt = NoAttempt /\ op.outcome = "none"
      /\ op.attempt.stage = "idle" /\ op.attempt.current = FALSE
  BY DEF Init, NoAttempt
<1>3. /\ git.kind = "none" /\ git.live = FALSE /\ git.stage = "started" /\ git \in Process
      /\ served = {server} /\ published = [seen |-> repo, fresh |-> TRUE]
      /\ published.seen = repo /\ foreign.local = FALSE
  BY DEF Init, NoProcess, Process
<1>4. op \in Command
  BY <1>1, NoAttemptType DEF Init, Command, Targets, Branches, Stages, Evidence, Outcomes
<1>5. TypeOK
  BY <1>1, <1>3, <1>4 DEF Init, TypeOK, Snapshot
<1>6. ProcessFollowsExecute /\ OutcomeFollowsEvidence
  BY <1>2, <1>3 DEF ProcessFollowsExecute, OutcomeFollowsEvidence, Known
<1>7. ReadsAreServed /\ TrackingIsServed
  BY <1>2, <1>3 DEF ReadsAreServed, TrackingIsServed, Verifies
<1>8. RepositoryIsOurs /\ PublicationIsVerified /\ ExecuteIsKnown /\ FailureIsObserved
  BY <1>2, <1>3 DEF RepositoryIsOurs, PublicationIsVerified, ExecuteIsKnown, FailureIsObserved
<1> QED  BY <1>5, <1>6, <1>7, <1>8 DEF CommandInv

LEMMA StutterInv ==
    ASSUME CommandInv, UNCHANGED vars
    PROVE  CommandInv'
<1>1. /\ repo' = repo /\ server' = server /\ published' = published /\ git' = git /\ op' = op
      /\ served' = served /\ foreign' = foreign
  BY DEF vars
<1>2. TypeOK' /\ ProcessFollowsExecute' /\ OutcomeFollowsEvidence'
  BY <1>1 DEF CommandInv, TypeOK, ProcessFollowsExecute, OutcomeFollowsEvidence, Over
<1>3. ReadsAreServed' /\ TrackingIsServed'
  BY <1>1 DEF CommandInv, ReadsAreServed, TrackingIsServed, Verifies, AsksServer
<1>4. RepositoryIsOurs' /\ ExecuteIsKnown'
  BY <1>1 DEF CommandInv, RepositoryIsOurs, IsOurs, Confirmed, ExecuteIsKnown
<1>5. PublicationIsVerified' /\ FailureIsObserved'
  BY <1>1 DEF CommandInv, PublicationIsVerified, FailureIsObserved, Verifies, AsksServer,
              ServerIsKnown, WasServed, Confirmed
<1> QED  BY <1>2, <1>3, <1>4, <1>5 DEF CommandInv

LEMMA StepInv ==
    ASSUME CommandInv, [Next]_vars
    PROVE  CommandInv'
<1>1. CASE Others
  BY <1>1, SomeonePushesStep, SomeoneChangesRepositoryStep, ObserveStep DEF Others
<1>2. CASE Git
  BY <1>2, GitReadsStep, GitMovesRefStep, GitTracksPushStep, GitConfiguresStep DEF Git
<1>3. CASE Execute
  BY <1>3, DispatchStep, CheckTargetStep, ConfirmUpstreamStep, GitExitsStep, FetchReadsStep,
     FetchWritesStep, VerifyPublicationStep, ConfigureEndsStep DEF Execute
<1>4. CASE Abort
  BY <1>4, AbortStep
<1>5. CASE Reconcile
  BY <1>5, StartReconciliationStep, ReconcileFetchReadsStep, ReconcileFetchWritesStep,
     FinishReconciliationStep DEF Reconcile
<1>6. CASE UNCHANGED vars
  BY <1>6, StutterInv
<1> QED  BY <1>1, <1>2, <1>3, <1>4, <1>5, <1>6 DEF Next

(* What is known of the process, the repository, the server and the        *)
(* evidence of a command: CommandInv is an invariant, types among it.      *)
THEOREM Invariance == Spec => []CommandInv
<1>1. Init => CommandInv
  BY InitInv
<1>2. CommandInv /\ [Next]_vars => CommandInv'
  BY StepInv
<1> QED  BY <1>1, <1>2, PTL DEF Spec

(* Publish configures the upstream only for a commit the server has had.   *)
THEOREM UpstreamIsPublished == Spec => []UpstreamAfterPublication
<1>1. ASSUME CommandInv PROVE UpstreamAfterPublication
  <2>1. op.kind # "configure"
    BY <1>1, CommandAssumption DEF CommandInv, TypeOK, Command
  <2>2. git.kind = "configure" => op.kind = "publish"
    BY <1>1, <2>1 DEF CommandInv, ProcessFollowsExecute
  <2> QED  BY <1>1, <2>2 DEF CommandInv, UpstreamAfterPublication, PublicationIsVerified
<1> QED  BY <1>1, Invariance, PTL

-----------------------------------------------------------------------------
(* An outcome is known by the step that finishes a reconciliation.         *)
LEMMA Reporting ==
    ASSUME CommandInv, [Next]_vars, NEW outcome \in {"succeeded", "partial_success", "failed_known"},
           Reports(outcome)
    PROVE  FinishReconciliation
<1>1. op.outcome # outcome /\ op'.outcome = outcome /\ op \in Command
  BY DEF Reports, CommandInv, TypeOK
<1>2. ~Unknown
  BY <1>1 DEF Unknown, Ends, Command
<1>3. ASSUME Others PROVE FALSE
  BY <1>1, <1>3 DEF Others, SomeonePushes, SomeoneChangesRepository, Observe, Command
<1>4. ASSUME Git PROVE FALSE
  BY <1>1, <1>4 DEF Git, GitReads, GitMovesRef, GitTracksPush, GitConfigures, GitSwitches
<1>5. ASSUME Execute PROVE FALSE
  <2>1. ASSUME NEW stage, Goes(stage) PROVE FALSE
    BY <1>1, <2>1 DEF Goes, Command
  <2>2. ASSUME NEW e, Returns(e) PROVE FALSE
    BY <1>1, <2>2 DEF Returns, Command
  <2>3. ASSUME NEW kind, NEW stage, Starts(kind, stage) PROVE FALSE
    BY <2>1, <2>3 DEF Starts
  <2>4. ASSUME Dispatch PROVE FALSE
    BY <1>1, <2>4 DEF Dispatch, Command
  <2>5. ASSUME CheckTarget PROVE FALSE
    BY <2>1, <2>2, <2>3, <2>5 DEF CheckTarget
  <2>6. ASSUME ConfirmUpstream PROVE FALSE
    BY <2>2, <2>3, <2>6, ConfirmUpstreamCases
  <2>7. ASSUME GitExits \/ AbortEndsCall PROVE FALSE
    BY <2>1, <2>2, <2>7 DEF GitExits, AbortEndsCall
  <2>8. ASSUME FetchReads \/ FetchWrites PROVE FALSE
    BY <1>1, <2>1, <2>2, <2>8 DEF FetchReads, FetchWrites, Command
  <2>9. ASSUME VerifyPublication \/ ConfigureEnds PROVE FALSE
    BY <2>2, <2>3, <2>9 DEF VerifyPublication, ConfigureEnds
  <2> QED  BY <1>5, <2>4, <2>5, <2>6, <2>7, <2>8, <2>9 DEF Execute
<1>6. ASSUME Abort \/ UNCHANGED vars PROVE FALSE
  BY <1>1, <1>6 DEF Abort, Command, vars
<1>7. ASSUME StartReconciliation \/ ReconcileFetchReads \/ ReconcileFetchWrites PROVE FALSE
  BY <1>1, <1>2, <1>7
     DEF StartReconciliation, ReconcileFetchReads, ReconcileFetchWrites, Command
<1> QED  BY <1>3, <1>4, <1>5, <1>6, <1>7 DEF Next, Reconcile

LEMMA ReportedFacts ==
    ASSUME CommandInv, [Next]_vars, NEW outcome \in {"succeeded", "partial_success", "failed_known"},
           Reports(outcome)
    PROVE  /\ op.attempt.stage = "refreshing" /\ Over /\ op.attempt.evidence = op.evidence
           /\ op.kind # "switch" => Verifies
           /\ outcome = "succeeded" => ShowsEffect
           /\ outcome = "partial_success" => op.kind = "publish" /\ IsPublished
           /\ outcome = "failed_known" /\ op.kind # "switch" =>
                /\ op.evidence = "failed_known" /\ ~ShowsEffect
                /\ op.kind = "publish" => ~IsPublished
<1>1. FinishReconciliation /\ op.attempt.stage = "refreshing"
  BY Reporting DEF FinishReconciliation
<1>2. PICK o \in Outcomes :
         /\ Ends(o) /\ (~op.attempt.late => Allowed(o))
         /\ o \in {"succeeded", "failed_known", "partial_success"} /\ op.kind # "switch"
              => op.attempt.evidence \notin {"rejected", "no_change"}
         /\ o = "succeeded" => ShowsEffect
         /\ o = "partial_success" => op.kind = "publish" /\ IsPublished
         /\ o = "failed_known" /\ op.kind # "switch" =>
              ~ShowsEffect /\ (op.kind = "publish" => ~IsPublished)
  BY <1>1, FinishCases
<1>3. NoAttemptEnds(o)
  BY <1>2, Ending DEF CommandInv, TypeOK
<1>4. ~op.attempt.late /\ o = outcome
  BY <1>3 DEF NoAttemptEnds, Reports
<1>5. Over /\ op.attempt.evidence = op.evidence
  BY <1>1, <1>4 DEF CommandInv, OutcomeFollowsEvidence
<1>6. Allowed(outcome)
  BY <1>2, <1>4
<1> QED  BY <1>1, <1>2, <1>4, <1>5, <1>6 DEF Allowed, Verifies, AsksServer

(* What is reported as done is done: Push and Publish put the commit on    *)
(* the server, Pull left the branch at a commit of the server, and a       *)
(* switch was made by its own process.                                     *)
THEOREM SuccessReality == Spec => SuccessIsReal
<1> DEFINE Claim == CASE op.kind \in {"push", "publish"} -> WasServed(Confirmed)
                      [] op.kind = "pull" -> published.seen.heads[Main] \in served
                      [] OTHER -> git.stage = "acted"
           Reported == Reports("succeeded") \/ Reports("partial_success")
<1>1. ASSUME CommandInv, [Next]_vars, Reported, op.attempt.current \/ ~foreign.local
      PROVE  Claim
  <2>1. PICK outcome \in {"succeeded", "partial_success"} : Reports(outcome)
    BY <1>1
  <2>2. /\ Over /\ op.attempt.evidence = op.evidence
        /\ op.kind # "switch" => Verifies
        /\ ShowsEffect \/ (op.kind = "publish" /\ IsPublished)
    BY <1>1, <2>1, ReportedFacts
  <2>3. op.kind \in {"push", "pull", "publish", "switch", "none"} /\ Confirmed \in Ref
    BY <1>1, CommandAssumption DEF CommandInv, TypeOK, Command, Confirmed, Repository, Branches
  <2>4. CASE op.kind \in {"push", "publish"}
    <3>1. published.seen.tracking = Confirmed
      BY <2>2, <2>4 DEF ShowsEffect, IsPublished, Shown
    <3>2. Confirmed \in served \/ WasServed(Confirmed)
      <4>1. CASE op.attempt.current
        BY <1>1, <2>2, <2>4, <3>1, <4>1 DEF CommandInv, TrackingIsServed
      <4>2. CASE ~foreign.local
        <5>1. Confirmed \in served \/ Confirmed = op.initial.tracking
          BY <1>1, <3>1 DEF CommandInv, TrackingIsServed
        <5>2. ServerIsKnown
          BY <1>1, <2>2, <2>4, <4>2 DEF CommandInv, PublicationIsVerified
        <5> QED  BY <5>1, <5>2 DEF ServerIsKnown
      <4> QED  BY <1>1, <4>1, <4>2
    <3>3. WasServed(Confirmed)
      BY <2>3, <3>2, ServedItself
    <3> QED  BY <2>4, <3>3
  <2>5. CASE op.kind = "pull"
    <3>1. published.seen.heads[Main] = published.seen.tracking
      BY <2>2, <2>5 DEF ShowsEffect, Shown
    <3>2. published.seen.heads[Main] \in served
      <4>1. CASE op.attempt.current
        BY <1>1, <2>2, <2>5, <3>1, <4>1 DEF CommandInv, TrackingIsServed
      <4>2. CASE ~foreign.local
        <5>1. published.seen.tracking \in served \cup {op.initial.tracking}
          BY <1>1 DEF CommandInv, TrackingIsServed
        <5>2. published.seen.heads[Main] \in served \cup {Confirmed}
          BY <1>1, <2>2, <2>5, <4>2 DEF CommandInv, RepositoryIsOurs, IsOurs, Over
        <5>3. Confirmed # op.initial.tracking
          BY <1>1, <2>2, <2>5 DEF CommandInv, ExecuteIsKnown, Over, Verifies, AsksServer
        <5> QED  BY <3>1, <5>1, <5>2, <5>3
      <4> QED  BY <1>1, <4>1, <4>2
    <3> QED  BY <2>5, <3>2
  <2>6. CASE op.kind \notin {"push", "pull", "publish"}
    <3>1. op.evidence = "attempted"
      BY <2>2, <2>6 DEF ShowsEffect
    <3>2. git.stage = "acted"
      BY <1>1, <3>1 DEF CommandInv, ExecuteIsKnown
    <3> QED  BY <2>6, <3>2
  <2> QED  BY <2>3, <2>4, <2>5, <2>6
<1>2. CommandInv /\ [Next]_vars => [Reported /\ (op.attempt.current \/ ~foreign.local) => Claim]_vars
  BY <1>1
<1> QED  BY <1>2, Invariance, PTL DEF Spec, SuccessIsReal

(* An undisturbed failure is true: the fetch of the reconciliation did not *)
(* find the commit on the server, or the branch at the commit it found.    *)
THEOREM FailureReality == Spec => KnownFailureIsObserved
<1> DEFINE Claim == IF op.kind = "pull" THEN repo.heads[Main] # op.attempt.read
                    ELSE Confirmed # op.attempt.read
           Failed == Reports("failed_known") /\ op.kind # "switch" /\ op.attempt.current
                     /\ ~foreign.local
<1>1. ASSUME CommandInv, [Next]_vars, Failed
      PROVE  Claim
  <2>1. /\ Over /\ Verifies /\ op.evidence = "failed_known" /\ ~ShowsEffect
        /\ op.kind = "publish" => ~IsPublished
    BY <1>1, ReportedFacts
  <2>2. repo.tracking = op.attempt.read /\ published.seen = repo
    BY <1>1, <2>1 DEF CommandInv, FailureIsObserved
  <2>3. IsOurs(repo)
    BY <1>1, <2>1 DEF CommandInv, RepositoryIsOurs, Over
  <2>4. op.kind \in {"push", "pull", "publish"}
    <3>1. op.kind # "none"
      BY <1>1, <2>1 DEF CommandInv, ExecuteIsKnown, Over
    <3> QED  BY <1>1, <3>1, CommandAssumption DEF CommandInv, TypeOK, Command
  <2>5. CASE op.kind = "pull"
    BY <2>1, <2>2, <2>3, <2>5 DEF ShowsEffect, OnUpstream, Shown, IsOurs
  <2>6. CASE op.kind = "push"
    BY <2>1, <2>2, <2>3, <2>6 DEF ShowsEffect, OnUpstream, IsPublished, Shown, IsOurs
  <2>7. CASE op.kind = "publish"
    BY <2>1, <2>2, <2>7 DEF IsPublished, Shown
  <2> QED  BY <2>4, <2>5, <2>6, <2>7
<1>2. CommandInv /\ [Next]_vars => [Failed => Claim]_vars
  BY <1>1
<1> QED  BY <1>2, Invariance, PTL DEF Spec, KnownFailureIsObserved

=============================================================================
