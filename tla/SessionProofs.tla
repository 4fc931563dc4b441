----------------------------- MODULE SessionProofs -----------------------------
(***************************************************************************)
(* Safety of what a repository session keeps.  First, OperationSession for *)
(* every set of operations and targets and every retention bound, from the *)
(* sufficiency of the claims of OperationCoordination.  Then, the ids of   *)
(* the worktrees that operations name: WorktreeDiscovery for every set of  *)
(* linked worktrees, every number of reads and every number of changes by  *)
(* other programs.                                                         *)
(***************************************************************************)
EXTENDS OperationSessionInv, WorktreeDiscovery, TLAPS


-----------------------------------------------------------------------------
(* The claims of the Operation Coordinator are sufficient for everything   *)
(* but a branch that a command creates: two operations whose Git commands  *)
(* could otherwise disturb each other always conflict.                     *)

(* The claim that guards a fact: every operation that changes the fact or  *)
(* relies on it, and does not create it, holds this claim.                 *)
Guard(fact) ==
    CASE fact[1] \in {"head", "index", "files"} ->
             <<"worktree", fact[2], "availability">>
      [] fact[1] \in {"branch", "upstream"} -> <<"ref", fact[2]>>
      [] OTHER -> <<"remote", fact[2]>>

(* Whatever an operation changes or relies on and does not create, it      *)
(* holds the guard of.                                                     *)
LEMMA TouchedFactsAreClaimed ==
    ASSUME NEW t \in CoordinatedTarget,
           NEW fact \in (Writes(t) \cup ReliesOn(t)) \ Created(t)
    PROVE  Guard(fact) \in Claims(t)
<1> USE CoordinationAssumption
        DEF Writes, ReliesOn, Created, Claims, Guard, ClaimWorktree, ClaimRef,
            ClaimRemote, BranchFact, TrackingFact, UpstreamFact
<1>1. CASE t \in LocalTarget
  BY <1>1 DEF LocalTarget, MutationWrites, MutationReliesOn, CommitWrites,
              CommitReliesOn
<1>2. CASE t \in SwitchTarget
  BY <1>2 DEF SwitchTarget, SwitchWrites, SwitchReliesOn
<1>3. CASE t \in RemoteTarget
  BY <1>3 DEF RemoteTarget, FetchWrites, PullWrites, PullReliesOn, PushWrites,
              PushReliesOn
<1>4. QED
  BY <1>1, <1>2, <1>3 DEF CoordinatedTarget

(* Two operations that would interfere in anything that neither of them    *)
(* creates share a claim, so the coordinator never admits both             *)
(* (operationCoordinationConflicts).                                       *)
THEOREM InterferenceConflicts ==
    ASSUME NEW left \in CoordinatedTarget, NEW right \in CoordinatedTarget,
           InterferesInExisting(left, right)
    PROVE  Conflicts(left, right)
<1>1. PICK fact : /\ fact \in (Writes(left) \cup ReliesOn(left)) \ Created(left)
                  /\ fact \in (Writes(right) \cup ReliesOn(right)) \ Created(right)
  BY DEF InterferesInExisting, Contended
<1>2. Guard(fact) \in Claims(left) /\ Guard(fact) \in Claims(right)
  BY <1>1, TouchedFactsAreClaimed
<1>3. QED
  BY <1>2 DEF Conflicts

(* For a branch that is created the claims are not sufficient: a first     *)
(* commit on the unborn branch b of one worktree and a switch in another   *)
(* one that creates b from a Remote-tracking Branch are admitted together, *)
(* although each changes what the other one verified.  (Neither target     *)
(* names b: repository-session.ts attachedRef, and currentRef and target.) *)
THEOREM ClaimsMissCreation ==
    ASSUME NEW g \in Generations, NEW h \in Generations, g # h,
           NEW b \in Refs, NEW tracking \in Refs, NEW current \in Refs \cup {NoRef},
           NEW origin \in Remotes
    PROVE  \E commit, switch \in CoordinatedTarget :
              /\ commit.creates = b /\ switch.creates = b
              /\ Interferes(commit, switch)
              /\ ~Conflicts(commit, switch)
<1> DEFINE commit == [kind |-> "commit", worktree |-> g, attachedRef |-> NoRef,
                      creates |-> b]
           switch == [kind |-> "branch_switch", worktree |-> h,
                      currentRef |-> current, ref |-> tracking,
                      remote |-> origin, creates |-> b]
<1>1. commit \in CoordinatedTarget
  BY DEF CoordinatedTarget, LocalTarget
<1>2. switch \in CoordinatedTarget
  BY DEF CoordinatedTarget, SwitchTarget
<1>3. Interferes(commit, switch)
  <2>1. <<"branch", b>> \in Writes(commit) /\ <<"branch", b>> \in Writes(switch)
    BY CoordinationAssumption
       DEF Writes, CommitWrites, SwitchWrites, BranchFact
  <2>2. QED
    BY <2>1 DEF Interferes, Contended
<1>4. Lane(commit) # Lane(switch)
  BY DEF Lane
<1>5. Claims(commit) \cap Claims(switch) = {}
  BY CoordinationAssumption
     DEF Claims, ClaimWorktree, ClaimRef, ClaimRemote
<1>6. ~Conflicts(commit, switch)
  BY <1>4, <1>5 DEF Conflicts
<1>7. QED
  BY <1>1, <1>2, <1>3, <1>6

(* The relation does not depend on which operation came first.             *)
THEOREM ConflictsIsSymmetric ==
    ASSUME NEW left, NEW right, Conflicts(left, right)
    PROVE  Conflicts(right, left)
  BY DEF Conflicts

-----------------------------------------------------------------------------
(* What the transformations of a record change.                            *)

(* q is r but for the publication, which allows a retry only if r does.    *)
SameButPublished(r, q) ==
    /\ q \in SessionRecord
    /\ q.target = r.target /\ q.phase = r.phase /\ q.lease = r.lease
    /\ q.result = r.result /\ q.cancellationRequested = r.cancellationRequested
    /\ q.timedOut = r.timedOut /\ q.operationTimeout = r.operationTimeout
    /\ q.execution = r.execution /\ q.busyConflicts = r.busyConflicts
    /\ q.reconciling = r.reconciling /\ q.process = r.process /\ q.run = r.run
    /\ q.draining = r.draining
    /\ q.published.retryAllowed => (r.published.retryAllowed \/ RetryAllowed(r))

LEMMA PublishFacts ==
    ASSUME NEW r \in SessionRecord
    PROVE  SameButPublished(r, Publish(r))
<1>1. Summarize(r) \in Summary
  BY DEF Summarize, Summary, SessionRecord, RetryAllowed, Phase
<1>2. Summarize(r).retryAllowed = RetryAllowed(r)
  BY DEF Summarize
<1>3. CASE storeState = "closed"
  BY <1>3 DEF Publish, SameButPublished
<1>4. CASE storeState # "closed"
  <2>1. Publish(r) = [r EXCEPT !.published = Summarize(r)]
    BY <1>4 DEF Publish
  <2>2. QED
    BY <2>1, <1>1, <1>2 DEF SameButPublished, SessionRecord
<1>5. QED
  BY <1>3, <1>4

LEMMA NewRecordType ==
    ASSUME NEW t \in Targets
    PROVE  NewRecord(t) \in SessionRecord
  BY DEF NewRecord, SessionRecord, Unpublished, Summary, Phase, Result,
         Execution, Attempt

LEMMA RequestCancellationFacts ==
    ASSUME NEW r \in SessionRecord
    PROVE  SameButPublished([r EXCEPT !.cancellationRequested = TRUE],
                            RequestCancellation(r))
<1> DEFINE c == [r EXCEPT !.cancellationRequested = TRUE]
<1>1. c \in SessionRecord
  BY DEF SessionRecord
<1>2. CASE r.cancellationRequested
  <2>1. c = r
    BY <1>2 DEF SessionRecord
  <2>2. QED
    BY <1>2, <2>1 DEF RequestCancellation, SameButPublished
<1>3. CASE ~r.cancellationRequested
  BY <1>1, <1>3, PublishFacts DEF RequestCancellation
<1>4. QED
  BY <1>2, <1>3

-----------------------------------------------------------------------------
(* The transformations keep the invariant of a record, and what the other  *)
(* records depend on.                                                      *)

(* What stays whatever happens: the target, the lease and the result; a    *)
(* process may exit but never starts, a cancellation is never withdrawn.   *)
Persists(r, q) ==
    /\ q.target = r.target /\ q.lease = r.lease
    /\ q.result = r.result /\ q.phase # "unissued"
    /\ q.process = "running" => r.process = "running"
    /\ q.process = "unstarted" <=> r.process = "unstarted"
    /\ r.cancellationRequested => q.cancellationRequested

Keeps(r, q) == Persists(r, q) /\ q.process = r.process

LEMMA RequestCancellationKeeps ==
    ASSUME NEW r \in SessionRecord, RecordInv(r), r.phase # "unissued"
    PROVE  LET q == RequestCancellation(r)
           IN  /\ q \in SessionRecord /\ RecordInv(q) /\ Keeps(r, q)
               /\ q.cancellationRequested
<1> DEFINE c == [r EXCEPT !.cancellationRequested = TRUE]
           q == RequestCancellation(r)
<1>1. SameButPublished(c, q)
  BY RequestCancellationFacts
<1>2. /\ c.target = r.target /\ c.phase = r.phase /\ c.lease = r.lease
      /\ c.result = r.result /\ c.cancellationRequested = TRUE
      /\ c.timedOut = r.timedOut /\ c.operationTimeout = r.operationTimeout
      /\ c.execution = r.execution /\ c.busyConflicts = r.busyConflicts
      /\ c.reconciling = r.reconciling /\ c.process = r.process /\ c.run = r.run
      /\ c.draining = r.draining /\ c.published = r.published
  BY DEF SessionRecord
<1> HIDE DEF c, q
<1>3. QED
  BY <1>1, <1>2 DEF q, SameButPublished, RecordInv, LeaseInv, ProcessInv, AttemptInv,
                    KnownInv, Known, RetryAllowed, Keeps, Persists

LEMMA ReconcileKeeps ==
    ASSUME NEW r \in SessionRecord, RecordInv(r), r.phase # "unissued",
           ~Known(r), r.busyConflicts \/ r.execution # "none"
    PROVE  LET q == Reconcile(r)
           IN  q \in SessionRecord /\ RecordInv(q) /\ Keeps(r, q)
<1> DEFINE c == [r EXCEPT !.phase = "reconciling", !.reconciling = "scheduled"]
           q == Reconcile(r)
<1>1. CASE r.reconciling # "none"
  BY <1>1 DEF Reconcile, Keeps, Persists
<1>2. CASE r.reconciling = "none"
  <2>1. /\ c \in SessionRecord
        /\ c.target = r.target /\ c.phase = "reconciling" /\ c.lease = r.lease
        /\ c.result = r.result
        /\ c.cancellationRequested = r.cancellationRequested
        /\ c.timedOut = r.timedOut /\ c.operationTimeout = r.operationTimeout
        /\ c.execution = r.execution /\ c.busyConflicts = r.busyConflicts
        /\ c.reconciling = "scheduled" /\ c.process = r.process /\ c.run = r.run
        /\ c.draining = r.draining /\ c.published = r.published
    BY DEF SessionRecord, Phase, Attempt
  <2>2. q = Publish(c)
    BY <1>2 DEF Reconcile
  <2>3. SameButPublished(c, q)
    BY <2>1, <2>2, PublishFacts
  <2> HIDE DEF c, q
  <2>4. QED
    BY <2>1, <2>3 DEF q, SameButPublished, RecordInv, LeaseInv, ProcessInv,
                      AttemptInv, KnownInv, Known, RetryAllowed, Keeps, Persists
<1>3. QED
  BY <1>1, <1>2

LEMMA ReconcileUnlessKnownKeeps ==
    ASSUME NEW r \in SessionRecord, RecordInv(r), r.phase # "unissued"
    PROVE  LET q == ReconcileUnlessKnown(r)
           IN  q \in SessionRecord /\ RecordInv(q) /\ Keeps(r, q)
<1>1. CASE Known(r) \/ (r.execution = "none" /\ ~r.busyConflicts)
  BY <1>1 DEF ReconcileUnlessKnown, Keeps, Persists
<1>2. CASE ~Known(r) /\ (r.execution # "none" \/ r.busyConflicts)
  BY <1>2, ReconcileKeeps DEF ReconcileUnlessKnown
<1>3. QED
  BY <1>1, <1>2

LEMMA DrainingKeeps ==
    ASSUME NEW r \in SessionRecord, RecordInv(r), r.phase # "unissued", ~Known(r)
    PROVE  LET q == [r EXCEPT !.draining = TRUE]
           IN  q \in SessionRecord /\ RecordInv(q) /\ Keeps(r, q)
<1> DEFINE q == [r EXCEPT !.draining = TRUE]
<1>1. /\ q \in SessionRecord
      /\ q.target = r.target /\ q.phase = r.phase /\ q.lease = r.lease
      /\ q.result = r.result
      /\ q.cancellationRequested = r.cancellationRequested
      /\ q.timedOut = r.timedOut /\ q.operationTimeout = r.operationTimeout
      /\ q.execution = r.execution /\ q.busyConflicts = r.busyConflicts
      /\ q.reconciling = r.reconciling /\ q.process = r.process /\ q.run = r.run
      /\ q.draining = TRUE /\ q.published = r.published
  BY DEF SessionRecord
<1> HIDE DEF q
<1>2. QED
  BY <1>1 DEF q, RecordInv, LeaseInv, ProcessInv, AttemptInv, KnownInv, Known, Keeps, Persists

LEMMA BeginDrainKeeps ==
    ASSUME NEW r \in SessionRecord, RecordInv(r), r.phase # "unissued", ~Known(r)
    PROVE  LET q == BeginDrain(r)
           IN  /\ q \in SessionRecord /\ RecordInv(q) /\ Keeps(r, q)
               /\ q.process = "running" => q.cancellationRequested
<1>1. CASE r.result = "unknown_outcome"
  <2>1. r.busyConflicts \/ r.execution # "none"
    BY <1>1 DEF RecordInv, AttemptInv
  <2>2. /\ Reconcile(r) \in SessionRecord /\ RecordInv(Reconcile(r))
        /\ Keeps(r, Reconcile(r))
    BY <2>1, ReconcileKeeps
  <2>3. ~Known(Reconcile(r)) /\ Reconcile(r).phase # "unissued"
    BY <2>2 DEF Keeps, Persists, Known
  <2>4. r.process = "running" => r.cancellationRequested
    BY <2>1 DEF RecordInv, ProcessInv, SessionRecord, Execution
  <2>5. BeginDrain(r) = [Reconcile(r) EXCEPT !.draining = TRUE]
    BY <1>1 DEF BeginDrain
  <2>6. QED
    BY <2>2, <2>3, <2>4, <2>5, DrainingKeeps DEF Keeps, Persists
<1>2. CASE r.result # "unknown_outcome"
  <2> DEFINE c == RequestCancellation(r)
  <2>1. /\ c \in SessionRecord /\ RecordInv(c) /\ Keeps(r, c)
        /\ c.cancellationRequested
    BY RequestCancellationKeeps
  <2>2. ~Known(c) /\ c.phase # "unissued"
    BY <2>1 DEF Keeps, Persists, Known
  <2>3. BeginDrain(r) = [c EXCEPT !.draining = TRUE]
    BY <1>2 DEF BeginDrain
  <2> HIDE DEF c
  <2>4. QED
    BY <2>1, <2>2, <2>3, DrainingKeeps DEF Keeps, Persists
<1>3. QED
  BY <1>1, <1>2

(* The record settle() builds, before it is published.                     *)
Settled(r, result, lease, run) ==
    [r EXCEPT !.operationTimeout = FALSE, !.phase = "terminal",
              !.result = result, !.lease = lease, !.reconciling = "none",
              !.draining = FALSE, !.run = run]

SettledAs(r, result, lease, run, c) ==
    /\ c \in SessionRecord
    /\ c.target = r.target /\ c.phase = "terminal"
    /\ c.lease = lease /\ c.result = result
    /\ c.cancellationRequested = r.cancellationRequested
    /\ c.operationTimeout = FALSE
    /\ c.execution = r.execution /\ c.busyConflicts = r.busyConflicts
    /\ c.reconciling = "none" /\ c.process = r.process
    /\ c.run = run /\ c.draining = FALSE /\ c.published = r.published

LEMMA SettledFields ==
    ASSUME NEW r \in SessionRecord, NEW result \in Result, NEW lease \in BOOLEAN,
           NEW run \in {"idle", "executing", "resume", "done"}
    PROVE  SettledAs(r, result, lease, run, Settled(r, result, lease, run))
<1> DEFINE c == Settled(r, result, lease, run)
           d == [r EXCEPT !.lease = lease, !.run = run]
<1>1. c \in SessionRecord
  <2>1. d \in SessionRecord
    BY Zenon DEF SessionRecord
  <2>2. c = [d EXCEPT !.operationTimeout = FALSE, !.phase = "terminal",
                      !.result = result, !.reconciling = "none", !.draining = FALSE]
    BY DEF Settled, SessionRecord
  <2>3. "terminal" \in Phase /\ "none" \in Attempt
    BY DEF Phase, Attempt
  <2> HIDE DEF d, c
  <2>4. QED
    BY <2>1, <2>2, <2>3, Zenon DEF SessionRecord
<1>2. /\ c.target = r.target /\ c.phase = "terminal"
      /\ c.lease = lease /\ c.result = result
      /\ c.cancellationRequested = r.cancellationRequested
      /\ c.operationTimeout = FALSE
      /\ c.execution = r.execution /\ c.busyConflicts = r.busyConflicts
      /\ c.reconciling = "none" /\ c.process = r.process
      /\ c.run = run /\ c.draining = FALSE /\ c.published = r.published
  BY DEF Settled, SessionRecord, Phase, Attempt, Result
<1> HIDE DEF c
<1>3. QED
  BY <1>1, <1>2 DEF c, SettledAs

(* settle(): the lease ends exactly with a known result.                   *)
SettleEffect(r, result, q) ==
    /\ q \in SessionRecord /\ RecordInv(q) /\ (KnownTerminal(q) <=> Known(q))
    /\ q.target = r.target /\ q.process = r.process
    /\ q.phase = "terminal" /\ q.result = result
    /\ q.lease <=> (result = "unknown_outcome")
    /\ q.cancellationRequested = r.cancellationRequested

LEMMA SettleFacts ==
    ASSUME NEW r \in SessionRecord, RecordInv(r), r.phase # "unissued", ~Known(r),
           NEW result \in {"rejected", "known", "unknown_outcome"},
           result = "unknown_outcome" => (r.busyConflicts \/ r.execution # "none"),
           result # "unknown_outcome" => r.process # "running"
    PROVE  SettleEffect(r, result, Settle(r, result))
<1> DEFINE run == IF r.run = "first" THEN "resume" ELSE r.run
<1>1. result \in Result /\ run \in {"idle", "executing", "resume", "done"}
  BY DEF Result, SessionRecord
<1>2. run \in {"first", "resume"} => r.process = "exited"
  BY DEF RecordInv, ProcessInv
<1>3. Settle(r, result) = Publish(Settled(r, result, result = "unknown_outcome", run))
  BY Zenon DEF Settle, Settled
<1> HIDE DEF run
<1>4. ASSUME NEW lease \in BOOLEAN, lease <=> (result = "unknown_outcome")
      PROVE  SettleEffect(r, result, Publish(Settled(r, result, lease, run)))
  <2> DEFINE c == Settled(r, result, lease, run)
             q == Publish(c)
  <2>1. SettledAs(r, result, lease, run, c)
    BY <1>1, SettledFields, Zenon
  <2> HIDE DEF c
  <2>2. SameButPublished(c, q)
    BY <2>1, PublishFacts DEF SettledAs
  <2> HIDE DEF q
  <2>3. QED
    BY <1>2, <1>4, <2>1, <2>2
       DEF c, q, SettledAs, SettleEffect, SameButPublished, RecordInv, LeaseInv, ProcessInv,
           AttemptInv, KnownInv, Known, KnownTerminal, RetryAllowed
<1>5. QED
  <2>1. (result = "unknown_outcome") \in BOOLEAN
    OBVIOUS
  <2>2. QED
    BY <1>3, <1>4, <2>1, Zenon

-----------------------------------------------------------------------------
(* Steps of the session.                                                   *)

(* An issued record goes on; it advances if its process does not exit.     *)
Evolves(r, q) ==
    r.phase # "unissued" /\ q \in SessionRecord /\ RecordInv(q) /\ Persists(r, q)

Advances(r, q) == Evolves(r, q) /\ q.process = r.process

SteadyBut(S) ==
    \A p \in Ops \ S : record'[p] = record[p] \/ Advances(record[p], record'[p])

AllSteady == SteadyBut({})

(* The four ways a step changes the one record it is about.                *)
Admitted(o, t) ==
    LET q == record'[o]
    IN  q.phase # "unissued" /\ q.target = t /\ q.process = "running" /\ q.lease

Refused(o, t) ==
    LET q == record'[o]
    IN  q.phase # "unissued" /\ q.target = t /\ q.process = "unstarted"

Exited(o) ==
    LET r == record[o]  q == record'[o]
    IN  /\ r.phase # "unissued" /\ q.phase # "unissued" /\ q.target = r.target
        /\ q.lease = r.lease /\ r.process = "running" /\ q.process = "exited"
        /\ ~Known(r)

Answered(o) ==
    LET r == record[o]  q == record'[o]
    IN  /\ r.phase # "unissued" /\ q.phase # "unissued" /\ q.target = r.target
        /\ r.lease /\ q.process = r.process /\ ~Known(r)
        /\ q.lease \/ q.process # "running"

(* A step in which issued records evolve and the store's content stays.    *)
LEMMA EvolveStep ==
    ASSUME IInv,
           record' \in [Ops -> SessionRecord],
           \A o \in Ops : \/ record'[o] = record[o]
                          \/ Evolves(record[o], record'[o]),
           storeState' \in {"open", "closing", "closed"},
           UNCHANGED <<operations, knownTerminals>>,
           storeState' # "open" =>
               \A o \in Ops : record'[o].process = "running" =>
                                  record'[o].cancellationRequested
    PROVE  IInv'
<1>1. TypeOK'
  BY DEF IInv, TypeOK
<1>2. \A o \in Ops : RecordInv(record'[o])
  BY DEF IInv, Advances, Evolves
<1>3. StoreInv'
  <2>1. \A o \in Ops : /\ record'[o].lease = record[o].lease
                       /\ record'[o].result = record[o].result
                       /\ record[o].phase # "unissued" => record'[o].phase # "unissued"
    BY DEF Advances, Evolves, Keeps, Persists
  <2>2. \A o \in Ops : Known(record[o]) => Known(record'[o])
    BY <2>1 DEF Known
  <2>3. \A i \in DOMAIN knownTerminals : knownTerminals[i] \in Ops
    BY DEF IInv, TypeOK
  <2>4. QED
    BY <2>1, <2>2, <2>3 DEF IInv, TypeOK, StoreInv, Known
<1>4. HoldersInv'
  BY DEF IInv, HoldersInv, Holding, Advances, Evolves, Keeps, Persists
<1>5. ClosingAbortsProcesses'
  BY DEF ClosingAbortsProcesses, Running
<1>6. QED
  BY <1>1, <1>2, <1>3, <1>4, <1>5 DEF IInv

(* The common case: one issued record, nothing else.                       *)
LEMMA OneRecordStep ==
    ASSUME IInv, NEW o \in Ops, NEW q, Evolves(record[o], q),
           record' = [record EXCEPT ![o] = q],
           UNCHANGED <<storeState, operations, knownTerminals>>
    PROVE  IInv' /\ (Advances(record[o], q) => AllSteady)
<1>1. record' \in [Ops -> SessionRecord]
  BY DEF IInv, TypeOK, Evolves
<1>2. record'[o] = q /\ \A p \in Ops : p # o => record'[p] = record[p]
  BY DEF IInv, TypeOK
<1>3. \A p \in Ops : record'[p] = record[p] \/ Evolves(record[p], record'[p])
  BY <1>2
<1>4. storeState' # "open" =>
        \A p \in Ops : record'[p].process = "running" => record'[p].cancellationRequested
  BY <1>2 DEF IInv, ClosingAbortsProcesses, Running, Evolves, Persists
<1>5. storeState' \in {"open", "closing", "closed"}
  BY DEF IInv, TypeOK
<1>6. Advances(record[o], q) => AllSteady
  BY <1>2 DEF AllSteady, SteadyBut
<1>7. QED
  BY <1>1, <1>3, <1>4, <1>5, <1>6, EvolveStep

LEMMA InitIInv == Init => IInv
<1> SUFFICES ASSUME Init PROVE IInv
  OBVIOUS
<1> DEFINE u == Unissued
<1>1. PICK t \in Targets : t = CHOOSE x \in Targets : TRUE
  BY SessionAssumption
<1>2. u = [NewRecord(t) EXCEPT !.phase = "unissued", !.lease = FALSE]
  BY <1>1 DEF Unissued
<1>3. /\ u \in SessionRecord /\ u.phase = "unissued" /\ u.lease = FALSE
      /\ u.result = "none" /\ u.process = "unstarted" /\ u.reconciling = "none"
      /\ u.draining = FALSE /\ u.busyConflicts = FALSE /\ u.execution = "none"
      /\ u.operationTimeout = FALSE /\ u.run = "idle"
      /\ u.published.retryAllowed = FALSE
  BY <1>1, <1>2 DEF NewRecord, SessionRecord, Unpublished, Summary, Phase, Result,
                    Execution, Attempt
<1>4. RecordInv(u)
  <2> HIDE DEF u
  <2>1. QED
    BY <1>3 DEF RecordInv, LeaseInv, ProcessInv, AttemptInv, KnownInv, Known
<1>5. \A o \in Ops : record[o] = u
  BY DEF Init
<1> HIDE DEF u
<1>6. TypeOK
  BY <1>3 DEF Init, TypeOK, u
<1>7. StoreInv
  BY <1>3, <1>5, SessionAssumption DEF Init, StoreInv
<1>8. HoldersInv /\ ClosingAbortsProcesses
  BY <1>3, <1>5 DEF Init, HoldersInv, Holding, ClosingAbortsProcesses
<1>9. QED
  BY <1>4, <1>5, <1>6, <1>7, <1>8 DEF IInv

(* Facts of one issued record, from the invariant.                         *)
LEMMA RecordFacts ==
    ASSUME IInv, NEW o \in Ops
    PROVE  record[o] \in SessionRecord /\ RecordInv(record[o])
  BY DEF IInv, TypeOK

LEMMA ProcessExitsStep ==
    ASSUME IInv, NEW o \in Ops, ProcessExits(o)
    PROVE  IInv' /\ SteadyBut({o}) /\ Exited(o)
<1> DEFINE r == record[o]
           c == [r EXCEPT !.process = "exited", !.execution = "ended", !.run = "first"]
           q == ReconcileUnlessKnown(c)
<1>1. r \in SessionRecord /\ RecordInv(r) /\ r.process = "running"
  BY RecordFacts DEF ProcessExits
<1>2. r.phase # "unissued" /\ ~Known(r)
  BY <1>1 DEF RecordInv, LeaseInv, KnownInv
<1>3. /\ c \in SessionRecord
      /\ c.target = r.target /\ c.phase = r.phase /\ c.lease = r.lease
      /\ c.result = r.result /\ c.cancellationRequested = r.cancellationRequested
      /\ c.operationTimeout = r.operationTimeout /\ c.execution = "ended"
      /\ c.busyConflicts = r.busyConflicts /\ c.reconciling = r.reconciling
      /\ c.process = "exited" /\ c.run = "first" /\ c.draining = r.draining
      /\ c.published = r.published
  BY <1>1 DEF SessionRecord, Execution
<1>4. RecordInv(c)
  <2> HIDE DEF c, r
  <2>1. QED
    BY <1>1, <1>2, <1>3 DEF RecordInv, LeaseInv, ProcessInv, AttemptInv, KnownInv, Known
<1>5. q \in SessionRecord /\ RecordInv(q) /\ Keeps(c, q)
  BY <1>2, <1>3, <1>4, ReconcileUnlessKnownKeeps
<1>6. Evolves(r, q)
  <2> HIDE DEF c, q, r
  <2>1. QED
    BY <1>1, <1>2, <1>3, <1>5 DEF Advances, Evolves, Keeps, Persists
<1>7. record' = [record EXCEPT ![o] = q]
  BY DEF ProcessExits
<1> HIDE DEF q
<1>8. record'[o] = q /\ \A p \in Ops \ {o} : record'[p] = record[p]
  BY <1>7 DEF IInv, TypeOK
<1>9. SteadyBut({o}) /\ Exited(o)
  BY <1>1, <1>2, <1>3, <1>5, <1>8 DEF SteadyBut, Exited, Keeps, Persists
<1>10. QED
  BY <1>6, <1>7, <1>9, OneRecordStep DEF ProcessExits

LEMMA ResumeRunStep ==
    ASSUME IInv, NEW o \in Ops, ResumeRun(o)
    PROVE  IInv' /\ AllSteady
<1> DEFINE r == record[o]
           c == ReconcileAgain(r)
           q == [c EXCEPT !.run = "done"]
<1>1. r \in SessionRecord /\ RecordInv(r) /\ r.run = "resume"
  BY RecordFacts DEF ResumeRun
<1>2. r.phase # "unissued"
  BY <1>1 DEF RecordInv, LeaseInv, ProcessInv
<1>3. c \in SessionRecord /\ RecordInv(c) /\ Keeps(r, c)
  <2>1. CASE r.result = "unknown_outcome"
    BY <1>1, <1>2, <2>1, ReconcileUnlessKnownKeeps DEF ReconcileAgain
  <2>2. CASE r.result # "unknown_outcome"
    BY <1>1, <1>2, <2>2 DEF ReconcileAgain, Keeps, Persists
  <2>3. QED
    BY <2>1, <2>2
<1> HIDE DEF c
<1>4. /\ q \in SessionRecord
      /\ q.target = c.target /\ q.phase = c.phase /\ q.lease = c.lease
      /\ q.result = c.result /\ q.cancellationRequested = c.cancellationRequested
      /\ q.operationTimeout = c.operationTimeout /\ q.execution = c.execution
      /\ q.busyConflicts = c.busyConflicts /\ q.reconciling = c.reconciling
      /\ q.process = c.process /\ q.run = "done" /\ q.draining = c.draining
      /\ q.published = c.published
  BY <1>3 DEF SessionRecord
<1>5. record' = [record EXCEPT ![o] = q]
  BY DEF ResumeRun, c
<1> HIDE DEF q
<1>6. RecordInv(q)
  BY <1>3, <1>4 DEF RecordInv, LeaseInv, ProcessInv, AttemptInv, KnownInv, Known
<1>7. Advances(r, q)
  BY <1>2, <1>3, <1>4, <1>6 DEF Advances, Evolves, Keeps, Persists
<1>8. QED
  BY <1>5, <1>7, OneRecordStep DEF Advances, ResumeRun

LEMMA OperationTimesOutStep ==
    ASSUME IInv, NEW o \in Ops, OperationTimesOut(o)
    PROVE  IInv' /\ AllSteady
<1> DEFINE r == record[o]
           c == [r EXCEPT !.operationTimeout = FALSE, !.timedOut = TRUE]
           f == RequestCancellation(c)
           m == [f EXCEPT !.execution = "timed_out"]
           q == IF f.execution # "none" THEN f ELSE ReconcileUnlessKnown(m)
<1>1. r \in SessionRecord /\ RecordInv(r) /\ r.operationTimeout
  BY RecordFacts DEF OperationTimesOut
<1>2. r.phase # "unissued" /\ r.result = "none" /\ r.process # "unstarted"
  BY <1>1 DEF RecordInv, LeaseInv, ProcessInv
<1>3. /\ c \in SessionRecord
      /\ c.target = r.target /\ c.phase = r.phase /\ c.lease = r.lease
      /\ c.result = r.result /\ c.cancellationRequested = r.cancellationRequested
      /\ c.operationTimeout = FALSE /\ c.execution = r.execution
      /\ c.busyConflicts = r.busyConflicts /\ c.reconciling = r.reconciling
      /\ c.process = r.process /\ c.run = r.run /\ c.draining = r.draining
      /\ c.published = r.published
  BY <1>1 DEF SessionRecord
<1>4. RecordInv(c)
  <2> HIDE DEF c, r
  <2>1. QED
    BY <1>1, <1>3 DEF RecordInv, LeaseInv, ProcessInv, AttemptInv, KnownInv, Known
<1>5. f \in SessionRecord /\ RecordInv(f) /\ Keeps(c, f) /\ f.cancellationRequested
  BY <1>2, <1>3, <1>4, RequestCancellationKeeps
<1>6. record' = [record EXCEPT ![o] = q]
  BY DEF OperationTimesOut
<1> HIDE DEF c, f, r
<1>7. CASE f.execution # "none"
  <2>1. Advances(r, q)
    BY <1>1, <1>2, <1>3, <1>5, <1>7 DEF Advances, Evolves, Keeps, Persists
  <2> HIDE DEF q
  <2>2. QED
    BY <1>6, <2>1, OneRecordStep DEF Advances, OperationTimesOut, r
<1>8. CASE f.execution = "none"
  <2>1. /\ m \in SessionRecord
        /\ m.target = f.target /\ m.phase = f.phase /\ m.lease = f.lease
        /\ m.result = f.result /\ m.cancellationRequested = f.cancellationRequested
        /\ m.operationTimeout = f.operationTimeout /\ m.execution = "timed_out"
        /\ m.busyConflicts = f.busyConflicts /\ m.reconciling = f.reconciling
        /\ m.process = f.process /\ m.run = f.run /\ m.draining = f.draining
        /\ m.published = f.published
    BY <1>5 DEF SessionRecord, Execution
  <2> HIDE DEF m
  <2>2. m.process # "unstarted" /\ m.phase # "unissued"
    BY <1>2, <1>3, <1>5, <2>1 DEF Keeps, Persists
  <2>3. RecordInv(m)
    BY <1>5, <1>8, <2>1, <2>2
       DEF RecordInv, LeaseInv, ProcessInv, AttemptInv, KnownInv, Known
  <2>4. q \in SessionRecord /\ RecordInv(q) /\ Keeps(m, q)
    BY <1>8, <2>1, <2>2, <2>3, ReconcileUnlessKnownKeeps
  <2> HIDE DEF q
  <2>5. Advances(r, q)
    BY <1>1, <1>2, <1>3, <1>5, <2>1, <2>4 DEF Advances, Evolves, Keeps, Persists
  <2>6. QED
    BY <1>6, <2>5, OneRecordStep DEF Advances, OperationTimesOut, r
<1>9. QED
  BY <1>7, <1>8

LEMMA CancelStep ==
    ASSUME IInv, NEW o \in Ops, Cancel(o) \/ Recover(o)
    PROVE  IInv' /\ AllSteady
<1> DEFINE r == record[o]
<1>1. r \in SessionRecord /\ RecordInv(r) /\ r.phase # "unissued"
  BY RecordFacts DEF IInv, StoreInv, Cancel, Recover
<1>2. CASE Cancel(o)
  <2> DEFINE q == RequestCancellation(r)
  <2>1. Advances(r, q)
    BY <1>1, RequestCancellationKeeps DEF Advances, Evolves, Keeps
  <2>2. record' = [record EXCEPT ![o] = q]
    BY <1>2 DEF Cancel
  <2> HIDE DEF q
  <2>3. QED
    BY <1>2, <2>1, <2>2, OneRecordStep DEF Advances, Cancel
<1>3. CASE Recover(o)
  <2> DEFINE q == Reconcile(r)
  <2>1. ~Known(r) /\ (r.busyConflicts \/ r.execution # "none")
    BY <1>1, <1>3 DEF Recover, RecordInv, AttemptInv, Known
  <2>2. Advances(r, q)
    BY <1>1, <2>1, ReconcileKeeps DEF Advances, Evolves, Keeps
  <2>3. record' = [record EXCEPT ![o] = q]
    BY <1>3 DEF Recover
  <2> HIDE DEF q
  <2>4. QED
    BY <1>3, <2>2, <2>3, OneRecordStep DEF Advances, Recover
<1>4. QED
  BY <1>2, <1>3

LEMMA StartAttemptStep ==
    ASSUME IInv, NEW o \in Ops, StartAttempt(o)
    PROVE  IInv' /\ AllSteady
<1> DEFINE r == record[o]
           a == IF r.busyConflicts THEN "busy" ELSE r.execution
           q == [r EXCEPT !.reconciling = a]
<1>1. r \in SessionRecord /\ RecordInv(r) /\ r.reconciling = "scheduled"
  BY RecordFacts DEF StartAttempt
<1>2. r.phase # "unissued" /\ ~Known(r) /\ (r.busyConflicts \/ r.execution # "none")
  BY <1>1 DEF RecordInv, LeaseInv, AttemptInv, KnownInv
<1>3. a \in {"busy", "timed_out", "ended"}
  BY <1>1, <1>2 DEF SessionRecord, Execution
<1>4. (a = "busy" <=> r.busyConflicts) /\ (a # "busy" => a = r.execution)
  BY <1>1 DEF SessionRecord, Execution
<1>5. record' = [record EXCEPT ![o] = q]
  <2>1. record' = [record EXCEPT ![o].reconciling = a]
    BY DEF StartAttempt
  <2>2. QED
    BY <2>1
<1> HIDE DEF a
<1>6. /\ q \in SessionRecord
      /\ q.target = r.target /\ q.phase = r.phase /\ q.lease = r.lease
      /\ q.result = r.result /\ q.cancellationRequested = r.cancellationRequested
      /\ q.operationTimeout = r.operationTimeout /\ q.execution = r.execution
      /\ q.busyConflicts = r.busyConflicts /\ q.reconciling = a
      /\ q.process = r.process /\ q.run = r.run /\ q.draining = r.draining
      /\ q.published = r.published
  BY <1>1, <1>3 DEF SessionRecord, Attempt
<1> HIDE DEF q
<1>7. RecordInv(q)
  BY <1>1, <1>2, <1>3, <1>4, <1>6
     DEF RecordInv, LeaseInv, ProcessInv, AttemptInv, KnownInv, Known
<1>8. Advances(r, q)
  BY <1>2, <1>6, <1>7 DEF Advances, Evolves, Keeps, Persists
<1>9. QED
  BY <1>5, <1>8, OneRecordStep DEF Advances, StartAttempt

-----------------------------------------------------------------------------
(* Closing.                                                                *)

LEMMA PublishKeeps ==
    ASSUME NEW r \in SessionRecord, RecordInv(r), r.phase # "unissued"
    PROVE  LET q == Publish(r)
           IN  q \in SessionRecord /\ RecordInv(q) /\ Keeps(r, q)
<1> DEFINE q == Publish(r)
<1>1. SameButPublished(r, q)
  BY PublishFacts
<1> HIDE DEF q
<1>2. QED
  BY <1>1 DEF q, SameButPublished, RecordInv, LeaseInv, ProcessInv, AttemptInv,
              KnownInv, Known, RetryAllowed, Keeps, Persists

(* What close() does to one record.                                        *)
LEMMA DrainAllAdvances ==
    ASSUME IInv, NEW o \in Ops
    PROVE  LET q == DrainAll(record)[o]
           IN  /\ q = record[o] \/ Advances(record[o], q)
               /\ q.process = "running" => q.cancellationRequested
<1> DEFINE r == record[o]
<1>1. r \in SessionRecord /\ RecordInv(r)
  BY RecordFacts
<1>2. CASE o \in operations /\ ~KnownTerminal(r)
  <2>1. r.phase # "unissued"
    BY <1>2 DEF IInv, StoreInv
  <2>2. ~Known(r)
    BY <1>1, <1>2, <2>1 DEF RecordInv, LeaseInv, KnownInv, KnownTerminal
  <2>3. DrainAll(record)[o] = BeginDrain(r)
    BY <1>2 DEF DrainAll
  <2>4. QED
    BY <1>1, <2>1, <2>2, <2>3, BeginDrainKeeps DEF Advances, Evolves, Keeps
<1>3. CASE ~(o \in operations /\ ~KnownTerminal(r))
  <2>1. DrainAll(record)[o] = r
    BY <1>3 DEF DrainAll
  <2>2. r.process # "running"
    <3>1. CASE o \notin operations
      BY <1>1, <3>1 DEF IInv, StoreInv, RecordInv, LeaseInv, KnownInv
    <3>2. CASE KnownTerminal(r)
      BY <1>1, <3>2 DEF RecordInv, KnownInv, KnownTerminal
    <3>3. QED
      BY <1>3, <3>1, <3>2
  <2>3. QED
    BY <2>1, <2>2
<1>4. QED
  BY <1>2, <1>3

LEMMA DrainAllType ==
    ASSUME IInv
    PROVE  DrainAll(record) \in [Ops -> SessionRecord]
<1>1. \A o \in Ops : DrainAll(record)[o] \in SessionRecord
  BY DrainAllAdvances, RecordFacts DEF Advances, Evolves
<1>2. QED
  BY <1>1 DEF DrainAll

LEMMA CloseStep ==
    ASSUME IInv, Close
    PROVE  IInv' /\ AllSteady
<1>1. record' = DrainAll(record)
  BY DEF Close
<1>2. \A o \in Ops : /\ record'[o] = record[o] \/ Advances(record[o], record'[o])
                     /\ record'[o].process = "running" => record'[o].cancellationRequested
  BY <1>1, DrainAllAdvances
<1>3. record' \in [Ops -> SessionRecord]
  BY <1>1, DrainAllType
<1>4. QED
  BY <1>2, <1>3, EvolveStep DEF Close, Advances, AllSteady, SteadyBut

LEMMA CloseDrainedStep ==
    ASSUME IInv, CloseDrained
    PROVE  IInv' /\ AllSteady
<1>1. \A o \in Ops : record'[o].process = "running" => record'[o].cancellationRequested
  BY DEF CloseDrained, IInv, ClosingAbortsProcesses, Running
<1>2. QED
  BY <1>1, EvolveStep DEF CloseDrained, IInv, TypeOK, AllSteady, SteadyBut

LEMMA CloseTimesOutStep ==
    ASSUME IInv, CloseTimesOut
    PROVE  IInv' /\ AllSteady
<1>1. ASSUME NEW o \in Ops, o \in Draining
      PROVE  Advances(record[o], record'[o])
  <2> DEFINE r == record[o]
             c == [r EXCEPT !.timedOut = TRUE]
             f == RequestCancellation(c)
             q == Publish(f)
  <2>1. r \in SessionRecord /\ RecordInv(r) /\ r.draining
    BY <1>1, RecordFacts DEF Draining
  <2>2. r.phase # "unissued"
    BY <2>1 DEF RecordInv, LeaseInv
  <2>3. /\ c \in SessionRecord
        /\ c.target = r.target /\ c.phase = r.phase /\ c.lease = r.lease
        /\ c.result = r.result /\ c.cancellationRequested = r.cancellationRequested
        /\ c.operationTimeout = r.operationTimeout /\ c.execution = r.execution
        /\ c.busyConflicts = r.busyConflicts /\ c.reconciling = r.reconciling
        /\ c.process = r.process /\ c.run = r.run /\ c.draining = r.draining
        /\ c.published = r.published
    BY <2>1 DEF SessionRecord
  <2>4. RecordInv(c)
    <3> HIDE DEF c, r
    <3>1. QED
      BY <2>1, <2>3 DEF RecordInv, LeaseInv, ProcessInv, AttemptInv, KnownInv, Known
  <2>5. f \in SessionRecord /\ RecordInv(f) /\ Keeps(c, f)
    BY <2>2, <2>3, <2>4, RequestCancellationKeeps
  <2>6. q \in SessionRecord /\ RecordInv(q) /\ Keeps(f, q)
    BY <2>5, PublishKeeps DEF Keeps, Persists
  <2>7. record'[o] = q
    BY <1>1 DEF CloseTimesOut
  <2> HIDE DEF c, f, q, r
  <2>8. Advances(r, q)
    BY <2>2, <2>3, <2>5, <2>6 DEF Advances, Evolves, Keeps, Persists
  <2>9. QED
    BY <2>7, <2>8 DEF r
<1>2. \A o \in Ops : record'[o] = record[o] \/ Advances(record[o], record'[o])
  BY <1>1 DEF CloseTimesOut
<1>3. record' \in [Ops -> SessionRecord]
  <2>1. \A o \in Ops : record'[o] \in SessionRecord
    BY <1>2, RecordFacts DEF Advances, Evolves
  <2>2. DOMAIN record' = Ops /\ record' = [o \in Ops |-> record'[o]]
    BY DEF CloseTimesOut
  <2>3. QED
    BY <2>1, <2>2
<1>4. \A o \in Ops : record'[o].process = "running" => record'[o].cancellationRequested
  BY <1>2 DEF CloseTimesOut, IInv, ClosingAbortsProcesses, Running, Advances, Evolves, Keeps, Persists
<1>5. storeState' \in {"open", "closing", "closed"}
      /\ UNCHANGED <<operations, knownTerminals>>
  BY DEF CloseTimesOut
<1>6. QED
  BY <1>2, <1>3, <1>4, <1>5, EvolveStep DEF Advances, AllSteady, SteadyBut

-----------------------------------------------------------------------------
(* Settling, and what retention forgets.                                   *)

(* Retention forgets nothing outside K, a set that holds the retained      *)
(* operations and the one just settled if its result is known.             *)
LEMMA RetainFacts ==
    ASSUME NEW o \in Ops, NEW r, NEW K \in SUBSET Ops,
           knownTerminals \in Seq(Ops), Len(knownTerminals) <= TerminalRetention,
           \A i \in DOMAIN knownTerminals : knownTerminals[i] \in K,
           KnownTerminal(r) => o \in K,
           RetainTerminal(o, r)
    PROVE  /\ knownTerminals' \in Seq(Ops)
           /\ Len(knownTerminals') <= TerminalRetention
           /\ \A i \in DOMAIN knownTerminals' : knownTerminals'[i] \in K
           /\ operations' \subseteq operations \cup {o}
           /\ (operations \cup {o}) \ K \subseteq operations'
<1> DEFINE retained == IF KnownTerminal(r) THEN Append(knownTerminals, o)
                       ELSE knownTerminals
<1>1. retained \in Seq(K)
  <2>1. knownTerminals \in Seq(K)
    OBVIOUS
  <2>2. QED
    BY <2>1
<1>2. Len(retained) <= TerminalRetention + 1
  BY SessionAssumption
<1>3. \/ /\ Len(retained) <= TerminalRetention
         /\ knownTerminals' = retained
         /\ operations' = operations \cup {o}
      \/ /\ Len(retained) > TerminalRetention
         /\ knownTerminals' = Tail(retained)
         /\ operations' = (operations \cup {o}) \ {Head(retained)}
  BY <1>1, SessionAssumption DEF RetainTerminal
<1> HIDE DEF retained
<1>4. CASE Len(retained) <= TerminalRetention
  BY <1>1, <1>3, <1>4, SessionAssumption
<1>5. CASE Len(retained) > TerminalRetention
  <2>1. retained # <<>>
    BY <1>5, SessionAssumption
  <2>2. Head(retained) \in K /\ Tail(retained) \in Seq(K)
        /\ Len(Tail(retained)) = Len(retained) - 1
    BY <1>1, <2>1
  <2>3. knownTerminals' = Tail(retained)
        /\ operations' = (operations \cup {o}) \ {Head(retained)}
    BY <1>1, <1>3, <1>5, SessionAssumption
  <2>4. Tail(retained) \in Seq(Ops)
    BY <2>2
  <2>5. QED
    BY <1>1, <1>2, <2>2, <2>3, <2>4, SessionAssumption
<1>6. QED
  BY <1>1, <1>4, <1>5, SessionAssumption

(* A step that settles o, while the others stay or advance.                *)
LEMMA SettleStep ==
    ASSUME IInv, NEW o \in Ops,
           record' \in [Ops -> SessionRecord],
           \A p \in Ops \ {o} : \/ record'[p] = record[p]
                                \/ Advances(record[p], record'[p]),
           ~Known(record[o]),
           RecordInv(record'[o]), record'[o].phase = "terminal",
           Holding(o)' => Holding(o) /\ record'[o].target = record[o].target,
           RetainTerminal(o, record'[o]),
           storeState' \in {"open", "closing", "closed"},
           storeState' # "open" =>
               \A p \in Ops : record'[p].process = "running" =>
                                  record'[p].cancellationRequested
    PROVE  IInv'
<1>1. \A p \in Ops \ {o} :  /\ record'[p].lease = record[p].lease
                            /\ record'[p].result = record[p].result
                            /\ record[p].phase # "unissued" => record'[p].phase # "unissued"
  BY DEF Advances, Evolves, Keeps, Persists
<1>2. \A p \in Ops : RecordInv(record'[p])
  BY DEF IInv, Advances, Evolves
<1> DEFINE K == {p \in Ops : Known(record'[p])}
<1>3. /\ knownTerminals' \in Seq(Ops)
      /\ Len(knownTerminals') <= TerminalRetention
      /\ \A i \in DOMAIN knownTerminals' : knownTerminals'[i] \in K
      /\ operations' \subseteq operations \cup {o}
      /\ (operations \cup {o}) \ K \subseteq operations'
  <2>1. \A i \in DOMAIN knownTerminals : knownTerminals[i] \in K
    <3> SUFFICES ASSUME NEW i \in DOMAIN knownTerminals
                 PROVE  knownTerminals[i] \in K
      OBVIOUS
    <3>1. knownTerminals[i] \in Ops /\ Known(record[knownTerminals[i]])
      BY DEF IInv, TypeOK, StoreInv
    <3>2. knownTerminals[i] # o
      BY <3>1
    <3>3. QED
      BY <1>1, <3>1, <3>2 DEF Known
  <2>2. KnownTerminal(record'[o]) => o \in K
    BY DEF KnownTerminal
  <2>3. K \in SUBSET Ops
    OBVIOUS
  <2>4. knownTerminals \in Seq(Ops) /\ Len(knownTerminals) <= TerminalRetention
    BY DEF IInv, TypeOK, StoreInv
  <2> HIDE DEF K
  <2>5. QED
    BY <2>1, <2>2, <2>3, <2>4, RetainFacts
<1>4. TypeOK'
  BY <1>3 DEF IInv, TypeOK
<1>5. StoreInv'
  <2>1. ASSUME NEW p \in Ops, record'[p].lease
        PROVE  p \in operations'
    <3>1. ~Known(record'[p])
      BY <1>2, <2>1 DEF RecordInv, LeaseInv, Known
    <3>2. p \in operations \cup {o}
      BY <1>1, <2>1 DEF IInv, StoreInv
    <3>3. QED
      BY <1>3, <3>1, <3>2
  <2>2. \A p \in operations' : record'[p].phase # "unissued"
    BY <1>1, <1>3 DEF IInv, TypeOK, StoreInv
  <2>3. \A i \in DOMAIN knownTerminals' : Known(record'[knownTerminals'[i]])
    BY <1>3
  <2>4. QED
    BY <1>3, <2>1, <2>2, <2>3 DEF StoreInv, Known
<1>6. HoldersInv'
  <2>1. \A p \in Ops : Holding(p)' => Holding(p) /\ record'[p].target = record[p].target
    BY DEF Holding, Advances, Evolves, Keeps, Persists
  <2>2. QED
    BY <2>1 DEF IInv, HoldersInv
<1>7. ClosingAbortsProcesses'
  BY DEF ClosingAbortsProcesses, Running
<1>8. QED
  BY <1>2, <1>4, <1>5, <1>6, <1>7 DEF IInv

LEMMA FinishAttemptStep ==
    ASSUME IInv, NEW o \in Ops, FinishAttempt(o)
    PROVE  IInv' /\ SteadyBut({o}) /\ Answered(o)
<1> DEFINE r == record[o]
<1>1. r \in SessionRecord /\ RecordInv(r)
      /\ r.reconciling \in {"busy", "timed_out", "ended"}
  BY RecordFacts DEF FinishAttempt
<1>2. r.phase # "unissued" /\ ~Known(r) /\ (r.busyConflicts \/ r.execution # "none")
  BY <1>1 DEF RecordInv, LeaseInv, AttemptInv, KnownInv
<1>3. PICK result \in Outcomes(r.reconciling) :
          /\ record' = [record EXCEPT ![o] = Settle(r, result)]
          /\ RetainTerminal(o, Settle(r, result))
  BY DEF FinishAttempt
<1>4. result \in {"rejected", "known", "unknown_outcome"}
  BY <1>1, <1>3 DEF Outcomes
<1>5. result # "unknown_outcome" => r.process # "running"
  <2>1. result # "unknown_outcome" => r.reconciling \in {"busy", "ended"}
    BY <1>1, <1>3 DEF Outcomes
  <2>2. QED
    BY <1>1, <2>1 DEF RecordInv, ProcessInv, AttemptInv
<1> DEFINE q == Settle(r, result)
<1>6. SettleEffect(r, result, q)
  BY <1>1, <1>2, <1>4, <1>5, SettleFacts
<1> HIDE DEF q
<1>7. record' = [record EXCEPT ![o] = q] /\ RetainTerminal(o, q)
  BY <1>3 DEF q
<1>8. /\ record' \in [Ops -> SessionRecord] /\ record'[o] = q
      /\ \A p \in Ops \ {o} : record'[p] = record[p]
  BY <1>6, <1>7 DEF IInv, TypeOK, SettleEffect
<1>9. Holding(o)' => Holding(o) /\ record'[o].target = record[o].target
  BY <1>1, <1>2, <1>6, <1>8 DEF Holding, SettleEffect, RecordInv, LeaseInv
<1>10. storeState' \in {"open", "closing", "closed"}
       /\ (storeState' # "open" =>
               \A p \in Ops : record'[p].process = "running" =>
                                  record'[p].cancellationRequested)
  BY <1>6, <1>8 DEF FinishAttempt, IInv, TypeOK, ClosingAbortsProcesses, Running,
                    SettleEffect
<1>11. RecordInv(record'[o]) /\ record'[o].phase = "terminal" /\ ~Known(record[o])
       /\ RetainTerminal(o, record'[o])
  BY <1>2, <1>6, <1>7, <1>8 DEF SettleEffect
<1>12. SteadyBut({o}) /\ Answered(o)
  BY <1>1, <1>2, <1>4, <1>5, <1>6, <1>8
     DEF SteadyBut, Answered, SettleEffect, RecordInv, LeaseInv
<1> HIDE DEF r
<1>13. QED
  BY <1>8, <1>9, <1>10, <1>11, <1>12, SettleStep

-----------------------------------------------------------------------------
(* Dispatching.                                                            *)

(* A record that is not issued has no result, and is not retained.         *)
LEMMA UnissuedFacts ==
    ASSUME IInv, NEW o \in Ops, record[o].phase = "unissued"
    PROVE  /\ ~Known(record[o]) /\ ~Holding(o) /\ o \notin operations
           /\ \A i \in DOMAIN knownTerminals : knownTerminals[i] # o
<1>1. ~record[o].lease /\ ~Known(record[o])
  BY RecordFacts DEF RecordInv, LeaseInv, Known
<1>2. QED
  BY <1>1 DEF IInv, StoreInv, Holding

(* Issuing o: it may hold claims only if no holder conflicts with it.      *)
LEMMA IssueStep ==
    ASSUME IInv, NEW o \in Ops, record[o].phase = "unissued",
           record' \in [Ops -> SessionRecord],
           \A p \in Ops \ {o} : \/ record'[p] = record[p]
                                \/ Advances(record[p], record'[p]),
           RecordInv(record'[o]), record'[o].phase # "unissued",
           Holding(o)' => \A p \in Ops : Holding(p) =>
                              ~Conflicts(record[p].target, record'[o].target),
           operations' = operations \cup {o}, UNCHANGED knownTerminals,
           storeState' = "open"
    PROVE  IInv'
<1>1. \A p \in Ops \ {o} :  /\ record'[p].lease = record[p].lease
                            /\ record'[p].result = record[p].result
                            /\ record[p].phase # "unissued" => record'[p].phase # "unissued"
                            /\ Holding(p)' => Holding(p)
                            /\ record'[p].target = record[p].target
  BY DEF Advances, Evolves, Keeps, Persists, Holding
<1>2. \A p \in Ops : RecordInv(record'[p])
  BY DEF IInv, Advances, Evolves
<1>3. TypeOK'
  BY DEF IInv, TypeOK
<1>4. StoreInv'
  <2>1. \A p \in Ops : record'[p].lease => p \in operations'
    BY <1>1 DEF IInv, StoreInv
  <2>2. \A p \in operations' : record'[p].phase # "unissued"
    BY <1>1 DEF IInv, TypeOK, StoreInv
  <2>3. ASSUME NEW i \in DOMAIN knownTerminals
        PROVE  Known(record'[knownTerminals[i]])
    <3>1. knownTerminals[i] \in Ops /\ Known(record[knownTerminals[i]])
      BY DEF IInv, TypeOK, StoreInv
    <3>2. knownTerminals[i] # o
      BY UnissuedFacts
    <3>3. QED
      BY <1>1, <3>1, <3>2 DEF Known
  <2>4. QED
    BY <2>1, <2>2, <2>3 DEF IInv, StoreInv, Known
<1>5. HoldersInv'
  <2> SUFFICES ASSUME NEW a \in Ops, NEW b \in Ops, a # b, Holding(a)', Holding(b)'
               PROVE  ~Conflicts(record'[a].target, record'[b].target)
    BY DEF HoldersInv
  <2>1. CASE a = o
    BY <1>1, <2>1, ConflictsIsSymmetric
  <2>2. CASE b = o
    BY <1>1, <2>2
  <2>3. CASE a # o /\ b # o
    BY <1>1, <2>3 DEF IInv, HoldersInv
  <2>4. QED
    BY <2>1, <2>2, <2>3
<1>6. ClosingAbortsProcesses'
  BY DEF ClosingAbortsProcesses
<1>7. QED
  BY <1>2, <1>3, <1>4, <1>5, <1>6 DEF IInv

(* A holder of claims has a lease the store knows.                         *)
LEMMA HoldersAreLeased ==
    ASSUME IInv, NEW t, NEW p \in Ops, Holding(p), p \notin ConflictsOf(t)
    PROVE  ~Conflicts(record[p].target, t)
  BY DEF IInv, StoreInv, Holding, ConflictsOf, Leased

LEMMA AdmitStep ==
    ASSUME IInv, NEW o \in Ops, NEW t \in Targets, Admit(o, t)
    PROVE  IInv' /\ SteadyBut({o}) /\ Admitted(o, t)
<1> DEFINE c == [NewRecord(t) EXCEPT !.operationTimeout = TRUE,
                                     !.process = "running",
                                     !.run = "executing"]
           q == Publish(c)
<1>1. /\ c \in SessionRecord
      /\ c.target = t /\ c.phase = "running" /\ c.lease = TRUE
      /\ c.result = "none" /\ c.cancellationRequested = FALSE
      /\ c.execution = "none" /\ c.busyConflicts = FALSE
      /\ c.reconciling = "none" /\ c.process = "running"
      /\ c.run = "executing" /\ c.draining = FALSE
      /\ c.published.retryAllowed = FALSE
  BY DEF NewRecord, SessionRecord, Unpublished, Summary, Phase, Result,
         Execution, Attempt
<1>2. record' = [record EXCEPT ![o] = q]
  BY DEF Admit
<1> HIDE DEF c
<1>3. SameButPublished(c, q)
  BY <1>1, PublishFacts
<1> HIDE DEF q
<1>4. q \in SessionRecord /\ RecordInv(q) /\ q.phase = "running" /\ q.target = t
  BY <1>1, <1>3 DEF SameButPublished, RecordInv, LeaseInv, ProcessInv, AttemptInv,
                    KnownInv, Known, RetryAllowed
<1>5. /\ record' \in [Ops -> SessionRecord] /\ record'[o] = q
      /\ \A p \in Ops \ {o} : record'[p] = record[p]
  BY <1>2, <1>4 DEF IInv, TypeOK
<1>6. \A p \in Ops : Holding(p) => ~Conflicts(record[p].target, record'[o].target)
  BY <1>4, <1>5, HoldersAreLeased DEF Admit
<1>7. SteadyBut({o}) /\ Admitted(o, t)
  BY <1>1, <1>3, <1>4, <1>5 DEF SteadyBut, Admitted, SameButPublished
<1>8. QED
  BY <1>4, <1>5, <1>6, <1>7, IssueStep DEF Admit

LEMMA RejectBusyStep ==
    ASSUME IInv, NEW o \in Ops, NEW t \in Targets, RejectBusy(o, t)
    PROVE  IInv' /\ SteadyBut({o}) /\ Refused(o, t)
<1> DEFINE c == [NewRecord(t) EXCEPT !.busyConflicts = TRUE]
           q == Reconcile(c)
<1>1. /\ c \in SessionRecord
      /\ c.target = t /\ c.phase = "running" /\ c.lease = TRUE
      /\ c.result = "none" /\ c.cancellationRequested = FALSE
      /\ c.operationTimeout = FALSE
      /\ c.execution = "none" /\ c.busyConflicts = TRUE
      /\ c.reconciling = "none" /\ c.process = "unstarted"
      /\ c.run = "idle" /\ c.draining = FALSE
      /\ c.published.retryAllowed = FALSE
  BY DEF NewRecord, SessionRecord, Unpublished, Summary, Phase, Result,
         Execution, Attempt
<1> HIDE DEF c
<1>2. RecordInv(c) /\ ~Known(c)
  BY <1>1 DEF RecordInv, LeaseInv, ProcessInv, AttemptInv, KnownInv, Known
<1>3. q \in SessionRecord /\ RecordInv(q) /\ Keeps(c, q)
  BY <1>1, <1>2, ReconcileKeeps
<1>4. record'[o] = q
  BY DEF RejectBusy, c
<1> HIDE DEF q
<1>5. ASSUME NEW p \in Ops \ {o}
      PROVE  record'[p] = record[p] \/ Advances(record[p], record'[p])
  <2>1. CASE p \in ConflictsOf(t) /\ record[p].result = "unknown_outcome"
    <3>1. record'[p] = ReconcileUnlessKnown(record[p])
      BY <2>1 DEF RejectBusy
    <3>2. record[p] \in SessionRecord /\ RecordInv(record[p])
      BY RecordFacts
    <3>3. record[p].phase # "unissued"
      BY <2>1 DEF IInv, StoreInv, ConflictsOf, Leased
    <3>4. QED
      BY <3>1, <3>2, <3>3, ReconcileUnlessKnownKeeps DEF Advances, Evolves, Keeps
  <2>2. CASE ~(p \in ConflictsOf(t) /\ record[p].result = "unknown_outcome")
    BY <2>2 DEF RejectBusy
  <2>3. QED
    BY <2>1, <2>2
<1>6. record' \in [Ops -> SessionRecord]
  <2>1. \A p \in Ops : record'[p] \in SessionRecord
    BY <1>3, <1>4, <1>5, RecordFacts DEF Advances, Evolves
  <2>2. record' = [p \in Ops |-> record'[p]]
    BY DEF RejectBusy
  <2>3. QED
    BY <2>1, <2>2
<1>7. ~Holding(o)' /\ record'[o].phase # "unissued"
  BY <1>1, <1>3, <1>4 DEF Holding, Keeps, Persists
<1>8. SteadyBut({o}) /\ Refused(o, t)
  BY <1>1, <1>3, <1>4, <1>5, <1>7 DEF SteadyBut, Refused, Keeps, Persists
<1>9. QED
  BY <1>3, <1>4, <1>5, <1>6, <1>7, <1>8, IssueStep DEF RejectBusy

LEMMA AdmitInterruptedStep ==
    ASSUME IInv, NEW o \in Ops, NEW t \in Targets, AdmitInterrupted(o, t)
    PROVE  IInv' /\ SteadyBut({o}) /\ Refused(o, t)
<1> DEFINE n == NewRecord(t)
           d == BeginDrain(n)
           q == Settle(d, "rejected")
<1>1. /\ n \in SessionRecord
      /\ n.target = t /\ n.phase = "running" /\ n.lease = TRUE
      /\ n.result = "none" /\ n.cancellationRequested = FALSE
      /\ n.operationTimeout = FALSE
      /\ n.execution = "none" /\ n.busyConflicts = FALSE
      /\ n.reconciling = "none" /\ n.process = "unstarted"
      /\ n.run = "idle" /\ n.draining = FALSE
      /\ n.published.retryAllowed = FALSE
  BY NewRecordType DEF NewRecord, Unpublished
<1>2. /\ record' = [DrainAll(record) EXCEPT ![o] = q]
      /\ RetainTerminal(o, q)
  BY DEF AdmitInterrupted
<1> HIDE DEF n
<1>3. RecordInv(n) /\ ~Known(n)
  BY <1>1 DEF RecordInv, LeaseInv, ProcessInv, AttemptInv, KnownInv, Known
<1>4. d \in SessionRecord /\ RecordInv(d) /\ Keeps(n, d)
  BY <1>1, <1>3, BeginDrainKeeps
<1> HIDE DEF d
<1>5. ~Known(d) /\ d.phase # "unissued" /\ d.process = "unstarted"
  BY <1>1, <1>3, <1>4 DEF Keeps, Persists, Known, SessionRecord
<1>6. SettleEffect(d, "rejected", q)
  BY <1>4, <1>5, SettleFacts
<1> HIDE DEF q
<1>7. DrainAll(record) \in [Ops -> SessionRecord]
  BY DrainAllType
<1>8. /\ record' \in [Ops -> SessionRecord] /\ record'[o] = q
      /\ \A p \in Ops \ {o} : record'[p] = DrainAll(record)[p]
  BY <1>2, <1>6, <1>7 DEF SettleEffect
<1>9. \A p \in Ops \ {o} : \/ record'[p] = record[p]
                           \/ Advances(record[p], record'[p])
  BY <1>8, DrainAllAdvances
<1>10. ~Holding(o)' /\ q.process = "unstarted"
  BY <1>5, <1>6, <1>8 DEF Holding, SettleEffect
<1>11. \A p \in Ops : record'[p].process = "running" => record'[p].cancellationRequested
  BY <1>8, <1>10, DrainAllAdvances
<1>12. ~Known(record[o])
  BY UnissuedFacts DEF AdmitInterrupted
<1>13. RecordInv(record'[o]) /\ record'[o].phase = "terminal"
       /\ RetainTerminal(o, record'[o])
  BY <1>2, <1>6, <1>8 DEF SettleEffect
<1>14. storeState' = "closing"
  BY DEF AdmitInterrupted
<1>15. SteadyBut({o}) /\ Refused(o, t)
  BY <1>1, <1>4, <1>6, <1>8, <1>9, <1>10, <1>13
     DEF SteadyBut, Refused, SettleEffect, Keeps, Persists
<1>16. QED
  BY <1>8, <1>9, <1>10, <1>11, <1>12, <1>13, <1>14, <1>15, SettleStep

-----------------------------------------------------------------------------
(* The theorems.                                                           *)

LEMMA NextIInv ==
    ASSUME IInv, [Next]_vars
    PROVE  IInv'
<1>1. CASE UNCHANGED vars
  BY <1>1 DEF vars, IInv, TypeOK, StoreInv, HoldersInv, Holding,
              ClosingAbortsProcesses, Running
<1>2. ASSUME NEW o \in Ops, NEW t \in Targets,
             Admit(o, t) \/ RejectBusy(o, t) \/ AdmitInterrupted(o, t)
      PROVE  IInv'
  BY <1>2, AdmitStep, RejectBusyStep, AdmitInterruptedStep
<1>3. ASSUME NEW o \in Ops,
             \/ ProcessExits(o) \/ ResumeRun(o) \/ OperationTimesOut(o)
             \/ Cancel(o) \/ Recover(o)
             \/ StartAttempt(o) \/ FinishAttempt(o)
      PROVE  IInv'
  BY <1>3, ProcessExitsStep, ResumeRunStep, OperationTimesOutStep, CancelStep,
     StartAttemptStep, FinishAttemptStep
<1>4. CASE Close \/ CloseDrained \/ CloseTimesOut
  BY <1>4, CloseStep, CloseDrainedStep, CloseTimesOutStep
<1>5. QED
  BY <1>1, <1>2, <1>3, <1>4 DEF Next

(* The inductive invariant of the session (records, leases, processes,     *)
(* attempts and retention agree) holds in every reachable state.           *)
THEOREM Invariance == Spec => []IInv
<1>1. Init => IInv
  BY InitIInv
<1>2. IInv /\ [Next]_vars => IInv'
  BY NextIInv
<1>3. QED
  BY <1>1, <1>2, PTL DEF Spec

(* Every variable of the session has its type.                             *)
THEOREM TypeCorrect == Spec => []TypeOK
<1>1. IInv => TypeOK
  BY DEF IInv
<1>2. QED
  BY <1>1, Invariance, PTL

(* Git processes that run together never interfere but in a branch that    *)
(* one of them creates: no dispatch, timeout, unknown outcome, recovery or *)
(* close lets the claims of a running process go, and the claims cover     *)
(* whatever else its commands touch.                                       *)
THEOREM Exclusion == Spec => []NoInterference
<1>1. IInv => NoInterference
  <2> SUFFICES ASSUME IInv, NEW a \in Ops, NEW b \in Ops, a # b,
                      Running(a), Running(b)
               PROVE  ~InterferesInExisting(record[a].target, record[b].target)
    BY DEF NoInterference
  <2>1. \A o \in Ops : Running(o) => Holding(o)
    BY DEF Running, Holding, IInv, RecordInv, LeaseInv, KnownInv
  <2>2. ~Conflicts(record[a].target, record[b].target)
    BY <2>1 DEF IInv, HoldersInv
  <2>3. record[a].target \in CoordinatedTarget /\ record[b].target \in CoordinatedTarget
    BY SessionAssumption DEF IInv, TypeOK, SessionRecord
  <2>4. QED
    BY <2>2, <2>3, InterferenceConflicts
<1>2. QED
  BY <1>1, Invariance, PTL

(* Once close() was called every running process has been asked to stop.   *)
THEOREM ClosingAborts == Spec => []ClosingAbortsProcesses
<1>1. IInv => ClosingAbortsProcesses
  BY DEF IInv
<1>2. QED
  BY <1>1, Invariance, PTL

(* An operation is forgotten only with a known result.                     *)
THEOREM RetentionSafe == Spec => []RetentionKeepsUnresolved
<1>1. IInv => RetentionKeepsUnresolved
  BY DEF IInv, StoreInv, RecordInv, LeaseInv, RetentionKeepsUnresolved
<1>2. QED
  BY <1>1, Invariance, PTL

(* A published summary allows a retry only of a finished operation whose   *)
(* outcome is known.                                                       *)
THEOREM RetrySafe == Spec => []RetryAllowedIsSafe
<1>1. IInv => RetryAllowedIsSafe
  BY DEF IInv, RecordInv, LeaseInv, KnownInv, Running, RetryAllowedIsSafe
<1>2. QED
  BY <1>1, Invariance, PTL

(* What a step may do, seen from outside: one operation is admitted,       *)
(* refused, exits or gets an answer, or nothing a caller can tell happens. *)
LEMMA StepShape ==
    ASSUME IInv, Next
    PROVE  \/ AllSteady /\ (storeState' = "open" => storeState = "open")
           \/ \E o \in Ops, t \in Targets :
                 /\ SteadyBut({o}) /\ record[o].phase = "unissued"
                 /\ storeState = "open"
                 /\ \/ Admitted(o, t) /\ ConflictsOf(t) = {} /\ storeState' = storeState
                    \/ Refused(o, t)
           \/ \E o \in Ops : /\ SteadyBut({o}) /\ (Exited(o) \/ Answered(o))
                             /\ storeState' = storeState
<1>1. ASSUME NEW o \in Ops, NEW t \in Targets, Admit(o, t)
      PROVE  /\ SteadyBut({o}) /\ record[o].phase = "unissued"
             /\ storeState = "open" /\ storeState' = storeState
             /\ Admitted(o, t) /\ ConflictsOf(t) = {}
  BY <1>1, AdmitStep DEF Admit
<1>2. ASSUME NEW o \in Ops, NEW t \in Targets,
             RejectBusy(o, t) \/ AdmitInterrupted(o, t)
      PROVE  /\ SteadyBut({o}) /\ record[o].phase = "unissued"
             /\ storeState = "open" /\ Refused(o, t)
  BY <1>2, RejectBusyStep, AdmitInterruptedStep DEF RejectBusy, AdmitInterrupted
<1>3. ASSUME NEW o \in Ops, ProcessExits(o) \/ FinishAttempt(o)
      PROVE  /\ SteadyBut({o}) /\ (Exited(o) \/ Answered(o))
             /\ storeState' = storeState
  BY <1>3, ProcessExitsStep, FinishAttemptStep DEF ProcessExits, FinishAttempt
<1>4. ASSUME NEW o \in Ops,
             \/ ResumeRun(o) \/ OperationTimesOut(o) \/ Cancel(o) \/ Recover(o)
             \/ StartAttempt(o)
      PROVE  AllSteady /\ storeState' = storeState
  BY <1>4, ResumeRunStep, OperationTimesOutStep, CancelStep, StartAttemptStep
     DEF ResumeRun, OperationTimesOut, Cancel, Recover, StartAttempt
<1>5. CASE Close \/ CloseDrained \/ CloseTimesOut
  <2>1. AllSteady
    BY <1>5, CloseStep, CloseDrainedStep, CloseTimesOutStep
  <2>2. storeState' = "open" => storeState = "open"
    BY <1>5 DEF Close, CloseDrained, CloseTimesOut
  <2>3. QED
    BY <2>1, <2>2
<1>6. QED
  BY <1>1, <1>2, <1>3, <1>4, <1>5, Zenon DEF Next

(* A known result is final, whatever happens later: a late exit, a timer,  *)
(* cancel, recover or close neither changes it nor reopens the record.     *)
THEOREM ResultFinal == Spec => KnownResultIsFinal
<1> DEFINE Final == \A o \in Ops : Known(record[o]) =>
                       /\ record'[o].result = record[o].result
                       /\ record'[o].phase = "terminal"
                       /\ ~record'[o].lease
                       /\ record'[o].reconciling = "none"
<1>1. IInv /\ IInv' /\ [Next]_vars => [Final]_vars
  <2> SUFFICES ASSUME IInv, IInv', Next, NEW o \in Ops, Known(record[o])
               PROVE  /\ record'[o].result = record[o].result
                      /\ record'[o].phase = "terminal"
                      /\ ~record'[o].lease
                      /\ record'[o].reconciling = "none"
    OBVIOUS
  <2>1. record'[o] = record[o] \/ Advances(record[o], record'[o])
    <3>1. record[o].phase # "unissued"
      BY UnissuedFacts
    <3>2. ~Exited(o) /\ ~Answered(o)
      BY DEF Exited, Answered
    <3>3. QED
      BY <3>1, <3>2, StepShape DEF AllSteady, SteadyBut
  <2>2. record'[o].result = record[o].result
    BY <2>1 DEF Advances, Evolves, Persists
  <2>3. Known(record'[o]) /\ RecordInv(record'[o])
    BY <2>2 DEF Known, IInv
  <2>4. QED
    BY <2>2, <2>3 DEF RecordInv, LeaseInv, KnownInv
<1>2. QED
  BY <1>1, Invariance, PTL DEF Spec, KnownResultIsFinal

-----------------------------------------------------------------------------
(* Refinement of OperationContract.                                        *)

(* A record that stays or advances looks the same to the contract.         *)
LEMMA SteadyView ==
    ASSUME NEW p \in Ops, record'[p] = record[p] \/ Advances(record[p], record'[p])
    PROVE  /\ Status(p)' = Status(p) /\ Running(p)' = Running(p)
           /\ record'[p].target = record[p].target
  BY DEF Advances, Evolves, Persists, Status, Running

LEMMA ContractInit ==
    ASSUME Init
    PROVE  Contract!Init
<1>1. IInv
  BY InitIInv
<1>2. \A o \in Ops : record[o].phase = "unissued"
  <2>1. Unissued.phase = "unissued"
    BY DEF Unissued, NewRecord
  <2>2. QED
    BY <2>1 DEF Init
<1>3. \A o \in Ops : Status(o) = "new" /\ Running(o) = FALSE
  BY <1>1, <1>2 DEF Status, Running, IInv, RecordInv, LeaseInv
<1>4. \A o \in Ops : record[o].target \in Targets
  BY <1>1 DEF IInv, TypeOK, SessionRecord
<1>5. QED
  BY <1>3, <1>4 DEF Init, Contract!Init

(* Every step of the session is a step of the contract, or invisible.      *)
LEMMA ContractStep ==
    ASSUME IInv, IInv', [Next]_vars
    PROVE  [Contract!Next]_(Contract!vars)
<1>1. CASE UNCHANGED vars
  BY <1>1 DEF vars, Contract!vars, Status, Running
<1>2. CASE AllSteady /\ (storeState' = "open" => storeState = "open")
  <2>1. \A p \in Ops : /\ Status(p)' = Status(p) /\ Running(p)' = Running(p)
                       /\ record'[p].target = record[p].target
    BY <1>2, SteadyView DEF AllSteady, SteadyBut
  <2>2. QED
    BY <1>2, <2>1 DEF Contract!vars, Contract!Next, Contract!StopAccepting
<1>3. ASSUME NEW o \in Ops, NEW t \in Targets, SteadyBut({o}),
             record[o].phase = "unissued", storeState = "open",
             \/ Admitted(o, t) /\ ConflictsOf(t) = {} /\ storeState' = storeState
             \/ Refused(o, t)
      PROVE  Contract!Start(o, t) \/ Contract!Refuse(o, t)
  <2>1. \A p \in Ops \ {o} : /\ Status(p)' = Status(p) /\ Running(p)' = Running(p)
                             /\ record'[p].target = record[p].target
    BY <1>3, SteadyView DEF SteadyBut
  <2>2. Status(o) = "new" /\ Running(o) = FALSE
    BY <1>3 DEF Status, Running, IInv, RecordInv, LeaseInv
  <2>3. CASE Admitted(o, t) /\ ConflictsOf(t) = {} /\ storeState' = storeState
    <3>1. Status(o)' = "holding" /\ Running(o)' = TRUE /\ record'[o].target = t
      BY <2>3 DEF Admitted, Status, Running
    <3>2. ASSUME NEW p \in Ops, Status(p) = "holding"
          PROVE  ~InterferesInExisting(record[p].target, t)
      <4>1. Holding(p)
        BY <3>2 DEF Status, Holding
      <4>2. ~Conflicts(record[p].target, t)
        BY <2>3, <4>1, HoldersAreLeased
      <4>3. record[p].target \in CoordinatedTarget /\ t \in CoordinatedTarget
        BY SessionAssumption DEF IInv, TypeOK, SessionRecord
      <4>4. QED
        BY <4>2, <4>3, InterferenceConflicts
    <3>3. Contract!Start(o, t)
      BY <1>3, <2>1, <2>2, <2>3, <3>1, <3>2 DEF Contract!Start, Contract!Holders
    <3>4. QED
      BY <3>3
  <2>4. CASE Refused(o, t)
    <3>1. Status(o)' = "refused" /\ Running(o)' = FALSE /\ record'[o].target = t
      BY <2>4 DEF Refused, Status, Running
    <3>2. Contract!Refuse(o, t)
      BY <1>3, <2>1, <2>2, <3>1 DEF Contract!Refuse
    <3>3. QED
      BY <3>2
  <2>5. QED
    BY <1>3, <2>3, <2>4
<1>4. ASSUME NEW o \in Ops, SteadyBut({o}), Exited(o), storeState' = storeState
      PROVE  Contract!Stop(o)
  <2>1. \A p \in Ops \ {o} : /\ Status(p)' = Status(p) /\ Running(p)' = Running(p)
                             /\ record'[p].target = record[p].target
    BY <1>4, SteadyView DEF SteadyBut
  <2>2. /\ Status(o)' = Status(o) /\ Running(o) = TRUE /\ Running(o)' = FALSE
        /\ record'[o].target = record[o].target
    BY <1>4 DEF Exited, Status, Running
  <2>3. QED
    BY <1>4, <2>1, <2>2 DEF Contract!Stop
<1>5. ASSUME NEW o \in Ops, SteadyBut({o}), Answered(o), storeState' = storeState
      PROVE  Contract!Finish(o) \/ UNCHANGED Contract!vars
  <2>1. \A p \in Ops \ {o} : /\ Status(p)' = Status(p) /\ Running(p)' = Running(p)
                             /\ record'[p].target = record[p].target
    BY <1>5, SteadyView DEF SteadyBut
  <2>2. Running(o)' = Running(o) /\ record'[o].target = record[o].target
    BY <1>5 DEF Answered, Running
  <2>3. CASE Status(o)' = Status(o)
    BY <1>5, <2>1, <2>2, <2>3 DEF Contract!vars
  <2>4. CASE Status(o)' # Status(o)
    <3>1. Status(o) = "holding" /\ Status(o)' = "done" /\ Running(o) = FALSE
      BY <1>5, <2>4 DEF Answered, Status, Running
    <3>2. QED
      BY <1>5, <2>1, <2>2, <3>1 DEF Contract!Finish
  <2>5. QED
    BY <2>3, <2>4
<1>6. QED
  <2>1. CASE Next
    BY <1>2, <1>3, <1>4, <1>5, <2>1, StepShape DEF Contract!Next
  <2>2. QED
    BY <1>1, <2>1

(* The session implements its contract: at most one of two interfering     *)
(* operations holds a lease, a lease outlives the Git process, nothing     *)
(* starts after the session closed.                                        *)
THEOREM Refinement == Spec => ImplementsContract
<1>1. Init => Contract!Init
  BY ContractInit
<1>2. IInv /\ IInv' /\ [Next]_vars => [Contract!Next]_(Contract!vars)
  BY ContractStep
<1>3. QED
  BY <1>1, <1>2, Invariance, PTL DEF Spec, ImplementsContract, Contract!Spec

-----------------------------------------------------------------------------
(* WorktreeDiscovery.  The properties are about two topologies published one *)
(* after the other, and about an id shown long ago; neither is inductive.    *)
(* The invariant follows every id to wherever it is held (in a snapshot, in  *)
(* a read under way, in a command) and says what it stands for there.        *)

(* The records of worktrees that are held anywhere, and the identities.      *)
Records ==
    {discovered.worktrees[p] : p \in Paths}
      \cup {published.worktrees[p] : p \in Paths}
      \cup {reads[n].result.worktrees[p] : n \in ReadIds, p \in Paths}

UnderWay == mutation.step \in {"begun", "baseline", "file", "running"}

IdentitiesHeld ==
    {generations[p] : p \in Paths}
      \cup {reads[n].known[p] : n \in ReadIds, p \in Paths}
      \cup {d.identity : d \in Records}
      \cup (IF UnderWay THEN {mutation.shown} ELSE {})

(* A read issues ids once, when it has ended its discovery.                  *)
HasIssued(n) == reads[n].step \in {"observe", "ended"}

IdsAreIssued ==
    \A i \in IdentitiesHeld :
        \/ i = Unknown
        \/ \E n \in ReadIds, p \in Paths : i.id = <<n, p>> /\ HasIssued(n)

(* An id stands for one identity, that is for one piece of evidence,         *)
IdsAreUnique ==
    \A i \in IdentitiesHeld, j \in IdentitiesHeld : i.id = j.id => i = j

(* and for one registration.                                                 *)
RecordsAgree ==
    \A d \in Records \ {Absent}, e \in Records \ {Absent} :
        d.identity.id = e.identity.id => d.registered = e.registered

(* Evidence names the registration, and only an available worktree has it.   *)
RecordIsSound(d) ==
    /\ d.identity.id # Unknown.id
    /\ d.identity.evidence # Unavailable => d.registered = d.identity.evidence.git
    /\ d.available => d.identity.evidence # Unavailable

RecordsAreSound == \A d \in Records \ {Absent} : RecordIsSound(d)

(* What a read has found is somewhere; the repositories in which it was      *)
(* found are the opened one, those that are gone and the one there is now.   *)
FoundIsSomewhere ==
    /\ repository # 0
    /\ \A n \in ReadIds : reads[n].step \in {"check", "list", "resolve"} => ~reads[n].reuses
    /\ \A n \in ReadIds, p \in Paths :
         reads[n].found[p].step = "resolved" => reads[n].found[p].git # Nowhere

Harmless == {Anchor} \cup undone

OneRepositoryIsSeen ==
    /\ discovered.seen \subseteq Harmless
    /\ \A n \in ReadIds :
         /\ At(n, "resolve") => reads[n].seen \subseteq Harmless \cup {repository}
         /\ At(n, "observe") => reads[n].result.seen \subseteq Harmless

(* Where the directories are those of an identity, the id is kept.           *)
FollowsOn(d, identity) ==
    (/\ d # Absent
     /\ d.available
     /\ identity.id # Unknown.id
     /\ d.identity.evidence = identity.evidence)
    => d.identity = identity

(* What the session keeps is what is published, and what the latest read     *)
(* began with; the read adds to it what has changed.                         *)
LatestFollowsOn ==
    status = "open" =>
        /\ \A p \in Paths :
             /\ published.worktrees[p].identity = generations[p]
             /\ discovered.worktrees[p].identity = generations[p]
        /\ latest \in Active => reads[latest].known = generations
        /\ latest \in Active /\ At(latest, "observe") =>
             IF reads[latest].reuses
             THEN reads[latest].result = discovered
             ELSE \A p \in Paths :
                    FollowsOn(reads[latest].result.worktrees[p], generations[p])

(* A command compares with what the id it was given stood for; as long as no *)
(* other program does anything, what an inspection has compared stays so.    *)
StillAgrees ==
    /\ "paths" \in mutation.agreed => PathsAgree(mutation.path)
    /\ \A piece \in Pieces \cap mutation.agreed :
         /\ There(piece) = Expected(piece)
         /\ "paths" \in mutation.agreed

MutationIsShown ==
    /\ mutation.step \in {"none", "begun", "baseline", "file", "running", "ended"}
    /\ UnderWay => mutation.path \in Paths /\ mutation.shown \in Identities
    /\ UnderWay /\ mutation.step # "begun" => mutation.target = mutation.shown.evidence
    /\ Inspecting => mutation.since \in 0 .. changes
    /\ Inspecting /\ mutation.since = changes => StillAgrees
    /\ MutationRunsWhereShown

DiscoveryInv ==
    /\ DiscoveryTypeOK
    /\ IdsAreIssued
    /\ IdsAreUnique
    /\ RecordsAgree
    /\ RecordsAreSound
    /\ FoundIsSomewhere
    /\ OneRepositoryIsSeen
    /\ LatestFollowsOn
    /\ MutationIsShown

-----------------------------------------------------------------------------
(* Types.                                                                    *)

RecordTypes == [identity : Identities, available : BOOLEAN, registered : GitDirectories]
ReadSteps == {"none", "check", "list", "resolve", "observe", "ended"}

LEMMA DirectoryTypes ==
    /\ 0 \in Incarnations /\ 1 \in Incarnations /\ Nowhere \in GitDirectories
    /\ \A i \in Incarnations : CommonDirectory(i) \in GitDirectories
    /\ \A p \in Linked, i \in Incarnations : AdminDirectory(p, i) \in GitDirectories
<1>1. 0 \in Incarnations /\ 1 \in Incarnations
  BY ReadAssumption DEF Incarnations
<1>2. QED
  BY <1>1 DEF GitDirectories, Nowhere, CommonDirectory, AdminDirectory, Paths

LEMMA EmptyTypes ==
    /\ Unavailable \in Evidence /\ Unknown \in Identities /\ Absent \in RecordTypes
    /\ NoDiscovery \in Topologies /\ NoRead \in Reads /\ NotFound \in Findings
    /\ Main \in Paths
<1>1. Unavailable \in Evidence
  BY DirectoryTypes DEF Unavailable, Evidence
<1>2. Main \in Paths
  BY DEF Paths
<1>3. Unknown \in Identities
  BY <1>1, <1>2, ReadAssumption DEF Unknown, Identities
<1>4. Absent \in RecordTypes
  BY <1>3, DirectoryTypes DEF Absent, RecordTypes
<1>5. NoDiscovery \in Topologies
  BY <1>4 DEF NoDiscovery, Nothing, Topologies, RecordTypes
<1>6. NotFound \in Findings
  BY DirectoryTypes DEF NotFound, Findings
<1>7. NoRead \in Reads
  BY <1>3, <1>5, <1>6 DEF NoRead, Reads
<1>8. QED
  BY <1>1, <1>2, <1>3, <1>4, <1>5, <1>6, <1>7

LEMMA EmptyFacts ==
    /\ NoRead.step = "none" /\ NoRead.reuses = FALSE /\ NoRead.result = NoDiscovery
    /\ \A p \in Paths : NoRead.known[p] = Unknown /\ NoRead.found[p] = NotFound
    /\ Absent.identity = Unknown /\ Absent.available = FALSE
    /\ \A p \in Paths : NoDiscovery.worktrees[p] = Absent
    /\ NoDiscovery.seen = {}
    /\ Unknown.id = <<0, Main>> /\ Unknown.evidence = Unavailable
    /\ NotFound.step = "list"
    /\ Unavailable.git = Nowhere
  BY DEF NoRead, NoDiscovery, Nothing, Absent, Unknown, NotFound, Unavailable

(* The fields of a read and what becomes of them.                            *)
LEMMA ReadFields ==
    ASSUME NEW r \in Reads
    PROVE  /\ r.step \in ReadSteps /\ r.reuses \in BOOLEAN
           /\ r.known \in [Paths -> Identities] /\ r.found \in [Paths -> Findings]
           /\ r.result \in Topologies /\ r.seen \in SUBSET Incarnations
           /\ r.result.worktrees \in [Paths -> RecordTypes]
           /\ r.result.seen \in SUBSET Incarnations
  BY DEF Reads, ReadSteps, Topologies, RecordTypes

LEMMA StepFacts ==
    ASSUME NEW r \in Reads, NEW step \in ReadSteps
    PROVE  LET t == [r EXCEPT !.step = step]
           IN  /\ t \in Reads /\ t.step = step /\ t.reuses = r.reuses
               /\ t.known = r.known /\ t.found = r.found /\ t.result = r.result
               /\ t.seen = r.seen
  BY DEF Reads, ReadSteps

-----------------------------------------------------------------------------
(* Which identities a step can bring about.                                  *)

LEMMA TypeFacts ==
    ASSUME DiscoveryTypeOK
    PROVE  /\ generations \in [Paths -> Identities]
           /\ discovered \in Topologies /\ published \in Topologies
           /\ discovered.worktrees \in [Paths -> RecordTypes]
           /\ published.worktrees \in [Paths -> RecordTypes]
           /\ reads \in [ReadIds -> Reads]
           /\ \A n \in ReadIds : reads[n] \in Reads
  BY DEF DiscoveryTypeOK, Topologies, RecordTypes

LEMMA HeldFacts ==
    /\ \A p \in Paths : /\ discovered.worktrees[p] \in Records
                        /\ published.worktrees[p] \in Records
                        /\ generations[p] \in IdentitiesHeld
    /\ \A n \in ReadIds, p \in Paths : /\ reads[n].result.worktrees[p] \in Records
                                       /\ reads[n].known[p] \in IdentitiesHeld
    /\ UnderWay => mutation.shown \in IdentitiesHeld
    /\ \A d \in Records : d.identity \in IdentitiesHeld
  BY DEF Records, IdentitiesHeld

(* A step in which every record and identity comes from old ones or from a   *)
(* set of new ones.                                                          *)
ComesFrom(new, identities) ==
    /\ \A p \in Paths : /\ discovered'.worktrees[p] \in Records \cup new
                        /\ published'.worktrees[p] \in Records \cup new
                        /\ generations'[p] \in IdentitiesHeld \cup identities
    /\ \A n \in ReadIds, p \in Paths :
         /\ reads'[n].result.worktrees[p] \in Records \cup new
         /\ reads'[n].known[p] \in IdentitiesHeld \cup identities
    /\ UnderWay' => mutation'.shown \in IdentitiesHeld
    /\ \A d \in new : d.identity \in identities

LEMMA ComingFrom ==
    ASSUME NEW new, NEW identities, ComesFrom(new, identities)
    PROVE  /\ Records' \subseteq Records \cup new
           /\ IdentitiesHeld' \subseteq IdentitiesHeld \cup identities
<1>1. Records' \subseteq Records \cup new
  <2>1. ASSUME NEW d \in Records'
        PROVE  \/ \E p \in Paths : d = discovered'.worktrees[p] \/ d = published'.worktrees[p]
               \/ \E n \in ReadIds, p \in Paths : d = reads'[n].result.worktrees[p]
    BY DEF Records
  <2>2. QED
    BY <2>1 DEF ComesFrom, UnderWay
<1>2. \A d \in Records' : d.identity \in IdentitiesHeld \cup identities
  BY <1>1, HeldFacts DEF ComesFrom, UnderWay
<1>3. \A i \in IdentitiesHeld' :
         \/ \E p \in Paths : i = generations'[p]
         \/ \E n \in ReadIds, p \in Paths : i = reads'[n].known[p]
         \/ \E d \in Records' : i = d.identity
         \/ UnderWay' /\ i = mutation'.shown
  BY DEF IdentitiesHeld
<1>4. IdentitiesHeld' \subseteq IdentitiesHeld \cup identities
  BY <1>2, <1>3 DEF ComesFrom, UnderWay
<1>5. QED
  BY <1>1, <1>4

IdsAreKept == IdsAreIssued /\ IdsAreUnique /\ RecordsAgree /\ RecordsAreSound

LEMMA UnknownIsUnique ==
    ASSUME IdsAreIssued, NEW i \in IdentitiesHeld, i.id = Unknown.id
    PROVE  i = Unknown
<1>1. \A n \in ReadIds, p \in Paths : <<n, p>> # <<0, Main>>
  BY DEF ReadIds
<1>2. QED
  BY <1>1, EmptyFacts DEF IdsAreIssued

(* Nothing is issued.                                                        *)
LEMMA KeepIds ==
    ASSUME IdsAreKept, ComesFrom({Absent}, {Unknown}),
           \A n \in ReadIds : HasIssued(n) => HasIssued(n)'
    PROVE  IdsAreKept'
<1>1. /\ Records' \subseteq Records \cup {Absent}
      /\ IdentitiesHeld' \subseteq IdentitiesHeld \cup {Unknown}
  BY ComingFrom
<1>2. IdsAreIssued'
  BY <1>1 DEF IdsAreKept, IdsAreIssued
<1>3. IdsAreUnique'
  BY <1>1, UnknownIsUnique DEF IdsAreKept, IdsAreUnique
<1>4. RecordsAgree' /\ RecordsAreSound'
  BY <1>1 DEF IdsAreKept, RecordsAgree, RecordsAreSound, RecordIsSound
<1>5. QED
  BY <1>2, <1>3, <1>4 DEF IdsAreKept

-----------------------------------------------------------------------------
(* A read goes on, or ends.                                                  *)

(* A step of read n that issues no id and ends no observation well.          *)
GoesOn(n) ==
    /\ reads' \in [ReadIds -> Reads]
    /\ \A m \in ReadIds \ {n} : reads'[m] = reads[m]
    /\ reads[n].step # "none"
    /\ \A p \in Paths :
         /\ reads'[n].known[p] \in {reads[n].known[p], Unknown}
         /\ reads'[n].result.worktrees[p] \in {reads[n].result.worktrees[p], Absent}
         /\ reads'[n].found[p].step = "resolved" => reads'[n].found[p].git # Nowhere
    /\ HasIssued(n) => HasIssued(n)'
    /\ reads'[n].step # "ended" =>
         /\ reads'[n].step \in {"list", "resolve"} /\ ~reads[n].reuses
         /\ n \in Active
         /\ reads'[n].known = reads[n].known /\ reads'[n].reuses = reads[n].reuses
    /\ At(n, "resolve")' => reads'[n].seen \subseteq Harmless \cup {repository}

(* The session stays, or is revoked.                                         *)
StaysOrEnds ==
    /\ UNCHANGED <<world, latest, mutation>>
    /\ discovered' = discovered /\ published' = published
    /\ \/ status' = status /\ generations' = generations
       \/ status' = "invalid" /\ generations' = [p \in Paths |-> Unknown]

LEMMA MutationStays ==
    ASSUME MutationIsShown,
           repository' = repository, admin' = admin, directory' = directory,
           link' = link, changes' = changes, mutation' = mutation
    PROVE  MutationIsShown'
  BY DEF MutationIsShown, UnderWay, Inspecting, StillAgrees, PathsAgree, Registered,
         LinkedPath, There, Expected, IncarnationAt, MutationRunsWhereShown, WhereShown

LEMMA ReadGoesOn ==
    ASSUME DiscoveryInv, NEW n \in ReadIds, GoesOn(n), StaysOrEnds
    PROVE  DiscoveryInv'
<1>1. /\ DiscoveryTypeOK /\ IdsAreKept /\ FoundIsSomewhere /\ OneRepositoryIsSeen
      /\ LatestFollowsOn /\ MutationIsShown
  BY DEF DiscoveryInv, IdsAreKept
<1>2. /\ repository' = repository /\ admin' = admin /\ directory' = directory
      /\ link' = link /\ changes' = changes /\ latest' = latest /\ mutation' = mutation
      /\ aside' = aside /\ undone' = undone
      /\ discovered' = discovered /\ published' = published
      /\ \/ status' = status /\ generations' = generations
         \/ status' = "invalid" /\ generations' = [p \in Paths |-> Unknown]
  BY DEF StaysOrEnds, world
<1>3. DiscoveryTypeOK'
  <2>1. generations' \in [Paths -> Identities] /\ status' \in {"open", "invalid"}
    BY <1>1, <1>2, EmptyTypes DEF DiscoveryTypeOK
  <2>2. ~(n > latest)
    BY <1>1, EmptyFacts DEF DiscoveryTypeOK, GoesOn
  <2>3. QED
    BY <1>1, <1>2, <2>1, <2>2 DEF DiscoveryTypeOK, GoesOn
<1>4. IdsAreKept'
  <2>1. \A m \in ReadIds : HasIssued(m) => HasIssued(m)'
    BY DEF GoesOn, HasIssued
  <2>2. ComesFrom({Absent}, {Unknown})
    <3>1. \A m \in ReadIds, p \in Paths :
             /\ reads'[m].result.worktrees[p] \in Records \cup {Absent}
             /\ reads'[m].known[p] \in IdentitiesHeld \cup {Unknown}
      BY HeldFacts DEF GoesOn
    <3>2. \A p \in Paths : generations'[p] \in IdentitiesHeld \cup {Unknown}
      BY <1>2, HeldFacts
    <3>3. QED
      BY <1>2, <3>1, <3>2, HeldFacts, EmptyFacts DEF ComesFrom, UnderWay
  <2>3. QED
    BY <1>1, <2>1, <2>2, KeepIds
<1>5. FoundIsSomewhere'
  BY <1>1, <1>2 DEF FoundIsSomewhere, GoesOn
<1>6. OneRepositoryIsSeen'
  BY <1>1, <1>2 DEF OneRepositoryIsSeen, GoesOn, At, Harmless
<1>7. LatestFollowsOn'
  <2>1. CASE status' = "invalid"
    BY <2>1 DEF LatestFollowsOn
  <2>2. CASE status' = status /\ generations' = generations
    <3>1. CASE latest = n
      BY <1>1, <1>2, <2>2, <3>1 DEF LatestFollowsOn, GoesOn, Active, At
    <3>2. CASE latest # n
      <4>1. latest \in Active' => latest \in Active
        BY <3>2 DEF GoesOn, Active
      <4>2. latest \in ReadIds => reads'[latest] = reads[latest]
        BY <3>2 DEF GoesOn
      <4>3. Active' \subseteq ReadIds
        BY DEF Active
      <4>4. QED
        BY <1>1, <1>2, <2>2, <4>1, <4>2, <4>3 DEF LatestFollowsOn, At
    <3>3. QED
      BY <3>1, <3>2
  <2>3. QED
    BY <1>2, <2>1, <2>2
<1>8. MutationIsShown'
  BY <1>1, <1>2, MutationStays
<1>9. QED
  BY <1>3, <1>4, <1>5, <1>6, <1>7, <1>8 DEF DiscoveryInv, IdsAreKept

LEMMA InvFacts ==
    ASSUME DiscoveryInv, NEW n \in ReadIds
    PROVE  /\ reads \in [ReadIds -> Reads] /\ reads[n] \in Reads
           /\ \A p \in Paths :
                reads[n].found[p].step = "resolved" => reads[n].found[p].git # Nowhere
           /\ reads[n].step \in {"check", "list", "resolve"} => ~reads[n].reuses
           /\ At(n, "resolve") => reads[n].seen \subseteq Harmless \cup {repository}
           /\ repository \in Incarnations /\ repository # 0
           /\ generations \in [Paths -> Identities]
  BY TypeFacts DEF DiscoveryInv, FoundIsSomewhere, OneRepositoryIsSeen, DiscoveryTypeOK

LEMMA EndedFacts ==
    /\ Ended \in Reads /\ Ended.step = "ended" /\ Ended.result = NoDiscovery
    /\ \A p \in Paths : Ended.known[p] = Unknown /\ Ended.found[p] = NotFound
<1>1. "ended" \in ReadSteps
  BY DEF ReadSteps
<1>2. QED
  BY <1>1, EmptyTypes, EmptyFacts, StepFacts DEF Ended

(* A read is over.                                                           *)
LEMMA ReadEnds ==
    ASSUME DiscoveryInv, NEW n \in ReadIds, reads[n].step # "none",
           reads' = [reads EXCEPT ![n] = Ended]
    PROVE  GoesOn(n)
<1>1. /\ reads' \in [ReadIds -> Reads] /\ reads'[n] = Ended
      /\ \A m \in ReadIds \ {n} : reads'[m] = reads[m]
  BY InvFacts, EndedFacts
<1>2. QED
  BY <1>1, EndedFacts, EmptyFacts DEF GoesOn, HasIssued, At

LEMMA SessionEndedStep ==
    ASSUME DiscoveryInv, NEW n \in ReadIds, SessionEnded(n) \/ ReadFails(n)
    PROVE  DiscoveryInv'
  BY ReadEnds, ReadGoesOn DEF SessionEnded, ReadFails, Ends, StaysOrEnds, session

LEMMA RevokeStep ==
    ASSUME DiscoveryInv, NEW n \in ReadIds, reads[n].step # "none", Revoke(n)
    PROVE  DiscoveryInv'
  BY ReadEnds, ReadGoesOn DEF Revoke, StaysOrEnds

LEMMA CheckRepositoryStep ==
    ASSUME DiscoveryInv, NEW n \in ReadIds, CheckRepository(n)
    PROVE  DiscoveryInv'
<1>1. CASE Revoke(n)
  BY <1>1, RevokeStep DEF CheckRepository, At
<1>2. CASE /\ reads' = [reads EXCEPT ![n].step = "list"]
           /\ UNCHANGED <<world, session, latest, mutation>>
  <2> DEFINE r == [reads[n] EXCEPT !.step = "list"]
  <2>1. reads[n].step = "check" /\ reads' = [reads EXCEPT ![n] = r]
    BY <1>2 DEF CheckRepository, At
  <2>2. "list" \in ReadSteps
    BY DEF ReadSteps
  <2>3. /\ r \in Reads /\ r.step = "list" /\ r.reuses = reads[n].reuses
        /\ r.known = reads[n].known /\ r.found = reads[n].found
        /\ r.result = reads[n].result
    BY <2>2, InvFacts, StepFacts
  <2> HIDE DEF r
  <2>4. /\ reads' \in [ReadIds -> Reads] /\ reads'[n] = r
        /\ \A m \in ReadIds \ {n} : reads'[m] = reads[m]
    BY <2>1, <2>3, InvFacts
  <2>5. GoesOn(n)
    BY <2>1, <2>3, <2>4, InvFacts DEF GoesOn, HasIssued, At, Active
  <2>6. QED
    BY <1>2, <2>5, ReadGoesOn DEF StaysOrEnds, session
<1>3. QED
  BY <1>1, <1>2 DEF CheckRepository, Goes

LEMMA ListsTypes ==
    ASSUME DiscoveryInv, NEW p \in Paths
    PROVE  Lists(p) \in Findings /\ Lists(p).step # "resolved"
<1>1. /\ repository \in Incarnations /\ directory[p] \in Incarnations
      /\ p # Main => p \in Linked /\ admin[p] \in Incarnations
  BY DEF DiscoveryInv, DiscoveryTypeOK, Paths
<1>2. /\ CommonDirectory(repository) \in GitDirectories
      /\ p # Main => AdminDirectory(p, admin[p]) \in GitDirectories
  BY <1>1, DirectoryTypes
<1> DEFINE absent == [NotFound EXCEPT !.step = "absent"]
           named == IF p = Main THEN CommonDirectory(repository) ELSE AdminDirectory(p, admin[p])
           listed == [NotFound EXCEPT
                        !.step = IF p = Main THEN "stat_git" ELSE "stat",
                        !.directory = IF p = Main THEN directory[p] ELSE 0,
                        !.prunable = directory[p] = 0,
                        !.registered = named]
<1>3. named \in GitDirectories
  BY <1>2
<1> HIDE DEF named
<1>4. absent \in Findings /\ absent.step = "absent"
  BY DirectoryTypes DEF NotFound, Findings
<1>5. listed \in Findings /\ listed.step \in {"stat_git", "stat"}
  BY <1>1, <1>3, DirectoryTypes DEF NotFound, Findings
<1>6. Lists(p) = absent \/ Lists(p) = listed
  BY DEF Lists, named
<1>7. QED
  BY <1>4, <1>5, <1>6

LEMMA ListWorktreesStep ==
    ASSUME DiscoveryInv, NEW n \in ReadIds, ListWorktrees(n)
    PROVE  DiscoveryInv'
<1> DEFINE found == [p \in Paths |-> Lists(p)]
           seen == {repository}
           r == [reads[n] EXCEPT !.step = "resolve", !.seen = seen, !.found = found]
<1>1. /\ reads[n].step = "list" /\ reads' = [reads EXCEPT ![n] = r]
      /\ UNCHANGED <<world, session, latest, mutation>>
  BY DEF ListWorktrees, At
<1>2. /\ found \in [Paths -> Findings] /\ seen \in SUBSET Incarnations
      /\ \A p \in Paths : found[p].step # "resolved"
  BY ListsTypes, InvFacts
<1>3. reads[n] \in Reads
  BY InvFacts
<1> HIDE DEF found, seen
<1>4. /\ r \in Reads /\ r.step = "resolve" /\ r.reuses = reads[n].reuses
      /\ r.known = reads[n].known /\ r.found = found
      /\ r.result = reads[n].result /\ r.seen = seen
  BY <1>2, <1>3 DEF Reads
<1> HIDE DEF r
<1>5. /\ reads' \in [ReadIds -> Reads] /\ reads'[n] = r
      /\ \A m \in ReadIds \ {n} : reads'[m] = reads[m]
  BY <1>1, <1>4, InvFacts
<1>6. GoesOn(n)
  BY <1>1, <1>2, <1>4, <1>5, InvFacts DEF GoesOn, HasIssued, At, Active, seen
<1>7. QED
  BY <1>1, <1>6, ReadGoesOn DEF StaysOrEnds, session

(* What is found out of one worktree is a directory there is.                *)
LEMMA FindsStep ==
    ASSUME DiscoveryInv, NEW n \in ReadIds, NEW p \in Paths, NEW finding \in Findings,
           At(n, "resolve"), finding.step = "resolved" => finding.git # Nowhere,
           Finds(n, p, finding)
    PROVE  DiscoveryInv'
<1> DEFINE seen == reads[n].seen \cup {repository}
           r == [reads[n] EXCEPT !.found[p] = finding, !.seen = seen]
<1>0. seen \in SUBSET Incarnations
  BY InvFacts, ReadFields
<1>1. /\ reads[n].step = "resolve" /\ reads' = [reads EXCEPT ![n] = r]
      /\ UNCHANGED <<world, session, latest, mutation>>
  BY DEF Finds, At
<1> HIDE DEF seen
<1>2. /\ r \in Reads /\ r.step = reads[n].step /\ r.reuses = reads[n].reuses
      /\ r.known = reads[n].known /\ r.result = reads[n].result
      /\ r.seen = seen
      /\ r.found[p] = finding
      /\ \A q \in Paths \ {p} : r.found[q] = reads[n].found[q]
  <2> DEFINE found == [reads[n].found EXCEPT ![p] = finding]
             t == [reads[n] EXCEPT !.found = found, !.seen = seen]
  <2>1. reads[n] \in Reads
    BY InvFacts
  <2>2. /\ found \in [Paths -> Findings]
        /\ found[p] = finding /\ \A q \in Paths \ {p} : found[q] = reads[n].found[q]
    BY <2>1, ReadFields
  <2>3. t = r
    BY <2>1 DEF Reads
  <2> HIDE DEF found
  <2>4. /\ t \in Reads /\ t.step = reads[n].step /\ t.reuses = reads[n].reuses
        /\ t.known = reads[n].known /\ t.result = reads[n].result
        /\ t.seen = seen /\ t.found = found
    BY <1>0, <2>1, <2>2 DEF Reads
  <2> HIDE DEF t
  <2> HIDE DEF r
  <2>5. QED
    BY <2>2, <2>3, <2>4
<1> HIDE DEF r
<1>3. /\ reads' \in [ReadIds -> Reads] /\ reads'[n] = r
      /\ \A m \in ReadIds \ {n} : reads'[m] = reads[m]
  BY <1>1, <1>2, InvFacts
<1>4. \A q \in Paths : r.found[q].step = "resolved" => r.found[q].git # Nowhere
  BY <1>2, InvFacts
<1>5. r.seen \subseteq Harmless \cup {repository}
  BY <1>1, <1>2, InvFacts DEF At, seen
<1>6. GoesOn(n)
  BY <1>1, <1>2, <1>3, <1>4, <1>5, InvFacts DEF GoesOn, HasIssued, At, Active
<1>7. QED
  BY <1>1, <1>6, ReadGoesOn DEF StaysOrEnds, session

FindingSteps == {"git", "backlink", "stat_git", "unavailable", "resolved"}

LEMMA FoundTypes ==
    ASSUME DiscoveryInv, NEW n \in ReadIds, NEW p \in Paths
    PROVE  reads[n].found[p] \in Findings
  BY InvFacts, ReadFields

LEMMA StatDirectoryStep ==
    ASSUME DiscoveryInv, NEW n \in ReadIds, NEW p \in Paths, StatDirectory(n, p)
    PROVE  DiscoveryInv'
<1> DEFINE step == IF directory[p] = 0 THEN "unavailable" ELSE "git"
           there == directory[p]
           finding == [GoesOnAt(n, p, step) EXCEPT !.directory = there]
<1>1. At(n, "resolve") /\ Finds(n, p, finding)
  BY DEF StatDirectory, Resolving
<1>2. there \in Incarnations
  BY DEF DiscoveryInv, DiscoveryTypeOK
<1>3. step \in FindingSteps /\ step # "resolved"
  BY DEF FindingSteps
<1> HIDE DEF step, there
<1>4. finding \in Findings /\ finding.step = step
  BY <1>2, <1>3, DirectoryTypes, FoundTypes DEF GoesOnAt, Findings, FindingSteps
<1> HIDE DEF finding
<1>5. QED
  BY <1>1, <1>3, <1>4, FindsStep

LEMMA ReadGitDirectoryStep ==
    ASSUME DiscoveryInv, NEW n \in ReadIds, NEW p \in Paths, ReadGitDirectory(n, p)
    PROVE  DiscoveryInv'
<1> DEFINE step == IF link[p] = "common" THEN "stat_git" ELSE "backlink"
           git == [path |-> LinkedPath(p), incarnation |-> 0]
<1>1. At(n, "resolve")
  BY DEF ReadGitDirectory, Resolving
<1>2. step \in FindingSteps /\ step # "resolved" /\ git \in GitDirectories /\ 0 \in Incarnations
  BY DirectoryTypes DEF GitDirectories, LinkedPath, Paths, FindingSteps
<1>3. CASE Resolvable(p)
  <2> DEFINE finding == [GoesOnAt(n, p, step) EXCEPT !.git = git]
  <2>1. Finds(n, p, finding)
    BY <1>3 DEF ReadGitDirectory
  <2> HIDE DEF step, git
  <2>2. finding \in Findings /\ finding.step # "resolved"
    BY <1>2, FoundTypes DEF GoesOnAt, Findings, FindingSteps
  <2> HIDE DEF finding
  <2>3. QED
    BY <1>1, <2>1, <2>2, FindsStep
<1>4. CASE ~Resolvable(p)
  <2> DEFINE finding == GoesOnAt(n, p, "unavailable")
  <2>1. Finds(n, p, finding)
    BY <1>4 DEF ReadGitDirectory
  <2>2. finding \in Findings /\ finding.step # "resolved"
    <3>1. "unavailable" \in FindingSteps
      BY DEF FindingSteps
    <3>2. QED
      BY <1>2, <3>1, FoundTypes DEF GoesOnAt, Findings, FindingSteps
  <2> HIDE DEF finding
  <2>3. QED
    BY <1>1, <2>1, <2>2, FindsStep
<1>5. QED
  BY <1>3, <1>4

LEMMA ReadBacklinkStep ==
    ASSUME DiscoveryInv, NEW n \in ReadIds, NEW p \in Paths, ReadBacklink(n, p)
    PROVE  DiscoveryInv'
<1> DEFINE step == IF LinksBack(n, p) THEN "stat_git" ELSE "unavailable"
           finding == GoesOnAt(n, p, step)
<1>1. At(n, "resolve") /\ Finds(n, p, finding)
  BY DEF ReadBacklink, Resolving
<1>2. step \in FindingSteps /\ step # "resolved"
  BY DEF FindingSteps
<1> HIDE DEF step
<1>3. finding \in Findings /\ finding.step # "resolved"
  BY <1>2, DirectoryTypes, FoundTypes DEF GoesOnAt, Findings, FindingSteps
<1> HIDE DEF finding
<1>4. QED
  BY <1>1, <1>3, FindsStep

(* The Git directory whose identity is read is there, if the read succeeds.  *)
LEMMA StatGitDirectoryStep ==
    ASSUME DiscoveryInv, NEW n \in ReadIds, NEW p \in Paths, StatGitDirectory(n, p)
    PROVE  DiscoveryInv'
<1> DEFINE now == IncarnationAt(reads[n].found[p].git.path)
           step == IF now = 0 THEN "unavailable" ELSE "resolved"
           path == reads[n].found[p].git.path
           git == [path |-> path, incarnation |-> now]
           finding == [GoesOnAt(n, p, step) EXCEPT !.git.incarnation = now]
<1>1. At(n, "resolve") /\ Finds(n, p, finding)
  BY DEF StatGitDirectory, Resolving
<1>2. reads[n].found[p] \in Findings
  BY InvFacts, ReadFields
<1>3. reads[n].found[p].git \in GitDirectories /\ path \in Paths
  BY <1>2 DEF Findings, GitDirectories
<1>4. now \in Incarnations
  BY <1>3 DEF IncarnationAt, DiscoveryInv, DiscoveryTypeOK, Paths
<1>5. git \in GitDirectories /\ (now # 0 => git # Nowhere)
  BY <1>3, <1>4 DEF GitDirectories, Nowhere
<1>6. step \in FindingSteps /\ (step = "resolved" => now # 0)
  BY DEF FindingSteps
<1>7. [reads[n].found[p].git EXCEPT !.incarnation = now] = git
  BY <1>3 DEF GitDirectories
<1> HIDE DEF now, step, path
<1>8. finding = [GoesOnAt(n, p, step) EXCEPT !.git = git]
  <2>1. GoesOnAt(n, p, step).git = reads[n].found[p].git
    BY <1>2 DEF GoesOnAt, Findings
  <2>2. QED
    BY <1>7, <2>1
<1> HIDE DEF git, finding
<1>9. finding \in Findings /\ finding.step = step /\ finding.git = git
  BY <1>2, <1>4, <1>5, <1>6, <1>8, FoundTypes DEF GoesOnAt, Findings, FindingSteps
<1>10. QED
  BY <1>1, <1>5, <1>6, <1>9, FindsStep

(* A read begins with what the session keeps.                                *)
LEMMA BeginReadStep ==
    ASSUME DiscoveryInv, NEW scoped \in BOOLEAN, BeginRead(scoped)
    PROVE  DiscoveryInv'
<1> DEFINE m == latest + 1
           reuses == scoped /\ discovered # NoDiscovery
           step == IF reuses THEN "observe" ELSE "check"
           result == IF reuses THEN discovered ELSE NoDiscovery
           r == [NoRead EXCEPT !.step = step, !.reuses = reuses,
                               !.known = generations, !.result = result]
<1>1. /\ DiscoveryTypeOK /\ IdsAreKept /\ FoundIsSomewhere /\ OneRepositoryIsSeen
      /\ LatestFollowsOn /\ MutationIsShown
  BY DEF DiscoveryInv, IdsAreKept
<1>2. /\ status = "open" /\ latest < MaxReads
      /\ latest' = m /\ reads' = [reads EXCEPT ![m] = r]
  BY DEF BeginRead
<1>3. /\ repository' = repository /\ admin' = admin /\ directory' = directory
      /\ link' = link /\ changes' = changes /\ mutation' = mutation
      /\ aside' = aside /\ undone' = undone
      /\ discovered' = discovered /\ published' = published
      /\ status' = status /\ generations' = generations
  BY DEF BeginRead, world, session
<1>4. /\ m \in ReadIds /\ m \in 0 .. MaxReads /\ m > latest /\ reads[m] = NoRead
      /\ \A n \in ReadIds : n > m => n > latest /\ n # m
  BY <1>1, <1>2, ReadAssumption DEF DiscoveryTypeOK, ReadIds
<1>5. /\ generations \in [Paths -> Identities] /\ result \in Topologies
      /\ reads \in [ReadIds -> Reads]
  BY <1>1, TypeFacts, EmptyTypes
<1>6. /\ result = discovered \/ result = NoDiscovery
      /\ reuses => result = discovered /\ discovered # NoDiscovery
      /\ reuses \in BOOLEAN
      /\ step \in {"check", "observe"} /\ (step = "observe" <=> reuses)
  OBVIOUS
<1> HIDE DEF m, reuses, step, result
<1>7. /\ r \in Reads /\ r.step = step /\ r.reuses = reuses /\ r.known = generations
      /\ r.result = result /\ r.found = NoRead.found
  BY <1>5, <1>6, EmptyTypes DEF Reads
<1> HIDE DEF r
<1>8. /\ reads' \in [ReadIds -> Reads] /\ reads'[m] = r
      /\ \A n \in ReadIds \ {m} : reads'[n] = reads[n]
  BY <1>2, <1>4, <1>5, <1>7
<1>9. DiscoveryTypeOK'
  <2>1. \A n \in ReadIds : n > latest' => reads'[n] = NoRead
    BY <1>1, <1>2, <1>4, <1>8 DEF DiscoveryTypeOK
  <2>2. QED
    BY <1>1, <1>2, <1>3, <1>4, <1>8, <2>1 DEF DiscoveryTypeOK
<1>10. IdsAreKept'
  <2>1. ~HasIssued(m)
    BY <1>4, EmptyFacts DEF HasIssued
  <2>2. \A n \in ReadIds : HasIssued(n) => HasIssued(n)'
    BY <1>8, <2>1 DEF HasIssued
  <2>3. ComesFrom({Absent}, {Unknown})
    <3>1. \A n \in ReadIds, p \in Paths :
             /\ reads'[n].result.worktrees[p] \in Records \cup {Absent}
             /\ reads'[n].known[p] \in IdentitiesHeld \cup {Unknown}
      BY <1>6, <1>7, <1>8, HeldFacts, EmptyFacts
    <3>2. QED
      BY <1>3, <3>1, HeldFacts, EmptyFacts DEF ComesFrom, UnderWay
  <2>4. QED
    BY <1>1, <2>2, <2>3, KeepIds
<1>11. FoundIsSomewhere'
  BY <1>1, <1>3, <1>6, <1>7, <1>8, EmptyFacts DEF FoundIsSomewhere
<1>12. OneRepositoryIsSeen'
  BY <1>1, <1>3, <1>6, <1>7, <1>8, EmptyFacts DEF OneRepositoryIsSeen, At, Harmless
<1>13. LatestFollowsOn'
  BY <1>1, <1>2, <1>3, <1>4, <1>6, <1>7, <1>8 DEF LatestFollowsOn, At
<1>14. MutationIsShown'
  BY <1>1, <1>3, MutationStays
<1>15. QED
  BY <1>9, <1>10, <1>11, <1>12, <1>13, <1>14 DEF DiscoveryInv, IdsAreKept

-----------------------------------------------------------------------------
(* A discovery is made.                                                      *)

LEMMA EvidenceTypes ==
    ASSUME DiscoveryInv, NEW n \in ReadIds, NEW p \in Paths
    PROVE  LET found == reads[n].found IN
           /\ EvidenceOf(found, p) \in Evidence
           /\ Resolved(found, p) =>
                /\ EvidenceOf(found, p) # Unavailable
                /\ EvidenceOf(found, p).git = found[p].git
           /\ ~Resolved(found, p) => EvidenceOf(found, p) = Unavailable
           /\ found[p].git \in GitDirectories /\ found[p].registered \in GitDirectories
<1> DEFINE f == reads[n].found[p]
<1>1. reads[n].found \in [Paths -> Findings]
  BY InvFacts, ReadFields
<1>2. /\ f.directory \in Incarnations /\ f.git \in GitDirectories
      /\ f.registered \in GitDirectories
  BY <1>1 DEF Findings
<1>3. f.step = "resolved" => f.git # Nowhere
  BY InvFacts
<1>4. [directory |-> f.directory, git |-> f.git] \in Evidence
  BY <1>2 DEF Evidence
<1>5. QED
  BY <1>2, <1>3, <1>4, EmptyTypes, EmptyFacts DEF EvidenceOf, Resolved

(* What a discovery says of a listed worktree: the old identity where the    *)
(* directories are those of it, and one that was never issued otherwise.     *)
LEMMA DiscoversFacts ==
    ASSUME DiscoveryInv, NEW n \in ReadIds, NEW p \in Paths
    PROVE  LET d == Discovers(n, p) IN
           /\ d \in RecordTypes
           /\ RecordIsSound(d)
           /\ \/ d.identity = reads[n].known[p] /\ d.identity.evidence # Unavailable
              \/ d.identity.id = <<n, p>>
           /\ FollowsOn(d, reads[n].known[p])
<1> DEFINE found == reads[n].found
           known == reads[n].known[p]
           evidence == EvidenceOf(found, p)
           d == Discovers(n, p)
<1>1. /\ evidence \in Evidence /\ known \in Identities
      /\ Resolved(found, p) => evidence # Unavailable /\ evidence.git = found[p].git
      /\ ~Resolved(found, p) => evidence = Unavailable
      /\ found[p].git \in GitDirectories /\ found[p].registered \in GitDirectories
  BY EvidenceTypes, InvFacts, ReadFields
<1>2. /\ d.available \in BOOLEAN
      /\ d.available => Resolved(found, p) /\ ~found[p].prunable
      /\ d.registered = IF Resolved(found, p) THEN found[p].git ELSE found[p].registered
      /\ d.identity = IF Continuous(n, p) THEN known ELSE Issue(n, p, evidence)
      /\ d = [identity |-> d.identity, available |-> d.available, registered |-> d.registered]
  BY DEF Discovers
<1>3. /\ Issue(n, p, evidence).id = <<n, p>> /\ Issue(n, p, evidence).evidence = evidence
      /\ Issue(n, p, evidence) \in Identities
  BY <1>1, ReadAssumption DEF Issue, Identities, ReadIds
<1>4. Continuous(n, p) =>
        known.evidence = evidence /\ known.id # Unknown.id /\ Resolved(found, p)
  BY DEF Continuous
<1>5. d.identity.evidence = evidence /\ d.identity \in Identities
  BY <1>1, <1>2, <1>3, <1>4
<1>6. d.identity.id # Unknown.id
  BY <1>2, <1>3, <1>4, EmptyFacts DEF ReadIds
<1>7. d.available /\ known.id # Unknown.id /\ evidence = known.evidence => Continuous(n, p)
  BY <1>2 DEF Continuous
<1> HIDE DEF d, evidence, known
<1>8. d \in RecordTypes
  BY <1>1, <1>2, <1>5 DEF RecordTypes
<1>9. RecordIsSound(d)
  BY <1>1, <1>2, <1>5, <1>6 DEF RecordIsSound
<1>10. FollowsOn(d, known)
  BY <1>2, <1>5, <1>7 DEF FollowsOn
<1>11. \/ d.identity = known /\ d.identity.evidence # Unavailable
       \/ d.identity.id = <<n, p>>
  BY <1>1, <1>2, <1>3, <1>4
<1>12. QED
  BY <1>8, <1>9, <1>10, <1>11 DEF d, known

LEMMA IdsAreFresh ==
    ASSUME IdsAreIssued, NEW n \in ReadIds, ~HasIssued(n)
    PROVE  \A i \in IdentitiesHeld, p \in Paths : i.id # <<n, p>>
<1> SUFFICES ASSUME NEW i \in IdentitiesHeld, NEW p \in Paths, i.id = <<n, p>>
             PROVE  FALSE
  OBVIOUS
<1>1. i # Unknown
  BY EmptyFacts DEF ReadIds
<1>2. PICK m \in ReadIds, q \in Paths : i.id = <<m, q>> /\ HasIssued(m)
  BY <1>1 DEF IdsAreIssued
<1>3. QED
  BY <1>2

(* What a discovery holds: new ids are of this read and of the path.         *)
ListedRecords(n) == {Discovers(n, p) : p \in Paths}

LEMMA IssueIds ==
    ASSUME DiscoveryInv, NEW n \in ReadIds, ~HasIssued(n), HasIssued(n)',
           \A m \in ReadIds : HasIssued(m) => HasIssued(m)',
           ComesFrom({Absent} \cup ListedRecords(n),
                     {d.identity : d \in {Absent} \cup ListedRecords(n)})
    PROVE  IdsAreKept'
<1> DEFINE new == {Absent} \cup ListedRecords(n)
           identities == {d.identity : d \in new}
<1>1. /\ IdsAreIssued /\ IdsAreUnique /\ RecordsAgree /\ RecordsAreSound
  BY DEF DiscoveryInv
<1>2. /\ Records' \subseteq Records \cup new
      /\ IdentitiesHeld' \subseteq IdentitiesHeld \cup identities
  BY ComingFrom
<1>3. \A i \in IdentitiesHeld, p \in Paths : i.id # <<n, p>>
  BY <1>1, IdsAreFresh
<1>4. \A p \in Paths :
         /\ RecordIsSound(Discovers(n, p))
         /\ \/ /\ Discovers(n, p).identity \in IdentitiesHeld
               /\ Discovers(n, p).identity.evidence # Unavailable
            \/ Discovers(n, p).identity.id = <<n, p>>
  BY DiscoversFacts, HeldFacts
<1>5. \A i \in identities :
         \/ i \in IdentitiesHeld \cup {Unknown}
         \/ \E p \in Paths : i = Discovers(n, p).identity /\ i.id = <<n, p>>
  BY <1>4, EmptyFacts DEF ListedRecords
<1>6. \A d \in new \ {Absent} : \E p \in Paths : d = Discovers(n, p)
  BY DEF ListedRecords
<1>7. \A i \in IdentitiesHeld \cup {Unknown} :
         /\ \A p \in Paths : i.id # <<n, p>>
         /\ i.id = Unknown.id => i = Unknown
  BY <1>1, <1>3, UnknownIsUnique, EmptyFacts DEF ReadIds
<1> HIDE DEF new, identities
<1>8. IdsAreIssued'
  <2>1. SUFFICES ASSUME NEW i \in IdentitiesHeld'
                 PROVE  \/ i = Unknown
                        \/ \E m \in ReadIds, p \in Paths : i.id = <<m, p>> /\ HasIssued(m)'
    BY DEF IdsAreIssued
  <2>2. CASE i \in IdentitiesHeld
    BY <1>1, <2>2 DEF IdsAreIssued
  <2>3. CASE i \in identities /\ i \notin IdentitiesHeld
    BY <1>5, <2>3
  <2>4. QED
    BY <1>2, <2>2, <2>3
<1>9. IdsAreUnique'
  <2>1. SUFFICES ASSUME NEW i \in IdentitiesHeld', NEW j \in IdentitiesHeld', i.id = j.id
                 PROVE  i = j
    BY DEF IdsAreUnique
  <2>2. CASE i \in IdentitiesHeld \cup {Unknown} /\ j \in IdentitiesHeld \cup {Unknown}
    BY <1>1, <1>7, <2>1, <2>2 DEF IdsAreUnique
  <2>3. CASE \E p \in Paths : i = Discovers(n, p).identity /\ i.id = <<n, p>>
    BY <1>2, <1>5, <1>7, <2>1, <2>3
  <2>4. CASE \E p \in Paths : j = Discovers(n, p).identity /\ j.id = <<n, p>>
    BY <1>2, <1>5, <1>7, <2>1, <2>4
  <2>5. QED
    BY <1>2, <1>5, <2>2, <2>3, <2>4
<1>10. RecordsAreSound'
  BY <1>1, <1>2, <1>4, <1>6 DEF RecordsAreSound, RecordIsSound
<1>11. RecordsAgree'
  <2>1. SUFFICES ASSUME NEW d \in Records' \ {Absent}, NEW e \in Records' \ {Absent},
                        d.identity.id = e.identity.id
                 PROVE  d.registered = e.registered
    BY DEF RecordsAgree
  <2>2. /\ RecordIsSound(d) /\ RecordIsSound(e)
        /\ d.identity \in IdentitiesHeld' /\ e.identity \in IdentitiesHeld'
    BY <1>10 DEF RecordsAreSound, RecordIsSound, IdentitiesHeld
  <2>3. d.identity = e.identity
    BY <1>9, <2>1, <2>2 DEF IdsAreUnique
  <2>4. CASE d.identity.evidence # Unavailable
    BY <2>2, <2>3, <2>4 DEF RecordIsSound
  <2>5. CASE d.identity.evidence = Unavailable
    <3>1. CASE d \in Records /\ e \in Records
      BY <1>1, <2>1, <3>1 DEF RecordsAgree
    <3>2. CASE d \in Records /\ e \notin Records
      BY <1>2, <1>3, <1>4, <1>6, <2>1, <2>3, <2>5, <3>2, HeldFacts
    <3>3. CASE d \notin Records /\ e \in Records
      BY <1>2, <1>3, <1>4, <1>6, <2>1, <2>3, <2>5, <3>3, HeldFacts
    <3>4. CASE d \notin Records /\ e \notin Records
      <4>1. PICK p \in Paths : d = Discovers(n, p)
        BY <1>2, <1>6, <3>4
      <4>2. PICK q \in Paths : e = Discovers(n, q)
        BY <1>2, <1>6, <3>4
      <4>3. d.identity.id = <<n, p>> \/ d.identity \in IdentitiesHeld
        BY <1>4, <4>1
      <4>4. e.identity.id = <<n, q>> \/ e.identity \in IdentitiesHeld
        BY <1>4, <4>2
      <4>5. CASE d.identity.id = <<n, p>> /\ e.identity.id = <<n, q>>
        BY <2>1, <4>1, <4>2, <4>5
      <4>6. CASE d.identity \in IdentitiesHeld /\ d.identity.id # <<n, p>>
        BY <1>4, <2>5, <4>1, <4>6
      <4>7. CASE e.identity \in IdentitiesHeld /\ e.identity.id # <<n, q>>
        BY <1>4, <2>3, <2>5, <4>2, <4>7
      <4>8. QED
        BY <4>3, <4>4, <4>5, <4>6, <4>7
    <3>5. QED
      BY <3>1, <3>2, <3>3, <3>4
  <2>6. QED
    BY <2>4, <2>5
<1>12. QED
  BY <1>8, <1>9, <1>10, <1>11 DEF IdsAreKept

LEMMA CheckAgainStep ==
    ASSUME DiscoveryInv, NEW n \in ReadIds, CheckAgain(n)
    PROVE  DiscoveryInv'
<1>1. CASE Revoke(n)
  BY <1>1, RevokeStep DEF CheckAgain, AllResolved, At
<1>2. CASE ~Replaced /\ Discovered(n)
  <2> DEFINE found == [p \in Paths |-> NotFound]
             result == Discovery(n)
             r == [reads[n] EXCEPT !.step = "observe", !.result = result, !.found = found]
  <2>1. /\ DiscoveryTypeOK /\ IdsAreKept /\ FoundIsSomewhere /\ OneRepositoryIsSeen
        /\ LatestFollowsOn /\ MutationIsShown
    BY DEF DiscoveryInv, IdsAreKept
  <2>2. /\ reads[n].step = "resolve" /\ status = "open" /\ repository = Anchor
        /\ reads' = [reads EXCEPT ![n] = r]
    BY <1>2 DEF CheckAgain, AllResolved, At, Replaced, Discovered
  <2>3. /\ repository' = repository /\ admin' = admin /\ directory' = directory
        /\ link' = link /\ changes' = changes /\ mutation' = mutation
        /\ aside' = aside /\ undone' = undone
        /\ discovered' = discovered /\ published' = published
        /\ status' = status /\ generations' = generations /\ latest' = latest
    BY <1>2 DEF Discovered, world, session
  <2>4. reads[n] \in Reads
    BY InvFacts
  <2>5. /\ result.seen = reads[n].seen
        /\ \A p \in Paths : result.worktrees[p] \in {Absent, Discovers(n, p)}
    BY DEF Discovery
  <2>6. result \in Topologies
    <3>1. \A p \in Paths : Discovers(n, p) \in RecordTypes
      BY DiscoversFacts
    <3>2. /\ result.worktrees \in [Paths -> RecordTypes]
          /\ result = [worktrees |-> result.worktrees, seen |-> reads[n].seen]
      BY <3>1, EmptyTypes DEF Discovery
    <3>3. QED
      BY <2>4, <3>2, ReadFields DEF Topologies, RecordTypes
  <2>7. found \in [Paths -> Findings] /\ \A p \in Paths : found[p] = NotFound
    BY EmptyTypes
  <2> HIDE DEF found, result
  <2>8. /\ r \in Reads /\ r.step = "observe" /\ r.reuses = reads[n].reuses
        /\ r.known = reads[n].known /\ r.found = found /\ r.result = result
    BY <2>4, <2>6, <2>7 DEF Reads
  <2> HIDE DEF r
  <2>9. /\ reads' \in [ReadIds -> Reads] /\ reads'[n] = r
        /\ \A m \in ReadIds \ {n} : reads'[m] = reads[m]
    BY <2>2, <2>8, InvFacts
  <2>10. DiscoveryTypeOK'
    <3>1. ~(n > latest)
      BY <2>1, <2>2, EmptyFacts DEF DiscoveryTypeOK
    <3>2. QED
      BY <2>1, <2>3, <2>9, <3>1 DEF DiscoveryTypeOK
  <2>11. IdsAreKept'
    <3>1. ~HasIssued(n) /\ HasIssued(n)'
      BY <2>2, <2>8, <2>9 DEF HasIssued
    <3>2. \A m \in ReadIds : HasIssued(m) => HasIssued(m)'
      BY <2>9, <3>1 DEF HasIssued
    <3>3. \A m \in ReadIds, p \in Paths :
             /\ reads'[m].result.worktrees[p] \in Records \cup {Absent} \cup ListedRecords(n)
             /\ reads'[m].known[p] \in IdentitiesHeld
      BY <2>5, <2>8, <2>9, HeldFacts DEF ListedRecords
    <3>4. ComesFrom({Absent} \cup ListedRecords(n),
                    {d.identity : d \in {Absent} \cup ListedRecords(n)})
      BY <2>3, <3>3, HeldFacts DEF ComesFrom, UnderWay
    <3>5. QED
      BY <3>1, <3>2, <3>4, IssueIds
  <2>12. FoundIsSomewhere'
    BY <2>1, <2>3, <2>7, <2>8, <2>9, EmptyFacts DEF FoundIsSomewhere
  <2>13. OneRepositoryIsSeen'
    <3>1. reads[n].seen \subseteq Harmless
      BY <2>1, <2>2 DEF OneRepositoryIsSeen, At, Harmless
    <3>2. QED
      BY <2>1, <2>3, <2>5, <2>8, <2>9, <3>1 DEF OneRepositoryIsSeen, At, Harmless
  <2>14. LatestFollowsOn'
    <3>1. CASE latest = n
      <4>1. n \in Active /\ ~reads[n].reuses
        BY <2>1, <2>2 DEF Active, FoundIsSomewhere
      <4>2. reads[n].known = generations
        BY <2>1, <2>2, <3>1, <4>1 DEF LatestFollowsOn
      <4>3. \A p \in Paths : FollowsOn(r.result.worktrees[p], generations[p])
        <5>1. \A p \in Paths : FollowsOn(Discovers(n, p), generations[p])
          BY <4>2, DiscoversFacts
        <5>2. \A p \in Paths : FollowsOn(Absent, generations[p])
          BY DEF FollowsOn
        <5>3. QED
          BY <2>5, <2>8, <5>1, <5>2
      <4>4. QED
        BY <2>1, <2>2, <2>3, <2>8, <2>9, <3>1, <4>1, <4>2, <4>3 DEF LatestFollowsOn
    <3>2. CASE latest # n
      <4>1. latest \in Active' => latest \in Active
        BY <2>9, <3>2 DEF Active
      <4>2. latest \in Active => reads'[latest] = reads[latest]
        BY <2>9, <3>2 DEF Active
      <4>3. QED
        BY <2>1, <2>3, <4>1, <4>2 DEF LatestFollowsOn, At
    <3>3. QED
      BY <3>1, <3>2
  <2>15. MutationIsShown'
    BY <2>1, <2>3, MutationStays
  <2>16. QED
    BY <2>10, <2>11, <2>12, <2>13, <2>14, <2>15 DEF DiscoveryInv, IdsAreKept
<1>3. QED
  BY <1>1, <1>2 DEF CheckAgain

-----------------------------------------------------------------------------
(* A read ends, and the latest one publishes.                                *)

LEMMA EndReadStep ==
    ASSUME DiscoveryInv, NEW n \in ReadIds, EndRead(n)
    PROVE  DiscoveryInv'
<1>1. /\ DiscoveryTypeOK /\ IdsAreKept /\ FoundIsSomewhere /\ OneRepositoryIsSeen
      /\ LatestFollowsOn /\ MutationIsShown
  BY DEF DiscoveryInv, IdsAreKept
<1>2. /\ reads[n].step = "observe" /\ status = "open"
      /\ reads' = [reads EXCEPT ![n] = Ended]
      /\ repository' = repository /\ admin' = admin /\ directory' = directory
      /\ link' = link /\ changes' = changes /\ mutation' = mutation
      /\ aside' = aside /\ undone' = undone
      /\ status' = status /\ latest' = latest
  BY DEF EndRead, At, world
<1>3. CASE Overtaken(n) /\ UNCHANGED <<generations, discovered, published>>
  <2>1. GoesOn(n)
    BY <1>2, ReadEnds
  <2>2. QED
    BY <1>2, <1>3, <2>1, ReadGoesOn DEF StaysOrEnds, world
<1>4. CASE ~Overtaken(n) /\ Commit(n) /\ published' = reads[n].result
  <2>1. latest = n /\ n \in Active
    BY <1>2, <1>4 DEF Overtaken, Active
  <2>2. /\ reads[n].result \in Topologies
        /\ reads[n].result.worktrees \in [Paths -> RecordTypes]
        /\ reads[n].result.seen \subseteq Harmless
    BY <1>1, <1>2, InvFacts, ReadFields DEF OneRepositoryIsSeen, At
  <2>3. \/ /\ reads[n].reuses /\ reads[n].result = discovered
           /\ generations' = generations /\ discovered' = discovered
        \/ /\ generations' = [p \in Paths |-> reads[n].result.worktrees[p].identity]
           /\ discovered' = reads[n].result
    BY <1>1, <1>2, <1>4, <2>1 DEF Commit, LatestFollowsOn, At
  <2>4. /\ reads' \in [ReadIds -> Reads] /\ reads'[n] = Ended
        /\ \A m \in ReadIds \ {n} : reads'[m] = reads[m]
    BY <1>2, InvFacts, EndedFacts
  <2>5. DiscoveryTypeOK'
    <3>1. ~(n > latest)
      BY <2>1, <1>1 DEF DiscoveryTypeOK, ReadIds
    <3>2. generations' \in [Paths -> Identities] /\ discovered' \in Topologies
      BY <1>1, <2>2, <2>3 DEF DiscoveryTypeOK, RecordTypes
    <3>3. QED
      BY <1>1, <1>2, <1>4, <2>2, <2>4, <3>1, <3>2 DEF DiscoveryTypeOK
  <2>6. IdsAreKept'
    <3>1. \A m \in ReadIds : HasIssued(m) => HasIssued(m)'
      BY <2>4, EndedFacts DEF HasIssued
    <3>2. \A p \in Paths : reads[n].result.worktrees[p] \in Records
      BY HeldFacts
    <3>3. \A p \in Paths : /\ generations'[p] \in IdentitiesHeld
                           /\ discovered'.worktrees[p] \in Records
                           /\ published'.worktrees[p] \in Records
      BY <1>4, <2>3, <3>2, HeldFacts
    <3>4. \A m \in ReadIds, p \in Paths :
             /\ reads'[m].result.worktrees[p] \in Records \cup {Absent}
             /\ reads'[m].known[p] \in IdentitiesHeld \cup {Unknown}
      BY <2>4, HeldFacts, EndedFacts, EmptyFacts
    <3>5. ComesFrom({Absent}, {Unknown})
      BY <1>2, <3>3, <3>4, HeldFacts, EmptyFacts DEF ComesFrom, UnderWay
    <3>6. QED
      BY <1>1, <3>1, <3>5, KeepIds
  <2>7. FoundIsSomewhere'
    BY <1>1, <1>2, <2>4, EndedFacts, EmptyFacts DEF FoundIsSomewhere
  <2>8. OneRepositoryIsSeen'
    BY <1>1, <1>2, <2>2, <2>3, <2>4, EndedFacts DEF OneRepositoryIsSeen, At, Harmless
  <2>9. LatestFollowsOn'
    <3>1. n \notin Active'
      BY <2>4, EndedFacts DEF Active
    <3>2. \A p \in Paths : /\ published'.worktrees[p].identity = generations'[p]
                           /\ discovered'.worktrees[p].identity = generations'[p]
      BY <1>1, <1>2, <1>4, <2>3 DEF LatestFollowsOn
    <3>3. QED
      BY <1>2, <2>1, <3>1, <3>2 DEF LatestFollowsOn
  <2>10. MutationIsShown'
    BY <1>1, <1>2, MutationStays
  <2>11. QED
    BY <2>5, <2>6, <2>7, <2>8, <2>9, <2>10 DEF DiscoveryInv, IdsAreKept
<1>5. QED
  BY <1>3, <1>4 DEF EndRead

-----------------------------------------------------------------------------
(* A command runs.                                                           *)

(* Only the command changes.                                                 *)
MutationMoves ==
    /\ UNCHANGED <<world, session, reads, latest>>
    /\ UnderWay' => mutation'.shown \in IdentitiesHeld
    /\ MutationIsShown'

LEMMA MutationMovesStep ==
    ASSUME DiscoveryInv, MutationMoves
    PROVE  DiscoveryInv'
<1>1. /\ DiscoveryTypeOK /\ IdsAreKept /\ FoundIsSomewhere /\ OneRepositoryIsSeen
      /\ LatestFollowsOn /\ MutationIsShown'
  BY DEF DiscoveryInv, IdsAreKept, MutationMoves
<1>2. /\ repository' = repository /\ admin' = admin /\ directory' = directory
      /\ link' = link /\ changes' = changes /\ latest' = latest /\ reads' = reads
      /\ aside' = aside /\ undone' = undone
      /\ discovered' = discovered /\ published' = published
      /\ status' = status /\ generations' = generations
  BY DEF MutationMoves, world, session
<1>3. DiscoveryTypeOK'
  BY <1>1, <1>2 DEF DiscoveryTypeOK
<1>4. IdsAreKept'
  <2>1. ComesFrom({Absent}, {Unknown})
    BY <1>2, HeldFacts, EmptyFacts DEF ComesFrom, UnderWay, MutationMoves
  <2>2. QED
    BY <1>1, <1>2, <2>1, KeepIds DEF HasIssued
<1>5. FoundIsSomewhere' /\ OneRepositoryIsSeen' /\ LatestFollowsOn'
  BY <1>1, <1>2
     DEF FoundIsSomewhere, OneRepositoryIsSeen, LatestFollowsOn, At, Active, Harmless
<1>6. QED
  BY <1>1, <1>3, <1>4, <1>5 DEF DiscoveryInv, IdsAreKept

LEMMA BeginMutationStep ==
    ASSUME DiscoveryInv, BeginMutation
    PROVE  DiscoveryInv'
<1>1. PICK p \in Paths :
        mutation' = [step |-> "begun", path |-> p, shown |-> published.worktrees[p].identity]
  BY DEF BeginMutation
<1>2. /\ mutation'.step = "begun" /\ mutation'.path = p
      /\ mutation'.shown = published.worktrees[p].identity
  BY <1>1
<1>3. mutation'.shown \in IdentitiesHeld /\ mutation'.shown \in Identities
  BY <1>2, HeldFacts, TypeFacts DEF DiscoveryInv, RecordTypes
<1>4. MutationIsShown'
  BY <1>2, <1>3 DEF MutationIsShown, UnderWay, Inspecting, MutationRunsWhereShown
<1>5. MutationMoves
  BY <1>3, <1>4 DEF BeginMutation, MutationMoves
<1>6. QED
  BY <1>5, MutationMovesStep

LEMMA MutationEndsStep ==
    ASSUME DiscoveryInv, MutationEnds
    PROVE  DiscoveryInv'
<1>1. mutation'.step = "ended" /\ UNCHANGED <<world, session, reads, latest>>
  BY DEF MutationEnds, Commands
<1>2. MutationIsShown'
  BY <1>1 DEF MutationIsShown, UnderWay, Inspecting, MutationRunsWhereShown
<1>3. MutationMoves
  BY <1>1, <1>2 DEF MutationMoves, UnderWay
<1>4. QED
  BY <1>3, MutationMovesStep

(* An inspection compares with what the id stood for.                        *)
LEMMA InspectsStep ==
    ASSUME DiscoveryInv, UnderWay, NEW step \in {"baseline", "file"}, NEW agreed,
           NEW since \in 0 .. changes, NEW attempted,
           InspectsFrom(step, mutation.shown.evidence, agreed, since, attempted),
           since = changes => StillAgrees'
    PROVE  DiscoveryInv'
<1>1. /\ mutation'.step = step /\ mutation'.path = mutation.path
      /\ mutation'.shown = mutation.shown /\ mutation'.since = since
      /\ mutation'.target = mutation.shown.evidence
      /\ UNCHANGED <<world, session, reads, latest>>
  BY DEF InspectsFrom, Commands
<1>2. mutation.path \in Paths /\ mutation.shown \in Identities /\ changes' = changes
  BY <1>1 DEF DiscoveryInv, MutationIsShown, world
<1>3. MutationIsShown'
  BY <1>1, <1>2 DEF MutationIsShown, UnderWay, Inspecting, MutationRunsWhereShown
<1>4. MutationMoves
  BY <1>1, <1>3, HeldFacts DEF MutationMoves
<1>5. QED
  BY <1>4, MutationMovesStep

LEMMA BeginInspection ==
    ASSUME DiscoveryInv, UnderWay, NEW step \in {"baseline", "file"}, NEW attempted,
           Inspects(step, mutation.shown.evidence, attempted)
    PROVE  DiscoveryInv'
<1>1. InspectsFrom(step, mutation.shown.evidence, {}, changes, attempted)
  BY DEF Inspects
<1>2. StillAgrees'
  <2>1. mutation'.agreed = {}
    BY <1>1 DEF InspectsFrom, Commands
  <2>2. QED
    BY <2>1 DEF StillAgrees
<1>3. changes \in 0 .. changes
  BY ReadAssumption DEF DiscoveryInv, DiscoveryTypeOK
<1>4. QED
  BY <1>1, <1>2, <1>3, InspectsStep

LEMMA NextFileStep ==
    ASSUME DiscoveryInv, UnderWay, mutation.step # "begun", NextFile
    PROVE  DiscoveryInv'
<1>1. mutation.target = mutation.shown.evidence
  BY DEF DiscoveryInv, MutationIsShown
<1>2. QED
  BY <1>1, BeginInspection, MutationEndsStep DEF NextFile

(* An id stands for one identity, whoever shows it.                          *)
LEMMA LookUpTargetStep ==
    ASSUME DiscoveryInv, LookUpTarget
    PROVE  DiscoveryInv'
<1> DEFINE now == published.worktrees[mutation.path]
<1>1. UnderWay /\ mutation.path \in Paths
  BY DEF LookUpTarget, UnderWay, DiscoveryInv, MutationIsShown
<1>2. CASE now.identity.id = mutation.shown.id /\ Inspects("baseline", now.identity.evidence, FALSE)
  <2>1. now.identity \in IdentitiesHeld /\ mutation.shown \in IdentitiesHeld
    BY <1>1, HeldFacts
  <2>2. now.identity = mutation.shown
    BY <1>2, <2>1 DEF DiscoveryInv, IdsAreUnique
  <2>3. QED
    BY <1>1, <1>2, <2>2, BeginInspection
<1>3. CASE MutationEnds
  BY <1>3, MutationEndsStep
<1>4. QED
  BY <1>2, <1>3 DEF LookUpTarget

(* What is compared at this moment agrees at this moment.                    *)
LEMMA AgreesStep ==
    ASSUME DiscoveryInv, Inspecting, NEW pieces, Agrees(pieces),
           "paths" \in pieces => PathsAgree(mutation.path),
           \A piece \in Pieces \cap pieces :
               There(piece) = Expected(piece) /\ "paths" \in mutation.agreed
    PROVE  DiscoveryInv'
<1> DEFINE agreed == mutation.agreed \cup pieces
<1>1. UnderWay /\ mutation.step \in {"baseline", "file"}
  BY DEF UnderWay, Inspecting
<1>2. /\ mutation.target = mutation.shown.evidence /\ mutation.since \in 0 .. changes
      /\ mutation.since = changes => StillAgrees
  BY <1>1 DEF DiscoveryInv, MutationIsShown
<1>3. /\ mutation'.path = mutation.path /\ mutation'.target = mutation.target
      /\ mutation'.agreed = agreed
      /\ repository' = repository /\ admin' = admin /\ directory' = directory /\ link' = link
  BY DEF Agrees, InspectsFrom, Commands, world
<1>4. mutation.since = changes => StillAgrees'
  <2>1. SUFFICES ASSUME StillAgrees PROVE StillAgrees'
    BY <1>2
  <2>2. "paths" \in agreed => PathsAgree(mutation.path)'
    BY <1>3, <2>1 DEF StillAgrees, PathsAgree, Registered, LinkedPath
  <2>3. ASSUME NEW piece \in Pieces \cap agreed
        PROVE  There(piece)' = Expected(piece)' /\ "paths" \in agreed
    <3>1. There(piece) = Expected(piece) /\ "paths" \in agreed
      BY <2>1, <2>3 DEF StillAgrees
    <3>2. QED
      BY <1>3, <3>1 DEF There, Expected, IncarnationAt
  <2>4. QED
    BY <1>3, <2>2, <2>3 DEF StillAgrees, Pieces
<1>5. InspectsFrom(mutation.step, mutation.shown.evidence, agreed, mutation.since,
                   mutation.attempted)
  BY <1>2 DEF Agrees
<1>6. QED
  BY <1>1, <1>2, <1>4, <1>5, InspectsStep

LEMMA InspectionStep ==
    ASSUME DiscoveryInv,
           \/ ReadGitPaths \/ \E piece \in Pieces : StatPiece(piece)
           \/ InspectionRefuses \/ EndBaseline
    PROVE  DiscoveryInv'
<1>1. CASE ReadGitPaths
  BY <1>1, AgreesStep DEF ReadGitPaths, Pieces
<1>2. ASSUME NEW piece \in Pieces, StatPiece(piece) PROVE DiscoveryInv'
  BY <1>2, AgreesStep DEF StatPiece, Pieces
<1>3. CASE InspectionRefuses
  BY <1>3, NextFileStep, MutationEndsStep DEF InspectionRefuses, Inspecting, UnderWay
<1>4. CASE EndBaseline
  <2>1. UnderWay /\ mutation.step # "begun" /\ mutation.step = "baseline"
    BY <1>4 DEF EndBaseline, UnderWay
  <2>2. mutation.target = mutation.shown.evidence
    BY <2>1 DEF DiscoveryInv, MutationIsShown
  <2>3. QED
    BY <1>4, <2>1, <2>2, BeginInspection DEF EndBaseline
<1>5. QED
  BY <1>1, <1>2, <1>3, <1>4

(* If no other program has done anything since the inspection began, all of  *)
(* it still agrees when Git is started.                                      *)
LEMMA StartGitStep ==
    ASSUME DiscoveryInv, StartGit
    PROVE  DiscoveryInv'
<1> DEFINE p == mutation.path
<1>1. /\ UnderWay /\ Inspecting /\ mutation.step # "begun"
      /\ Pieces \subseteq mutation.agreed
  BY DEF StartGit, UnderWay, Inspecting
<1>2. /\ p \in Paths /\ mutation.shown \in Identities
      /\ mutation.target = mutation.shown.evidence
      /\ mutation.since \in 0 .. changes
      /\ mutation.since = changes => StillAgrees
  BY <1>1 DEF DiscoveryInv, MutationIsShown
<1>3. CASE /\ Commands([step |-> "running", path |-> mutation.path,
                        shown |-> mutation.shown, target |-> mutation.target,
                        since |-> mutation.since, ran |-> Places(mutation.path),
                        ranAt |-> changes])
  <2>1. /\ mutation'.step = "running" /\ mutation'.path = p
        /\ mutation'.shown = mutation.shown /\ mutation'.target = mutation.target
        /\ mutation'.since = mutation.since /\ mutation'.ran = Places(p)
        /\ mutation'.ranAt = changes
        /\ UNCHANGED <<world, session, reads, latest>>
    BY <1>3 DEF Commands
  <2>2. mutation.since # changes => changes > mutation.since
    BY <1>2, ReadAssumption DEF DiscoveryInv, DiscoveryTypeOK
  <2>3. ASSUME mutation.since = changes PROVE Places(p) = WhereShown
    <3>1. /\ PathsAgree(p) /\ repository = Anchor
          /\ directory[p] = mutation.target.directory
          /\ IncarnationAt(mutation.target.git.path) = mutation.target.git.incarnation
      BY <1>1, <1>2, <2>3 DEF StillAgrees, Pieces, There, Expected
    <3>2. mutation.target.git =
            [path |-> mutation.target.git.path,
             incarnation |-> mutation.target.git.incarnation]
      BY <1>2 DEF Identities, Evidence, GitDirectories
    <3>3. QED
      BY <1>2, <3>1, <3>2 DEF Places, WhereShown, PathsAgree
  <2>4. WhereShown' = WhereShown
    BY <2>1 DEF WhereShown
  <2>5. MutationRunsWhereShown'
    BY <2>1, <2>2, <2>3, <2>4 DEF MutationRunsWhereShown
  <2>6. MutationIsShown'
    BY <1>2, <2>1, <2>5 DEF MutationIsShown, UnderWay, Inspecting
  <2>7. MutationMoves
    BY <1>1, <2>1, <2>6, HeldFacts DEF MutationMoves
  <2>8. QED
    BY <2>7, MutationMovesStep
<1>4. CASE NextFile
  BY <1>1, <1>4, NextFileStep
<1>5. QED
  BY <1>3, <1>4 DEF StartGit

LEMMA MutationStep ==
    ASSUME DiscoveryInv, MutationNext
    PROVE  DiscoveryInv'
<1>1. CASE GitEnds
  BY <1>1, NextFileStep DEF GitEnds, UnderWay
<1>2. QED
  BY <1>1, BeginMutationStep, LookUpTargetStep, InspectionStep, StartGitStep DEF MutationNext

-----------------------------------------------------------------------------
(* Other programs change the world, and nothing else.                        *)

LEMMA OthersChangeStep ==
    ASSUME DiscoveryInv, OthersChange
    PROVE  DiscoveryInv'
<1>1. /\ DiscoveryTypeOK /\ IdsAreKept /\ FoundIsSomewhere /\ OneRepositoryIsSeen
      /\ LatestFollowsOn /\ MutationIsShown
  BY DEF DiscoveryInv, IdsAreKept
<1>2. /\ Change /\ Untouched
  BY DEF OthersChange, AddWorktree, RemoveWorktree, RecreateWorktree, MoveDirectory,
         RedirectWorktree, ReplaceRepository, RestoreRepository
<1>3. /\ discovered' = discovered /\ published' = published /\ reads' = reads
      /\ status' = status /\ generations' = generations /\ latest' = latest
      /\ mutation' = mutation
  BY <1>2 DEF Untouched, session
<1>4. /\ changes' \in 0 .. MaxChanges /\ Fresh \in Incarnations
      /\ Fresh # 0 /\ Fresh # Anchor
  BY <1>1, <1>2, ReadAssumption DEF Change, Fresh, Incarnations, Anchor, DiscoveryTypeOK
<1>5. /\ repository' \in {repository, Fresh, Anchor}
      /\ undone' \in {undone, undone \cup {repository}}
      /\ repository' # repository => repository = Anchor \/ repository \in undone'
  BY DEF OthersChange, AddWorktree, RemoveWorktree, RecreateWorktree, MoveDirectory,
         RedirectWorktree, ReplaceRepository, RestoreRepository
<1>6. admin' \in [Linked -> Incarnations] /\ aside' \in {aside, admin}
  <2>1. /\ admin \in [Linked -> Incarnations] /\ aside \in [Linked -> Incarnations]
        /\ 0 \in Incarnations
    BY <1>1, DirectoryTypes DEF DiscoveryTypeOK
  <2>2. ASSUME NEW p \in Linked,
               AddWorktree(p) \/ RemoveWorktree(p) \/ RecreateWorktree(p)
                 \/ MoveDirectory(p) \/ RedirectWorktree(p)
        PROVE  admin' \in [Linked -> Incarnations] /\ aside' = aside
    BY <1>4, <2>1, <2>2 DEF AddWorktree, RemoveWorktree, RecreateWorktree, MoveDirectory,
                            RedirectWorktree
  <2>3. ASSUME ReplaceRepository
        PROVE  admin' \in [Linked -> Incarnations] /\ aside' \in {aside, admin}
    BY <1>4, <2>1, <2>3 DEF ReplaceRepository
  <2>4. ASSUME RestoreRepository
        PROVE  admin' \in [Linked -> Incarnations] /\ aside' = aside
    BY <2>1, <2>4 DEF RestoreRepository
  <2>5. QED
    BY <2>2, <2>3, <2>4 DEF OthersChange
<1>7. directory' \in [Paths -> Incarnations]
  <2>1. /\ directory \in [Paths -> Incarnations]
        /\ 0 \in Incarnations /\ 1 \in Incarnations
    BY <1>1, DirectoryTypes DEF DiscoveryTypeOK
  <2>2. ASSUME NEW p \in Linked,
               AddWorktree(p) \/ RemoveWorktree(p) \/ RecreateWorktree(p)
                 \/ MoveDirectory(p) \/ RedirectWorktree(p)
        PROVE  directory' \in [Paths -> Incarnations]
    BY <1>4, <2>1, <2>2 DEF AddWorktree, RemoveWorktree, RecreateWorktree, MoveDirectory,
                            RedirectWorktree
  <2>3. ReplaceRepository \/ RestoreRepository => directory' \in [Paths -> Incarnations]
    BY <2>1 DEF ReplaceRepository, RestoreRepository
  <2>4. QED
    BY <2>2, <2>3 DEF OthersChange
<1>8. link' \in [Linked -> Links]
  <2>1. link \in [Linked -> Links]
    BY <1>1 DEF DiscoveryTypeOK
  <2>2. ASSUME NEW p \in Linked,
               AddWorktree(p) \/ RemoveWorktree(p) \/ RecreateWorktree(p)
                 \/ MoveDirectory(p) \/ RedirectWorktree(p)
        PROVE  link' \in [Linked -> Links]
    BY <2>1, <2>2 DEF AddWorktree, RemoveWorktree, RecreateWorktree, MoveDirectory,
                      RedirectWorktree, Links
  <2>3. ReplaceRepository \/ RestoreRepository => link' \in [Linked -> Links]
    BY <2>1 DEF ReplaceRepository, RestoreRepository
  <2>4. QED
    BY <2>2, <2>3 DEF OthersChange
<1>9. DiscoveryTypeOK'
  <2>1. repository' \in Incarnations /\ undone' \subseteq Incarnations
    BY <1>1, <1>4, <1>5, DirectoryTypes DEF DiscoveryTypeOK, Anchor
  <2>2. QED
    BY <1>1, <1>3, <1>4, <1>6, <1>7, <1>8, <2>1 DEF DiscoveryTypeOK
<1>10. IdsAreKept'
  <2>1. ComesFrom({Absent}, {Unknown})
    BY <1>3, HeldFacts, EmptyFacts DEF ComesFrom, UnderWay
  <2>2. QED
    BY <1>1, <1>3, <2>1, KeepIds DEF HasIssued
<1>11. FoundIsSomewhere' /\ LatestFollowsOn'
  BY <1>1, <1>3, <1>4, <1>5 DEF FoundIsSomewhere, LatestFollowsOn, At, Active, Anchor
<1>12. OneRepositoryIsSeen'
  <2>1. Harmless \cup {repository} \subseteq Harmless' \cup {repository'}
    BY <1>5 DEF Harmless
  <2>2. Harmless \subseteq Harmless'
    BY <1>5 DEF Harmless
  <2>3. QED
    BY <1>1, <1>3, <2>1, <2>2 DEF OneRepositoryIsSeen, At
<1>13. MutationIsShown'
  <2>1. Inspecting => mutation.since \in 0 .. changes' /\ mutation.since # changes'
    BY <1>1, <1>2, ReadAssumption DEF MutationIsShown, Change, DiscoveryTypeOK
  <2>2. QED
    BY <1>1, <1>3, <2>1
       DEF MutationIsShown, UnderWay, Inspecting, MutationRunsWhereShown, WhereShown
<1>14. QED
  BY <1>9, <1>10, <1>11, <1>12, <1>13 DEF DiscoveryInv, IdsAreKept

LEMMA DiscoveryStutters ==
    ASSUME DiscoveryInv, UNCHANGED discoveryVars
    PROVE  DiscoveryInv'
<1>1. MutationIsShown'
  BY MutationStays DEF discoveryVars, world, DiscoveryInv
<1>2. MutationMoves
  BY <1>1, HeldFacts DEF MutationMoves, UnderWay, discoveryVars
<1>3. QED
  BY <1>2, MutationMovesStep

-----------------------------------------------------------------------------
(* The theorems.                                                             *)

LEMMA DiscoveryStarts ==
    ASSUME DiscoveryInit
    PROVE  DiscoveryInv
<1>1. /\ repository = Anchor /\ changes = 0 /\ status = "open" /\ latest = 0
      /\ discovered = NoDiscovery /\ published = NoDiscovery /\ undone = {}
      /\ mutation.step = "none"
      /\ \A p \in Paths : generations[p] = Unknown
      /\ \A n \in ReadIds : reads[n] = NoRead
      /\ generations \in [Paths -> Identities] /\ reads \in [ReadIds -> Reads]
  BY EmptyTypes DEF DiscoveryInit, NoMutation
<1>2. DiscoveryTypeOK
  <2>1. /\ Anchor \in Incarnations /\ 0 \in 0 .. MaxChanges /\ 0 \in 0 .. MaxReads
    BY ReadAssumption, DirectoryTypes DEF Anchor
  <2>2. /\ admin \in [Linked -> Incarnations] /\ directory \in [Paths -> Incarnations]
        /\ link \in [Linked -> Links] /\ aside \in [Linked -> Incarnations]
    BY DirectoryTypes DEF DiscoveryInit, Links
  <2>3. QED
    BY <1>1, <2>1, <2>2, EmptyTypes DEF DiscoveryTypeOK
<1>3. \A d \in Records : d = Absent
  BY <1>1, EmptyFacts DEF Records
<1>4. \A i \in IdentitiesHeld : i = Unknown
  BY <1>1, <1>3, EmptyFacts DEF IdentitiesHeld, UnderWay
<1>5. IdsAreIssued /\ IdsAreUnique /\ RecordsAgree /\ RecordsAreSound
  BY <1>3, <1>4 DEF IdsAreIssued, IdsAreUnique, RecordsAgree, RecordsAreSound
<1>6. FoundIsSomewhere /\ OneRepositoryIsSeen
  BY <1>1, EmptyFacts DEF FoundIsSomewhere, OneRepositoryIsSeen, At, Anchor
<1>7. LatestFollowsOn /\ MutationIsShown
  BY <1>1, EmptyFacts
     DEF LatestFollowsOn, Active, ReadIds, MutationIsShown, UnderWay, Inspecting,
         MutationRunsWhereShown
<1>8. QED
  BY <1>2, <1>5, <1>6, <1>7 DEF DiscoveryInv

(* The invariant of the discovery, which says what every id that is held     *)
(* anywhere stands for, is kept by each step of a read, of a command and of  *)
(* other programs (repository-engine.ts:300-460).                            *)
THEOREM DiscoveryInvariance == DiscoverySpec => []DiscoveryInv
<1>1. DiscoveryInit => DiscoveryInv
  BY DiscoveryStarts
<1>2. DiscoveryInv /\ [DiscoveryNext]_discoveryVars => DiscoveryInv'
  <2>1. SUFFICES ASSUME DiscoveryInv, [DiscoveryNext]_discoveryVars
                 PROVE  DiscoveryInv'
    OBVIOUS
  <2>2. CASE \E scoped \in BOOLEAN : BeginRead(scoped)
    BY <2>1, <2>2, BeginReadStep
  <2>3. ASSUME NEW n \in ReadIds,
               \/ CheckRepository(n) \/ ListWorktrees(n)
               \/ \E p \in Paths :
                   \/ StatDirectory(n, p) \/ ReadGitDirectory(n, p)
                   \/ ReadBacklink(n, p) \/ StatGitDirectory(n, p)
               \/ CheckAgain(n) \/ EndRead(n)
               \/ SessionEnded(n) \/ ReadFails(n)
        PROVE  DiscoveryInv'
    BY <2>1, <2>3, CheckRepositoryStep, ListWorktreesStep, StatDirectoryStep,
       ReadGitDirectoryStep, ReadBacklinkStep, StatGitDirectoryStep, CheckAgainStep, EndReadStep, SessionEndedStep
  <2>4. CASE MutationNext
    BY <2>1, <2>4, MutationStep
  <2>5. CASE OthersChange
    BY <2>1, <2>5, OthersChangeStep
  <2>6. CASE UNCHANGED discoveryVars
    BY <2>1, <2>6, DiscoveryStutters
  <2>7. QED
    BY <2>1, <2>2, <2>3, <2>4, <2>5, <2>6 DEF DiscoveryNext
<1>3. QED
  BY <1>1, <1>2, PTL DEF DiscoverySpec

(* However an id has been re-read since a window saw it, Git runs in the     *)
(* directories the id stood for then, unless another program changed         *)
(* something after the inspection for that file had begun: the target a      *)
(* command looks up has the identity the window saw, and what an inspection  *)
(* has compared stays so while nobody else does anything                     *)
(* (repository-session.ts:1592-1678, file-mutation-inspection.ts:46-171).    *)
THEOREM CommandsRunWhereShown == DiscoverySpec => []MutationRunsWhereShown
<1>1. DiscoveryInv => MutationRunsWhereShown
  BY DEF DiscoveryInv, MutationIsShown
<1>2. QED
  BY <1>1, DiscoveryInvariance, PTL

(* What is published changes only where the latest read ends.                *)
LEMMA OnlyTheLatestPublishes ==
    ASSUME DiscoveryInv, [DiscoveryNext]_discoveryVars, published' # published
    PROVE  /\ status = "open" /\ latest \in ReadIds
           /\ At(latest, "observe") /\ latest \in Active
           /\ published' = reads[latest].result
<1>1. PICK n \in ReadIds : EndRead(n)
  BY DEF DiscoveryNext, discoveryVars, session, BeginRead, CheckRepository, ListWorktrees,
         StatDirectory, ReadGitDirectory, ReadBacklink, StatGitDirectory, Finds,
         CheckAgain, Discovered, Revoke, SessionEnded, ReadFails, Ends,
         MutationNext, BeginMutation, LookUpTarget, ReadGitPaths, StatPiece,
         InspectionRefuses, EndBaseline, StartGit, GitEnds, NextFile, MutationEnds,
         Agrees, Inspects, InspectsFrom, Commands, OthersChange,
         AddWorktree, RemoveWorktree, RecreateWorktree, MoveDirectory, RedirectWorktree,
         ReplaceRepository, RestoreRepository, Untouched
<1>2. QED
  BY <1>1 DEF EndRead, Overtaken, At, Active

(* A topology that is published was listed and resolved in the opened        *)
(* repository and in repositories that were gone again when the read checked *)
(* for the second time, and none is published once a read has seen that the  *)
(* repository was replaced (repository-engine.ts:305-347).                   *)
THEOREM OneRepositoryPublished == DiscoverySpec => OneRepositoryIsPublished
<1>1. DiscoveryInv /\ [DiscoveryNext]_discoveryVars
        => [published' # published =>
              /\ status = "open"
              /\ published'.seen \subseteq {Anchor} \cup undone]_discoveryVars
  BY OnlyTheLatestPublishes DEF DiscoveryInv, OneRepositoryIsSeen, Harmless
<1>2. QED
  BY <1>1, DiscoveryInvariance, PTL DEF DiscoverySpec, OneRepositoryIsPublished

(* From one published topology to the next an id stays with one registration *)
(* and one pair of directories, and is never given up while they stay        *)
(* (repository-engine.ts:352-370).                                           *)
THEOREM IdsFollow == DiscoverySpec => IdsFollowRegistrations
<1> DEFINE Followed ==
       published' # published =>
         \A p \in Paths : Listed(published, p) /\ Listed(published', p) =>
            /\ IdAt(published', p) = IdAt(published, p) =>
                 /\ published'.worktrees[p].registered
                      = published.worktrees[p].registered
                 /\ EvidenceAt(published', p) = EvidenceAt(published, p)
            /\ /\ published'.worktrees[p].available
               /\ EvidenceAt(published', p) = EvidenceAt(published, p)
               => IdAt(published', p) = IdAt(published, p)
<1>1. DiscoveryInv /\ [DiscoveryNext]_discoveryVars => [Followed]_discoveryVars
  <2>1. SUFFICES ASSUME DiscoveryInv, [DiscoveryNext]_discoveryVars,
                        published' # published,
                        NEW p \in Paths, Listed(published, p), Listed(published', p)
                 PROVE  /\ IdAt(published', p) = IdAt(published, p) =>
                            /\ published'.worktrees[p].registered
                                 = published.worktrees[p].registered
                            /\ EvidenceAt(published', p) = EvidenceAt(published, p)
                        /\ /\ published'.worktrees[p].available
                           /\ EvidenceAt(published', p) = EvidenceAt(published, p)
                           => IdAt(published', p) = IdAt(published, p)
    OBVIOUS
  <2> DEFINE old == published.worktrees[p]
             new == reads[latest].result.worktrees[p]
  <2>2. /\ status = "open" /\ latest \in ReadIds /\ At(latest, "observe")
        /\ latest \in Active /\ published' = reads[latest].result
    BY <2>1, OnlyTheLatestPublishes
  <2>3. published'.worktrees[p] = new /\ new # Absent /\ old # Absent
    BY <2>1, <2>2 DEF Listed
  <2>4. old \in Records /\ new \in Records
    BY <2>2, HeldFacts
  <2>5. old.identity \in IdentitiesHeld /\ new.identity \in IdentitiesHeld
    BY <2>4, HeldFacts
  <2>6. old.identity.id # Unknown.id
    BY <2>1, <2>3, <2>4 DEF DiscoveryInv, RecordsAreSound, RecordIsSound
  <2>7. new.identity.id = old.identity.id =>
          new.registered = old.registered /\ new.identity = old.identity
    BY <2>1, <2>3, <2>4, <2>5 DEF DiscoveryInv, RecordsAgree, IdsAreUnique
  <2>8. new.available /\ new.identity.evidence = old.identity.evidence
          => new.identity = old.identity
    <3>1. /\ old.identity = generations[p]
          /\ discovered.worktrees[p].identity = generations[p]
          /\ IF reads[latest].reuses THEN reads[latest].result = discovered
             ELSE FollowsOn(new, generations[p])
      BY <2>1, <2>2 DEF DiscoveryInv, LatestFollowsOn
    <3>2. QED
      BY <2>3, <2>6, <3>1 DEF FollowsOn
  <2>9. QED
    BY <2>3, <2>7, <2>8 DEF IdAt, EvidenceAt
<1>2. QED
  BY <1>1, DiscoveryInvariance, PTL DEF DiscoverySpec, IdsFollowRegistrations
==============================================================================
