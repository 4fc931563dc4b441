---------------------- MODULE RepositoryPublicationProofs ----------------------
(***************************************************************************)
(* What RepositoryPublication publishes, for every set of worktrees and    *)
(* reads, any number of attempts and any number of changes; then what a    *)
(* FileMutation among those reads reports of its files.                    *)
(***************************************************************************)
EXTENDS FileMutation, TLAPS

-----------------------------------------------------------------------------
LEMMA AllPendingFacts ==
    /\ AllPending \in [Worktrees -> Sample]
    /\ \A w \in Worktrees : AllPending[w] = Pending /\ AllPending[w].kind = "pending"
  BY DEF AllPending, Sample, Pending

LEMMA IdleIsRead == Idle \in Read /\ Idle.stage = "idle"
                     /\ \A w \in Worktrees : Idle.sample[w] = Pending
  BY AllPendingFacts DEF Idle, Read

LEMMA FailedReadFacts ==
    ASSUME NEW read \in Read
    PROVE  LET n == FailedRead(read)
           IN  /\ n \in Read /\ n.stage = "failed" /\ n.generation = read.generation
               /\ \A w \in Worktrees : n.sample[w] = Pending
  BY AllPendingFacts DEF FailedRead, Idle, Read

(* A read set up anew, and a read that tries once more.                    *)
LEMMA NewReadFacts ==
    ASSUME NEW number \in Nat, NEW scope \in SUBSET Worktrees
    PROVE  LET n == NewRead(number, scope)
           IN  /\ n \in Read /\ n.stage = "shared" /\ n.generation = number
               /\ \A w \in Worktrees : n.sample[w] = Pending
<1> DEFINE idle == Idle
<1>1. idle \in Read /\ \A w \in Worktrees : idle.sample[w] = Pending
  BY IdleIsRead
<1>2. NewRead(number, scope) =
        [idle EXCEPT !.stage = "shared", !.generation = number, !.scope = scope]
  BY DEF NewRead
<1> HIDE DEF idle
<1>3. QED
  BY <1>1, <1>2 DEF Read

LEMMA RetriedFacts ==
    ASSUME NEW read \in Read, NEW refs \in Nat
    PROVE  LET n == Retried(read, refs)
           IN  /\ n \in Read /\ n.stage = read.stage /\ n.generation = read.generation
               /\ n.refs = refs /\ \A w \in Worktrees : n.sample[w] = Pending
<1> DEFINE first == [read EXCEPT !.attempt = read.attempt + 1]
           second == [first EXCEPT !.refs = refs]
           third == [second EXCEPT !.sample = AllPending]
<1>1. /\ first \in Read /\ first.stage = read.stage
      /\ first.generation = read.generation
  BY DEF Read
<1>2. Retried(read, refs) = third
  BY DEF Retried
<1> HIDE DEF first
<1>3. /\ second \in Read /\ second.stage = read.stage
      /\ second.generation = read.generation /\ second.refs = refs
  BY <1>1 DEF Read
<1> HIDE DEF second
<1>4. /\ third \in Read /\ third.stage = read.stage
      /\ third.generation = read.generation /\ third.refs = refs
      /\ third.sample = AllPending
  BY <1>3, AllPendingFacts DEF Read
<1> HIDE DEF third
<1>5. QED
  BY <1>2, <1>4, AllPendingFacts

LEMMA NoSnapshotFacts ==
    /\ NoSnapshot \in Snapshot
    /\ NoSnapshot.refs = 0 /\ NoSnapshot.revision = 0
    /\ \A w \in Worktrees : NoSnapshot.worktree[w] = 0 /\ NoSnapshot.freshness[w] = "failed"
  BY DEF NoSnapshot, Snapshot

-----------------------------------------------------------------------------
(* The kinds of steps.                                                     *)

(* The repository moves on.                                                *)
LEMMA RepositoryStep ==
    ASSUME PublicationInv, repo' \in Facts, repo.refs <= repo'.refs,
           \A w \in Worktrees : repo.worktree[w] <= repo'.worktree[w],
           UNCHANGED <<generation, closed, published, reads, requested>>
    PROVE  PublicationInv'
<1>1. TypeOK' /\ CoherentSnapshot' /\ GenerationsDiffer'
  BY DEF PublicationInv, TypeOK, CoherentSnapshot, GenerationsDiffer, Active
<1>2. ASSUME NEW r \in Reads
      PROVE  ReadIsBetween(reads[r])' /\ ObservedTogether(reads[r])'
  <2>1. ReadIsBetween(reads[r]) /\ ObservedTogether(reads[r]) /\ reads[r] \in Read
    BY DEF PublicationInv, TypeOK
  <2>2. QED
    BY <2>1 DEF PublicationInv, TypeOK, ReadIsBetween, ObservedTogether, Read, Sample, Facts
<1>3. SnapshotPrecedes'
  BY DEF PublicationInv, TypeOK, SnapshotPrecedes, Active, Superseded, Facts, Snapshot
<1>4. QED
  BY <1>1, <1>2, <1>3 DEF PublicationInv

(* One read goes on.                                                       *)
LEMMA ReadProgress ==
    ASSUME PublicationInv, NEW r \in Reads, Active(r), NEW n \in Read,
           n.stage # "idle", n.generation = reads[r].generation,
           ReadIsBetween(n), ObservedTogether(n),
           reads' = [reads EXCEPT ![r] = n],
           UNCHANGED <<repo, generation, closed, published, requested>>
    PROVE  PublicationInv'
<1>1. /\ reads' \in [Reads -> Read] /\ reads'[r] = n
      /\ \A q \in Reads : q # r => reads'[q] = reads[q]
  BY DEF PublicationInv, TypeOK
<1>2. TypeOK' /\ CoherentSnapshot'
  BY <1>1 DEF PublicationInv, TypeOK, CoherentSnapshot
<1>3. GenerationsDiffer'
  BY <1>1 DEF PublicationInv, GenerationsDiffer, Active
<1>4. ASSUME NEW q \in Reads
      PROVE  ReadIsBetween(reads[q])' /\ ObservedTogether(reads[q])'
  <2>1. ReadIsBetween(reads'[q]) /\ ObservedTogether(reads'[q])
    BY <1>1 DEF PublicationInv
  <2>2. QED
    BY <2>1 DEF ReadIsBetween, ObservedTogether
<1>5. SnapshotPrecedes'
  BY <1>1 DEF PublicationInv, SnapshotPrecedes, Active, Superseded
<1>6. QED
  BY <1>2, <1>3, <1>4, <1>5 DEF PublicationInv

(* A read is answered; the latest one may publish.                         *)
LEMMA ReadAnswered ==
    ASSUME PublicationInv, NEW r \in Reads, Active(r), Answer(r),
           UNCHANGED <<repo, generation, closed, requested>>,
           published' \in Snapshot, CoherentSnapshot',
           published'.refs <= repo.refs,
           \A w \in Worktrees : published'.worktree[w] <= repo.worktree[w],
           published' = published \/ ~Superseded(r)
    PROVE  PublicationInv'
<1>1. /\ reads' \in [Reads -> Read] /\ reads'[r] = Idle
      /\ \A q \in Reads : q # r => reads'[q] = reads[q]
  BY IdleIsRead DEF PublicationInv, TypeOK, Answer
<1>2. TypeOK' /\ CoherentSnapshot'
  BY <1>1 DEF PublicationInv, TypeOK
<1>3. GenerationsDiffer'
  BY <1>1, IdleIsRead DEF PublicationInv, GenerationsDiffer, Active
<1>4. ASSUME NEW q \in Reads
      PROVE  ReadIsBetween(reads[q])' /\ ObservedTogether(reads[q])'
  <2>1. ReadIsBetween(reads'[q]) /\ ObservedTogether(reads'[q])
    <3>1. ReadIsBetween(Idle) /\ ObservedTogether(Idle)
      BY IdleIsRead DEF ReadIsBetween, ObservedTogether
    <3>2. QED
      BY <1>1, <3>1 DEF PublicationInv
  <2>2. QED
    BY <2>1 DEF ReadIsBetween, ObservedTogether
<1>5. SnapshotPrecedes'
  <2>1. \A q \in Reads : Active(q)' /\ ~Superseded(q)' =>
           q # r /\ Active(q) /\ ~Superseded(q)
    BY <1>1, IdleIsRead DEF Active, Superseded
  <2>2. \A q \in Reads : Active(q)' /\ ~Superseded(q)' => published' = published
    BY <2>1 DEF PublicationInv, GenerationsDiffer, Superseded
  <2>3. QED
    BY <2>1, <2>2 DEF PublicationInv, SnapshotPrecedes
<1>6. QED
  BY <1>2, <1>3, <1>4, <1>5 DEF PublicationInv

-----------------------------------------------------------------------------
(* Actions.                                                                *)

LEMMA StartReadStep ==
    ASSUME PublicationInv, NEW r \in Reads, NEW scope \in SUBSET Worktrees,
           StartRead(r, scope)
    PROVE  PublicationInv'
<1> DEFINE full == IF published.exists THEN scope ELSE Worktrees
           n == NewRead(generation + 1, full)
<1>1. generation \in Nat /\ full \in SUBSET Worktrees
  BY DEF PublicationInv, TypeOK
<1>0. reads' = [reads EXCEPT ![r] = n]
  BY DEF StartRead
<1> HIDE DEF full
<1>2. /\ n \in Read /\ n.stage = "shared" /\ n.generation = generation + 1
      /\ \A w \in Worktrees : n.sample[w] = Pending
  BY <1>1, NewReadFacts
<1> HIDE DEF n
<1>3. /\ reads' \in [Reads -> Read] /\ reads'[r] = n
      /\ \A q \in Reads : q # r => reads'[q] = reads[q]
  BY <1>0, <1>2 DEF PublicationInv, TypeOK
<1>4. TypeOK' /\ CoherentSnapshot'
  BY <1>1, <1>3 DEF PublicationInv, TypeOK, StartRead, CoherentSnapshot
<1>5. \A q \in Reads : q # r /\ Active(q) =>
         /\ Active(q)' /\ reads[q].generation \in Nat
         /\ reads[q].generation <= generation /\ Superseded(q)'
  BY <1>1, <1>3 DEF PublicationInv, TypeOK, Read, GenerationsDiffer, Active, Superseded,
     StartRead
<1>6. GenerationsDiffer'
  BY <1>1, <1>2, <1>3, <1>5 DEF PublicationInv, GenerationsDiffer, Active, StartRead
<1>7. ASSUME NEW q \in Reads
      PROVE  ReadIsBetween(reads[q])' /\ ObservedTogether(reads[q])'
  <2>1. CASE q = r
    BY <1>2, <1>3, <2>1 DEF ReadIsBetween, ObservedTogether
  <2>2. CASE q # r /\ Active(q)
    <3>1. ReadIsBetween(reads[q]) /\ ObservedTogether(reads[q])
      BY DEF PublicationInv
    <3>2. reads'[q] = reads[q] /\ reads'[q].generation # generation'
      BY <1>3, <1>5, <2>2 DEF Superseded
    <3>3. QED
      BY <3>1, <3>2 DEF ReadIsBetween, ObservedTogether, StartRead
  <2>3. CASE q # r /\ ~Active(q)
    <3>1. ReadIsBetween(reads[q]) /\ reads'[q] = reads[q] /\ reads[q].stage = "idle"
      BY <1>3, <2>3 DEF PublicationInv, Active
    <3>2. QED
      BY <3>1 DEF ReadIsBetween, ObservedTogether
  <2>4. QED
    BY <2>1, <2>2, <2>3
<1>8. SnapshotPrecedes'
  BY <1>3, <1>5 DEF PublicationInv, TypeOK, Facts, SnapshotPrecedes, StartRead, Active
<1>9. QED
  BY <1>4, <1>6, <1>7, <1>8 DEF PublicationInv

LEMMA ObserveSharedStep ==
    ASSUME PublicationInv, NEW r \in Reads, ObserveShared(r)
    PROVE  PublicationInv'
<1> DEFINE n == [reads[r] EXCEPT !.stage = "worktrees", !.refs = repo.refs]
<1>1. reads[r] \in Read /\ ReadIsBetween(reads[r]) /\ reads[r].stage = "shared"
      /\ repo \in Facts /\ requested \in Facts
  BY DEF PublicationInv, TypeOK, ObserveShared
<1>2. /\ n \in Read /\ n.stage = "worktrees" /\ n.refs = repo.refs
      /\ n.generation = reads[r].generation /\ n.sample = reads[r].sample
  BY <1>1 DEF Read, Facts
<1>3. reads' = [reads EXCEPT ![r] = n]
  BY DEF ObserveShared, PublicationInv, TypeOK
<1> HIDE DEF n
<1>4. ReadIsBetween(n) /\ ObservedTogether(n)
  BY <1>1, <1>2 DEF ReadIsBetween, ObservedTogether, Pending, PublicationInv,
     SnapshotPrecedes, Facts
<1>5. QED
  BY <1>1, <1>2, <1>3, <1>4, ReadProgress DEF Active, ObserveShared

LEMMA ObserveWorktreeStep ==
    ASSUME PublicationInv, NEW r \in Reads, NEW w \in Worktrees, ObserveWorktree(r, w)
    PROVE  PublicationInv'
<1>1. reads[r] \in Read /\ ReadIsBetween(reads[r]) /\ reads[r].stage = "worktrees"
      /\ repo \in Facts /\ requested \in Facts
  BY DEF PublicationInv, TypeOK, ObserveWorktree
<1>2. PICK seen \in {[kind |-> "fresh", version |-> repo.worktree[w],
                      seenWith |-> repo.refs], Failed} :
           reads' = [reads EXCEPT ![r].sample[w] = seen]
  BY DEF ObserveWorktree
<1>3. /\ seen \in Sample
      /\ seen.kind = "fresh" => seen.version = repo.worktree[w] /\ seen.seenWith = repo.refs
  BY <1>1, <1>2 DEF Sample, Failed, Facts
<1> DEFINE n == [reads[r] EXCEPT !.sample[w] = seen]
<1>4. /\ n \in Read /\ n.stage = "worktrees" /\ n.refs = reads[r].refs
      /\ n.generation = reads[r].generation /\ n.sample[w] = seen
      /\ \A v \in Worktrees : v # w => n.sample[v] = reads[r].sample[v]
  BY <1>1, <1>3 DEF Read
<1>5. reads' = [reads EXCEPT ![r] = n]
  BY <1>2 DEF PublicationInv, TypeOK
<1> HIDE DEF n
<1>6. ReadIsBetween(n) /\ ObservedTogether(n)
  BY <1>1, <1>3, <1>4 DEF ReadIsBetween, ObservedTogether, PublicationInv,
     SnapshotPrecedes, Facts
<1>7. QED
  BY <1>1, <1>4, <1>5, <1>6, ReadProgress DEF Active, ObserveWorktree

LEMMA FailStep ==
    ASSUME PublicationInv, NEW r \in Reads, Active(r),
           reads' = [reads EXCEPT ![r] = FailedRead(reads[r])],
           UNCHANGED <<repo, generation, closed, published, requested>>
    PROVE  PublicationInv'
<1> DEFINE n == FailedRead(reads[r])
<1>1. reads[r] \in Read
  BY DEF PublicationInv, TypeOK
<1>2. /\ n \in Read /\ n.stage = "failed" /\ n.generation = reads[r].generation
      /\ \A w \in Worktrees : n.sample[w] = Pending
  BY <1>1, FailedReadFacts
<1> HIDE DEF n
<1>3. ReadIsBetween(n) /\ ObservedTogether(n)
  BY <1>2 DEF ReadIsBetween, ObservedTogether
<1>4. QED
  BY <1>2, <1>3, ReadProgress DEF n

(* Equal refs before and after mean that all the worktrees were read with  *)
(* them, because the versions only grow.                                   *)
LEMMA CompareSharedStep ==
    ASSUME PublicationInv, NEW r \in Reads, CompareShared(r)
    PROVE  PublicationInv'
<1>1. reads[r] \in Read /\ ReadIsBetween(reads[r]) /\ reads[r].stage = "worktrees"
      /\ repo \in Facts /\ requested \in Facts
  BY DEF PublicationInv, TypeOK, CompareShared
<1> DEFINE o == [reads[r] EXCEPT !.stage = "observed", !.attempt = 0]
           again == Retried(reads[r], repo.refs)
<1>2. \/ repo.refs = reads[r].refs /\ reads' = [reads EXCEPT ![r] = o]
      \/ reads' = [reads EXCEPT ![r] = FailedRead(reads[r])]
      \/ reads' = [reads EXCEPT ![r] = again]
  <2>1. reads' = [reads EXCEPT ![r] =
           IF repo.refs = reads[r].refs THEN o
           ELSE IF reads[r].attempt + 1 = MaxAttempts THEN FailedRead(reads[r])
           ELSE again]
    BY DEF CompareShared, PublicationInv, TypeOK
  <2> HIDE DEF o, again
  <2>2. QED
    BY <2>1
<1>3. CASE repo.refs = reads[r].refs /\ reads' = [reads EXCEPT ![r] = o]
  <2>1. /\ o \in Read /\ o.stage = "observed" /\ o.refs = repo.refs
        /\ o.generation = reads[r].generation /\ o.sample = reads[r].sample
    BY <1>1, <1>3 DEF Read
  <2> HIDE DEF o
  <2>2. ReadIsBetween(o) /\ ObservedTogether(o)
    BY <1>1, <1>3, <2>1 DEF ReadIsBetween, ObservedTogether, Read, Sample, Facts
  <2>3. QED
    BY <1>1, <1>3, <2>1, <2>2, ReadProgress DEF Active, CompareShared
<1>4. CASE reads' = [reads EXCEPT ![r] = FailedRead(reads[r])]
  BY <1>1, <1>4, FailStep DEF Active, CompareShared
<1>5. CASE reads' = [reads EXCEPT ![r] = again]
  <2>1. /\ again \in Read /\ again.stage = "worktrees" /\ again.refs = repo.refs
        /\ again.generation = reads[r].generation
        /\ \A w \in Worktrees : again.sample[w] = Pending
    BY <1>1, RetriedFacts DEF Facts
  <2> HIDE DEF again
  <2>2. ReadIsBetween(again) /\ ObservedTogether(again)
    BY <1>1, <2>1 DEF ReadIsBetween, ObservedTogether, PublicationInv,
       SnapshotPrecedes, Facts, Pending
  <2>3. QED
    BY <1>1, <1>5, <2>1, <2>2, ReadProgress DEF Active, CompareShared
<1>6. QED
  BY <1>2, <1>3, <1>4, <1>5

-----------------------------------------------------------------------------
(* What the latest read publishes.                                         *)

Seen(read, w) == w \in read.scope /\ read.sample[w].kind = "fresh"

LEMMA CandidateFields ==
    ASSUME published \in Snapshot, NEW read \in Read
    PROVE  LET c == Candidate(read)
           IN  /\ c \in Snapshot /\ c.exists /\ c.refs = read.refs /\ c.refresh = "fresh"
               /\ \A w \in Worktrees :
                     /\ Seen(read, w) => /\ c.worktree[w] = read.sample[w].version
                                         /\ c.seenWith[w] = read.sample[w].seenWith
                     /\ ~Seen(read, w) => /\ c.worktree[w] = published.worktree[w]
                                          /\ c.seenWith[w] = published.seenWith[w]
                     /\ c.freshness[w] = Freshness(read, w)
               /\ c.revision = Revision(read.refs, c.worktree, c.freshness)
<1> DEFINE seen == {w \in read.scope : read.sample[w].kind = "fresh"}
           worktree == [w \in Worktrees |-> IF w \in seen THEN read.sample[w].version
                                            ELSE published.worktree[w]]
           freshness == [w \in Worktrees |-> Freshness(read, w)]
           seenWith == [w \in Worktrees |-> IF w \in seen THEN read.sample[w].seenWith
                                            ELSE published.seenWith[w]]
           revision == Revision(read.refs, worktree, freshness)
           c == [exists |-> TRUE, refs |-> read.refs, worktree |-> worktree,
                 freshness |-> freshness, refresh |-> "fresh",
                 revision |-> revision, seenWith |-> seenWith]
<1>1. Candidate(read) = c
  BY DEF Candidate
<1>2. /\ worktree \in [Worktrees -> Nat] /\ seenWith \in [Worktrees -> Nat]
      /\ \A w \in Worktrees :
            /\ Seen(read, w) => /\ worktree[w] = read.sample[w].version
                                /\ seenWith[w] = read.sample[w].seenWith
            /\ ~Seen(read, w) => /\ worktree[w] = published.worktree[w]
                                 /\ seenWith[w] = published.seenWith[w]
  BY DEF Seen, Snapshot, Read, Sample
<1>3. /\ freshness \in [Worktrees -> {"fresh", "stale", "failed"}]
      /\ \A w \in Worktrees : freshness[w] = Freshness(read, w)
  BY DEF Freshness, RetainedFreshness, Snapshot
<1>4. read.refs \in Nat
  BY DEF Read
<1> HIDE DEF worktree, freshness, seenWith
<1>5. revision \in Nat
  BY DEF Revision, Snapshot
<1>6. revision = Revision(read.refs, worktree, freshness)
  OBVIOUS
<1> HIDE DEF revision
<1>7. c \in Snapshot
  BY <1>2, <1>3, <1>4, <1>5 DEF Snapshot
<1>8. QED
  BY <1>1, <1>2, <1>3, <1>6, <1>7

(* It is coherent, it lies between the request and now, and it is newer    *)
(* than what it replaces.                                                  *)
LEMMA CandidateIsCurrent ==
    ASSUME PublicationInv, NEW r \in Reads, reads[r].stage = "observed", ~Superseded(r)
    PROVE  LET c == Candidate(reads[r])
           IN  /\ \A w \in Worktrees : c.freshness[w] = "fresh" => c.seenWith[w] = c.refs
               /\ c.refs <= repo.refs /\ published.refs <= c.refs
               /\ \A w \in Worktrees : /\ c.worktree[w] <= repo.worktree[w]
                                        /\ published.worktree[w] <= c.worktree[w]
               /\ Covers(c, reads[r])
<1> DEFINE read == reads[r]
           c == Candidate(read)
<1>1. /\ read \in Read /\ ReadIsBetween(read) /\ ObservedTogether(read)
      /\ read.stage = "observed" /\ read.generation = generation
      /\ published \in Snapshot /\ repo \in Facts /\ requested \in Facts
  BY DEF PublicationInv, TypeOK, Superseded
<1>2. /\ requested.refs <= read.refs /\ read.refs <= repo.refs
      /\ \A w \in Worktrees : Seen(read, w) =>
            /\ requested.worktree[w] <= read.sample[w].version
            /\ read.sample[w].version <= repo.worktree[w]
            /\ read.sample[w].seenWith = read.refs
  BY <1>1 DEF ReadIsBetween, ObservedTogether, Seen
<1>3. /\ published.refs <= requested.refs /\ requested.refs <= repo.refs
      /\ \A w \in Worktrees : /\ published.worktree[w] <= requested.worktree[w]
                               /\ requested.worktree[w] <= repo.worktree[w]
  BY <1>1 DEF PublicationInv, SnapshotPrecedes, Active, Superseded
<1>4. /\ c.refs = read.refs
      /\ \A w \in Worktrees :
            /\ Seen(read, w) => /\ c.worktree[w] = read.sample[w].version
                                /\ c.seenWith[w] = read.sample[w].seenWith
            /\ ~Seen(read, w) => /\ c.worktree[w] = published.worktree[w]
                                 /\ c.seenWith[w] = published.seenWith[w]
            /\ c.freshness[w] = Freshness(read, w)
  BY <1>1, CandidateFields
<1> HIDE DEF c
<1>5. \A w \in Worktrees : ~Seen(read, w) /\ c.freshness[w] = "fresh" =>
         /\ w \notin read.scope
         /\ read.refs = published.refs /\ published.freshness[w] = "fresh"
         /\ published.seenWith[w] = published.refs
  BY <1>4 DEF Seen, Freshness, RetainedFreshness, PublicationInv, CoherentSnapshot
<1> HIDE DEF read
<1>6. \A w \in Worktrees : c.freshness[w] = "fresh" => c.seenWith[w] = c.refs
  BY <1>2, <1>4, <1>5
<1>7. c.refs <= repo.refs /\ published.refs <= c.refs
  BY <1>1, <1>2, <1>3, <1>4 DEF Facts, Snapshot, Read
<1>8. \A w \in Worktrees : /\ c.worktree[w] <= repo.worktree[w]
                           /\ published.worktree[w] <= c.worktree[w]
  <2> TAKE w \in Worktrees
  <2>1. /\ repo.worktree[w] \in Nat /\ requested.worktree[w] \in Nat
        /\ published.worktree[w] \in Nat /\ read.sample[w].version \in Nat
    BY <1>1 DEF Facts, Snapshot, Read, Sample
  <2>2. CASE Seen(read, w)
    BY <1>2, <1>3, <1>4, <2>1, <2>2
  <2>3. CASE ~Seen(read, w)
    BY <1>3, <1>4, <2>1, <2>3
  <2>4. QED
    BY <2>2, <2>3
<1>9. Covers(c, read)
  <2>1. c.refs >= requested.refs
    BY <1>1, <1>2, <1>4 DEF Facts, Read
  <2>2. ASSUME NEW w \in read.scope, c.freshness[w] = "fresh"
        PROVE  c.worktree[w] >= requested.worktree[w]
    <3>1. w \in Worktrees /\ read.sample[w] \in Sample /\ Seen(read, w)
      BY <1>1, <1>5, <2>2 DEF Read
    <3>2. QED
      BY <1>1, <1>2, <1>4, <3>1 DEF Facts, Sample
  <2>3. QED
    BY <2>1, <2>2 DEF Covers
<1>10. QED
  BY <1>6, <1>7, <1>8, <1>9 DEF c, read

-----------------------------------------------------------------------------
(* The actions that answer.                                                *)

LEMMA AnswerUnpublishedStep ==
    ASSUME PublicationInv, NEW r \in Reads, AnswerClosed(r) \/ AnswerSuperseded(r)
    PROVE  PublicationInv'
  BY ReadAnswered DEF AnswerClosed, AnswerSuperseded, Ended, Active, PublicationInv, TypeOK,
     CoherentSnapshot, SnapshotPrecedes

(* A failed read changes the marks of the snapshot, not its facts.         *)
LEMMA PublishStaleFields ==
    ASSUME published \in Snapshot, NEW r \in Reads, PublishStale(r)
    PROVE  /\ published' \in Snapshot /\ published'.refs = published.refs
           /\ published'.worktree = published.worktree
           /\ published'.freshness = published.freshness
           /\ published'.seenWith = published.seenWith
           /\ \/ published' = published /\ ~(published.exists /\ published.refresh = "fresh")
              \/ published'.refresh = "stale" /\ published'.revision = published.revision + 1
<1> DEFINE marked == [published EXCEPT !.refresh = "stale"]
           stale == [marked EXCEPT !.revision = published.revision + 1]
<1>1. \/ published' = published /\ ~(published.exists /\ published.refresh = "fresh")
      \/ published' = stale
  BY DEF PublishStale
<1>2. /\ marked \in Snapshot /\ marked.refs = published.refs
      /\ marked.worktree = published.worktree /\ marked.freshness = published.freshness
      /\ marked.seenWith = published.seenWith /\ marked.refresh = "stale"
  BY DEF Snapshot
<1>3. published.revision + 1 \in Nat
  BY DEF Snapshot
<1> HIDE DEF marked
<1>4. /\ stale \in Snapshot /\ stale.refs = published.refs
      /\ stale.worktree = published.worktree /\ stale.freshness = published.freshness
      /\ stale.seenWith = published.seenWith /\ stale.refresh = "stale"
      /\ stale.revision = published.revision + 1
  BY <1>2, <1>3 DEF Snapshot
<1> HIDE DEF stale
<1>5. QED
  BY <1>1, <1>4

LEMMA PublishStaleStep ==
    ASSUME PublicationInv, NEW r \in Reads, PublishStale(r)
    PROVE  PublicationInv'
<1>1. published \in Snapshot /\ CoherentSnapshot /\ SnapshotPrecedes
  BY DEF PublicationInv, TypeOK
<1>2. /\ published' \in Snapshot /\ published'.refs = published.refs
      /\ published'.worktree = published.worktree
      /\ published'.freshness = published.freshness
      /\ published'.seenWith = published.seenWith
  BY <1>1, PublishStaleFields
<1>3. QED
  BY <1>1, <1>2, ReadAnswered DEF PublishStale, Active, CoherentSnapshot, SnapshotPrecedes

LEMMA PublishObservationStep ==
    ASSUME PublicationInv, NEW r \in Reads, PublishObservation(r)
    PROVE  PublicationInv'
<1> DEFINE c == Candidate(reads[r])
<1>1. published \in Snapshot /\ CoherentSnapshot /\ SnapshotPrecedes /\ reads[r] \in Read
  BY DEF PublicationInv, TypeOK
<1>2. c \in Snapshot
  BY <1>1, CandidateFields
<1>3. /\ \A w \in Worktrees : c.freshness[w] = "fresh" => c.seenWith[w] = c.refs
      /\ c.refs <= repo.refs
      /\ \A w \in Worktrees : c.worktree[w] <= repo.worktree[w]
  BY CandidateIsCurrent DEF PublishObservation
<1>4. published' = published \/ published' = c
  BY DEF PublishObservation
<1> HIDE DEF c
<1>5. CoherentSnapshot' /\ published' \in Snapshot /\ published'.refs <= repo.refs
      /\ \A w \in Worktrees : published'.worktree[w] <= repo.worktree[w]
  BY <1>1, <1>2, <1>3, <1>4 DEF CoherentSnapshot, SnapshotPrecedes
<1>6. QED
  BY <1>5, ReadAnswered DEF PublishObservation, Active

(* close() supersedes every read.                                          *)
LEMMA CloseStep ==
    ASSUME PublicationInv, Close
    PROVE  PublicationInv'
<1>1. \A q \in Reads : reads[q] \in Read /\ (Active(q) => reads[q].generation # generation')
  BY DEF PublicationInv, TypeOK, GenerationsDiffer, Close, Read
<1>2. TypeOK' /\ CoherentSnapshot'
  BY DEF PublicationInv, TypeOK, CoherentSnapshot, Close
<1>3. GenerationsDiffer'
  BY <1>1 DEF PublicationInv, TypeOK, GenerationsDiffer, Active, Close, Read
<1>4. ASSUME NEW q \in Reads
      PROVE  ReadIsBetween(reads[q])' /\ ObservedTogether(reads[q])'
  <2>1. ReadIsBetween(reads[q]) /\ ObservedTogether(reads[q])
    BY DEF PublicationInv
  <2>2. QED
    BY <1>1, <2>1 DEF ReadIsBetween, ObservedTogether, Active, Close
<1>5. SnapshotPrecedes'
  BY <1>1 DEF PublicationInv, SnapshotPrecedes, Active, Superseded, Close
<1>6. QED
  BY <1>2, <1>3, <1>4, <1>5 DEF PublicationInv

-----------------------------------------------------------------------------
LEMMA InitEstablishes == Init => PublicationInv
<1> SUFFICES ASSUME Init PROVE PublicationInv
  OBVIOUS
<1>1. /\ repo \in Facts /\ requested = repo /\ repo.refs = 0
      /\ \A w \in Worktrees : repo.worktree[w] = 0
  BY DEF Init, Facts
<1>2. published = NoSnapshot /\ \A r \in Reads : reads[r] = Idle
  BY DEF Init
<1>3. TypeOK
  BY <1>1, <1>2, NoSnapshotFacts, IdleIsRead DEF Init, TypeOK
<1>4. CoherentSnapshot
  BY <1>2, NoSnapshotFacts DEF CoherentSnapshot
<1>5. GenerationsDiffer /\ \A r \in Reads : ~Active(r)
  BY <1>2, IdleIsRead DEF GenerationsDiffer, Active
<1>6. \A r \in Reads : ReadIsBetween(reads[r]) /\ ObservedTogether(reads[r])
  BY <1>2, IdleIsRead DEF ReadIsBetween, ObservedTogether
<1>7. SnapshotPrecedes
  BY <1>1, <1>2, <1>5, NoSnapshotFacts DEF SnapshotPrecedes
<1>8. QED
  BY <1>3, <1>4, <1>5, <1>6, <1>7 DEF PublicationInv

LEMMA StepPreserves == PublicationInv /\ [Next]_vars => PublicationInv'
<1> SUFFICES ASSUME PublicationInv, [Next]_vars PROVE PublicationInv'
  OBVIOUS
<1>1. CASE ChangeRefs
  BY <1>1, RepositoryStep DEF ChangeRefs, PublicationInv, TypeOK, Facts
<1>2. ASSUME NEW w \in Worktrees, ChangeWorktree(w) PROVE PublicationInv'
  <2>1. /\ repo' \in Facts /\ repo'.refs = repo.refs
        /\ \A v \in Worktrees : repo.worktree[v] <= repo'.worktree[v]
    BY <1>2 DEF ChangeWorktree, PublicationInv, TypeOK, Facts
  <2>2. QED
    BY <1>2, <2>1, RepositoryStep DEF ChangeWorktree, PublicationInv, TypeOK, Facts
<1>3. ASSUME NEW r \in Reads, NEW scope \in (SUBSET Worktrees) \ {{}}, StartRead(r, scope)
      PROVE  PublicationInv'
  BY <1>3, StartReadStep
<1>4. ASSUME NEW r \in Reads, ReadStep(r) PROVE PublicationInv'
  <2>1. CASE ObserveShared(r)
    BY <2>1, ObserveSharedStep
  <2>2. CASE CompareShared(r)
    BY <2>2, CompareSharedStep
  <2>3. CASE ReadFails(r)
    BY <2>3, FailStep DEF ReadFails, Active
  <2>4. ASSUME NEW w \in Worktrees, ObserveWorktree(r, w) PROVE PublicationInv'
    BY <2>4, ObserveWorktreeStep
  <2>5. CASE AnswerClosed(r) \/ AnswerSuperseded(r)
    BY <2>5, AnswerUnpublishedStep
  <2>6. CASE PublishStale(r)
    BY <2>6, PublishStaleStep
  <2>7. CASE PublishObservation(r)
    BY <2>7, PublishObservationStep
  <2>8. QED
    BY <1>4, <2>1, <2>2, <2>3, <2>4, <2>5, <2>6, <2>7 DEF ReadStep
<1>5. CASE Close
  BY <1>5, CloseStep
<1>6. CASE UNCHANGED vars
  BY <1>6, RepositoryStep DEF vars, PublicationInv, TypeOK, Facts
<1>7. QED
  BY <1>1, <1>2, <1>3, <1>4, <1>5, <1>6 DEF Next

(* The inductive invariant of the reads and the snapshot (PublicationInv)  *)
(* holds of readSnapshot and observeCoherently for any number of reads.    *)
THEOREM PublicationInvariance == Spec => []PublicationInv
<1>1. Init => PublicationInv
  BY InitEstablishes
<1>2. PublicationInv /\ [Next]_vars => PublicationInv'
  BY StepPreserves
<1>3. QED
  BY <1>1, <1>2, PTL DEF Spec

(* Every published snapshot is coherent for the refs it declares: what it  *)
(* calls fresh was read under them.                                        *)
THEOREM SnapshotsAreCoherent == Spec => []CoherentSnapshot
<1>1. PublicationInv => CoherentSnapshot
  BY DEF PublicationInv
<1>2. QED
  BY <1>1, PublicationInvariance, PTL

-----------------------------------------------------------------------------
(* Who publishes, and who is answered by the latest read.                  *)

LEMMA PublishingSteps ==
    ASSUME [Next]_vars
    PROVE  published' = published
           \/ \E r \in Reads : PublishStale(r) \/ PublishObservation(r)
  BY DEF Next, vars, ChangeRefs, ChangeWorktree, StartRead, ReadStep, ObserveShared,
     ObserveWorktree, CompareShared, ReadFails, AnswerClosed, AnswerSuperseded, Close

LEMMA NewStages ==
    ASSUME PublicationInv, NEW q \in Reads, reads'[q].stage = "idle"
    PROVE  /\ ~ObserveShared(q) /\ ~CompareShared(q) /\ ~ReadFails(q)
           /\ \A w \in Worktrees : ~ObserveWorktree(q, w)
<1>1. reads[q] \in Read /\ reads \in [Reads -> Read] /\ reads'[q].stage = "idle"
  BY DEF PublicationInv, TypeOK
<1>2. ~ObserveShared(q)
  BY <1>1 DEF ObserveShared, Read
<1>3. ~CompareShared(q)
  <2> SUFFICES ASSUME CompareShared(q) PROVE FALSE
    OBVIOUS
  <2> DEFINE o == [reads[q] EXCEPT !.stage = "observed", !.attempt = 0]
             again == Retried(reads[q], repo.refs)
             failed == FailedRead(reads[q])
  <2>1. o.stage = "observed"
    BY <1>1 DEF Read
  <2>2. again.stage = "worktrees"
    BY <1>1, RetriedFacts DEF CompareShared, PublicationInv, TypeOK, Facts
  <2>3. failed.stage = "failed"
    BY <1>1, FailedReadFacts
  <2>4. reads'[q] = o \/ reads'[q] = failed \/ reads'[q] = again
    BY <1>1 DEF CompareShared
  <2> HIDE DEF o, again, failed
  <2>5. QED
    BY <1>1, <2>1, <2>2, <2>3, <2>4
<1>4. ~ReadFails(q)
  BY <1>1, FailedReadFacts DEF ReadFails
<1>5. \A w \in Worktrees : ~ObserveWorktree(q, w)
  BY <1>1 DEF ObserveWorktree, Read
<1>6. QED
  BY <1>2, <1>3, <1>4, <1>5

LEMMA StepLeavesOthers ==
    ASSUME reads \in [Reads -> Read], NEW q \in Reads, ReadStep(q)
    PROVE  \A r \in Reads : r # q => reads'[r] = reads[r]
  BY DEF ReadStep, ObserveShared, CompareShared, ReadFails, ObserveWorktree, AnswerClosed,
     AnswerSuperseded, PublishStale, PublishObservation, Answer

LEMMA AnsweringSteps ==
    ASSUME PublicationInv, [Next]_vars, NEW r \in Reads,
           Answered(r), ~closed, ~Superseded(r)
    PROVE  PublishStale(r) \/ PublishObservation(r)
<1>1. /\ reads \in [Reads -> Read] /\ reads'[r] = Idle /\ reads[r].stage # "idle"
      /\ reads[r].stage \in {"observed", "failed"}
  BY DEF PublicationInv, TypeOK, Answered, Ended
<1>2. reads' # reads
  BY <1>1, IdleIsRead
<1>3. PICK q \in Reads : (\E scope \in SUBSET Worktrees : StartRead(q, scope)) \/ ReadStep(q)
  BY <1>2 DEF Next, vars, ChangeRefs, ChangeWorktree, Close
<1>4. CASE \E scope \in SUBSET Worktrees : StartRead(q, scope)
  <2>1. q # r
    BY <1>1, <1>4 DEF StartRead
  <2>2. reads'[r] = reads[r]
    BY <1>1, <1>4, <2>1 DEF StartRead
  <2>3. QED
    BY <1>1, <2>2, IdleIsRead
<1>5. CASE ReadStep(q)
  <2>1. q = r
    BY <1>1, <1>5, StepLeavesOthers, IdleIsRead
  <2>2. QED
    BY <1>1, <1>5, <2>1, NewStages, IdleIsRead DEF ReadStep, AnswerClosed, AnswerSuperseded
<1>6. QED
  BY <1>3, <1>4, <1>5

(* The step form of each action property.                                  *)
LEMMA PublishedMovesOn ==
    ASSUME PublicationInv, [Next]_vars
    PROVE  NeverGoesBack
<1>1. published \in Snapshot
  BY DEF PublicationInv, TypeOK
<1>2. CASE published' = published
  BY <1>1, <1>2 DEF NeverGoesBack, Snapshot
<1>3. ASSUME NEW r \in Reads, PublishStale(r) PROVE NeverGoesBack
  BY <1>1, <1>3, PublishStaleFields DEF NeverGoesBack, Snapshot
<1>4. ASSUME NEW r \in Reads, PublishObservation(r) PROVE NeverGoesBack
  <2> DEFINE c == Candidate(reads[r])
  <2>1. c \in Snapshot
    BY <1>1, CandidateFields DEF PublicationInv, TypeOK
  <2>2. /\ published.refs <= c.refs
        /\ \A w \in Worktrees : published.worktree[w] <= c.worktree[w]
    BY <1>4, CandidateIsCurrent DEF PublishObservation
  <2>3. published' = published \/ published' = c
    BY <1>4 DEF PublishObservation
  <2> HIDE DEF c
  <2>4. QED
    BY <1>1, <1>2, <2>1, <2>2, <2>3 DEF NeverGoesBack, Snapshot
<1>5. QED
  BY <1>2, <1>3, <1>4, PublishingSteps

(* However the reads overlap and in whatever order they end, what is       *)
(* published never goes back to an older state.                            *)
THEOREM SnapshotsNeverGoBack == Spec => PublishedNeverGoesBack
<1>1. PublicationInv /\ [Next]_vars => NeverGoesBack
  BY PublishedMovesOn
<1>2. QED
  BY <1>1, PublicationInvariance, PTL DEF Spec, PublishedNeverGoesBack

LEMMA AnswerCovers ==
    ASSUME PublicationInv, [Next]_vars
    PROVE  AnswerIsCurrent
<1>1. SUFFICES ASSUME NEW r \in Reads, Answered(r), ~closed, ~Superseded(r),
                      published'.exists, published'.refresh = "fresh"
               PROVE  Covers(published', reads[r])
  BY DEF AnswerIsCurrent
<1>2. published \in Snapshot
  BY DEF PublicationInv, TypeOK
<1>3. PublishStale(r) \/ PublishObservation(r)
  BY <1>1, AnsweringSteps
<1>4. PublishObservation(r)
  BY <1>1, <1>2, <1>3, PublishStaleFields
<1> DEFINE c == Candidate(reads[r])
<1>5. c \in Snapshot
  BY <1>2, CandidateFields DEF PublicationInv, TypeOK
<1>6. Covers(c, reads[r])
  BY <1>4, CandidateIsCurrent DEF PublishObservation
<1>7. published' = c \/ (published' = published /\ External(c) = External(published))
  BY <1>4 DEF PublishObservation
<1> HIDE DEF c
<1>8. CASE published' = published /\ External(c) = External(published)
  <2>1. /\ External(c).refs = c.refs /\ External(c).worktree = c.worktree
        /\ External(c).freshness = c.freshness
        /\ External(published).refs = published.refs
        /\ External(published).worktree = published.worktree
        /\ External(published).freshness = published.freshness
    BY <1>2, <1>5 DEF External, Snapshot
  <2>2. QED
    BY <1>6, <1>8, <2>1 DEF Covers
<1>9. QED
  BY <1>6, <1>7, <1>8

(* The answer of a read that no newer one superseded covers everything     *)
(* that had happened when the read was requested.                          *)
THEOREM AnswersAreCurrent == Spec => LatestReadIsCurrent
<1>1. PublicationInv /\ [Next]_vars => AnswerIsCurrent
  BY AnswerCovers
<1>2. QED
  BY <1>1, PublicationInvariance, PTL DEF Spec, LatestReadIsCurrent

LEMMA RevisionMoves ==
    ASSUME PublicationInv, [Next]_vars
    PROVE  RevisionCounts
<1>1. published \in Snapshot
  BY DEF PublicationInv, TypeOK
<1>2. CASE published' = published
  BY <1>2 DEF RevisionCounts
<1>3. ASSUME NEW r \in Reads, PublishStale(r) PROVE RevisionCounts
  <2>1. published' = published \/ published'.revision = published.revision + 1
    BY <1>1, <1>3, PublishStaleFields
  <2>2. QED
    BY <1>1, <2>1 DEF RevisionCounts, Snapshot
<1>4. ASSUME NEW r \in Reads, PublishObservation(r) PROVE RevisionCounts
  <2> DEFINE c == Candidate(reads[r])
  <2>1. /\ c \in Snapshot /\ c.exists /\ c.refresh = "fresh" /\ c.refs = reads[r].refs
        /\ c.revision = Revision(c.refs, c.worktree, c.freshness)
    BY <1>1, CandidateFields DEF PublicationInv, TypeOK
  <2>2. published' = published \/ published' = c
    BY <1>4 DEF PublishObservation
  <2> HIDE DEF c
  <2>3. \/ c.revision = published.revision + 1
        \/ /\ published.exists /\ published.refresh = "fresh"
           /\ c.refs = published.refs /\ c.worktree = published.worktree
           /\ c.freshness = published.freshness /\ c.revision = published.revision
    BY <2>1 DEF Revision
  <2>4. ASSUME published.exists, published.refresh = "fresh",
               c.refs = published.refs, c.worktree = published.worktree,
               c.freshness = published.freshness, c.revision = published.revision
        PROVE  External(c) = External(published)
    BY <1>1, <2>1, <2>4 DEF External, Snapshot
  <2>5. QED
    BY <1>1, <1>2, <2>2, <2>3, <2>4 DEF RevisionCounts, Snapshot
<1>5. QED
  BY <1>2, <1>3, <1>4, PublishingSteps

(* repositoryRevision moves with every visible change, so that a client    *)
(* may compare revisions instead of snapshots.                             *)
THEOREM RevisionsIdentify == Spec => RevisionIdentifiesSnapshot
<1>1. PublicationInv /\ [Next]_vars => RevisionCounts
  BY RevisionMoves
<1>2. QED
  BY <1>1, PublicationInvariance, PTL DEF Spec, RevisionIdentifiesSnapshot

-----------------------------------------------------------------------------
(* A Stage or Unstage command among the reads (FileMutation).              *)
(*                                                                         *)
(* The steps of the reads, as the command sees them.                       *)

LEMMA StartReadFacts ==
    ASSUME PublicationInv, NEW r \in Reads, StartRead(r, Worktrees)
    PROVE  /\ PublicationInv' /\ repo' = repo /\ published' = published
           /\ Active(r)' /\ ~Active(r)
<1>1. PublicationInv' /\ repo' = repo /\ published' = published /\ ~Active(r)
  BY StartReadStep DEF StartRead, Active
<1> DEFINE n == NewRead(generation + 1, Worktrees)
<1>2. reads' = [reads EXCEPT ![r] = n]
  BY DEF StartRead
<1>3. n.stage = "shared"
  BY NewReadFacts DEF PublicationInv, TypeOK
<1> HIDE DEF n
<1>4. reads'[r] = n
  BY <1>2 DEF PublicationInv, TypeOK
<1>5. QED
  BY <1>1, <1>3, <1>4 DEF Active

LEMMA AnswerStepFacts ==
    ASSUME PublicationInv, NEW r \in Reads, AnswerStep(r)
    PROVE  /\ PublicationInv' /\ repo' = repo /\ Active(r)
           /\ \A q \in Reads : q # r => reads'[q] = reads[q]
<1>1. ReadStep(r) /\ r \in Reads
  BY DEF AnswerStep, ReadStep
<1>2. [Next]_vars
  BY <1>1 DEF Next
<1>3. PublicationInv'
  BY <1>2, StepPreserves
<1>4. repo' = repo /\ Active(r)
  BY DEF AnswerStep, AnswerClosed, AnswerSuperseded, PublishStale, PublishObservation,
     Active, Ended
<1>5. QED
  BY <1>1, <1>3, <1>4, StepLeavesOthers DEF PublicationInv, TypeOK

(* A read goes on until it is answered.                                    *)
LEMMA ActiveUntilAnswered ==
    ASSUME PublicationInv, NEW q \in Reads, Active(q), NEW r \in Reads,
           \/ \E scope \in SUBSET Worktrees : StartRead(r, scope)
           \/ ObserveShared(r) \/ CompareShared(r) \/ ReadFails(r)
           \/ \E w \in Worktrees : ObserveWorktree(r, w)
           \/ q # r /\ AnswerStep(r)
    PROVE  Active(q)'
<1>1. reads \in [Reads -> Read] /\ reads[q].stage # "idle"
  BY DEF PublicationInv, TypeOK, Active
<1>2. CASE \E scope \in SUBSET Worktrees : StartRead(r, scope)
  <2>1. r # q /\ reads'[q] = reads[q]
    BY <1>1, <1>2 DEF StartRead
  <2>2. QED
    BY <1>1, <2>1 DEF Active
<1>3. CASE \/ ObserveShared(r) \/ CompareShared(r) \/ ReadFails(r)
           \/ \E w \in Worktrees : ObserveWorktree(r, w)
  <2>1. CASE r = q
    BY <1>3, <2>1, NewStages DEF Active
  <2>2. CASE r # q
    <3>1. reads'[q] = reads[q]
      BY <1>1, <1>3, <2>2, StepLeavesOthers DEF ReadStep
    <3>2. QED
      BY <1>1, <3>1 DEF Active
  <2>3. QED
    BY <2>1, <2>2
<1>4. CASE q # r /\ AnswerStep(r)
  BY <1>1, <1>4, AnswerStepFacts DEF Active
<1>5. QED
  BY <1>2, <1>3, <1>4

(* The worktree of the command moves on, by the command or by others.      *)
Moves == repo.worktree[Worktree] <= repo'.worktree[Worktree]

LEMMA ElsewhereFacts ==
    ASSUME PublicationInv, Elsewhere
    PROVE  /\ PublicationInv' /\ op' = op /\ Moves
           /\ op.read \in Reads /\ Active(op.read) => Active(op.read)'
<1>1. [Next]_vars
  BY DEF Elsewhere, Next, ReadStep, AnswerStep
<1>2. PublicationInv' /\ op' = op
  BY <1>1, StepPreserves DEF Elsewhere
<1>3. repo \in Facts /\ Worktree \in Worktrees
  BY FileMutationAssumption DEF PublicationInv, TypeOK
<1>4. CASE ChangeRefs \/ \E w \in Worktrees : ChangeWorktree(w)
  BY <1>2, <1>3, <1>4 DEF ChangeRefs, ChangeWorktree, Facts, Moves, Active
<1>5. CASE Close
  BY <1>2, <1>3, <1>5 DEF Close, Facts, Moves, Active
<1>6. ASSUME NEW r \in Reads,
             \/ \E scope \in (SUBSET Worktrees) \ {{}} : StartRead(r, scope)
             \/ ObserveShared(r) \/ CompareShared(r) \/ ReadFails(r)
             \/ \E w \in Worktrees : ObserveWorktree(r, w)
             \/ op.read # r /\ AnswerStep(r)
      PROVE  Moves /\ (op.read \in Reads /\ Active(op.read) => Active(op.read)')
  <2>1. repo' = repo
    BY <1>6, AnswerStepFacts DEF StartRead, ObserveShared, CompareShared, ReadFails,
       ObserveWorktree
  <2>2. ASSUME op.read \in Reads, Active(op.read) PROVE Active(op.read)'
    <3>1. PICK q \in Reads : op.read = q
      BY <2>2
    <3>2. Active(q)'
      BY <1>6, <2>2, <3>1, ActiveUntilAnswered
    <3>3. QED
      BY <1>2, <3>1, <3>2 DEF Active
  <2>3. QED
    BY <1>3, <2>1, <2>2 DEF Facts, Moves
<1>7. QED
  BY <1>2, <1>4, <1>5, <1>6 DEF Elsewhere

-----------------------------------------------------------------------------
(* What an action makes of the record of the command.                      *)

LEMMA DispatchFields ==
    ASSUME op \in Operation, published \in Snapshot, NEW r \in Reads, Dispatch(r)
    PROVE  /\ op' \in Operation /\ op'.phase = "checking" /\ op'.read = r
           /\ op.phase = "submitted"
           /\ op'.evidence = op.evidence /\ op'.effects = op.effects
           /\ op'.outcome = op.outcome /\ op'.succeeded = op.succeeded
           /\ op'.appliedAt = op.appliedAt
<1>1. published.worktree[Worktree] \in Nat
  BY FileMutationAssumption DEF Snapshot
<1>2. QED
  BY <1>1 DEF Dispatch, Operation

LEMMA CheckedFields ==
    ASSUME op \in Operation, NEW r \in Reads, Checked(r)
    PROVE  /\ op' \in Operation /\ op'.read = NoRead /\ op.phase = "checking"
           /\ op.read = r /\ op'.effects = op.effects
           /\ op'.outcome = op.outcome /\ op'.succeeded = op.succeeded
           /\ op'.appliedAt = op.appliedAt
           /\ \/ op'.phase = "executing" /\ op'.evidence = op.evidence
              \/ op'.phase = "executed" /\ op'.evidence = "rejected"
  BY DEF Checked, Operation

LEMMA RefuseFields ==
    ASSUME op \in Operation, NEW f \in Files, NEW verdict \in {"stale", "blocked"},
           Refuse(f, verdict)
    PROVE  /\ op' \in Operation /\ op'.read = op.read /\ op.phase = "executing"
           /\ op'.outcome = op.outcome /\ op'.succeeded = op.succeeded
           /\ op'.appliedAt = op.appliedAt /\ op.effects[f] = "none"
           /\ \/ /\ NoEffect /\ op'.effects = op.effects
                 /\ op'.phase = "executed" /\ op'.evidence = "rejected"
              \/ /\ op'.phase = "executing" /\ op'.evidence = op.evidence
                 /\ op'.effects[f] = verdict
                 /\ \A g \in Files \ {f} : op'.effects[g] = op.effects[g]
<1>1. /\ op.phase = "executing" /\ op.effects[f] = "none"
      /\ \/ NoEffect /\ op' = [op EXCEPT !.phase = "executed", !.evidence = "rejected"]
         \/ op' = [op EXCEPT !.effects[f] = verdict]
  BY DEF Refuse, Remaining
<1>2. CASE NoEffect /\ op' = [op EXCEPT !.phase = "executed", !.evidence = "rejected"]
  BY <1>1, <1>2 DEF Operation
<1>3. CASE op' = [op EXCEPT !.effects[f] = verdict]
  BY <1>1, <1>3 DEF Operation
<1>4. QED
  BY <1>1, <1>2, <1>3

(* One more file is run: it is applied in the worktree as it then is.      *)
LEMMA ApplyFacts ==
    ASSUME repo \in Facts, NEW f \in Files, NEW applied \in BOOLEAN, Apply(f, applied)
    PROVE  /\ repo' \in Facts /\ repo'.refs = repo.refs /\ Moves
           /\ \A w \in Worktrees : repo.worktree[w] <= repo'.worktree[w]
           /\ AppliedAt(f, applied) \in Nat
           /\ AppliedAt(f, applied) <= repo'.worktree[Worktree]
<1>1. Worktree \in Worktrees
  BY FileMutationAssumption
<1>2. CASE applied
  BY <1>1, <1>2 DEF Apply, AppliedAt, Facts, Moves
<1>3. CASE ~applied
  BY <1>1, <1>3 DEF Apply, AppliedAt, Facts, Moves
<1>4. QED
  BY <1>2, <1>3

LEMMA RunGitFields ==
    ASSUME op \in Operation, NEW f \in Files, NEW exit \in {"completed", "failed"},
           NEW applied \in BOOLEAN, AppliedAt(f, applied) \in Nat,
           RunGit(f, exit, applied)
    PROVE  /\ op' \in Operation /\ op'.read = op.read
           /\ op.phase = "executing" /\ op'.phase = "executing"
           /\ op'.evidence = op.evidence /\ op'.outcome = op.outcome
           /\ op'.succeeded = op.succeeded /\ op.effects[f] = "none"
           /\ op'.effects[f] = exit /\ op'.appliedAt[f] = AppliedAt(f, applied)
           /\ \A g \in Files \ {f} : /\ op'.effects[g] = op.effects[g]
                                     /\ op'.appliedAt[g] = op.appliedAt[g]
<1> DEFINE at == AppliedAt(f, applied)
           half == [op EXCEPT !.effects[f] = exit]
<1>1. op' = [half EXCEPT !.appliedAt[f] = at] /\ op.phase = "executing"
      /\ op.effects[f] = "none"
  BY DEF RunGit, Remaining
<1>2. /\ half \in Operation /\ half.read = op.read /\ half.phase = op.phase
      /\ half.evidence = op.evidence /\ half.outcome = op.outcome
      /\ half.succeeded = op.succeeded /\ half.appliedAt = op.appliedAt
      /\ half.effects[f] = exit
      /\ \A g \in Files \ {f} : half.effects[g] = op.effects[g]
  BY DEF Operation
<1> HIDE DEF at, half
<1>3. /\ op' \in Operation /\ op'.read = half.read /\ op'.phase = half.phase
      /\ op'.evidence = half.evidence /\ op'.outcome = half.outcome
      /\ op'.succeeded = half.succeeded /\ op'.effects = half.effects
      /\ op'.appliedAt[f] = at
      /\ \A g \in Files \ {f} : op'.appliedAt[g] = half.appliedAt[g]
  BY <1>1, <1>2 DEF Operation, at
<1>4. QED
  BY <1>1, <1>2, <1>3 DEF at

LEMMA InterruptedFields ==
    ASSUME op \in Operation, NEW f \in Files, NEW applied \in BOOLEAN,
           AppliedAt(f, applied) \in Nat, Interrupted(f, applied)
    PROVE  /\ op' \in Operation /\ op'.read = op.read
           /\ op.phase = "executing" /\ op'.phase = "executed"
           /\ op'.evidence = "threw" /\ op'.outcome = op.outcome
           /\ op'.succeeded = op.succeeded /\ op.effects[f] = "none"
           /\ op'.effects = op.effects /\ op'.appliedAt[f] = AppliedAt(f, applied)
           /\ \A g \in Files \ {f} : op'.appliedAt[g] = op.appliedAt[g]
<1> DEFINE at == AppliedAt(f, applied)
           half == [op EXCEPT !.phase = "executed", !.evidence = "threw"]
<1>1. op' = [half EXCEPT !.appliedAt[f] = at] /\ op.phase = "executing"
      /\ op.effects[f] = "none"
  BY DEF Interrupted, Remaining
<1>2. /\ half \in Operation /\ half.read = op.read /\ half.phase = "executed"
      /\ half.evidence = "threw" /\ half.outcome = op.outcome
      /\ half.succeeded = op.succeeded /\ half.appliedAt = op.appliedAt
      /\ half.effects = op.effects
  BY DEF Operation
<1> HIDE DEF at, half
<1>3. /\ op' \in Operation /\ op'.read = half.read /\ op'.phase = half.phase
      /\ op'.evidence = half.evidence /\ op'.outcome = half.outcome
      /\ op'.succeeded = half.succeeded /\ op'.effects = half.effects
      /\ op'.appliedAt[f] = at
      /\ \A g \in Files \ {f} : op'.appliedAt[g] = half.appliedAt[g]
  BY <1>1, <1>2 DEF Operation, at
<1>4. QED
  BY <1>1, <1>2, <1>3 DEF at

LEMMA AttemptedFields ==
    ASSUME op \in Operation, Attempted
    PROVE  /\ op' \in Operation /\ op'.read = op.read /\ Remaining = {}
           /\ op.phase = "executing" /\ op'.phase = "executed"
           /\ op'.evidence = "attempted" /\ op'.outcome = op.outcome
           /\ op'.succeeded = op.succeeded /\ op'.effects = op.effects
           /\ op'.appliedAt = op.appliedAt
  BY DEF Attempted, Operation

LEMMA ReconcileFields ==
    ASSUME op \in Operation, repo \in Facts, NEW r \in Reads, Reconcile(r)
    PROVE  /\ op' \in Operation /\ op'.phase = "reconciling" /\ op'.read = r
           /\ op.phase \in {"executed", "terminal"}
           /\ op'.outcome = "none" /\ op'.requestedAt = repo.worktree[Worktree]
           /\ op'.evidence = op.evidence /\ op'.effects = op.effects
           /\ op'.succeeded = op.succeeded /\ op'.appliedAt = op.appliedAt
<1>1. repo.worktree[Worktree] \in Nat
  BY FileMutationAssumption DEF Facts
<1>2. QED
  BY <1>1 DEF Reconcile, Operation

-----------------------------------------------------------------------------
(* What the reconciliation concludes from a snapshot.                      *)

LEMMA OutcomeFacts ==
    ASSUME op \in Operation, op.evidence \in {"rejected", "attempted", "threw"},
           NEW snapshot
    PROVE  LET o == Outcome(snapshot)
               reached == {f \in Files : Reached(f, snapshot)}
           IN  /\ o \in {"unknown_outcome", "rejected", "succeeded", "partial_success",
                         "failed_known"}
               /\ o = "succeeded" => reached = Files
               /\ o = "failed_known" => op.evidence = "attempted" /\ reached = {}
               /\ o = "rejected" =>
                     \/ op.evidence = "rejected"
                     \/ /\ op.evidence = "attempted"
                        /\ \A f \in Files : op.effects[f] = "stale"
<1> DEFINE o == Outcome(snapshot)
           reached == {f \in Files : Reached(f, snapshot)}
           concluded == AttemptedOutcome(snapshot, reached)
<1>1. /\ concluded \in {"unknown_outcome", "rejected", "succeeded", "partial_success",
                         "failed_known"}
      /\ concluded = "succeeded" => reached = Files
      /\ concluded = "failed_known" => reached = {}
      /\ concluded = "rejected" => \A f \in Files : op.effects[f] = "stale"
  <2> HIDE DEF reached
  <2>1. reached = Files \/ (reached # {} /\ reached # Files) \/ reached = {}
    OBVIOUS
  <2>2. QED
    BY <2>1 DEF AttemptedOutcome
<1> HIDE DEF concluded
<1>2. \/ o = "unknown_outcome"
      \/ o = "rejected" /\ op.evidence = "rejected"
      \/ o = concluded /\ op.evidence = "attempted"
  BY DEF Outcome, concluded
<1> HIDE DEF o, reached
<1>3. QED
  BY <1>1, <1>2 DEF o, reached

LEMMA ReconciledFields ==
    ASSUME op \in Operation, published' \in Snapshot, NEW r \in Reads, Reconciled(r),
           op.evidence \in {"rejected", "attempted", "threw"}
    PROVE  /\ op' \in Operation /\ op'.phase = "terminal" /\ op'.read = NoRead
           /\ op.phase = "reconciling" /\ op.read = r
           /\ op'.outcome = Outcome(published')
           /\ op'.seen = published'.worktree[Worktree]
           /\ op'.succeeded = IF Outcome(published') \in {"succeeded", "partial_success"}
                              THEN {f \in Files : Reached(f, published')} ELSE {}
           /\ op'.evidence = op.evidence /\ op'.effects = op.effects
           /\ op'.requestedAt = op.requestedAt /\ op'.appliedAt = op.appliedAt
<1> DEFINE s == published'
           o == Outcome(s)
           done == IF o \in {"succeeded", "partial_success"}
                   THEN {f \in Files : Reached(f, s)} ELSE {}
           seen == s.worktree[Worktree]
<1>1. o \in {"unknown_outcome", "rejected", "succeeded", "partial_success", "failed_known"}
  BY OutcomeFacts
<1>2. seen \in Nat
  BY FileMutationAssumption DEF Snapshot
<1>3. done \in SUBSET Files
  OBVIOUS
<1>4. /\ op' = [op EXCEPT !.phase = "terminal", !.read = NoRead, !.outcome = o,
                          !.seen = seen, !.succeeded = done]
      /\ op.phase = "reconciling" /\ op.read = r
  BY DEF Reconciled
<1> HIDE DEF done, seen, o
<1>5. /\ op' \in Operation /\ op'.phase = "terminal" /\ op'.read = NoRead
      /\ op'.outcome = o /\ op'.seen = seen /\ op'.succeeded = done
      /\ op'.evidence = op.evidence /\ op'.effects = op.effects
      /\ op'.requestedAt = op.requestedAt /\ op'.appliedAt = op.appliedAt
  BY <1>1, <1>2, <1>3, <1>4 DEF Operation
<1>6. QED
  BY <1>4, <1>5 DEF done, seen, o

-----------------------------------------------------------------------------
(* MutationInv is kept by every step.                                      *)

(* What the command knows, without the reads and the types.                *)
CommandInv ==
    /\ WaitsForItsRead /\ EffectsAreTracked /\ OutcomeIsConcluded
    /\ ReportedSuccessIsReal /\ RejectedChangedNothing /\ KnownFailureIsObserved

LEMMA MutationInvFacts ==
    ASSUME MutationInv
    PROVE  /\ PublicationInv /\ CommandInv /\ op \in Operation /\ repo \in Facts
           /\ published \in Snapshot /\ repo.worktree[Worktree] \in Nat
  BY FileMutationAssumption DEF MutationInv, MutationTypeOK, CommandInv, PublicationInv,
     TypeOK, Facts

LEMMA MutationInvNext ==
    ASSUME PublicationInv', op' \in Operation, CommandInv'
    PROVE  MutationInv'
  BY DEF MutationInv, MutationTypeOK, CommandInv, PublicationInv

(* While no command has ended, nothing was reported of it.                 *)
LEMMA ElsewhereKeepsCommand ==
    ASSUME MutationInv, Elsewhere \/ UNCHANGED allVars
    PROVE  MutationInv'
<1>1. /\ PublicationInv' /\ op' = op /\ Moves
      /\ op.read \in Reads /\ Active(op.read) => Active(op.read)'
  <2>1. CASE Elsewhere
    BY <2>1, ElsewhereFacts, MutationInvFacts
  <2>2. CASE UNCHANGED allVars
    <3>1. [Next]_vars /\ op' = op /\ repo' = repo /\ reads' = reads
      BY <2>2 DEF allVars, vars
    <3>2. PublicationInv'
      BY <3>1, StepPreserves, MutationInvFacts
    <3>3. QED
      BY <3>1, <3>2, MutationInvFacts DEF Moves, Active
  <2>3. QED
    BY <2>1, <2>2
<1>2. op \in Operation /\ CommandInv /\ repo.worktree[Worktree] \in Nat
  BY MutationInvFacts
<1>3. repo'.worktree[Worktree] \in Nat
  BY <1>1, FileMutationAssumption DEF PublicationInv, TypeOK, Facts
<1>4. WaitsForItsRead'
  BY <1>1, <1>2 DEF CommandInv, WaitsForItsRead
<1>5. EffectsAreTracked'
  BY <1>1, <1>2, <1>3 DEF CommandInv, EffectsAreTracked, NoEffect, Remaining, Moves,
     Operation
<1>6. OutcomeIsConcluded' /\ ReportedSuccessIsReal' /\ RejectedChangedNothing'
      /\ KnownFailureIsObserved'
  BY <1>1, <1>2 DEF CommandInv, OutcomeIsConcluded, ReportedSuccessIsReal,
     RejectedChangedNothing, KnownFailureIsObserved
<1>7. CommandInv'
  BY <1>4, <1>5, <1>6 DEF CommandInv
<1>8. QED
  BY <1>1, <1>2, <1>7, MutationInvNext

LEMMA DispatchStep ==
    ASSUME MutationInv, NEW r \in Reads, Dispatch(r)
    PROVE  MutationInv'
<1>1. /\ PublicationInv /\ CommandInv /\ op \in Operation /\ published \in Snapshot
  BY MutationInvFacts
<1>2. PublicationInv' /\ repo' = repo /\ Active(r)'
  BY <1>1, StartReadFacts DEF Dispatch
<1>3. /\ op' \in Operation /\ op'.phase = "checking" /\ op'.read = r
      /\ op.phase = "submitted"
      /\ op'.evidence = op.evidence /\ op'.effects = op.effects
      /\ op'.outcome = op.outcome /\ op'.succeeded = op.succeeded
      /\ op'.appliedAt = op.appliedAt
  BY <1>1, DispatchFields
<1>4. WaitsForItsRead'
  BY <1>2, <1>3 DEF WaitsForItsRead, Active
<1>5. EffectsAreTracked'
  BY <1>1, <1>2, <1>3 DEF CommandInv, EffectsAreTracked, NoEffect, Remaining
<1>6. OutcomeIsConcluded' /\ ReportedSuccessIsReal' /\ RejectedChangedNothing'
      /\ KnownFailureIsObserved'
  BY <1>1, <1>3 DEF CommandInv, OutcomeIsConcluded, ReportedSuccessIsReal,
     RejectedChangedNothing, KnownFailureIsObserved
<1>7. QED
  BY <1>2, <1>3, <1>4, <1>5, <1>6, MutationInvNext DEF CommandInv

LEMMA CheckedStep ==
    ASSUME MutationInv, NEW r \in Reads, Checked(r)
    PROVE  MutationInv'
<1>1. PublicationInv /\ CommandInv /\ op \in Operation
  BY MutationInvFacts
<1>2. PublicationInv' /\ repo' = repo
  BY <1>1, AnswerStepFacts DEF Checked
<1>3. /\ op' \in Operation /\ op'.read = NoRead /\ op.phase = "checking"
      /\ op'.effects = op.effects
      /\ op'.outcome = op.outcome /\ op'.succeeded = op.succeeded
      /\ op'.appliedAt = op.appliedAt
      /\ \/ op'.phase = "executing" /\ op'.evidence = op.evidence
         \/ op'.phase = "executed" /\ op'.evidence = "rejected"
  BY <1>1, CheckedFields
<1>4. WaitsForItsRead'
  BY <1>3 DEF WaitsForItsRead
<1>5. EffectsAreTracked'
  BY <1>1, <1>2, <1>3 DEF CommandInv, EffectsAreTracked, NoEffect, Remaining
<1>6. OutcomeIsConcluded' /\ ReportedSuccessIsReal' /\ RejectedChangedNothing'
      /\ KnownFailureIsObserved'
  BY <1>1, <1>3 DEF CommandInv, OutcomeIsConcluded, ReportedSuccessIsReal,
     RejectedChangedNothing, KnownFailureIsObserved
<1>7. QED
  BY <1>2, <1>3, <1>4, <1>5, <1>6, MutationInvNext DEF CommandInv

(* The steps of execute leave the snapshot and the reads alone.            *)
LEMMA ExecutionIsApart ==
    ASSUME PublicationInv, UNCHANGED vars
    PROVE  PublicationInv' /\ repo' = repo
<1>1. [Next]_vars
  OBVIOUS
<1>2. QED
  BY <1>1, StepPreserves DEF vars

LEMMA RefuseStep ==
    ASSUME MutationInv, NEW f \in Files, NEW verdict \in {"stale", "blocked"},
           Refuse(f, verdict)
    PROVE  MutationInv'
<1>1. PublicationInv /\ CommandInv /\ op \in Operation
  BY MutationInvFacts
<1>2. PublicationInv' /\ repo' = repo
  BY <1>1, ExecutionIsApart DEF Refuse
<1>3. /\ op' \in Operation /\ op'.read = op.read /\ op.phase = "executing"
      /\ op'.outcome = op.outcome /\ op'.succeeded = op.succeeded
      /\ op'.appliedAt = op.appliedAt /\ op.effects[f] = "none"
      /\ \/ /\ NoEffect /\ op'.effects = op.effects
            /\ op'.phase = "executed" /\ op'.evidence = "rejected"
         \/ /\ op'.phase = "executing" /\ op'.evidence = op.evidence
            /\ op'.effects[f] = verdict
            /\ \A g \in Files \ {f} : op'.effects[g] = op.effects[g]
  BY <1>1, RefuseFields
<1>4. op.evidence = "none" /\ op'.phase \in {"executing", "executed"}
  BY <1>1, <1>3 DEF CommandInv, EffectsAreTracked
<1>5. WaitsForItsRead'
  BY <1>1, <1>3, <1>4 DEF CommandInv, WaitsForItsRead
<1>6. \A g \in Files : /\ op'.appliedAt[g] <= repo'.worktree[Worktree]
                       /\ op'.appliedAt[g] = 0 \/ op'.effects[g] = op.effects[g]
  <2> TAKE g \in Files
  <2>1. op'.appliedAt[g] <= repo'.worktree[Worktree]
    BY <1>1, <1>2, <1>3 DEF CommandInv, EffectsAreTracked
  <2>2. CASE g = f
    BY <1>1, <1>3, <1>4, <2>1, <2>2 DEF CommandInv, EffectsAreTracked
  <2>3. CASE g # f
    BY <1>3, <2>1, <2>3
  <2>4. QED
    BY <2>2, <2>3, <2>1
<1>7. EffectsAreTracked'
  <2>1. \A g \in Files : op'.effects[g] \notin {"completed", "failed"}
                            /\ op'.evidence # "threw" => op'.appliedAt[g] = 0
    BY <1>1, <1>3, <1>4, <1>6 DEF CommandInv, EffectsAreTracked
  <2>2. op'.evidence = "rejected" => NoEffect'
    BY <1>3, <1>4 DEF NoEffect, Remaining
  <2>3. QED
    BY <1>3, <1>4, <1>6, <2>1, <2>2 DEF EffectsAreTracked
<1>8. OutcomeIsConcluded' /\ ReportedSuccessIsReal' /\ RejectedChangedNothing'
      /\ KnownFailureIsObserved'
  BY <1>1, <1>3, <1>4 DEF CommandInv, OutcomeIsConcluded, ReportedSuccessIsReal,
     RejectedChangedNothing, KnownFailureIsObserved
<1>9. QED
  BY <1>2, <1>3, <1>5, <1>7, <1>8, MutationInvNext DEF CommandInv

(* A file is run, or its process is cut off.                               *)
LEMMA ExecutionStep ==
    ASSUME MutationInv, NEW f \in Files, NEW applied \in BOOLEAN,
           \/ \E exit \in {"completed", "failed"} : RunGit(f, exit, applied)
           \/ Interrupted(f, applied)
    PROVE  MutationInv'
<1>1. PublicationInv /\ CommandInv /\ op \in Operation /\ repo \in Facts
  BY MutationInvFacts
<1>2. /\ Apply(f, applied)
      /\ UNCHANGED <<generation, closed, published, reads, requested>>
  BY DEF RunGit, Interrupted
<1>3. /\ repo' \in Facts /\ repo'.refs = repo.refs /\ Moves
      /\ \A w \in Worktrees : repo.worktree[w] <= repo'.worktree[w]
      /\ AppliedAt(f, applied) \in Nat
      /\ AppliedAt(f, applied) <= repo'.worktree[Worktree]
  BY <1>1, <1>2, ApplyFacts
<1>4. PublicationInv'
  <2>1. repo.refs <= repo'.refs
    BY <1>1, <1>3 DEF Facts
  <2>2. QED
    BY <1>1, <1>2, <1>3, <2>1, RepositoryStep
<1>5. /\ op' \in Operation /\ op'.read = op.read /\ op.phase = "executing"
      /\ op'.phase \in {"executing", "executed"}
      /\ op'.outcome = op.outcome /\ op'.succeeded = op.succeeded
      /\ op.effects[f] = "none" /\ op'.appliedAt[f] = AppliedAt(f, applied)
      /\ \A g \in Files \ {f} : /\ op'.effects[g] = op.effects[g]
                                /\ op'.appliedAt[g] = op.appliedAt[g]
      /\ \/ /\ op'.phase = "executing" /\ op'.evidence = op.evidence
            /\ op'.effects[f] \in {"completed", "failed"}
         \/ /\ op'.phase = "executed" /\ op'.evidence = "threw"
            /\ op'.effects = op.effects
  BY <1>1, <1>3, RunGitFields, InterruptedFields
<1>6. /\ op.evidence = "none" /\ op.outcome = "none" /\ op.appliedAt[f] = 0
  BY <1>1, <1>5 DEF CommandInv, EffectsAreTracked, OutcomeIsConcluded
<1>7. WaitsForItsRead'
  BY <1>1, <1>5 DEF CommandInv, WaitsForItsRead
<1>8. \A g \in Files : op'.appliedAt[g] <= repo'.worktree[Worktree]
  <2> TAKE g \in Files
  <2>1. CASE g = f
    BY <1>3, <1>5, <2>1
  <2>2. CASE g # f
    <3>1. op'.appliedAt[g] = op.appliedAt[g] /\ op.appliedAt[g] \in Nat
      BY <1>1, <1>5, <2>2 DEF Operation
    <3>2. op.appliedAt[g] <= repo.worktree[Worktree]
      BY <1>1 DEF CommandInv, EffectsAreTracked
    <3>3. repo.worktree[Worktree] \in Nat /\ repo'.worktree[Worktree] \in Nat
      BY <1>1, <1>3, FileMutationAssumption DEF Facts
    <3>4. QED
      BY <1>3, <3>1, <3>2, <3>3 DEF Moves
  <2>3. QED
    BY <2>1, <2>2
<1>9. EffectsAreTracked'
  <2>1. \A g \in Files : op'.effects[g] \notin {"completed", "failed"}
                            /\ op'.evidence # "threw" => op'.appliedAt[g] = 0
    BY <1>1, <1>5, <1>6 DEF CommandInv, EffectsAreTracked
  <2>2. QED
    BY <1>5, <1>6, <1>8, <2>1 DEF EffectsAreTracked
<1>10. ReportedSuccessIsReal'
  <2>1. f \notin op.succeeded
    BY <1>1, <1>6 DEF CommandInv, ReportedSuccessIsReal
  <2>2. \A g \in op'.succeeded : g \in Files \ {f} /\ g \in op.succeeded
    BY <1>1, <1>5, <2>1 DEF Operation
  <2>3. QED
    BY <1>1, <1>5, <1>6, <2>2 DEF CommandInv, ReportedSuccessIsReal
<1>11. OutcomeIsConcluded' /\ RejectedChangedNothing' /\ KnownFailureIsObserved'
  BY <1>5, <1>6 DEF OutcomeIsConcluded, RejectedChangedNothing, KnownFailureIsObserved
<1>12. QED
  BY <1>4, <1>5, <1>7, <1>9, <1>10, <1>11, MutationInvNext DEF CommandInv

LEMMA AttemptedStep ==
    ASSUME MutationInv, Attempted
    PROVE  MutationInv'
<1>1. PublicationInv /\ CommandInv /\ op \in Operation
  BY MutationInvFacts
<1>2. PublicationInv' /\ repo' = repo
  BY <1>1, ExecutionIsApart DEF Attempted
<1>3. /\ op' \in Operation /\ op'.read = op.read /\ Remaining = {}
      /\ op.phase = "executing" /\ op'.phase = "executed"
      /\ op'.evidence = "attempted" /\ op'.outcome = op.outcome
      /\ op'.succeeded = op.succeeded /\ op'.effects = op.effects
      /\ op'.appliedAt = op.appliedAt
  BY <1>1, AttemptedFields
<1>4. op.evidence = "none" /\ op.outcome = "none"
  BY <1>1, <1>3 DEF CommandInv, EffectsAreTracked, OutcomeIsConcluded
<1>5. WaitsForItsRead'
  BY <1>1, <1>3 DEF CommandInv, WaitsForItsRead
<1>6. EffectsAreTracked'
  BY <1>1, <1>2, <1>3, <1>4 DEF CommandInv, EffectsAreTracked, Remaining
<1>7. OutcomeIsConcluded' /\ ReportedSuccessIsReal' /\ RejectedChangedNothing'
      /\ KnownFailureIsObserved'
  BY <1>1, <1>3, <1>4 DEF CommandInv, OutcomeIsConcluded, ReportedSuccessIsReal,
     RejectedChangedNothing, KnownFailureIsObserved
<1>8. QED
  BY <1>2, <1>3, <1>5, <1>6, <1>7, MutationInvNext DEF CommandInv

LEMMA ReconcileStep ==
    ASSUME MutationInv, NEW r \in Reads, Reconcile(r)
    PROVE  MutationInv'
<1>1. PublicationInv /\ CommandInv /\ op \in Operation /\ repo \in Facts
  BY MutationInvFacts
<1>2. PublicationInv' /\ repo' = repo /\ Active(r)'
  BY <1>1, StartReadFacts DEF Reconcile
<1>3. /\ op' \in Operation /\ op'.phase = "reconciling" /\ op'.read = r
      /\ op.phase \in {"executed", "terminal"}
      /\ op'.outcome = "none" /\ op'.requestedAt = repo.worktree[Worktree]
      /\ op'.evidence = op.evidence /\ op'.effects = op.effects
      /\ op'.succeeded = op.succeeded /\ op'.appliedAt = op.appliedAt
  BY <1>1, ReconcileFields
<1>4. WaitsForItsRead'
  BY <1>2, <1>3 DEF WaitsForItsRead, Active
<1>5. EffectsAreTracked'
  BY <1>1, <1>2, <1>3 DEF CommandInv, EffectsAreTracked, NoEffect, Remaining
<1>6. OutcomeIsConcluded'
  BY <1>1, <1>3 DEF CommandInv, OutcomeIsConcluded, EffectsAreTracked
<1>7. ReportedSuccessIsReal' /\ RejectedChangedNothing' /\ KnownFailureIsObserved'
  BY <1>1, <1>3 DEF CommandInv, ReportedSuccessIsReal, RejectedChangedNothing,
     KnownFailureIsObserved
<1>8. QED
  BY <1>2, <1>3, <1>4, <1>5, <1>6, <1>7, MutationInvNext DEF CommandInv

(* The conclusion: an effect is reported when the snapshot shows it, and a *)
(* known failure when a snapshot late enough shows none.                   *)
LEMMA ReconciledStep ==
    ASSUME MutationInv, NEW r \in Reads, Reconciled(r)
    PROVE  MutationInv'
<1> DEFINE reached == {f \in Files : Reached(f, published')}
<1>1. PublicationInv /\ CommandInv /\ op \in Operation
  BY MutationInvFacts
<1>2. PublicationInv' /\ repo' = repo
  BY <1>1, AnswerStepFacts DEF Reconciled
<1>3. published' \in Snapshot
  BY <1>2 DEF PublicationInv, TypeOK
<1>4. op.evidence \in {"rejected", "attempted", "threw"}
  BY <1>1 DEF Reconciled, CommandInv, EffectsAreTracked, Operation
<1>5. /\ op' \in Operation /\ op'.phase = "terminal" /\ op'.read = NoRead
      /\ op.phase = "reconciling"
      /\ op'.seen = published'.worktree[Worktree]
      /\ op'.succeeded = IF op'.outcome \in {"succeeded", "partial_success"}
                         THEN reached ELSE {}
      /\ op'.evidence = op.evidence /\ op'.effects = op.effects
      /\ op'.requestedAt = op.requestedAt /\ op'.appliedAt = op.appliedAt
      /\ op'.outcome = Outcome(published')
  BY <1>1, <1>3, <1>4, ReconciledFields
<1>6. /\ op'.outcome \in {"unknown_outcome", "rejected", "succeeded", "partial_success",
                           "failed_known"}
      /\ op'.outcome = "succeeded" => reached = Files
      /\ op'.outcome = "failed_known" => op.evidence = "attempted" /\ reached = {}
      /\ op'.outcome = "rejected" =>
            \/ op.evidence = "rejected"
            \/ /\ op.evidence = "attempted"
               /\ \A f \in Files : op.effects[f] = "stale"
  BY <1>1, <1>4, <1>5, OutcomeFacts
<1>7. WaitsForItsRead'
  BY <1>5 DEF WaitsForItsRead
<1>8. EffectsAreTracked'
  BY <1>1, <1>2, <1>4, <1>5 DEF CommandInv, EffectsAreTracked, NoEffect, Remaining
<1>9. OutcomeIsConcluded'
  BY <1>1, <1>5, <1>6 DEF CommandInv, OutcomeIsConcluded
<1>10. ReportedSuccessIsReal'
  BY <1>5, <1>6 DEF ReportedSuccessIsReal, Reached
<1>11. RejectedChangedNothing'
  BY <1>1, <1>5, <1>6 DEF CommandInv, EffectsAreTracked, NoEffect, Remaining,
     RejectedChangedNothing
<1>12. KnownFailureIsObserved'
  <2> SUFFICES ASSUME op'.outcome = "failed_known", op'.seen >= op'.requestedAt,
                      NEW f \in Files
               PROVE  op'.appliedAt[f] = 0
    BY DEF KnownFailureIsObserved
  <2>1. op.evidence = "attempted" /\ ~Reached(f, published')
    BY <1>6
  <2>2. /\ op.appliedAt[f] \in Nat /\ op.requestedAt \in Nat
        /\ published'.worktree[Worktree] \in Nat
    BY <1>1, <1>3, FileMutationAssumption DEF Operation, Snapshot
  <2>3. op.appliedAt[f] <= published'.worktree[Worktree]
    BY <1>1, <1>5, <2>2 DEF CommandInv, OutcomeIsConcluded
  <2>4. CASE op.effects[f] \in {"completed", "failed"}
    BY <1>5, <2>1, <2>3, <2>4 DEF Reached
  <2>5. CASE op.effects[f] \notin {"completed", "failed"}
    BY <1>1, <1>5, <2>1, <2>5 DEF CommandInv, EffectsAreTracked
  <2>6. QED
    BY <2>4, <2>5
<1>13. QED
  BY <1>2, <1>5, <1>7, <1>8, <1>9, <1>10, <1>11, <1>12, MutationInvNext DEF CommandInv

-----------------------------------------------------------------------------
LEMMA SubmittedEstablishes == MutationInit => MutationInv
<1> SUFFICES ASSUME MutationInit PROVE MutationInv
  OBVIOUS
<1>1. PublicationInv /\ repo \in Facts
  BY InitEstablishes DEF MutationInit, PublicationInv, TypeOK
<1>2. /\ op \in Operation /\ op.phase = "submitted" /\ op.read = NoRead
      /\ op.evidence = "none" /\ op.outcome = "none" /\ op.succeeded = {}
      /\ \A f \in Files : op.effects[f] = "none" /\ op.appliedAt[f] = 0
  BY DEF MutationInit, Submitted, Operation
<1>3. repo.worktree[Worktree] \in Nat
  BY <1>1, FileMutationAssumption DEF Facts
<1>4. WaitsForItsRead /\ EffectsAreTracked /\ OutcomeIsConcluded
  BY <1>2, <1>3 DEF WaitsForItsRead, EffectsAreTracked, OutcomeIsConcluded, NoEffect,
     Remaining
<1>5. ReportedSuccessIsReal /\ RejectedChangedNothing /\ KnownFailureIsObserved
  BY <1>2 DEF ReportedSuccessIsReal, RejectedChangedNothing, KnownFailureIsObserved
<1>6. QED
  BY <1>1, <1>2, <1>4, <1>5 DEF MutationInv, MutationTypeOK, PublicationInv

LEMMA MutationStepPreserves == MutationInv /\ [MutationNext]_allVars => MutationInv'
<1> SUFFICES ASSUME MutationInv, [MutationNext]_allVars PROVE MutationInv'
  OBVIOUS
<1>1. ASSUME NEW r \in Reads, Dispatch(r) PROVE MutationInv'
  BY <1>1, DispatchStep
<1>2. ASSUME NEW r \in Reads, Checked(r) PROVE MutationInv'
  BY <1>2, CheckedStep
<1>3. ASSUME NEW r \in Reads, Reconcile(r) PROVE MutationInv'
  BY <1>3, ReconcileStep
<1>4. ASSUME NEW r \in Reads, Reconciled(r) PROVE MutationInv'
  BY <1>4, ReconciledStep
<1>5. ASSUME NEW f \in Files, NEW verdict \in {"stale", "blocked"}, Refuse(f, verdict)
      PROVE  MutationInv'
  BY <1>5, RefuseStep
<1>6. ASSUME NEW f \in Files, NEW applied \in BOOLEAN,
             \/ \E exit \in {"completed", "failed"} : RunGit(f, exit, applied)
             \/ Interrupted(f, applied)
      PROVE  MutationInv'
  BY <1>6, ExecutionStep
<1>7. CASE Attempted
  BY <1>7, AttemptedStep
<1>8. CASE Elsewhere \/ UNCHANGED allVars
  BY <1>8, ElsewhereKeepsCommand
<1>9. QED
  BY <1>1, <1>2, <1>3, <1>4, <1>5, <1>6, <1>7, <1>8 DEF MutationNext

(* The inductive invariant of a Stage or Unstage command among the reads   *)
(* (MutationInv), for any number of files and of overlapping reads.        *)
THEOREM MutationInvariance == MutationSpec => []MutationInv
<1>1. MutationInit => MutationInv
  BY SubmittedEstablishes
<1>2. MutationInv /\ [MutationNext]_allVars => MutationInv'
  BY MutationStepPreserves
<1>3. QED
  BY <1>1, <1>2, PTL DEF MutationSpec

(* A file that the answer calls staged (or unstaged) is: whatever the exit *)
(* status said and whichever read published what was looked at.            *)
THEOREM SuccessIsReal == MutationSpec => []ReportedSuccessIsReal
<1>1. MutationInv => ReportedSuccessIsReal
  BY DEF MutationInv
<1>2. QED
  BY <1>1, MutationInvariance, PTL

(* A rejected command has left every file as it was.                       *)
THEOREM RejectionIsClean == MutationSpec => []RejectedChangedNothing
<1>1. MutationInv => RejectedChangedNothing
  BY DEF MutationInv
<1>2. QED
  BY <1>1, MutationInvariance, PTL

(* A known failure, concluded from the worktree as it was after the        *)
(* command, has left every file as it was.                                 *)
THEOREM KnownFailureIsClean == MutationSpec => []KnownFailureIsObserved
<1>1. MutationInv => KnownFailureIsObserved
  BY DEF MutationInv
<1>2. QED
  BY <1>1, MutationInvariance, PTL

-----------------------------------------------------------------------------
(* A command does not disturb what its own and other reads publish.        *)

LEMMA CommandStepsPublish ==
    ASSUME [MutationNext]_allVars
    PROVE  [Next]_vars \/ (published' = published /\ reads' = reads)
<1>1. ASSUME NEW r \in Reads,
             \/ Dispatch(r) \/ Checked(r) \/ Reconcile(r) \/ Reconciled(r)
      PROVE  [Next]_vars
  <2>1. StartRead(r, Worktrees) \/ AnswerStep(r)
    BY <1>1 DEF Dispatch, Checked, Reconcile, Reconciled
  <2>2. Worktrees \in (SUBSET Worktrees) \ {{}}
    BY FileMutationAssumption
  <2>3. CASE StartRead(r, Worktrees)
    BY <2>2, <2>3 DEF Next
  <2>4. CASE AnswerStep(r)
    <3>1. ReadStep(r)
      BY <2>4 DEF AnswerStep, ReadStep
    <3>2. QED
      BY <3>1 DEF Next
  <2>5. QED
    BY <2>1, <2>3, <2>4
<1>2. ASSUME NEW f \in Files, NEW verdict, Refuse(f, verdict) PROVE [Next]_vars
  BY <1>2 DEF Refuse
<1>3. ASSUME NEW f \in Files, NEW applied,
             (\E exit : RunGit(f, exit, applied)) \/ Interrupted(f, applied)
      PROVE  published' = published /\ reads' = reads
  BY <1>3 DEF RunGit, Interrupted
<1>4. CASE Attempted
  BY <1>4 DEF Attempted
<1>5. CASE Elsewhere
  BY <1>5 DEF Elsewhere, Next, ReadStep, AnswerStep
<1>6. CASE UNCHANGED allVars
  BY <1>6 DEF allVars
<1>7. QED
  BY <1>1, <1>2, <1>3, <1>4, <1>5, <1>6 DEF MutationNext

LEMMA CommandKeepsPublication ==
    ASSUME MutationInv, [MutationNext]_allVars
    PROVE  NeverGoesBack /\ AnswerIsCurrent /\ RevisionCounts
<1>1. PublicationInv /\ published \in Snapshot /\ reads \in [Reads -> Read]
  BY DEF MutationInv, PublicationInv, TypeOK
<1>2. CASE [Next]_vars
  BY <1>1, <1>2, PublishedMovesOn, AnswerCovers, RevisionMoves
<1>3. CASE published' = published /\ reads' = reads
  <2>1. NeverGoesBack /\ RevisionCounts
    BY <1>1, <1>3 DEF NeverGoesBack, RevisionCounts, Snapshot
  <2>2. \A r \in Reads : ~Answered(r)
    BY <1>3, IdleIsRead DEF Answered, Ended
  <2>3. QED
    BY <2>1, <2>2 DEF AnswerIsCurrent
<1>4. QED
  BY <1>2, <1>3, CommandStepsPublish

(* What is published stays coherent, never goes back, covers what the      *)
(* latest read was asked for and is named by its revision also while a     *)
(* command reads, changes the Index and reads again among other clients.   *)
THEOREM PublicationAroundCommands ==
    MutationSpec => /\ []CoherentSnapshot
                    /\ PublishedNeverGoesBack
                    /\ LatestReadIsCurrent
                    /\ RevisionIdentifiesSnapshot
<1>1. MutationInv => CoherentSnapshot
  BY DEF MutationInv, PublicationInv
<1>2. MutationInv /\ [MutationNext]_allVars =>
         NeverGoesBack /\ AnswerIsCurrent /\ RevisionCounts
  BY CommandKeepsPublication
<1>3. QED
  BY <1>1, <1>2, MutationInvariance, PTL
     DEF MutationSpec, PublishedNeverGoesBack, LatestReadIsCurrent,
         RevisionIdentifiesSnapshot
=============================================================================
