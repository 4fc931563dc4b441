------------------------ MODULE RefreshSchedulerProofs ------------------------
(***************************************************************************)
(* The scheduler of RefreshScheduler loses no event and keeps background   *)
(* reads away from operations, for every set of worktrees and calls.       *)
(***************************************************************************)
EXTENDS RefreshScheduler, TLAPS

-----------------------------------------------------------------------------
(* What startBackgroundRefresh does to the scopes, for scopes of worktrees *)
(* that are not empty.                                                     *)
LEMMA StartFacts ==
    ASSUME NEW scope \in SUBSET Worktrees, scope # {}, NEW rest \in SUBSET Worktrees,
           NEW running \in Read, NEW busy \in BOOLEAN, NEW known \in SUBSET Worktrees,
           known \subseteq rest \cup scope,
           StartBackground(scope, rest, running, busy), NoteStart(running, known),
           latest \in Calls \cup {None, Background}, closed \in BOOLEAN
    PROVE  /\ pending' \in SUBSET Worktrees /\ background' \in Read
           /\ latest' \in Calls \cup {None, Background} /\ unread' \in SUBSET Worktrees
           /\ ~closed => unread' \subseteq pending'
           /\ ~closed => background' # NoRead \/ busy
           /\ background' # running => ~closed /\ running = NoRead /\ ~busy
<1> DEFINE started == [scope |-> scope, since |-> {}]
<1>1. started \in Read /\ started # NoRead /\ started.scope = scope
  BY DEF Read, NoRead
<1>2. \/ closed /\ background' = running /\ pending' = rest
      \/ ~closed /\ (running # NoRead \/ busy) /\ background' = running
         /\ pending' = rest \cup scope
      \/ ~closed /\ running = NoRead /\ ~busy /\ background' = started /\ pending' = rest
  BY DEF StartBackground
<1>3. \/ background' # running /\ latest' = Background /\ unread' = known \ background'.scope
      \/ background' = running /\ latest' = latest /\ unread' = known
  BY DEF NoteStart
<1> HIDE DEF started
<1>4. QED
  BY <1>1, <1>2, <1>3

(* A call that leaves, or the end of the background read, starts what is   *)
(* pending.                                                                *)
LEMMA StartPendingFacts ==
    ASSUME SchedulerInv, NEW running \in Read, NEW busy \in BOOLEAN,
           StartPending(running, busy), NoteStart(running, unread)
    PROVE  /\ pending' \in SUBSET Worktrees /\ background' \in Read
           /\ latest' \in Calls \cup {None, Background} /\ unread' \in SUBSET Worktrees
           /\ ~closed => unread' \subseteq pending'
           /\ ~closed /\ pending' # {} => background' # NoRead \/ busy
           /\ background' # running => ~closed /\ running = NoRead /\ ~busy
<1>1. CASE busy \/ pending = {}
  BY <1>1 DEF StartPending, NoteStart, SchedulerInv, TypeOK, PendingIsServed
<1>2. CASE ~busy /\ pending # {}
  <2>1. StartBackground(pending, {}, running, busy) /\ (~closed => unread \subseteq pending)
        /\ latest \in Calls \cup {None, Background} /\ closed \in BOOLEAN
        /\ pending \in SUBSET Worktrees /\ unread \in SUBSET Worktrees
    BY <1>2 DEF StartPending, SchedulerInv, TypeOK, PendingIsServed
  <2>2. CASE ~closed
    BY <1>2, <2>1, <2>2, StartFacts
  <2>3. CASE closed
    BY <2>1, <2>3 DEF StartBackground, NoteStart
  <2>4. QED
    BY <2>2, <2>3
<1>3. QED
  BY <1>1, <1>2

-----------------------------------------------------------------------------
(* One lemma per kind of step.                                             *)

LEMMA ChangeStep ==
    ASSUME SchedulerInv, NEW w \in Worktrees, Change(w)
    PROVE  SchedulerInv'
<1>1. /\ calls \in [Calls -> Call] /\ background \in Read /\ changes \in Nat
      /\ stale \in SUBSET Worktrees
  BY DEF SchedulerInv, TypeOK
<1>2. /\ calls' \in [Calls -> Call]
      /\ \A c \in Calls : calls'[c].phase = calls[c].phase /\ calls'[c].awaits = calls[c].awaits
  BY <1>1 DEF Change, Call
<1>3. /\ background' \in Read /\ (background = NoRead <=> background' = NoRead)
  <2>1. CASE background = NoRead
    BY <2>1, <1>1 DEF Change
  <2>2. CASE background # NoRead
    <3>1. background' = [background EXCEPT !.since = background.since \cup {w}]
      BY <2>2 DEF Change
    <3>2. background' \in Read /\ w \in background'.since
      BY <1>1, <3>1 DEF Read
    <3>3. QED
      BY <2>2, <3>2 DEF NoRead
  <2>3. QED
    BY <2>1, <2>2
<1>4. Foreground' = Foreground
  BY <1>2 DEF Foreground, InForeground
<1>5. TypeOK'
  BY <1>1, <1>2, <1>3 DEF SchedulerInv, TypeOK, Change
<1>6. PendingIsServed'
  BY <1>3, <1>4 DEF SchedulerInv, PendingIsServed, Change
<1>7. OperationsRunAlone' /\ WaitsForBackground'
  BY <1>2, <1>3 DEF SchedulerInv, OperationsRunAlone, WaitsForBackground
<1>8. QED
  BY <1>5, <1>6, <1>7 DEF SchedulerInv

LEMMA FileEventStep ==
    ASSUME SchedulerInv, NEW scope \in SUBSET Worktrees, FileEvent(scope)
    PROVE  SchedulerInv'
  BY DEF SchedulerInv, TypeOK, PendingIsServed, OperationsRunAlone, WaitsForBackground,
     FileEvent, Foreground

(* Poll and debounce: the calls stay where they are.                       *)
LEMMA TimerStep ==
    ASSUME SchedulerInv, NEW scope \in SUBSET Worktrees, scope # {},
           NEW rest \in SUBSET Worktrees, ~closed => unread \subseteq rest \cup scope,
           StartBackground(scope, rest, background, Foreground),
           NoteStart(background, unread),
           debounce' \in BOOLEAN, cursor' \in DOMAIN Others,
           UNCHANGED <<closed, configured, requested, calls, failures, changes, stale>>
    PROVE  SchedulerInv'
<1>1. /\ background \in Read /\ unread \in SUBSET Worktrees /\ closed \in BOOLEAN
      /\ latest \in Calls \cup {None, Background} /\ Foreground \in BOOLEAN
  BY DEF SchedulerInv, TypeOK, Foreground
<1>2. CASE closed
  <2>1. background' = background /\ pending' = rest /\ unread' = unread /\ latest' = latest
    BY <1>2 DEF StartBackground, NoteStart
  <2>2. QED
    BY <1>2, <2>1 DEF SchedulerInv, TypeOK, PendingIsServed, OperationsRunAlone,
       WaitsForBackground
<1>3. CASE ~closed
  <2>1. /\ pending' \in SUBSET Worktrees /\ background' \in Read
        /\ latest' \in Calls \cup {None, Background} /\ unread' \in SUBSET Worktrees
        /\ unread' \subseteq pending'
        /\ background' # NoRead \/ Foreground
        /\ background' # background => background = NoRead /\ ~Foreground
    BY <1>1, <1>3, StartFacts
  <2>2. Foreground' = Foreground
    BY DEF Foreground
  <2>3. TypeOK' /\ PendingIsServed'
    BY <2>1, <2>2 DEF SchedulerInv, TypeOK, PendingIsServed
  <2>4. OperationsRunAlone' /\ WaitsForBackground'
    BY <2>1 DEF SchedulerInv, OperationsRunAlone, WaitsForBackground, Foreground, InForeground
  <2>5. QED
    BY <2>3, <2>4 DEF SchedulerInv
<1>4. QED
  BY <1>2, <1>3

LEMMA PollStep ==
    ASSUME SchedulerInv, PollSelected \/ PollOther \/ PollAll
    PROVE  SchedulerInv'
<1>1. pending \in SUBSET Worktrees /\ cursor \in DOMAIN Others
      /\ (~closed => unread \subseteq pending)
  BY DEF SchedulerInv, TypeOK, PendingIsServed
<1>2. ASSUME NEW scope \in SUBSET Worktrees, scope # {}, Poll(scope), cursor' \in DOMAIN Others
      PROVE  SchedulerInv'
  <2>1. debounce' \in BOOLEAN
    BY <1>2 DEF Poll, SchedulerInv, TypeOK
  <2>2. QED
    BY <1>1, <1>2, <2>1, TimerStep DEF Poll
<1>3. CASE PollSelected
  BY <1>1, <1>2, <1>3, SchedulerAssumption DEF PollSelected
<1>4. CASE PollOther
  <2>1. /\ Others \in Seq(Worktrees) /\ Others # <<>> /\ DOMAIN Others = 1..Len(Others)
        /\ Len(Others) \in Nat \ {0}
    BY SchedulerAssumption
  <2>2. Others[cursor] \in Worktrees /\ (cursor % Len(Others)) + 1 \in DOMAIN Others
    BY <1>1, <2>1
  <2>3. QED
    BY <1>2, <1>4, <2>2 DEF PollOther
<1>5. CASE PollAll
  BY <1>1, <1>2, <1>5, SchedulerAssumption DEF PollAll
<1>6. QED
  BY <1>3, <1>4, <1>5

LEMMA DebounceStep ==
    ASSUME SchedulerInv, DebounceFires
    PROVE  SchedulerInv'
<1> DEFINE scope == IF pending = {} THEN Worktrees ELSE pending
<1>1. /\ pending \in SUBSET Worktrees /\ cursor \in DOMAIN Others
      /\ (~closed => unread \subseteq pending)
  BY DEF SchedulerInv, TypeOK, PendingIsServed
<1>2. scope \in SUBSET Worktrees /\ scope # {} /\ (~closed => unread \subseteq scope)
  BY <1>1, SchedulerAssumption
<1> HIDE DEF scope
<1>3. StartBackground(scope, {}, background, Foreground) /\ NoteStart(background, unread)
  BY DEF DebounceFires, scope
<1>4. /\ debounce' \in BOOLEAN /\ cursor' \in DOMAIN Others
      /\ UNCHANGED <<closed, configured, requested, calls, failures, changes, stale>>
  BY <1>1 DEF DebounceFires
<1>5. {} \in SUBSET Worktrees /\ (~closed => unread \subseteq {} \cup scope)
  BY <1>2
<1>6. QED
  BY <1>2, <1>3, <1>4, <1>5, TimerStep

(* The end of the background read, of a foreground read, of an operation.  *)
LEMMA EndStep ==
    ASSUME SchedulerInv, NEW running \in Read, NEW busy \in BOOLEAN,
           StartPending(running, busy), NoteStart(running, unread),
           calls' \in [Calls -> Call], Foreground' = busy,
           configured' \in BOOLEAN, requested' \in Calls \cup {None},
           failures' \in Nat, stale' \in SUBSET Worktrees,
           UNCHANGED <<closed, debounce, cursor, changes>>,
           \A c \in Calls : calls'[c].phase = "operating" => running = NoRead,
           \A c \in Calls : calls'[c].phase = "waiting" /\ running # NoRead
                               => Background \in calls'[c].awaits
    PROVE  SchedulerInv'
<1>1. /\ pending' \in SUBSET Worktrees /\ background' \in Read
      /\ latest' \in Calls \cup {None, Background} /\ unread' \in SUBSET Worktrees
      /\ ~closed => unread' \subseteq pending'
      /\ ~closed /\ pending' # {} => background' # NoRead \/ busy
      /\ background' # running => ~closed /\ running = NoRead /\ ~busy
  BY StartPendingFacts
<1>2. TypeOK' /\ PendingIsServed'
  BY <1>1 DEF SchedulerInv, TypeOK, PendingIsServed
<1>3. OperationsRunAlone' /\ WaitsForBackground'
  BY <1>1 DEF OperationsRunAlone, WaitsForBackground, Foreground, InForeground
<1>4. QED
  BY <1>2, <1>3 DEF SchedulerInv

LEMMA PublishedTypes ==
    ASSUME SchedulerInv, NEW read, NEW scope, NEW since, Published(read, scope, since)
    PROVE  configured' \in BOOLEAN /\ failures' \in Nat /\ stale' \in SUBSET Worktrees
<1>1. configured \in BOOLEAN /\ failures \in Nat /\ stale \in SUBSET Worktrees
  BY DEF SchedulerInv, TypeOK
<1>2. configured' \in BOOLEAN
  BY <1>1, Zenon DEF Published
<1>3. failures' \in Nat
  BY <1>1 DEF Published
<1>4. stale' \in SUBSET Worktrees
  BY <1>1 DEF Published
<1>5. QED
  BY <1>2, <1>3, <1>4

LEMMA BackgroundEndsStep ==
    ASSUME SchedulerInv, BackgroundEnds
    PROVE  SchedulerInv'
<1>1. /\ calls \in [Calls -> Call] /\ NoRead \in Read /\ Foreground \in BOOLEAN
      /\ requested \in Calls \cup {None}
  BY DEF SchedulerInv, TypeOK, NoRead, Read, Foreground
<1>2. /\ calls' \in [Calls -> Call]
      /\ \A c \in Calls : calls'[c].phase = calls[c].phase
  BY <1>1 DEF BackgroundEnds, Call
<1>3. Foreground' = Foreground
  BY <1>2 DEF Foreground
<1>4. configured' \in BOOLEAN /\ failures' \in Nat /\ stale' \in SUBSET Worktrees
  BY PublishedTypes DEF BackgroundEnds
<1>5. QED
  BY <1>1, <1>2, <1>3, <1>4, EndStep DEF BackgroundEnds

LEMMA ReadEndsStep ==
    ASSUME SchedulerInv, NEW c \in Calls, ReadEnds(c)
    PROVE  SchedulerInv'
<1>1. /\ calls \in [Calls -> Call] /\ background \in Read /\ ForegroundAfter(c) \in BOOLEAN
      /\ OperationsRunAlone /\ WaitsForBackground /\ Background # c
  BY SchedulerAssumption DEF SchedulerInv, TypeOK, ForegroundAfter
<1>2. /\ calls' \in [Calls -> Call]
      /\ calls'[c].phase = "done"
      /\ \A d \in Calls \ {c} : /\ calls'[d].phase = calls[d].phase
                               /\ calls'[d].awaits = calls[d].awaits \ {c}
  BY <1>1 DEF ReadEnds, Call
<1>3. Foreground' = ForegroundAfter(c)
  BY <1>2 DEF Foreground, ForegroundAfter, InForeground
<1>4. configured' \in BOOLEAN /\ failures' \in Nat /\ stale' \in SUBSET Worktrees
  BY PublishedTypes DEF ReadEnds
<1>5. requested' \in Calls \cup {None}
  BY DEF ReadEnds, SchedulerInv, TypeOK
<1>6. /\ \A d \in Calls : calls'[d].phase = "operating" => background = NoRead
      /\ \A d \in Calls : calls'[d].phase = "waiting" /\ background # NoRead
                               => Background \in calls'[d].awaits
  BY <1>1, <1>2 DEF OperationsRunAlone, WaitsForBackground
<1>7. QED
  BY <1>1, <1>2, <1>3, <1>4, <1>5, <1>6, EndStep DEF ReadEnds

LEMMA DispatchEndsStep ==
    ASSUME SchedulerInv, NEW c \in Calls, DispatchEnds(c)
    PROVE  SchedulerInv'
<1>1. /\ calls \in [Calls -> Call] /\ background \in Read /\ ForegroundAfter(c) \in BOOLEAN
      /\ OperationsRunAlone /\ WaitsForBackground
  BY DEF SchedulerInv, TypeOK, ForegroundAfter
<1>2. /\ calls' \in [Calls -> Call] /\ calls'[c].phase = "done"
      /\ \A d \in Calls \ {c} : calls'[d] = calls[d]
  BY <1>1 DEF DispatchEnds, Call
<1>3. Foreground' = ForegroundAfter(c)
  BY <1>2 DEF Foreground, ForegroundAfter, InForeground
<1>4. /\ \A d \in Calls : calls'[d].phase = "operating" => background = NoRead
      /\ \A d \in Calls : calls'[d].phase = "waiting" /\ background # NoRead
                               => Background \in calls'[d].awaits
  BY <1>1, <1>2 DEF OperationsRunAlone, WaitsForBackground
<1>5. /\ configured' \in BOOLEAN /\ requested' \in Calls \cup {None}
      /\ failures' \in Nat /\ stale' \in SUBSET Worktrees
      /\ UNCHANGED <<closed, debounce, cursor, changes>>
      /\ StartPending(background, ForegroundAfter(c)) /\ NoteStart(background, unread)
  BY DEF DispatchEnds, SchedulerInv, TypeOK
<1>6. QED
  BY <1>1, <1>2, <1>3, <1>4, <1>5, EndStep

(* Calls that begin or proceed.                                            *)
LEMMA CallStarts ==
    ASSUME SchedulerInv, NEW c \in Calls, CallSnapshot(c) \/ CallRefresh(c)
    PROVE  SchedulerInv'
<1>1. calls \in [Calls -> Call] /\ calls[c].phase = "new"
      /\ calls' = [calls EXCEPT ![c].phase = "reading"]
  BY DEF SchedulerInv, TypeOK, CallSnapshot, CallRefresh
<1>2. /\ calls' \in [Calls -> Call] /\ calls'[c].phase = "reading"
      /\ \A d \in Calls \ {c} : calls'[d] = calls[d]
  BY <1>1 DEF Call
<1>3. Foreground'
  BY <1>2 DEF Foreground, InForeground
<1>4. QED
  BY <1>2, <1>3 DEF SchedulerInv, TypeOK, PendingIsServed, OperationsRunAlone,
     WaitsForBackground, CallSnapshot, CallRefresh

LEMMA DispatchStep ==
    ASSUME SchedulerInv, NEW c \in Calls, Dispatch(c)
    PROVE  SchedulerInv'
<1> DEFINE awaited == {r \in {requested} : r # None}
                        \cup (IF background = NoRead THEN {} ELSE {Background})
<1>1. calls \in [Calls -> Call] /\ awaited \in SUBSET (Calls \cup {Background})
      /\ (background # NoRead => Background \in awaited)
  BY DEF SchedulerInv, TypeOK
<1>2. calls' = [calls EXCEPT ![c].phase = "waiting", ![c].awaits = awaited]
  BY DEF Dispatch
<1> HIDE DEF awaited
<1>3. /\ calls' \in [Calls -> Call] /\ calls'[c].phase = "waiting"
      /\ calls'[c].awaits = awaited
      /\ \A d \in Calls \ {c} : calls'[d] = calls[d]
  BY <1>1, <1>2 DEF Call
<1>4. Foreground'
  BY <1>3 DEF Foreground, InForeground
<1>5. QED
  BY <1>1, <1>3, <1>4 DEF SchedulerInv, TypeOK, PendingIsServed, OperationsRunAlone,
     WaitsForBackground, Dispatch, repository

LEMMA DispatchProceedsStep ==
    ASSUME SchedulerInv, NEW c \in Calls, DispatchProceeds(c)
    PROVE  SchedulerInv'
<1>1. calls \in [Calls -> Call] /\ background = NoRead
  BY DEF SchedulerInv, TypeOK, WaitsForBackground, DispatchProceeds
<1>2. /\ calls' \in [Calls -> Call] /\ calls'[c].phase = "operating"
      /\ \A d \in Calls \ {c} : calls'[d] = calls[d]
  BY <1>1 DEF DispatchProceeds, Call
<1>3. Foreground'
  BY <1>2 DEF Foreground, InForeground
<1>4. QED
  BY <1>1, <1>2, <1>3 DEF SchedulerInv, TypeOK, PendingIsServed, OperationsRunAlone,
     WaitsForBackground, DispatchProceeds, repository

-----------------------------------------------------------------------------
(* The inductive invariant of the scheduler (repository-refresh.ts) holds  *)
(* for any worktrees, any calls and any failures of reads.                 *)
THEOREM SchedulerInvariance == Spec => []SchedulerInv
<1>1. Init => SchedulerInv
  <2> SUFFICES ASSUME Init PROVE SchedulerInv
    OBVIOUS
  <2>1. 1 \in DOMAIN Others
    BY SchedulerAssumption
  <2>2. NoRead \in Read /\ NewCall \in Call /\ NewCall.phase = "new"
    BY DEF NoRead, Read, NewCall, Call
  <2>3. calls \in [Calls -> Call] /\ \A c \in Calls : calls[c].phase = "new"
    BY <2>2 DEF Init
  <2>4. QED
    BY <2>1, <2>2, <2>3 DEF Init, SchedulerInv, TypeOK, PendingIsServed, OperationsRunAlone,
       WaitsForBackground
<1>2. SchedulerInv /\ [Next]_vars => SchedulerInv'
  <2> SUFFICES ASSUME SchedulerInv, [Next]_vars PROVE SchedulerInv'
    OBVIOUS
  <2>1. CASE \E w \in Worktrees : Change(w)
    BY <2>1, ChangeStep
  <2>2. CASE \E scope \in SUBSET Worktrees : FileEvent(scope)
    BY <2>2, FileEventStep
  <2>3. CASE DebounceFires
    BY <2>3, DebounceStep
  <2>4. CASE PollSelected \/ PollOther \/ PollAll
    BY <2>4, PollStep
  <2>5. CASE BackgroundEnds
    BY <2>5, BackgroundEndsStep
  <2>6. ASSUME NEW c \in Calls, CallStep(c) PROVE SchedulerInv'
    BY <2>6, CallStarts, DispatchStep, ReadEndsStep, DispatchProceedsStep, DispatchEndsStep
       DEF CallStep
  <2>7. CASE Close
    BY <2>7 DEF Close, SchedulerInv, TypeOK, PendingIsServed, OperationsRunAlone,
       WaitsForBackground, Foreground
  <2>8. CASE UNCHANGED vars
    BY <2>8 DEF vars, repository, SchedulerInv, TypeOK, PendingIsServed, OperationsRunAlone,
       WaitsForBackground, Foreground
  <2>9. QED
    BY <2>1, <2>2, <2>3, <2>4, <2>5, <2>6, <2>7, <2>8 DEF Next
<1>3. QED
  BY <1>1, <1>2, PTL DEF Spec

(* An event is never lost, whatever reads and operations are under way     *)
(* when it arrives.                                                        *)
THEOREM EventsAreServed == Spec => []PendingIsServed
<1>1. SchedulerInv => PendingIsServed
  BY DEF SchedulerInv
<1>2. QED
  BY <1>1, SchedulerInvariance, PTL

(* While an operation runs there is no background read.                    *)
THEOREM OperationsAlone == Spec => []OperationsRunAlone
<1>1. SchedulerInv => OperationsRunAlone
  BY DEF SchedulerInv
<1>2. QED
  BY <1>1, SchedulerInvariance, PTL
=============================================================================
