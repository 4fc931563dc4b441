----------------------- MODULE InvalidationDelivery -----------------------
(***************************************************************************)
(* How a window learns that the repository changed.                        *)
(*                                                                         *)
(*   session --InvalidationStream--> launcher's pump --> event broker      *)
(*           --server-sent events--> protocol source of the UI             *)
(*           <--GET /snapshot------                                        *)
(*                                                                         *)
(* The session publishes the number of its newest snapshot and the         *)
(* progress of operations; the window never receives Git data in an event, *)
(* it asks for a snapshot.  Every stage may lose an event: the stream      *)
(* drops the oldest of a full queue, the broker forgets all but its last   *)
(* events and cuts off a client that reads too slowly, connections break,  *)
(* and the window ignores what it takes for old news.  The module asks     *)
(* whether the window still ends up with the newest snapshot.              *)
(*                                                                         *)
(* One window is modelled: broker clients do not affect each other.        *)
(***************************************************************************)
EXTENDS Naturals, Sequences, SequencesExt

CONSTANTS
    MaxRevision,    \* bound: the newest revision the session publishes
    QueueLimit,     \* MAX_PENDING_INVALIDATIONS
    HistoryLimit,   \* events the broker keeps for replay
    MaxOperations,  \* bound: operation summaries the session publishes
    MaxBreaks,      \* bound: connections that break or are cut off
    MaxFailures,    \* bound: requests of the window that fail
    MaxRefreshes    \* bound: refreshes the user asks for

ASSUME LimitAssumption == QueueLimit \in Nat \ {0} /\ HistoryLimit \in Nat \ {0}

ASSUME BoundAssumption ==
    /\ MaxRevision \in Nat \ {0} /\ MaxOperations \in Nat /\ MaxBreaks \in Nat
    /\ MaxFailures \in Nat /\ MaxRefreshes \in Nat

VARIABLES
    latest,     \* repositoryRevision of the session's snapshot; 0: none yet
    stream,     \* the launcher's subscription: its #pending, and the event
                \* its pump was just resolved with
    broker,     \* nextId and history of the event broker
    link,       \* the connection of the window's EventSource
    source,     \* the protocol source of the window
    requests,   \* its snapshot requests in flight, in the order they were sent
    closed,     \* the runtime was closed
    due,        \* history variable: what the window can be expected to show
    budget      \* what is left of the bounds

vars == <<latest, stream, broker, link, source, requests, closed, due, budget>>

(***************************************************************************)
(* Events.  An operation event carries no revision.                        *)
(***************************************************************************)
RevisionEvent(revision) == [kind |-> "repository_revision", revision |-> revision]
OperationEvent == [kind |-> "operation_progress", revision |-> 0]
NoEvent == [kind |-> "none", revision |-> 0]

Events == {OperationEvent} \cup {RevisionEvent(r) : r \in 1 .. MaxRevision}

(* A snapshot request.  Revision 0 answers that there is no repository to  *)
(* show.                                                                   *)
Pending == [status |-> "pending", revision |-> 0]
Failed == [status |-> "failed", revision |-> 0]
Answer(revision) == [status |-> "answered", revision |-> revision]
Requests == {Pending, Failed} \cup {Answer(r) : r \in 0 .. MaxRevision}

Stored == [id : Nat, event : Events]

(* The connection is left out: what it carries is what the broker wrote.   *)
TypeOK ==
    /\ latest \in 0 .. MaxRevision
    /\ stream \in [pumped : BOOLEAN, queue : Seq(Events), held : Events \cup {NoEvent}]
    /\ Len(stream.queue) <= QueueLimit
    /\ broker \in [nextId : Nat, history : Seq(Stored)]
    /\ Len(broker.history) <= HistoryLimit
    /\ source \in [active : BOOLEAN, negotiation : {"pending", "done", "failed"},
                   kind : {"loading", "repository", "failed"},
                   revision : 0 .. MaxRevision, stale : BOOLEAN, invalidated : BOOLEAN]
    /\ requests \in Seq(Requests)
    /\ closed \in BOOLEAN
    /\ due \in 0 .. MaxRevision

(* The launcher reads the repository once before it starts the server, and *)
(* subscribes only if that read found a repository.                        *)
Init ==
    /\ latest \in {0, 1}
    /\ stream = [pumped |-> latest = 1, queue |-> <<>>, held |-> NoEvent]
    /\ broker = [nextId |-> 1, history |-> <<>>]
    /\ link = [state |-> "none", wire |-> <<>>, lastId |-> 0]
    /\ source = [active |-> TRUE, negotiation |-> "pending", kind |-> "loading",
                 revision |-> 0, stale |-> FALSE, invalidated |-> FALSE]
    /\ requests = <<>>
    /\ closed = FALSE
    /\ due = 0
    /\ budget = [operations |-> MaxOperations, breaks |-> MaxBreaks,
                 failures |-> MaxFailures, refreshes |-> MaxRefreshes]

Spend(item) ==
    /\ budget[item] > 0
    /\ budget' = [budget EXCEPT ![item] = @ - 1]

--------------------------------------------------------------------------
(* The session's stream and the launcher's pump.                           *)

(* A publication resolves the pump if it waits; otherwise the event is     *)
(* queued, and a full queue drops its oldest event.                        *)
Enqueue(s, event) ==
    IF ~s.pumped THEN s
    ELSE IF s.held = NoEvent THEN [s EXCEPT !.held = event]
    ELSE [s EXCEPT !.queue =
              Append(IF Len(s.queue) = QueueLimit THEN Tail(s.queue) ELSE s.queue,
                     event)]

(* The window is owed a revision once it shows a repository and its stream *)
(* is open, or can be resumed where it broke.                              *)
Listening ==
    /\ stream.pumped /\ source.active /\ source.kind = "repository"
    /\ link.state = "open" \/ link.lastId > 0

Owe(revision) == due' = IF Listening THEN revision ELSE due

(* publishCurrent: a read found a change.                                  *)
PublishRevision ==
    /\ ~closed /\ latest < MaxRevision
    /\ latest' = latest + 1
    /\ stream' = Enqueue(stream, RevisionEvent(latest + 1))
    /\ Owe(latest + 1)
    /\ UNCHANGED <<broker, link, source, requests, closed, budget>>

(* An operation's summary changed: its event and, because the summary is   *)
(* part of the snapshot, a new revision, in one go.                        *)
PublishOperation ==
    /\ ~closed /\ latest \in 1 .. MaxRevision - 1
    /\ Spend("operations")
    /\ latest' = latest + 1
    /\ stream' = Enqueue(Enqueue(stream, OperationEvent), RevisionEvent(latest + 1))
    /\ Owe(latest + 1)
    /\ UNCHANGED <<broker, link, source, requests, closed>>

(* next(): the oldest queued event, or wait.                               *)
TakeNext(s) ==
    IF s.queue = <<>> THEN [s EXCEPT !.held = NoEvent]
    ELSE [s EXCEPT !.held = Head(s.queue), !.queue = Tail(@)]

(* A connection that breaks, or that the broker destroys, still delivers   *)
(* what had left the server: any prefix of what was written.               *)
Severed(wire) ==
    {[link EXCEPT !.state = "severed", !.wire = SubSeq(wire, 1, n)] :
        n \in 0 .. Len(wire)}

Remember(history, stored) ==
    LET longer == Append(history, stored)
    IN  IF Len(longer) > HistoryLimit THEN Tail(longer) ELSE longer

(* broker.publish: number the event, keep it, and write it to the client;  *)
(* a client whose buffer is full is destroyed.                             *)
Pump ==
    /\ stream.held # NoEvent
    /\ stream' = TakeNext(stream)
    /\ IF closed THEN UNCHANGED <<broker, link, budget>> ELSE
       LET stored == [id |-> broker.nextId, event |-> stream.held]
           written == Append(link.wire, stored)
       IN  /\ broker' = [nextId |-> broker.nextId + 1,
                         history |-> Remember(broker.history, stored)]
           /\ \/ /\ link.state = "open"
                 /\ link' = [link EXCEPT !.wire = written]
                 /\ UNCHANGED budget
              \/ /\ link.state = "open"
                 /\ link' \in Severed(written)
                 /\ Spend("breaks")
              \/ /\ link.state # "open"
                 /\ UNCHANGED <<link, budget>>
    /\ UNCHANGED <<latest, source, requests, closed, due>>

--------------------------------------------------------------------------
(* The connection of the EventSource.                                      *)

(* The events that a client which saw lastId has missed; one that saw none *)
(* sends no Last-Event-ID and is replayed nothing.                         *)
Replay(lastId) ==
    IF lastId = 0 THEN <<>>
    ELSE SelectSeq(broker.history, LAMBDA stored : stored.id > lastId)

(* open(): the client is added and the missed events are written.          *)
OpenStream ==
    /\ link.state = "connecting" /\ ~closed
    /\ \/ /\ link' = [link EXCEPT !.state = "open", !.wire = Replay(link.lastId)]
          /\ UNCHANGED budget
       \/ /\ Replay(link.lastId) # <<>>
          /\ link' \in Severed(Replay(link.lastId))
          /\ Spend("breaks")
    /\ UNCHANGED <<latest, stream, broker, source, requests, closed, due>>

BreakStream ==
    /\ link.state = "open"
    /\ Spend("breaks")
    /\ link' \in Severed(link.wire)
    /\ UNCHANGED <<latest, stream, broker, source, requests, closed, due>>

(* The browser connects again by itself.  A stream that broke before its   *)
(* first event cannot be resumed: nothing is owed of what it carried.      *)
Reconnect ==
    /\ link.state = "severed" /\ link.wire = <<>>
    /\ link' = [link EXCEPT !.state = "connecting"]
    /\ due' = IF link.lastId = 0 THEN 0 ELSE due
    /\ UNCHANGED <<latest, stream, broker, source, requests, closed, budget>>

--------------------------------------------------------------------------
(* The protocol source of the window.                                      *)

\* Mutant: every caller sends a request of its own.
RequestSnapshotAnew(inFlight) == Append(inFlight, Pending)

(* requestSnapshot: one request at a time, later callers join it.          *)
RequestSnapshot(inFlight) ==
    IF inFlight # <<>> THEN inFlight ELSE <<Pending>>

(* requiresSnapshot: is this event news for what the source shows?         *)
RequiresSnapshot(event) ==
    /\ source.kind = "repository"
    /\ \/ event.kind = "operation_progress"
       \/ event.revision > source.revision

\* Mutant: an event joins the request in flight.
ReceiveEventJoins ==
    /\ link.state \in {"open", "severed"} /\ link.wire # <<>>
    /\ LET stored == Head(link.wire)
       IN  /\ link' = [link EXCEPT !.wire = Tail(@), !.lastId = stored.id]
           /\ requests' = IF RequiresSnapshot(stored.event)
                          THEN RequestSnapshot(requests) ELSE requests
    /\ UNCHANGED <<latest, stream, broker, source, closed, due, budget>>

(* The listener: ask for a snapshot, or have the request in flight         *)
(* followed by another.                                                    *)
ReceiveEvent ==
    /\ link.state \in {"open", "severed"} /\ link.wire # <<>>
    /\ LET stored == Head(link.wire)
       IN  /\ link' = [link EXCEPT !.wire = Tail(@), !.lastId = stored.id]
           /\ IF ~RequiresSnapshot(stored.event)
              THEN UNCHANGED <<source, requests>>
              ELSE IF requests = <<>>
              THEN requests' = RequestSnapshot(requests) /\ UNCHANGED source
              ELSE source' = [source EXCEPT !.invalidated = TRUE]
                   /\ UNCHANGED requests
    /\ UNCHANGED <<latest, stream, broker, closed, due, budget>>

(* negotiate() answered: open the event stream and ask for the first       *)
(* snapshot, unless the window is gone by now.                             *)
NegotiationEnds ==
    /\ source.negotiation = "pending"
    /\ \/ /\ ~closed
          /\ source' = [source EXCEPT !.negotiation = "done"]
          /\ IF source.active
             THEN /\ link' = [link EXCEPT !.state = "connecting"]
                  /\ requests' = RequestSnapshot(requests)
             ELSE UNCHANGED <<link, requests>>
          /\ UNCHANGED budget
       \/ /\ IF closed THEN UNCHANGED budget ELSE Spend("failures")
          /\ source' = IF source.active
                       THEN [source EXCEPT !.negotiation = "failed", !.kind = "failed",
                                           !.revision = 0, !.stale = FALSE]
                       ELSE [source EXCEPT !.negotiation = "failed"]
          /\ UNCHANGED <<link, requests>>
    /\ UNCHANGED <<latest, stream, broker, closed, due>>

(* requestRefresh(): the user asks, or a command of the window has ended.  *)
AskForRefresh ==
    /\ Spend("refreshes")
    /\ requests' = RequestSnapshot(requests)
    /\ UNCHANGED <<latest, stream, broker, link, source, closed, due>>

(* The server answers with the session's newest snapshot, or not at all.   *)
ServeSnapshot ==
    \E i \in DOMAIN requests :
        /\ requests[i] = Pending
        /\ \/ /\ ~closed
              /\ requests' = [requests EXCEPT ![i] = Answer(latest)]
              /\ UNCHANGED budget
           \/ /\ IF closed THEN UNCHANGED budget ELSE Spend("failures")
              /\ requests' = [requests EXCEPT ![i] = Failed]
        /\ UNCHANGED <<latest, stream, broker, link, source, closed, due>>

(* What the window shows once a request has ended: a source without        *)
(* listeners no longer changes, and an error keeps the snapshot it has.    *)
Shown(request) ==
    IF ~source.active THEN source
    ELSE IF request.revision > 0
    THEN [source EXCEPT !.kind = "repository", !.revision = request.revision,
                        !.stale = FALSE]
    ELSE IF request = Failed /\ source.kind = "repository"
    THEN [source EXCEPT !.stale = TRUE]
    ELSE [source EXCEPT !.kind = "failed", !.revision = 0, !.stale = FALSE]

(* then, catch and finally: show the answer, and ask again if an event     *)
(* arrived meanwhile.                                                      *)
SettleRequest ==
    \E i \in DOMAIN requests :
        /\ requests[i] # Pending
        /\ LET rest == RemoveAt(requests, i)
           IN  /\ source' = [Shown(requests[i]) EXCEPT !.invalidated = FALSE]
               /\ requests' = IF source.invalidated THEN RequestSnapshot(rest)
                              ELSE rest
        /\ UNCHANGED <<latest, stream, broker, link, closed, due, budget>>

(* The last listener unsubscribes.                                         *)
Leave ==
    /\ source.active
    /\ source' = [source EXCEPT !.active = FALSE]
    /\ link' = IF link.state = "none" THEN link
               ELSE [link EXCEPT !.state = "closed", !.wire = <<>>]
    /\ UNCHANGED <<latest, stream, broker, requests, closed, due, budget>>

(* close() of the runtime: the session ends its stream, which drops what   *)
(* is queued, and the broker ends its clients and forgets its events.      *)
CloseRuntime ==
    /\ ~closed
    /\ closed' = TRUE
    /\ stream' = [stream EXCEPT !.queue = <<>>]
    /\ broker' = [broker EXCEPT !.history = <<>>]
    /\ link' \in IF link.state = "open" THEN Severed(link.wire) ELSE {link}
    /\ UNCHANGED <<latest, source, requests, due, budget>>

(* The program stops here only after close().                              *)
Idle == closed /\ UNCHANGED vars

Next ==
    \/ PublishRevision \/ PublishOperation \/ Pump
    \/ OpenStream \/ BreakStream \/ Reconnect
    \/ ReceiveEvent \/ NegotiationEnds \/ AskForRefresh
    \/ ServeSnapshot \/ SettleRequest
    \/ Leave \/ CloseRuntime \/ Idle

Spec == Init /\ [][Next]_vars

(* Promises settle, the browser reconnects and delivers, the server        *)
(* answers.  Nothing makes the repository change or the connection break.  *)
FairSpec ==
    /\ Spec
    /\ WF_vars(Pump) /\ WF_vars(OpenStream) /\ WF_vars(Reconnect)
    /\ WF_vars(ReceiveEvent) /\ WF_vars(NegotiationEnds)
    /\ WF_vars(ServeSnapshot) /\ WF_vars(SettleRequest)

--------------------------------------------------------------------------
(* Properties.                                                             *)

(* The window tells its user that what it shows may be out of date.        *)
Announced == source.kind # "repository" \/ source.stale

(* The window cannot learn anything any more: it was left, or the program  *)
(* was closed.                                                             *)
Over == closed \/ ~source.active

(* Whatever the queue drops, the broker forgets, or a broken connection    *)
(* loses, a revision published while the window listens is eventually      *)
(* shown, or a newer one, unless the window says that it could not load    *)
(* it.                                                                     *)
DueIsShown ==
    \A r \in 1 .. MaxRevision :
        (due = r) ~> (source.revision >= r \/ Announced \/ Over \/ due < r)

(* Snapshots are shown in the order they were taken: one that is newer is  *)
(* never replaced by an older one, nor by nothing, although each comes by  *)
(* a request of its own; only a negotiation that fails after it takes it   *)
(* away.                                                                   *)
ViewNeverGoesBack ==
    [][source.kind = "repository" /\ source'.negotiation = source.negotiation
        => source'.kind = "repository" /\ source'.revision >= source.revision]_vars

(* The newest revision survives a full queue and a full history: as long   *)
(* as the program runs, it is the last event that waits for the pump, or   *)
(* else the last one the broker can replay.                                *)
LastInTransit ==
    CASE stream.queue # <<>> -> Last(stream.queue)
      [] stream.queue = <<>> /\ stream.held # NoEvent -> stream.held
      [] stream.queue = <<>> /\ stream.held = NoEvent /\ broker.history # <<>> ->
            Last(broker.history).event
      [] OTHER -> NoEvent

NewestIsKept ==
    stream.pumped /\ latest > 1 /\ ~closed => LastInTransit = RevisionEvent(latest)

(* The inductive invariant: besides NewestIsKept, that there is one request *)
(* at a time and that its answer is not older than what is shown.          *)
PumpTakesFirst == stream.held = NoEvent => stream.queue = <<>>

OneRequest == Len(requests) <= 1

AnswersAreNewer ==
    /\ source.revision <= latest
    /\ source.kind = "repository" <=> source.revision > 0
    /\ \A i \in DOMAIN requests :
          requests[i].status = "answered"
              => requests[i].revision \in source.revision .. latest

DeliveryInv ==
    TypeOK /\ NewestIsKept /\ PumpTakesFirst /\ OneRequest /\ AnswersAreNewer

(* What docs/architecture/mvp-technical-architecture.md:399 asks: on an    *)
(* invalidation or on stream recovery the window requests a snapshot, so   *)
(* that once everything has arrived it shows the newest revision.          *)
Settled ==
    /\ requests = <<>> /\ stream.held = NoEvent /\ stream.queue = <<>>
    /\ link.state = "open" /\ link.wire = <<>>

SettledViewIsCurrent ==
    Settled /\ ~Over /\ stream.pumped => Announced \/ source.revision = latest

===========================================================================
