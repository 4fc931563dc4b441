------------------------------ MODULE LauncherProofs ------------------------------
(***************************************************************************)
(* The two surfaces the launcher keeps.  Of the standalone one, with       *)
(* InvalidationDelivery: the newest revision is never lost between the     *)
(* session and the broker, and the window never goes back, whatever the    *)
(* limits and the bounds.  Of the dedicated Codex host, with DedicatedHost:*)
(* no session, bridge or lease is left behind but where Codex refused to   *)
(* take it back, and the bridge is mounted under a bypass of its own       *)
(* session but in the two cases that the code leaves open, for any set of  *)
(* pages.                                                                  *)
(***************************************************************************)
EXTENDS InvalidationDelivery, DedicatedHost, SequenceTheorems, FiniteSetTheorems, TLAPS

Streams == [pumped : BOOLEAN, queue : Seq(Events), held : Events \cup {NoEvent}]

-----------------------------------------------------------------------------
(* Events and queues.                                                      *)

LEMMA EventFacts ==
    /\ OperationEvent \in Events /\ NoEvent \notin Events
    /\ \A r \in 1 .. MaxRevision : RevisionEvent(r) \in Events
BY DEF Events, OperationEvent, NoEvent, RevisionEvent

(* A sequence that is kept below a limit by dropping its oldest element    *)
(* still ends with the element just added.                                 *)
LEMMA DropOldest ==
    ASSUME NEW S, NEW q \in Seq(S), NEW e \in S, NEW limit \in Nat \ {0},
           Len(q) <= limit
    PROVE  /\ Append(q, e) \in Seq(S) /\ Append(q, e) # <<>>
           /\ Last(Append(q, e)) = e /\ Len(Append(q, e)) = Len(q) + 1
           /\ Len(q) = limit =>
                /\ Append(Tail(q), e) \in Seq(S) /\ Append(Tail(q), e) # <<>>
                /\ Last(Append(Tail(q), e)) = e /\ Len(Append(Tail(q), e)) = limit
           /\ Len(q) = limit =>
                /\ Tail(Append(q, e)) \in Seq(S) /\ Tail(Append(q, e)) # <<>>
                /\ Last(Tail(Append(q, e))) = e /\ Len(Tail(Append(q, e))) = limit
<1>1. /\ Append(q, e) \in Seq(S) /\ Append(q, e) # <<>>
      /\ Last(Append(q, e)) = e /\ Len(Append(q, e)) = Len(q) + 1
  BY DEF Last
<1>2. ASSUME Len(q) = limit
      PROVE  /\ Append(Tail(q), e) \in Seq(S) /\ Append(Tail(q), e) # <<>>
             /\ Last(Append(Tail(q), e)) = e /\ Len(Append(Tail(q), e)) = limit
  <2>1. q # <<>> /\ Tail(q) \in Seq(S) /\ Len(Tail(q)) = limit - 1
    BY <1>2
  <2>2. QED
    BY <2>1 DEF Last
<1>3. ASSUME Len(q) = limit
      PROVE  /\ Tail(Append(q, e)) \in Seq(S) /\ Tail(Append(q, e)) # <<>>
             /\ Last(Tail(Append(q, e))) = e /\ Len(Tail(Append(q, e))) = limit
  <2> DEFINE longer == Append(q, e)
  <2>1. longer \in Seq(S) /\ Len(longer) = limit + 1 /\ longer[limit + 1] = e
    BY <1>3
  <2>2. Tail(longer) \in Seq(S) /\ Len(Tail(longer)) = limit
        /\ Tail(longer)[limit] = longer[limit + 1]
    <3> HIDE DEF longer
    <3>1. QED
      BY <2>1
  <2>3. QED
    BY <2>1, <2>2 DEF Last
<1>4. QED
  BY <1>1, <1>2, <1>3

LEMMA LastOfTail ==
    ASSUME NEW S, NEW q \in Seq(S), q # <<>>
    PROVE  /\ Head(q) \in S /\ Tail(q) \in Seq(S) /\ Len(Tail(q)) = Len(q) - 1
           /\ Last(q) = IF Tail(q) = <<>> THEN Head(q) ELSE Last(Tail(q))
<1>1. Head(q) \in S /\ Tail(q) \in Seq(S) /\ Len(Tail(q)) = Len(q) - 1
  OBVIOUS
<1>2. /\ Len(q) \in Nat /\ Len(q) # 0 /\ Head(q) = q[1]
      /\ \A t \in Seq(S) : t # <<>> <=> Len(t) # 0
  BY EmptySeq
<1>3. CASE Len(q) = 1
  <2>1. Tail(q) = <<>>
    <3>1. Len(Tail(q)) = 0
      BY <1>1, <1>3
    <3>2. QED
      BY <3>1, <1>1, <1>2, Zenon
  <2>2. QED
    BY <1>1, <1>2, <1>3, <2>1 DEF Last
<1>4. CASE Len(q) > 1
  <2>1. Tail(q) # <<>>
    BY <1>1, <1>2, <1>4
  <2>2. \A i \in 1 .. Len(q) - 1 : Tail(q)[i] = q[i + 1]
    BY <1>2, HeadTailProperties
  <2>3. Tail(q)[Len(q) - 1] = q[Len(q)]
    BY <1>2, <1>4, <2>2
  <2>4. QED
    BY <1>1, <1>2, <2>1, <2>3 DEF Last
<1>5. Len(q) = 1 \/ Len(q) > 1
  <2>1. \A n \in Nat : n # 0 => n = 1 \/ n > 1
    OBVIOUS
  <2>2. QED
    BY <1>2, <2>1, Zenon
<1>6. QED
  BY <1>3, <1>4, <1>5, Zenon

(* What a publication leaves in the stream: its event comes last.          *)
LEMMA EnqueueFacts ==
    ASSUME NEW s \in Streams, NEW e \in Events, Len(s.queue) <= QueueLimit,
           s.held = NoEvent => s.queue = <<>>
    PROVE  LET t == Enqueue(s, e)
           IN  /\ t \in Streams /\ Len(t.queue) <= QueueLimit /\ t.pumped = s.pumped
               /\ t.held = NoEvent => t.queue = <<>>
               /\ s.pumped => t.held # NoEvent
               /\ s.pumped => IF t.queue = <<>> THEN t.held = e ELSE Last(t.queue) = e
<1> DEFINE t == Enqueue(s, e)
<1>1. s.queue \in Seq(Events) /\ s.held \in Events \cup {NoEvent} /\ s.pumped \in BOOLEAN
  BY DEF Streams
<1>2. CASE ~s.pumped
  BY <1>1, <1>2 DEF Enqueue
<1>3. CASE s.pumped /\ s.held = NoEvent
  <2>1. t = [s EXCEPT !.held = e]
    BY <1>3 DEF Enqueue
  <2>2. t \in Streams /\ t.queue = <<>> /\ t.held = e /\ t.pumped = s.pumped
    BY <1>1, <1>3, <2>1 DEF Streams
  <2>3. Len(t.queue) <= QueueLimit
    BY <2>2, LimitAssumption
  <2> HIDE DEF t
  <2>4. e # NoEvent
    BY EventFacts
  <2>5. QED
    BY <1>3, <2>2, <2>3, <2>4 DEF t
<1>4. CASE s.pumped /\ s.held # NoEvent
  <2> DEFINE queue == Append(IF Len(s.queue) = QueueLimit THEN Tail(s.queue) ELSE s.queue, e)
  <2>1. queue \in Seq(Events) /\ queue # <<>> /\ Last(queue) = e /\ Len(queue) <= QueueLimit
    <3>1. CASE Len(s.queue) = QueueLimit
      BY <1>1, <3>1, DropOldest, LimitAssumption
    <3>2. CASE Len(s.queue) # QueueLimit
      BY <1>1, <3>2, DropOldest, LimitAssumption
    <3>3. QED
      BY <3>1, <3>2
  <2>2. t = [s EXCEPT !.queue = queue]
    BY <1>4 DEF Enqueue
  <2> HIDE DEF queue, t
  <2>3. t \in Streams /\ t.queue = queue /\ t.held = s.held /\ t.pumped = s.pumped
    BY <2>1, <2>2 DEF Streams
  <2>4. QED
    BY <1>4, <2>1, <2>3 DEF t
<1>5. QED
  BY <1>1, <1>2, <1>3, <1>4

LEMMA RememberFacts ==
    ASSUME NEW history \in Seq(Stored), NEW s \in Stored, Len(history) <= HistoryLimit
    PROVE  LET longer == Remember(history, s)
           IN  /\ longer \in Seq(Stored) /\ Len(longer) <= HistoryLimit
               /\ longer # <<>> /\ Last(longer) = s
<1>1. CASE Len(history) = HistoryLimit
  BY <1>1, DropOldest, LimitAssumption DEF Remember
<1>2. CASE Len(history) # HistoryLimit
  BY <1>2, DropOldest, LimitAssumption DEF Remember
<1>3. QED
  BY <1>1, <1>2

(* One request at a time, and no answer before there is one.               *)
LEMMA RequestFacts ==
    ASSUME NEW rest \in Seq(Requests), Len(rest) <= 1, NEW low \in Nat, NEW high \in Nat,
           \A i \in DOMAIN rest : rest[i].status = "answered" => rest[i].revision \in low .. high
    PROVE  LET sent == RequestSnapshot(rest)
           IN  /\ sent \in Seq(Requests) /\ Len(sent) <= 1
               /\ \A i \in DOMAIN sent :
                     sent[i].status = "answered" => sent[i].revision \in low .. high
<1>1. Pending \in Requests /\ Pending.status # "answered"
  BY DEF Pending, Requests
<1>2. CASE rest # <<>>
  BY <1>2 DEF RequestSnapshot
<1>3. CASE rest = <<>>
  BY <1>1, <1>3 DEF RequestSnapshot
<1>4. QED
  BY <1>2, <1>3

-----------------------------------------------------------------------------
(* The invariant, action by action.  Its parts fall in two halves that     *)
(* share only latest: the server's, and the window's.                      *)

ServerInv ==
    /\ stream \in Streams /\ Len(stream.queue) <= QueueLimit
    /\ broker \in [nextId : Nat, history : Seq(Stored)]
    /\ Len(broker.history) <= HistoryLimit
    /\ latest \in 0 .. MaxRevision /\ closed \in BOOLEAN
    /\ NewestIsKept /\ PumpTakesFirst

Sources ==
    [active : BOOLEAN, negotiation : {"pending", "done", "failed"},
     kind : {"loading", "repository", "failed"},
     revision : 0 .. MaxRevision, stale : BOOLEAN, invalidated : BOOLEAN]

WindowInv ==
    /\ latest \in 0 .. MaxRevision
    /\ source \in Sources
    /\ requests \in Seq(Requests)
    /\ OneRequest /\ AnswersAreNewer

LEMMA Halves == DeliveryInv <=> ServerInv /\ WindowInv /\ due \in 0 .. MaxRevision
BY DEF DeliveryInv, TypeOK, ServerInv, WindowInv, Streams, Sources

LEMMA InitInv == Init => DeliveryInv
<1> SUFFICES ASSUME Init PROVE DeliveryInv
  OBVIOUS
<1> USE DEF Init
<1>1. latest \in 0 .. MaxRevision
  BY BoundAssumption
<1>2. ServerInv
  <2>1. stream \in Streams /\ stream.queue = <<>> /\ (stream.pumped <=> latest = 1)
    <3>1. <<>> \in Seq(Events)
      OBVIOUS
    <3>2. QED
      BY <3>1 DEF Streams
  <2>2. broker \in [nextId : Nat, history : Seq(Stored)] /\ broker.history = <<>>
    <3>1. <<>> \in Seq(Stored)
      OBVIOUS
    <3>2. QED
      BY <3>1
  <2>3. NewestIsKept
    <3>1. ~(latest > 1)
      OBVIOUS
    <3>2. QED
      BY <3>1 DEF NewestIsKept
  <2>4. Len(stream.queue) <= QueueLimit /\ Len(broker.history) <= HistoryLimit
    BY <2>1, <2>2, LimitAssumption
  <2>5. closed \in BOOLEAN
    OBVIOUS
  <2>6. QED
    BY <1>1, <2>1, <2>2, <2>3, <2>4, <2>5 DEF ServerInv, PumpTakesFirst
<1>3. source \in Sources /\ AnswersAreNewer
  BY <1>1, BoundAssumption DEF Sources, AnswersAreNewer
<1>4. WindowInv
  BY <1>1, <1>3 DEF WindowInv, OneRequest
<1>5. QED
  BY <1>2, <1>4, Halves, BoundAssumption

(* Both publications add revisions at the end of the stream.               *)
LEMMA PublicationKeepsServerInv ==
    ASSUME ServerInv, latest < MaxRevision, latest' = latest + 1, NEW s \in Streams,
           Len(s.queue) <= QueueLimit, s.held = NoEvent => s.queue = <<>>,
           stream' = Enqueue(s, RevisionEvent(latest + 1)),
           UNCHANGED <<broker, closed>>
    PROVE  ServerInv'
<1>1. latest' \in 1 .. MaxRevision
  BY BoundAssumption DEF ServerInv
<1>2. RevisionEvent(latest') \in Events
  BY <1>1, EventFacts
<1>3. /\ stream' \in Streams /\ Len(stream'.queue) <= QueueLimit
      /\ stream'.held = NoEvent => stream'.queue = <<>>
      /\ stream'.pumped => stream'.held # NoEvent
      /\ stream'.pumped => IF stream'.queue = <<>> THEN stream'.held = RevisionEvent(latest')
                           ELSE Last(stream'.queue) = RevisionEvent(latest')
  BY <1>2, EnqueueFacts
<1>4. NewestIsKept'
  BY <1>3 DEF NewestIsKept, LastInTransit
<1>5. QED
  BY <1>1, <1>3, <1>4 DEF ServerInv, PumpTakesFirst

LEMMA PumpKeepsServerInv ==
    ASSUME ServerInv, Pump
    PROVE  ServerInv'
<1>1. /\ stream.held \in Events /\ stream.queue \in Seq(Events)
      /\ stream' = TakeNext(stream) /\ UNCHANGED <<latest, closed>>
  BY DEF ServerInv, Pump, Streams
<1>2. /\ stream' \in Streams /\ Len(stream'.queue) <= QueueLimit
      /\ stream'.held = NoEvent => stream'.queue = <<>>
      /\ stream'.pumped = stream.pumped
      /\ stream.queue = <<>> => stream'.held = NoEvent
      /\ stream.queue # <<>> =>
            /\ stream'.held # NoEvent
            /\ Last(stream.queue) = IF stream'.queue = <<>> THEN stream'.held
                                    ELSE Last(stream'.queue)
  <2>1. CASE stream.queue = <<>>
    <3>1. stream' = [stream EXCEPT !.held = NoEvent]
      BY <1>1, <2>1 DEF TakeNext
    <3>2. QED
      BY <2>1, <3>1 DEF ServerInv, Streams
  <2>2. CASE stream.queue # <<>>
    <3>1. stream' = [stream EXCEPT !.held = Head(stream.queue), !.queue = Tail(stream.queue)]
      BY <1>1, <2>2 DEF TakeNext
    <3>2. /\ Head(stream.queue) \in Events /\ Tail(stream.queue) \in Seq(Events)
          /\ Len(Tail(stream.queue)) = Len(stream.queue) - 1
          /\ Last(stream.queue) = IF Tail(stream.queue) = <<>> THEN Head(stream.queue)
                                  ELSE Last(Tail(stream.queue))
      BY <1>1, <2>2, LastOfTail
    <3>3. /\ stream' \in Streams /\ stream'.held = Head(stream.queue)
          /\ stream'.queue = Tail(stream.queue) /\ stream'.pumped = stream.pumped
      BY <3>1, <3>2 DEF ServerInv, Streams
    <3>4. Len(stream'.queue) <= QueueLimit
      BY <1>1, <3>2, <3>3, LimitAssumption DEF ServerInv
    <3>5. stream'.held # NoEvent
      BY <3>2, <3>3, EventFacts
    <3>6. QED
      BY <2>2, <3>2, <3>3, <3>4, <3>5
  <2>3. QED
    BY <2>1, <2>2
<1>3. CASE closed
  <2>1. UNCHANGED broker
    BY <1>3 DEF Pump
  <2>2. QED
    BY <1>1, <1>2, <1>3, <2>1 DEF ServerInv, NewestIsKept, PumpTakesFirst
<1>4. CASE ~closed
  <2> DEFINE stored == [id |-> broker.nextId, event |-> stream.held]
  <2>1. broker' = [nextId |-> broker.nextId + 1, history |-> Remember(broker.history, stored)]
    BY <1>4 DEF Pump
  <2>2. stored \in Stored /\ stored.event = stream.held
    BY <1>1 DEF ServerInv, Stored
  <2> HIDE DEF stored
  <2>3. /\ broker'.history \in Seq(Stored) /\ Len(broker'.history) <= HistoryLimit
        /\ broker'.history # <<>> /\ Last(broker'.history).event = stream.held
    BY <2>1, <2>2, RememberFacts DEF ServerInv
  <2>4. broker' \in [nextId : Nat, history : Seq(Stored)]
    BY <2>1, <2>3 DEF ServerInv
  <2>5. NewestIsKept'
    <3> SUFFICES ASSUME stream.pumped, latest > 1
                 PROVE  LastInTransit' = RevisionEvent(latest)
      BY <1>1, <1>2 DEF NewestIsKept
    <3>1. LastInTransit = RevisionEvent(latest)
      BY <1>4 DEF ServerInv, NewestIsKept
    <3>2. CASE stream.queue = <<>>
      <4>1. stream'.queue = <<>> /\ stream'.held = NoEvent
        BY <1>2, <3>2
      <4>2. LastInTransit = stream.held
        BY <1>1, <3>2, EventFacts DEF LastInTransit
      <4>3. LastInTransit' = Last(broker'.history).event
        BY <2>3, <4>1 DEF LastInTransit
      <4>4. QED
        BY <2>3, <3>1, <4>2, <4>3
    <3>3. CASE stream.queue # <<>>
      <4>1. LastInTransit = Last(stream.queue)
        BY <3>3 DEF LastInTransit
      <4>2. LastInTransit' = Last(stream.queue)
        BY <1>2, <3>3 DEF LastInTransit
      <4>3. QED
        BY <3>1, <4>1, <4>2
    <3>4. QED
      BY <3>2, <3>3
  <2>6. QED
    BY <1>1, <1>2, <2>3, <2>4, <2>5 DEF ServerInv, PumpTakesFirst
<1>5. QED
  BY <1>3, <1>4

LEMMA StepKeepsServerInv ==
    ASSUME ServerInv, [Next]_vars
    PROVE  ServerInv'
<1> USE DEF ServerInv
<1>1. CASE PublishRevision
  BY <1>1, PublicationKeepsServerInv DEF PublishRevision, PumpTakesFirst
<1>2. CASE PublishOperation
  <2> DEFINE s == Enqueue(stream, OperationEvent)
  <2>1. s \in Streams /\ Len(s.queue) <= QueueLimit /\ (s.held = NoEvent => s.queue = <<>>)
    BY EnqueueFacts, EventFacts DEF PumpTakesFirst
  <2>2. /\ stream' = Enqueue(s, RevisionEvent(latest + 1)) /\ latest' = latest + 1
        /\ latest < MaxRevision /\ UNCHANGED <<broker, closed>>
    BY <1>2, BoundAssumption DEF PublishOperation
  <2> HIDE DEF s
  <2>3. QED
    BY <2>1, <2>2, PublicationKeepsServerInv
<1>3. CASE Pump
  BY <1>3, PumpKeepsServerInv
<1>4. CASE CloseRuntime
  <2>1. /\ stream' = [stream EXCEPT !.queue = <<>>] /\ broker' = [broker EXCEPT !.history = <<>>]
        /\ closed' = TRUE /\ latest' = latest
    BY <1>4 DEF CloseRuntime
  <2>2. stream' \in Streams /\ stream'.queue = <<>>
    <3>1. <<>> \in Seq(Events)
      OBVIOUS
    <3>2. QED
      BY <2>1, <3>1 DEF Streams
  <2>3. broker' \in [nextId : Nat, history : Seq(Stored)] /\ broker'.history = <<>>
    <3>1. <<>> \in Seq(Stored)
      OBVIOUS
    <3>2. QED
      BY <2>1, <3>1
  <2>4. QED
    BY <2>1, <2>2, <2>3, LimitAssumption DEF NewestIsKept, PumpTakesFirst
<1>5. CASE UNCHANGED <<latest, stream, broker, closed>>
  BY <1>5 DEF NewestIsKept, LastInTransit, PumpTakesFirst
<1>6. QED
  BY <1>1, <1>2, <1>3, <1>4, <1>5
     DEF Next, vars, OpenStream, BreakStream, Reconnect, ReceiveEvent, NegotiationEnds,
         AskForRefresh, ServeSnapshot, SettleRequest, Leave, Idle

-----------------------------------------------------------------------------
(* The window.                                                             *)

(* What the window shows after a request has ended with an answer not      *)
(* older than what it showed.                                              *)
LEMMA ShownFacts ==
    ASSUME WindowInv, NEW request \in Requests, request.status # "pending",
           request.status = "answered" => request.revision \in source.revision .. latest
    PROVE  /\ Shown(request) \in Sources
           /\ Shown(request).revision <= latest
           /\ Shown(request).kind = "repository" <=> Shown(request).revision > 0
           /\ source.kind = "repository" =>
                 /\ Shown(request).kind = "repository"
                 /\ Shown(request).revision >= source.revision
<1> DEFINE shown == Shown(request)
<1>1. /\ source \in Sources /\ source.revision \in Nat /\ source.revision <= latest
      /\ source.kind = "repository" <=> source.revision > 0
      /\ latest \in 0 .. MaxRevision
  BY BoundAssumption DEF WindowInv, AnswersAreNewer, Sources
<1>2. \/ request.status = "answered" /\ request.revision \in 0 .. MaxRevision
      \/ request = Failed /\ request.status = "failed" /\ request.revision = 0
  BY DEF Requests, Pending, Failed, Answer
<1>3. CASE ~source.active
  BY <1>1, <1>3 DEF Shown
<1>4. CASE source.active /\ request.revision > 0
  <2>1. shown = [source EXCEPT !.kind = "repository", !.revision = request.revision,
                               !.stale = FALSE]
    BY <1>4 DEF Shown
  <2>2. request.revision \in 0 .. MaxRevision /\ request.revision \in source.revision .. latest
    BY <1>2, <1>4
  <2>3. shown \in Sources /\ shown.kind = "repository" /\ shown.revision = request.revision
    BY <1>1, <2>1, <2>2 DEF Sources
  <2> HIDE DEF shown
  <2>4. QED
    BY <1>1, <1>4, <2>2, <2>3 DEF shown
<1>5. CASE source.active /\ ~(request.revision > 0) /\ source.kind = "repository"
  <2>1. request = Failed
    BY <1>1, <1>2, <1>5
  <2>2. shown = [source EXCEPT !.stale = TRUE]
    BY <1>5, <2>1 DEF Shown
  <2>3. shown \in Sources /\ shown.kind = source.kind /\ shown.revision = source.revision
    BY <1>1, <2>2 DEF Sources
  <2> HIDE DEF shown
  <2>4. QED
    BY <1>1, <2>3 DEF shown
<1>6. CASE source.active /\ ~(request.revision > 0) /\ source.kind # "repository"
  <2>1. shown = [source EXCEPT !.kind = "failed", !.revision = 0, !.stale = FALSE]
    BY <1>6 DEF Shown
  <2> HIDE DEF shown
  <2>2. shown \in Sources /\ shown.kind = "failed" /\ shown.revision = 0
    <3>1. 0 \in 0 .. MaxRevision
      BY BoundAssumption
    <3>2. QED
      BY <1>1, <2>1, <3>1 DEF Sources
  <2>3. QED
    BY <1>1, <1>6, <2>2 DEF shown
<1>7. QED
  BY <1>3, <1>4, <1>5, <1>6

(* A step that leaves what is shown alone and may send a request.          *)
LEMMA SendKeepsWindowInv ==
    ASSUME WindowInv, source' \in Sources, latest' \in latest .. MaxRevision,
           source'.revision = source.revision, source'.kind = source.kind,
           requests' = requests \/ requests' = RequestSnapshot(requests)
    PROVE  WindowInv'
<1>1. /\ source.revision \in Nat /\ latest \in Nat /\ latest' \in Nat
      /\ requests \in Seq(Requests) /\ Len(requests) <= 1
      /\ source.revision <= latest /\ (source.kind = "repository" <=> source.revision > 0)
      /\ \A i \in DOMAIN requests : requests[i].status = "answered"
            => requests[i].revision \in source.revision .. latest
  BY BoundAssumption DEF WindowInv, Sources, OneRequest, AnswersAreNewer
<1>2. /\ requests' \in Seq(Requests) /\ Len(requests') <= 1
      /\ \A i \in DOMAIN requests' : requests'[i].status = "answered"
            => requests'[i].revision \in source.revision .. latest
  BY <1>1, RequestFacts
<1>3. \A i \in DOMAIN requests' : requests'[i].status = "answered"
            => requests'[i].revision \in source'.revision .. latest'
  BY <1>1, <1>2
<1>4. latest' \in 0 .. MaxRevision /\ source'.revision <= latest'
  BY <1>1, BoundAssumption
<1>5. QED
  BY <1>1, <1>2, <1>3, <1>4 DEF WindowInv, OneRequest, AnswersAreNewer

LEMMA ServeKeepsWindowInv ==
    ASSUME WindowInv, ServeSnapshot
    PROVE  WindowInv'
<1>1. PICK i \in DOMAIN requests, answer \in {Answer(latest), Failed} :
          requests' = [requests EXCEPT ![i] = answer]
  BY DEF ServeSnapshot
<1>2. UNCHANGED <<latest, source>>
  BY DEF ServeSnapshot
<1>3. answer \in Requests /\ (answer.status = "answered" => answer.revision = latest)
  BY <1>1 DEF WindowInv, Requests, Answer, Failed
<1>4. requests \in Seq(Requests) /\ Len(requests) <= 1
  BY DEF WindowInv, OneRequest
<1>5. /\ requests' \in Seq(Requests) /\ Len(requests') <= 1
      /\ DOMAIN requests' = DOMAIN requests
      /\ \A j \in DOMAIN requests : requests'[j] = answer \/ requests'[j] = requests[j]
  BY <1>1, <1>3, <1>4
<1>6. AnswersAreNewer'
  BY <1>2, <1>3, <1>5, BoundAssumption DEF WindowInv, AnswersAreNewer, Sources
<1>7. QED
  BY <1>2, <1>5, <1>6 DEF WindowInv, OneRequest

(* The one request ends, and its place is free again.                      *)
LEMMA SettleFacts ==
    ASSUME WindowInv, SettleRequest
    PROVE  \E request \in Requests :
              /\ request.status # "pending"
              /\ request.status = "answered" => request.revision \in source.revision .. latest
              /\ source' = [Shown(request) EXCEPT !.invalidated = FALSE]
              /\ requests' \in {<<>>, <<Pending>>} /\ UNCHANGED latest
<1>1. PICK i \in DOMAIN requests :
          /\ requests[i] # Pending
          /\ source' = [Shown(requests[i]) EXCEPT !.invalidated = FALSE]
          /\ requests' = IF source.invalidated THEN RequestSnapshot(RemoveAt(requests, i))
                         ELSE RemoveAt(requests, i)
          /\ UNCHANGED latest
  BY DEF SettleRequest
<1>2. requests \in Seq(Requests) /\ Len(requests) = 1 /\ i = 1
  <2>1. requests \in Seq(Requests) /\ Len(requests) <= 1 /\ Len(requests) \in Nat
    BY DEF WindowInv, OneRequest
  <2>2. i \in 1 .. Len(requests)
    BY <2>1
  <2>3. \A n \in Nat : \A j \in 1 .. n : n <= 1 => n = 1 /\ j = 1
    OBVIOUS
  <2>4. QED
    BY <2>1, <2>2, <2>3, Zenon
<1>3. RemoveAt(requests, i) = <<>>
  BY <1>2 DEF RemoveAt
<1>4. requests[i] \in Requests
  BY <1>2
<1>5. requests[i].status # "pending"
  BY <1>1, <1>4 DEF Requests, Pending, Failed, Answer
<1>6. requests[i].status = "answered" => requests[i].revision \in source.revision .. latest
  BY DEF WindowInv, AnswersAreNewer
<1>7. QED
  BY <1>1, <1>3, <1>4, <1>5, <1>6 DEF RequestSnapshot

LEMMA SettleKeepsWindowInv ==
    ASSUME WindowInv, SettleRequest
    PROVE  /\ WindowInv'
           /\ source.kind = "repository" =>
                 source'.kind = "repository" /\ source'.revision >= source.revision
<1>1. PICK request \in Requests :
          /\ request.status # "pending"
          /\ request.status = "answered" => request.revision \in source.revision .. latest
          /\ source' = [Shown(request) EXCEPT !.invalidated = FALSE]
          /\ requests' \in {<<>>, <<Pending>>} /\ UNCHANGED latest
  BY SettleFacts
<1> DEFINE shown == Shown(request)
<1>2. /\ shown \in Sources /\ shown.revision <= latest
      /\ shown.kind = "repository" <=> shown.revision > 0
      /\ source.kind = "repository" =>
            shown.kind = "repository" /\ shown.revision >= source.revision
  BY <1>1, ShownFacts
<1>3. source' = [shown EXCEPT !.invalidated = FALSE]
  BY <1>1
<1> HIDE DEF shown
<1>4. source' \in Sources /\ source'.kind = shown.kind /\ source'.revision = shown.revision
  BY <1>2, <1>3 DEF Sources
<1>5. requests' \in Seq(Requests) /\ Len(requests') <= 1
      /\ \A j \in DOMAIN requests' : requests'[j].status # "answered"
  <2>1. Pending \in Requests /\ Pending.status # "answered"
    BY DEF Requests, Pending
  <2>2. CASE requests' = <<>>
    BY <2>2
  <2>3. CASE requests' = <<Pending>>
    BY <2>1, <2>3
  <2>4. QED
    BY <1>1, <2>2, <2>3
<1>6. AnswersAreNewer'
  BY <1>1, <1>2, <1>4, <1>5 DEF AnswersAreNewer
<1>7. QED
  BY <1>1, <1>2, <1>4, <1>5, <1>6 DEF WindowInv, OneRequest

LEMMA NegotiationFacts ==
    ASSUME WindowInv, NegotiationEnds
    PROVE  /\ WindowInv'
           /\ source'.negotiation # source.negotiation
<1>1. source \in Sources /\ UNCHANGED latest /\ source.negotiation = "pending"
  BY DEF WindowInv, NegotiationEnds
<1>2. \/ /\ source' = [source EXCEPT !.negotiation = "done"]
         /\ requests' = requests \/ requests' = RequestSnapshot(requests)
      \/ /\ source' = [source EXCEPT !.negotiation = "failed"]
         /\ requests' = requests
      \/ /\ source' = [source EXCEPT !.negotiation = "failed", !.kind = "failed",
                                     !.revision = 0, !.stale = FALSE]
         /\ requests' = requests
  BY DEF NegotiationEnds
<1>3. CASE /\ source' = [source EXCEPT !.negotiation = "done"]
           /\ requests' = requests \/ requests' = RequestSnapshot(requests)
  <2>1. /\ source' \in Sources /\ source'.revision = source.revision
        /\ source'.kind = source.kind /\ source'.negotiation = "done"
    BY <1>1, <1>3 DEF Sources
  <2>2. latest' \in latest .. MaxRevision
    BY <1>1, BoundAssumption DEF WindowInv
  <2>3. QED
    BY <1>1, <1>3, <2>1, <2>2, SendKeepsWindowInv
<1>4. CASE source' = [source EXCEPT !.negotiation = "failed"] /\ requests' = requests
  <2>1. /\ source' \in Sources /\ source'.revision = source.revision
        /\ source'.kind = source.kind /\ source'.negotiation = "failed"
    BY <1>1, <1>4 DEF Sources
  <2>2. latest' \in latest .. MaxRevision
    BY <1>1, BoundAssumption DEF WindowInv
  <2>3. QED
    BY <1>1, <1>4, <2>1, <2>2, SendKeepsWindowInv
<1>5. CASE /\ source' = [source EXCEPT !.negotiation = "failed", !.kind = "failed",
                                       !.revision = 0, !.stale = FALSE]
           /\ requests' = requests
  <2>1. /\ source' \in Sources /\ source'.revision = 0
        /\ source'.kind = "failed" /\ source'.negotiation = "failed"
    <3>1. 0 \in 0 .. MaxRevision
      BY BoundAssumption
    <3>2. QED
      BY <1>1, <1>5, <3>1 DEF Sources
  <2>2. source.revision \in Nat /\ latest \in Nat
    BY <1>1, BoundAssumption DEF WindowInv, Sources
  <2>3. AnswersAreNewer'
    BY <1>1, <1>5, <2>1, <2>2 DEF WindowInv, AnswersAreNewer
  <2>4. QED
    BY <1>1, <1>5, <2>1, <2>3 DEF WindowInv, OneRequest
<1>6. QED
  BY <1>2, <1>3, <1>4, <1>5

LEMMA StepKeepsWindowInv ==
    ASSUME WindowInv, [Next]_vars
    PROVE  /\ WindowInv'
           /\ source.kind = "repository" /\ source'.negotiation = source.negotiation =>
                 source'.kind = "repository" /\ source'.revision >= source.revision
<1>0. /\ source \in Sources /\ source.revision \in Nat
      /\ latest \in 0 .. MaxRevision /\ latest \in latest .. MaxRevision
  BY BoundAssumption DEF WindowInv, Sources
<1>1. CASE SettleRequest
  BY <1>1, SettleKeepsWindowInv
<1>2. CASE NegotiationEnds
  BY <1>2, NegotiationFacts
<1>3. CASE ServeSnapshot
  <2>1. UNCHANGED source
    BY <1>3 DEF ServeSnapshot
  <2>2. QED
    BY <1>0, <1>3, <2>1, ServeKeepsWindowInv
<1>4. CASE PublishRevision \/ PublishOperation
  <2>1. UNCHANGED <<source, requests>> /\ latest' \in latest .. MaxRevision
    BY <1>0, <1>4, BoundAssumption DEF PublishRevision, PublishOperation
  <2>2. QED
    BY <1>0, <2>1, SendKeepsWindowInv
<1>5. CASE ReceiveEvent \/ AskForRefresh \/ Leave
  <2>1. /\ source' = source \/ source' = [source EXCEPT !.invalidated = TRUE]
                           \/ source' = [source EXCEPT !.active = FALSE]
        /\ requests' = requests \/ requests' = RequestSnapshot(requests)
        /\ UNCHANGED latest
    BY <1>5 DEF ReceiveEvent, AskForRefresh, Leave
  <2>2. source' \in Sources /\ source'.revision = source.revision /\ source'.kind = source.kind
    BY <1>0, <2>1 DEF Sources
  <2>3. QED
    BY <1>0, <2>1, <2>2, SendKeepsWindowInv
<1>6. CASE UNCHANGED <<latest, source, requests>>
  BY <1>0, <1>6, SendKeepsWindowInv
<1>7. QED
  BY <1>1, <1>2, <1>3, <1>4, <1>5, <1>6
     DEF Next, vars, Pump, OpenStream, BreakStream, Reconnect, CloseRuntime, Idle

LEMMA StepKeepsDue ==
    ASSUME due \in 0 .. MaxRevision, latest \in 0 .. MaxRevision, [Next]_vars
    PROVE  due' \in 0 .. MaxRevision
<1>1. CASE PublishRevision \/ PublishOperation
  BY <1>1, BoundAssumption DEF PublishRevision, PublishOperation, Owe
<1>2. CASE Reconnect
  BY <1>2, BoundAssumption DEF Reconnect
<1>3. CASE UNCHANGED due
  BY <1>3
<1>4. QED
  BY <1>1, <1>2, <1>3
     DEF Next, vars, Pump, OpenStream, BreakStream, ReceiveEvent, NegotiationEnds,
         AskForRefresh, ServeSnapshot, SettleRequest, Leave, CloseRuntime, Idle

-----------------------------------------------------------------------------
(* The theorems.                                                           *)

(* The inductive invariant holds for every limit of the queue and of the   *)
(* history, and every bound.                                               *)
THEOREM DeliveryInvariance == Spec => []DeliveryInv
<1>1. DeliveryInv /\ [Next]_vars => DeliveryInv'
  <2> SUFFICES ASSUME DeliveryInv, [Next]_vars PROVE DeliveryInv'
    OBVIOUS
  <2>1. ServerInv /\ WindowInv /\ due \in 0 .. MaxRevision /\ latest \in 0 .. MaxRevision
    BY Halves DEF ServerInv
  <2>2. ServerInv' /\ WindowInv' /\ due' \in 0 .. MaxRevision
    BY <2>1, StepKeepsServerInv, StepKeepsWindowInv, StepKeepsDue
  <2>3. DeliveryInv' <=> (ServerInv /\ WindowInv /\ due \in 0 .. MaxRevision)'
    BY DEF DeliveryInv, TypeOK, ServerInv, WindowInv, Streams, Sources
  <2>4. QED
    BY <2>2, <2>3
<1>2. QED
  BY InitInv, <1>1, PTL DEF Spec

(* A full queue and a full history lose only what the newest revision      *)
(* makes obsolete: it is always the last one under way to the broker's     *)
(* clients.                                                                *)
THEOREM NewestRevisionIsKept == Spec => []NewestIsKept
<1>1. DeliveryInv => NewestIsKept
  BY DEF DeliveryInv
<1>2. QED
  BY <1>1, DeliveryInvariance, PTL

(* The snapshots a window shows only get newer, because it has one request *)
(* in flight at a time.                                                    *)
THEOREM WindowNeverGoesBack == Spec => ViewNeverGoesBack
<1>1. DeliveryInv /\ [Next]_vars =>
         [source.kind = "repository" /\ source'.negotiation = source.negotiation
            => source'.kind = "repository" /\ source'.revision >= source.revision]_vars
  BY Halves, StepKeepsWindowInv
<1>2. QED
  BY <1>1, DeliveryInvariance, PTL DEF Spec, ViewNeverGoesBack

-----------------------------------------------------------------------------
(* The dedicated Codex host.                                                 *)

(* A renderer that is over: its connect has failed, or its close has ended.  *)
Ended == {"failed", "closed", "stuck"}

(* A session that is open and has not refused to release its lease.          *)
Live(x) == x.session = "open" /\ "lease" \notin x.refused
IsLive(r) == Live(renderers[r])

(* A renderer: it has a lease from the moment it acquires one until it gives *)
(* it back, its bridge only in between, and no session once it is over, but  *)
(* for what it was refused.                                                  *)
RendererIsSound(x) ==
    /\ x.stage \in {"acquiring", "installing", "failed"} => ~x.bridge
    /\ x.stage \in {"installing", "attached", "closing", "releasing", "stuck"} => x.lease
    /\ x.stage \in {"acquiring", "closed"} => ~x.lease
    /\ x.stage \in {"failed", "closed"} => x.session # "open"
    /\ x.stage = "stuck" => ~Live(x)
    /\ x.stage = "releasing" /\ x.session = "open" /\ x.bridge => "bridge" \in x.refused
    /\ x.session = "closed" =>
         /\ x.stage \in {"failed", "closed"}
         /\ x.bridge => "bridge" \in x.refused
         /\ x.lease => "lease" \in x.refused
    /\ x.queued # 0 \/ x.refresh \in {"bypass", "install"} =>
         x.stage \in {"attached", "closing"}

RenderersAreSound == \A r \in DOMAIN renderers : RendererIsSound(renderers[r])

(* The leases counted for a page are those its renderers have.               *)
Holders(t) == {r \in DOMAIN renderers : renderers[r].target = t /\ renderers[r].lease}
LeasesAreCounted == \A t \in Targets : leases[t] = Cardinality(Holders(t))

(* The connection and its runtime.                                           *)
AttachInv ==
    /\ runtime.phase = "attaching" =>
         /\ connection = NoConnection /\ Newest <= 1 /\ polled = "none"
         /\ ~runtime.closing /\ ~runtime.closed
    /\ connection.renderer = 0 =>
         connection = NoConnection /\ runtime.phase \in {"attaching", "standalone"}
    /\ connection.renderer <= Newest

ReplacementInv ==
    /\ connection.replacing # "no" =>
         connection.replacement # <<>> /\ Head(connection.replacement) # None
    /\ connection.replacing = "connecting" =>
         /\ connection.renderer < Newest /\ ~Live(Current)
         /\ renderers[Newest].target = Head(connection.replacement)

CloseInv ==
    /\ connection.closed <=> connection.closing # "no"
    /\ connection.closed \/ connection.degraded => ~connection.subscribed
    /\ connection.closing \in {"closing", "done"} => NoReplacement
    /\ connection.closing = "done" => ~Live(Current)
    /\ runtime.phase = "standalone" =>
         connection = NoConnection \/ connection.closing = "done"
    /\ runtime.closed =>
         /\ runtime.closing
         /\ runtime.phase = "standalone" \/ connection.closing = "done"

SessionInv ==
    /\ \A r \in DOMAIN renderers : IsLive(r) =>
         \/ r = connection.renderer
         \/ r = Newest /\ (runtime.phase = "attaching" \/ connection.replacing = "connecting")
    /\ IsOver \/ (runtime.phase = "attaching" /\ runtime.instance # "open") =>
         \A r \in DOMAIN renderers : ~IsLive(r)

(* The order of the renderers: those after the one in use have failed, but   *)
(* for one that is being connected, and those before one that has not failed *)
(* are over.                                                                 *)
Taken == {"attached", "closing", "releasing", "closed", "stuck"}

OrderInv ==
    /\ connection.renderer = 0 => Newest <= 1
    /\ connection.renderer # 0 =>
         /\ Current.stage \in Taken
         /\ \A r \in DOMAIN renderers :
              r > connection.renderer /\ renderers[r].stage # "failed" =>
                r = Newest /\ connection.replacing = "connecting"
    /\ \A r, s \in DOMAIN renderers :
         s < r /\ renderers[r].stage # "failed" => renderers[s].stage \in Ended

(* A bridge without a bypass of its own session is there for one of the two  *)
(* reasons.                                                                  *)
Exposed(x) == IsInPlace(x) /\ ~x.bypass /\ ~x.unheard

BypassInv == \A r \in DOMAIN renderers : Exposed(renderers[r]) => KeptLease(r)

HostInv ==
    /\ HostTypeOK
    /\ RenderersAreSound
    /\ LeasesAreCounted
    /\ AttachInv
    /\ ReplacementInv
    /\ CloseInv
    /\ SessionInv
    /\ OrderInv
    /\ BypassInv

-----------------------------------------------------------------------------
(* Types.                                                                    *)

RendererTargets == Targets \cup {None}

LEMMA ConnectionFields ==
    ASSUME NEW c \in Connections
    PROVE  /\ c.renderer \in Nat /\ c.closed \in BOOLEAN /\ c.degraded \in BOOLEAN
           /\ c.subscribed \in BOOLEAN /\ c.listening \in BOOLEAN
           /\ c.replacement \in Seq(RendererTargets)
           /\ c.replacing \in {"no", "closing", "connecting"}
           /\ c.degrading \in {"no", "closing", "published"}
           /\ c.closing \in {"no", "replacing", "closing", "done"}
  BY DEF Connections, RendererTargets

LEMMA DegradedFields ==
    ASSUME NEW c \in Connections
    PROVE  /\ Degraded(c) \in Connections
           /\ Degraded(c).renderer = c.renderer /\ Degraded(c).closed = c.closed
           /\ Degraded(c).degraded = TRUE /\ Degraded(c).subscribed = FALSE
           /\ Degraded(c).listening = FALSE /\ Degraded(c).degrading = "closing"
           /\ Degraded(c).replacement = c.replacement
           /\ Degraded(c).replacing = c.replacing /\ Degraded(c).closing = c.closing
  BY DEF Degraded, Connections

LEMMA NoConnectionFields ==
    /\ NoConnection \in Connections
    /\ NoConnection.renderer = 0 /\ NoConnection.closed = FALSE
    /\ NoConnection.degraded = FALSE /\ NoConnection.subscribed = FALSE
    /\ NoConnection.listening = FALSE /\ NoConnection.replacement = <<>>
    /\ NoConnection.replacing = "no" /\ NoConnection.degrading = "no"
    /\ NoConnection.closing = "no"
<1>1. <<>> \in Seq(Targets \cup {None})
  BY EmptySeq
<1>2. QED
  BY <1>1 DEF NoConnection, Connections

LEMMA RendererFields ==
    ASSUME NEW x \in Renderers
    PROVE  /\ x.target \in Targets /\ x.session \in {"open", "closed", "dropped"}
           /\ x.bypass \in BOOLEAN /\ x.bridge \in BOOLEAN /\ x.lease \in BOOLEAN
           /\ x.stage \in Stages /\ x.refresh \in {"none", "bypass", "install", "failed"}
           /\ x.queued \in Nat /\ x.unheard \in BOOLEAN
           /\ x.refused \in SUBSET {"bridge", "lease"}
  BY DEF Renderers

LEMMA HostTypes ==
    ASSUME HostTypeOK
    PROVE  /\ connection \in Connections /\ runtime \in Runtimes
           /\ Newest \in Nat /\ DOMAIN renderers = 1 .. Newest
           /\ \A r \in DOMAIN renderers : renderers[r] \in Renderers
  BY LenProperties, ElementOfSeq DEF HostTypeOK, Newest

-----------------------------------------------------------------------------
(* Steps that change renderers and nothing else but, perhaps, degrade the    *)
(* connection.                                                               *)

(* What a step may do to a renderer.                                         *)
Moves(y, x) ==
    /\ x.target = y.target
    /\ Live(x) => Live(y)
    /\ RendererIsSound(x)
    /\ y.stage = "failed" => x.stage = "failed"
    /\ y.stage \in Taken => x.stage \in Taken
    /\ y.stage \in Ended => x.lease = y.lease

(* Only the close of the renderer in use is tried again, when there is no    *)
(* renderer after it.                                                        *)
FailedSince ==
    \A r \in DOMAIN renderers : r > connection.renderer => renderers[r].stage = "failed"

MovesOn(r) ==
    /\ Moves(renderers[r], renderers'[r])
    /\ Exposed(renderers'[r]) => Exposed(renderers[r]) \/ KeptLease(r)
    /\ renderers[r].stage \in Ended =>
         renderers'[r].stage \in Ended \/ (r = connection.renderer /\ FailedSince)

RenderersMove ==
    /\ renderers' \in Seq(Renderers) /\ Len(renderers') = Len(renderers)
    /\ \A r \in DOMAIN renderers : MovesOn(r)

LeasesStay == \A r \in DOMAIN renderers : renderers'[r].lease = renderers[r].lease

ConnectionStays ==
    \/ connection' = connection
    \/ connection' = Degraded(connection) /\ ~IsGivenUp /\ connection.renderer # 0

ControlInv ==
    /\ RenderersAreSound /\ AttachInv /\ ReplacementInv /\ CloseInv /\ SessionInv
    /\ OrderInv /\ BypassInv

LEMMA RenderersMoveDomain ==
    ASSUME HostTypeOK, RenderersMove
    PROVE  /\ Newest' = Newest /\ DOMAIN renderers' = DOMAIN renderers
           /\ RenderersAreSound'
<1>1. Newest' = Newest /\ DOMAIN renderers' = DOMAIN renderers
  BY LenProperties DEF HostTypeOK, RenderersMove, Newest
<1>2. QED
  BY <1>1 DEF RenderersMove, RenderersAreSound, MovesOn, Moves

(* A renderer that is not the first of those that have not failed follows    *)
(* renderers that are over, and those keep their leases.                     *)
LEMMA BypassStays ==
    ASSUME HostInv, RenderersMove
    PROVE  BypassInv'
<1>1. /\ HostTypeOK /\ OrderInv /\ BypassInv
      /\ DOMAIN renderers = 1 .. Newest /\ Newest \in Nat
      /\ DOMAIN renderers' = DOMAIN renderers
  BY HostTypes, RenderersMoveDomain DEF HostInv
<1>2. SUFFICES ASSUME NEW r \in DOMAIN renderers, Exposed(renderers'[r])
               PROVE  KeptLease(r)'
  BY <1>1 DEF BypassInv
<1>3. KeptLease(r)
  BY <1>1, <1>2 DEF RenderersMove, MovesOn, BypassInv
<1>4. PICK s \in 1 .. r - 1 :
        renderers[s].target = renderers[r].target /\ renderers[s].lease
  BY <1>3 DEF KeptLease
<1>5. s \in DOMAIN renderers /\ s < r
  BY <1>1, <1>4
<1>6. renderers'[r].stage \in {"installing", "attached"}
  BY <1>2 DEF Exposed, IsInPlace
<1>7. renderers[r].stage # "failed"
  BY <1>6 DEF RenderersMove, MovesOn, Moves
<1>8. renderers[s].stage \in Ended
  BY <1>1, <1>5, <1>7 DEF OrderInv
<1>9. /\ renderers'[s].lease = renderers[s].lease
      /\ renderers'[s].target = renderers[s].target
      /\ renderers'[r].target = renderers[r].target
  BY <1>5, <1>8 DEF RenderersMove, MovesOn, Moves
<1>10. QED
  BY <1>4, <1>9 DEF KeptLease

LEMMA OrderStays ==
    ASSUME HostInv, RenderersMove, connection'.renderer = connection.renderer,
           connection'.replacing = connection.replacing \/ FailedSince
    PROVE  OrderInv'
<1>1. /\ HostTypeOK /\ OrderInv /\ Newest' = Newest
      /\ DOMAIN renderers' = DOMAIN renderers
  BY RenderersMoveDomain DEF HostInv
<1>2. /\ connection.renderer <= Newest /\ connection.renderer \in Nat
      /\ DOMAIN renderers = 1 .. Newest /\ Newest \in Nat
  BY <1>1, HostTypes, ConnectionFields DEF HostInv, AttachInv
<1>3. \A r \in DOMAIN renderers :
        renderers'[r].stage # "failed" => renderers[r].stage # "failed"
  BY DEF RenderersMove, MovesOn, Moves
<1>4. connection.renderer # 0 => renderers'[connection.renderer].stage \in Taken
  BY <1>1, <1>2 DEF OrderInv, Current, RenderersMove, MovesOn, Moves
<1>5. connection.renderer # 0 =>
        \A r \in DOMAIN renderers :
          r > connection.renderer /\ renderers'[r].stage # "failed" =>
            r = Newest /\ connection'.replacing = "connecting"
  BY <1>1, <1>3 DEF OrderInv, FailedSince
<1>6. ASSUME NEW r \in DOMAIN renderers, NEW s \in DOMAIN renderers,
             s < r, renderers'[r].stage # "failed"
      PROVE  renderers'[s].stage \in Ended
  <2>1. renderers[r].stage # "failed" /\ renderers[s].stage \in Ended
    BY <1>1, <1>3, <1>6 DEF OrderInv
  <2>2. ~(s = connection.renderer /\ FailedSince)
    BY <1>6, <2>1 DEF FailedSince
  <2>3. QED
    BY <2>1, <2>2 DEF RenderersMove, MovesOn
<1>7. QED
  BY <1>1, <1>4, <1>5, <1>6 DEF OrderInv, Current

LEMMA RendererStep ==
    ASSUME HostInv, RenderersMove, ConnectionStays, runtime' = runtime,
           runtime.phase = "attaching" => polled' = polled
    PROVE  ControlInv'
<1>1. /\ HostTypeOK /\ AttachInv /\ ReplacementInv /\ CloseInv /\ SessionInv
  BY DEF HostInv
<1>2. /\ Newest' = Newest /\ DOMAIN renderers' = DOMAIN renderers
      /\ RenderersAreSound'
  BY <1>1, RenderersMoveDomain
<1>3. /\ connection'.renderer = connection.renderer
      /\ connection'.replacement = connection.replacement
      /\ connection'.replacing = connection.replacing
      /\ connection'.closing = connection.closing
      /\ connection'.closed = connection.closed
      /\ \/ connection' = connection
         \/ ~connection'.subscribed /\ connection.renderer # 0 /\ ~connection.closed
  BY <1>1, HostTypes, DegradedFields DEF ConnectionStays, IsGivenUp
<1>4. connection.renderer = 0 => connection' = connection
  BY <1>3
<1>5. AttachInv'
  BY <1>1, <1>2, <1>3, <1>4, NoConnectionFields DEF AttachInv
<1>6. connection.renderer # 0 => connection.renderer \in DOMAIN renderers
  BY <1>1, HostTypes, ConnectionFields DEF AttachInv
<1>7. connection.replacing = "connecting" \/ connection.closing = "done"
        => connection.renderer # 0
  BY <1>1, NoConnectionFields DEF AttachInv
<1>8. connection.replacing = "connecting" => Newest \in DOMAIN renderers
  BY <1>1, HostTypes, ConnectionFields DEF ReplacementInv
<1> DEFINE Kept(r) == /\ Live(renderers'[r]) => Live(renderers[r])
                      /\ renderers'[r].target = renderers[r].target
<1>9. \A r \in DOMAIN renderers : Kept(r)
  BY DEF RenderersMove, MovesOn, Moves
<1>10. ReplacementInv'
  BY <1>1, <1>2, <1>3, <1>6, <1>7, <1>8, <1>9 DEF ReplacementInv, Current
<1>11. CloseInv'
  BY <1>1, <1>2, <1>3, <1>6, <1>7, <1>9, NoConnectionFields
     DEF CloseInv, Current, NoReplacement
<1>12. SessionInv'
  BY <1>1, <1>2, <1>3, <1>9 DEF SessionInv, IsLive, IsOver
<1>13. OrderInv' /\ BypassInv'
  BY <1>3, OrderStays, BypassStays
<1>14. QED
  BY <1>2, <1>5, <1>10, <1>11, <1>12, <1>13 DEF ControlInv

(* The leases stay counted while nobody takes or gives back one.             *)
LEMMA HoldersAreFinite ==
    ASSUME HostTypeOK, NEW t
    PROVE  IsFiniteSet(Holders(t))
<1>1. IsFiniteSet(DOMAIN renderers)
  BY HostTypes, FS_Interval
<1>2. QED
  BY <1>1, FS_Subset DEF Holders

LEMMA LeasesStayCounted ==
    ASSUME HostTypeOK, LeasesAreCounted, RenderersMove, leases' = leases, LeasesStay
    PROVE  LeasesAreCounted'
<1>1. DOMAIN renderers' = DOMAIN renderers
  BY RenderersMoveDomain
<1>2. SUFFICES ASSUME NEW t \in Targets
               PROVE  leases[t] = Cardinality(Holders(t)')
  BY DEF LeasesAreCounted
<1>3. Holders(t)' = Holders(t)
  BY <1>1 DEF Holders, RenderersMove, MovesOn, Moves, LeasesStay
<1>4. QED
  BY <1>3 DEF LeasesAreCounted

LEMMA RendererStays ==
    ASSUME NEW y \in Renderers, RendererIsSound(y)
    PROVE  Moves(y, y)
  BY DEF Moves

LEMMA AllMove ==
    ASSUME HostTypeOK, renderers' = [s \in DOMAIN renderers |-> renderers'[s]],
           \A s \in DOMAIN renderers : renderers'[s] \in Renderers /\ MovesOn(s)
    PROVE  RenderersMove
<1>1. /\ renderers \in Seq(Renderers) /\ DOMAIN renderers = 1 .. Len(renderers)
      /\ Len(renderers) \in Nat
  BY LenProperties DEF HostTypeOK
<1>2. renderers' \in [1 .. Len(renderers) -> Renderers]
  BY <1>1
<1>3. renderers' \in Seq(Renderers) /\ Len(renderers') = Len(renderers)
  BY <1>1, <1>2
<1>4. QED
  BY <1>3 DEF RenderersMove

LEMMA RendererMoves ==
    ASSUME HostTypeOK, RenderersAreSound, NEW r \in DOMAIN renderers, NEW x \in Renderers,
           renderers' = [renderers EXCEPT ![r] = x], Moves(renderers[r], x),
           Exposed(x) => Exposed(renderers[r]) \/ KeptLease(r),
           renderers[r].stage \in Ended =>
             x.stage \in Ended \/ (r = connection.renderer /\ FailedSince)
    PROVE  /\ RenderersMove
           /\ renderers'[r] = x
           /\ \A s \in DOMAIN renderers \ {r} : renderers'[s] = renderers[s]
<1>1. /\ renderers \in Seq(Renderers) /\ DOMAIN renderers = 1 .. Len(renderers)
  BY LenProperties DEF HostTypeOK
<1>2. /\ renderers' \in Seq(Renderers) /\ Len(renderers') = Len(renderers)
      /\ renderers'[r] = x
      /\ \A s \in DOMAIN renderers \ {r} : renderers'[s] = renderers[s]
  BY <1>1, ExceptSeq
<1>3. \A s \in DOMAIN renderers \ {r} : Moves(renderers[s], renderers[s])
  BY RendererStays, HostTypes DEF RenderersAreSound
<1>4. \A s \in DOMAIN renderers : MovesOn(s)
  BY <1>2, <1>3 DEF MovesOn
<1>5. QED
  BY <1>2, <1>4 DEF RenderersMove

(* A renderer changes, and keeps its lease.                                  *)
RendererFacts(y, x) ==
    /\ x \in Renderers
    /\ Moves(y, x)
    /\ Exposed(x) => Exposed(y)
    /\ y.stage \in Ended => x.stage \in Ended
    /\ x.lease = y.lease

LEMMA OneMoves ==
    ASSUME HostInv, NEW r \in DOMAIN renderers, NEW x,
           renderers' = [renderers EXCEPT ![r] = x], RendererFacts(renderers[r], x)
    PROVE  RenderersMove /\ LeasesStay
<1>1. HostTypeOK /\ RenderersAreSound
  BY DEF HostInv
<1>2. /\ RenderersMove /\ renderers'[r] = x
      /\ \A s \in DOMAIN renderers \ {r} : renderers'[s] = renderers[s]
  BY <1>1, RendererMoves DEF RendererFacts
<1>3. QED
  BY <1>2 DEF RendererFacts, LeasesStay

ClosingOf(y) ==
    [y EXCEPT !.stage = IF y.stage \in {"attached", "stuck"} THEN "closing" ELSE y.stage]

LEMMA ClosingFacts ==
    ASSUME NEW y \in Renderers, RendererIsSound(y)
    PROVE  /\ ClosingOf(y) \in Renderers /\ Moves(y, ClosingOf(y))
           /\ Exposed(ClosingOf(y)) => Exposed(y)
           /\ ClosingOf(y).lease = y.lease
           /\ y.stage \in Ended => ClosingOf(y).stage \in Ended \/ y.stage = "stuck"
  BY DEF ClosingOf, Renderers, Stages, Moves, RendererIsSound, Live, Exposed, IsInPlace,
         Taken, Ended

LEMMA StartCloseMoves ==
    ASSUME HostTypeOK, RenderersAreSound, NEW r \in DOMAIN renderers, StartClose(r),
           renderers[r].stage # "stuck" \/ (r = connection.renderer /\ FailedSince)
    PROVE  RenderersMove /\ LeasesStay
<1>1. renderers[r] \in Renderers /\ RendererIsSound(renderers[r])
  BY HostTypes DEF RenderersAreSound
<1>2. renderers' = [renderers EXCEPT ![r] = ClosingOf(renderers[r])]
  BY DEF StartClose, ClosingOf
<1>3. /\ ClosingOf(renderers[r]) \in Renderers /\ Moves(renderers[r], ClosingOf(renderers[r]))
      /\ Exposed(ClosingOf(renderers[r])) => Exposed(renderers[r])
      /\ ClosingOf(renderers[r]).lease = renderers[r].lease
      /\ renderers[r].stage \in Ended =>
           ClosingOf(renderers[r]).stage \in Ended \/ (r = connection.renderer /\ FailedSince)
  BY <1>1, ClosingFacts
<1>4. /\ RenderersMove /\ renderers'[r] = ClosingOf(renderers[r])
      /\ \A s \in DOMAIN renderers \ {r} : renderers'[s] = renderers[s]
  BY <1>2, <1>3, RendererMoves
<1>5. QED
  BY <1>3, <1>4 DEF LeasesStay

(* A listener takes part while the connection is neither closed nor degraded.*)
LEMMA StandaloneRequiredStays ==
    ASSUME NEW r \in DOMAIN renderers, HostTypeOK, StandaloneRequired(r)
    PROVE  ConnectionStays /\ connection' \in Connections
<1>1. r # 0
  BY HostTypes
<1>2. CASE Hears(r)
  BY <1>1, <1>2, HostTypes, DegradedFields
     DEF StandaloneRequired, Hears, ConnectionStays, IsGivenUp
<1>3. CASE ~Hears(r)
  BY <1>3, HostTypes DEF StandaloneRequired, ConnectionStays
<1>4. QED
  BY <1>2, <1>3

(* A step of renderers that take and give back no lease.                     *)
PlainStep ==
    /\ RenderersMove /\ LeasesStay
    /\ ConnectionStays /\ connection' \in Connections
    /\ runtime.phase = "attaching" => polled' = polled
    /\ runtime' = runtime /\ leases' = leases
    /\ listed' \in Targets \cup {None}
    /\ process' \in {"running", "terminating", "exited"}
    /\ lastTarget' \in Targets \cup {None} /\ missing' \in 0 .. MaxMissing
    /\ polled' \in Targets \cup {None, "none"}

LEMMA PlainStepKeeps ==
    ASSUME HostInv, PlainStep
    PROVE  HostInv'
<1>1. HostTypeOK /\ LeasesAreCounted /\ RenderersAreSound
  BY DEF HostInv
<1>2. HostTypeOK'
  BY <1>1 DEF HostTypeOK, PlainStep, RenderersMove
<1>3. LeasesAreCounted'
  BY <1>1, LeasesStayCounted DEF PlainStep
<1>4. ControlInv'
  BY RendererStep DEF PlainStep
<1>5. QED
  BY <1>2, <1>3, <1>4 DEF HostInv, ControlInv

LEMMA HostFacts ==
    ASSUME HostInv
    PROVE  /\ HostTypeOK /\ RenderersAreSound /\ LeasesAreCounted
           /\ connection \in Connections /\ runtime \in Runtimes
           /\ \A r \in DOMAIN renderers :
                renderers[r] \in Renderers /\ RendererIsSound(renderers[r])
           /\ listed \in Targets \cup {None}
           /\ process \in {"running", "terminating", "exited"}
           /\ lastTarget \in Targets \cup {None} /\ missing \in 0 .. MaxMissing
           /\ polled \in Targets \cup {None, "none"}
           /\ leases \in [Targets -> Nat]
  BY HostTypes DEF HostInv, RenderersAreSound, HostTypeOK

(* Nothing changes but what the environment and the instance know.           *)
LEMMA UnchangedRenderers ==
    ASSUME HostInv, renderers' = renderers
    PROVE  RenderersMove /\ LeasesStay
<1>1. \A r \in DOMAIN renderers : Moves(renderers[r], renderers[r])
  BY HostFacts, RendererStays
<1>2. QED
  BY <1>1, HostFacts DEF RenderersMove, MovesOn, LeasesStay, HostTypeOK

LEMMA TargetChangesStep ==
    ASSUME HostInv, TargetChanges
    PROVE  HostInv'
<1>1. listed' \in Targets \cup {None}
  BY DEF TargetChanges
<1>2. PlainStep
  BY <1>1, HostFacts, UnchangedRenderers DEF TargetChanges, PlainStep, ConnectionStays, instance
<1>3. QED
  BY <1>2, PlainStepKeeps

LEMMA BrokenFacts ==
    ASSUME HostInv, NEW r \in DOMAIN renderers
    PROVE  RendererFacts(renderers[r], Broken(r))
<1> DEFINE y == renderers[r]
           stage == IF Hears(r) THEN "closing" ELSE y.stage
           x == [y EXCEPT !.session = "dropped", !.bypass = FALSE, !.stage = stage]
<1>1. y \in Renderers /\ RendererIsSound(y)
  BY HostFacts
<1>2. Broken(r) = IF y.session # "open" THEN y ELSE x
  BY DEF Broken
<1>3. stage \in Stages /\ (stage = y.stage \/ (y.stage = "attached" /\ stage = "closing"))
  BY <1>1, RendererFields DEF Stages, Hears
<1> HIDE DEF stage, y
<1>4. /\ x \in Renderers /\ x.target = y.target /\ x.session = "dropped"
      /\ x.stage = stage /\ x.bridge = y.bridge /\ x.lease = y.lease
      /\ x.refresh = y.refresh /\ x.queued = y.queued /\ x.refused = y.refused
  BY <1>1, <1>3 DEF Renderers
<1> HIDE DEF x
<1>5. y.session = "open" => RendererFacts(y, x)
  BY <1>1, <1>3, <1>4 DEF RendererFacts, Moves, RendererIsSound, Live, Exposed, IsInPlace,
                          Taken, Ended
<1>6. y.session # "open" => RendererFacts(y, y)
  BY <1>1, RendererStays DEF RendererFacts
<1>7. QED
  BY <1>2, <1>5, <1>6 DEF y

LEMMA SessionDropsStep ==
    ASSUME HostInv, NEW r \in DOMAIN renderers, SessionDrops(r)
    PROVE  HostInv'
<1>1. renderers' = [renderers EXCEPT ![r] = Broken(r)] /\ StandaloneRequired(r)
  BY DEF SessionDrops
<1>2. RenderersMove /\ LeasesStay
  BY <1>1, BrokenFacts, OneMoves
<1>3. ConnectionStays /\ connection' \in Connections
  BY <1>1, HostFacts, StandaloneRequiredStays
<1>4. PlainStep
  BY <1>2, <1>3, HostFacts DEF SessionDrops, PlainStep, instance
<1>5. QED
  BY <1>4, PlainStepKeeps

(* Every renderer changes, and keeps its lease.                              *)
LEMMA EachMoves ==
    ASSUME HostInv, renderers' = [s \in DOMAIN renderers |-> renderers'[s]],
           \A s \in DOMAIN renderers : RendererFacts(renderers[s], renderers'[s])
    PROVE  RenderersMove /\ LeasesStay
<1>1. \A s \in DOMAIN renderers : renderers'[s] \in Renderers /\ MovesOn(s)
  BY DEF RendererFacts, MovesOn
<1>2. RenderersMove
  BY <1>1, HostFacts, AllMove
<1>3. QED
  BY <1>2 DEF RendererFacts, LeasesStay

LEMMA ProcessExitsStep ==
    ASSUME HostInv, ProcessExits
    PROVE  HostInv'
<1>1. /\ renderers' = [r \in DOMAIN renderers |-> Broken(r)]
      /\ process' = "exited" /\ listed' = None
  BY DEF ProcessExits
<1>2. \A s \in DOMAIN renderers : renderers'[s] = Broken(s)
  BY <1>1
<1>3. renderers' = [s \in DOMAIN renderers |-> renderers'[s]]
  BY <1>1
<1>4. RenderersMove /\ LeasesStay
  BY <1>2, <1>3, BrokenFacts, EachMoves
<1>5. ConnectionStays /\ connection' \in Connections
  <2>1. CASE connection.renderer # 0 /\ Current.session = "open"
    <3>1. connection.renderer \in DOMAIN renderers
      BY <2>1, HostFacts, HostTypes, ConnectionFields DEF HostInv, AttachInv
    <3>2. QED
      BY <2>1, <3>1, HostFacts, StandaloneRequiredStays DEF ProcessExits
  <2>2. CASE ~(connection.renderer # 0 /\ Current.session = "open")
    BY <2>2, HostFacts DEF ProcessExits, ConnectionStays
  <2>3. QED
    BY <2>1, <2>2
<1>6. PlainStep
  BY <1>1, <1>4, <1>5, HostFacts DEF ProcessExits, PlainStep, instance
<1>7. QED
  BY <1>6, PlainStepKeeps

LEMMA PageLeavesProjectStep ==
    ASSUME HostInv, NEW r \in DOMAIN renderers, PageLeavesProject(r)
    PROVE  HostInv'
<1>1. renderers[r].stage = "attached"
  BY DEF PageLeavesProject, Hears
<1>2. RenderersMove /\ LeasesStay
  BY <1>1, HostFacts, StartCloseMoves DEF PageLeavesProject
<1>3. ConnectionStays /\ connection' \in Connections
  BY HostFacts, StandaloneRequiredStays DEF PageLeavesProject
<1>4. PlainStep
  BY <1>2, <1>3, HostFacts DEF PageLeavesProject, PlainStep, instance, environment
<1>5. QED
  BY <1>4, PlainStepKeeps

(* A reload that is heard is queued.                                         *)
LEMMA ReloadedFacts ==
    ASSUME NEW y \in Renderers, RendererIsSound(y)
    PROVE  RendererFacts(y, Reloaded(y))
<1>1. CASE y.session # "open"
  <2> DEFINE x == [y EXCEPT !.bridge = FALSE]
  <2>1. /\ x \in Renderers /\ x.target = y.target /\ x.session = y.session
        /\ x.stage = y.stage /\ x.bridge = FALSE /\ x.lease = y.lease
        /\ x.bypass = y.bypass /\ x.refresh = y.refresh /\ x.queued = y.queued
        /\ x.unheard = y.unheard /\ x.refused = y.refused
    BY DEF Renderers
  <2> HIDE DEF x
  <2>2. RendererFacts(y, x)
    BY <2>1 DEF RendererFacts, Moves, RendererIsSound, Live, Exposed, IsInPlace
  <2>3. QED
    BY <1>1, <2>2 DEF Reloaded, x
<1>2. CASE y.session = "open"
  <2> DEFINE queued == IF y.stage = "attached" THEN y.queued + 1 ELSE y.queued
             unheard == y.unheard \/ y.stage = "installing"
             x == [y EXCEPT !.bridge = FALSE, !.bypass = FALSE, !.queued = queued,
                            !.unheard = unheard]
  <2>1. /\ queued \in Nat /\ unheard \in BOOLEAN
        /\ y.stage = "attached" => queued # 0
        /\ y.stage # "attached" => queued = y.queued
        /\ y.stage = "installing" => unheard
    BY RendererFields
  <2> HIDE DEF queued, unheard
  <2>2. /\ x \in Renderers /\ x.target = y.target /\ x.session = y.session
        /\ x.stage = y.stage /\ x.bridge = FALSE /\ x.lease = y.lease
        /\ x.refresh = y.refresh /\ x.queued = queued
        /\ x.unheard = unheard /\ x.refused = y.refused
    BY <2>1 DEF Renderers
  <2> HIDE DEF x
  <2>3. RendererFacts(y, x)
    BY <1>2, <2>1, <2>2 DEF RendererFacts, Moves, RendererIsSound, Live, Exposed, IsInPlace
  <2>4. Reloaded(y) = x
    BY <1>2 DEF Reloaded, Queued, x, queued, unheard
  <2>5. QED
    BY <2>3, <2>4
<1>3. QED
  BY <1>1, <1>2

LEMMA PageReloadsStep ==
    ASSUME HostInv, NEW t \in Targets, PageReloads(t)
    PROVE  HostInv'
<1>1. renderers' = [r \in DOMAIN renderers |->
          IF renderers[r].target = t THEN Reloaded(renderers[r]) ELSE renderers[r]]
  BY DEF PageReloads
<1>2. renderers' = [s \in DOMAIN renderers |-> renderers'[s]]
  BY <1>1
<1>3. ASSUME NEW s \in DOMAIN renderers
      PROVE  RendererFacts(renderers[s], renderers'[s])
  <2>1. renderers[s] \in Renderers /\ RendererIsSound(renderers[s])
    BY HostFacts
  <2>2. RendererFacts(renderers[s], renderers[s])
    BY <2>1, RendererStays DEF RendererFacts
  <2>3. QED
    BY <1>1, <2>1, <2>2, ReloadedFacts
<1>4. RenderersMove /\ LeasesStay
  BY <1>2, <1>3, EachMoves
<1>5. PlainStep
  BY <1>4, HostFacts DEF PageReloads, PlainStep, ConnectionStays, instance
<1>6. QED
  BY <1>5, PlainStepKeeps

-----------------------------------------------------------------------------
(* Steps of a renderer.                                                      *)

LEMMA LeaseStepKeeps ==
    ASSUME HostInv, RenderersMove, leases' \in [Targets -> Nat], LeasesAreCounted',
           UNCHANGED <<environment, process, instance, connection, runtime>>
    PROVE  HostInv'
<1>1. HostTypeOK'
  BY HostFacts DEF HostTypeOK, RenderersMove, environment, instance
<1>2. ControlInv'
  BY RendererStep DEF ConnectionStays, instance
<1>3. QED
  BY <1>1, <1>2 DEF HostInv, ControlInv

(* A lease that is taken or given back is the only one that changes.         *)
LEMMA OtherHolders ==
    ASSUME HostInv, RenderersMove, NEW r \in DOMAIN renderers,
           \A s \in DOMAIN renderers \ {r} : renderers'[s] = renderers[s],
           NEW own \in Targets, own = renderers[r].target
    PROVE  /\ \A t \in Targets \ {own} : Holders(t)' = Holders(t)
           /\ ~renderers[r].lease /\ renderers'[r].lease =>
                /\ r \notin Holders(own) /\ Holders(own)' = Holders(own) \cup {r}
           /\ renderers[r].lease /\ ~renderers'[r].lease =>
                /\ r \in Holders(own) /\ Holders(own)' = Holders(own) \ {r}
<1>1. DOMAIN renderers' = DOMAIN renderers
  BY HostFacts, RenderersMoveDomain
<1>2. \A s \in DOMAIN renderers : renderers'[s].target = renderers[s].target
  BY DEF RenderersMove, MovesOn, Moves
<1>3. QED
  BY <1>1, <1>2 DEF Holders

LEMMA LeaseTaken ==
    ASSUME HostInv, RenderersMove, NEW r \in DOMAIN renderers,
           \A s \in DOMAIN renderers \ {r} : renderers'[s] = renderers[s],
           ~renderers[r].lease, renderers'[r].lease,
           leases' = [leases EXCEPT ![renderers[r].target] = @ + 1]
    PROVE  leases' \in [Targets -> Nat] /\ LeasesAreCounted'
<1>1. PICK own \in Targets : own = renderers[r].target
  BY HostFacts, RendererFields
<1>2. /\ leases' \in [Targets -> Nat] /\ leases'[own] = leases[own] + 1
      /\ \A t \in Targets \ {own} : leases'[t] = leases[t]
  BY <1>1, HostFacts
<1>3. leases'[own] = Cardinality(Holders(own)')
  <2> DEFINE held == Holders(own)
             now == Holders(own)'
  <2>1. r \notin held /\ now = held \cup {r}
    BY <1>1, OtherHolders
  <2>2. IsFiniteSet(held) /\ leases[own] = Cardinality(held)
    BY HostFacts, HoldersAreFinite DEF LeasesAreCounted
  <2> HIDE DEF held, now
  <2>3. Cardinality(now) = Cardinality(held) + 1
    BY <2>1, <2>2, FS_AddElement
  <2>4. QED
    BY <1>2, <2>2, <2>3 DEF now
<1>4. \A t \in Targets \ {own} : leases'[t] = Cardinality(Holders(t)')
  BY <1>1, <1>2, OtherHolders, HostFacts DEF LeasesAreCounted
<1>5. QED
  BY <1>2, <1>3, <1>4 DEF LeasesAreCounted

LEMMA LeaseGivenBack ==
    ASSUME HostInv, RenderersMove, NEW r \in DOMAIN renderers,
           \A s \in DOMAIN renderers \ {r} : renderers'[s] = renderers[s],
           renderers[r].lease, ~renderers'[r].lease,
           leases' = CountedOff(r)
    PROVE  leases' \in [Targets -> Nat] /\ LeasesAreCounted'
<1>1. PICK own \in Targets : own = renderers[r].target
  BY HostFacts, RendererFields
<1> DEFINE held == Holders(own)
           now == Holders(own)'
<1>2. r \in held /\ now = held \ {r}
  BY <1>1, OtherHolders
<1>3. IsFiniteSet(held) /\ leases[own] = Cardinality(held)
  BY HostFacts, HoldersAreFinite DEF LeasesAreCounted
<1> HIDE DEF held, now
<1>4. IsFiniteSet(now) /\ Cardinality(now) = Cardinality(held) - 1
  BY <1>2, <1>3, FS_RemoveElement
<1>5. leases[own] - 1 \in Nat
  BY <1>3, <1>4, FS_CardinalityType
<1>6. /\ leases' \in [Targets -> Nat] /\ leases'[own] = leases[own] - 1
      /\ \A t \in Targets \ {own} : leases'[t] = leases[t]
  BY <1>1, <1>5, HostFacts DEF CountedOff
<1>7. \A t \in Targets \ {own} : leases'[t] = Cardinality(Holders(t)')
  BY <1>1, <1>6, OtherHolders, HostFacts DEF LeasesAreCounted
<1>8. leases'[own] = Cardinality(Holders(own)')
  BY <1>3, <1>4, <1>6 DEF now
<1>9. QED
  BY <1>6, <1>7, <1>8 DEF LeasesAreCounted

(* A renderer that is being connected is the newest, and those before it are *)
(* over.                                                                     *)
LEMMA ConnectingIsNewest ==
    ASSUME HostInv, NEW r \in DOMAIN renderers,
           renderers[r].stage \in {"acquiring", "installing"}
    PROVE  r = Newest
<1>1. /\ OrderInv /\ DOMAIN renderers = 1 .. Newest /\ Newest \in Nat
      /\ connection.renderer \in Nat
  BY HostFacts, HostTypes, ConnectionFields DEF HostInv
<1>2. CASE connection.renderer = 0
  BY <1>1, <1>2 DEF OrderInv
<1>3. CASE connection.renderer # 0
  <2>1. r # connection.renderer
    BY <1>1, <1>3 DEF OrderInv, Current, Taken
  <2>2. ~(r < connection.renderer)
    <3>1. connection.renderer \in DOMAIN renderers
      BY <1>1, <1>3 DEF HostInv, AttachInv
    <3>2. renderers[connection.renderer].stage # "failed"
      BY <1>1, <1>3 DEF OrderInv, Current, Taken
    <3>3. QED
      BY <1>1, <3>1, <3>2 DEF OrderInv, Ended
  <2>3. QED
    BY <1>1, <1>3, <2>1, <2>2 DEF OrderInv
<1>4. QED
  BY <1>2, <1>3

LEMMA AcquireLeaseStep ==
    ASSUME HostInv, NEW r \in DOMAIN renderers, AcquireLease(r)
    PROVE  HostInv'
<1> DEFINE y == renderers[r]
<1>1. /\ y \in Renderers /\ RendererIsSound(y) /\ y.stage = "acquiring" /\ y.lease = FALSE
  BY HostFacts, RendererFields DEF AcquireLease, RendererIsSound
<1>2. UNCHANGED <<environment, process, instance, connection, runtime>>
  BY DEF AcquireLease
<1>3. CASE /\ y.session = "open"
           /\ renderers' = [renderers EXCEPT ![r] = Acquired(r)]
           /\ leases' = [leases EXCEPT ![y.target] = @ + 1]
  <2> DEFINE bypass == IF leases[y.target] = 0 THEN TRUE ELSE y.bypass
             x == [y EXCEPT !.lease = TRUE, !.stage = "installing", !.bypass = bypass]
  <2>1. Acquired(r) = x
    BY DEF Acquired
  <2>2. bypass \in BOOLEAN /\ (~bypass => leases[y.target] # 0)
    BY <1>1, RendererFields
  <2> HIDE DEF bypass
  <2>3. /\ x \in Renderers /\ x.target = y.target /\ x.session = y.session
        /\ x.stage = "installing" /\ x.bridge = y.bridge /\ x.lease = TRUE
        /\ x.bypass = bypass /\ x.refresh = y.refresh /\ x.queued = y.queued
        /\ x.unheard = y.unheard /\ x.refused = y.refused
    BY <1>1, <2>2 DEF Renderers, Stages
  <2> HIDE DEF x
  <2>4. Moves(y, x)
    BY <1>1, <1>3, <2>3 DEF Moves, RendererIsSound, Live, Taken, Ended
  <2>5. Exposed(x) => KeptLease(r)
    <3>1. SUFFICES ASSUME leases[y.target] # 0 PROVE KeptLease(r)
      BY <2>2, <2>3 DEF Exposed
    <3>2. Holders(y.target) # {}
      <4>1. leases[y.target] = Cardinality(Holders(y.target))
        BY <1>1, HostFacts, RendererFields DEF LeasesAreCounted
      <4>2. QED
        BY <3>1, <4>1, FS_EmptySet
    <3>3. PICK s \in DOMAIN renderers : renderers[s].target = y.target /\ renderers[s].lease
      BY <3>2 DEF Holders
    <3>4. r = Newest /\ s # r /\ DOMAIN renderers = 1 .. Newest /\ Newest \in Nat
      BY <1>1, <3>3, ConnectingIsNewest, HostFacts, HostTypes
    <3>5. QED
      BY <3>3, <3>4 DEF KeptLease
  <2>6. /\ RenderersMove /\ renderers'[r] = x
        /\ \A s \in DOMAIN renderers \ {r} : renderers'[s] = renderers[s]
    BY <1>1, <1>3, <2>1, <2>3, <2>4, <2>5, HostFacts, RendererMoves DEF Ended
  <2>7. leases' \in [Targets -> Nat] /\ LeasesAreCounted'
    BY <1>1, <1>3, <2>3, <2>6, LeaseTaken
  <2>8. QED
    BY <1>2, <2>6, <2>7, LeaseStepKeeps
<1>4. CASE /\ renderers' = [renderers EXCEPT ![r].stage = "failed", ![r].session = "closed"]
           /\ UNCHANGED leases
  <2> DEFINE x == [y EXCEPT !.stage = "failed", !.session = "closed"]
  <2>1. renderers' = [renderers EXCEPT ![r] = x]
    BY <1>1, <1>4, HostFacts, HostTypes DEF Renderers, HostTypeOK
  <2>2. /\ x \in Renderers /\ x.target = y.target /\ x.session = "closed"
        /\ x.stage = "failed" /\ x.bridge = y.bridge /\ x.lease = y.lease
        /\ x.refresh = y.refresh /\ x.queued = y.queued /\ x.refused = y.refused
    BY <1>1 DEF Renderers, Stages
  <2> HIDE DEF x
  <2>3. RendererFacts(y, x)
    BY <1>1, <2>2 DEF RendererFacts, Moves, RendererIsSound, Live, Exposed, IsInPlace,
                      Taken, Ended
  <2>4. RenderersMove /\ LeasesStay
    BY <2>1, <2>3, OneMoves
  <2>5. PlainStep
    BY <1>2, <1>4, <2>4, HostFacts DEF PlainStep, ConnectionStays, environment, instance
  <2>6. QED
    BY <2>5, PlainStepKeeps
<1>5. QED
  BY <1>3, <1>4 DEF AcquireLease

(* The lease of a renderer is given back, and its session closed.            *)
LEMMA ReleasedStep ==
    ASSUME HostInv, NEW r \in DOMAIN renderers, NEW stage,
           \/ renderers[r].stage = "installing" /\ stage = "failed"
           \/ renderers[r].stage = "releasing" /\ stage = "closed",
           renderers' = [renderers EXCEPT ![r] = [Released(r) EXCEPT !.stage = stage]],
           leases' = CountedOff(r),
           UNCHANGED <<environment, process, instance, connection, runtime>>
    PROVE  HostInv'
<1> DEFINE y == renderers[r]
           session == ClosedSession(r)
           x == [Released(r) EXCEPT !.stage = stage]
<1>1. /\ y \in Renderers /\ RendererIsSound(y) /\ y.lease = TRUE
      /\ y.stage \in {"installing", "releasing"}
  BY HostFacts, RendererFields DEF RendererIsSound
<1>2. /\ session \in {"closed", "dropped"}
      /\ session = "closed" => y.session \in {"open", "closed"}
  BY <1>1, RendererFields DEF ClosedSession
<1>3. Released(r) = [y EXCEPT !.lease = FALSE, !.bypass = FALSE, !.session = session]
  BY DEF Released
<1> HIDE DEF session
<1>4. /\ x \in Renderers /\ x.target = y.target /\ x.session = session
      /\ x.stage = stage /\ x.bridge = y.bridge /\ x.lease = FALSE
      /\ x.refresh = y.refresh /\ x.queued = y.queued /\ x.refused = y.refused
  BY <1>1, <1>2, <1>3 DEF Renderers, Stages
<1>5. renderers' = [renderers EXCEPT ![r] = x]
  OBVIOUS
<1> HIDE DEF x
<1>6. Moves(y, x) /\ ~Exposed(x)
  BY <1>1, <1>2, <1>4 DEF Moves, RendererIsSound, Live, Exposed, IsInPlace, Taken, Ended
<1>7. /\ RenderersMove /\ renderers'[r] = x
      /\ \A s \in DOMAIN renderers \ {r} : renderers'[s] = renderers[s]
  BY <1>1, <1>4, <1>5, <1>6, HostFacts, RendererMoves DEF Ended
<1>8. leases' \in [Targets -> Nat] /\ LeasesAreCounted'
  BY <1>1, <1>4, <1>7, LeaseGivenBack
<1>9. QED
  BY <1>7, <1>8, LeaseStepKeeps

LEMMA RefusedFacts ==
    ASSUME NEW r, renderers[r] \in Renderers, NEW what \in {"bridge", "lease"}
    PROVE  /\ Refused(r, what) \in SUBSET {"bridge", "lease"}
           /\ renderers[r].refused \subseteq Refused(r, what)
           /\ renderers[r].session = "open" => what \in Refused(r, what)
  BY RendererFields DEF Refused

(* The bridge of a renderer is installed, and the one before it in the page  *)
(* gone.                                                                     *)
LEMMA MountedMoves ==
    ASSUME HostInv, NEW r \in DOMAIN renderers, NEW x, renderers' = Mounted(r, x),
           RendererFacts(renderers[r], x)
    PROVE  RenderersMove /\ LeasesStay
<1>1. renderers' = [s \in DOMAIN renderers |-> renderers'[s]]
  BY DEF Mounted
<1>2. ASSUME NEW s \in DOMAIN renderers
      PROVE  RendererFacts(renderers[s], renderers'[s])
  <2> DEFINE y == renderers[s]
             z == [y EXCEPT !.bridge = FALSE]
  <2>1. y \in Renderers /\ RendererIsSound(y)
    BY HostFacts
  <2>2. renderers'[s] \in {y, z} \/ (s = r /\ renderers'[s] = x)
    BY DEF Mounted
  <2> HIDE DEF y
  <2>3. /\ z \in Renderers /\ z.target = y.target /\ z.session = y.session
        /\ z.stage = y.stage /\ z.bridge = FALSE /\ z.lease = y.lease
        /\ z.bypass = y.bypass /\ z.refresh = y.refresh /\ z.queued = y.queued
        /\ z.unheard = y.unheard /\ z.refused = y.refused
    BY <2>1 DEF Renderers
  <2> HIDE DEF z
  <2>4. RendererFacts(y, z)
    BY <2>1, <2>3 DEF RendererFacts, Moves, RendererIsSound, Live, Exposed, IsInPlace
  <2>5. RendererFacts(y, y)
    BY <2>1, RendererStays DEF RendererFacts
  <2>6. QED
    BY <2>2, <2>4, <2>5 DEF y
<1>3. QED
  BY <1>1, <1>2, EachMoves

LEMMA InstallStep ==
    ASSUME HostInv, NEW r \in DOMAIN renderers, Install(r)
    PROVE  HostInv'
<1> DEFINE y == renderers[r]
<1>1. /\ y \in Renderers /\ RendererIsSound(y) /\ y.stage = "installing" /\ y.lease = TRUE
  BY HostFacts, RendererFields DEF Install, RendererIsSound
<1>2. UNCHANGED <<environment, process, instance, connection, runtime>>
  BY DEF Install
<1>3. CASE InstallSucceeds(r)
  <2> DEFINE x == [y EXCEPT !.bridge = TRUE, !.stage = "attached"]
  <2>1. y.session = "open" /\ renderers' = Mounted(r, x) /\ leases' = leases
    BY <1>3 DEF InstallSucceeds
  <2>2. /\ x \in Renderers /\ x.target = y.target /\ x.session = y.session
        /\ x.stage = "attached" /\ x.bridge = TRUE /\ x.lease = y.lease
        /\ x.bypass = y.bypass /\ x.refresh = y.refresh /\ x.queued = y.queued
        /\ x.unheard = y.unheard /\ x.refused = y.refused
    BY <1>1 DEF Renderers, Stages
  <2> HIDE DEF x
  <2>3. RendererFacts(y, x)
    BY <1>1, <2>1, <2>2 DEF RendererFacts, Moves, RendererIsSound, Live, Exposed, IsInPlace,
                            Taken, Ended
  <2>4. RenderersMove /\ LeasesStay
    BY <2>1, <2>3, MountedMoves
  <2>5. PlainStep
    BY <1>2, <2>1, <2>4, HostFacts DEF PlainStep, ConnectionStays, environment, instance
  <2>6. QED
    BY <2>5, PlainStepKeeps
<1>4. CASE /\ renderers' = [renderers EXCEPT ![r] = [Released(r) EXCEPT !.stage = "failed"]]
           /\ leases' = CountedOff(r)
  BY <1>1, <1>2, <1>4, ReleasedStep
<1>5. CASE /\ renderers' = [renderers EXCEPT ![r].stage = "failed", ![r].bypass = FALSE,
                 ![r].session = ClosedSession(r), ![r].refused = Refused(r, "lease")]
           /\ UNCHANGED leases
  <2> DEFINE session == ClosedSession(r)
             refused == Refused(r, "lease")
             x == [y EXCEPT !.stage = "failed", !.bypass = FALSE, !.session = session,
                            !.refused = refused]
  <2>1. /\ session \in {"closed", "dropped"}
        /\ session = "closed" => y.session \in {"open", "closed"}
    BY <1>1, RendererFields DEF ClosedSession
  <2>2. /\ refused \in SUBSET {"bridge", "lease"}
        /\ y.session = "open" => "lease" \in refused
    BY <1>1, RefusedFacts
  <2> HIDE DEF session, refused
  <2>3. renderers' = [renderers EXCEPT ![r] = x]
    BY <1>1, <1>5, HostFacts, HostTypes DEF Renderers, HostTypeOK, session, refused
  <2>4. /\ x \in Renderers /\ x.target = y.target /\ x.session = session
        /\ x.stage = "failed" /\ x.bridge = y.bridge /\ x.lease = y.lease
        /\ x.refresh = y.refresh /\ x.queued = y.queued /\ x.refused = refused
    BY <1>1, <2>1, <2>2 DEF Renderers, Stages
  <2> HIDE DEF x
  <2>5. RendererFacts(y, x)
    BY <1>1, <2>1, <2>2, <2>4 DEF RendererFacts, Moves, RendererIsSound, Live, Exposed,
                                  IsInPlace, Taken, Ended
  <2>6. RenderersMove /\ LeasesStay
    BY <2>3, <2>5, OneMoves
  <2>7. PlainStep
    BY <1>2, <1>5, <2>6, HostFacts DEF PlainStep, ConnectionStays, environment, instance
  <2>8. QED
    BY <2>7, PlainStepKeeps
<1>6. QED
  BY <1>3, <1>4, <1>5 DEF Install, InstallFails

LEMMA ReinstallStartsStep ==
    ASSUME HostInv, NEW r \in DOMAIN renderers, ReinstallStarts(r)
    PROVE  HostInv'
<1> DEFINE y == renderers[r]
           refresh == IF y.stage = "attached" THEN "bypass" ELSE y.refresh
           queued == y.queued - 1
           x == [y EXCEPT !.queued = queued, !.refresh = refresh]
<1>1. /\ y \in Renderers /\ RendererIsSound(y) /\ y.queued # 0
      /\ y.refresh \notin {"bypass", "install"}
  BY HostFacts DEF ReinstallStarts, IsReinstalling
<1>2. renderers' = [renderers EXCEPT ![r] = x]
  BY <1>1, HostFacts, HostTypes DEF ReinstallStarts, Renderers, HostTypeOK
<1>3. /\ queued \in Nat /\ refresh \in {"none", "bypass", "install", "failed"}
      /\ y.stage = "attached" => refresh = "bypass"
      /\ y.stage # "attached" => refresh = y.refresh
  BY <1>1, RendererFields
<1> HIDE DEF y, refresh, queued
<1>4. /\ x \in Renderers /\ x.target = y.target /\ x.session = y.session
      /\ x.stage = y.stage /\ x.bridge = y.bridge /\ x.lease = y.lease
      /\ x.refresh = refresh /\ x.queued = queued /\ x.refused = y.refused
  BY <1>1, <1>3 DEF Renderers
<1> HIDE DEF x
<1>5. RendererFacts(y, x)
  BY <1>1, <1>3, <1>4 DEF RendererFacts, Moves, RendererIsSound, Live, Exposed, IsInPlace
<1>6. RenderersMove /\ LeasesStay
  BY <1>2, <1>5, OneMoves DEF y
<1>7. PlainStep
  BY <1>6, HostFacts DEF ReinstallStarts, PlainStep, ConnectionStays, environment, instance
<1>8. QED
  BY <1>7, PlainStepKeeps

LEMMA ReinstallBypassesStep ==
    ASSUME HostInv, NEW r \in DOMAIN renderers, ReinstallBypasses(r)
    PROVE  HostInv'
<1> DEFINE y == renderers[r]
           x == [y EXCEPT !.bypass = TRUE, !.refresh = "install"]
<1>1. y \in Renderers /\ RendererIsSound(y) /\ y.refresh = "bypass" /\ y.session = "open"
  BY HostFacts DEF ReinstallBypasses
<1>2. renderers' = [renderers EXCEPT ![r] = x]
  BY <1>1, HostFacts, HostTypes DEF ReinstallBypasses, Renderers, HostTypeOK
<1> HIDE DEF y
<1>3. /\ x \in Renderers /\ x.target = y.target /\ x.session = y.session
      /\ x.stage = y.stage /\ x.bridge = y.bridge /\ x.lease = y.lease
      /\ x.bypass = TRUE /\ x.refresh = "install" /\ x.queued = y.queued
      /\ x.refused = y.refused
  BY <1>1 DEF Renderers
<1> HIDE DEF x
<1>4. RendererFacts(y, x)
  BY <1>1, <1>3 DEF RendererFacts, Moves, RendererIsSound, Live, Exposed, IsInPlace
<1>5. RenderersMove /\ LeasesStay
  BY <1>2, <1>4, OneMoves DEF y
<1>6. PlainStep
  BY <1>5, HostFacts DEF ReinstallBypasses, PlainStep, ConnectionStays, environment, instance
<1>7. QED
  BY <1>6, PlainStepKeeps

LEMMA ReinstallMountsStep ==
    ASSUME HostInv, NEW r \in DOMAIN renderers, ReinstallMounts(r)
    PROVE  HostInv'
<1> DEFINE y == renderers[r]
           x == [y EXCEPT !.bridge = TRUE, !.refresh = "none"]
<1>1. y \in Renderers /\ RendererIsSound(y) /\ y.refresh = "install" /\ y.session = "open"
  BY HostFacts DEF ReinstallMounts
<1>2. renderers' = Mounted(r, x)
  BY DEF ReinstallMounts
<1> HIDE DEF y
<1>3. /\ x \in Renderers /\ x.target = y.target /\ x.session = y.session
      /\ x.stage = y.stage /\ x.bridge = TRUE /\ x.lease = y.lease
      /\ x.bypass = y.bypass /\ x.refresh = "none" /\ x.queued = y.queued
      /\ x.unheard = y.unheard /\ x.refused = y.refused
  BY <1>1 DEF Renderers
<1> HIDE DEF x
<1>4. RendererFacts(y, x)
  BY <1>1, <1>3 DEF RendererFacts, Moves, RendererIsSound, Live, Exposed, IsInPlace
<1>5. RenderersMove /\ LeasesStay
  BY <1>2, <1>4, MountedMoves DEF y
<1>6. PlainStep
  BY <1>5, HostFacts DEF ReinstallMounts, PlainStep, ConnectionStays, environment, instance
<1>7. QED
  BY <1>6, PlainStepKeeps

LEMMA ReinstallRetriesStep ==
    ASSUME HostInv, NEW r \in DOMAIN renderers, ReinstallRetries(r)
    PROVE  HostInv'
<1> DEFINE y == renderers[r]
           x == [y EXCEPT !.refresh = "bypass", !.bridge = FALSE]
<1>1. y \in Renderers /\ RendererIsSound(y) /\ y.refresh = "install" /\ y.session = "open"
  BY HostFacts DEF ReinstallRetries
<1>2. renderers' = [renderers EXCEPT ![r] = x]
  BY <1>1, HostFacts, HostTypes DEF ReinstallRetries, Renderers, HostTypeOK
<1> HIDE DEF y
<1>3. /\ x \in Renderers /\ x.target = y.target /\ x.session = y.session
      /\ x.stage = y.stage /\ x.bridge = FALSE /\ x.lease = y.lease
      /\ x.refresh = "bypass" /\ x.queued = y.queued /\ x.refused = y.refused
  BY <1>1 DEF Renderers
<1> HIDE DEF x
<1>4. RendererFacts(y, x)
  BY <1>1, <1>3 DEF RendererFacts, Moves, RendererIsSound, Live, Exposed, IsInPlace
<1>5. RenderersMove /\ LeasesStay
  BY <1>2, <1>4, OneMoves DEF y
<1>6. PlainStep
  BY <1>5, HostFacts DEF ReinstallRetries, PlainStep, ConnectionStays, instance
<1>7. QED
  BY <1>6, PlainStepKeeps

LEMMA ReinstallFailsStep ==
    ASSUME HostInv, NEW r \in DOMAIN renderers, ReinstallFails(r)
    PROVE  HostInv'
<1> DEFINE y == renderers[r]
           stage == IF Hears(r) THEN "closing" ELSE y.stage
           x == [y EXCEPT !.refresh = "failed", !.stage = stage]
<1>1. y \in Renderers /\ RendererIsSound(y) /\ y.refresh \in {"bypass", "install"}
  BY HostFacts DEF ReinstallFails, IsReinstalling
<1>2. stage \in Stages /\ (stage = y.stage \/ (y.stage = "attached" /\ stage = "closing"))
  BY <1>1, RendererFields DEF Stages, Hears
<1>3. renderers' = [renderers EXCEPT ![r] = x]
  <2>1. renderers' = [renderers EXCEPT ![r].refresh = "failed", ![r].stage = stage]
    BY <1>1, HostFacts, HostTypes DEF ReinstallFails, Renderers, HostTypeOK
  <2> HIDE DEF stage
  <2>2. QED
    BY <1>1, <2>1, HostFacts, HostTypes DEF Renderers, HostTypeOK
<1> HIDE DEF y, stage
<1>4. /\ x \in Renderers /\ x.target = y.target /\ x.session = y.session
      /\ x.stage = stage /\ x.bridge = y.bridge /\ x.lease = y.lease
      /\ x.refresh = "failed" /\ x.queued = y.queued /\ x.refused = y.refused
  BY <1>1, <1>2 DEF Renderers
<1> HIDE DEF x
<1>5. RendererFacts(y, x)
  BY <1>1, <1>2, <1>4 DEF RendererFacts, Moves, RendererIsSound, Live, Exposed, IsInPlace,
                          Taken, Ended
<1>6. RenderersMove /\ LeasesStay
  BY <1>3, <1>5, OneMoves DEF y
<1>7. ConnectionStays /\ connection' \in Connections
  BY HostFacts, StandaloneRequiredStays DEF ReinstallFails
<1>8. PlainStep
  BY <1>6, <1>7, HostFacts DEF ReinstallFails, PlainStep, environment, instance
<1>9. QED
  BY <1>8, PlainStepKeeps

LEMMA CloseBridgeStep ==
    ASSUME HostInv, NEW r \in DOMAIN renderers, CloseBridge(r)
    PROVE  HostInv'
<1> DEFINE y == renderers[r]
<1>1. /\ y \in Renderers /\ RendererIsSound(y) /\ y.stage = "closing"
      /\ y.queued = 0 /\ y.refresh \notin {"bypass", "install"}
  BY HostFacts DEF CloseBridge, RefreshHasEnded, IsReinstalling
<1>2. PICK x \in Renderers :
        /\ renderers' = [renderers EXCEPT ![r] = x]
        /\ x.target = y.target /\ x.session = y.session
        /\ x.stage = "releasing" /\ x.lease = y.lease
        /\ x.refresh = y.refresh /\ x.queued = y.queued
        /\ y.refused \subseteq x.refused
        /\ y.session = "open" /\ x.bridge => "bridge" \in x.refused
        /\ y.session # "open" => x.bridge = y.bridge
  <2>1. CASE renderers' = [renderers EXCEPT ![r].stage = "releasing",
                 ![r].bridge = IF y.session = "open" THEN FALSE ELSE @]
    <3> DEFINE bridge == IF y.session = "open" THEN FALSE ELSE y.bridge
               x == [y EXCEPT !.stage = "releasing", !.bridge = bridge]
    <3>1. /\ bridge \in BOOLEAN /\ (y.session = "open" => bridge = FALSE)
          /\ y.session # "open" => bridge = y.bridge
      BY <1>1, RendererFields
    <3>2. renderers' = [renderers EXCEPT ![r].stage = "releasing", ![r].bridge = bridge]
      BY <1>1, <2>1, HostFacts, HostTypes DEF Renderers, HostTypeOK
    <3> HIDE DEF bridge
    <3>3. renderers' = [renderers EXCEPT ![r] = x]
      BY <1>1, <3>2, HostFacts, HostTypes DEF Renderers, HostTypeOK
    <3> HIDE DEF y
    <3>4. /\ x \in Renderers /\ x.target = y.target /\ x.session = y.session
          /\ x.stage = "releasing" /\ x.bridge = bridge /\ x.lease = y.lease
          /\ x.refresh = y.refresh /\ x.queued = y.queued /\ x.refused = y.refused
      BY <1>1, <3>1 DEF Renderers, Stages
    <3> HIDE DEF x
    <3>5. QED
      BY <3>1, <3>3, <3>4
  <2>2. CASE /\ y.session = "open" /\ y.bridge
             /\ renderers' = [renderers EXCEPT ![r].stage = "releasing",
                  ![r].refused = @ \cup {"bridge"}]
    <3> DEFINE refused == y.refused \cup {"bridge"}
               x == [y EXCEPT !.stage = "releasing", !.refused = refused]
    <3>1. /\ refused \in SUBSET {"bridge", "lease"} /\ "bridge" \in refused
          /\ y.refused \subseteq refused
      BY <1>1, RendererFields
    <3>2. renderers' = [renderers EXCEPT ![r].stage = "releasing", ![r].refused = refused]
      BY <1>1, <2>2, HostFacts, HostTypes DEF Renderers, HostTypeOK
    <3> HIDE DEF refused
    <3>3. renderers' = [renderers EXCEPT ![r] = x]
      BY <1>1, <3>2, HostFacts, HostTypes DEF Renderers, HostTypeOK
    <3> HIDE DEF y
    <3>4. /\ x \in Renderers /\ x.target = y.target /\ x.session = y.session
          /\ x.stage = "releasing" /\ x.bridge = y.bridge /\ x.lease = y.lease
          /\ x.refresh = y.refresh /\ x.queued = y.queued /\ x.refused = refused
      BY <1>1, <3>1 DEF Renderers, Stages
    <3> HIDE DEF x
    <3>5. QED
      BY <2>2, <3>1, <3>3, <3>4
  <2>3. QED
    BY <2>1, <2>2 DEF CloseBridge
<1> HIDE DEF y
<1>3. RendererFacts(y, x)
  BY <1>1, <1>2 DEF RendererFacts, Moves, RendererIsSound, Live, Exposed, IsInPlace,
                    Taken, Ended
<1>4. RenderersMove /\ LeasesStay
  BY <1>2, <1>3, OneMoves DEF y
<1>5. PlainStep
  BY <1>4, HostFacts DEF CloseBridge, PlainStep, ConnectionStays, environment, instance
<1>6. QED
  BY <1>5, PlainStepKeeps

LEMMA CloseSessionStep ==
    ASSUME HostInv, NEW r \in DOMAIN renderers, CloseSession(r)
    PROVE  HostInv'
<1> DEFINE y == renderers[r]
<1>1. /\ y \in Renderers /\ RendererIsSound(y) /\ y.stage = "releasing"
  BY HostFacts DEF CloseSession
<1>2. UNCHANGED <<environment, process, instance, connection, runtime>>
  BY DEF CloseSession
<1>3. CASE /\ renderers' = [renderers EXCEPT ![r] = [Released(r) EXCEPT !.stage = "closed"]]
           /\ leases' = CountedOff(r)
  BY <1>1, <1>2, <1>3, ReleasedStep
<1>4. CASE /\ renderers' = [renderers EXCEPT ![r].stage = "stuck",
                 ![r].refused = Refused(r, "lease")]
           /\ UNCHANGED leases
  <2> DEFINE refused == Refused(r, "lease")
             x == [y EXCEPT !.stage = "stuck", !.refused = refused]
  <2>1. /\ refused \in SUBSET {"bridge", "lease"}
        /\ y.session = "open" => "lease" \in refused
    BY <1>1, RefusedFacts
  <2> HIDE DEF refused
  <2>2. renderers' = [renderers EXCEPT ![r] = x]
    BY <1>1, <1>4, HostFacts, HostTypes DEF Renderers, HostTypeOK, refused
  <2>3. /\ x \in Renderers /\ x.target = y.target /\ x.session = y.session
        /\ x.stage = "stuck" /\ x.bridge = y.bridge /\ x.lease = y.lease
        /\ x.refresh = y.refresh /\ x.queued = y.queued /\ x.refused = refused
    BY <1>1, <2>1 DEF Renderers, Stages
  <2> HIDE DEF x
  <2>4. RendererFacts(y, x)
    BY <1>1, <2>1, <2>3 DEF RendererFacts, Moves, RendererIsSound, Live, Exposed,
                            IsInPlace, Taken, Ended
  <2>5. RenderersMove /\ LeasesStay
    BY <2>2, <2>4, OneMoves
  <2>6. PlainStep
    BY <1>2, <1>4, <2>5, HostFacts DEF PlainStep, ConnectionStays, environment, instance
  <2>7. QED
    BY <2>6, PlainStepKeeps
<1>5. QED
  BY <1>3, <1>4 DEF CloseSession

-----------------------------------------------------------------------------
(* Polls, and steps of the connection and of the runtime.                    *)

LEMMA PollReadsStep ==
    ASSUME HostInv, PollReads
    PROVE  HostInv'
<1>1. runtime.phase # "attaching"
  BY NoConnectionFields DEF HostInv, AttachInv, PollReads
<1>2. PlainStep
  BY <1>1, HostFacts, UnchangedRenderers DEF PollReads, PlainStep, ConnectionStays, environment
<1>3. QED
  BY <1>2, PlainStepKeeps

(* A step in which the connection or the runtime does something.             *)
ControlStep ==
    /\ RenderersMove /\ LeasesStay
    /\ leases' = leases /\ listed' = listed
    /\ process' \in {"running", "terminating", "exited"}
    /\ lastTarget' \in Targets \cup {None} /\ missing' \in 0 .. MaxMissing
    /\ polled' \in Targets \cup {None, "none"}
    /\ connection' \in Connections /\ runtime' \in Runtimes
    /\ AttachInv' /\ ReplacementInv' /\ CloseInv' /\ SessionInv'
    /\ \/ OrderInv'
       \/ /\ connection'.renderer = connection.renderer
          /\ connection'.replacing = connection.replacing \/ FailedSince

LEMMA ControlStepKeeps ==
    ASSUME HostInv, ControlStep
    PROVE  HostInv'
<1>1. HostTypeOK'
  BY HostFacts DEF HostTypeOK, ControlStep, RenderersMove
<1>2. LeasesAreCounted'
  BY HostFacts, LeasesStayCounted DEF ControlStep
<1>3. RenderersAreSound'
  BY HostFacts, RenderersMoveDomain DEF ControlStep
<1>4. OrderInv' /\ BypassInv'
  BY OrderStays, BypassStays DEF ControlStep
<1>5. QED
  BY <1>1, <1>2, <1>3, <1>4 DEF HostInv, ControlStep

(* Where no replacement is being connected, the renderers after the one in   *)
(* use have all failed.                                                      *)
LEMMA NoneConnecting ==
    ASSUME HostInv, connection.renderer # 0,
           connection.replacing # "connecting" \/ renderers[Newest].stage = "failed"
    PROVE  FailedSince
  BY DEF HostInv, OrderInv, FailedSince

(* While the connection follows the instance it has a renderer, and it is    *)
(* neither closed nor degraded.                                              *)
LEMMA ConnectionFacts ==
    ASSUME HostInv
    PROVE  /\ connection.renderer # 0 => connection.renderer \in DOMAIN renderers
           /\ connection # NoConnection => connection.renderer # 0
           /\ connection.renderer # 0 => runtime.phase # "attaching"
           /\ connection.subscribed =>
                /\ connection.renderer # 0 /\ ~IsGivenUp /\ connection.closing = "no"
                /\ runtime.phase # "standalone" /\ ~runtime.closed
           /\ connection.replacement # <<>> \/ connection.replacing # "no" =>
                /\ connection.renderer # 0 /\ connection.closing \in {"no", "replacing"}
                /\ runtime.phase # "standalone" /\ ~runtime.closed
<1>1. /\ AttachInv /\ CloseInv /\ connection \in Connections
  BY HostFacts DEF HostInv
<1>2. /\ connection.renderer # 0 => connection.renderer \in DOMAIN renderers
      /\ connection # NoConnection => connection.renderer # 0
      /\ connection.renderer # 0 => runtime.phase # "attaching"
  BY <1>1, HostFacts, HostTypes, ConnectionFields, NoConnectionFields DEF AttachInv
<1>3. connection.subscribed =>
                /\ connection.renderer # 0 /\ ~IsGivenUp /\ connection.closing = "no"
                /\ runtime.phase # "standalone" /\ ~runtime.closed
  BY <1>1, <1>2, NoConnectionFields, ConnectionFields DEF CloseInv, IsGivenUp
<1>4. connection.replacement # <<>> \/ connection.replacing # "no" =>
                /\ connection.renderer # 0 /\ connection.closing \in {"no", "replacing"}
                /\ runtime.phase # "standalone" /\ ~runtime.closed
  BY <1>1, <1>2, NoConnectionFields, ConnectionFields DEF CloseInv, NoReplacement
<1>5. QED
  BY <1>2, <1>3, <1>4

LEMMA PollEndsStep ==
    ASSUME HostInv, PollEnds
    PROVE  HostInv'
<1>1. /\ runtime.phase # "attaching" /\ polled \in Targets \cup {None}
      /\ renderers' = renderers /\ leases' = leases /\ runtime' = runtime
      /\ process' = process /\ listed' = listed
      /\ polled' = "none" /\ lastTarget' \in {lastTarget, polled}
  BY HostFacts DEF HostInv, AttachInv, PollEnds, environment
<1>2. missing' \in 0 .. MaxMissing
  BY HostFacts, HostAssumption DEF PollEnds
<1>3. RenderersMove /\ LeasesStay
  BY <1>1, UnchangedRenderers
<1>4. CASE connection' = connection
  <2>1. PlainStep
    BY <1>1, <1>2, <1>3, <1>4, HostFacts DEF PlainStep, ConnectionStays
  <2>2. QED
    BY <2>1, PlainStepKeeps
<1>5. CASE /\ connection.subscribed
           /\ connection' = [connection EXCEPT !.replacement = Append(@, polled)]
  <2> DEFINE old == connection.replacement
             new == Append(old, polled)
             c == [connection EXCEPT !.replacement = new]
  <2>1. old \in Seq(RendererTargets) /\ polled \in RendererTargets
    BY <1>1, HostFacts, ConnectionFields DEF RendererTargets
  <2>2. new \in Seq(RendererTargets) /\ (old # <<>> => new # <<>> /\ Head(new) = Head(old))
    BY <2>1, AppendProperties
  <2>3. connection' = c
    BY <1>5
  <2> HIDE DEF new
  <2>4. /\ c \in Connections /\ c.replacement = new
        /\ c.renderer = connection.renderer /\ c.closed = connection.closed
        /\ c.degraded = connection.degraded /\ c.subscribed = connection.subscribed
        /\ c.replacing = connection.replacing /\ c.closing = connection.closing
    BY <2>2, HostFacts DEF Connections, RendererTargets
  <2> HIDE DEF c, old
  <2>5. /\ connection.renderer # 0 /\ ~IsGivenUp /\ connection.closing = "no"
        /\ runtime.phase # "standalone" /\ ~runtime.closed
    BY <1>5, ConnectionFacts
  <2>6. AttachInv' /\ SessionInv'
    BY <1>1, <2>3, <2>4, <2>5 DEF HostInv, AttachInv, SessionInv, IsLive, IsOver, Newest
  <2>7. ReplacementInv'
    BY <1>1, <2>2, <2>3, <2>4 DEF HostInv, ReplacementInv, Current, Newest, old
  <2>8. CloseInv'
    BY <1>1, <2>3, <2>4, <2>5 DEF HostInv, CloseInv, IsGivenUp
  <2>9. ControlStep
    BY <1>1, <1>2, <1>3, <2>3, <2>4, <2>6, <2>7, <2>8, HostFacts DEF ControlStep
  <2>10. QED
    BY <2>9, ControlStepKeeps
<1>6. QED
  BY <1>4, <1>5 DEF PollEnds, Published

LEMMA ReplacedFields ==
    ASSUME connection \in Connections, connection.replacement # <<>>
    PROVE  /\ Replaced \in Connections
           /\ Replaced.renderer = connection.renderer /\ Replaced.closed = connection.closed
           /\ Replaced.degraded = connection.degraded
           /\ Replaced.subscribed = connection.subscribed
           /\ Replaced.listening = connection.listening
           /\ Replaced.replacing = "no" /\ Replaced.closing = connection.closing
           /\ Replaced.replacement = Tail(connection.replacement)
<1> DEFINE old == connection.replacement
           new == Tail(old)
<1>1. new \in Seq(RendererTargets)
  BY ConnectionFields, HeadTailProperties
<1>2. Replaced = [connection EXCEPT !.replacing = "no", !.replacement = new]
  BY DEF Replaced
<1> HIDE DEF new
<1>3. /\ Replaced \in Connections
      /\ Replaced.renderer = connection.renderer /\ Replaced.closed = connection.closed
      /\ Replaced.degraded = connection.degraded
      /\ Replaced.subscribed = connection.subscribed
      /\ Replaced.listening = connection.listening
      /\ Replaced.replacing = "no" /\ Replaced.closing = connection.closing
      /\ Replaced.replacement = new
  BY <1>1, <1>2 DEF Connections, RendererTargets
<1>4. QED
  BY <1>3 DEF new

(* A connection with a replacement in its chain stays what it is otherwise.  *)
ReplacementGoesOn ==
    /\ RenderersMove /\ LeasesStay
    /\ UNCHANGED <<environment, leases, process, instance, runtime>>
    /\ connection.replacement # <<>>
    /\ connection' \in Connections /\ connection'.closed = connection.closed
    /\ connection'.closing = connection.closing
    /\ connection'.degraded \/ connection'.degraded = connection.degraded
    /\ ~connection'.subscribed \/ connection'.subscribed = connection.subscribed
    /\ connection'.degraded => connection.degraded \/ ~connection'.subscribed
    /\ connection'.renderer = connection.renderer
    /\ \/ connection'.replacing = "no"
       \/ /\ connection'.replacing = "closing"
          /\ connection'.replacement = connection.replacement
          /\ Head(connection.replacement) # None
    /\ FailedSince

LEMMA ReplacementGoesOnStep ==
    ASSUME HostInv, ReplacementGoesOn
    PROVE  HostInv'
<1>1. /\ connection.renderer \in DOMAIN renderers /\ connection.renderer # 0
      /\ connection.closing \in {"no", "replacing"} /\ runtime.phase # "attaching"
      /\ runtime.phase # "standalone" /\ ~runtime.closed
  BY ConnectionFacts DEF ReplacementGoesOn
<1>2. /\ Newest' = Newest /\ DOMAIN renderers' = DOMAIN renderers
  BY HostFacts, RenderersMoveDomain DEF ReplacementGoesOn
<1>3. runtime' = runtime /\ polled' = polled
  BY DEF ReplacementGoesOn, instance
<1>4. AttachInv'
  BY <1>1, <1>2, <1>3 DEF HostInv, AttachInv, ReplacementGoesOn
<1>5. ReplacementInv'
  BY DEF ReplacementInv, ReplacementGoesOn
<1>6. CloseInv'
  BY <1>1, <1>3, HostFacts, ConnectionFields DEF HostInv, CloseInv, ReplacementGoesOn
<1>7. SessionInv'
  <2>1. ASSUME NEW r \in DOMAIN renderers, IsLive(r)'
        PROVE  r = connection.renderer
    <3>1. IsLive(r)
      BY <2>1 DEF ReplacementGoesOn, RenderersMove, MovesOn, Moves, IsLive
    <3>2. r = connection.renderer \/ r = Newest
      BY <1>1, <3>1 DEF HostInv, SessionInv
    <3>3. renderers[r].stage # "failed"
      BY <3>1, HostFacts DEF RendererIsSound, IsLive, Live
    <3>4. connection.renderer <= Newest /\ connection.renderer \in Nat /\ Newest \in Nat
      BY HostFacts, HostTypes, ConnectionFields DEF HostInv, AttachInv
    <3>5. QED
      BY <3>2, <3>3, <3>4 DEF ReplacementGoesOn, FailedSince
  <2>2. QED
    BY <1>1, <1>2, <1>3, <2>1 DEF SessionInv, ReplacementGoesOn, IsOver
<1>8. ControlStep
  BY <1>4, <1>5, <1>6, <1>7, HostFacts DEF ControlStep, ReplacementGoesOn, environment, instance
<1>9. QED
  BY <1>8, ControlStepKeeps

LEMMA ReplaceStartsStep ==
    ASSUME HostInv, ReplaceStarts
    PROVE  HostInv'
<1>1. /\ connection.replacement # <<>> /\ connection.replacing = "no"
      /\ UNCHANGED <<environment, leases, process, instance, runtime>>
  BY DEF ReplaceStarts
<1>2. /\ connection.renderer \in DOMAIN renderers /\ connection \in Connections
      /\ FailedSince
  BY <1>1, HostFacts, ConnectionFacts, NoneConnecting
<1>3. CASE IsGivenUp /\ connection' = Replaced /\ renderers' = renderers
  <2>1. ReplacementGoesOn
    BY <1>1, <1>2, <1>3, ReplacedFields, ConnectionFields, UnchangedRenderers
       DEF ReplacementGoesOn
  <2>2. QED
    BY <2>1, ReplacementGoesOnStep
<1>4. CASE connection' = Degraded(Replaced) /\ StartClose(connection.renderer)
  <2> DEFINE c == Replaced
  <2>1. /\ c \in Connections /\ c.renderer = connection.renderer
        /\ c.closed = connection.closed /\ c.closing = connection.closing
        /\ c.replacing = "no"
    BY <1>1, <1>2, ReplacedFields
  <2> HIDE DEF c
  <2>2. connection' = Degraded(c)
    BY <1>4 DEF c
  <2>3. /\ connection' \in Connections /\ connection'.renderer = connection.renderer
        /\ connection'.closed = connection.closed
        /\ connection'.closing = connection.closing
        /\ connection'.degraded = TRUE /\ connection'.subscribed = FALSE
        /\ connection'.replacing = "no"
    BY <2>1, <2>2, DegradedFields
  <2>4. ReplacementGoesOn
    BY <1>1, <1>2, <1>4, <2>3, HostFacts, StartCloseMoves DEF ReplacementGoesOn
  <2>5. QED
    BY <2>4, ReplacementGoesOnStep
<1>5. CASE /\ Head(connection.replacement) # None
           /\ connection' = [Following("closing") EXCEPT !.listening = FALSE]
           /\ StartClose(connection.renderer)
  <2>1. /\ connection' \in Connections /\ connection'.renderer = connection.renderer
        /\ connection'.closed = connection.closed
        /\ connection'.closing = connection.closing
        /\ connection'.degraded = connection.degraded
        /\ connection'.subscribed = connection.subscribed
        /\ connection'.replacing = "closing"
        /\ connection'.replacement = connection.replacement
    BY <1>2, <1>5 DEF Following, Connections
  <2>2. ReplacementGoesOn
    BY <1>1, <1>2, <1>5, <2>1, HostFacts, ConnectionFields, StartCloseMoves
       DEF ReplacementGoesOn
  <2>3. QED
    BY <2>2, ReplacementGoesOnStep
<1>6. QED
  BY <1>3, <1>4, <1>5 DEF ReplaceStarts

(* A new renderer is connected.                                              *)
LEMMA ConnectFacts ==
    ASSUME HostInv, NEW t \in Targets, Connect(t), leases' = leases
    PROVE  /\ renderers' \in Seq(Renderers) /\ Newest' = Newest + 1
           /\ DOMAIN renderers' = DOMAIN renderers \cup {Newest + 1}
           /\ \A r \in DOMAIN renderers : renderers'[r] = renderers[r]
           /\ renderers'[Newest + 1].target = t
           /\ renderers'[Newest + 1].stage = "acquiring"
           /\ RenderersAreSound' /\ LeasesAreCounted' /\ BypassInv'
<1> DEFINE session == IF process = "exited" THEN "dropped" ELSE "open"
           x == Connecting(t)
<1>1. /\ x.target = t /\ x.session = session /\ x.bridge = FALSE /\ x.stage = "acquiring"
      /\ x.refresh = "none" /\ x.queued = 0 /\ x.lease = FALSE
      /\ x \in Renderers /\ session \in {"open", "dropped"}
  BY DEF Connecting, Renderers, Stages
<1> HIDE DEF session
<1>2. RendererIsSound(x) /\ ~Exposed(x)
  BY <1>1 DEF RendererIsSound, Live, Exposed, IsInPlace
<1> HIDE DEF x
<1>3. /\ renderers \in Seq(Renderers) /\ DOMAIN renderers = 1 .. Newest /\ Newest \in Nat
  BY HostFacts, HostTypes DEF HostTypeOK
<1>4. renderers' = Append(renderers, x)
  BY DEF Connect, x
<1>5. /\ renderers' \in Seq(Renderers) /\ Newest' = Newest + 1
      /\ \A r \in DOMAIN renderers : renderers'[r] = renderers[r]
      /\ renderers'[Newest + 1] = x
  BY <1>1, <1>3, <1>4, AppendProperties DEF Newest
<1>6. DOMAIN renderers' = DOMAIN renderers \cup {Newest + 1}
  <2>1. DOMAIN renderers' = 1 .. Newest'
    BY <1>5, LenProperties DEF Newest
  <2>2. QED
    BY <1>3, <1>5, <2>1
<1>7. RenderersAreSound'
  BY <1>2, <1>5, <1>6, HostFacts DEF RenderersAreSound
<1>8. LeasesAreCounted'
  <2>1. ASSUME NEW u \in Targets
        PROVE  Holders(u)' = Holders(u)
    BY <1>1, <1>3, <1>5, <1>6 DEF Holders
  <2>2. ASSUME NEW u \in Targets
        PROVE  leases'[u] = Cardinality(Holders(u)')
    BY <2>1, HostFacts DEF LeasesAreCounted
  <2>3. QED
    BY <2>2 DEF LeasesAreCounted
<1>9. BypassInv'
  <2>1. SUFFICES ASSUME NEW r \in DOMAIN renderers', Exposed(renderers'[r])
                 PROVE  KeptLease(r)'
    BY DEF BypassInv
  <2>2. r \in DOMAIN renderers
    BY <1>2, <1>5, <1>6, <2>1
  <2>3. KeptLease(r)
    BY <1>5, <2>1, <2>2 DEF HostInv, BypassInv
  <2>4. PICK s \in 1 .. r - 1 :
          renderers[s].target = renderers[r].target /\ renderers[s].lease
    BY <2>3 DEF KeptLease
  <2>5. s \in DOMAIN renderers
    BY <1>3, <2>2
  <2>6. QED
    BY <1>5, <2>2, <2>4, <2>5 DEF KeptLease
<1>10. QED
  BY <1>1, <1>5, <1>6, <1>7, <1>8, <1>9

LEMMA ReplaceConnectsStep ==
    ASSUME HostInv, ReplaceConnects
    PROVE  HostInv'
<1> DEFINE t == Head(connection.replacement)
<1>1. /\ connection.replacing = "closing" /\ HasEnded(connection.renderer)
      /\ UNCHANGED <<environment, leases, process, instance, runtime>>
      /\ Connect(t) /\ connection' = [connection EXCEPT !.replacing = "connecting"]
  BY DEF ReplaceConnects, Following
<1>2. connection.replacement # <<>> /\ t # None
  BY <1>1 DEF HostInv, ReplacementInv
<1>3. t \in Targets
  <2>1. connection.replacement \in Seq(RendererTargets)
    BY HostFacts, ConnectionFields
  <2>2. t \in RendererTargets
    BY <1>2, <2>1, HeadTailProperties
  <2>3. QED
    BY <1>2, <2>2 DEF RendererTargets
<1> HIDE DEF t
<1>4. /\ renderers' \in Seq(Renderers) /\ Newest' = Newest + 1
      /\ DOMAIN renderers' = DOMAIN renderers \cup {Newest + 1}
      /\ \A r \in DOMAIN renderers : renderers'[r] = renderers[r]
      /\ renderers'[Newest + 1].target = t
      /\ RenderersAreSound' /\ LeasesAreCounted' /\ BypassInv'
  BY <1>1, <1>3, ConnectFacts
<1>5. /\ connection' \in Connections /\ connection'.renderer = connection.renderer
      /\ connection'.closed = connection.closed /\ connection'.closing = connection.closing
      /\ connection'.degraded = connection.degraded
      /\ connection'.subscribed = connection.subscribed
      /\ connection'.replacing = "connecting"
      /\ connection'.replacement = connection.replacement
  BY <1>1, HostFacts DEF Connections
<1>6. /\ connection.renderer # 0 /\ connection.closing \in {"no", "replacing"}
      /\ connection.renderer \in DOMAIN renderers /\ runtime.phase # "attaching"
      /\ runtime.phase # "standalone" /\ ~runtime.closed
      /\ DOMAIN renderers = 1 .. Newest /\ Newest \in Nat
  BY <1>1, HostFacts, HostTypes, ConnectionFacts
<1>7. ~IsLive(connection.renderer) /\ renderers[connection.renderer].stage \in Ended
  BY <1>1, <1>6, HostFacts DEF HasEnded, RendererIsSound, IsLive, Live, Ended
<1>8. runtime' = runtime /\ polled' = polled
  BY <1>1 DEF instance
<1>9. AttachInv'
  BY <1>4, <1>5, <1>6, <1>8 DEF AttachInv
<1>10. ReplacementInv'
  BY <1>2, <1>4, <1>5, <1>6, <1>7 DEF ReplacementInv, Current, IsLive, t
<1>11. CloseInv'
  BY <1>5, <1>6, <1>8, HostFacts, ConnectionFields DEF HostInv, CloseInv
<1>12. SessionInv'
  <2>1. \A r \in DOMAIN renderers : ~IsLive(r)
    BY <1>1, <1>6, <1>7 DEF HostInv, SessionInv, IsLive
  <2>2. QED
    BY <1>4, <1>5, <1>6, <1>8, <2>1 DEF SessionInv, IsLive, IsOver
<1>13. HostTypeOK'
  BY <1>1, <1>4, <1>5, HostFacts DEF HostTypeOK, environment, instance
<1>14. OrderInv'
  <2>1. /\ OrderInv /\ FailedSince /\ connection.renderer \in Nat
    BY <1>1, <1>6, NoneConnecting DEF HostInv
  <2>2. connection'.renderer # 0 /\ Current'.stage \in Taken
    BY <1>4, <1>5, <1>6, <2>1 DEF OrderInv, Current
  <2>3. \A r \in DOMAIN renderers' :
          r > connection'.renderer /\ renderers'[r].stage # "failed" => r = Newest'
    BY <1>4, <1>5, <2>1 DEF FailedSince
  <2>4. ASSUME NEW r \in DOMAIN renderers', NEW s \in DOMAIN renderers',
               s < r, renderers'[r].stage # "failed"
        PROVE  renderers'[s].stage \in Ended
    <3>1. CASE r \in DOMAIN renderers
      <4>1. s \in DOMAIN renderers
        BY <1>4, <1>6, <2>4, <3>1
      <4>2. QED
        BY <1>4, <2>1, <2>4, <3>1, <4>1 DEF OrderInv
    <3>2. CASE r = Newest + 1
      <4>1. s \in DOMAIN renderers
        BY <1>4, <1>6, <2>4, <3>2
      <4>2. renderers[connection.renderer].stage # "failed"
        BY <1>1 DEF HasEnded
      <4>3. CASE s < connection.renderer
        BY <1>4, <1>6, <2>1, <4>1, <4>2, <4>3 DEF OrderInv
      <4>4. CASE s = connection.renderer
        BY <1>4, <1>7, <4>1, <4>4
      <4>5. CASE s > connection.renderer
        BY <1>4, <2>1, <4>1, <4>5 DEF FailedSince, Ended
      <4>6. QED
        BY <1>6, <2>1, <4>1, <4>3, <4>4, <4>5
    <3>3. QED
      BY <1>4, <3>1, <3>2
  <2>5. QED
    BY <1>5, <2>2, <2>3, <2>4 DEF OrderInv
<1>15. QED
  BY <1>4, <1>9, <1>10, <1>11, <1>12, <1>13, <1>14 DEF HostInv

LEMMA ReplaceEndsStep ==
    ASSUME HostInv, ReplaceEnds
    PROVE  HostInv'
<1>1. /\ connection.replacing = "connecting"
      /\ UNCHANGED <<environment, leases, process, instance, runtime>>
  BY DEF ReplaceEnds
<1>2. /\ connection.replacement # <<>> /\ connection.renderer < Newest
      /\ ~IsLive(connection.renderer)
      /\ connection.renderer \in DOMAIN renderers /\ connection \in Connections
      /\ DOMAIN renderers = 1 .. Newest /\ Newest \in DOMAIN renderers
  <2>1. /\ connection.replacement # <<>> /\ connection.renderer < Newest
        /\ ~IsLive(connection.renderer)
    BY <1>1 DEF HostInv, ReplacementInv, Current, IsLive
  <2>2. connection.renderer \in DOMAIN renderers /\ connection \in Connections
    BY <1>1, HostFacts, ConnectionFacts
  <2>3. QED
    BY <2>1, <2>2, HostFacts, HostTypes
<1>3. CASE /\ renderers[Newest].stage = "attached"
           /\ connection' = [Replaced EXCEPT !.renderer = Newest, !.listening = TRUE]
           /\ renderers' = renderers
  <2> DEFINE c == Replaced
             newest == Newest
  <2>1. /\ c \in Connections /\ c.closed = connection.closed
        /\ c.closing = connection.closing /\ c.degraded = connection.degraded
        /\ c.subscribed = connection.subscribed /\ c.replacing = "no"
    BY <1>2, ReplacedFields
  <2>2. newest \in Nat /\ newest # 0 /\ newest \in DOMAIN renderers
    BY <1>2, HostFacts, HostTypes
  <2> HIDE DEF c, newest
  <2>3. connection' = [c EXCEPT !.renderer = newest, !.listening = TRUE]
    BY <1>3 DEF c, newest
  <2>4. /\ connection' \in Connections /\ connection'.renderer = newest
        /\ connection'.closed = connection.closed
        /\ connection'.closing = connection.closing
        /\ connection'.degraded = connection.degraded
        /\ connection'.subscribed = connection.subscribed
        /\ connection'.replacing = "no"
    BY <2>1, <2>2, <2>3 DEF Connections
  <2>5. /\ connection.closing \in {"no", "replacing"} /\ runtime.phase # "attaching"
        /\ runtime.phase # "standalone" /\ ~runtime.closed
    BY <1>1, ConnectionFacts
  <2>6. runtime' = runtime /\ polled' = polled /\ Newest' = newest
    BY <1>1, <1>3 DEF instance, newest, Newest
  <2>7. AttachInv'
    BY <2>2, <2>4, <2>5, <2>6 DEF AttachInv
  <2>8. ReplacementInv'
    BY <2>4 DEF ReplacementInv
  <2>9. CloseInv'
    BY <1>2, <2>4, <2>5, <2>6, ConnectionFields DEF HostInv, CloseInv
  <2>10. SessionInv'
    <3>1. \A r \in DOMAIN renderers : IsLive(r) => r = newest
      BY <1>2, <2>5 DEF HostInv, SessionInv, IsLive, newest
    <3>2. QED
      BY <1>3, <2>4, <2>5, <2>6, <3>1 DEF SessionInv, IsLive, IsOver
  <2>11. OrderInv'
    <3>1. Current'.stage \in Taken
      BY <1>3, <2>4 DEF Current, Taken, newest
    <3>2. \A r \in DOMAIN renderers' : ~(r > connection'.renderer)
      BY <1>2, <1>3, <2>2, <2>4 DEF newest
    <3>3. QED
      BY <1>3, <2>2, <2>4, <3>1, <3>2 DEF HostInv, OrderInv
  <2>12. ControlStep
    BY <1>1, <1>3, <2>4, <2>6, <2>7, <2>8, <2>9, <2>10, <2>11, HostFacts, UnchangedRenderers
       DEF ControlStep, environment, instance
  <2>13. QED
    BY <2>12, ControlStepKeeps
<1>4. CASE renderers[Newest].stage = "failed"
  <2>1. FailedSince
    BY <1>1, <1>4, ConnectionFacts, NoneConnecting
  <2>2. CASE connection' = Replaced /\ renderers' = renderers
    <3>1. ReplacementGoesOn
      BY <1>1, <1>2, <2>1, <2>2, ReplacedFields, ConnectionFields, UnchangedRenderers
         DEF ReplacementGoesOn
    <3>2. QED
      BY <3>1, ReplacementGoesOnStep
  <2>3. CASE connection' = Degraded(Replaced) /\ StartClose(connection.renderer)
    <3> DEFINE c == Replaced
    <3>1. /\ c \in Connections /\ c.renderer = connection.renderer
          /\ c.closed = connection.closed /\ c.closing = connection.closing
          /\ c.replacing = "no"
      BY <1>2, ReplacedFields
    <3> HIDE DEF c
    <3>2. connection' = Degraded(c)
      BY <2>3 DEF c
    <3>3. /\ connection' \in Connections /\ connection'.renderer = connection.renderer
          /\ connection'.closed = connection.closed
          /\ connection'.closing = connection.closing
          /\ connection'.degraded = TRUE /\ connection'.subscribed = FALSE
          /\ connection'.replacing = "no"
      BY <3>1, <3>2, DegradedFields
    <3>4. ReplacementGoesOn
      BY <1>1, <1>2, <2>1, <2>3, <3>3, HostFacts, StartCloseMoves DEF ReplacementGoesOn
    <3>5. QED
      BY <3>4, ReplacementGoesOnStep
  <2>4. QED
    BY <1>4, <2>2, <2>3 DEF ReplaceEnds
<1>5. QED
  BY <1>3, <1>4 DEF ReplaceEnds

LEMMA CloseRendererStep ==
    ASSUME HostInv, CloseRenderer
    PROVE  HostInv'
<1>1. /\ connection.closing = "replacing" /\ NoReplacement
      /\ connection' = [connection EXCEPT !.closing = "closing"]
      /\ StartClose(connection.renderer)
      /\ UNCHANGED <<environment, leases, process, instance, runtime>>
  BY DEF CloseRenderer
<1>2. /\ connection.renderer # 0 /\ connection.renderer \in DOMAIN renderers
      /\ runtime.phase # "attaching" /\ runtime.phase # "standalone" /\ ~runtime.closed
      /\ connection.closed /\ FailedSince
  BY <1>1, ConnectionFacts, NoConnectionFields, NoneConnecting
     DEF HostInv, CloseInv, NoReplacement
<1>3. /\ connection' \in Connections /\ connection'.renderer = connection.renderer
      /\ connection'.closed = connection.closed /\ connection'.closing = "closing"
      /\ connection'.degraded = connection.degraded
      /\ connection'.subscribed = connection.subscribed
      /\ connection'.replacing = connection.replacing
      /\ connection'.replacement = connection.replacement
  BY <1>1, HostFacts DEF Connections
<1>4. /\ RenderersMove /\ LeasesStay
      /\ Newest' = Newest /\ DOMAIN renderers' = DOMAIN renderers
  BY <1>1, <1>2, HostFacts, StartCloseMoves, RenderersMoveDomain
<1>5. runtime' = runtime /\ polled' = polled
  BY <1>1 DEF instance
<1>6. AttachInv'
  BY <1>2, <1>3, <1>4, <1>5 DEF HostInv, AttachInv
<1>7. ReplacementInv'
  BY <1>1, <1>3 DEF ReplacementInv, NoReplacement
<1>8. CloseInv'
  BY <1>1, <1>2, <1>3, <1>5, HostFacts, ConnectionFields DEF HostInv, CloseInv, NoReplacement
<1>9. SessionInv'
  BY <1>2, <1>3, <1>4, <1>5 DEF HostInv, SessionInv, RenderersMove, MovesOn, Moves, IsLive, IsOver
<1>10. ControlStep
  BY <1>1, <1>3, <1>4, <1>6, <1>7, <1>8, <1>9, HostFacts DEF ControlStep, environment, instance
<1>11. QED
  BY <1>10, ControlStepKeeps

LEMMA ConnectionClosesStep ==
    ASSUME HostInv, ConnectionCloses
    PROVE  HostInv'
<1>1. /\ connection.closing = "closing" /\ HasEnded(connection.renderer)
      /\ connection' = [connection EXCEPT !.closing = "done"]
      /\ renderers' = renderers
      /\ UNCHANGED <<environment, leases, process, instance, runtime>>
  BY DEF ConnectionCloses
<1>2. /\ connection.renderer # 0 /\ connection.renderer \in DOMAIN renderers
      /\ runtime.phase # "attaching"
  BY <1>1, ConnectionFacts, NoConnectionFields
<1>3. /\ connection' \in Connections /\ connection'.renderer = connection.renderer
      /\ connection'.closed = connection.closed /\ connection'.closing = "done"
      /\ connection'.degraded = connection.degraded
      /\ connection'.subscribed = connection.subscribed
      /\ connection'.replacing = connection.replacing
      /\ connection'.replacement = connection.replacement
  BY <1>1, HostFacts DEF Connections
<1>4. ~IsLive(connection.renderer)
  BY <1>1, <1>2, HostFacts DEF HasEnded, RendererIsSound, IsLive, Live
<1>5. runtime' = runtime /\ polled' = polled /\ Newest' = Newest
  BY <1>1 DEF instance, Newest
<1>6. AttachInv'
  BY <1>2, <1>3, <1>5 DEF HostInv, AttachInv
<1>7. ReplacementInv'
  BY <1>1, <1>3, <1>5 DEF HostInv, ReplacementInv, Current
<1>8. CloseInv'
  BY <1>1, <1>3, <1>4, <1>5 DEF HostInv, CloseInv, NoReplacement, Current, IsLive
<1>9. SessionInv'
  BY <1>1, <1>3, <1>5 DEF HostInv, SessionInv, IsLive, IsOver
<1>10. ControlStep
  BY <1>1, <1>3, <1>6, <1>7, <1>8, <1>9, HostFacts, UnchangedRenderers
     DEF ControlStep, environment, instance
<1>11. QED
  BY <1>10, ControlStepKeeps

LEMMA RuntimeFields ==
    ASSUME NEW r \in Runtimes
    PROVE  /\ r.phase \in {"attaching", "attached", "falling back", "standalone"}
           /\ r.instance \in {"open", "closing", "closed"}
           /\ r.closing \in BOOLEAN /\ r.closed \in BOOLEAN
  BY DEF Runtimes

LEMMA ClosedInstanceFields ==
    ASSUME NEW r \in Runtimes
    PROVE  /\ ClosedInstance(r) \in Runtimes /\ ClosedInstance(r).phase = r.phase
           /\ ClosedInstance(r).closing = r.closing /\ ClosedInstance(r).closed = r.closed
           /\ ClosedInstance(r).instance # "open"
<1> DEFINE i == IF r.instance = "open" THEN "closing" ELSE r.instance
<1>1. i \in {"open", "closing", "closed"} /\ i # "open"
  BY RuntimeFields
<1>2. ClosedInstance(r) = [r EXCEPT !.instance = i]
  BY DEF ClosedInstance
<1> HIDE DEF i
<1>3. QED
  BY <1>1, <1>2 DEF Runtimes

LEMMA ClosedConnectionFields ==
    ASSUME NEW c \in Connections
    PROVE  /\ ClosedConnection(c) \in Connections
           /\ ClosedConnection(c).renderer = c.renderer
           /\ ClosedConnection(c).closed = TRUE /\ ClosedConnection(c).degraded = c.degraded
           /\ ClosedConnection(c).subscribed = FALSE
           /\ ClosedConnection(c).replacement = c.replacement
           /\ ClosedConnection(c).replacing = c.replacing
           /\ c.closing = "no" => ClosedConnection(c).closing = "replacing"
           /\ c.closing # "no" => ClosedConnection(c).closing = c.closing
<1> DEFINE i == IF c.closing = "no" THEN "replacing" ELSE c.closing
<1>1. i \in {"no", "replacing", "closing", "done"}
  BY ConnectionFields
<1>2. ClosedConnection(c) = [c EXCEPT !.closed = TRUE, !.subscribed = FALSE,
                                      !.listening = FALSE, !.closing = i]
  BY DEF ClosedConnection
<1> HIDE DEF i
<1>3. /\ ClosedConnection(c) \in Connections
      /\ ClosedConnection(c).renderer = c.renderer
      /\ ClosedConnection(c).closed = TRUE /\ ClosedConnection(c).degraded = c.degraded
      /\ ClosedConnection(c).subscribed = FALSE
      /\ ClosedConnection(c).replacement = c.replacement
      /\ ClosedConnection(c).replacing = c.replacing
      /\ ClosedConnection(c).closing = i
  BY <1>1, <1>2 DEF Connections
<1>4. QED
  BY <1>3 DEF i

LEMMA TerminatedType ==
    ASSUME HostInv
    PROVE  Terminated \in {"running", "terminating", "exited"}
  BY HostFacts DEF Terminated

LEMMA AttachStep ==
    ASSUME HostInv, Attach
    PROVE  HostInv'
<1>1. /\ runtime.phase = "attaching" /\ runtime.instance = "open" /\ renderers = <<>>
      /\ lastTarget' = listed /\ UNCHANGED <<environment, leases, missing, polled, connection>>
  BY DEF Attach
<1>2. /\ connection = NoConnection /\ polled = "none" /\ ~runtime.closing /\ ~runtime.closed
  BY <1>1 DEF HostInv, AttachInv
<1>3. Newest = 0 /\ DOMAIN renderers = {}
  <2>1. Newest = 0
    BY <1>1, EmptySeq DEF Newest
  <2>2. QED
    BY <2>1, HostFacts, HostTypes
<1>4. CASE listed # None /\ Connect(listed) /\ UNCHANGED <<process, runtime>>
  <2>1. listed \in Targets
    BY <1>4, HostFacts
  <2>2. /\ renderers' \in Seq(Renderers) /\ Newest' = 1 /\ DOMAIN renderers' = {1}
        /\ RenderersAreSound' /\ LeasesAreCounted' /\ BypassInv'
    BY <1>1, <1>3, <1>4, <2>1, ConnectFacts
  <2>3. AttachInv'
    BY <1>1, <1>2, <1>4, <2>2, NoConnectionFields DEF AttachInv
  <2>4. ReplacementInv' /\ CloseInv'
    BY <1>1, <1>2, <1>4, NoConnectionFields DEF ReplacementInv, CloseInv, NoReplacement
  <2>5. SessionInv'
    BY <1>1, <1>2, <1>4, <2>2 DEF SessionInv, IsOver
  <2>6. HostTypeOK'
    BY <1>1, <1>4, <2>2, HostFacts DEF HostTypeOK, environment
  <2>7. OrderInv'
    BY <1>1, <1>2, <2>2, NoConnectionFields DEF OrderInv
  <2>8. QED
    BY <2>2, <2>3, <2>4, <2>5, <2>6, <2>7 DEF HostInv
<1>5. CASE /\ process' = Terminated
           /\ runtime' = ClosedInstance(runtime)
           /\ renderers' = renderers
  <2>1. /\ runtime' \in Runtimes /\ runtime'.phase = "attaching"
        /\ runtime'.closing = runtime.closing /\ runtime'.closed = runtime.closed
    BY <1>1, <1>5, HostFacts, ClosedInstanceFields
  <2>2. Newest' = Newest
    BY <1>5 DEF Newest
  <2>3. AttachInv'
    BY <1>1, <1>2, <1>3, <2>1, <2>2, NoConnectionFields DEF AttachInv
  <2>4. ReplacementInv' /\ CloseInv'
    BY <1>1, <1>2, <2>1, NoConnectionFields DEF ReplacementInv, CloseInv, NoReplacement
  <2>5. SessionInv'
    BY <1>3, <1>5 DEF SessionInv
  <2>6. ControlStep
    BY <1>1, <1>5, <2>1, <2>3, <2>4, <2>5, HostFacts, UnchangedRenderers, TerminatedType
       DEF ControlStep, environment
  <2>7. QED
    BY <2>6, ControlStepKeeps
<1>6. QED
  BY <1>4, <1>5 DEF Attach

LEMMA AttachEndsStep ==
    ASSUME HostInv, AttachEnds
    PROVE  HostInv'
<1>1. /\ runtime.phase = "attaching" /\ runtime.instance = "open" /\ renderers # <<>>
      /\ renderers' = renderers /\ UNCHANGED <<environment, leases, instance>>
  BY DEF AttachEnds
<1>2. /\ connection = NoConnection /\ polled = "none" /\ ~runtime.closing /\ ~runtime.closed
      /\ Newest <= 1
  BY <1>1 DEF HostInv, AttachInv
<1>3. Newest = 1 /\ DOMAIN renderers = {1} /\ Newest' = 1
  <2>1. Newest \in Nat \ {0}
    BY <1>1, HostFacts, EmptySeq DEF HostTypeOK, Newest
  <2>2. Newest = 1
    BY <1>2, <2>1
  <2>3. QED
    BY <1>1, <2>2, HostFacts, HostTypes DEF Newest
<1>4. CASE /\ renderers[1].stage = "attached"
           /\ connection' = [connection EXCEPT !.renderer = 1,
                                !.subscribed = TRUE, !.listening = TRUE]
           /\ runtime' = [runtime EXCEPT !.phase = "attached"]
           /\ UNCHANGED process
  <2>1. /\ runtime' \in Runtimes /\ runtime'.phase = "attached"
        /\ runtime'.closing = runtime.closing /\ runtime'.closed = runtime.closed
    BY <1>4, HostFacts DEF Runtimes
  <2>2. /\ connection' \in Connections /\ connection'.renderer = 1
        /\ connection'.closed = FALSE /\ connection'.degraded = FALSE
        /\ connection'.replacing = "no" /\ connection'.closing = "no"
    BY <1>2, <1>4, NoConnectionFields DEF Connections
  <2>3. AttachInv'
    BY <1>3, <2>1, <2>2 DEF AttachInv
  <2>4. ReplacementInv' /\ CloseInv'
    BY <1>2, <2>1, <2>2 DEF ReplacementInv, CloseInv
  <2>5. SessionInv'
    BY <1>1, <1>2, <1>3, <2>1, <2>2 DEF SessionInv, IsOver
  <2>6. OrderInv'
    BY <1>1, <1>3, <1>4, <2>2 DEF OrderInv, Current, Taken
  <2>7. ControlStep
    BY <1>1, <1>4, <2>1, <2>2, <2>3, <2>4, <2>5, <2>6, HostFacts, UnchangedRenderers
       DEF ControlStep, environment, instance
  <2>8. QED
    BY <2>7, ControlStepKeeps
<1>5. CASE /\ renderers[1].stage = "failed"
           /\ process' = Terminated
           /\ runtime' = ClosedInstance(runtime)
           /\ UNCHANGED connection
  <2>1. /\ runtime' \in Runtimes /\ runtime'.phase = "attaching"
        /\ runtime'.closing = runtime.closing /\ runtime'.closed = runtime.closed
    BY <1>1, <1>5, HostFacts, ClosedInstanceFields
  <2>2. ~IsLive(1)
    BY <1>3, <1>5, HostFacts DEF RendererIsSound, IsLive, Live
  <2>3. AttachInv'
    BY <1>1, <1>2, <1>3, <1>5, <2>1, NoConnectionFields DEF AttachInv, instance
  <2>4. ReplacementInv' /\ CloseInv'
    BY <1>2, <1>5, <2>1, NoConnectionFields DEF ReplacementInv, CloseInv, NoReplacement
  <2>5. SessionInv'
    BY <1>1, <1>3, <2>2 DEF SessionInv, IsLive
  <2>6. ControlStep
    BY <1>1, <1>5, <2>1, <2>3, <2>4, <2>5, HostFacts, UnchangedRenderers, TerminatedType
       DEF ControlStep, environment, instance
  <2>7. QED
    BY <2>6, ControlStepKeeps
<1>6. QED
  BY <1>4, <1>5 DEF AttachEnds

(* Steps in which the connection keeps its renderer and its replacements.    *)
LEMMA DegradeEndsStep ==
    ASSUME HostInv, DegradeEnds
    PROVE  HostInv'
<1>1. /\ connection.degrading = "closing" /\ renderers' = renderers
      /\ UNCHANGED <<environment, leases, instance>>
  BY DEF DegradeEnds
<1>2. connection.renderer # 0 /\ runtime.phase # "attaching"
  BY <1>1, ConnectionFacts, NoConnectionFields
<1> DEFINE c == [connection EXCEPT !.degrading = "published"]
<1>3. /\ c \in Connections /\ c.renderer = connection.renderer
      /\ c.closed = connection.closed /\ c.closing = connection.closing
      /\ c.degraded = connection.degraded /\ c.subscribed = connection.subscribed
      /\ c.replacing = connection.replacing /\ c.replacement = connection.replacement
  BY HostFacts DEF Connections
<1> HIDE DEF c
<1>4. Newest' = Newest /\ polled' = polled
  BY <1>1 DEF instance, Newest
<1>5. CASE connection' = c /\ UNCHANGED <<process, runtime>>
  <2>1. AttachInv'
    BY <1>2, <1>3, <1>4, <1>5 DEF HostInv, AttachInv
  <2>2. ReplacementInv'
    BY <1>1, <1>3, <1>4, <1>5 DEF HostInv, ReplacementInv, Current
  <2>3. CloseInv'
    BY <1>1, <1>2, <1>3, <1>5, NoConnectionFields
       DEF HostInv, CloseInv, NoReplacement, Current
  <2>4. SessionInv'
    BY <1>1, <1>3, <1>4, <1>5 DEF HostInv, SessionInv, IsLive, IsOver
  <2>5. ControlStep
    BY <1>1, <1>3, <1>5, <2>1, <2>2, <2>3, <2>4, HostFacts, UnchangedRenderers
       DEF ControlStep, environment, instance
  <2>6. QED
    BY <2>5, ControlStepKeeps
<1>6. CASE /\ ~runtime.closing /\ connection.closing # "done"
           /\ connection' = ClosedConnection(c)
           /\ process' = Terminated
           /\ runtime' = [ClosedInstance(runtime) EXCEPT !.phase = "falling back"]
  <2>1. /\ connection' \in Connections /\ connection'.renderer = connection.renderer
        /\ connection'.closed = TRUE /\ connection'.subscribed = FALSE
        /\ connection'.replacing = connection.replacing
        /\ connection'.replacement = connection.replacement
        /\ connection'.closing = connection.closing
             \/ (connection.closing = "no" /\ connection'.closing = "replacing")
        /\ connection'.closing # "no"
    BY <1>3, <1>6, ClosedConnectionFields
  <2>2. /\ ClosedInstance(runtime) \in Runtimes
        /\ ClosedInstance(runtime).closed = runtime.closed
    BY HostFacts, ClosedInstanceFields
  <2>3. /\ runtime' \in Runtimes /\ runtime'.phase = "falling back"
        /\ runtime'.closed = runtime.closed
    BY <1>6, <2>2 DEF Runtimes
  <2>4. ~runtime.closed
    BY <1>6 DEF HostInv, CloseInv
  <2>5. AttachInv'
    BY <1>2, <1>4, <2>1, <2>3 DEF HostInv, AttachInv
  <2>6. ReplacementInv'
    BY <1>1, <1>4, <2>1 DEF HostInv, ReplacementInv, Current
  <2>7. CloseInv'
    BY <1>6, <2>1, <2>3, <2>4 DEF HostInv, CloseInv, NoReplacement
  <2>8. SessionInv'
    BY <1>1, <1>2, <1>4, <2>1, <2>3, <2>4 DEF HostInv, SessionInv, IsLive, IsOver
  <2>9. ControlStep
    BY <1>1, <1>6, <2>1, <2>3, <2>5, <2>6, <2>7, <2>8, HostFacts, UnchangedRenderers,
       TerminatedType
       DEF ControlStep, environment, instance
  <2>10. QED
    BY <2>9, ControlStepKeeps
<1>7. QED
  BY <1>5, <1>6 DEF DegradeEnds, c

(* Where the connection is closed and no replacement is under way, there is  *)
(* no session.                                                               *)
LEMMA ClosedLeavesNoSession ==
    ASSUME HostInv, connection.closing = "done"
    PROVE  /\ \A r \in DOMAIN renderers : ~IsLive(r)
           /\ runtime.phase # "attaching"
<1>1. connection.renderer # 0 /\ runtime.phase # "attaching"
  BY ConnectionFacts, NoConnectionFields
<1>2. connection.replacing = "no" /\ ~IsLive(connection.renderer)
  BY DEF HostInv, CloseInv, NoReplacement, Current, IsLive
<1>3. QED
  BY <1>1, <1>2 DEF HostInv, SessionInv, IsLive

(* Steps of the runtime alone.                                               *)
LEMMA RuntimeStep ==
    ASSUME HostInv, runtime' \in Runtimes, AttachInv', CloseInv', SessionInv',
           UNCHANGED <<environment, renderers, leases, process, instance, connection>>
    PROVE  HostInv'
<1>1. ReplacementInv'
  BY DEF HostInv, ReplacementInv, Current, Newest
<1>2. ControlStep
  BY <1>1, HostFacts, UnchangedRenderers DEF ControlStep, environment, instance
<1>3. QED
  BY <1>2, ControlStepKeeps

LEMMA InstanceClosesStep ==
    ASSUME HostInv, InstanceCloses
    PROVE  HostInv'
<1>1. /\ runtime.instance = "closing"
      /\ runtime' = [runtime EXCEPT !.instance = "closed"]
      /\ UNCHANGED <<environment, renderers, leases, process, instance, connection>>
  BY DEF InstanceCloses
<1>2. /\ runtime' \in Runtimes /\ runtime'.phase = runtime.phase
      /\ runtime'.closing = runtime.closing /\ runtime'.closed = runtime.closed
  BY <1>1, HostFacts DEF Runtimes
<1>3. AttachInv' /\ CloseInv' /\ SessionInv'
  BY <1>1, <1>2 DEF HostInv, AttachInv, CloseInv, SessionInv, NoReplacement, Current,
                    Newest, IsLive, IsOver, instance
<1>4. QED
  BY <1>1, <1>2, <1>3, RuntimeStep

LEMMA FallbackEndsStep ==
    ASSUME HostInv, FallbackEnds
    PROVE  HostInv'
<1>1. /\ runtime.instance = "closed"
      /\ runtime' = [runtime EXCEPT !.phase = "standalone"]
      /\ UNCHANGED <<environment, renderers, leases, process, instance, connection>>
      /\ \/ runtime.phase = "falling back" /\ connection.closing = "done"
         \/ runtime.phase = "attaching"
  BY DEF FallbackEnds
<1>2. /\ runtime' \in Runtimes /\ runtime'.phase = "standalone"
      /\ runtime'.closing = runtime.closing /\ runtime'.closed = runtime.closed
  BY <1>1, HostFacts DEF Runtimes
<1>3. \A r \in DOMAIN renderers : ~IsLive(r)
  BY <1>1, ClosedLeavesNoSession DEF HostInv, SessionInv
<1>4. connection = NoConnection \/ connection.closing = "done"
  BY <1>1 DEF HostInv, AttachInv
<1>5. AttachInv'
  BY <1>1, <1>2 DEF HostInv, AttachInv, Newest
<1>6. CloseInv'
  BY <1>1, <1>2, <1>4 DEF HostInv, CloseInv, NoReplacement, Current
<1>7. SessionInv'
  BY <1>1, <1>3 DEF SessionInv, IsLive
<1>8. QED
  BY <1>1, <1>2, <1>5, <1>6, <1>7, RuntimeStep

LEMMA ClosesStep ==
    ASSUME HostInv, Closes
    PROVE  HostInv'
<1>1. /\ runtime.closing
      /\ runtime' = [runtime EXCEPT !.closed = TRUE]
      /\ UNCHANGED <<environment, renderers, leases, process, instance, connection>>
      /\ \/ runtime.phase = "attached" /\ connection.closing = "done"
         \/ runtime.phase = "standalone"
  BY DEF Closes
<1>2. /\ runtime' \in Runtimes /\ runtime'.phase = runtime.phase
      /\ runtime'.closing = runtime.closing /\ runtime'.closed = TRUE
  BY <1>1, HostFacts DEF Runtimes
<1>3. \A r \in DOMAIN renderers : ~IsLive(r)
  BY <1>1, ClosedLeavesNoSession DEF HostInv, SessionInv, IsOver
<1>4. AttachInv'
  BY <1>1, <1>2 DEF HostInv, AttachInv, Newest
<1>5. CloseInv'
  BY <1>1, <1>2 DEF HostInv, CloseInv, NoReplacement, Current
<1>6. SessionInv'
  BY <1>1, <1>3 DEF SessionInv, IsLive
<1>7. QED
  BY <1>1, <1>2, <1>4, <1>5, <1>6, RuntimeStep

LEMMA CloseStep ==
    ASSUME HostInv, Close
    PROVE  HostInv'
<1>1. /\ ~runtime.closing /\ runtime.phase # "attaching" /\ renderers' = renderers
      /\ UNCHANGED <<environment, leases, instance>>
  BY DEF Close
<1>2. ~runtime.closed
  BY <1>1 DEF HostInv, CloseInv
<1>3. CASE /\ runtime.phase = "attached"
           /\ connection' = ClosedConnection(connection)
           /\ process' = Terminated
           /\ runtime' = [ClosedInstance(runtime) EXCEPT !.closing = TRUE]
  <2>1. connection.renderer # 0
    BY <1>3 DEF HostInv, AttachInv
  <2>2. /\ connection' \in Connections /\ connection'.renderer = connection.renderer
        /\ connection'.closed = TRUE /\ connection'.subscribed = FALSE
        /\ connection'.replacing = connection.replacing
        /\ connection'.replacement = connection.replacement
        /\ connection'.closing = connection.closing
             \/ (connection.closing = "no" /\ connection'.closing = "replacing")
        /\ connection'.closing # "no"
    <3>1. connection \in Connections
      BY HostFacts
    <3>2. connection' = ClosedConnection(connection)
      BY <1>3
    <3>3. QED
      BY <3>1, <3>2, ClosedConnectionFields
  <2>3. /\ ClosedInstance(runtime) \in Runtimes
        /\ ClosedInstance(runtime).closed = runtime.closed
        /\ ClosedInstance(runtime).phase = runtime.phase
    BY HostFacts, ClosedInstanceFields
  <2>4. /\ runtime' \in Runtimes /\ runtime'.phase = "attached"
        /\ runtime'.closed = runtime.closed
    BY <1>3, <2>3 DEF Runtimes
  <2>5. Newest' = Newest /\ polled' = polled
    BY <1>1 DEF Newest, instance
  <2>6. AttachInv'
    BY <2>1, <2>2, <2>4, <2>5 DEF HostInv, AttachInv
  <2>7. ReplacementInv'
    BY <1>1, <2>2, <2>5 DEF HostInv, ReplacementInv, Current
  <2>8. CloseInv'
    BY <1>1, <1>2, <2>2, <2>4 DEF HostInv, CloseInv, NoReplacement, Current
  <2>9. SessionInv'
    BY <1>1, <1>2, <2>2, <2>4, <2>5 DEF HostInv, SessionInv, IsLive, IsOver
  <2>10. ControlStep
    BY <1>1, <1>3, <2>2, <2>4, <2>6, <2>7, <2>8, <2>9, HostFacts, UnchangedRenderers,
       TerminatedType
       DEF ControlStep, environment, instance
  <2>11. QED
    BY <2>10, ControlStepKeeps
<1>4. CASE /\ runtime' = [runtime EXCEPT !.closing = TRUE]
           /\ UNCHANGED <<connection, process>>
  <2>1. /\ runtime' \in Runtimes /\ runtime'.phase = runtime.phase
        /\ runtime'.closing = TRUE /\ runtime'.closed = runtime.closed
    BY <1>4, HostFacts DEF Runtimes
  <2>2. AttachInv'
    BY <1>1, <1>4, <2>1 DEF HostInv, AttachInv, Newest
  <2>3. CloseInv' /\ SessionInv'
    BY <1>1, <1>4, <2>1
       DEF HostInv, CloseInv, SessionInv, NoReplacement, Current, Newest, IsLive, IsOver
  <2>4. QED
    BY <1>1, <1>4, <2>1, <2>2, <2>3, RuntimeStep
<1>5. QED
  BY <1>3, <1>4 DEF Close

-----------------------------------------------------------------------------
(* The theorems.                                                             *)

LEMMA HostStarts ==
    ASSUME HostInit
    PROVE  HostInv
<1>1. /\ renderers = <<>> /\ connection = NoConnection /\ polled = "none"
      /\ runtime = [phase |-> "attaching", instance |-> "open",
                    closing |-> FALSE, closed |-> FALSE]
      /\ leases = [t \in Targets |-> 0]
  BY DEF HostInit
<1>2. renderers \in Seq(Renderers) /\ Newest = 0 /\ DOMAIN renderers = {}
  BY <1>1, EmptySeq, LenProperties DEF Newest
<1>3. HostTypeOK
  <2>1. runtime \in Runtimes /\ connection \in Connections
    BY <1>1, NoConnectionFields DEF Runtimes
  <2>2. leases \in [Targets -> Nat]
    BY <1>1
  <2>3. missing \in 0 .. MaxMissing
    BY HostAssumption DEF HostInit
  <2>4. QED
    BY <1>2, <2>1, <2>2, <2>3, HostAssumption DEF HostInit, HostTypeOK
<1>4. LeasesAreCounted
  <2>1. \A t \in Targets : Holders(t) = {}
    BY <1>2 DEF Holders
  <2>2. SUFFICES ASSUME NEW t \in Targets
                 PROVE  leases[t] = Cardinality(Holders(t))
    BY DEF LeasesAreCounted
  <2>3. Cardinality(Holders(t)) = 0
    <3>1. Holders(t) = {}
      BY <2>1
    <3>2. QED
      BY <3>1, FS_EmptySet, Zenon
  <2>4. leases[t] = 0
    BY <1>1
  <2>5. QED
    BY <2>3, <2>4
<1>5. /\ AttachInv /\ ReplacementInv /\ CloseInv /\ SessionInv /\ RenderersAreSound
      /\ OrderInv /\ BypassInv
  BY <1>1, <1>2, NoConnectionFields
     DEF AttachInv, ReplacementInv, CloseInv, SessionInv, RenderersAreSound, IsOver,
         OrderInv, BypassInv
<1>6. QED
  BY <1>3, <1>4, <1>5 DEF HostInv

LEMMA HostStep ==
    ASSUME HostInv, [HostNext]_hostVars
    PROVE  HostInv'
<1>1. CASE Proceeds
  <2>1. ASSUME NEW r \in DOMAIN renderers, RendererActs(r)
        PROVE  HostInv'
    BY <2>1, AcquireLeaseStep, InstallStep, ReinstallStartsStep, ReinstallBypassesStep,
       ReinstallMountsStep, ReinstallRetriesStep, ReinstallFailsStep, CloseBridgeStep,
       CloseSessionStep DEF RendererActs
  <2>2. QED
    BY <1>1, <2>1, ReplaceStartsStep, ReplaceConnectsStep, ReplaceEndsStep,
       CloseRendererStep, ConnectionClosesStep, DegradeEndsStep, AttachStep,
       AttachEndsStep, InstanceClosesStep, FallbackEndsStep, ClosesStep
       DEF Proceeds, Replaces
<1>2. CASE Polls
  BY <1>2, PollReadsStep, PollEndsStep DEF Polls
<1>3. CASE Environment
  BY <1>3, TargetChangesStep, SessionDropsStep, PageLeavesProjectStep, PageReloadsStep,
     ProcessExitsStep DEF Environment
<1>4. CASE UNCHANGED hostVars
  <2>1. PlainStep
    BY <1>4, HostFacts, UnchangedRenderers
       DEF hostVars, PlainStep, ConnectionStays, environment, instance
  <2>2. QED
    BY <2>1, PlainStepKeeps
<1>5. QED
  BY <1>1, <1>2, <1>3, <1>4, CloseStep DEF HostNext

(* The invariant of the dedicated host, for any set of pages: what the stage *)
(* of a renderer says of its session, lease and bridge, also where Codex     *)
(* refuses to release a lease; that the leases counted for a page are those  *)
(* its renderers have; what connection and runtime have given up; the order  *)
(* in which renderers follow one another (csp-bypass.ts:38-91,               *)
(* remote-renderer.ts:57-262, dedicated-adapter.ts:155-246,                  *)
(* codex-runtime.ts:43-118).                                                 *)
THEOREM HostInvariance == HostSpec => []HostInv
<1>1. HostInit => HostInv
  BY HostStarts
<1>2. HostInv /\ [HostNext]_hostVars => HostInv'
  BY HostStep
<1>3. QED
  BY <1>1, <1>2, PTL DEF HostSpec

(* However closes, replacements, degradations and broken sessions interleave,*)
(* no session is left when the runtime is closed or has fallen back, and     *)
(* only the renderer in use has one while it is attached, but for sessions   *)
(* that refused to release their lease; a session that was closed, after a   *)
(* failed attach too, leaves a bridge or a lease only where taking it back   *)
(* was refused (remote-renderer.ts:86-95, 246-262, dedicated-adapter.ts:233).*)
THEOREM HostLeavesNothing == HostSpec => []NothingIsLeftBehind
<1>1. HostInv => NothingIsLeftBehind
  <2>1. SUFFICES ASSUME HostInv, NEW r \in DOMAIN renderers
                 PROVE  /\ IsLive(r) => InUse(r) /\ ~IsOver
                        /\ renderers[r].session = "closed" =>
                             /\ renderers[r].bridge => "bridge" \in renderers[r].refused
                             /\ renderers[r].lease => "lease" \in renderers[r].refused
    BY DEF NothingIsLeftBehind, IsLive, Live
  <2>2. RendererIsSound(renderers[r])
    BY <2>1, HostFacts
  <2>3. IsLive(r) => InUse(r) /\ ~IsOver
    BY <2>1 DEF HostInv, SessionInv, InUse
  <2>4. QED
    BY <2>2, <2>3 DEF RendererIsSound
<1>2. QED
  BY <1>1, HostInvariance, PTL

(* A bridge is in a page only under a lease; and, once every reload that was *)
(* heard is dealt with, under a bypass that its own session has turned on,   *)
(* unless an earlier renderer of the page could not release its lease or the *)
(* page was reloaded before anybody listened (csp-bypass.ts:38-62,           *)
(* remote-renderer.ts:197-244).                                              *)
THEOREM BridgeIsUnderBypass == HostSpec => []MountedUnderBypass
<1>1. HostInv => MountedUnderBypass
  <2>1. SUFFICES ASSUME HostInv, NEW r \in DOMAIN renderers, renderers[r].bridge
                 PROVE  /\ renderers[r].session = "open" => renderers[r].lease
                        /\ IsInPlace(renderers[r]) =>
                             renderers[r].bypass \/ renderers[r].unheard \/ KeptLease(r)
    BY DEF MountedUnderBypass
  <2>2. RendererIsSound(renderers[r]) /\ renderers[r].stage \in Stages
    BY <2>1, HostFacts, RendererFields
  <2>3. renderers[r].session = "open" => renderers[r].lease
    BY <2>1, <2>2 DEF RendererIsSound, Stages
  <2>4. Exposed(renderers[r]) => KeptLease(r)
    BY <2>1 DEF HostInv, BypassInv
  <2>5. QED
    BY <2>3, <2>4 DEF Exposed
<1>2. QED
  BY <1>1, HostInvariance, PTL

=============================================================================
