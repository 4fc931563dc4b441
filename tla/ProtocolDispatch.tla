--------------------------- MODULE ProtocolDispatch ---------------------------
(* The dispatcher of the local protocol (apps/server/src/                    *)
(* protocol-dispatch.ts) with the handlers the runtime gives it              *)
(* (apps/launcher/src/standalone-runtime.ts): commands, which a client may   *)
(* send again under the same id, snapshots, and native actions on a target   *)
(* a snapshot offered.                                                       *)
(*                                                                           *)
(* A request is one HTTP exchange.  A client that lost an answer and sends   *)
(* the command again is a second request with the same body, so a lost       *)
(* answer needs no action of its own.                                        *)
EXTENDS Naturals, Sequences

CONSTANTS
    Ids,          \* client command ids
    Commands,     \* product commands, as their fingerprints tell them apart
    Operations,   \* operation ids
    Requests,     \* requests of all clients
    Targets,      \* native target ids
    NoCommand, NoOperation, NoReceipt, NoRequest,
    MaxWorlds     \* bound: states of the repository that offer other targets

Receipts ==
    [clientCommandId : Ids, command : Commands, operationId : Operations,
     disposition : {"accepted", "duplicate"}]

ASSUME DispatchAssumption ==
    /\ NoCommand \notin Commands
    /\ NoOperation \notin Operations
    /\ NoRequest \notin Requests
    /\ NoReceipt \notin Receipts

VARIABLES
    sent,                 \* sent[q]: the body of the request q
    phase,                \* phase[q]: how far its dispatch has come
    reply,                \* reply[q]: its answer
    commandRecords,       \* commandRecords[i]: fingerprint and response of i
    started,              \* history: the commands started under the id i
    issuedNativeActions,  \* the targets of the snapshot answered last
    worlds,               \* the sets of targets the repository has offered
    published,            \* the last of them the session has published
    seen,                 \* seen[q]: the one a read for q has found
    latestRead,           \* the request whose read began last
    requestedRefresh,     \* the snapshot request whose refresh others join
    since                 \* history: published when q came

commandVars == <<commandRecords, started>>
readVars == <<worlds, published, seen, latestRead, requestedRefresh>>
vars == <<sent, phase, reply, commandVars, issuedNativeActions, readVars, since>>

Unsent == [endpoint |-> "none"]
NoReply == [kind |-> "none"]
CommandRequests ==
    [endpoint : {"commands"}, clientCommandId : Ids, command : Commands]
SnapshotRequests == [endpoint : {"snapshot"}]
NativeRequests == [endpoint : {"native-actions"}, targetId : Targets]
Bodies == CommandRequests \cup SnapshotRequests \cup NativeRequests

NoRecord == [fingerprint |-> NoCommand, response |-> "none",
             operationId |-> NoOperation]

Phases == {"idle", "owner", "duplicate", "reading", "joined", "observed",
           "rendering", "answered"}

Replies ==
    [kind : {"none", "command_id_collision", "duplicate_command",
             "internal_error", "stale_target", "unavailable"}]
      \cup [kind : {"receipt"}, operationId : Operations,
            disposition : {"accepted", "duplicate"}]
      \cup [kind : {"snapshot", "performed"}, world : Nat]

TypeOK ==
    /\ sent \in [Requests -> Bodies \cup {Unsent}]
    /\ phase \in [Requests -> Phases]
    /\ reply \in [Requests -> Replies]
    /\ commandRecords \in
         [Ids -> [fingerprint : Commands \cup {NoCommand},
                  response : {"none", "queued", "running", "accepted",
                              "invalid", "threw"},
                  operationId : Operations \cup {NoOperation}]]
    /\ started \in [Ids -> Seq(Commands)]
    /\ issuedNativeActions \subseteq Targets
    /\ worlds \in Seq(SUBSET Targets)
    /\ published \in DOMAIN worlds
    /\ seen \in [Requests -> Nat]
    /\ since \in [Requests -> Nat]
    /\ latestRead \in Requests \cup {NoRequest}
    /\ requestedRefresh \in Requests \cup {NoRequest}

(* The runtime has refreshed once before it starts the server.               *)
Init ==
    /\ sent = [q \in Requests |-> Unsent]
    /\ phase = [q \in Requests |-> "idle"]
    /\ reply = [q \in Requests |-> NoReply]
    /\ commandRecords = [i \in Ids |-> NoRecord]
    /\ started = [i \in Ids |-> <<>>]
    /\ issuedNativeActions = {}
    /\ \E offered \in SUBSET Targets : worlds = <<offered>>
    /\ published = 1
    /\ seen = [q \in Requests |-> 0]
    /\ latestRead = NoRequest
    /\ requestedRefresh = NoRequest
    /\ since = [q \in Requests |-> 0]

Become(q, p) == phase' = [phase EXCEPT ![q] = p]

Answer(q, r) ==
    /\ Become(q, "answered")
    /\ reply' = [reply EXCEPT ![q] = r]

-----------------------------------------------------------------------------
(* Commands.                                                                 *)

(* A command whose id is new is recorded before its handler is called: the   *)
(* handler starts in a microtask.  One whose id is known joins the response  *)
(* of the first, or collides with it.                                        *)
Record(body) ==
    commandRecords' = [commandRecords EXCEPT ![body.clientCommandId] =
        [fingerprint |-> body.command, response |-> "queued",
         operationId |-> NoOperation]]

IsNewUntilAnswered(body) ==      \* mutant: recorded when the handler has ended
    commandRecords[body.clientCommandId].response
        \in {"none", "queued", "running"}

IsNew(body) == commandRecords[body.clientCommandId] = NoRecord

Matches(body) ==
    commandRecords[body.clientCommandId].fingerprint = body.command

DispatchCommand(q) ==
    /\ phase[q] = "idle"
    /\ \E body \in CommandRequests :
        /\ sent' = [sent EXCEPT ![q] = body]
        /\ \/ /\ IsNew(body)
              /\ Record(body)
              /\ Become(q, "owner")
              /\ UNCHANGED reply
           \/ /\ ~IsNew(body) /\ Matches(body)
              /\ Become(q, "duplicate")
              /\ UNCHANGED <<commandRecords, reply>>
           \/ /\ ~IsNew(body) /\ ~Matches(body)
              /\ Answer(q, [kind |-> "command_id_collision"])
              /\ UNCHANGED commandRecords
    /\ UNCHANGED <<started, issuedNativeActions, readVars, since>>

StartHandler(i) ==
    /\ commandRecords[i].response = "queued"
    /\ commandRecords' = [commandRecords EXCEPT ![i].response = "running"]
    /\ started' = [started EXCEPT ![i] = Append(@, commandRecords[i].fingerprint)]
    /\ UNCHANGED <<sent, phase, reply, issuedNativeActions, readVars, since>>

(* The handler admits an operation, throws (the session is closed, the       *)
(* command is not implemented), or gives something that is no receipt of     *)
(* this command.                                                             *)
EndHandler(i) ==
    /\ commandRecords[i].response = "running"
    /\ \/ \E o \in Operations :
            commandRecords' = [commandRecords EXCEPT
                ![i].response = "accepted", ![i].operationId = o]
       \/ \E r \in {"invalid", "threw"} :
            commandRecords' = [commandRecords EXCEPT ![i].response = r]
    /\ UNCHANGED <<sent, phase, reply, started, issuedNativeActions, readVars,
                   since>>

Receipt(i, disposition) ==
    [kind |-> "receipt", operationId |-> commandRecords[i].operationId,
     disposition |-> disposition]

CommandReply(i, role) ==
    CASE commandRecords[i].response = "accepted" ->
            Receipt(i, IF role = "owner" THEN "accepted" ELSE "duplicate")
      [] role = "duplicate" -> [kind |-> "duplicate_command"]
      [] OTHER -> [kind |-> "internal_error"]

AnswerCommand(q) ==
    /\ phase[q] \in {"owner", "duplicate"}
    /\ LET i == sent[q].clientCommandId IN
        /\ commandRecords[i].response \in {"accepted", "invalid", "threw"}
        /\ Answer(q, CommandReply(i, phase[q]))
    /\ UNCHANGED <<sent, commandVars, issuedNativeActions, readVars, since>>

-----------------------------------------------------------------------------
(* Snapshots and native actions.                                             *)

(* The repository changes: targets vanish for good, since an id is given to  *)
(* a file or worktree once, and others appear.                               *)
Gone == (UNION {worlds[n] : n \in DOMAIN worlds}) \ worlds[Len(worlds)]

RepositoryChanges ==
    /\ Len(worlds) < MaxWorlds
    /\ \E offered \in SUBSET (Targets \ Gone) :
        /\ offered # worlds[Len(worlds)]
        /\ worlds' = Append(worlds, offered)
    /\ UNCHANGED <<sent, phase, reply, commandVars, issuedNativeActions,
                   published, seen, latestRead, requestedRefresh, since>>

(* A snapshot request joins the refresh another one has asked for.           *)
DispatchSnapshot(q) ==
    /\ phase[q] = "idle"
    /\ sent' = [sent EXCEPT ![q] = [endpoint |-> "snapshot"]]
    /\ since' = [since EXCEPT ![q] = published]
    /\ \/ /\ requestedRefresh = NoRequest
          /\ requestedRefresh' = q
          /\ latestRead' = q
          /\ Become(q, "reading")
       \/ /\ requestedRefresh # NoRequest
          /\ Become(q, "joined")
          /\ UNCHANGED <<requestedRefresh, latestRead>>
    /\ UNCHANGED <<reply, commandVars, issuedNativeActions, worlds, published,
                   seen>>

(* A native action is refused unless the snapshot answered last offered it;  *)
(* then the session looks its target up in a read of its own.                *)
DispatchNativeAction(q) ==
    /\ phase[q] = "idle"
    /\ \E t \in Targets :
        /\ sent' = [sent EXCEPT ![q] =
                       [endpoint |-> "native-actions", targetId |-> t]]
        /\ \/ /\ t \notin issuedNativeActions
              /\ Answer(q, [kind |-> "stale_target"])
              /\ UNCHANGED latestRead
           \/ /\ t \in issuedNativeActions
              /\ Become(q, "reading")
              /\ latestRead' = q
              /\ UNCHANGED reply
    /\ since' = [since EXCEPT ![q] = published]
    /\ UNCHANGED <<commandVars, issuedNativeActions, worlds, published, seen,
                   requestedRefresh>>

(* The read for q looks at the repository.                                   *)
Observe(q) ==
    /\ phase[q] = "reading"
    /\ Become(q, "observed")
    /\ seen' = [seen EXCEPT ![q] = Len(worlds)]
    /\ UNCHANGED <<sent, reply, commandVars, issuedNativeActions, worlds,
                   published, latestRead, requestedRefresh, since>>

(* What the read for q may be answered with: what it found if no later read  *)
(* began meanwhile; what is published otherwise, and also when it failed and *)
(* the failure is retained as a stale snapshot.                              *)
Answers(q) == IF latestRead = q THEN {seen[q], published} ELSE {published}

(* A snapshot's refresh ends for everyone who joined it.                     *)
AtEndOfRefresh(q) ==
    /\ phase[q] = "observed" /\ sent[q].endpoint = "snapshot"
    /\ requestedRefresh' = NoRequest
    /\ UNCHANGED <<sent, commandVars, issuedNativeActions, worlds, latestRead,
                   since>>

Joined(q) == {r \in Requests : r = q \/ phase[r] = "joined"}

RefreshEndsAlone(q) ==           \* mutant: those who joined are forgotten
    /\ AtEndOfRefresh(q)
    /\ \E w \in Answers(q) :
        /\ published' = w
        /\ Become(q, "rendering")
        /\ seen' = [seen EXCEPT ![q] = w]
    /\ UNCHANGED reply

(* Each of the answers then waits for the host's context.                    *)
RefreshEnds(q) ==
    /\ AtEndOfRefresh(q)
    /\ \E w \in Answers(q) :
        /\ published' = w
        /\ phase' = [r \in Requests |->
                       IF r \in Joined(q) THEN "rendering" ELSE phase[r]]
        /\ seen' = [r \in Requests |-> IF r \in Joined(q) THEN w ELSE seen[r]]
    /\ UNCHANGED reply

(* The session is closed, or the failure is none a snapshot is retained for. *)
RefreshFails(q) ==
    /\ AtEndOfRefresh(q)
    /\ phase' = [r \in Requests |->
                   IF r \in Joined(q) THEN "answered" ELSE phase[r]]
    /\ reply' = [r \in Requests |->
                   IF r \in Joined(q) THEN [kind |-> "internal_error"] ELSE reply[r]]
    /\ UNCHANGED <<published, seen>>

(* The answer replaces the table of targets; one that cannot be made or is   *)
(* no valid snapshot leaves the table.                                       *)
AnswerSnapshot(q) ==
    /\ phase[q] = "rendering"
    /\ \/ /\ issuedNativeActions' = worlds[seen[q]]
          /\ Answer(q, [kind |-> "snapshot", world |-> seen[q]])
       \/ /\ UNCHANGED issuedNativeActions
          /\ Answer(q, [kind |-> "internal_error"])
    /\ UNCHANGED <<sent, commandVars, readVars, since>>

ResolvesIssued(q, w) == sent[q].targetId \in issuedNativeActions   \* mutant

(* The session finds the target in the snapshot it was answered with.        *)
Resolves(q, w) == sent[q].targetId \in worlds[w]

(* The action is unavailable if it is not found, the read threw, or the path *)
(* or the host refuses.                                                      *)
PerformNativeAction(q) ==
    /\ phase[q] = "observed" /\ sent[q].endpoint = "native-actions"
    /\ \/ \E w \in Answers(q) :
            /\ published' = w
            /\ \/ Resolves(q, w) /\ Answer(q, [kind |-> "performed", world |-> w])
               \/ Answer(q, [kind |-> "unavailable"])
       \/ UNCHANGED published /\ Answer(q, [kind |-> "unavailable"])
    /\ UNCHANGED <<sent, commandVars, issuedNativeActions, worlds, seen,
                   latestRead, requestedRefresh, since>>

Next ==
    \/ \E q \in Requests :
        \/ DispatchCommand(q) \/ AnswerCommand(q)
        \/ DispatchSnapshot(q) \/ DispatchNativeAction(q)
        \/ Observe(q) \/ RefreshEnds(q) \/ RefreshFails(q) \/ AnswerSnapshot(q)
        \/ PerformNativeAction(q)
    \/ \E i \in Ids : StartHandler(i) \/ EndHandler(i)
    \/ RepositoryChanges

Spec == Init /\ [][Next]_vars

(* Microtasks and promise reactions run; handlers and reads end, because     *)
(* every Git process has a time limit and a command is answered when its     *)
(* operation is admitted or settled, which EveryDispatchSettles shows.       *)
Fairness ==
    /\ \A i \in Ids : WF_vars(StartHandler(i)) /\ WF_vars(EndHandler(i))
    /\ \A q \in Requests :
        /\ WF_vars(AnswerCommand(q))
        /\ WF_vars(Observe(q)) /\ WF_vars(RefreshEnds(q) \/ RefreshFails(q))
        /\ WF_vars(AnswerSnapshot(q)) /\ WF_vars(PerformNativeAction(q))

FairSpec == Spec /\ Fairness

-----------------------------------------------------------------------------
(* Properties.                                                               *)

(* The receipts given, as CommandOnce tells of them.                         *)
ReceiptOf(q) ==
    IF reply[q].kind = "receipt"
    THEN [clientCommandId |-> sent[q].clientCommandId,
          command |-> sent[q].command,
          operationId |-> reply[q].operationId,
          disposition |-> reply[q].disposition]
    ELSE NoReceipt

(* A second start would be a value no step of CommandOnce leads to.          *)
StartedCommand(i) ==
    CASE Len(started[i]) = 0 -> NoCommand
      [] Len(started[i]) = 1 -> started[i][1]
      [] OTHER -> started[i]

Once == INSTANCE CommandOnce WITH
    started <- [i \in Ids |-> StartedCommand(i)],
    outcome <- [i \in Ids |-> commandRecords[i].operationId],
    receipts <- [q \in Requests |-> ReceiptOf(q)]

(* However often and in whatever order commands are sent under an id, one    *)
(* command is run under it, every receipt names that command's operation,    *)
(* and only one says "accepted" (protocol-dispatch.ts:241).                  *)
ImplementsCommandOnce == Once!Spec

(* The table that admits a native action may be that of an older snapshot    *)
(* whose answer ended late; the action is still only performed on a target   *)
(* of a state no older than what was published when the request came.        *)
PerformedOnCurrentTarget ==
    \A q \in Requests :
        reply[q].kind = "performed" =>
            /\ reply[q].world >= since[q]
            /\ sent[q].targetId \in worlds[reply[q].world]

(* No request waits for ever on the response of another one: duplicates of a *)
(* command that failed are answered too, and so are the snapshots that       *)
(* joined a refresh.                                                         *)
EveryRequestIsAnswered ==
    \A q \in Requests : sent[q] # Unsent ~> phase[q] = "answered"
=============================================================================
