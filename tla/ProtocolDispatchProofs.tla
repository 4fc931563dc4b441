------------------------ MODULE ProtocolDispatchProofs ------------------------
(* Proofs about ProtocolDispatch, for any ids, commands, requests, targets   *)
(* and states of the repository: a command runs once under its id, and a     *)
(* native action is performed on a current target.                           *)
EXTENDS ProtocolDispatch, TLAPS

RecordOf(q) == commandRecords[sent[q].clientCommandId]

Recorded(q) ==
    /\ sent[q] \in CommandRequests
    /\ RecordOf(q).response # "none"
    /\ RecordOf(q).fingerprint = sent[q].command

(* A record tells what was started under its id, and with which operation it *)
(* was answered.                                                             *)
RecordsTell ==
    \A i \in Ids :
        /\ commandRecords[i].response = "none" => commandRecords[i] = NoRecord
        /\ commandRecords[i].response # "none" =>
             commandRecords[i].fingerprint \in Commands
        /\ commandRecords[i].response = "accepted" <=>
             commandRecords[i].operationId \in Operations
        /\ commandRecords[i].response \in {"none", "queued"} => started[i] = <<>>
        /\ commandRecords[i].response \notin {"none", "queued"} =>
             started[i] = <<commandRecords[i].fingerprint>>

HasReceipt(q) ==
    /\ Recorded(q)
    /\ RecordOf(q).response = "accepted"
    /\ reply[q].operationId = RecordOf(q).operationId
    /\ reply[q].disposition \in {"accepted", "duplicate"}

(* A request that waits on a record, or has its receipt, named its command.  *)
RepliesTell ==
    \A q \in Requests :
        /\ phase[q] # "answered" => reply[q] = NoReply
        /\ phase[q] \in {"owner", "duplicate"} => Recorded(q)
        /\ reply[q].kind = "receipt" => HasReceipt(q)

(* The request that made a record, while it waits and once it is told so.    *)
Owns(q) ==
    \/ phase[q] = "owner"
    \/ reply[q].kind = "receipt" /\ reply[q].disposition = "accepted"

OneOwner ==
    \A q, r \in Requests :
        Owns(q) /\ Owns(r) /\ sent[q].clientCommandId = sent[r].clientCommandId
            => q = r

CommandsAgree == RecordsTell /\ RepliesTell /\ OneOwner

Performed(q) ==
    /\ reply[q].world \in DOMAIN worlds
    /\ since[q] <= reply[q].world
    /\ sent[q].targetId \in worlds[reply[q].world]

(* What a read has found is no older than what is published, unless a later  *)
(* read has overtaken it.                                                    *)
ReadsAgree ==
    \A q \in Requests :
        /\ since[q] <= published
        /\ phase[q] \in {"observed", "rendering"} => seen[q] \in DOMAIN worlds
        /\ phase[q] = "observed" /\ latestRead = q => published <= seen[q]
        /\ reply[q].kind = "performed" => Performed(q)
        /\ phase[q] # "answered" => reply[q] = NoReply

DispatchInv == TypeOK /\ CommandsAgree /\ ReadsAgree

-----------------------------------------------------------------------------
(* The initial states.                                                       *)
LEMMA InitAgrees == Init => DispatchInv
<1> SUFFICES ASSUME Init PROVE DispatchInv
    OBVIOUS
<1>1. TypeOK
    BY DEF Init, TypeOK, NoRecord, Phases, NoReply, Replies
<1>2. RecordsTell
    BY DispatchAssumption DEF Init, RecordsTell, NoRecord
<1>3. RepliesTell /\ OneOwner
    BY DEF Init, RepliesTell, OneOwner, Owns, NoReply
<1>4. ReadsAgree
    BY DEF Init, ReadsAgree, NoReply
<1> QED
    BY <1>1, <1>2, <1>3, <1>4 DEF DispatchInv, CommandsAgree

-----------------------------------------------------------------------------
(* What a step leaves alone.                                                 *)

(* A step that touches no record, and requests only away from them, keeps    *)
(* what the records and the receipts tell.                                   *)
Unconcerned(q) ==
    \/ sent'[q] = sent[q] /\ phase'[q] = phase[q] /\ reply'[q] = reply[q]
    \/ /\ phase'[q] \notin {"owner", "duplicate"}
       /\ reply'[q].kind # "receipt"
       /\ phase'[q] # "answered" => reply'[q] = NoReply

LEMMA CommandsLeftAlone ==
    ASSUME CommandsAgree, UNCHANGED commandVars, \A q \in Requests : Unconcerned(q)
    PROVE  CommandsAgree'
<1>1. RecordsTell'
    BY DEF CommandsAgree, RecordsTell, commandVars
<1>2. RepliesTell'
  <2> SUFFICES ASSUME NEW q \in Requests
               PROVE  /\ phase'[q] # "answered" => reply'[q] = NoReply
                      /\ phase'[q] \in {"owner", "duplicate"} => Recorded(q)'
                      /\ reply'[q].kind = "receipt" => HasReceipt(q)'
      BY DEF RepliesTell
  <2> QED
      BY DEF CommandsAgree, RepliesTell, Unconcerned, commandVars, Recorded,
             HasReceipt, RecordOf
<1>3. OneOwner'
  <2>1. \A q \in Requests : Owns(q)' =>
            Owns(q) /\ sent'[q].clientCommandId = sent[q].clientCommandId
      BY DEF Owns, Unconcerned
  <2> QED
      BY <2>1 DEF CommandsAgree, OneOwner
<1> QED
    BY <1>1, <1>2, <1>3 DEF CommandsAgree

(* A step about commands: reads stay as they are, and so do the requests     *)
(* that wait for one or have performed an action.                            *)
Absent(q) ==
    \/ sent'[q] = sent[q] /\ phase'[q] = phase[q] /\ reply'[q] = reply[q]
    \/ /\ phase'[q] \notin {"observed", "rendering"}
       /\ reply'[q].kind # "performed"
       /\ phase'[q] # "answered" => reply'[q] = NoReply

LEMMA ReadsLeftAlone ==
    ASSUME ReadsAgree, UNCHANGED <<readVars, since>>,
           \A q \in Requests : Absent(q)
    PROVE  ReadsAgree'
<1> SUFFICES ASSUME NEW q \in Requests
             PROVE  /\ since'[q] <= published'
                    /\ phase'[q] \in {"observed", "rendering"} =>
                         seen'[q] \in DOMAIN worlds'
                    /\ phase'[q] = "observed" /\ latestRead' = q =>
                         published' <= seen'[q]
                    /\ reply'[q].kind = "performed" => Performed(q)'
                    /\ phase'[q] # "answered" => reply'[q] = NoReply
    BY DEF ReadsAgree
<1>1. CASE sent'[q] = sent[q] /\ phase'[q] = phase[q] /\ reply'[q] = reply[q]
    BY <1>1 DEF ReadsAgree, readVars, Performed
<1>2. CASE /\ phase'[q] \notin {"observed", "rendering"}
           /\ reply'[q].kind # "performed"
           /\ phase'[q] # "answered" => reply'[q] = NoReply
    BY <1>2 DEF ReadsAgree, readVars
<1> QED
    BY <1>1, <1>2 DEF Absent

-----------------------------------------------------------------------------
(* Commands, one action after the other.                                     *)
CommandNames == {"owner", "duplicate"}

(* The fields of a record that is replaced.                                  *)
LEMMA NewRecordFacts ==
    ASSUME TypeOK, NEW body \in CommandRequests, Record(body)
    PROVE  LET i == body.clientCommandId IN
            /\ i \in Ids /\ body.command \in Commands
            /\ commandRecords'[i] =
                 [fingerprint |-> body.command, response |-> "queued",
                  operationId |-> NoOperation]
            /\ \A j \in Ids \ {i} : commandRecords'[j] = commandRecords[j]
            /\ commandRecords' \in
                 [Ids -> [fingerprint : Commands \cup {NoCommand},
                          response : {"none", "queued", "running", "accepted",
                                      "invalid", "threw"},
                          operationId : Operations \cup {NoOperation}]]
    BY DEF TypeOK, Record, CommandRequests

(* A request whose command is new becomes the only owner of its id.          *)
LEMMA NewCommandAgrees ==
    ASSUME TypeOK, CommandsAgree, NEW q \in Requests, phase[q] = "idle",
           NEW body \in CommandRequests,
           sent' = [sent EXCEPT ![q] = body], IsNew(body), Record(body),
           Become(q, "owner"), UNCHANGED <<reply, started>>
    PROVE  CommandsAgree'
<1> DEFINE i == body.clientCommandId
<1>1. /\ i \in Ids /\ body.command \in Commands
      /\ commandRecords'[i] =
           [fingerprint |-> body.command, response |-> "queued",
            operationId |-> NoOperation]
      /\ \A j \in Ids \ {i} : commandRecords'[j] = commandRecords[j]
    BY NewRecordFacts
<1>2. commandRecords[i].response = "none" /\ started[i] = <<>>
    BY <1>1 DEF IsNew, NoRecord, CommandsAgree, RecordsTell
<1>3. reply[q] = NoReply /\ sent'[q] = body /\ phase'[q] = "owner"
    BY DEF CommandsAgree, RepliesTell, Become, TypeOK
<1>4. \A r \in Requests \ {q} :
        sent'[r] = sent[r] /\ phase'[r] = phase[r] /\ reply'[r] = reply[r]
    BY DEF Become, TypeOK
<1>5. ASSUME NEW r \in Requests \ {q}, Recorded(r)
      PROVE  /\ sent[r].clientCommandId \in Ids \ {i}
             /\ RecordOf(r)' = RecordOf(r)
             /\ Recorded(r)'
    BY <1>1, <1>2, <1>4, <1>5 DEF Recorded, RecordOf, CommandRequests
<1>6. RecordsTell'
  <2> SUFFICES ASSUME NEW j \in Ids
               PROVE  /\ commandRecords'[j].response = "none" =>
                           commandRecords'[j] = NoRecord
                      /\ commandRecords'[j].response # "none" =>
                           commandRecords'[j].fingerprint \in Commands
                      /\ commandRecords'[j].response = "accepted" <=>
                           commandRecords'[j].operationId \in Operations
                      /\ commandRecords'[j].response \in {"none", "queued"} =>
                           started'[j] = <<>>
                      /\ commandRecords'[j].response \notin {"none", "queued"} =>
                           started'[j] = <<commandRecords'[j].fingerprint>>
      BY DEF RecordsTell
  <2>1. CASE j = i
      BY <1>1, <1>2, <2>1, DispatchAssumption
  <2>2. CASE j # i
      BY <1>1, <2>2 DEF CommandsAgree, RecordsTell
  <2> QED
      BY <2>1, <2>2
<1>7. RepliesTell'
  <2>1. ASSUME NEW r \in Requests \ {q}
        PROVE  /\ phase'[r] # "answered" => reply'[r] = NoReply
               /\ phase'[r] \in {"owner", "duplicate"} => Recorded(r)'
               /\ reply'[r].kind = "receipt" => HasReceipt(r)'
      BY <1>4, <1>5 DEF CommandsAgree, RepliesTell, HasReceipt
  <2>2. Recorded(q)'
      BY <1>1, <1>3 DEF Recorded, RecordOf
  <2> QED
      BY <1>3, <2>1, <2>2 DEF RepliesTell, NoReply
<1>8. OneOwner'
  <2>1. ASSUME NEW r \in Requests \ {q}, Owns(r)'
        PROVE  Owns(r) /\ sent'[r].clientCommandId # i
      BY <1>4, <1>5, <2>1 DEF Owns, CommandsAgree, RepliesTell, HasReceipt
  <2> QED
      BY <1>3, <1>4, <2>1 DEF OneOwner, CommandsAgree
<1> QED
    BY <1>6, <1>7, <1>8 DEF CommandsAgree

(* A request whose command is known joins its record.                        *)
LEMMA KnownCommandAgrees ==
    ASSUME TypeOK, CommandsAgree, NEW q \in Requests, phase[q] = "idle",
           NEW body \in CommandRequests,
           sent' = [sent EXCEPT ![q] = body], ~IsNew(body), Matches(body),
           Become(q, "duplicate"), UNCHANGED <<commandRecords, reply, started>>
    PROVE  CommandsAgree'
<1>1. reply[q] = NoReply /\ sent'[q] = body /\ phase'[q] = "duplicate"
    BY DEF CommandsAgree, RepliesTell, Become, TypeOK
<1>2. \A r \in Requests \ {q} :
        sent'[r] = sent[r] /\ phase'[r] = phase[r] /\ reply'[r] = reply[r]
    BY DEF Become, TypeOK
<1>3. RecordsTell'
    BY DEF CommandsAgree, RecordsTell
<1>4. RepliesTell'
  <2>1. Recorded(q)'
      BY <1>1 DEF Recorded, RecordOf, IsNew, Matches, CommandsAgree,
                  RecordsTell, CommandRequests
  <2>2. ASSUME NEW r \in Requests \ {q}
        PROVE  /\ phase'[r] # "answered" => reply'[r] = NoReply
               /\ phase'[r] \in {"owner", "duplicate"} => Recorded(r)'
               /\ reply'[r].kind = "receipt" => HasReceipt(r)'
      BY <1>2 DEF CommandsAgree, RepliesTell, HasReceipt, Recorded, RecordOf
  <2> QED
      BY <1>1, <2>1, <2>2 DEF RepliesTell, NoReply
<1>5. OneOwner'
    BY <1>1, <1>2 DEF OneOwner, Owns, CommandsAgree, NoReply
<1> QED
    BY <1>3, <1>4, <1>5 DEF CommandsAgree

LEMMA DispatchCommandAgrees ==
    ASSUME DispatchInv, NEW q \in Requests, DispatchCommand(q)
    PROVE  DispatchInv'
<1> USE DEF DispatchInv
<1>1. PICK body \in CommandRequests :
        /\ sent' = [sent EXCEPT ![q] = body]
        /\ \/ IsNew(body) /\ Record(body) /\ Become(q, "owner") /\ UNCHANGED reply
           \/ /\ ~IsNew(body) /\ Matches(body) /\ Become(q, "duplicate")
              /\ UNCHANGED <<commandRecords, reply>>
           \/ /\ ~IsNew(body) /\ ~Matches(body)
              /\ Answer(q, [kind |-> "command_id_collision"])
              /\ UNCHANGED commandRecords
    BY DEF DispatchCommand
<1>2. phase[q] = "idle" /\ UNCHANGED <<started, issuedNativeActions, readVars, since>>
    BY DEF DispatchCommand
<1>3. reply[q] = NoReply
    BY <1>2 DEF ReadsAgree
<1>4. sent' \in [Requests -> Bodies \cup {Unsent}]
    BY <1>1 DEF TypeOK, Bodies
<1>5. CASE IsNew(body) /\ Record(body) /\ Become(q, "owner") /\ UNCHANGED reply
  <2>1. TypeOK'
    <3>1. phase' \in [Requests -> Phases]
        BY <1>5 DEF TypeOK, Become, Phases
    <3> QED
        BY <1>2, <1>4, <1>5, <3>1, NewRecordFacts DEF TypeOK, readVars
  <2>2. CommandsAgree'
      BY <1>1, <1>2, <1>5, NewCommandAgrees
  <2>3. ReadsAgree'
      BY <1>1, <1>2, <1>3, <1>5, ReadsLeftAlone DEF Absent, Become, TypeOK, NoReply
  <2> QED
      BY <2>1, <2>2, <2>3
<1>6. CASE /\ ~IsNew(body) /\ Matches(body) /\ Become(q, "duplicate")
           /\ UNCHANGED <<commandRecords, reply>>
  <2>1. TypeOK'
      BY <1>2, <1>4, <1>6 DEF TypeOK, readVars, Become, Phases
  <2>2. CommandsAgree'
      BY <1>1, <1>2, <1>6, KnownCommandAgrees
  <2>3. ReadsAgree'
      BY <1>1, <1>2, <1>3, <1>6, ReadsLeftAlone DEF Absent, Become, TypeOK, NoReply
  <2> QED
      BY <2>1, <2>2, <2>3
<1>7. CASE /\ ~IsNew(body) /\ ~Matches(body)
           /\ Answer(q, [kind |-> "command_id_collision"])
           /\ UNCHANGED commandRecords
  <2>1. TypeOK'
    <3>1. [kind |-> "command_id_collision"] \in Replies
        BY DEF Replies
    <3> QED
        BY <1>2, <1>4, <1>7, <3>1 DEF TypeOK, readVars, Answer, Become, Phases
  <2>2. ASSUME NEW r \in Requests
        PROVE  Unconcerned(r) /\ Absent(r)
    <3>1. CASE r = q
        BY <1>7, <3>1 DEF Unconcerned, Absent, Answer, Become, TypeOK
    <3>2. CASE r # q
        BY <1>1, <1>7, <3>2 DEF Unconcerned, Absent, Answer, Become, TypeOK
    <3> QED
        BY <3>1, <3>2
  <2>3. CommandsAgree'
      BY <1>2, <1>7, <2>2, CommandsLeftAlone DEF commandVars
  <2>4. ReadsAgree'
      BY <1>2, <2>2, ReadsLeftAlone
  <2> QED
      BY <2>1, <2>3, <2>4
<1> QED
    BY <1>1, <1>5, <1>6, <1>7

(* A handler moves its record on: the fingerprint stays, the response was    *)
(* and is that of a command which is under way or has ended, and "started"   *)
(* agrees with it.                                                           *)
MovesOn(i) ==
    /\ commandRecords[i].response \in {"queued", "running"}
    /\ commandRecords'[i].fingerprint = commandRecords[i].fingerprint
    /\ commandRecords'[i].response \in {"running", "accepted", "invalid", "threw"}
    /\ commandRecords'[i].response = "accepted" <=>
         commandRecords'[i].operationId \in Operations
    /\ started'[i] = <<commandRecords[i].fingerprint>>
    /\ \A j \in Ids \ {i} : commandRecords'[j] = commandRecords[j]
                           /\ started'[j] = started[j]

LEMMA MovingOnAgrees ==
    ASSUME TypeOK, CommandsAgree, NEW i \in Ids, MovesOn(i),
           UNCHANGED <<sent, phase, reply>>
    PROVE  CommandsAgree'
<1>1. RecordsTell'
  <2> SUFFICES ASSUME NEW j \in Ids
               PROVE  /\ commandRecords'[j].response = "none" =>
                           commandRecords'[j] = NoRecord
                      /\ commandRecords'[j].response # "none" =>
                           commandRecords'[j].fingerprint \in Commands
                      /\ commandRecords'[j].response = "accepted" <=>
                           commandRecords'[j].operationId \in Operations
                      /\ commandRecords'[j].response \in {"none", "queued"} =>
                           started'[j] = <<>>
                      /\ commandRecords'[j].response \notin {"none", "queued"} =>
                           started'[j] = <<commandRecords'[j].fingerprint>>
      BY DEF RecordsTell
  <2>1. CASE j = i
      BY <2>1 DEF MovesOn, CommandsAgree, RecordsTell
  <2>2. CASE j # i
      BY <2>2 DEF MovesOn, CommandsAgree, RecordsTell
  <2> QED
      BY <2>1, <2>2
<1>2. ASSUME NEW q \in Requests, Recorded(q)
      PROVE  /\ Recorded(q)'
             /\ RecordOf(q).response = "accepted" => RecordOf(q)' = RecordOf(q)
  <2>1. sent[q].clientCommandId \in Ids
      BY <1>2 DEF Recorded, CommandRequests
  <2>2. CASE sent[q].clientCommandId = i
      BY <1>2, <2>2 DEF Recorded, RecordOf, MovesOn
  <2>3. CASE sent[q].clientCommandId # i
      BY <1>2, <2>1, <2>3 DEF Recorded, RecordOf, MovesOn
  <2> QED
      BY <2>2, <2>3
<1>3. RepliesTell'
    BY <1>2 DEF CommandsAgree, RepliesTell, HasReceipt
<1>4. OneOwner'
    BY DEF CommandsAgree, OneOwner, Owns
<1> QED
    BY <1>1, <1>3, <1>4 DEF CommandsAgree

LEMMA StartHandlerAgrees ==
    ASSUME DispatchInv, NEW i \in Ids, StartHandler(i)
    PROVE  DispatchInv' /\ MovesOn(i) /\ started[i] = <<>>
             /\ commandRecords'[i].operationId = commandRecords[i].operationId
             /\ commandRecords[i].fingerprint \in Commands
<1> USE DEF DispatchInv
<1>1. started[i] = <<>> /\ commandRecords[i].fingerprint \in Commands
    BY DEF StartHandler, CommandsAgree, RecordsTell
<1>2. /\ commandRecords'[i] = [commandRecords[i] EXCEPT !.response = "running"]
      /\ \A j \in Ids \ {i} : commandRecords'[j] = commandRecords[j]
      /\ commandRecords' \in [Ids -> [fingerprint : Commands \cup {NoCommand},
                        response : {"none", "queued", "running", "accepted",
                                    "invalid", "threw"},
                        operationId : Operations \cup {NoOperation}]]
    BY DEF StartHandler, TypeOK
<1>3. /\ started'[i] = <<commandRecords[i].fingerprint>>
      /\ \A j \in Ids \ {i} : started'[j] = started[j]
      /\ started' \in [Ids -> Seq(Commands)]
    BY <1>1 DEF StartHandler, TypeOK
<1>4. /\ commandRecords'[i].fingerprint = commandRecords[i].fingerprint
      /\ commandRecords'[i].response = "running"
      /\ commandRecords'[i].operationId = commandRecords[i].operationId
    BY <1>2 DEF TypeOK
<1>5. MovesOn(i)
    BY <1>2, <1>3, <1>4 DEF MovesOn, StartHandler, CommandsAgree, RecordsTell
<1>6. TypeOK'
    BY <1>2, <1>3 DEF StartHandler, TypeOK, readVars
<1>7. CommandsAgree'
    BY <1>5, MovingOnAgrees DEF StartHandler
<1>8. ReadsAgree'
    BY ReadsLeftAlone DEF StartHandler, Absent
<1> QED
    BY <1>1, <1>4, <1>5, <1>6, <1>7, <1>8

LEMMA EndHandlerAgrees ==
    ASSUME DispatchInv, NEW i \in Ids, EndHandler(i)
    PROVE  DispatchInv' /\ MovesOn(i) /\ started' = started
             /\ commandRecords[i].operationId \notin Operations
             /\ commandRecords'[i].operationId \in Operations \cup {NoOperation}
<1> USE DEF DispatchInv
<1>1. /\ started'[i] = <<commandRecords[i].fingerprint>>
      /\ commandRecords[i].operationId \notin Operations
    BY DEF EndHandler, CommandsAgree, RecordsTell
<1>2. /\ commandRecords' \in [Ids -> [fingerprint : Commands \cup {NoCommand},
                        response : {"none", "queued", "running", "accepted",
                                    "invalid", "threw"},
                        operationId : Operations \cup {NoOperation}]]
      /\ \A j \in Ids \ {i} : commandRecords'[j] = commandRecords[j]
      /\ commandRecords'[i].fingerprint = commandRecords[i].fingerprint
      /\ commandRecords'[i].response \in {"accepted", "invalid", "threw"}
      /\ commandRecords'[i].response = "accepted" <=>
           commandRecords'[i].operationId \in Operations
  <2>1. CASE \E o \in Operations :
               commandRecords' = [commandRecords EXCEPT
                   ![i].response = "accepted", ![i].operationId = o]
    <3>1. PICK o \in Operations :
               commandRecords' = [commandRecords EXCEPT
                   ![i].response = "accepted", ![i].operationId = o]
        BY <2>1
    <3> DEFINE half == [commandRecords EXCEPT ![i].response = "accepted"]
    <3>2. commandRecords' = [half EXCEPT ![i].operationId = o]
        BY <3>1
    <3>3. half \in [Ids -> [fingerprint : Commands \cup {NoCommand},
                        response : {"none", "queued", "running", "accepted",
                                    "invalid", "threw"},
                        operationId : Operations \cup {NoOperation}]]
        BY DEF TypeOK
    <3>4. /\ half[i].response = "accepted"
          /\ half[i].fingerprint = commandRecords[i].fingerprint
          /\ \A j \in Ids \ {i} : half[j] = commandRecords[j]
        BY DEF TypeOK
    <3> HIDE DEF half
    <3> QED
        BY <3>2, <3>3, <3>4
  <2>2. CASE \E r \in {"invalid", "threw"} :
               commandRecords' = [commandRecords EXCEPT ![i].response = r]
    <3>1. PICK r \in {"invalid", "threw"} :
               commandRecords' = [commandRecords EXCEPT ![i].response = r]
        BY <2>2
    <3> QED
        BY <1>1, <3>1 DEF TypeOK
  <2> QED
      BY <2>1, <2>2 DEF EndHandler
<1>3. MovesOn(i)
    BY <1>1, <1>2 DEF MovesOn, EndHandler
<1>4. TypeOK'
    BY <1>2 DEF EndHandler, TypeOK, readVars
<1>5. CommandsAgree'
    BY <1>3, MovingOnAgrees DEF EndHandler
<1>6. ReadsAgree'
    BY ReadsLeftAlone DEF EndHandler, Absent
<1>7. commandRecords'[i].operationId \in Operations \cup {NoOperation}
    BY <1>2
<1> QED
    BY <1>1, <1>3, <1>4, <1>5, <1>6, <1>7 DEF EndHandler

(* The answer to a command: a receipt of its record, or an error.            *)
LEMMA AnswerCommandFacts ==
    ASSUME DispatchInv, NEW q \in Requests, AnswerCommand(q)
    PROVE  /\ Recorded(q) /\ reply[q] = NoReply
           /\ sent[q].clientCommandId \in Ids
           /\ phase'[q] = "answered"
           /\ \A r \in Requests \ {q} : phase'[r] = phase[r] /\ reply'[r] = reply[r]
           /\ \/ /\ RecordOf(q).response = "accepted"
                 /\ phase[q] = "owner"
                 /\ reply'[q] = Receipt(sent[q].clientCommandId, "accepted")
              \/ /\ RecordOf(q).response = "accepted"
                 /\ phase[q] = "duplicate"
                 /\ reply'[q] = Receipt(sent[q].clientCommandId, "duplicate")
              \/ reply'[q] = [kind |-> "duplicate_command"]
              \/ reply'[q] = [kind |-> "internal_error"]
<1> USE DEF DispatchInv
<1> DEFINE i == sent[q].clientCommandId
<1>1. /\ phase[q] \in {"owner", "duplicate"}
      /\ Answer(q, CommandReply(i, phase[q]))
    BY DEF AnswerCommand
<1>2. Recorded(q) /\ reply[q] = NoReply
    BY <1>1 DEF CommandsAgree, RepliesTell
<1>3. i \in Ids
    BY <1>2 DEF Recorded, CommandRequests
<1>4. /\ phase'[q] = "answered" /\ reply'[q] = CommandReply(i, phase[q])
      /\ \A r \in Requests \ {q} : phase'[r] = phase[r] /\ reply'[r] = reply[r]
    BY <1>1 DEF Answer, Become, TypeOK
<1>5. CASE RecordOf(q).response = "accepted" /\ phase[q] = "owner"
    BY <1>2, <1>3, <1>4, <1>5 DEF CommandReply, RecordOf
<1>6. CASE RecordOf(q).response = "accepted" /\ phase[q] = "duplicate"
    BY <1>2, <1>3, <1>4, <1>6 DEF CommandReply, RecordOf
<1>7. CASE RecordOf(q).response # "accepted"
    BY <1>1, <1>2, <1>3, <1>4, <1>7 DEF CommandReply, RecordOf
<1> QED
    BY <1>1, <1>5, <1>6, <1>7

LEMMA AnswerCommandAgrees ==
    ASSUME DispatchInv, NEW q \in Requests, AnswerCommand(q)
    PROVE  DispatchInv'
<1> USE DEF DispatchInv
<1> DEFINE i == sent[q].clientCommandId
<1>1. /\ UNCHANGED <<sent, commandVars, issuedNativeActions, readVars, since>>
      /\ phase[q] \in {"owner", "duplicate"}
    BY DEF AnswerCommand
<1>2. /\ Recorded(q) /\ reply[q] = NoReply /\ i \in Ids
      /\ phase'[q] = "answered"
      /\ \A r \in Requests \ {q} : phase'[r] = phase[r] /\ reply'[r] = reply[r]
    BY AnswerCommandFacts
<1>3. /\ phase' \in [Requests -> Phases]
      /\ DOMAIN reply' = Requests
      /\ reply' = [r \in Requests |-> reply'[r]]
    BY DEF AnswerCommand, Answer, Become, TypeOK, Phases
<1>4. ASSUME reply'[q] \in Replies PROVE TypeOK'
  <2>1. reply' \in [Requests -> Replies]
      BY <1>2, <1>3, <1>4 DEF TypeOK
  <2> QED
      BY <1>1, <1>3, <2>1 DEF TypeOK, readVars, commandVars
<1>5. ASSUME reply'[q].kind \notin {"performed", "receipt"}
      PROVE  CommandsAgree'
  <2>1. ASSUME NEW r \in Requests PROVE Unconcerned(r)
      BY <1>1, <1>2, <1>5 DEF Unconcerned
  <2> QED
      BY <1>1, <2>1, CommandsLeftAlone
<1>6. ASSUME reply'[q].kind # "performed"
      PROVE  ReadsAgree'
  <2>1. ASSUME NEW r \in Requests PROVE Absent(r)
      BY <1>1, <1>2, <1>6 DEF Absent
  <2> QED
      BY <1>1, <2>1, ReadsLeftAlone
<1>7. ASSUME NEW d \in {"accepted", "duplicate"},
             RecordOf(q).response = "accepted",
             reply'[q] = Receipt(i, d),
             d = "accepted" => phase[q] = "owner"
      PROVE  DispatchInv'
  <2>1. /\ reply'[q].kind = "receipt"
        /\ reply'[q].operationId = RecordOf(q).operationId
        /\ reply'[q].disposition = d
      BY <1>7 DEF Receipt, RecordOf
  <2>2. RecordOf(q).operationId \in Operations
      BY <1>2, <1>7 DEF CommandsAgree, RecordsTell, RecordOf
  <2>3. reply'[q] \in Replies
      BY <1>7, <2>2 DEF Receipt, Replies, RecordOf
  <2>4. RecordsTell'
      BY <1>1 DEF CommandsAgree, RecordsTell, commandVars
  <2>5. \A r \in Requests : Recorded(r)' <=> Recorded(r)
      BY <1>1 DEF Recorded, RecordOf, commandVars
  <2>6. \A r \in Requests : RecordOf(r)' = RecordOf(r)
      BY <1>1 DEF RecordOf, commandVars
  <2>7. RepliesTell'
    <3> SUFFICES ASSUME NEW r \in Requests
                 PROVE  /\ phase'[r] # "answered" => reply'[r] = NoReply
                        /\ phase'[r] \in {"owner", "duplicate"} => Recorded(r)'
                        /\ reply'[r].kind = "receipt" => HasReceipt(r)'
        BY DEF RepliesTell
    <3>1. CASE r = q
        BY <1>2, <1>7, <2>1, <2>5, <2>6, <3>1 DEF HasReceipt
    <3>2. CASE r # q
        BY <1>2, <2>5, <2>6, <3>2 DEF CommandsAgree, RepliesTell, HasReceipt
    <3> QED
        BY <3>1, <3>2
  <2>8. OneOwner'
    <3>1. ASSUME NEW r \in Requests, Owns(r)' PROVE Owns(r)
        BY <1>2, <1>7, <2>1, <3>1 DEF Owns
    <3> QED
        BY <1>1, <3>1 DEF OneOwner, CommandsAgree
  <2> QED
      BY <1>4, <1>6, <2>1, <2>3, <2>4, <2>7, <2>8 DEF CommandsAgree
<1>8. ASSUME NEW k \in {"duplicate_command", "internal_error"},
             reply'[q] = [kind |-> k]
      PROVE  DispatchInv'
  <2>1. reply'[q] \in Replies /\ reply'[q].kind \notin {"performed", "receipt"}
      BY <1>8 DEF Replies
  <2> QED
      BY <1>4, <1>5, <1>6, <2>1
<1> QED
    BY <1>7, <1>8, AnswerCommandFacts

-----------------------------------------------------------------------------
(* Snapshots and native actions.                                             *)

LEMMA ReadStartsAgrees ==
    ASSUME DispatchInv, NEW q \in Requests,
           DispatchSnapshot(q) \/ DispatchNativeAction(q)
    PROVE  DispatchInv'
<1> USE DEF DispatchInv
<1>1. /\ phase[q] = "idle" /\ reply[q] = NoReply
      /\ UNCHANGED <<commandVars, issuedNativeActions, worlds, published, seen>>
      /\ since' = [since EXCEPT ![q] = published]
    BY DEF DispatchSnapshot, DispatchNativeAction, ReadsAgree
<1>2. /\ sent' \in [Requests -> Bodies \cup {Unsent}]
      /\ \A r \in Requests \ {q} : sent'[r] = sent[r]
  <2>1. PICK body \in Bodies : sent' = [sent EXCEPT ![q] = body]
    <3>1. [endpoint |-> "snapshot"] \in Bodies
        BY DEF Bodies, SnapshotRequests
    <3>2. \A t \in Targets : [endpoint |-> "native-actions", targetId |-> t] \in Bodies
        BY DEF Bodies, NativeRequests
    <3> QED
        BY <3>1, <3>2 DEF DispatchSnapshot, DispatchNativeAction
  <2> QED
      BY <2>1 DEF TypeOK
<1>3. /\ latestRead' \in Requests \cup {NoRequest}
      /\ requestedRefresh' \in Requests \cup {NoRequest}
      /\ latestRead' \in {latestRead, q}
    BY DEF DispatchSnapshot, DispatchNativeAction, TypeOK
<1>4. \/ (Become(q, "reading") \/ Become(q, "joined")) /\ reply' = reply
      \/ Answer(q, [kind |-> "stale_target"])
    BY DEF DispatchSnapshot, DispatchNativeAction
<1>5. /\ phase' \in [Requests -> Phases]
      /\ reply' \in [Requests -> Replies]
      /\ phase'[q] \in {"reading", "joined", "answered"}
      /\ reply'[q].kind \in {"none", "stale_target"}
      /\ phase'[q] # "answered" => reply'[q] = NoReply
      /\ \A r \in Requests \ {q} : phase'[r] = phase[r] /\ reply'[r] = reply[r]
  <2>1. CASE (Become(q, "reading") \/ Become(q, "joined")) /\ reply' = reply
    <3>1. PICK p \in {"reading", "joined"} : phase' = [phase EXCEPT ![q] = p]
        BY <2>1 DEF Become
    <3>2. p \in Phases
        BY DEF Phases
    <3>3. reply'[q].kind = "none"
        BY <1>1, <2>1 DEF NoReply
    <3> QED
        BY <1>1, <2>1, <3>1, <3>2, <3>3 DEF TypeOK
  <2>2. CASE Answer(q, [kind |-> "stale_target"])
    <3>1. [kind |-> "stale_target"] \in Replies
        BY DEF Replies
    <3> QED
        BY <1>1, <2>2, <3>1 DEF TypeOK, Answer, Become, Phases
  <2> QED
      BY <1>4, <2>1, <2>2
<1>6. TypeOK'
  <2>1. since' \in [Requests -> Nat]
      BY <1>1 DEF TypeOK
  <2> QED
      BY <1>1, <1>2, <1>3, <1>5, <2>1 DEF TypeOK, commandVars
<1>7. CommandsAgree'
  <2>1. ASSUME NEW r \in Requests PROVE Unconcerned(r)
      BY <1>2, <1>5 DEF Unconcerned
  <2> QED
      BY <1>1, <2>1, CommandsLeftAlone
<1>8. ReadsAgree'
  <2> SUFFICES ASSUME NEW r \in Requests
               PROVE  /\ since'[r] <= published'
                      /\ phase'[r] \in {"observed", "rendering"} =>
                           seen'[r] \in DOMAIN worlds'
                      /\ phase'[r] = "observed" /\ latestRead' = r =>
                           published' <= seen'[r]
                      /\ reply'[r].kind = "performed" => Performed(r)'
                      /\ phase'[r] # "answered" => reply'[r] = NoReply
      BY DEF ReadsAgree
  <2>1. CASE r = q
      BY <1>1, <1>5, <2>1 DEF TypeOK
  <2>2. CASE r # q
      BY <1>1, <1>2, <1>3, <1>5, <2>2 DEF ReadsAgree, Performed, TypeOK
  <2> QED
      BY <2>1, <2>2
<1> QED
    BY <1>6, <1>7, <1>8

LEMMA ObserveAgrees ==
    ASSUME DispatchInv, NEW q \in Requests, Observe(q)
    PROVE  DispatchInv'
<1> USE DEF DispatchInv
<1>1. /\ UNCHANGED <<sent, reply, commandVars, issuedNativeActions, worlds,
                     published, latestRead, requestedRefresh, since>>
      /\ reply[q] = NoReply
    BY DEF Observe, ReadsAgree
<1>2. /\ phase' \in [Requests -> Phases] /\ phase'[q] = "observed"
      /\ seen' \in [Requests -> Nat] /\ seen'[q] = Len(worlds)
      /\ \A r \in Requests \ {q} : phase'[r] = phase[r] /\ seen'[r] = seen[r]
    BY DEF Observe, Become, TypeOK, Phases
<1>3. published \in DOMAIN worlds /\ DOMAIN worlds = 1..Len(worlds) /\ Len(worlds) \in Nat
    BY DEF TypeOK
<1>4. TypeOK'
    BY <1>1, <1>2 DEF TypeOK, commandVars
<1>5. CommandsAgree'
  <2>1. ASSUME NEW r \in Requests PROVE Unconcerned(r)
      BY <1>1, <1>2 DEF Unconcerned, NoReply
  <2> QED
      BY <1>1, <2>1, CommandsLeftAlone
<1>6. ReadsAgree'
  <2> SUFFICES ASSUME NEW r \in Requests
               PROVE  /\ since'[r] <= published'
                      /\ phase'[r] \in {"observed", "rendering"} =>
                           seen'[r] \in DOMAIN worlds'
                      /\ phase'[r] = "observed" /\ latestRead' = r =>
                           published' <= seen'[r]
                      /\ reply'[r].kind = "performed" => Performed(r)'
                      /\ phase'[r] # "answered" => reply'[r] = NoReply
      BY DEF ReadsAgree
  <2>1. CASE r = q
      BY <1>1, <1>2, <1>3, <2>1 DEF ReadsAgree, NoReply
  <2>2. CASE r # q
      BY <1>1, <1>2, <2>2 DEF ReadsAgree, Performed
  <2> QED
      BY <2>1, <2>2
<1> QED
    BY <1>4, <1>5, <1>6

(* What a read is answered with is no older than what is published, and is   *)
(* the same unless the read is the latest.                                   *)
LEMMA AnswersFacts ==
    ASSUME TypeOK, ReadsAgree, NEW q \in Requests, phase[q] = "observed",
           NEW w \in Answers(q)
    PROVE  /\ w \in DOMAIN worlds /\ w \in Nat
           /\ published <= w
           /\ \A r \in Requests \ {q} : latestRead = r => w = published
<1>1. seen[q] \in DOMAIN worlds /\ published \in DOMAIN worlds /\ DOMAIN worlds \subseteq Nat
    BY DEF ReadsAgree, TypeOK
<1>2. CASE latestRead = q
    BY <1>1, <1>2 DEF Answers, ReadsAgree
<1>3. CASE latestRead # q
    BY <1>1, <1>3 DEF Answers
<1> QED
    BY <1>2, <1>3

LEMMA RefreshEndsAgrees ==
    ASSUME DispatchInv, NEW q \in Requests, RefreshEnds(q)
    PROVE  DispatchInv'
<1> USE DEF DispatchInv
<1> DEFINE waiting == Joined(q)
<1>0. PICK w \in Answers(q) :
        /\ published' = w
        /\ phase' = [r \in Requests |->
                       IF r \in waiting THEN "rendering" ELSE phase[r]]
        /\ seen' = [r \in Requests |-> IF r \in waiting THEN w ELSE seen[r]]
    BY DEF RefreshEnds
<1>1. /\ UNCHANGED <<sent, reply, commandVars, issuedNativeActions, worlds,
                     latestRead, since>>
      /\ phase[q] = "observed" /\ published' = w
      /\ requestedRefresh' = NoRequest
      /\ phase' = [r \in Requests |->
                     IF r \in waiting THEN "rendering" ELSE phase[r]]
      /\ seen' = [r \in Requests |->
                     IF r \in waiting THEN w ELSE seen[r]]
    BY <1>0 DEF RefreshEnds, AtEndOfRefresh
<1>2. /\ w \in DOMAIN worlds /\ w \in Nat
      /\ published <= w
      /\ \A r \in Requests \ {q} : latestRead = r => w = published
    BY <1>1, AnswersFacts
<1>3. \A r \in waiting : reply[r] = NoReply
    BY <1>1 DEF ReadsAgree, Joined
<1> HIDE DEF waiting
<1>4. /\ \A r \in waiting : phase'[r] = "rendering" /\ seen'[r] = w
      /\ \A r \in Requests \ waiting : phase'[r] = phase[r] /\ seen'[r] = seen[r]
      /\ waiting \subseteq Requests /\ q \in waiting
    BY <1>1 DEF waiting, Joined
<1>5. TypeOK'
  <2>1. phase' \in [Requests -> Phases] /\ seen' \in [Requests -> Nat]
      BY <1>1, <1>2 DEF TypeOK, Phases
  <2> QED
      BY <1>1, <1>2, <2>1 DEF TypeOK, commandVars
<1>6. CommandsAgree'
  <2>1. ASSUME NEW r \in Requests PROVE Unconcerned(r)
      BY <1>1, <1>3, <1>4 DEF Unconcerned, NoReply
  <2> QED
      BY <1>1, <2>1, CommandsLeftAlone
<1>7. ReadsAgree'
  <2> SUFFICES ASSUME NEW r \in Requests
               PROVE  /\ since'[r] <= published'
                      /\ phase'[r] \in {"observed", "rendering"} =>
                           seen'[r] \in DOMAIN worlds'
                      /\ phase'[r] = "observed" /\ latestRead' = r =>
                           published' <= seen'[r]
                      /\ reply'[r].kind = "performed" => Performed(r)'
                      /\ phase'[r] # "answered" => reply'[r] = NoReply
      BY DEF ReadsAgree
  <2>1. since[r] \in Nat /\ published \in Nat
      BY DEF TypeOK
  <2>2. since[r] <= w
      BY <1>2, <2>1 DEF ReadsAgree
  <2>3. CASE r \in waiting
      BY <1>1, <1>2, <1>3, <1>4, <2>2, <2>3 DEF NoReply
  <2>4. CASE r \notin waiting
      BY <1>1, <1>2, <1>4, <2>2, <2>4 DEF ReadsAgree, Performed
  <2> QED
      BY <2>3, <2>4
<1> QED
    BY <1>5, <1>6, <1>7

LEMMA RefreshFailsAgrees ==
    ASSUME DispatchInv, NEW q \in Requests, RefreshFails(q)
    PROVE  DispatchInv'
<1> USE DEF DispatchInv
<1> DEFINE waiting == Joined(q)
<1>1. /\ UNCHANGED <<sent, commandVars, issuedNativeActions, worlds, latestRead,
                     since, published, seen>>
      /\ requestedRefresh' = NoRequest
      /\ phase' = [r \in Requests |->
                     IF r \in waiting THEN "answered" ELSE phase[r]]
      /\ reply' = [r \in Requests |->
                     IF r \in waiting THEN [kind |-> "internal_error"] ELSE reply[r]]
    BY DEF RefreshFails, AtEndOfRefresh
<1> HIDE DEF waiting
<1>2. [kind |-> "internal_error"] \in Replies
    BY DEF Replies
<1>3. TypeOK'
  <2>1. phase' \in [Requests -> Phases] /\ reply' \in [Requests -> Replies]
      BY <1>1, <1>2 DEF TypeOK, Phases
  <2> QED
      BY <1>1, <2>1 DEF TypeOK, commandVars
<1>4. ASSUME NEW r \in Requests
      PROVE  \/ phase'[r] = phase[r] /\ reply'[r] = reply[r]
             \/ phase'[r] = "answered" /\ reply'[r].kind = "internal_error"
    BY <1>1
<1>5. CommandsAgree'
  <2>1. ASSUME NEW r \in Requests PROVE Unconcerned(r)
      BY <1>1, <1>4 DEF Unconcerned
  <2> QED
      BY <1>1, <2>1, CommandsLeftAlone
<1>6. ReadsAgree'
    BY <1>1, <1>4 DEF ReadsAgree, Performed
<1> QED
    BY <1>3, <1>5, <1>6

LEMMA AnswerSnapshotAgrees ==
    ASSUME DispatchInv, NEW q \in Requests, AnswerSnapshot(q)
    PROVE  DispatchInv'
<1> USE DEF DispatchInv
<1>1. /\ UNCHANGED <<sent, commandVars, readVars, since>>
      /\ phase[q] = "rendering" /\ seen[q] \in DOMAIN worlds
      /\ issuedNativeActions' \in {worlds[seen[q]], issuedNativeActions}
    BY DEF AnswerSnapshot, ReadsAgree
<1>2. /\ phase' \in [Requests -> Phases] /\ phase'[q] = "answered"
      /\ reply' \in [Requests -> Replies] /\ reply'[q].kind \in {"snapshot", "internal_error"}
      /\ \A r \in Requests \ {q} : phase'[r] = phase[r] /\ reply'[r] = reply[r]
  <2>1. /\ [kind |-> "snapshot", world |-> seen[q]] \in Replies
        /\ [kind |-> "internal_error"] \in Replies
      BY DEF TypeOK, Replies
  <2>2. CASE Answer(q, [kind |-> "snapshot", world |-> seen[q]])
      BY <1>1, <2>1, <2>2 DEF Answer, Become, TypeOK, Phases
  <2>3. CASE Answer(q, [kind |-> "internal_error"])
      BY <1>1, <2>1, <2>3 DEF Answer, Become, TypeOK, Phases
  <2> QED
      BY <2>2, <2>3 DEF AnswerSnapshot
<1>3. worlds[seen[q]] \subseteq Targets
    BY <1>1 DEF TypeOK
<1>4. TypeOK'
    BY <1>1, <1>2, <1>3 DEF TypeOK, commandVars, readVars
<1>5. ASSUME NEW r \in Requests PROVE Unconcerned(r) /\ Absent(r)
    BY <1>1, <1>2 DEF Unconcerned, Absent
<1> QED
    BY <1>1, <1>4, <1>5, CommandsLeftAlone, ReadsLeftAlone

LEMMA PerformNativeActionAgrees ==
    ASSUME DispatchInv, NEW q \in Requests, PerformNativeAction(q)
    PROVE  DispatchInv'
<1> USE DEF DispatchInv
<1>1. /\ UNCHANGED <<sent, commandVars, issuedNativeActions, worlds, seen,
                     latestRead, requestedRefresh, since>>
      /\ phase[q] = "observed"
    BY DEF PerformNativeAction
<1>0. published \in Answers(q)
    BY DEF Answers
<1>a. PICK w \in Answers(q) :
        /\ published' = w
        /\ \/ Resolves(q, w) /\ Answer(q, [kind |-> "performed", world |-> w])
           \/ Answer(q, [kind |-> "unavailable"])
    BY <1>0 DEF PerformNativeAction
<1>2. /\ w \in DOMAIN worlds /\ w \in Nat
      /\ published <= w
      /\ \A r \in Requests \ {q} : latestRead = r => w = published
    BY <1>1, AnswersFacts
<1>3. PICK answer \in Replies :
        /\ answer.kind \in {"performed", "unavailable"}
        /\ answer.kind = "performed" => answer.world = w /\ Resolves(q, w)
        /\ Answer(q, answer)
  <2>1. [kind |-> "performed", world |-> w] \in Replies
      BY <1>2 DEF Replies
  <2>2. [kind |-> "unavailable"] \in Replies
      BY DEF Replies
  <2> QED
      BY <1>a, <2>1, <2>2
<1>4. /\ phase' \in [Requests -> Phases] /\ phase'[q] = "answered"
      /\ reply' \in [Requests -> Replies] /\ reply'[q] = answer
      /\ \A r \in Requests \ {q} : phase'[r] = phase[r] /\ reply'[r] = reply[r]
    BY <1>3 DEF Answer, Become, TypeOK, Phases
<1>5. TypeOK'
    BY <1>1, <1>a, <1>2, <1>4 DEF TypeOK, commandVars
<1>6. CommandsAgree'
  <2>1. ASSUME NEW r \in Requests PROVE Unconcerned(r)
      BY <1>1, <1>3, <1>4 DEF Unconcerned
  <2> QED
      BY <1>1, <2>1, CommandsLeftAlone
<1>7. ReadsAgree'
  <2> SUFFICES ASSUME NEW r \in Requests
               PROVE  /\ since'[r] <= published'
                      /\ phase'[r] \in {"observed", "rendering"} =>
                           seen'[r] \in DOMAIN worlds'
                      /\ phase'[r] = "observed" /\ latestRead' = r =>
                           published' <= seen'[r]
                      /\ reply'[r].kind = "performed" => Performed(r)'
                      /\ phase'[r] # "answered" => reply'[r] = NoReply
      BY DEF ReadsAgree
  <2>1. since[r] \in Nat /\ published \in Nat
      BY DEF TypeOK
  <2>2. since[r] <= w
      BY <1>2, <2>1 DEF ReadsAgree
  <2>3. CASE r = q
      BY <1>1, <1>a, <1>2, <1>3, <1>4, <2>2, <2>3 DEF Performed, Resolves
  <2>4. CASE r # q
      BY <1>1, <1>a, <1>2, <1>4, <2>2, <2>4 DEF ReadsAgree, Performed
  <2> QED
      BY <2>3, <2>4
<1> QED
    BY <1>5, <1>6, <1>7

LEMMA RepositoryChangesAgrees ==
    ASSUME DispatchInv, RepositoryChanges
    PROVE  DispatchInv'
<1> USE DEF DispatchInv
<1>1. UNCHANGED <<sent, phase, reply, commandVars, issuedNativeActions,
                  published, seen, latestRead, requestedRefresh, since>>
    BY DEF RepositoryChanges
<1>2. PICK offered \in SUBSET Targets : worlds' = Append(worlds, offered)
    BY DEF RepositoryChanges
<1>3. /\ worlds' \in Seq(SUBSET Targets)
      /\ \A n \in DOMAIN worlds : n \in DOMAIN worlds' /\ worlds'[n] = worlds[n]
    BY <1>2 DEF TypeOK
<1>4. TypeOK'
    BY <1>1, <1>3 DEF TypeOK, commandVars
<1>5. CommandsAgree'
    BY <1>1, CommandsLeftAlone DEF Unconcerned
<1>6. ReadsAgree'
    BY <1>1, <1>3 DEF ReadsAgree, Performed
<1> QED
    BY <1>4, <1>5, <1>6

-----------------------------------------------------------------------------
(* Theorems.                                                                 *)

LEMMA NextAgrees == DispatchInv /\ [Next]_vars => DispatchInv'
<1> SUFFICES ASSUME DispatchInv, [Next]_vars PROVE DispatchInv'
    OBVIOUS
<1>1. ASSUME NEW q \in Requests, DispatchCommand(q) PROVE DispatchInv'
    BY <1>1, DispatchCommandAgrees
<1>2. ASSUME NEW q \in Requests, AnswerCommand(q) PROVE DispatchInv'
    BY <1>2, AnswerCommandAgrees
<1>3. ASSUME NEW q \in Requests, DispatchSnapshot(q) \/ DispatchNativeAction(q)
      PROVE  DispatchInv'
    BY <1>3, ReadStartsAgrees
<1>4. ASSUME NEW q \in Requests, Observe(q) PROVE DispatchInv'
    BY <1>4, ObserveAgrees
<1>5. ASSUME NEW q \in Requests, RefreshEnds(q) \/ RefreshFails(q)
      PROVE  DispatchInv'
    BY <1>5, RefreshEndsAgrees, RefreshFailsAgrees
<1>6. ASSUME NEW q \in Requests, AnswerSnapshot(q) PROVE DispatchInv'
    BY <1>6, AnswerSnapshotAgrees
<1>7. ASSUME NEW q \in Requests, PerformNativeAction(q) PROVE DispatchInv'
    BY <1>7, PerformNativeActionAgrees
<1>8. ASSUME NEW i \in Ids, StartHandler(i) PROVE DispatchInv'
    BY <1>8, StartHandlerAgrees
<1>9. ASSUME NEW i \in Ids, EndHandler(i) PROVE DispatchInv'
    BY <1>9, EndHandlerAgrees
<1>10. CASE RepositoryChanges
    BY <1>10, RepositoryChangesAgrees
<1>11. CASE UNCHANGED vars
  <2>1. TypeOK'
      BY <1>11 DEF vars, commandVars, readVars, DispatchInv, TypeOK
  <2>2. CommandsAgree'
      BY <1>11, CommandsLeftAlone DEF vars, DispatchInv, Unconcerned
  <2>3. ReadsAgree'
      BY <1>11, ReadsLeftAlone DEF vars, DispatchInv, Absent
  <2> QED
      BY <2>1, <2>2, <2>3 DEF DispatchInv
<1> QED
    BY <1>1, <1>2, <1>3, <1>4, <1>5, <1>6, <1>7, <1>8, <1>9, <1>10, <1>11 DEF Next

(* The invariant of the dispatcher: records, receipts and reads agree,       *)
(* whatever is sent in whatever order (protocol-dispatch.ts:231-271).        *)
THEOREM DispatchInvariance == Spec => []DispatchInv
<1> QED
    BY InitAgrees, NextAgrees, PTL DEF Spec

(* A native action is only performed on a target of a state no older than    *)
(* what was published when its request came, although the table that admits  *)
(* it may be older (protocol-dispatch.ts:290-320).                           *)
THEOREM ActionsAreCurrent == Spec => []PerformedOnCurrentTarget
<1>1. DispatchInv => PerformedOnCurrentTarget
  <2> SUFFICES ASSUME DispatchInv, NEW q \in Requests, reply[q].kind = "performed"
               PROVE  /\ reply[q].world >= since[q]
                      /\ sent[q].targetId \in worlds[reply[q].world]
      BY DEF PerformedOnCurrentTarget
  <2>1. Performed(q)
      BY DEF DispatchInv, ReadsAgree
  <2> QED
      BY <2>1 DEF Performed, DispatchInv, TypeOK
<1> QED
    BY <1>1, DispatchInvariance, PTL

-----------------------------------------------------------------------------
(* The dispatcher implements CommandOnce.                                    *)

(* What the records tell in the terms of CommandOnce.                        *)
LEMMA MappingFacts ==
    ASSUME DispatchInv, NEW i \in Ids
    PROVE  /\ started[i] = <<>> => StartedCommand(i) = NoCommand
           /\ \A c \in Commands : started[i] = <<c>> => StartedCommand(i) = c
           /\ commandRecords[i].operationId \notin Operations =>
                commandRecords[i].operationId = NoOperation
<1>1. commandRecords[i].operationId \in Operations \cup {NoOperation}
    BY DEF DispatchInv, TypeOK
<1>2. ASSUME started[i] = <<>> PROVE StartedCommand(i) = NoCommand
  <2>1. Len(started[i]) = 0
      BY <1>2
  <2> QED
      BY <2>1 DEF StartedCommand
<1>3. ASSUME NEW c \in Commands, started[i] = <<c>> PROVE StartedCommand(i) = c
  <2>1. Len(started[i]) = 1 /\ started[i][1] = c
      BY <1>3
  <2> QED
      BY <2>1 DEF StartedCommand
<1> QED
    BY <1>1, <1>2, <1>3

(* A step that starts and accepts nothing and gives no receipt is no step of *)
(* CommandOnce.                                                              *)
LEMMA Stutters ==
    ASSUME \A i \in Ids : /\ started'[i] = started[i]
                          /\ commandRecords'[i].operationId = commandRecords[i].operationId,
           \A q \in Requests : ReceiptOf(q)' = ReceiptOf(q)
    PROVE  UNCHANGED Once!vars
<1>1. \A i \in Ids : StartedCommand(i)' = StartedCommand(i)
    BY DEF StartedCommand
<1> QED
    BY <1>1 DEF Once!vars

LEMMA DispatchCommandStutters ==
    ASSUME DispatchInv, NEW q \in Requests, DispatchCommand(q)
    PROVE  UNCHANGED Once!vars
<1> USE DEF DispatchInv
<1>1. /\ reply[q] = NoReply /\ reply'[q].kind # "receipt"
      /\ \A r \in Requests \ {q} : sent'[r] = sent[r] /\ reply'[r] = reply[r]
      /\ started' = started
    BY DEF DispatchCommand, Answer, ReadsAgree, TypeOK, NoReply
<1>2. \A i \in Ids : commandRecords'[i].operationId = commandRecords[i].operationId
  <2>1. ASSUME NEW body \in CommandRequests, IsNew(body), Record(body)
        PROVE  \A i \in Ids : commandRecords'[i].operationId = commandRecords[i].operationId
    <3> DEFINE i == body.clientCommandId
    <3>1. /\ commandRecords'[i] =
               [fingerprint |-> body.command, response |-> "queued",
                operationId |-> NoOperation]
          /\ \A j \in Ids \ {i} : commandRecords'[j] = commandRecords[j]
        BY <2>1, NewRecordFacts
    <3>2. commandRecords'[i].operationId = NoOperation
        BY <3>1
    <3>3. commandRecords[i].operationId = NoOperation
        BY <2>1 DEF IsNew, NoRecord
    <3> QED
        BY <3>1, <3>2, <3>3
  <2> QED
      BY <2>1 DEF DispatchCommand
<1>3. \A r \in Requests : ReceiptOf(r)' = ReceiptOf(r)
    BY <1>1 DEF ReceiptOf, NoReply
<1> QED
    BY <1>1, <1>2, <1>3, Stutters

LEMMA StartHandlerStarts ==
    ASSUME DispatchInv, NEW i \in Ids, StartHandler(i)
    PROVE  \E c \in Commands : Once!Start(i, c)
<1> DEFINE c == commandRecords[i].fingerprint
<1>1. /\ DispatchInv' /\ MovesOn(i) /\ started[i] = <<>> /\ c \in Commands
      /\ commandRecords'[i].operationId = commandRecords[i].operationId
      /\ UNCHANGED <<sent, reply>>
    BY StartHandlerAgrees DEF StartHandler
<1> HIDE DEF c
<1>2. StartedCommand(i) = NoCommand
    BY <1>1, MappingFacts
<1>3. StartedCommand(i)' = c
    BY <1>1 DEF MovesOn, StartedCommand, c
<1>4. \A j \in Ids \ {i} : StartedCommand(j)' = StartedCommand(j)
    BY <1>1 DEF MovesOn, StartedCommand
<1>5. \A j \in Ids : commandRecords'[j].operationId = commandRecords[j].operationId
    BY <1>1 DEF MovesOn
<1>6. \A q \in Requests : ReceiptOf(q)' = ReceiptOf(q)
    BY <1>1 DEF ReceiptOf
<1> QED
    BY <1>1, <1>2, <1>3, <1>4, <1>5, <1>6 DEF Once!Start

LEMMA EndHandlerAccepts ==
    ASSUME DispatchInv, NEW i \in Ids, EndHandler(i)
    PROVE  (\E o \in Operations : Once!Accept(i, o)) \/ UNCHANGED Once!vars
<1>1. /\ DispatchInv' /\ MovesOn(i) /\ started' = started
      /\ commandRecords[i].operationId \notin Operations
      /\ commandRecords'[i].operationId \in Operations \cup {NoOperation}
      /\ UNCHANGED <<sent, reply>>
    BY EndHandlerAgrees DEF EndHandler
<1>2. commandRecords[i].operationId = NoOperation
    BY <1>1, MappingFacts
<1>3. \A j \in Ids \ {i} : commandRecords'[j].operationId = commandRecords[j].operationId
    BY <1>1 DEF MovesOn
<1>4. \A q \in Requests : ReceiptOf(q)' = ReceiptOf(q)
    BY <1>1 DEF ReceiptOf
<1>5. CASE commandRecords'[i].operationId = NoOperation
  <2>1. \A j \in Ids : commandRecords'[j].operationId = commandRecords[j].operationId
      BY <1>2, <1>3, <1>5
  <2> QED
      BY <1>1, <1>4, <2>1, Stutters
<1>6. ASSUME NEW o \in Operations, commandRecords'[i].operationId = o
      PROVE  Once!Accept(i, o)
  <2>1. started[i] = <<commandRecords[i].fingerprint>>
        /\ commandRecords[i].fingerprint \in Commands
      BY <1>1 DEF MovesOn, DispatchInv, CommandsAgree, RecordsTell
  <2>2. StartedCommand(i) # NoCommand
      BY <2>1, MappingFacts, DispatchAssumption
  <2>3. \A j \in Ids : StartedCommand(j)' = StartedCommand(j)
      BY <1>1 DEF StartedCommand
  <2>4. [j \in Ids |-> commandRecords[j].operationId]' =
            [[j \in Ids |-> commandRecords[j].operationId] EXCEPT ![i] = o]
      BY <1>3, <1>6
  <2> QED
      BY <1>2, <1>4, <2>2, <2>3, <2>4 DEF Once!Accept
<1> QED
    BY <1>1, <1>5, <1>6

(* A receipt of the dispatcher is one of CommandOnce.                        *)
ReceiptsAgree ==
    \A q \in Requests : reply[q].kind = "receipt" =>
        /\ sent[q].clientCommandId \in Ids /\ sent[q].command \in Commands
        /\ StartedCommand(sent[q].clientCommandId) = sent[q].command
        /\ RecordOf(q).operationId \in Operations
        /\ ReceiptOf(q) =
             [clientCommandId |-> sent[q].clientCommandId,
              command |-> sent[q].command,
              operationId |-> RecordOf(q).operationId,
              disposition |-> reply[q].disposition]

LEMMA ReceiptFacts == DispatchInv => ReceiptsAgree
<1> SUFFICES ASSUME DispatchInv, NEW q \in Requests, reply[q].kind = "receipt"
             PROVE  /\ sent[q].clientCommandId \in Ids /\ sent[q].command \in Commands
                    /\ StartedCommand(sent[q].clientCommandId) = sent[q].command
                    /\ RecordOf(q).operationId \in Operations
                    /\ ReceiptOf(q) =
                         [clientCommandId |-> sent[q].clientCommandId,
                          command |-> sent[q].command,
                          operationId |-> RecordOf(q).operationId,
                          disposition |-> reply[q].disposition]
    BY DEF ReceiptsAgree
<1> DEFINE i == sent[q].clientCommandId
<1>1. HasReceipt(q)
    BY DEF DispatchInv, CommandsAgree, RepliesTell
<1>2. i \in Ids /\ sent[q].command \in Commands
    BY <1>1 DEF HasReceipt, Recorded, CommandRequests
<1>3. /\ started[i] = <<sent[q].command>>
      /\ commandRecords[i].operationId \in Operations
    BY <1>1, <1>2 DEF HasReceipt, Recorded, RecordOf, DispatchInv,
                      CommandsAgree, RecordsTell
<1> QED
    BY <1>1, <1>2, <1>3, MappingFacts DEF HasReceipt, ReceiptOf, RecordOf

LEMMA AnswerCommandAnswers ==
    ASSUME DispatchInv, NEW q \in Requests, AnswerCommand(q)
    PROVE  (\E i \in Ids : Once!Answer(q, i)) \/ UNCHANGED Once!vars
<1> DEFINE i == sent[q].clientCommandId
<1>1. DispatchInv'
    BY AnswerCommandAgrees
<1>2. /\ Recorded(q) /\ reply[q] = NoReply /\ i \in Ids
      /\ \A r \in Requests \ {q} : phase'[r] = phase[r] /\ reply'[r] = reply[r]
      /\ UNCHANGED <<sent, started, commandRecords>>
    BY AnswerCommandFacts DEF AnswerCommand, commandVars
<1>3. \A r \in Requests \ {q} : ReceiptOf(r)' = ReceiptOf(r)
    BY <1>2 DEF ReceiptOf
<1>4. ReceiptOf(q) = NoReceipt
    BY <1>2 DEF ReceiptOf, NoReply
<1>5. \A j \in Ids : StartedCommand(j)' = StartedCommand(j)
    BY <1>2 DEF StartedCommand
<1>6. ASSUME NEW d \in {"accepted", "duplicate"},
             RecordOf(q).response = "accepted", reply'[q] = Receipt(i, d),
             d = "accepted" => phase[q] = "owner"
      PROVE  Once!Answer(q, i)
  <2> DEFINE given == [clientCommandId |-> i, command |-> StartedCommand(i),
                       operationId |-> commandRecords[i].operationId,
                       disposition |-> d]
  <2>1. reply'[q].kind = "receipt" /\ reply'[q].disposition = d
      BY <1>6 DEF Receipt
  <2>2. /\ i \in Ids /\ sent[q].command \in Commands
        /\ StartedCommand(i)' = sent'[q].command
        /\ commandRecords[i].operationId \in Operations
        /\ ReceiptOf(q)' = [clientCommandId |-> i, command |-> sent[q].command,
                            operationId |-> commandRecords[i].operationId,
                            disposition |-> d]
    <3>1. ReceiptsAgree'
        BY <1>1, ReceiptFacts, PTL
    <3> QED
        BY <1>2, <2>1, <3>1 DEF RecordOf, ReceiptsAgree
  <2>3. ReceiptOf(q)' = given /\ given \in Receipts
      BY <1>2, <1>5, <2>2 DEF Receipts
  <2>4. ASSUME d = "accepted", NEW r \in Requests PROVE ReceiptOf(r) # given
    <3>1. CASE reply[r].kind # "receipt"
        BY <2>3, <3>1, DispatchAssumption DEF ReceiptOf
    <3>2. CASE reply[r].kind = "receipt" /\ ReceiptOf(r) = given
      <4>1. sent[r].clientCommandId = i /\ reply[r].disposition = "accepted"
          BY <2>4, <3>2 DEF ReceiptOf
      <4>2. Owns(r) /\ Owns(q)
          BY <1>6, <2>4, <3>2, <4>1 DEF Owns
      <4>3. r = q
          BY <4>1, <4>2 DEF DispatchInv, CommandsAgree, OneOwner
      <4> QED
          BY <1>2, <3>2, <4>3 DEF NoReply
    <3> QED
        BY <3>1, <3>2
  <2>5. commandRecords[i].operationId # NoOperation
      BY <2>2, DispatchAssumption
  <2>6. [r \in Requests |-> ReceiptOf(r)]' =
            [[r \in Requests |-> ReceiptOf(r)] EXCEPT ![q] = given]
      BY <1>3, <2>3
  <2>7. Once!Receipt(i, d) = given
      BY <2>2 DEF Once!Receipt
  <2> HIDE DEF given
  <2>8. [j \in Ids |-> StartedCommand(j)]' = [j \in Ids |-> StartedCommand(j)]
      BY <1>5
  <2>9. [j \in Ids |-> commandRecords[j].operationId]' =
            [j \in Ids |-> commandRecords[j].operationId]
      BY <1>2
  <2>10. CASE d = "accepted"
      BY <1>2, <1>4, <2>4, <2>5, <2>6, <2>7, <2>8, <2>9, <2>10 DEF Once!Answer
  <2>11. CASE d = "duplicate"
      BY <1>2, <1>4, <2>5, <2>6, <2>7, <2>8, <2>9, <2>11 DEF Once!Answer
  <2> QED
      BY <2>10, <2>11
<1>7. ASSUME NEW k \in {"duplicate_command", "internal_error"},
             reply'[q] = [kind |-> k]
      PROVE  UNCHANGED Once!vars
  <2>1. ReceiptOf(q)' = ReceiptOf(q)
      BY <1>4, <1>7 DEF ReceiptOf
  <2> QED
      BY <1>2, <1>3, <2>1, Stutters
<1> QED
    BY <1>2, <1>6, <1>7, AnswerCommandFacts

(* Reads and the answers to them give no receipts.                           *)
LEMMA ReadsStutter ==
    ASSUME DispatchInv, NEW q \in Requests,
           \/ DispatchSnapshot(q) \/ DispatchNativeAction(q) \/ Observe(q)
           \/ RefreshEnds(q) \/ AnswerSnapshot(q) \/ PerformNativeAction(q)
    PROVE  UNCHANGED Once!vars
<1>1. UNCHANGED commandVars
    BY DEF DispatchSnapshot, DispatchNativeAction, Observe, RefreshEnds,
           AtEndOfRefresh,
           AnswerSnapshot, PerformNativeAction
<1>2. \A r \in Requests \ {q} : sent'[r] = sent[r] /\ reply'[r] = reply[r]
    BY DEF DispatchSnapshot, DispatchNativeAction, Observe, RefreshEnds,
           AtEndOfRefresh,
           AnswerSnapshot, PerformNativeAction, Answer, DispatchInv, TypeOK
<1>3. phase[q] # "answered"
    BY DEF DispatchSnapshot, DispatchNativeAction, Observe, RefreshEnds,
           AtEndOfRefresh,
           AnswerSnapshot, PerformNativeAction
<1>4. reply[q].kind # "receipt"
    BY <1>3 DEF DispatchInv, ReadsAgree, NoReply
<1>5. reply'[q].kind # "receipt"
    BY <1>4 DEF DispatchSnapshot, DispatchNativeAction, Observe, RefreshEnds,
           AtEndOfRefresh,
           AnswerSnapshot, PerformNativeAction, Answer, DispatchInv, TypeOK
<1>6. \A r \in Requests : ReceiptOf(r)' = ReceiptOf(r)
    BY <1>2, <1>4, <1>5 DEF ReceiptOf
<1> QED
    BY <1>1, <1>6, Stutters DEF commandVars

(* Neither does a refresh that fails: those it answers had no answer.        *)
LEMMA RefreshFailsStutters ==
    ASSUME DispatchInv, NEW q \in Requests, RefreshFails(q)
    PROVE  UNCHANGED Once!vars
<1>1. UNCHANGED <<sent, commandVars>>
    BY DEF RefreshFails, AtEndOfRefresh
<1>2. ASSUME NEW r \in Requests PROVE ReceiptOf(r)' = ReceiptOf(r)
  <2>1. CASE r \in Joined(q)
    <3>1. reply'[r] = [kind |-> "internal_error"]
        BY <2>1 DEF RefreshFails
    <3>2. phase[r] # "answered"
        BY <2>1 DEF RefreshFails, AtEndOfRefresh, Joined
    <3>3. reply[r] = NoReply
        BY <3>2 DEF DispatchInv, ReadsAgree
    <3> QED
        BY <3>1, <3>3 DEF ReceiptOf, NoReply
  <2>2. CASE r \notin Joined(q)
    <3>1. reply'[r] = reply[r]
        BY <2>2 DEF RefreshFails
    <3> QED
        BY <1>1, <3>1 DEF ReceiptOf
  <2> QED
      BY <2>1, <2>2
<1> QED
    BY <1>1, <1>2, Stutters DEF commandVars

(* However often and in whatever order commands are sent, one command runs   *)
(* under an id, every receipt names its operation, and one receipt at most   *)
(* says "accepted" (protocol-dispatch.ts:241-270).                           *)
THEOREM Refinement == Spec => ImplementsCommandOnce
<1>1. Init => Once!Init
  <2> SUFFICES ASSUME Init PROVE Once!Init
      OBVIOUS
  <2>1. \A i \in Ids : StartedCommand(i) = NoCommand
      BY InitAgrees, MappingFacts DEF Init
  <2>2. \A q \in Requests : ReceiptOf(q) = NoReceipt
      BY DEF Init, ReceiptOf, NoReply
  <2> QED
      BY <2>1, <2>2 DEF Init, NoRecord, Once!Init
<1>2. DispatchInv /\ [Next]_vars => [Once!Next]_(Once!vars)
  <2> SUFFICES ASSUME DispatchInv, [Next]_vars
               PROVE  Once!Next \/ UNCHANGED Once!vars
      OBVIOUS
  <2>1. ASSUME NEW q \in Requests, DispatchCommand(q)
        PROVE  UNCHANGED Once!vars
      BY <2>1, DispatchCommandStutters
  <2>2. ASSUME NEW q \in Requests, AnswerCommand(q)
        PROVE  Once!Next \/ UNCHANGED Once!vars
      BY <2>2, AnswerCommandAnswers DEF Once!Next
  <2>3. ASSUME NEW q \in Requests,
               \/ DispatchSnapshot(q) \/ DispatchNativeAction(q) \/ Observe(q)
               \/ RefreshEnds(q) \/ AnswerSnapshot(q) \/ PerformNativeAction(q)
        PROVE  UNCHANGED Once!vars
      BY <2>3, ReadsStutter
  <2>4. ASSUME NEW i \in Ids, StartHandler(i) PROVE Once!Next
      BY <2>4, StartHandlerStarts DEF Once!Next
  <2>5. ASSUME NEW i \in Ids, EndHandler(i)
        PROVE  Once!Next \/ UNCHANGED Once!vars
      BY <2>5, EndHandlerAccepts DEF Once!Next
  <2>6. CASE RepositoryChanges \/ UNCHANGED vars
    <3>1. UNCHANGED <<sent, reply, started, commandRecords>>
        BY <2>6 DEF RepositoryChanges, vars, commandVars
    <3> QED
        BY <3>1, Stutters DEF ReceiptOf
  <2>7. ASSUME NEW q \in Requests, RefreshFails(q)
        PROVE  UNCHANGED Once!vars
      BY <2>7, RefreshFailsStutters
  <2> QED
      BY <2>1, <2>2, <2>3, <2>4, <2>5, <2>6, <2>7 DEF Next
<1> QED
    BY <1>1, <1>2, DispatchInvariance, PTL DEF Spec, ImplementsCommandOnce, Once!Spec
===============================================================================
