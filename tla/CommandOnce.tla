----------------------------- MODULE CommandOnce -----------------------------
(* What the protocol promises of a command that may be sent several times:  *)
(* a client command id starts one command at most, every receipt given for  *)
(* it tells of the operation of that command, and one receipt at most says  *)
(* that the command was accepted just now.                                  *)
CONSTANTS Ids, Commands, Operations, Requests, NoCommand, NoOperation, NoReceipt

VARIABLES
    started,   \* started[i]: the command that was run under the id i
    outcome,   \* outcome[i]: the operation it was answered with
    receipts   \* receipts[q]: the receipt the request q was answered with

vars == <<started, outcome, receipts>>

Init ==
    /\ started = [i \in Ids |-> NoCommand]
    /\ outcome = [i \in Ids |-> NoOperation]
    /\ receipts = [q \in Requests |-> NoReceipt]

Start(i, c) ==
    /\ started[i] = NoCommand
    /\ started' = [started EXCEPT ![i] = c]
    /\ UNCHANGED <<outcome, receipts>>

Accept(i, o) ==
    /\ started[i] # NoCommand
    /\ outcome[i] = NoOperation
    /\ outcome' = [outcome EXCEPT ![i] = o]
    /\ UNCHANGED <<started, receipts>>

Receipt(i, disposition) ==
    [clientCommandId |-> i, command |-> started[i],
     operationId |-> outcome[i], disposition |-> disposition]

Answer(q, i) ==
    /\ outcome[i] # NoOperation
    /\ receipts[q] = NoReceipt
    /\ \/ receipts' = [receipts EXCEPT ![q] = Receipt(i, "duplicate")]
       \/ /\ \A r \in Requests : receipts[r] # Receipt(i, "accepted")
          /\ receipts' = [receipts EXCEPT ![q] = Receipt(i, "accepted")]
    /\ UNCHANGED <<started, outcome>>

Next ==
    \/ \E i \in Ids, c \in Commands : Start(i, c)
    \/ \E i \in Ids, o \in Operations : Accept(i, o)
    \/ \E q \in Requests, i \in Ids : Answer(q, i)

Spec == Init /\ [][Next]_vars
=============================================================================
