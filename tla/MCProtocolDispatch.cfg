\* Three requests of any kind: one id, two commands, a target that comes and goes.
CONSTANTS
    Ids = {i1}
    Commands = {c1, c2}
    Operations = {o1, o2}
    Requests = {q1, q2, q3}
    Targets = {t1}
    NoCommand = NoCommand
    NoOperation = NoOperation
    NoReceipt = NoReceipt
    NoRequest = NoRequest
    MaxWorlds = 3
SPECIFICATION FairSpec
INVARIANTS PerformedOnCurrentTarget
PROPERTIES ImplementsCommandOnce EveryRequestIsAnswered
CHECK_DEADLOCK FALSE
