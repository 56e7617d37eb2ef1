SPECIFICATION AnsweredSpec
CONSTANTS
    Loops = {l1, l2}
    Callers = {k1, k2}
    Caller = Caller
    NoOne = NoOne
    Offline = FALSE
    MaxSignals = 2
    MaxReceivers = 1
INVARIANTS
    ClientTypeOK
    RunnerHeld
    OneLoop
PROPERTIES
    LoopEndsForCause
    ConnectReturns
    ChatGetsThrough
    ClosingEndsLoop
