SPECIFICATION Spec
CONSTANTS
    Loops = {l1}
    Callers = {k1}
    Caller = Caller
    NoOne = NoOne
    Offline = FALSE
    MaxSignals = 1
    MaxReceivers = 1
INVARIANTS
    ConnectedMeansPlay
