SPECIFICATION BusyListenerSpec
CONSTANTS
    Loops = {l1, l2, l3}
    NoOne = NoOne
    MaxSignals = 2
INVARIANTS
    ListenerTypeOK
    RunningMatchesLoop
    ShutdownIsFinal
PROPERTIES
    DroppingEndsBusyServer
