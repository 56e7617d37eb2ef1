SPECIFICATION Spec
CONSTANTS
    Loops = {l1}
    NoOne = NoOne
    MaxSignals = 0
    Conns = {c1, c2}
    Names = {n1}
    Online = FALSE
    MaxPlayers = 1
    EntitySpan = 2
    MaxReceivers = 1
    MaxChats = 1
INVARIANTS
    SomeCheckHolds
