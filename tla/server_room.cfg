SPECIFICATION Spec
CONSTANTS
    Loops = {l1}
    NoOne = NoOne
    MaxSignals = 0
    Conns = {c1, c2, c3}
    Names = {n1, n2}
    Online = FALSE
    MaxPlayers = 3
    EntitySpan = 3
    MaxReceivers = 1
    MaxChats = 1
SYMMETRY Symmetry
CONSTRAINT OnlyPlayers
INVARIANTS
    EntityIdsDistinct
    JoinFirst
    BroadcastCoverage
    RegisteredHasJoined
PROPERTIES
    NoDisplacement
    ImplementsRoom
