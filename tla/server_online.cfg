SPECIFICATION Spec
CONSTANTS
    Loops = {l1}
    NoOne = NoOne
    MaxSignals = 0
    Conns = {c1, c2}
    Names = {n1, n2}
    Online = TRUE
    MaxPlayers = 2
    EntitySpan = 2
    MaxReceivers = 1
    MaxChats = 3
SYMMETRY Symmetry
CONSTRAINT StaysOpen
INVARIANTS
    TypeOK
    RunnerExclusive
    LockOrder
    ChatOrder
