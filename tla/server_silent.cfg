SPECIFICATION ServerFairSpec
CONSTANTS
    Loops = {l1}
    NoOne = NoOne
    MaxSignals = 0
    Conns = {c1, c2}
    Names = {n1, n2}
    Online = FALSE
    MaxPlayers = 2
    EntitySpan = 2
    MaxReceivers = 1
    MaxChats = 1
CONSTRAINT OnlyPlayers
PROPERTIES
    ChatReachesAll
