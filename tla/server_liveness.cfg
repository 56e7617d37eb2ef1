SPECIFICATION ResponsiveSpec
CONSTANTS
    Loops = {l1}
    NoOne = NoOne
    MaxSignals = 0
    Conns = {c1, c2}
    Names = {n1}
    Online = TRUE
    MaxPlayers = 2
    EntitySpan = 2
    MaxReceivers = 1
    MaxChats = 1
CONSTRAINT StaysOpen
PROPERTIES
    HandlersFinish
    PacketsFinish
