SPECIFICATION BusyListenerSpec
CONSTANTS
    Loops = {l1}
    NoOne = NoOne
    MaxSignals = 1
PROPERTIES
    StopEndsBusyServer
