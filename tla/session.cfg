SPECIFICATION FairSpec
CONSTANTS
    MaxChats = 2
    MaxStrays = 1
CHECK_DEADLOCK FALSE
INVARIANTS
    SessionTypeOK
    ReadsAgree
    FramingsMeet
    NotBothWaiting
    FailureExplained
    NeverOnline
PROPERTIES
    CallReturns
    DialogueEnds
    ChatHeard
