SPECIFICATION Spec
CONSTANTS
    Profiles = {p1, p2}
    Offline = {p2}
    Calls = {k1, k2, k3}
    Logins = {l1, l2}
    NoOne = NoOne
    UrlName = UrlName
    Sha1 <- SomeDigests
    Half = 4
    Width = 3
    OverflowChecks = TRUE
SYMMETRY Symmetry
CHECK_DEADLOCK FALSE
INVARIANTS
    AuthTypeOK
    VerifiedHasJoined
    HashIsSignedHex
    JoinsAsSelected
    TokenLossExplained
