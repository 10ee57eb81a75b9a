SPECIFICATION Spec
CONSTANTS
    Subscribed = TRUE
    Undisturbed = TRUE
    PageRows = 1
    FutureLimit = 3
    MaxLog = 2
    MaxOwn = 0
    MaxEpoch = 1
    OwnSnaps = 1
    PeerSnaps = 1
    MaxDrops = 1
    MaxRestarts = 0
CHECK_DEADLOCK FALSE
INVARIANTS
    GapPursued
    PruneLosesNothing
PROPERTY KeepsUp
