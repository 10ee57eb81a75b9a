SPECIFICATION Spec
CONSTANTS
    Subscribed = TRUE
    Undisturbed = FALSE
    PageRows = 1
    FutureLimit = 1
    MaxLog = 3
    MaxOwn = 1
    MaxEpoch = 2
    OwnSnaps = 0
    PeerSnaps = 0
    MaxDrops = 0
    MaxRestarts = 1
CHECK_DEADLOCK FALSE
INVARIANTS
    TypeOK
    WatermarkHonest
