SPECIFICATION Spec
CONSTANTS
    Subscribed = TRUE
    Undisturbed = FALSE
    PageRows = 2
    FutureLimit = 3
    MaxLog = 3
    MaxOwn = 0
    MaxEpoch = 2
    OwnSnaps = 0
    PeerSnaps = 1
    MaxDrops = 0
    MaxRestarts = 0
CHECK_DEADLOCK FALSE
INVARIANT WatermarkHonest
