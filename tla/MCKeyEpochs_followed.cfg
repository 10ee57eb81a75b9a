SPECIFICATION Spec
CONSTANTS
    Walks = {k1, k2}
    MaxEpoch = 2
    MaxEdits = 1
    MaxOps = 4
    MaxTroubles = 1
CHECK_DEADLOCK FALSE
INVARIANTS
    TypeOK
    EditKept
    ReplacedNotStored
    WaitIsWatched
PROPERTIES
    EditsStored
    KeysFollowed
