SPECIFICATION Spec
CONSTANTS
    Creates = TRUE
    Calm = {"waits", "refusals", "deletions"}
    MaxEdits = 1
    MaxPeerEdits = 2
    MaxGen = 3
    MaxDeletes = 1
    MaxDrops = 1
CHECK_DEADLOCK FALSE
INVARIANTS
    TypeOK
    Converged
    DeletedStaysDeleted
    RevivalKept
PROPERTY Settles
