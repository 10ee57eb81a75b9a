SPECIFICATION Spec
CONSTANTS
    Creates = FALSE
    Calm = {"waits", "refusals"}
    MaxEdits = 0
    MaxPeerEdits = 2
    MaxGen = 2
    MaxDeletes = 1
    MaxDrops = 1
CHECK_DEADLOCK FALSE
INVARIANT OnlyEditsRevive
