SPECIFICATION Spec
CONSTANTS
    Docs = {d1, d2}
    Windows = {1, 2}
    MaxOps = 2
    MaxCloses = 1
    MaxRefusals = 1
SYMMETRY Symmetric
CHECK_DEADLOCK FALSE
INVARIANTS
    TypeOK
    NoLostWakeup
    NothingStalls
    RoomyAppliesOnce
