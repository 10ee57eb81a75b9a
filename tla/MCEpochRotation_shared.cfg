SPECIFICATION Spec
CONSTANTS
    Owner = owner
    Members = {m}
    Devices = {a, b}
    Replacing = {owner, m}
    MaxChanges = 1
    MaxTroubles = 1
SYMMETRY Symmetric
CHECK_DEADLOCK FALSE
INVARIANTS
    TypeOK
    NoEpochLost
    LeaversShutOut
PROPERTY VaultKeepsWhatItHolds
