SPECIFICATION Spec
CONSTANTS
    Owner = owner
    Members = {m}
    Devices = {a, b}
    Replacing = {owner}
    MaxChanges = 2
    MaxTroubles = 0
SYMMETRY Symmetric
CHECK_DEADLOCK FALSE
INVARIANT OwnerKeepsUp
