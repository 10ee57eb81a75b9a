SPECIFICATION Spec
CONSTANTS
    Processes = {p1, p2, p3, p4, p5}
    MaxDeaths = 2
CHECK_DEADLOCK FALSE
INVARIANTS
    TypeOK
    HoldersApart
PROPERTIES
    StaleIsCleared
