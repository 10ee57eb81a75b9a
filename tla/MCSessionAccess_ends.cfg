SPECIFICATION Spec
CONSTANTS
    Sockets = {s1, s2}
    Tokens = {t1, t2, t3}
    MaxTroubles = 3
CHECK_DEADLOCK FALSE
INVARIANTS
    TypeOK
    OneNextStep
PROPERTIES
    RefusedNotPresented
    ComesBackOrEnds
