SPECIFICATION FairSpec
CONSTANTS
    Inserts = {i1}
    Deletes = {d1}
    MaxOps = 5
    MaxCloses = 1
    MaxCrashes = 1
    MaxRefusals = 1
INVARIANTS
    TypeOK
    AtMostOnce
    DurableBeforeSent
    BaselineSound
    UnsentIsTokened
    IdleStrandsNothing
PROPERTIES
    NoEmptyAppends
    EditsArrive
    ImplementsReliableOutbox
