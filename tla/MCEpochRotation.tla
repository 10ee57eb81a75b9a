--------------------------- MODULE MCEpochRotation ---------------------------
EXTENDS EpochRotation, TLC
Symmetric == Permutations(Devices)
=============================================================================
