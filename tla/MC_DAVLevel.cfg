CONSTANTS
    MaxLen <- MC_MaxLen
    MaxElems <- MC_MaxElems
SPECIFICATION Spec
INVARIANT TypeOK
INVARIANT LevelIsMaxListed
PROPERTY ParseTerminates
CHECK_DEADLOCK FALSE
