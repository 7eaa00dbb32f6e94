SPECIFICATION Spec
CONSTANTS
    Media <- MCMedia
    MaxRange = 3
    MaxSector = 2
    U16 = 3
    U32 = 8
    U64 = 8
    Offsets <- MCOffsets
    Lengths <- MCLengths
    MaxWrites = 2
    MaxChanges = 1
INVARIANTS
    TypeOK
    CommandsCoverTheRange
    OkIsExact
    ReplacementIsTold
PROPERTIES
    OnlyTheRangeChanges
    ServesBytes
