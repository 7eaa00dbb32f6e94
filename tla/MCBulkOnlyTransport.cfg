SPECIFICATION Spec
CONSTANTS
    Commands <- MCCommands
    MaxChunk = 2
    CswLength = 2
    TagModulus = 3
INVARIANTS
    TypeOK
    FramingInSync
    VerdictIsTheDevices
PROPERTIES
    MeetsContract
