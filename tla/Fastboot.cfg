SPECIFICATION FairSpec
CONSTANTS
    Blocks = 2
    MaxWire = 2
INVARIANTS
    TypeOK
    KeptMeansFramed
    DoubtClosesTheDevice
PROPERTIES
    FlashOkMeansWritten
    CallsReturn
