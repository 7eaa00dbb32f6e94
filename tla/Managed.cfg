SPECIFICATION FairSpec
CONSTANTS
    OpenLimit = 8
    InitLimit = 2
    CloseLimit = 2
INVARIANTS
    TypeOK
    ReceiptIsTrue
    ReadyIsOwned
    OpenIsBounded
PROPERTIES
    CallsReturn
