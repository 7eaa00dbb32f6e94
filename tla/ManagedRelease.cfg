SPECIFICATION Spec
CONSTANTS
    OpenLimit = 8
    InitLimit = 2
    CloseLimit = 2
INVARIANTS
    ReleaseIsAwaited
