SPECIFICATION FairSpec
CONSTANTS
    Inst = {a, b}
    None = None
    MaxCalls = 1
    MaxIo = 1
    ClosesToAbort = FALSE
INVARIANTS
    CloseIsExclusive
PROPERTIES
    OpsAreExclusive
    HonoursLease

\* Sessions end for good; nothing is left to do once all of them have.
CHECK_DEADLOCK FALSE
