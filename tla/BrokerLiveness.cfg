SPECIFICATION FairSpec
CONSTANTS
    Inst = {a}
    None = None
    MaxCalls = 2
    MaxIo = 2
    ClosesToAbort = FALSE
PROPERTIES
    CallsSettle
    OpenSettles
    AbortSettles

\* Sessions end for good; nothing is left to do once all of them have.
CHECK_DEADLOCK FALSE
