SPECIFICATION FairSpec
CONSTANTS
    Inst = {a}
    None = None
    MaxCalls = 1
    MaxIo = 1
    ClosesToAbort = FALSE
PROPERTIES
    TimeoutClosesTheTransport

\* Sessions end for good; nothing is left to do once all of them have.
CHECK_DEADLOCK FALSE
