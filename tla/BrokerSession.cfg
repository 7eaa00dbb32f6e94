SPECIFICATION Spec
CONSTANTS
    Inst = {a}
    None = None
    MaxCalls = 3
    MaxIo = 3
    ClosesToAbort = TRUE
INVARIANTS
    TypeOK
    NoSuccessAfterLostIo
    CloseIsExclusive
PROPERTIES
    OnlyServedRequestsReturn
    FinishIsIntact

\* Sessions end for good; nothing is left to do once all of them have.
CHECK_DEADLOCK FALSE
