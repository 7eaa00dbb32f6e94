SPECIFICATION FairSpec
INVARIANTS
    TypeOK
    ExitOkMeansClean
PROPERTIES
    ReleasedAfterDrain
    ProbeEnds
CHECK_DEADLOCK FALSE
