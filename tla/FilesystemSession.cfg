SPECIFICATION Spec
CHECK_DEADLOCK FALSE
INVARIANTS
    TypeOK
    WrittenOnlyWhenAsked
    UsableMeansWhole
    OkMeansPublished
    ReadOnlyRetiresForCause
