SPECIFICATION Spec
CONSTANTS
    Handlers = {h1, h2}
    MaxTime = 4
    MaxRounds = 3
    Faults = {"technical", "setback"}
SYMMETRY Symmetry
CHECK_DEADLOCK FALSE
INVARIANTS
    TypeOK
    NothingIsRefused
    TimelineInOrder
    RoundsInOrder
    ReleaseIsReadable
PROPERTIES
    FailureIsRecorded
