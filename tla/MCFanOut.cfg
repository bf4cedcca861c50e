SPECIFICATION FairSpec
CONSTANTS
    Checks = {test, security}
    Verdicts = {"Passed"}
    MaxRounds = 2
    Faults = {"transient", "technical", "cancel"}
CHECK_DEADLOCK FALSE
INVARIANTS
    IInv
    OneReader
    RetriesAreExact
    ResultsAreAccepted
PROPERTIES
    ImplementsEvaluation
    TurnEnds
