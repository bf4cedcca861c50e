SPECIFICATION Spec
CONSTANTS
    Releases = {r1}
    Handlers = {h1, h2}
    Checks = {test}
    Verdicts = {"Passed", "Blocked"}
    ResponseIds = {i1, i2}
    Nobody = Nobody
    MaxRounds = 2
    Faults = {"crash", "cancel", "commit", "checkpoint", "technical", "transient"}
SYMMETRY Symmetry
INVARIANTS
    TypeOK
    TurnsExclude
    OneOpenQuestion
    TurnFindsWhatItLeft
    ApprovalCoversCurrentEvidence
    TimelineAccountsForRows
PROPERTIES
    EndedIsFinal
    FailureKeepsHistory
    DecisionReplyIsTrue
    RemediationReplyIsTrue
    ImplementsLifecycle
