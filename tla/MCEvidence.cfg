SPECIFICATION Spec
CONSTANTS
    Releases = {r1}
    Handlers = {h1}
    Checks = {test, security}
    Verdicts = {"Passed", "Blocked"}
    ResponseIds = {i1}
    Nobody = Nobody
    MaxRounds = 3
    Faults = {"transient"}
SYMMETRY Symmetry
INVARIANTS
    ApprovalCoversCurrentEvidence
    ReuseIsJustified
PROPERTIES
    ImplementsEvaluation
