SPECIFICATION Spec
CONSTANTS
    Releases = {r1}
    Handlers = {h1, h2}
    Checks = {test}
    Verdicts = {"Passed", "Blocked"}
    ResponseIds = {i1}
    Nobody = Nobody
    MaxRounds = 3
    Faults = {"technical"}
SYMMETRY Symmetry
INVARIANTS
    AcceptedFormsFit
    WaitIsResumable
PROPERTIES
    RemediationReplyIsTrue
    ImplementsEvaluation
