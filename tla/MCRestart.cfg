SPECIFICATION Spec
CONSTANTS
    Releases = {r1}
    Handlers = {h1}
    Checks = {test}
    Verdicts = {"Passed", "Blocked"}
    ResponseIds = {i1}
    Nobody = Nobody
    MaxRounds = 2
    Faults = {"crash"}
SYMMETRY Symmetry
INVARIANTS
    WaitSurvivesRestart
