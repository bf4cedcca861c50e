SPECIFICATION Spec
CONSTANTS
    Releases = {r1}
    Handlers = {h1, h2}
    Checks = {test}
    Verdicts = {"Passed", "Blocked"}
    ResponseIds = {i1}
    Nobody = Nobody
    MaxRounds = 1
    Faults = {}
SYMMETRY Symmetry
PROPERTIES
    DuplicateGetsConflict
