SPECIFICATION Spec
CONSTANTS
    Releases = {r1}
    Handlers = {h1, h2}
    Checks = {test}
    Verdicts = {"Passed", "Blocked"}
    ResponseIds = {i1}
    Nobody = Nobody
    MaxRounds = 2
    Faults = {}
SYMMETRY Symmetry
PROPERTIES
    StaleFormChangesNothing
