SPECIFICATION Spec
CONSTANTS
    Releases = {r1, r2}
    Handlers = {h1, h2}
    Checks = {test}
    Verdicts = {"Passed"}
    ResponseIds = {i1}
    Nobody = Nobody
    MaxRounds = 2
    Faults = {}
SYMMETRY Symmetry
INVARIANTS
    IInv
PROPERTIES
    ImplementsLifecycle
