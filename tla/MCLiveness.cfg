SPECIFICATION FairSpec
CONSTANTS
    Releases = {r1}
    Handlers = {h1, h2}
    Checks = {test}
    Verdicts = {"Passed"}
    ResponseIds = {i1}
    Nobody = Nobody
    MaxRounds = 2
    Faults = {"technical", "checkpoint"}
PROPERTIES
    HandlersReturn
    EvaluationEnds
