SPECIFICATION Spec
CONSTANTS
    Sections = {"Test"}
    Rates = {94990, 94996}
    Texts = {"release", "other", "service", "another", "finding", "suite"}
    Second = 2
    Fold = 12
    Hour = 2
    TestInputs <- Tests
    SecurityInputs <- Scans
    ChangeInputs <- Changes
    MaxRounds = 2
    Absent = Absent
    ReleaseVersion = "release"
    ServiceName = "service"
    Window <- DeploymentWindow
CHECK_DEADLOCK FALSE
PROPERTIES
    UntouchedStaysBlocked
