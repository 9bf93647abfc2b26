CONSTANTS
    a = a
    b = b
    c = c
    N = 4
    Roles = {a, b, c}
    RoleName <- MCFour
    NoPoint = {4}
    Unknown = {}
    MayThrow = {b}
    NoConfig = NoConfig
    Depth = 1
    AckLoss = TRUE
SPECIFICATION FairSpec
INVARIANTS
    StartTogether
    SilentOnlyWhenServed
    ResendsAreKnown
PROPERTIES
    ImplementsFleetLaunch
    NumberIsReachable
    ScenarioStarts
    RepetitionEnds
