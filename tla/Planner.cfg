CONSTANTS
    Path <- MCRoutes
    FirstGoal = 11
    Poses = {2, 4, 5, 6, 8, 9}
    Steps <- MCSteps
    GoalRadius = 2
    PassRadius = 2
    TouchRadius = 1
    BufferSize = 3
    History = 5
    Drivers = {"auto", "manual"}
    None = None
    Undefined = Undefined
SPECIFICATION Spec
INVARIANTS
    RouteIsWhole
    BufferIsUnderWay
    BehindIsInOrder
    ReportedOnce
PROPERTIES
    NoNewCommandAtGoal
    LookupNeverLooksBack
