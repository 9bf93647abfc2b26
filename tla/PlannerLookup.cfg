CONSTANTS
    Path <- MCOneRoute
    FirstGoal = 7
    Poses = {2, 4, 5, 6}
    Steps <- MCSteps
    GoalRadius = 2
    PassRadius = 2
    TouchRadius = 1
    BufferSize = 2
    History = 2
    Drivers = {"manual"}
    None = None
    Undefined = Undefined
SPECIFICATION Spec
INVARIANT LookupIsDefined
