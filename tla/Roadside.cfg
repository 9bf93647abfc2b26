CONSTANTS
    Vehicles = {v1, v2}
    Workers = {w1, w2}
    None = None
    MaxReceived = 3
SPECIFICATION FairSpec
INVARIANTS
    OnlyLateStays
    QueueIsLookedAfter
PROPERTIES
    EveryVehicleIsEntered
    DestructorReturns
