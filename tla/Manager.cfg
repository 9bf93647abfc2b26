CONSTANTS
    r1 = r1
    r2 = r2
    r3 = r3
    Roles = {r1, r2, r3}
    Ids = {i1, i2}
    Totals <- MCTotals
    Unknown = {r2}
    MayThrow = {r3}
    NoConfig = NoConfig
SPECIFICATION FairSpec
INVARIANTS
    Stations
    OneDriverPerRole
    StartsWhenComplete
    PendingIsLookedAfter
PROPERTY
    AcceptedIsServed
