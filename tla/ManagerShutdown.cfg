CONSTANTS
    r1 = r1
    r2 = r2
    r3 = r3
    Roles = {r1, r2, r3}
    Ids = {i1}
    Totals <- MCTotals
    Unknown = {r2}
    MayThrow = {r3}
    NoConfig = NoConfig
SPECIFICATION FairSpec
PROPERTY
    ShutdownCompletes
