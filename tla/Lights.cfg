CONSTANTS
    N = 4
    GreenTime = 5
    YellowTime = 2
    RedTime = 2
    Unknown = 12
    MaxLag = 4
SPECIFICATION Spec
PROPERTIES RemainingIsExact NeverTooLong
