CONSTANTS
    Params <- MCParams
    NoBranch = "nobranch"
    MaxMounts = 2
    MaxChanges = 2
SPECIFICATION Spec
INVARIANT TypeOK
INVARIANT LoadingHasFetch
PROPERTY LoadingEnds
CHECK_DEADLOCK FALSE
