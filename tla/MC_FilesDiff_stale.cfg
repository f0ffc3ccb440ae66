CONSTANTS
    Params <- MCParams
    NoBranch = "nobranch"
    MaxMounts = 2
    MaxChanges = 2
SPECIFICATION Spec
INVARIANT DiffMatchesParams
CHECK_DEADLOCK FALSE
