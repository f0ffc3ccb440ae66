CONSTANTS
    Fields <- NumFields
    Type <- NumType
    Parents <- MCParents
INIT Init
NEXT Next
INVARIANT ShownMatchesCommitted
