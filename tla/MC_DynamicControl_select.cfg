CONSTANTS
    Fields <- SelectFields
    Type <- SelectType
    Parents <- MCParents
INIT Init
NEXT Next
INVARIANT ShownMatchesCommitted
