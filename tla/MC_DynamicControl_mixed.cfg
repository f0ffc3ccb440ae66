CONSTANTS
    Fields <- MixedFields
    Type <- MixedType
    Parents <- MCParents
INIT Init
NEXT Next
INVARIANTS
    TypeOK
