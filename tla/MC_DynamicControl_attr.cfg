CONSTANTS
    Fields <- AttrFields
    Type <- AttrType
    Parents <- MCParents
INIT Init
NEXT Next
INVARIANTS
    ShownMatchesCommittedSound
