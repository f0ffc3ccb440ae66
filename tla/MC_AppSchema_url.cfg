CONSTANTS
    Branches <- MCBranches
    DefaultBranch = "main"
    BranchLists <- MCLists
    MaxNav = 2
SPECIFICATION Spec
INVARIANT SchemaMatchesUrl
