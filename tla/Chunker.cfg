CONSTANTS
    Inputs <- MCInputs
    Limit = 4
    PreludeMin = 2
    None = None
SPECIFICATION Spec
INVARIANTS
    NothingLost
    FragmentsFollow
    RecordsDescribe
    RoutesAgree
