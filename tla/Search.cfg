CONSTANTS
    Chunks <- MCChunks
    NameOf <- MCNameOf
    CharsOf <- MCCharsOf
    Stores <- MCStores
    Queries <- MCQueries
    LateQueries <- MCLateQueries
    Configs <- MCConfigs
    RrfK = 2
    PreviewMax = 3
    NaN = NaN
    None = None
    Faults = {"embed", "lexical", "dense", "fetch"}
    MaxCommits = 1
SPECIFICATION Spec
INVARIANTS
    RetrieversExact
    FusionRespectsBothRankings
    ReadyAnswerIsWhole
    FrozenAnswerIsOneCopy
