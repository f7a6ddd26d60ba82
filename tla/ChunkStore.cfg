CONSTANTS
    h1 = h1
    h2 = h2
    f1 = f1
    f2 = f2
    Hashes = {h1, h2}
    Files = {f1, f2}
    Commits = {c1}
    NoCommit = NoCommit
    NoRec = NoRec
    ZeroVec = ZeroVec
    Generations = {g0, g1}
    DefaultGen = g0
    Batches <- SmallBatches
    MaxRows = 3
    Faults = {"kill", "append", "commit", "rollback", "compact", "reopen"}
    KeepHandle = FALSE
SPECIFICATION Spec
INVARIANTS
    VectorsMatchRecords
    OneLiveRowPerHash
    StoreInv
PROPERTIES
    RowsNeverMove
    InsertReturnsRows
    ImplementsChunkSet
