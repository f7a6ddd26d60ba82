CONSTANTS
    h1 = h1
    h2 = h2
    f1 = f1
    f2 = f2
    Hashes = {h1, h2}
    Files = {f1}
    Commits = {c1}
    NoCommit = NoCommit
    NoRec = NoRec
    ZeroVec = ZeroVec
    Generations = {g0, g1, g2}
    DefaultGen = g0
    Batches <- OneFileBatches
    MaxRows = 2
    Faults = {"kill", "compact", "reopen", "remove"}
    KeepHandle = FALSE
SPECIFICATION Spec
INVARIANTS
    OpenNeverRefused
    IdleHandleIsSound
    CompactionMapsRows
