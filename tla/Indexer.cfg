CONSTANTS
    h1 = h1
    h2 = h2
    h3 = h3
    f1 = f1
    f2 = f2
    f3 = f3
    Hashes = {h1, h2}
    Files = {f1, f2}
    NoFile = NoFile
    Opaque = Opaque
    Trees <- AllTrees
    NoCommit = NoCommit
    Policy = "IndexWorktree"
    EmbedBatch = 1
    CompactPercent = 20
    Reindex = FALSE
    WorktreeEdits = FALSE
    ConcurrentEdits = FALSE
    KillPoints = {}
    MaxEdits = 2
SPECIFICATION Spec
INVARIANTS
    IndexerInv
    NoGhostRows
