CONSTANTS
    h1 = h1
    h2 = h2
    h3 = h3
    f1 = f1
    f2 = f2
    f3 = f3
    Hashes = {h1, h2}
    Files = {f1, f2}
    NoFile = NoFile
    Opaque = Opaque
    Trees <- OpaqueTrees
    NoCommit = NoCommit
    Policy = "IndexWorktree"
    EmbedBatch = 1
    CompactPercent = 20
    Reindex = TRUE
    WorktreeEdits = TRUE
    ConcurrentEdits = TRUE
    KillPoints = {}
    MaxEdits = 2
SPECIFICATION Spec
INVARIANTS
    Reconciles
    LexicalMirrorsStore
