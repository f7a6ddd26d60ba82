CONSTANTS
    h1 = h1
    h2 = h2
    h3 = h3
    f1 = f1
    f2 = f2
    f3 = f3
    Hashes = {h1, h2, h3}
    Files = {f1, f2, f3}
    NoFile = NoFile
    Opaque = Opaque
    Trees <- StableTrees
    NoCommit = NoCommit
    Policy = "IndexWorktree"
    EmbedBatch = 2
    CompactPercent = 20
    Reindex = TRUE
    WorktreeEdits = FALSE
    ConcurrentEdits = FALSE
    KillPoints = {"changes", "parse", "consume", "chunks", "compact"}
    MaxEdits = 1
SPECIFICATION Spec
INVARIANTS
    LexicalMirrorsStore
    IndexComplete
