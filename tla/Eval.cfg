CONSTANTS
    Worlds <- MCWorlds
    MaxSymbols = 2
    MinWords = 4
    None = None
SPECIFICATION Spec
INVARIANTS
    CommitLabelsAreScorable
    HeldOutIndexIsFair
    FiguresAgree
