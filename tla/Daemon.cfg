SPECIFICATION Spec
CONSTANTS
    Clients = {c1, c2}
    Requests = {"Hello", "BadHello", "Malformed", "Status", "Search", "GetSymbol", "Index", "Shutdown"}
    Permits = 1
    MaxGen = 1
    MaxDir = 1
    Faults = {"load", "index", "split", "panic"}
SYMMETRY ClientSymmetry
INVARIANTS DaemonInv SingleWriter IndexFlagExact ExitAnswersEveryone SearchesSeeCommitted RefusesReplacedStore
CHECK_DEADLOCK FALSE
