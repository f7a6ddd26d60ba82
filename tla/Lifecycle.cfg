SPECIFICATION Spec
CONSTANTS
    Clients = {c1, c2}
    Daemons = {d1, d2, d3}
    None = None
    StaleFile = StaleFile
    Requests = {"search", "index", "shutdown"}
    MaxFaults = 1
SYMMETRY ProcessSymmetry
INVARIANTS SocketLeadsToServer StoreSharedOnlyWithLeaver SearchFailsOnlyWhenDisturbed NobodyWaitsForTheGone LifecycleInv
