SPECIFICATION FairSpec
CONSTANTS
    Clients = {c1, c2}
    Requests = {"Hello", "Search", "Index"}
    Permits = 1
    MaxGen = 0
    MaxDir = 0
    Faults = {"load", "index"}
PROPERTIES Answered IndexFlagReleased IdleDaemonExits
CHECK_DEADLOCK FALSE
